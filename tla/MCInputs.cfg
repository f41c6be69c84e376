SPECIFICATION Spec
CONSTANTS
  UMax = 6001
  IMax = 3000
  DEFAULT_INVOICE_EXPIRY_SECS = 3600
  REPLAY_RETENTION_SECS = 3600
  MaxEdits = 3
INVARIANTS
  StartedConfigsFitX402
  PublicUrlIsTheClients
  HashIdentifiesRequest
  ValidParamsAreCanonical
  ProbeFindsServer
CHECK_DEADLOCK FALSE
