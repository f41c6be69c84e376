SPECIFICATION FairSpec
CONSTANTS
  p1 = p1
  p2 = p2
  r1 = r1
  r2 = r2
  Preimages = {p1}
  Handlers = {r1}
  Requests <- OneRequest
  Configs <- OneConfig
  UMax = 31
  IMax = 15
  DEFAULT_INVOICE_EXPIRY_SECS = 1
  REPLAY_RETENTION_SECS = 1
  MaxTime = 4
  MaxBack = 1
  MaxStall = 1
  Drift = 0
PROPERTIES
  ExpiredKeysArePruned
