SPECIFICATION ServerSpec
CONSTANTS
  p1 = p1
  p2 = p2
  k1 = k1
  k2 = k2
  Preimages = {p1, p2}
  Handlers = {r1}
  RootKeys = {k1, k2}
  Requests <- OneRequest
  Configs <- OneConfig
  UMax = 31
  IMax = 15
  DEFAULT_INVOICE_EXPIRY_SECS = 1
  REPLAY_RETENTION_SECS = 1
  MaxTime = 2
  MaxBack = 0
  MaxStall = 1
  Drift = 0
SYMMETRY Symmetry
INVARIANTS
  ServerInv
  RoutesAreSeparate
PROPERTIES
  GrantsAreForOwnTokens
