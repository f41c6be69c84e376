SPECIFICATION Spec
CONSTANTS
  p1 = p1
  p2 = p2
  r1 = r1
  r2 = r2
  Preimages = {p1}
  Handlers = {r1, r2}
  Requests <- TwoRequests
  Configs <- TermConfigs
  UMax = 31
  IMax = 15
  DEFAULT_INVOICE_EXPIRY_SECS = 1
  REPLAY_RETENTION_SECS = 2
  MaxTime = 3
  MaxBack = 1
  MaxStall = 1
  Drift = 0
SYMMETRY Symmetry
INVARIANTS
  SoldAsOffered
  OfferHonoured
