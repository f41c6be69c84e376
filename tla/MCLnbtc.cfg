SPECIFICATION Spec
CONSTANTS
  UMax = 63
  DEFAULT_INVOICE_EXPIRY_SECS = 2
  REPLAY_RETENTION_SECS = 2
  MaxTime = 6
  MaxEdits = 2
INVARIANTS
  VerifyIsExact
  BindingReasonsToldApart
  IssuedChallengeSettles
CHECK_DEADLOCK FALSE
