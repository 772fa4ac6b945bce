CONSTANTS
  MaxTurns = 3
  MaxAttempts = 2
  StopHooks <- MCStopHooks
  Verifier = "verifier"
  NeedsText = {"verifier"}
  MayOmitReason = {"user"}
  Initial <- MCInitial
  Threshold = 1
  Growth = 1
  MaxTokens = 2
  MaxRuns = 2
SPECIFICATION LiveSpec
INVARIANTS
  TypeOK
  RequestsPaired
  FrozenIsResumable
  QuotaPauses
  TextShownOnce
  BrakeConverges
PROPERTIES
  ViewOnlyAdvances
  RunSettles
