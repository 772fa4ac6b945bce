CONSTANTS
  MaxTurns = 3
  MaxAttempts = 2
  StopHooks <- MCStopHooks
  Verifier = "verifier"
  NeedsText = {"verifier"}
  MayOmitReason = {"user"}
  Initial <- MCInitial
  Threshold = 1
  Growth = 1
  MaxTokens = 2
  MaxRuns = 1
SPECIFICATION Spec
INVARIANT
  NoEmptyMessageSent
