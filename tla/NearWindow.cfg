CONSTANTS
  MaxTurns = 6
  MaxAttempts = 2
  StopHooks <- MCStopHooks
  Verifier = "verifier"
  NeedsText = {"verifier"}
  MayOmitReason = {"user"}
  Initial <- MCFirst
  Threshold = 2
  Growth = 1
  MaxTokens = 3
  MaxRuns = 1
SPECIFICATION Spec
INVARIANT
  NearWindowCompacts
