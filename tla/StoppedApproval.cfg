CONSTANTS
  MaxRuns = 1
  MaxAsks = 2
  CallIds = {"call_0"}
  SharedIds = {}
SPECIFICATION Spec
INVARIANT StopSettlesApprovals
CHECK_DEADLOCK FALSE
