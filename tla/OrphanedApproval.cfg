CONSTANTS
  MaxRuns = 2
  MaxAsks = 1
  CallIds = {"call_0", "call_1"}
  SharedIds = {}
SPECIFICATION Spec
INVARIANT ApprovalSurfaced
CHECK_DEADLOCK FALSE
