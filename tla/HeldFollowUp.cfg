CONSTANTS
  MaxRuns = 2
  MaxAsks = 1
  CallIds = {"call_0"}
  SharedIds = {}
SPECIFICATION LiveSpec
PROPERTY FollowUpHeld
CHECK_DEADLOCK FALSE
