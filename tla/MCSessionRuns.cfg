CONSTANTS
  MaxRuns = 2
  MaxAsks = 1
  CallIds = {"call_0", "call_1"}
  SharedIds = {"call_1"}
SPECIFICATION LiveSpec
INVARIANTS
  TypeOK
  ApprovalsAccounted
  ResumedOnce
  TimerGuardsFreeze
PROPERTIES
  NoGrantAfterStop
  EndedRunFolds
  AbortEndsRun
CHECK_DEADLOCK FALSE
