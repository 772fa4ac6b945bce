CONSTANTS
  MaxRequests = 3
  MaxMishaps = 1
SPECIFICATION Spec
INVARIANTS
  TypeOK
  WindowMatchesLog
  FreezeSpentOnce
  DeletedStaysDeleted
  LossBounded
  ReplyFollowsQuestion
  RenameSticks
CHECK_DEADLOCK FALSE
