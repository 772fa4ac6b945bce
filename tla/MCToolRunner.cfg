CONSTANTS
  Call = {rd, bad, wr}
  Safe = {rd, bad}
  Runnable = {rd, wr}
  NoCall = NoCall
  MaxConcurrency = 2
  RepeatLimit = 3
  MaxCalls = 3
  MaxTurns = 2
SPECIFICATION LiveSpec
INVARIANTS
  TypeOK
  SlotsAccounted
  UnsafeRunsAlone
  GuardExact
  OnlyClearedCallsRun
PROPERTIES
  TurnSpec
  TurnCompletes
