CONSTANTS
  MaxRequests = 2
  MaxMishaps = 1
SPECIFICATION Spec
INVARIANT KeepsValidLines
CHECK_DEADLOCK FALSE
