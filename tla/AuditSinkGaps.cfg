SPECIFICATION Spec
CONSTANTS
  MaxCalls = 3
  MaxRestarts = 1
INVARIANT
  NoGaps
CHECK_DEADLOCK FALSE
