SPECIFICATION Spec
CONSTANTS
  a = a
  b = b
  c = c
  Agents <- MCAgents
  Calls = {c1, c2}
  Files <- MCFiles
  Unit = 4
  Second = 4
  DefaultRate = 1
  DefaultBurst = 8
  MaxNow = 4
  MaxCalls = 4
INVARIANTS
  WithinLimit
  RetryAfterHelps
  CurrentLimits
