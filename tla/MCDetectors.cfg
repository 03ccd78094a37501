SPECIFICATION DetectorsSpec
CONSTANTS
  MinSeqLen = 1
  MinReps = 2
  Delays = {0, 1, 2}
  DriftPercent = 50
  MinPrompts = 3
  MaxSameFailures = 2
  RatePercent = 50
  MinCalls = 3
  LoopTools = {a, b, c}
  LoopCalls = 8
  WindowTools = {d, e}
  Window = 3
  WindowCalls = 6
  Sessions = {s1, s2}
  Words = {build, tests}
  Prompts = 5
  DriftRestarts = 1
  Tools = {t1, t2}
  Arguments = {x, y}
  Ways = {spaced, compact}
  MisuseCalls = 4
  MisuseRestarts = 1
INVARIANTS
  LoopsFound
  DriftAsReference
  MisuseFaithful
