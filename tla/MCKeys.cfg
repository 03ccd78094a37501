SPECIFICATION AllSpec
CONSTANTS
  Buckets = {b1, b2}
  MaxKeys = 3
  MaxRotations = 2
  MaxRestarts = 2
  MaxFaults = 1
  Users = {u1, u2, u3}
INVARIANTS
  NoFailedSaveLocksKeys
  KeysSurvive
  ShreddedUnlessSaveFailed
  HeldKeysAreSound
CHECK_DEADLOCK FALSE
