SPECIFICATION AllSpec
CONSTANTS
  MaxCalls = 5
  MaxRestarts = 3
  EditCalls = 4
  EditRestarts = 2
  ReadCalls = 4
  ReadStarts = 3
INVARIANTS
  NoFalseAlarm
  NeighboursLinked
  NoSilentLoss
  OneLossPerRestart
  
PROPERTIES
  KeepsTrail
CHECK_DEADLOCK FALSE
