SPECIFICATION FairSpec
CONSTANTS
  a1 = a1
  a2 = a2
  a3 = a3
  b1 = b1
  ka = ka
  kb = kb
  f1 = f1
  f2 = f2
  NoEvent = NoEvent
  Events <- MCEvents
  Keys <- MCKeys
  Files <- MCFiles
  FileOrder <- MCFileOrder
  KeyOf <- MCKeyOf
  FileOf <- MCFileOf
  MaxFailures = 1
  SplitWrites = TRUE
  MaxRestarts = 1
  MaxFaults = 1
INVARIANTS
  SavedBehindRead
  RepeatedByRestartsOnly
  FindingsFaithful
PROPERTY AppendedIsRead
