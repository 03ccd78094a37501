SPECIFICATION MCFairSpec
CONSTANTS
  a = a
  b = b
  a1 = a1
  a2 = a2
  b1 = b1
  h1 = h1
  h2 = h2
  Events <- MCEvents
  Clients <- MCClients
  Handlers <- MCHandlers
  Script <- MCScript
  Renamed <- MCOfA
  FileOf <- MCFileOf
  Denied <- MCNone
  Forged <- MCEventB1
  Invalid <- MCNone
  Unencodable <- MCNone
  MaxRetries = 1
  MaxFaults = 1
  MaxStarts = 1
INVARIANTS
  AnswersAreTrue
  TroubleByLostCallsOnly
PROPERTIES
  AtLeastOnce
  EverySettled
