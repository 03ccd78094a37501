SPECIFICATION FairSpec
CONSTANTS
  s = s
  t = t
  s1 = s1
  s2 = s2
  s3 = s3
  t1 = t1
  t2 = t2
  f1 = f1
  f2 = f2
  x1 = x1
  x2 = x2
  Streams = {s, t}
  Script <- MCScript
  Broken = {t2}
  NFiles = 2
  MaxEvents = 2
  MaxStarts = 2
  MaxFailures = 1
  Files = {f1, f2}
  Tenants = {x1, x2}
  TenantOf <- MCTenantOf
  Labels = {storm}
  NoType = untyped
  MaxLines = 2
  MaxFaults = 1
  MaxScrapes = 1
INVARIANTS
  StreamAnswersAreTrue
  RestartsLoseNothing
  MetricsAreTrue
PROPERTY WorkEnds
