SPECIFICATION Spec
CONSTANTS
  e1 = e1
  e2 = e2
  e3 = e3
  e4 = e4
  e5 = e5
  e6 = e6
  Events <- MCEvents
  EventTenant <- MCTenant
  EventTime <- MCTime
  DayLength = 5
  Unencodable = {e6}
  Oversized = {e2}
  Filters <- MCFilters
  ChannelSize = 1
  MaxDiskErrors = 2
  MaxStoreStarts = 2
INVARIANTS
  StoredIsIntact
  QueryComplete
  StreamOnceInOrder
PROPERTY StreamDelivers
