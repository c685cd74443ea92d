SPECIFICATION ServeLiveSpec
CONSTANTS
  Connection = {c1, c2, c3, c4}
  Profile = {p1}
  NoOne = NoOne
  MaxConnections = 3
  MaxConcurrent = 2
INVARIANTS
  NothingLeaks
  ShutsOwnSocket
  MintsAreThrottled
PROPERTIES
  ConnectionsEnd
