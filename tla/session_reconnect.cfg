SPECIFICATION FairSpec
CONSTANTS
  s1 = s1
  s2 = s2
  Session = {s1}
  Goroutine = {g1, g2}
  Caller = {c1}
  Uuid = {"a"}
  uuidOf <- MCDistinct
  PairMode = {s1}
  Kind <- MCLoginKind
  EmptyKind = {}
  subscribers <- MCLoginSubscribers
  Capacity = 1
  MaxEvents = 3
  MaxStops = 1
  Serial = TRUE
  None = None
PROPERTIES ConnectedGetsThrough
CHECK_DEADLOCK FALSE
