SPECIFICATION FairSpec
CONSTANTS
  s1 = s1
  s2 = s2
  Session = {s1}
  Goroutine = {g1}
  Caller = {c1}
  Uuid = {"a"}
  uuidOf <- MCDistinct
  PairMode = {}
  Kind <- MCKind
  EmptyKind = {}
  subscribers <- MCSubscribers
  Capacity = 1
  MaxEvents = 2
  MaxStops = 1
  Serial = TRUE
  None = None
PROPERTIES StopEndsSession
CHECK_DEADLOCK FALSE
