SPECIFICATION FairSpec
CONSTANTS
  s1 = s1
  s2 = s2
  Session = {s1, s2}
  Goroutine = {g1}
  Caller = {c1}
  Uuid = {"a"}
  uuidOf <- MCShared
  PairMode = {s2}
  Kind <- MCLoginKind
  EmptyKind = {}
  subscribers <- MCLoginSubscribers
  Capacity = 1
  MaxEvents = 3
  MaxStops = 1
  Serial = TRUE
  None = None
INVARIANTS OwnEvents PairedBeforeDevice
PROPERTIES StopEndsLoop EventsReachPython FullChannelDrains
CHECK_DEADLOCK FALSE
