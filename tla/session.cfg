SPECIFICATION Spec
CONSTANTS
  s1 = s1
  s2 = s2
  Session = {s1}
  Goroutine = {g1, g2}
  Caller = {c1, c2}
  Uuid = {"a"}
  uuidOf <- MCDistinct
  PairMode = {}
  Kind <- MCKind
  EmptyKind = {"Restored"}
  subscribers <- MCSubscribers
  Capacity = 2
  MaxEvents = 3
  MaxStops = 2
  Serial = TRUE
  None = None
INVARIANTS TypeOK InOrderNoLoss DeviceFirst OnlySubscribed ParkedLoopHasNothing ClosedChannelsLeave
PROPERTIES NilMessageOnlyAwake KeepsPromise
CHECK_DEADLOCK FALSE
