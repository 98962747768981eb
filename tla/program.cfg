SPECIFICATION Spec
CONSTANTS
  Parts = {"release", "loader", "media", "client"}
  FirstVersion <- MCFirstVersion
  Chosen <- MCChosen
  MaxUpdates = 3
  Process = {p1, p2}
  Tag = {1, 2}
  Published <- MCPublished
  Chunks = 2
  MaxImports = 3
  NoTag = 0
  k1 = k1
  k2 = k2
  Converter = {k1, k2}
  Asynchronous = {k2}
  Errands <- MCErrands
  MaxTime = 1
  c1 = c1
  Client = {c1, c2}
  OnMain <- MCOnMain
  Kind = {"Connected", "Message"}
  Early = {"Connected"}
  MaxReceived = 2
  Me = Me
INVARIANTS  VersionsOrdered LoaderTypeOK CompleteAtRest MediaTypeOK OwnResult NothingLeft SyncTypeOK CallbackReady
PROPERTIES UpdatesMeet Unrepaired ImportEnds CallsEnd InterruptNoticed SessionsGoOn
CHECK_DEADLOCK FALSE
