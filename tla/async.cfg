SPECIFICATION FairSpec
CONSTANTS
  c1 = c1
  c2 = c2
  Client = {c1, c2}
  Kind <- MCKind
  registered = {"Connected"}
  Late = {"Message"}
  handlerScript <- MCScript
  mainScript <- MCCallThenIdle
  Workers = 4
  OnGlobalLoop = TRUE
  Capacity = 1
  MaxEvents <- MCFewEvents
  None = None
INVARIANTS TypeOK HandlersInOrder FlagsFirst IdleSeesAll
CHECK_DEADLOCK FALSE
