SPECIFICATION FairSpec
CONSTANTS
  c1 = c1
  c2 = c2
  Client = {c1, c2}
  Kind <- MCKind
  registered = {"Message"}
  Late = {}
  handlerScript <- MCScript
  mainScript <- MCIdle
  Workers = 2
  OnGlobalLoop = TRUE
  Capacity = 1
  MaxEvents <- MCFewEvents
  None = None
PROPERTY StopAllStops
CHECK_DEADLOCK FALSE
