SPECIFICATION FairSpec
CONSTANTS
  c1 = c1
  c2 = c2
  Client = {c1, c2}
  Kind <- MCKind
  registered = {"Message", "Shutdown"}
  Late = {}
  handlerScript <- MCScript
  mainScript <- MCIdle
  Workers = 3
  OnGlobalLoop = TRUE
  Capacity = 1
  MaxEvents <- MCFewEvents
  None = None
PROPERTIES EventsHandled StopAllStops
CHECK_DEADLOCK FALSE
