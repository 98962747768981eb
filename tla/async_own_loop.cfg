SPECIFICATION FairSpec
CONSTANTS
  c1 = c1
  c2 = c2
  Client = {c1, c2}
  Kind <- MCKind
  registered = {"Connected", "Message"}
  Late = {}
  handlerScript <- MCScript
  mainScript <- MCReturn
  Workers = 3
  OnGlobalLoop = FALSE
  Capacity = 1
  MaxEvents <- MCFewEvents
  None = None
PROPERTY ConnectEnters
CHECK_DEADLOCK FALSE
