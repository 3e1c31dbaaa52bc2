SPECIFICATION FairSpec
CONSTANTS
  Joins = {}
  Attaches = {a1}
  Hosts = {h1}
  Buffer = 2
  StoreMayFail = TRUE
  None = None
PROPERTIES RequestsReturn StoppedRoomsClose
CHECK_DEADLOCK FALSE
