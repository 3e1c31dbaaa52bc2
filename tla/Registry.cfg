SPECIFICATION Spec
CONSTANTS
  Joins = {j1}
  Attaches = {a1}
  Hosts = {h1}
  Buffer = 2
  StoreMayFail = TRUE
  None = None
INVARIANTS TypeOK OneRoomServes DoneIsForgotten AttachedIsTold JoinedPlayerIsKnown
CHECK_DEADLOCK FALSE
