SPECIFICATION Spec
CONSTANTS
  Joins = {j1}
  Attaches = {a1}
  Hosts = {h1}
  Buffer = 2
  StoreMayFail = FALSE
  None = None
INVARIANT NoRoomAfterEnd
CHECK_DEADLOCK FALSE
