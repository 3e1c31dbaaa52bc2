SPECIFICATION FairSpec
CONSTANTS
  Creations = {"c1", "c2"}
  Joins = {"j1", "j2", "j3"}
  Nickname <- MCNickname
  Pin <- MCPin
  Pins = {"p1", "p2"}
  RoomCap = 1
  SeatCap = 2
  PinAttempts = 2
  None = None
INVARIANTS
  TypeOK
  WithinCaps
PROPERTIES
  ImplementsRoomBook
  RequestsAnswered
CHECK_DEADLOCK FALSE
