SPECIFICATION FairSpec
CONSTANTS
  Conns = {c1, c2}
  Buffer = 2
  MaxSaid = 2
  None = None
INVARIANTS TypeOK OpenMeansSeated WrittenInOrder
PROPERTIES ClosedConnectionsGo LastWordsArrive
CHECK_DEADLOCK FALSE
