SPECIFICATION FairSpec
CONSTANTS
  Players = {p1, p2}
  NumQuestions = 2
  Awards = {3}
  AnswerWindow = 1
  RoomDuration = 2
  Loaders = {g1}
  SaveOutcomes = {"ok", "fail", "lost"}
  Outcomes = {"ok", "fail", "lost"}
CONSTRAINT FewAnswersInGet
INVARIANTS
  TypeOK
  AnswersInOrder
  TotalsMatchAnswers
  MemoryIsThePast
  AcknowledgedIsDurable
  TimerTracksSession
PROPERTIES
  AnswersAreFinal
  PointsOnlyInTime
  HandlersEndFinishedRoom
  ImplementsSession
  SessionEnds
CHECK_DEADLOCK FALSE
