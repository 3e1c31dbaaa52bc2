SPECIFICATION Spec
CONSTANTS
  Players = {p1, p2}
  NumQuestions = 2
  Awards = {1}
  AnswerWindow = 1
  RoomDuration = 4
  Loaders = {}
  SaveOutcomes = {"ok"}
  Outcomes = {"ok"}
SYMMETRY PlayerSymmetry
INVARIANTS
  KickedPlayerIsOut
CHECK_DEADLOCK FALSE
