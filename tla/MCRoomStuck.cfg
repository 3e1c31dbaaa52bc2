SPECIFICATION Spec
CONSTANTS
  Players = {p1, p2}
  NumQuestions = 2
  Awards = {1}
  AnswerWindow = 1
  RoomDuration = 4
  Loaders = {}
  SaveOutcomes = {"ok", "lost"}
  Outcomes = {"ok", "lost"}
SYMMETRY PlayerSymmetry
INVARIANTS
  QuestionOnAirIsOpen
CHECK_DEADLOCK FALSE
