SPECIFICATION Spec
CONSTANTS
  Players = {p1, p2}
  Points = {0, 1, 2}
  Times = {0, 1}
  MaxScore = 2
  MaxMs = 1
  ScoreUnit = 6
  CorrectUnit = 2
  MaxCorrect = 2
  Interval = 2
  SaveOutcomes = {"ok", "fail"}
  ForgetOutcomes = {"ok", "fail", "lost"}
  ReadMayFail = TRUE
INVARIANTS ScreenIsRanked
CHECK_DEADLOCK FALSE
