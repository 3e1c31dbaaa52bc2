SPECIFICATION FairSpec
CONSTANTS
  Players = {p1, p2}
  Points = {0, 1, 2}
  Times = {0, 1}
  MaxScore = 2
  MaxMs = 1
  ScoreUnit = 6
  CorrectUnit = 2
  MaxCorrect = 2
  Interval = 2
  SaveOutcomes = {"ok", "lost"}
  ForgetOutcomes = {"ok", "fail", "lost"}
  ReadMayFail = TRUE
INVARIANTS TypeOK ScreenIsCurrent ScreenIsRanked
PROPERTIES OncePerInterval ChangesAreShown
CHECK_DEADLOCK FALSE
