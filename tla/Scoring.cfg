SPECIFICATION Spec
CONSTANTS
  Plenty = 2
  MaxShort = 2
  MoreQuestions = 1
  Step = 10
INVARIANTS TypeOK SelectionIsExact TotalsFit
PROPERTIES SlowerEarnsNoMore CorrectMeansPoints
CHECK_DEADLOCK FALSE
