SPECIFICATION Spec
CONSTANTS
  Keys = {k1, k2}
  Limit = 2
  Window = 2
  PruneThreshold = 1
  MaxAttempts = 5
  MaxLosses = 1
INVARIANTS TypeOK RefusedOnlyIfBusy BurstsAreBounded
