SPECIFICATION MatchSpec
CONSTANTS
  Attempts = {0, 1, 2, 3, 4}
  MaxInbox = 3
  MayFail = {0, 1}
  Interrupts = FALSE
INVARIANTS RefusedOnlyWhenCrossed NothingUnexpected
PROPERTIES RequestsAnswered EveryTestEnds
CHECK_DEADLOCK FALSE
