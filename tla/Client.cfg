SPECIFICATION Spec
CONSTANTS
  MaxTyped = 4
  MaxSent = 2
  Signals = TRUE
INVARIANTS LinesAreWritten ShownInOrder
PROPERTIES OrderlyEndIsShown ProgramEnds
CHECK_DEADLOCK FALSE
