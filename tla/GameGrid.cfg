SPECIFICATION Spec
CONSTANTS
  Attempts = {0, 1, 2, 3, 4, 5, 6, 7, 8}
  MaxInbox = 1
  MayFail = {}
  Interrupts = FALSE
PROPERTIES PlaysByTheRules
