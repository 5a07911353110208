SPECIFICATION Spec
CONSTANTS
  MaxMessages = 3
  Junk = Junk
INVARIANTS NothingLost InOrder
PROPERTIES FailsOnlyIncomplete MessageReturned
CHECK_DEADLOCK FALSE
