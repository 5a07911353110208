SPECIFICATION Spec
CONSTANTS
  Client = {c1, c2}
  Name = {ann, bob}
  NULL = NULL
  MaxInbox = 1
  MayFail = {}
  Interrupts = FALSE
PROPERTIES PlayAnswered
CHECK_DEADLOCK FALSE
