SPECIFICATION Spec
CONSTANTS
  Client = {c1, c2, c3}
  Name = {ann, bob}
  NULL = NULL
  MaxInbox = 1
  MayFail = {c1, c2}
  Interrupts = FALSE
PROPERTIES DroppedGameReleases KeepsTheLobby
CHECK_DEADLOCK FALSE
