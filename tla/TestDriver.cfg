SPECIFICATION DriverSpec
CONSTANTS
  Client = {8, 9, 10, 11}
  Name = {"Joe Sally", "Jay Brown", "Moe Gates", "Jays"}
  NULL = NULL
  MaxInbox = 1
  MayFail = {11}
  Interrupts = FALSE
INVARIANTS OnlyNameInUseFails
PROPERTIES AllPassIfBLasts
CHECK_DEADLOCK FALSE
