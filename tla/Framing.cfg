SPECIFICATION Spec
CONSTANTS
  NameWidth <- Widths
  Exchanged <- AllMessages
  Reads <- ReadsOf
  Sendable <- Unread
  MaxReads <- Bounds
INVARIANTS FramedExactly ActedOnIsWellFormed NoNameIsTooLong ChecksExact
PROPERTIES ArrivalKeepsMessage
CHECK_DEADLOCK FALSE
