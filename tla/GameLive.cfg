SPECIFICATION Spec
CONSTANTS
  Attempts = {0, 4}
  MaxInbox = 1
  MayFail = {0, 1}
  Interrupts = FALSE
PROPERTIES DecidedGameEnds DroppedGameEnds MessageTaken
