\* One event: it is opened, held up, closed and opened again
SPECIFICATION FairSpec
CONSTANTS
  e1 = e1
  e2 = e2
  Events = {e1}
  Limit = 2
  Pre = 1
  DecoderQueueLimit = 0
PROPERTIES
  PauseCompletes
  EventMovesOn
