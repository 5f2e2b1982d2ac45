SPECIFICATION Spec
CONSTANTS
  Plans <- PrepPlans
  TAPE_CAP_FRAMES = 3
  BACKLOG_CAP = 100
  MAX_OPS_PER_FRAME = 3
  MaxChunks = 2
  Infinity = Infinity
  MaxEpoch = 1
  MaxMail = 1
CHECK_DEADLOCK FALSE

INVARIANTS BracketIsInstant TapeIsOfTheEpoch
PROPERTIES BootIsNotAdded
