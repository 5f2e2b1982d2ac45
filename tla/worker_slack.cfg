SPECIFICATION Spec
CONSTANTS
  Plans <- BootPlans
  TAPE_CAP_FRAMES = 2
  BACKLOG_CAP = 100
  MAX_OPS_PER_FRAME = 3
  MaxChunks = 2
  Infinity = Infinity
  MaxEpoch = 0
  MaxMail = 1
CHECK_DEADLOCK FALSE

INVARIANTS TapeIsBounded
