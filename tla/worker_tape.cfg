SPECIFICATION Spec
CONSTANTS
  Plans <- TapePlans
  TAPE_CAP_FRAMES = 5
  BACKLOG_CAP = 9
  MAX_OPS_PER_FRAME = 2
  MaxChunks = 2
  Infinity = Infinity
  MaxEpoch = 0
  MaxMail = 1
CHECK_DEADLOCK FALSE

INVARIANTS TapeInOrder OpsConserved TapeIsBounded
PROPERTIES ImplementsFieldWorker
