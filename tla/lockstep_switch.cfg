SPECIFICATION Spec
CONSTANTS
  Session = {a, b}
  Modes = {"pace", "race"}
  InitScale = 1
  Scales = {2}
  UserOps = {"mode", "speed", "step"}
  Building = {}
  ExecBound = {}
  Costs <- Steep
  RACE_LEAD_BOUND_FRAMES = 2
  TAPE_CAP_FRAMES = 4
  Infinity = Infinity
  MaxEntries = 1
  MaxRound = 2
  IdleRounds = TRUE
  MaxEpoch = 0
  MaxInFlight = 2
SYMMETRY Symmetry

INVARIANTS RaceWatermark PaceJoin
PROPERTIES RaceLead
