SPECIFICATION FairSpec
CONSTANTS
  Session = {a, b}
  Modes = {"race"}
  InitScale = 1
  Scales = {}
  UserOps = {"broadcast"}
  Building = {}
  ExecBound = {}
  Costs <- Steep
  RACE_LEAD_BOUND_FRAMES = 2
  TAPE_CAP_FRAMES = 4
  Infinity = Infinity
  MaxEntries = 1
  MaxRound = 12
  IdleRounds = FALSE
  MaxEpoch = 0
  MaxInFlight = 2

PROPERTIES BroadcastDrains
