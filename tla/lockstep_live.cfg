SPECIFICATION FairSpec
CONSTANTS
  Session = {a, b}
  Modes = {"pace"}
  InitScale = 1
  Scales = {}
  UserOps = {"start", "broadcast", "reset"}
  Building = {a}
  ExecBound = {}
  Costs <- Uneven
  RACE_LEAD_BOUND_FRAMES = 2
  TAPE_CAP_FRAMES = 4
  Infinity = Infinity
  MaxEntries = 2
  MaxRound = 8
  IdleRounds = FALSE
  MaxEpoch = 1
  MaxInFlight = 1
PROPERTIES BroadcastDrains
