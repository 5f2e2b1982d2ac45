SPECIFICATION Spec
CONSTANTS
  Session = {a, b}
  Modes = {"pace"}
  InitScale = 1
  Scales = {}
  UserOps = {"start", "stop", "step", "broadcast"}
  Building = {}
  ExecBound = {}
  Costs <- Uneven
  RACE_LEAD_BOUND_FRAMES = 2
  TAPE_CAP_FRAMES = 4
  Infinity = Infinity
  MaxEntries = 2
  MaxRound = 2
  IdleRounds = TRUE
  MaxEpoch = 0
  MaxInFlight = 2
SYMMETRY Symmetry

INVARIANTS TypeOK
PROPERTIES BarrierSpec JoinSpec RebaseExact
