SPECIFICATION FairSpec
CONSTANTS
  Session = {a, b}
  Modes = {"race"}
  InitScale = 1
  Scales = {}
  UserOps = {"start", "reset"}
  Building = {a}
  ExecBound = {a, b}
  Costs <- Steep
  RACE_LEAD_BOUND_FRAMES = 2
  TAPE_CAP_FRAMES = 4
  Infinity = Infinity
  MaxEntries = 3
  MaxRound = 12
  IdleRounds = FALSE
  MaxEpoch = 1
  MaxInFlight = 2
INVARIANTS CanonicalPrefix AckedIsPast DrainedWasPlayed
PROPERTIES RunGoesOn LeadCapSpec
