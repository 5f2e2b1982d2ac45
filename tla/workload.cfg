SPECIFICATION FairSpec
CONSTANTS
  slotCount = 2
  Draws <- SmallProfile
  FORCED_LARGE_SIZE = 5
  protectFirstLarge = TRUE
  targetLiveBytes = 3
  targetSlackBytes = 1
  targetWrittenBytes = 5
  forceLargeAfterBytes = 4
  U32 = 8
  Capacity = 6
  MaxFiles = 3
  UserFiles = {1, 2}
  UserSizes = {1, 2}
  StumpSizes = {0, 1}
  MaxAhead = 2
  MaxResets = 1
CHECK_DEADLOCK FALSE

INVARIANTS TypeOK AgreesWithOracle NothingThrows CeilingHolds TrackedIsTheChip
PROPERTIES WritesGoOn
