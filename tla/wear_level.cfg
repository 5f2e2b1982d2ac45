SPECIFICATION Spec
CONSTANTS
  SECTOR_COUNT = 6
  RATE = 2
  Value = {x, y}
  Blank = Blank
  Junk = Junk
  Bad = Bad
  NoCall = NoCall

INVARIANTS TypeOK
PROPERTIES ImplementsFlatDisk WearIsLevelled
