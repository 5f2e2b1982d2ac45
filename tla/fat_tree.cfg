SPECIFICATION Spec
CONSTANTS
  LastCluster = 4
  U = 4
  Blank = Blank
  a = a
  b = b
  l = l
  m = m
  D = D
  E = E
  x = x
  y = y
  Name = {l, m, D, E}
  Info <- McInfo
  Tries = 2
  FilePath <- TreeFiles
  DirPath <- TreeDirs
  Data <- TreeData
  ListPath <- TreeLists
  PutSize = {1}
  WriteSize = {}
  ReadSize = {}
  Offset = {}
  Files = {}
  Dirs = {1}
  Beyond = 1000
INVARIANTS ChainsSound DirectoriesSound ChipIsCurrent ReadsAreCurrent ListingIsComplete
PROPERTIES ImplementsFileStore
