SPECIFICATION Spec
CONSTANTS
  LastCluster = 3
  U = 2
  Blank = Blank
  a = a
  b = b
  l = l
  m = m
  D = D
  E = E
  x = x
  y = y
  Name = {a, b}
  Info <- McInfo
  Tries = 2
  FilePath <- RootFiles
  DirPath <- NoDirs
  Data <- RootData
  ListPath <- NoDirs
  PutSize = {3}
  WriteSize = {3}
  ReadSize = {3}
  Offset <- Seeks
  Files = {1}
  Dirs = {}
  Beyond = 1000
INVARIANTS TypeOK ChainsSound ReadsAreCurrent
PROPERTIES ImplementsFileStore ShortOnlyWhenFull
