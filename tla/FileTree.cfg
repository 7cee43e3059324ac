CONSTANTS
  NumBlocks = 8
  DataRegion = 1
  NumInodes = 5
  CountsBlocks = FALSE
  EntsPerBlock = 2
  PtrsPerBlock = 2
  MaxFd = 1
  DirPath <- TreeDirs
  FilePath <- TreeFiles
  Payload = {v, w}
  WriteSizes = {2}
  Deaths = TRUE
  Beyond = {}
SPECIFICATION ViewedSpec
SYMMETRY Symmetry
INVARIANTS
  FileSystemInv
  BlocksOwnedOnce
  BitmapsRight
  TreeWellFormed
  DescriptorsLive
  DescriptorsSound
PROPERTIES
  LosesNothingElse
  ImplementsNameSpace
