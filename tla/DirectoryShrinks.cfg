CONSTANTS
  NumBlocks = 8
  DataRegion = 1
  NumInodes = 5
  CountsBlocks = FALSE
  EntsPerBlock = 2
  PtrsPerBlock = 2
  MaxFd = 1
  DirPath <- TreeDirs
  FilePath <- TreeFiles
  Payload = {"v"}
  WriteSizes = {2}
  Deaths = FALSE
  Beyond = {}
SPECIFICATION ViewedSpec
INVARIANT FreedIsUnlinked
