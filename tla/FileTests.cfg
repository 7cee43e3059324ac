CONSTANTS
  NumBlocks = 512
  DataRegion = 19
  NumInodes = 64
  CountsBlocks = TRUE
  EntsPerBlock = 4
  PtrsPerBlock = 16
  MaxFd = 64
  DirPath <- TestDirs
  FilePath <- TestFiles
  Payload <- TestPayload
  WriteSizes = {1, 9}
  Deaths = FALSE
  Beyond = {"shrunk"}
SPECIFICATION TestSpec
INVARIANTS
  TestsPass
  BlocksOwnedOnce
PROPERTIES
  LosesNothingElse
  ImplementsNameSpace
