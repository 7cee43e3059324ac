CONSTANTS
  Thread = {root, a, b, c}
  Root = root
  Main = Main
  Null = Null
  Garbage = Garbage
  Ops <- JoinOps
  Creators = {root, a, b, c}
  Ticks = "between_calls"
  JoinExited = FALSE
  SuspendFresh = FALSE
SYMMETRY Symmetry
SPECIFICATION Spec
INVARIANTS
  TypeOK
  QueuesWellLinked
  ChildrenJoinable
  OnePlaceEach
  RunQHeadTracksRunner
  OneAtATime
  JoinReturnsExitCode
  NoUseAfterFree
  NoCrash
PROPERTY ImplementsRoundRobin
