CONSTANTS
  Thread = {root, a, b, c}
  Root = root
  Main = Main
  Null = Null
  Garbage = Garbage
  Ops <- SuspendOps
  Creators = {root}
  Ticks = "between_calls"
  JoinExited = FALSE
  SuspendFresh = FALSE
SYMMETRY Symmetry
SPECIFICATION Spec
INVARIANT SchedulerOK
PROPERTY ImplementsRoundRobin
