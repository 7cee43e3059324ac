CONSTANTS
  Thread = {root, a, b}
  Root = root
  Main = Main
  Null = Null
  Garbage = Garbage
  Ops <- CreateOps
  Creators = {root}
  Ticks = "in_calls"
  JoinExited = FALSE
  SuspendFresh = FALSE
SPECIFICATION SlicedSpec
INVARIANT SchedulerInv
PROPERTY CreatesReturn
