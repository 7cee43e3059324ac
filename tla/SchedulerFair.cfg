CONSTANTS
  Thread = {root, a, b}
  Root = root
  Main = Main
  Null = Null
  Garbage = Garbage
  Ops <- JoinOps
  Creators = {root, a, b}
  Ticks = "between_calls"
  JoinExited = FALSE
  SuspendFresh = FALSE
SPECIFICATION FairSpec
INVARIANT SchedulerInv
PROPERTIES
  ReadyThreadsRun
  JoinsReturn
