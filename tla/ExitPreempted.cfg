CONSTANTS
  Thread = {root, a}
  Root = root
  Main = Main
  Null = Null
  Garbage = Garbage
  Ops <- JoinOps
  Creators = {root, a}
  Ticks = "in_calls"
  JoinExited = FALSE
  SuspendFresh = FALSE
SPECIFICATION Spec
INVARIANT JoinReturnsExitCode
CHECK_DEADLOCK FALSE
