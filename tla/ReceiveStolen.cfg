CONSTANTS
  Thread = {root, a, b}
  Root = root
  Main = Main
  Null = Null
  Garbage = Garbage
  Ops <- LastingOps
  Creators = {root}
  Ticks = "between_calls"
  JoinExited = FALSE
  SuspendFresh = FALSE
  Slot = {0}
  Key = {k1}
  NoKey = NoKey
  Type = {x}
  Managers = {root}
  Senders = {root, a, b}
  Receivers = {a, b}
  Qcb = {p}
  MaxSends = 2
SYMMETRY Symmetry
SPECIFICATION MqSpec
INVARIANT WokenReceiversReceive
