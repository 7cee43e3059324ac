CONSTANTS
  Thread = {root, a, b}
  Root = root
  Main = Main
  Null = Null
  Garbage = Garbage
  Ops <- MessageOps
  Creators = {root}
  Ticks = "between_calls"
  JoinExited = FALSE
  SuspendFresh = FALSE
  Slot = {0, 1}
  Key = {k1, k2}
  NoKey = NoKey
  Type = {x, y}
  Managers = {root}
  Senders = {root, a, b}
  Receivers = {a, b}
  Qcb = {p, q}
  MaxSends = 2
SYMMETRY Symmetry
SPECIFICATION MqSpec
INVARIANTS
  SharedLinksOK
  MessagesConserved
  InOrder
  NoOversleep
  TableOK
  MessageQueueInv
