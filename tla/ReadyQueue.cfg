CONSTANTS
  Node = {t1, t2, t3, t4, t5}
  Null = Null
SPECIFICATION Spec
INVARIANTS
  QueueOK
  RemovalExact
