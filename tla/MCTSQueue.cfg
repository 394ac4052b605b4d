SPECIFICATION FairSpec
CONSTANTS
  Threads = {t1, t2}
  Items = {x1, x2, x3, x4}
  NoItem = NoItem
  Nodes = {n1, n2, n3, n4}
  NULL = NULL
  Ops = {"enqueue", "dequeue", "take"}
INVARIANTS
  TypeOK
  ListSound
  NoNodeLost
PROPERTIES
  FifoSafe
  CallsReturn
