SPECIFICATION FairSpec
CONSTANTS
  Threads = {t1, t2}
  Items = {x1, x2, x3}
  NoItem = NoItem
  Nodes = {n1, n2, n3}
  NULL = NULL
  Ops = {"enqueue", "remove"}
PROPERTIES
  CallsReturn
CHECK_DEADLOCK FALSE
