SPECIFICATION Spec
CONSTANTS
  Clients = {c1, c2, c3, c4, c5}
  NoClient = NoClient
  MayClose = {c1, c2, c3, c4, c5}
  Fds = {4, 5, 6, 7}
  RoomSize = 2
  Faults = {"conn_data", "room"}
SYMMETRY Symmetry
INVARIANTS TypeOK OneHome IdsDistinct NoUseAfterFree NoLostWakeup
PROPERTIES DescriptorsNeverClosed DeadMatcherFreezesQueue PairingSafe
CHECK_DEADLOCK FALSE
