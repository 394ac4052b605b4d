SPECIFICATION FairSpec
CONSTANTS
  Clients = {c1, c2, c3, c4}
  NoClient = NoClient
  MayClose = {c1}
  Fds = {4, 5, 6, 7}
  RoomSize = 2
  Faults = {"conn_data"}
PROPERTIES EnoughPlayersGetRoom
CHECK_DEADLOCK FALSE
