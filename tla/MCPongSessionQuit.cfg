SPECIFICATION FairSpec
CONSTANTS
  c1 = c1
  c2 = c2
  c3 = c3
  c4 = c4
  r1 = r1
  r2 = r2
  NoClient = NoClient
  Clients = {c1, c2}
  Rooms = {r1}
  Seats <- OneRoom
  SockBuf = 1
  StartSync = 127
  Junk = {7}
  MaxGoals = 1
  MaxFrames <- None
  MaxIdle <- SecondIdle
  MayQuit = {c1, c2}
INVARIANTS
  SyncAnnounced
  FirstRoundExact
  OnlyLeaversDisband
PROPERTIES
  RoomEnds
CHECK_DEADLOCK FALSE
