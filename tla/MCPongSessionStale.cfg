SPECIFICATION Spec
CONSTANTS
  c1 = c1
  c2 = c2
  c3 = c3
  c4 = c4
  r1 = r1
  r2 = r2
  NoClient = NoClient
  Clients = {c1, c2}
  Rooms = {r1}
  Seats <- OneRoom
  SockBuf = 1
  StartSync = 127
  Junk = {}
  MaxGoals = 1
  MaxFrames <- SecondOnce
  MaxIdle <- None
  MayQuit = {}
PROPERTIES OnlyCurrentInput
