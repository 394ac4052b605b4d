SPECIFICATION FairSpec
CONSTANTS
  FLOAT_SCALE = 10
  Grid = 16
  Digits = 8388608
  Spacings <- PowersOf2
  Sendable <- Samples
  BufSize = 7
  MaxPackets = 2
  NoPacket = NoPacket
INVARIANTS
  TypeOK
  Framing
PROPERTIES
  DeliveredAsSent
  SentArrives
  NetworkSafe
CHECK_DEADLOCK FALSE
