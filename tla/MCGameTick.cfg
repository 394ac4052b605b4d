SPECIFICATION FairSpec
CONSTANTS
  Half = 4
  Fractions = 2
  Interval = 1
  Durations <- Takes
  Oversleeps <- Oversleep
  Longest = 1
  Width = 10
  Height = 8
  BallHalf = 1
  PaddleHalfX = 1
  PaddleHalfY = 1
  StartSpeed = 1
  SpeedCap = 1
  SpeedUnits = 2
  PaddleSteps <- Steps
  PaddleReach = 2
  BallReach = 1
INVARIANTS
  TypeOK
  ScoredWritten
  WallsHold
  LinesHold
PROPERTIES
  TickTrue
  GoalIsReal
  TickEnds
CHECK_DEADLOCK FALSE
