--------------------------- MODULE GameTickProofs ---------------------------
(***************************************************************************)
(* For every clock, interval, field and speed: what MCGameTick checks for  *)
(* a small field.  IInv is inductive; each part of it is disturbed by few  *)
(* of the steps.                                                           *)
(***************************************************************************)
EXTENDS GameTick, TLAPS

(* The clock has moved on by since from where the tick before began; the   *)
(* rest of the interval is still to be slept.                              *)
Clocks ==
  /\ phase = "start" => /\ since \in Interval..(Interval + 2 * Longest)
                        /\ clock = Wrap(last + since)
  /\ phase = "func" => since = 0 /\ clock = start
  /\ phase = "sleep" => /\ since \in 0..Longest
                        /\ clock = Wrap(start + since)
                        /\ sleeping + since >= Interval

(* Nothing has passed before the first collision of a tick, a tick that    *)
(* has begun has time left, and a goal ends the loop.                      *)
Stages ==
  /\ stage # "idle" => phase = "func" /\ delta >= Interval
  /\ scored \in {0, 1} => stage = "done"
  /\ scored = Unwritten => stage # "done" /\ (stage = "loop" => passed = 0)

(* Between the walls; at one the ball is already on its way back.          *)
Between(b) ==
  /\ BallHalf <= b.y /\ b.y <= Height - BallHalf
  /\ b.y = BallHalf => b.dy = 1
  /\ b.y = Height - BallHalf => b.dy = -1
Inside(b) == BallHalf < b.x /\ b.x < Width - BallHalf

Walls == ~cornered => Between(ball)
Lines == ~rebounded => Inside(ball)

IInv == TypeOK /\ Clocks /\ Stages /\ Walls /\ Lines
-----------------------------------------------------------------------------
LEMMA Constants ==
  /\ Half \in Nat /\ Fractions \in Nat /\ Fractions > 0
  /\ Interval \in Nat /\ Interval > 0 /\ Longest \in Nat
  /\ Interval + 2 * Longest < Half
  /\ \A d \in Durations \cup Oversleeps : d \in Nat /\ d <= Longest * Fractions
BY SMT, RunEveryAssumption

LEMMA FieldConstants ==
  /\ Width \in Nat /\ Height \in Nat /\ BallHalf \in Nat /\ BallHalf > 0
  /\ PaddleHalfX \in Nat /\ PaddleHalfY \in Nat
  /\ StartSpeed \in Nat /\ StartSpeed > 0 /\ SpeedCap \in Nat
  /\ StartSpeed <= SpeedCap
  /\ BallHalf < Width \div 2 /\ BallHalf < Height \div 2
  /\ SpeedUnits \in Nat /\ SpeedUnits > 0
<1>1. /\ Width \in Nat /\ Height \in Nat /\ BallHalf \in Nat /\ BallHalf # 0
      /\ PaddleHalfX \in Nat /\ PaddleHalfY \in Nat /\ PaddleHalfX # 0
      /\ StartSpeed \in Nat /\ StartSpeed # 0 /\ SpeedCap \in Nat
  BY BallPhysicsAssumption
<1> QED
  BY <1>1, SMT, BallPhysicsAssumption, GameTickAssumption

LEMMA WrapTypes ==
  /\ \A x \in Int : -2 * Half <= x /\ x < 2 * Half => Wrap(x) \in MachineInt
  /\ \A c, d \in MachineInt : Wrap(c - d) \in MachineInt
BY SMT, Constants DEF Wrap, MachineInt

(* What has been added to a clock is found again as the difference.        *)
LEMMA WrapBack ==
  ASSUME NEW c \in MachineInt, NEW x \in Nat, x < Half
  PROVE  /\ Wrap(c + x) \in MachineInt
         /\ Wrap(Wrap(c + x) - c) = x
         /\ Wrap(Wrap(c - x) + x) = c
         /\ Wrap(c - x) \in MachineInt
BY SMT, Constants DEF Wrap, MachineInt

LEMMA WrapTwice ==
  ASSUME NEW c \in MachineInt, NEW x \in Nat, NEW y \in Nat, x + y < Half
  PROVE  Wrap(Wrap(c + x) + y) = Wrap(c + (x + y))
BY SMT, Constants DEF Wrap, MachineInt

LEMMA Quotient ==
  ASSUME NEW x \in Nat, NEW d \in Nat, d > 0, NEW n \in Nat, x < (n + 1) * d
  PROVE  x \div d \in 0..n
<1>1. /\ x \div d \in Nat
      /\ d * (x \div d) <= x
  BY SMT
<1>2. ASSUME x \div d >= n + 1
      PROVE  FALSE
  <2> DEFINE q == x \div d
  <2>1. q \in Nat /\ q >= n + 1 /\ d * q <= x
    BY <1>1, <1>2
  <2> HIDE DEF q
  <2>2. d * q >= d * (n + 1)
    BY <2>1, SMT
  <2> QED
    BY <2>1, <2>2, SMT
<1> QED
  BY <1>1, <1>2, SMT

(* Time that passes: some whole milliseconds besides those asked for.      *)
LEMMA Elapsed ==
  ASSUME NEW ms \in Nat, NEW d \in Durations \cup Oversleeps, Elapse(ms, d),
         frac \in 0..(Fractions - 1), since \in Nat
  PROVE  \E q \in 0..Longest : /\ clock' = Wrap(clock + (ms + q))
                               /\ since' = since + (ms + q)
                               /\ frac' \in 0..(Fractions - 1)
<1> DEFINE q == (frac + d) \div Fractions
<1>1. d \in Nat /\ d <= Longest * Fractions
  BY Constants
<1>2. frac + d \in Nat /\ frac + d < (Longest + 1) * Fractions
  BY <1>1, Constants, SMT
<1>3. q \in 0..Longest
  BY <1>2, Constants, Quotient
<1>4. (frac + d) % Fractions \in 0..(Fractions - 1)
  BY <1>2, Constants, SMT
<1>5. /\ clock' = Wrap(clock + (ms + q)) /\ since' = since + (ms + q)
      /\ frac' = (frac + d) % Fractions
  BY DEF Elapse
<1> QED
  BY <1>3, <1>4, <1>5
-----------------------------------------------------------------------------
(* Collisions that are tried for one and the same length of a move.        *)
Collision == [cells : Int, of : Int, axis : {"x", "y"}]
Over(n) == {c \in Collision : Valid(c) => c.of = n}

LEMMA EarlierOne ==
  ASSUME NEW c, NEW d
  PROVE  /\ EarlierOf(c, d) = c \/ (EarlierOf(c, d) = d /\ Valid(d))
         /\ Valid(EarlierOf(c, d)) <=> Valid(c) \/ Valid(d)
BY DEF EarlierOf

LEMMA Cancel ==
  ASSUME NEW a \in Int, NEW b \in Int, NEW n \in Nat, n > 0
  PROVE  /\ a * n < b * n <=> a < b
         /\ a * n = b * n <=> a = b
BY SMT

LEMMA EarlierFirst ==
  ASSUME NEW n \in Nat, n > 0, NEW c \in Over(n), NEW d \in Over(n)
  PROVE  LET e == EarlierOf(c, d)
         IN  /\ e \in Over(n)
             /\ Valid(c) => e.cells <= c.cells
             /\ Valid(d) => e.cells <= d.cells
<1>1. c.cells \in Int /\ d.cells \in Int
  BY DEF Over, Collision
<1>2. EarlierOf(c, d) \in Over(n)
  BY EarlierOne
<1>3. CASE Valid(c) /\ Valid(d)
  <2>1. c.of = n /\ d.of = n
    BY <1>3 DEF Over
  <2>2. Before(d, c) <=> d.cells < c.cells
    BY <1>1, <2>1, Cancel DEF Before
  <2>3. EarlierOf(c, d) = IF d.cells < c.cells THEN d ELSE c
    BY <1>3, <2>2 DEF EarlierOf
  <2> QED
    BY <1>1, <1>2, <2>3, SMT
<1>4. CASE ~Valid(d)
  <2>1. EarlierOf(c, d) = c
    BY <1>4 DEF EarlierOf
  <2> QED
    BY <1>1, <1>2, <1>4, <2>1, SMT
<1>5. CASE ~Valid(c) /\ Valid(d)
  <2>1. EarlierOf(c, d) = d
    BY <1>5 DEF EarlierOf
  <2> QED
    BY <1>1, <1>2, <1>5, <2>1, SMT
<1> QED
  BY <1>3, <1>4, <1>5

BallType == [x : Int, y : Int, dx : {-1, 1}, dy : {-1, 1},
             speed : StartSpeed..(SpeedCap + 1)]

LEMMA Speeds ==
  ASSUME NEW b \in BallType, NEW t \in Nat
  PROVE  /\ b.speed \in Nat /\ b.speed > 0
         /\ b.speed * t \in Nat
         /\ t > 0 => b.speed * t > 0
<1>1. b.speed \in Nat /\ b.speed > 0
  BY FieldConstants, SMT DEF BallType
<1>2. \A s, u \in Nat : s * u \in Nat /\ (s > 0 /\ u > 0 => s * u > 0)
  BY SMT
<1> QED
  BY <1>1, <1>2, SMT

LEMMA LinesTried ==
  ASSUME NEW b \in BallType, NEW t \in Nat, NEW z \in Int
  PROVE  /\ XCollide(b, z, t) \in Over(b.speed * t)
         /\ YCollide(b, z, t) \in Over(b.speed * t)
<1>1. b.x \in Int /\ b.y \in Int /\ b.dx \in {-1, 1} /\ b.dy \in {-1, 1}
  BY DEF BallType
<1>2. b.speed * t \in Int
  BY Speeds, SMT
<1>3. b.dx * (z - b.x) - BallHalf \in Int /\ b.dy * (z - b.y) - BallHalf \in Int
  BY <1>1, FieldConstants, SMT
<1> QED
  BY <1>2, <1>3 DEF Over, Collision, XCollide, YCollide

LEMMA PaddleTried ==
  ASSUME NEW b \in BallType, NEW t \in Nat, t > 0, NEW i \in 1..2, NEW y \in Int
  PROVE  PaddleCollide(b, i, y, t) \in Over(b.speed * t)
<1> DEFINE n == b.speed * t
           x == PaddleX(i)
           xHit == EarlierOf(XCollide(b, x - PaddleHalfX, t),
                             XCollide(b, x + PaddleHalfX, t))
           yHit == EarlierOf(YCollide(b, y + PaddleHalfY, t),
                             YCollide(b, y - PaddleHalfY, t))
<1>1. n \in Nat /\ n > 0
  BY Speeds
<1>2. x \in Int /\ x - PaddleHalfX \in Int /\ x + PaddleHalfX \in Int
      /\ y + PaddleHalfY \in Int /\ y - PaddleHalfY \in Int
  BY FieldConstants, SMT DEF PaddleX
<1>3. /\ XCollide(b, x - PaddleHalfX, t) \in Over(n)
      /\ XCollide(b, x + PaddleHalfX, t) \in Over(n)
      /\ YCollide(b, y + PaddleHalfY, t) \in Over(n)
      /\ YCollide(b, y - PaddleHalfY, t) \in Over(n)
  <2> HIDE DEF x
  <2> QED
    BY <1>2, LinesTried
<1>4. xHit \in Over(n) /\ yHit \in Over(n)
  BY <1>3, EarlierOne
<1>5. NoCollision \in Over(n)
  BY SMT DEF NoCollision, Over, Collision, Valid
<1> DEFINE xMissed == Beside(Move(b, xHit.cells).y, y, PaddleHalfY)
           yMissed == Beside(Move(b, yHit.cells).x, x, PaddleHalfX)
           cx == IF Valid(xHit) /\ ~xMissed THEN xHit ELSE NoCollision
           cy == IF Valid(yHit) /\ ~yMissed THEN yHit ELSE NoCollision
<1>6. PaddleCollide(b, i, y, t) = EarlierOf(cx, cy)
  BY DEF PaddleCollide
<1> HIDE DEF xHit, yHit, xMissed, yMissed
<1>7. cx \in Over(n) /\ cy \in Over(n)
  BY <1>4, <1>5
<1> HIDE DEF cx, cy
<1>8. EarlierOf(cx, cy) \in Over(n)
  BY <1>7, EarlierOne
<1> QED
  BY <1>6, <1>8

LEMMA OneAhead ==
  ASSUME NEW n \in Nat, NEW c, c.of = n, NEW a \in Nat, a > 0, c.cells = a,
         NEW d, d.cells \in Int, d.cells < 0
  PROVE  ~Valid(d) /\ (Valid(c) <=> a <= n)
BY SMT DEF Valid

(* A ball between the walls, on its way back if it is at one, finds the    *)
(* wall that it moves towards exactly if that is within its move.          *)
LEMMA WallAhead ==
  ASSUME NEW b \in BallType, NEW t \in Nat, t > 0,
         BallHalf <= b.y, b.y <= Height - BallHalf,
         b.y = BallHalf => b.dy = 1, b.y = Height - BallHalf => b.dy = -1
  PROVE  LET ahead == IF b.dy = 1 THEN Height - BallHalf - b.y ELSE b.y - BallHalf
             wall == WallCollide(b, t)
         IN  /\ ahead \in Nat /\ ahead > 0
             /\ wall \in Over(b.speed * t)
             /\ Valid(wall) <=> ahead <= b.speed * t
             /\ Valid(wall) => wall.cells = ahead
<1> DEFINE n == b.speed * t
           up == YCollide(b, Height, t)
           down == YCollide(b, 0, t)
           ahead == IF b.dy = 1 THEN Height - BallHalf - b.y ELSE b.y - BallHalf
<1>1. b.y \in Int /\ b.dy \in {-1, 1} /\ n \in Nat /\ n > 0
  BY Speeds DEF BallType
<1>2. ahead \in Nat /\ ahead > 0
  BY <1>1, FieldConstants, SMT
<1>3. up \in Over(n) /\ down \in Over(n)
  BY FieldConstants, LinesTried
<1>4. WallCollide(b, t) = EarlierOf(up, down) /\ WallCollide(b, t) \in Over(n)
  BY <1>3, EarlierOne DEF WallCollide
<1>5. /\ up.of = n /\ up.cells = b.dy * (Height - b.y) - BallHalf
      /\ down.of = n /\ down.cells = b.dy * (0 - b.y) - BallHalf
  BY DEF YCollide
<1>6. CASE b.dy = 1
  <2>1. up.cells = ahead /\ down.cells < 0 /\ down.cells \in Int
    BY <1>1, <1>5, <1>6, FieldConstants, SMT
  <2> HIDE DEF up, down, ahead, n
  <2>2. ~Valid(down) /\ (Valid(up) <=> ahead <= n)
    BY <1>1, <1>2, <1>5, <2>1, OneAhead
  <2>3. WallCollide(b, t) = up
    BY <1>4, <2>2 DEF EarlierOf
  <2> QED
    BY <1>2, <1>4, <2>1, <2>2, <2>3 DEF ahead, n
<1>7. CASE b.dy = -1
  <2>1. down.cells = ahead /\ up.cells < 0 /\ up.cells \in Int
    BY <1>1, <1>5, <1>7, FieldConstants, SMT
  <2> HIDE DEF up, down, ahead, n
  <2>2. ~Valid(up) /\ (Valid(down) <=> ahead <= n)
    BY <1>1, <1>2, <1>5, <2>1, OneAhead
  <2>3. WallCollide(b, t) = IF Valid(down) THEN down ELSE up
    BY <1>4, <2>2 DEF EarlierOf
  <2> QED
    BY <1>2, <1>4, <2>1, <2>2, <2>3 DEF ahead, n
<1> QED
  BY <1>1, <1>6, <1>7

(* Likewise for the goal lines and a ball between them.                    *)
LEMMA LineAhead ==
  ASSUME NEW b \in BallType, NEW t \in Nat,
         BallHalf < b.x, b.x < Width - BallHalf
  PROVE  LET ahead == IF b.dx = 1 THEN Width - BallHalf - b.x ELSE b.x - BallHalf
             line == ScoreCollide(b, t)
         IN  /\ ahead \in Nat /\ ahead > 0
             /\ line \in Over(b.speed * t)
             /\ Valid(line) <=> ahead <= b.speed * t
             /\ Valid(line) => line.cells = ahead
<1> DEFINE n == b.speed * t
           left == XCollide(b, 0, t)
           right == XCollide(b, Width, t)
           ahead == IF b.dx = 1 THEN Width - BallHalf - b.x ELSE b.x - BallHalf
<1>1. b.x \in Int /\ b.dx \in {-1, 1} /\ n \in Nat
  BY Speeds DEF BallType
<1>2. ahead \in Nat /\ ahead > 0
  BY <1>1, FieldConstants, SMT
<1>3. left \in Over(n) /\ right \in Over(n)
  BY FieldConstants, LinesTried
<1>4. ScoreCollide(b, t) = IF Valid(left) THEN left ELSE right
  BY DEF ScoreCollide
<1>5. /\ right.of = n /\ right.cells = b.dx * (Width - b.x) - BallHalf
      /\ left.of = n /\ left.cells = b.dx * (0 - b.x) - BallHalf
  BY DEF XCollide
<1>6. CASE b.dx = 1
  <2>1. right.cells = ahead /\ left.cells < 0 /\ left.cells \in Int
    BY <1>1, <1>5, <1>6, FieldConstants, SMT
  <2> HIDE DEF left, right, ahead, n
  <2>2. ~Valid(left) /\ (Valid(right) <=> ahead <= n)
    BY <1>1, <1>2, <1>5, <2>1, OneAhead
  <2> QED
    BY <1>2, <1>3, <1>4, <2>1, <2>2 DEF ahead, n
<1>7. CASE b.dx = -1
  <2>1. left.cells = ahead /\ right.cells < 0 /\ right.cells \in Int
    BY <1>1, <1>5, <1>7, FieldConstants, SMT
  <2> HIDE DEF left, right, ahead, n
  <2>2. ~Valid(right) /\ (Valid(left) <=> ahead <= n)
    BY <1>1, <1>2, <1>5, <2>1, OneAhead
  <2> QED
    BY <1>2, <1>3, <1>4, <2>1, <2>2 DEF ahead, n
<1> QED
  BY <1>1, <1>6, <1>7

LEMMA Moved ==
  ASSUME NEW b \in BallType, NEW k \in Nat
  PROVE  LET m == Move(b, k)
         IN  /\ m \in BallType
             /\ m.x = b.x + k * b.dx /\ m.y = b.y + k * b.dy
             /\ m.dx = b.dx /\ m.dy = b.dy
<1>1. b.x \in Int /\ b.y \in Int /\ b.dx \in {-1, 1} /\ b.dy \in {-1, 1}
  BY DEF BallType
<1>2. b.x + k * b.dx \in Int /\ b.y + k * b.dy \in Int
  BY <1>1, SMT
<1> QED
  BY <1>1, <1>2 DEF BallType, Move

LEMMA Bounced ==
  ASSUME NEW b \in BallType, NEW axis \in {"x", "y"}
  PROVE  LET r == Bounce(b, axis)
         IN  /\ r \in BallType
             /\ r.x = b.x /\ r.y = b.y
             /\ r.dy = IF axis = "y" THEN -b.dy ELSE b.dy
<1>1. /\ b.dx \in {-1, 1} /\ b.dy \in {-1, 1}
      /\ b.speed \in StartSpeed..(SpeedCap + 1)
  BY DEF BallType
<1>2. -b.dx \in {-1, 1} /\ -b.dy \in {-1, 1}
  BY <1>1, SMT
<1>3. (IF b.speed > SpeedCap THEN b.speed ELSE b.speed + 1)
        \in StartSpeed..(SpeedCap + 1)
  BY <1>1, FieldConstants, SMT
<1> QED
  BY <1>1, <1>2, <1>3 DEF BallType, Bounce

(* A ball that stops short of the wall stays between the walls, and so     *)
(* does one that turns round at it.                                        *)
LEMMA StaysBetween ==
  ASSUME NEW b \in BallType, Between(b), NEW k \in Nat
  PROVE  LET ahead == IF b.dy = 1 THEN Height - BallHalf - b.y ELSE b.y - BallHalf
             m == Move(b, k)
         IN  /\ k < ahead => Between(m)
             /\ k < ahead => Between(Bounce(m, "x"))
             /\ 0 < k /\ k <= ahead => Between(Bounce(m, "y"))
<1> DEFINE ahead == IF b.dy = 1 THEN Height - BallHalf - b.y ELSE b.y - BallHalf
           m == Move(b, k)
           rx == Bounce(m, "x")
           ry == Bounce(m, "y")
<1>1. b.y \in Int /\ b.dy \in {-1, 1}
  BY DEF BallType
<1>2. m \in BallType /\ m.y = b.y + k * b.dy /\ m.dy = b.dy
  BY Moved
<1> HIDE DEF m
<1>3. rx.y = m.y /\ ry.y = m.y /\ rx.dy = m.dy /\ ry.dy = -m.dy
  BY <1>2, Bounced
<1> HIDE DEF rx, ry
<1>4. /\ BallHalf <= b.y /\ b.y <= Height - BallHalf
      /\ b.y = BallHalf => b.dy = 1
      /\ b.y = Height - BallHalf => b.dy = -1
  BY DEF Between
<1>5. CASE b.dy = 1
  <2>1. ahead = Height - BallHalf - b.y /\ m.y = b.y + k /\ m.dy = 1
        /\ rx.dy = 1 /\ ry.dy = -1 /\ rx.y = b.y + k /\ ry.y = b.y + k
    BY <1>1, <1>2, <1>3, <1>5, SMT
  <2> HIDE DEF ahead
  <2> QED
    BY <1>1, <1>4, <1>5, <2>1, FieldConstants, SMT DEF Between, m, ahead, rx, ry
<1>6. CASE b.dy = -1
  <2>1. ahead = b.y - BallHalf /\ m.y = b.y - k /\ m.dy = -1
        /\ rx.dy = -1 /\ ry.dy = 1 /\ rx.y = b.y - k /\ ry.y = b.y - k
    <3>1. m.y = b.y - k
      BY <1>1, <1>2, <1>6, SMT
    <3>2. ahead = b.y - BallHalf
      BY <1>6, SMT
    <3>3. m.dy = -1 /\ rx.dy = -1 /\ ry.dy = 1
      <4>1. \A d \in Int : d + 1 = 0 => -d = 1
        BY SMT
      <4>2. b.dy \in Int /\ b.dy + 1 = 0
        BY <1>1, <1>6, SMT
      <4> QED
        BY <1>2, <1>3, <1>6, <4>1, <4>2
    <3> QED
      BY <1>3, <3>1, <3>2, <3>3
  <2> HIDE DEF ahead
  <2> QED
    BY <1>1, <1>4, <1>6, <2>1, FieldConstants, SMT DEF Between, m, ahead, rx, ry
<1> QED
  BY <1>1, <1>5, <1>6

LEMMA StaysInside ==
  ASSUME NEW b \in BallType, Inside(b), NEW k \in Nat, NEW axis \in {"x", "y"},
         k < IF b.dx = 1 THEN Width - BallHalf - b.x ELSE b.x - BallHalf
  PROVE  Inside(Move(b, k)) /\ Inside(Bounce(Move(b, k), axis))
<1> DEFINE m == Move(b, k)
           r == Bounce(m, axis)
<1>1. b.x \in Int /\ b.dx \in {-1, 1}
  BY DEF BallType
<1>2. m \in BallType /\ m.x = b.x + k * b.dx
  BY Moved
<1> HIDE DEF m
<1>3. r.x = m.x
  BY <1>2, Bounced
<1> HIDE DEF r
<1>4. BallHalf < m.x /\ m.x < Width - BallHalf
  BY <1>1, <1>2, FieldConstants, SMT DEF Inside
<1> QED
  BY <1>3, <1>4 DEF Inside, m, r
-----------------------------------------------------------------------------
(* What is in the way of a ball that is about to score.                    *)
LEMMA NearFirst ==
  ASSUME NEW n \in Nat, n > 0, NEW c, NEW d, c.of = n, d.of = n,
         c.cells \in 1..n, d.cells \in Int, c.cells < d.cells
  PROVE  /\ Valid(c)
         /\ EarlierOf(c, d) = c
         /\ EarlierOf(d, c) = c
<1>1. c.cells \in Int /\ 0 < c.cells /\ c.cells <= n
  BY SMT
<1>2. Valid(c)
  BY <1>1 DEF Valid
<1>3. Before(c, d) /\ ~Before(d, c)
  <2>1. ~(d.cells < c.cells)
    BY <1>1, SMT
  <2> QED
    BY <1>1, <2>1, Cancel DEF Before
<1> QED
  BY <1>2, <1>3 DEF EarlierOf

(* After k cells two edges that close in on each other have met and have   *)
(* not yet parted.                                                         *)
LEMMA Overlap ==
  ASSUME NEW p \in Int, NEW q \in Int, NEW d \in {-1, 1}, NEW half \in Nat,
         NEW k \in Nat
  PROVE  ~Beside(p + k * d, q, half) <=>
           /\ d * (q - p) - (BallHalf + half) <= k
           /\ k <= d * (q - p) + (BallHalf + half)
<1>1. CASE d = 1
  BY <1>1, FieldConstants, SMT DEF Beside
<1>2. CASE d = -1
  BY <1>2, FieldConstants, SMT DEF Beside
<1> QED
  BY <1>1, <1>2

(* A ball that gets to touch a paddle on its way meets it before that.     *)
LEMMA PaddleMet ==
  ASSUME NEW b \in BallType, NEW t \in Nat, t > 0, NEW i \in 1..2,
         NEW x, x = PaddleX(i), NEW y \in Int, y = paddle[i], NEW j \in Nat, j > 0, j <= b.speed * t,
         ~Touching(b, i), Touching(Move(b, j), i)
  PROVE  LET c == PaddleCollide(b, i, y, t)
         IN  Valid(c) /\ c.cells <= j
<1> DEFINE n == b.speed * t
           lowX == XCollide(b, x - PaddleHalfX, t)
           highX == XCollide(b, x + PaddleHalfX, t)
           highY == YCollide(b, y + PaddleHalfY, t)
           lowY == YCollide(b, y - PaddleHalfY, t)
           xHit == EarlierOf(lowX, highX)
           yHit == EarlierOf(highY, lowY)
           xMissed == Beside(Move(b, xHit.cells).y, y, PaddleHalfY)
           yMissed == Beside(Move(b, yHit.cells).x, x, PaddleHalfX)
           cx == IF Valid(xHit) /\ ~xMissed THEN xHit ELSE NoCollision
           cy == IF Valid(yHit) /\ ~yMissed THEN yHit ELSE NoCollision
           eX == b.dx * (x - b.x) - (BallHalf + PaddleHalfX)
           eY == b.dy * (y - b.y) - (BallHalf + PaddleHalfY)
<1>1. /\ b.x \in Int /\ b.y \in Int /\ b.dx \in {-1, 1} /\ b.dy \in {-1, 1}
      /\ n \in Nat /\ n > 0 /\ x \in Int /\ y \in Int
      /\ PaddleHalfX > 0 /\ PaddleHalfY > 0
  <2>1. PaddleHalfX > 0 /\ PaddleHalfY > 0
    BY FieldConstants, BallPhysicsAssumption, SMT
  <2>2. x \in Int
    BY FieldConstants, SMT DEF PaddleX
  <2> QED
    BY <2>1, <2>2, Speeds DEF BallType
<1>2. PaddleCollide(b, i, y, t) = EarlierOf(cx, cy)
  BY DEF PaddleCollide
<1>3. cx \in Over(n) /\ cy \in Over(n)
  <2>1. x - PaddleHalfX \in Int /\ x + PaddleHalfX \in Int
        /\ y + PaddleHalfY \in Int /\ y - PaddleHalfY \in Int
    BY <1>1, FieldConstants, SMT
  <2>2. lowX \in Over(n) /\ highX \in Over(n) /\ lowY \in Over(n) /\ highY \in Over(n)
    <3> QED
      BY <2>1, LinesTried
  <2> HIDE DEF lowX, highX, lowY, highY, n
  <2>3. xHit \in Over(n) /\ yHit \in Over(n)
    BY <2>2, EarlierOne
  <2>4. NoCollision \in Over(n)
    BY SMT DEF NoCollision, Over, Collision, Valid
  <2> HIDE DEF xHit, yHit, xMissed, yMissed
  <2> QED
    BY <2>3, <2>4
<1>4. /\ lowX.of = n /\ highX.of = n /\ lowY.of = n /\ highY.of = n
      /\ lowX.cells = b.dx * (x - PaddleHalfX - b.x) - BallHalf
      /\ highX.cells = b.dx * ((x + PaddleHalfX) - b.x) - BallHalf
      /\ lowY.cells = b.dy * (y - PaddleHalfY - b.y) - BallHalf
      /\ highY.cells = b.dy * ((y + PaddleHalfY) - b.y) - BallHalf
  BY DEF XCollide, YCollide
<1>5. /\ Move(b, 0).x = b.x /\ Move(b, 0).y = b.y
      /\ \A k \in Nat : /\ Move(b, k).x = b.x + k * b.dx
                        /\ Move(b, k).y = b.y + k * b.dy
  <2>1. \A k \in Nat : /\ Move(b, k).x = b.x + k * b.dx
                       /\ Move(b, k).y = b.y + k * b.dy
    BY Moved
  <2>2. 0 \in Nat /\ b.x + 0 * b.dx = b.x /\ b.y + 0 * b.dy = b.y
    BY <1>1, SMT
  <2> QED
    BY <2>1, <2>2
<1> DEFINE inX(k) == eX <= k /\ k <= eX + 2 * (BallHalf + PaddleHalfX)
           inY(k) == eY <= k /\ k <= eY + 2 * (BallHalf + PaddleHalfY)
<1>6. \A k \in Nat : /\ ~Beside(b.x + k * b.dx, x, PaddleHalfX) <=> inX(k)
                     /\ ~Beside(b.y + k * b.dy, y, PaddleHalfY) <=> inY(k)
  <2>1. ASSUME NEW k \in Nat
        PROVE  /\ ~Beside(b.x + k * b.dx, x, PaddleHalfX) <=>
                    /\ b.dx * (x - b.x) - (BallHalf + PaddleHalfX) <= k
                    /\ k <= b.dx * (x - b.x) + (BallHalf + PaddleHalfX)
               /\ ~Beside(b.y + k * b.dy, y, PaddleHalfY) <=>
                    /\ b.dy * (y - b.y) - (BallHalf + PaddleHalfY) <= k
                    /\ k <= b.dy * (y - b.y) + (BallHalf + PaddleHalfY)
    <3> QED
      BY <1>1, FieldConstants, Overlap
  <2>2. /\ b.dx * (x - b.x) + (BallHalf + PaddleHalfX) = eX + 2 * (BallHalf + PaddleHalfX)
        /\ b.dy * (y - b.y) + (BallHalf + PaddleHalfY) = eY + 2 * (BallHalf + PaddleHalfY)
    <3>1. \A u \in Int, v, w \in Nat : u + (v + w) = u - (v + w) + 2 * (v + w)
      BY SMT
    <3>2. b.dx * (x - b.x) \in Int /\ b.dy * (y - b.y) \in Int
      BY <1>1, SMT
    <3> QED
      BY <3>1, <3>2, FieldConstants
  <2> QED
    BY <2>1, <2>2
<1>7. \A k \in Nat : /\ ~Beside(Move(b, k).x, x, PaddleHalfX) <=> inX(k)
                     /\ ~Beside(Move(b, k).y, y, PaddleHalfY) <=> inY(k)
  <2> HIDE DEF inX, inY
  <2> QED
    BY <1>5, <1>6
<1>8. eX \in Int /\ eY \in Int
  BY <1>1, FieldConstants, SMT
<1>9. /\ b.dx = 1 => lowX.cells = eX /\ highX.cells = eX + 2 * PaddleHalfX
      /\ b.dx = -1 => highX.cells = eX /\ lowX.cells = eX + 2 * PaddleHalfX
      /\ b.dy = 1 => lowY.cells = eY /\ highY.cells = eY + 2 * PaddleHalfY
      /\ b.dy = -1 => highY.cells = eY /\ lowY.cells = eY + 2 * PaddleHalfY
  <2> HIDE DEF lowX, highX, lowY, highY
  <2>1. \A p, q \in Int, h, g \in Nat :
          /\ 1 * (q - h - p) - g = 1 * (q - p) - (g + h)
          /\ 1 * ((q + h) - p) - g = 1 * (q - p) - (g + h) + 2 * h
          /\ -1 * ((q + h) - p) - g = -1 * (q - p) - (g + h)
          /\ -1 * (q - h - p) - g = -1 * (q - p) - (g + h) + 2 * h
    BY SMT
  <2> QED
    BY <1>1, <1>4, <2>1, FieldConstants
<1>10. inX(j) /\ inY(j) /\ ~(inX(0) /\ inY(0))
  <2> HIDE DEF inX, inY
  <2>1. inX(j) /\ inY(j)
    <3>1. /\ ~Beside(Move(b, j).x, x, PaddleHalfX)
          /\ ~Beside(Move(b, j).y, y, PaddleHalfY)
      BY DEF Touching
    <3> QED
      BY <1>7, <3>1
  <2>2. 0 \in Nat
    BY SMT
  <2>3. Touching(b, i) <=> ~Beside(Move(b, 0).x, x, PaddleHalfX)
                            /\ ~Beside(Move(b, 0).y, y, PaddleHalfY)
    BY <1>5 DEF Touching
  <2> QED
    BY <1>7, <2>1, <2>2, <2>3
<1> HIDE DEF lowX, highX, lowY, highY, eX, eY, n
<1>11. eX <= j /\ eY <= j /\ (eX > 0 \/ eY > 0) /\ j <= n
       /\ j <= eX + 2 * (BallHalf + PaddleHalfX)
       /\ j <= eY + 2 * (BallHalf + PaddleHalfY)
  BY <1>8, <1>10, FieldConstants, SMT DEF n
<1>12. ASSUME eX > 0, eX >= eY
       PROVE  Valid(cx) /\ cx.cells <= j
  <2>1. xHit.cells = eX /\ Valid(xHit)
    <3>1. eX \in 1..n /\ eX + 2 * PaddleHalfX \in Int /\ eX < eX + 2 * PaddleHalfX
      BY <1>1, <1>8, <1>11, <1>12, FieldConstants, SMT
    <3>2. CASE b.dx = 1
      BY <1>1, <1>4, <1>9, <3>1, <3>2, NearFirst
    <3>3. CASE b.dx = -1
      BY <1>1, <1>4, <1>9, <3>1, <3>3, NearFirst
    <3> QED
      BY <1>1, <3>2, <3>3
  <2>2. eX \in Nat /\ inY(eX)
    BY <1>8, <1>11, <1>12, FieldConstants, SMT
  <2>3. ~xMissed
    <3> HIDE DEF xHit, inY
    <3> QED
      BY <1>7, <2>1, <2>2
  <2> HIDE DEF xHit, xMissed
  <2> QED
    BY <1>11, <2>1, <2>3
<1>13. ASSUME eY > 0, eY >= eX
       PROVE  Valid(cy) /\ cy.cells <= j
  <2>1. yHit.cells = eY /\ Valid(yHit)
    <3>1. eY \in 1..n /\ eY + 2 * PaddleHalfY \in Int /\ eY < eY + 2 * PaddleHalfY
      BY <1>1, <1>8, <1>11, <1>13, FieldConstants, SMT
    <3>2. CASE b.dy = 1
      BY <1>1, <1>4, <1>9, <3>1, <3>2, NearFirst
    <3>3. CASE b.dy = -1
      BY <1>1, <1>4, <1>9, <3>1, <3>3, NearFirst
    <3> QED
      BY <1>1, <3>2, <3>3
  <2>2. eY \in Nat /\ inX(eY)
    BY <1>8, <1>11, <1>13, FieldConstants, SMT
  <2>3. ~yMissed
    <3> HIDE DEF yHit, inX
    <3> QED
      BY <1>7, <2>1, <2>2
  <2> HIDE DEF yHit, yMissed
  <2> QED
    BY <1>11, <2>1, <2>3
<1> HIDE DEF cx, cy
<1>14. (Valid(cx) /\ cx.cells <= j) \/ (Valid(cy) /\ cy.cells <= j)
  <2>1. (eX > 0 /\ eX >= eY) \/ (eY > 0 /\ eY >= eX)
    BY <1>8, <1>11, SMT
  <2> QED
    BY <1>12, <1>13, <2>1
<1>15. /\ Valid(EarlierOf(cx, cy))
       /\ Valid(cx) => EarlierOf(cx, cy).cells <= cx.cells
       /\ Valid(cy) => EarlierOf(cx, cy).cells <= cy.cells
  BY <1>1, <1>3, <1>14, EarlierOne, EarlierFirst
<1>16. /\ cx.cells \in Int /\ cy.cells \in Int
       /\ EarlierOf(cx, cy).cells \in Int
  <2>1. EarlierOf(cx, cy) \in Over(n)
    BY <1>3, EarlierOne
  <2> QED
    BY <1>3, <2>1 DEF Over, Collision
<1>17. EarlierOf(cx, cy).cells <= j
  <2>1. \A u, v \in Int : u <= v /\ v <= j => u <= j
    BY SMT
  <2> QED
    BY <1>14, <1>15, <1>16, <2>1
<1> QED
  BY <1>2, <1>15, <1>17

(* A ball that no wall stops before k cells, and that is not going into    *)
(* one already, is between the walls after k cells.                        *)
LEMMA WallsClear ==
  ASSUME NEW b \in BallType, NEW t \in Nat, t > 0, InHeight(Move(b, 1)),
         NEW k \in Nat, k > 0, k <= b.speed * t,
         Valid(WallCollide(b, t)) => k <= WallCollide(b, t).cells
  PROVE  InHeight(Move(b, k))
<1> DEFINE n == b.speed * t
           up == YCollide(b, Height, t)
           down == YCollide(b, 0, t)
<1>1. b.y \in Int /\ b.dy \in {-1, 1} /\ n \in Nat /\ n > 0
  BY Speeds DEF BallType
<1>2. WallCollide(b, t) = EarlierOf(up, down)
  BY DEF WallCollide
<1>3. /\ up.of = n /\ up.cells = b.dy * (Height - b.y) - BallHalf
      /\ down.of = n /\ down.cells = b.dy * (0 - b.y) - BallHalf
  BY DEF YCollide
<1>4. Move(b, 1).y = b.y + b.dy /\ Move(b, k).y = b.y + k * b.dy
  <2>1. 1 \in Nat /\ 1 * b.dy = b.dy
    BY <1>1, SMT
  <2> QED
    BY <2>1, Moved
<1>5. BallHalf <= b.y + b.dy /\ b.y + b.dy <= Height - BallHalf
  BY <1>1, <1>4, FieldConstants, SMT DEF InHeight
<1>6. k <= n /\ (Valid(EarlierOf(up, down)) => k <= EarlierOf(up, down).cells)
  BY <1>2
<1> HIDE DEF n, up, down
<1>7. CASE b.dy = 1
  <2> DEFINE ahead == Height - BallHalf - b.y
  <2>1. up.cells = ahead /\ ahead \in Nat /\ ahead > 0
        /\ down.cells < 0 /\ down.cells \in Int
    BY <1>1, <1>3, <1>5, <1>7, FieldConstants, SMT
  <2> HIDE DEF ahead
  <2>2. ~Valid(down) /\ (Valid(up) <=> ahead <= n)
    BY <1>1, <1>3, <2>1, OneAhead
  <2>3. ahead <= n => k <= ahead
    BY <1>6, <2>1, <2>2 DEF EarlierOf
  <2>4. k <= ahead
    BY <1>1, <1>6, <2>1, <2>3, SMT
  <2> QED
    BY <1>1, <1>4, <1>5, <1>7, <2>4, FieldConstants, SMT DEF InHeight, ahead
<1>8. CASE b.dy = -1
  <2> DEFINE ahead == b.y - BallHalf
  <2>1. down.cells = ahead /\ ahead \in Nat /\ ahead > 0
        /\ up.cells < 0 /\ up.cells \in Int
    BY <1>1, <1>3, <1>5, <1>8, FieldConstants, SMT
  <2> HIDE DEF ahead
  <2>2. ~Valid(up) /\ (Valid(down) <=> ahead <= n)
    BY <1>1, <1>3, <2>1, OneAhead
  <2>3. ahead <= n => k <= ahead
    BY <1>6, <2>1, <2>2 DEF EarlierOf
  <2>4. k <= ahead
    BY <1>1, <1>6, <2>1, <2>3, SMT
  <2> QED
    BY <1>1, <1>4, <1>5, <1>8, <2>4, FieldConstants, SMT DEF InHeight, ahead
<1> QED
  BY <1>1, <1>7, <1>8

-----------------------------------------------------------------------------
(* The middle of the field is between the walls and the goal lines.        *)
LEMMA NewBall ==
  ASSUME NEW b \in NewBalls
  PROVE  b \in BallType /\ Between(b) /\ Inside(b)
<1>1. PICK dx \in {-1, 1}, dy \in {-1, 1} :
        b = [x |-> Width \div 2, y |-> Height \div 2, dx |-> dx, dy |-> dy,
             speed |-> StartSpeed]
  BY DEF NewBalls
<1>2. b \in BallType
  BY <1>1, FieldConstants, SMT DEF BallType
<1>3. /\ Height \div 2 < Height - BallHalf /\ Width \div 2 < Width - BallHalf
      /\ Height \div 2 > BallHalf /\ Width \div 2 > BallHalf
  BY FieldConstants, SMT
<1> QED
  BY <1>1, <1>2, <1>3, FieldConstants, SMT DEF Between, Inside

LEMMA MiddleOfPaddles == Middle \in Int /\ <<Middle, Middle>> \in [1..2 -> Int]
<1>1. Middle \in Int
  BY FieldConstants, SMT DEF Middle
<1> QED
  BY <1>1, SMT

LEMMA InitInv == Init => IInv
<1> SUFFICES ASSUME Init PROVE IInv
  OBVIOUS
<1> USE DEF Init, REInit
<1>1. /\ clock \in MachineInt /\ last = Wrap(clock - since) /\ start = clock
      /\ since \in Interval..(Interval + 2 * Longest) /\ since \in Nat /\ since < Half
  BY Constants, SMT
<1>2. last \in MachineInt /\ clock = Wrap(last + since)
  BY <1>1, WrapBack
<1>3. Clocks
  BY <1>1, <1>2, Constants, SMT DEF Clocks
<1>4. RETypeOK
  BY <1>1, <1>2, Constants, SMT DEF RETypeOK, MachineInt
<1>5. ball \in BallType /\ Between(ball) /\ Inside(ball)
  BY NewBall
<1>6. TypeOK
  <2>1. passed \in Nat /\ scored \in -2..1
    BY SMT DEF Unwritten
  <2> QED
    BY <1>4, <1>5, <2>1, MiddleOfPaddles DEF TypeOK, BallType
<1>7. Stages /\ Walls /\ Lines
  <2>1. Unwritten \notin {0, 1}
    BY SMT DEF Unwritten
  <2> QED
    BY <1>5, <2>1 DEF Stages, Walls, Lines
<1> QED
  BY <1>3, <1>6, <1>7 DEF IInv
-----------------------------------------------------------------------------
LEMMA InTick ==
  ASSUME IInv, stage # "idle"
  PROVE  /\ phase = "func"
         /\ delta \in Nat /\ delta > 0
         /\ ball \in BallType /\ passed \in Nat
<1>1. phase = "func" /\ delta >= Interval
  BY DEF IInv, Stages
<1>2. ball \in BallType /\ passed \in Nat /\ delta \in MachineInt
  BY DEF IInv, TypeOK, RETypeOK, BallType
<1> QED
  BY <1>1, <1>2, Constants, SMT DEF MachineInt

LEMMA Units ==
  ASSUME delta \in Nat, delta > 0, passed \in Nat
  PROVE  /\ TimeLeft => Remaining \in 0..delta
         /\ passed = 0 => TimeLeft /\ Remaining = delta
<1> DEFINE m == Millisecond
<1>1. m \in Nat /\ m > 0
  <2>1. \A s, u \in Nat : s > 0 /\ u > 0 => s * u \in Nat /\ s * u > 0
    BY SMT
  <2> QED
    BY <2>1, FieldConstants DEF Millisecond
<1>2. Remaining = (m * delta - passed) \div m /\ (TimeLeft <=> passed < m * delta)
  BY DEF Remaining, TimeLeft
<1> HIDE DEF m
<1>3. m * delta \in Nat /\ m * delta > 0 /\ m * delta < (delta + 1) * m
  BY <1>1, SMT
<1>4. ASSUME TimeLeft
      PROVE  Remaining \in 0..delta
  <2> DEFINE x == m * delta - passed
  <2>1. x \in Nat /\ x < (delta + 1) * m
    <3>1. passed < m * delta
      BY <1>2, <1>4
    <3>2. \A p, q, r \in Nat : p < q /\ q < r => q - p \in Nat /\ q - p < r
      BY SMT
    <3>3. (delta + 1) * m \in Nat
      BY <1>1, SMT
    <3> QED
      BY <1>3, <3>1, <3>2, <3>3
  <2> HIDE DEF x
  <2>2. x \div m \in 0..delta
    BY <1>1, <2>1, Quotient
  <2> QED
    BY <1>2, <2>2 DEF x
<1>5. ASSUME passed = 0
      PROVE  TimeLeft /\ Remaining = delta
  <2>1. m * delta - passed = m * delta
    BY <1>3, <1>5, SMT
  <2>2. (m * delta) \div m = delta
    BY <1>1, SMT
  <2> QED
    BY <1>2, <1>3, <1>5, <2>1, <2>2
<1> QED
  BY <1>4, <1>5

LEMMA Tried ==
  ASSUME IInv, stage = "loop", TimeLeft
  PROVE  /\ ball.speed * delta \in Nat /\ ball.speed * delta > 0
         /\ Remaining \in 0..delta
         /\ \A i \in 1..3 : Collisions[i] \in Over(ball.speed * delta)
         /\ Collisions[4] \in Over(ball.speed * Remaining)
         /\ Collisions[3] = WallCollide(ball, delta)
         /\ Collisions[4] = ScoreCollide(ball, Remaining)
<1>1. /\ delta \in Nat /\ delta > 0 /\ ball \in BallType /\ passed \in Nat
  BY InTick
<1>2. Remaining \in 0..delta /\ Remaining \in Nat
  BY <1>1, Units, SMT
<1>3. paddle[1] \in Int /\ paddle[2] \in Int
  BY DEF IInv, TypeOK
<1>4. /\ PaddleCollide(ball, 1, paddle[1], delta) \in Over(ball.speed * delta)
      /\ PaddleCollide(ball, 2, paddle[2], delta) \in Over(ball.speed * delta)
  BY <1>1, <1>3, PaddleTried
<1>5. WallCollide(ball, delta) \in Over(ball.speed * delta)
  <2>1. /\ YCollide(ball, Height, delta) \in Over(ball.speed * delta)
        /\ YCollide(ball, 0, delta) \in Over(ball.speed * delta)
    BY <1>1, FieldConstants, LinesTried
  <2> QED
    BY <2>1, EarlierOne DEF WallCollide
<1>6. ScoreCollide(ball, Remaining) \in Over(ball.speed * Remaining)
  <2>1. /\ XCollide(ball, Width, Remaining) \in Over(ball.speed * Remaining)
        /\ XCollide(ball, 0, Remaining) \in Over(ball.speed * Remaining)
    BY <1>1, <1>2, FieldConstants, LinesTried
  <2> QED
    BY <2>1 DEF ScoreCollide
<1>7. /\ Collisions[1] = PaddleCollide(ball, 1, paddle[1], delta)
      /\ Collisions[2] = PaddleCollide(ball, 2, paddle[2], delta)
      /\ Collisions[3] = WallCollide(ball, delta)
      /\ Collisions[4] = ScoreCollide(ball, Remaining)
  BY DEF Collisions
<1>8. \A i \in 1..3 : i = 1 \/ i = 2 \/ i = 3
  BY SMT
<1> QED
  BY <1>1, <1>2, <1>4, <1>5, <1>6, <1>7, <1>8, Speeds

(* What the ball bounces off is one of the paddles or a wall, and neither  *)
(* a wall nor, in the first pass of a tick, the goal line is before it.    *)
LEMMA BounceFirst ==
  ASSUME IInv, stage = "loop", TimeLeft, NEW cs, cs = Collisions,
         Valid(FirstOf(cs)), ~Scores(cs)
  PROVE  LET c == FirstOf(cs)
             n == ball.speed * delta
         IN  /\ c \in Over(n) /\ c.cells \in 1..n
             /\ Valid(cs[3]) => /\ c.cells <= cs[3].cells
                                /\ c.cells = cs[3].cells => SameTime(c, cs[3])
             /\ passed = 0 /\ Valid(cs[4]) => c.cells < cs[4].cells
<1> DEFINE n == ball.speed * delta
           pair == EarlierOf(cs[1], cs[2])
           e == EarlierOf(pair, cs[3])
           c == FirstOf(cs)
<1>1. /\ n \in Nat /\ n > 0 /\ Remaining \in 0..delta
      /\ cs[1] \in Over(n) /\ cs[2] \in Over(n) /\ cs[3] \in Over(n)
      /\ cs[4] \in Over(ball.speed * Remaining)
  <2>1. 1 \in 1..3 /\ 2 \in 1..3 /\ 3 \in 1..3
    BY SMT
  <2> QED
    BY <2>1, Tried
<1>2. c = EarlierOf(e, cs[4])
  BY DEF FirstOf
<1> HIDE DEF n
<1>3. pair \in Over(n)
  BY <1>1, EarlierOne
<1> HIDE DEF pair
<1>4. e \in Over(n) /\ (Valid(cs[3]) => e.cells <= cs[3].cells)
  BY <1>1, <1>3, EarlierFirst
<1> HIDE DEF e
<1>5. c = e
  <2>1. SUFFICES ASSUME c = cs[4], Valid(cs[4])
                 PROVE  FALSE
    BY <1>2, EarlierOne
  <2>2. SameTime(c, cs[4])
    BY <2>1 DEF SameTime
  <2> QED
    BY <2>1, <2>2 DEF Scores
<1> HIDE DEF c
<1>6. Valid(c) /\ ~Scores(cs)
  BY DEF c
<1>7. c \in Over(n) /\ c.of = n /\ c.cells \in Int
  BY <1>4, <1>5, <1>6 DEF Over, Collision
<1>8. c.cells \in 1..n
  BY <1>1, <1>6, <1>7, SMT DEF Valid
<1>9. ASSUME Valid(cs[3])
      PROVE  /\ c.cells <= cs[3].cells
             /\ c.cells = cs[3].cells => SameTime(c, cs[3])
  <2>1. cs[3].of = n
    BY <1>1, <1>9 DEF Over
  <2> QED
    BY <1>4, <1>5, <1>7, <1>9, <2>1 DEF SameTime
<1>10. ASSUME passed = 0, Valid(cs[4])
       PROVE  c.cells < cs[4].cells
  <2>1. cs[4] \in Over(n)
    <3>1. Remaining = delta
      BY <1>10, InTick, Units
    <3> QED
      BY <1>1, <3>1 DEF n
  <2>2. cs[4].of = n /\ cs[4].cells \in Int
    BY <1>10, <2>1 DEF Over, Collision
  <2>3. c.cells <= cs[4].cells
    BY <1>1, <1>2, <1>4, <1>10, <2>1, EarlierFirst
  <2>4. c.cells # cs[4].cells
    <3>1. SUFFICES ASSUME c.cells = cs[4].cells PROVE FALSE
      OBVIOUS
    <3>2. SameTime(c, cs[4])
      BY <1>7, <2>2, <3>1 DEF SameTime
    <3> QED
      BY <1>6, <1>10, <3>2 DEF Scores, c
  <2> QED
    BY <1>7, <2>2, <2>3, <2>4, SMT
<1> QED
  BY <1>7, <1>8, <1>9, <1>10 DEF c, n
-----------------------------------------------------------------------------
(* The thread: the clock of each of its steps.                             *)
LEMMA StartFuncStep ==
  ASSUME IInv, StartFunc
  PROVE  /\ RETypeOK' /\ Clocks'
         /\ delta' = since /\ since \in Interval..(Interval + 2 * Longest)
<1>1. /\ {clock, last, start, delta} \subseteq MachineInt
      /\ frac \in 0..(Fractions - 1) /\ sleeping \in 0..Interval
      /\ run \in BOOLEAN
  BY DEF IInv, TypeOK, RETypeOK
<1>2. /\ since \in Interval..(Interval + 2 * Longest)
      /\ clock = Wrap(last + since)
  BY DEF IInv, Clocks, StartFunc
<1>3. since \in Nat /\ since < Half
  BY <1>2, Constants, SMT
<1>4. delta' = since
  BY <1>1, <1>2, <1>3, WrapBack DEF StartFunc
<1>5. since \in MachineInt
  BY <1>3, Constants, SMT DEF MachineInt
<1>6. /\ phase' = "func" /\ start' = clock /\ since' = 0 /\ clock' = clock
      /\ UNCHANGED <<frac, last, sleeping, run>>
  BY DEF StartFunc
<1>7. RETypeOK'
  <2>1. 0 \in Nat
    BY SMT
  <2>2. {clock', last', start', delta'} \subseteq MachineInt
    BY <1>1, <1>4, <1>5, <1>6
  <2> QED
    BY <1>1, <1>6, <2>1, <2>2 DEF RETypeOK, MachineInt
<1>8. Clocks'
  BY <1>6 DEF Clocks
<1> QED
  BY <1>2, <1>4, <1>7, <1>8

LEMMA FuncReturnsStep ==
  ASSUME IInv, NEW again \in BOOLEAN, FuncReturns(again)
  PROVE  RETypeOK' /\ Clocks' /\ phase' = "sleep"
<1>1. /\ {clock, last, start, delta} \subseteq MachineInt
      /\ frac \in 0..(Fractions - 1) /\ since = 0 /\ clock = start
  BY DEF IInv, TypeOK, RETypeOK, Clocks, FuncReturns
<1>2. PICK d \in Durations : Elapse(0, d)
  BY DEF FuncReturns
<1>3. 0 \in Nat /\ since \in Nat
  BY <1>1, SMT
<1>4. PICK q \in 0..Longest : /\ clock' = Wrap(clock + (0 + q))
                              /\ since' = since + (0 + q)
                              /\ frac' \in 0..(Fractions - 1)
  BY <1>1, <1>2, <1>3, Elapsed
<1>5. q \in Nat /\ q <= Longest /\ q < Half /\ 0 + q = q /\ since + (0 + q) = q
  BY <1>1, Constants, SMT
<1>6. clock' \in MachineInt /\ Wrap(clock' - start) = q
  BY <1>1, <1>4, <1>5, WrapBack
<1>7. sleeping' = IF Interval - q > 0 THEN Interval - q ELSE 0
  BY <1>6 DEF FuncReturns
<1>8. sleeping' \in 0..Interval /\ sleeping' + q >= Interval
  BY <1>5, <1>7, Constants, SMT
<1>9. /\ phase' = "sleep" /\ run' = again /\ since' = q
      /\ UNCHANGED <<last, start, delta>>
  BY <1>4, <1>5 DEF FuncReturns
<1>10. RETypeOK'
  BY <1>1, <1>4, <1>5, <1>6, <1>8, <1>9 DEF RETypeOK, MachineInt
<1>11. Clocks'
  <2>1. since' \in 0..Longest /\ sleeping' + since' >= Interval
    BY <1>8, <1>9
  <2>2. clock' = Wrap(start' + since')
    BY <1>1, <1>4, <1>5, <1>9
  <2> QED
    BY <1>9, <2>1, <2>2 DEF Clocks
<1> QED
  BY <1>9, <1>10, <1>11

LEMMA WakeStep ==
  ASSUME IInv, Wake
  PROVE  RETypeOK' /\ Clocks'
<1>1. /\ {clock, last, start, delta} \subseteq MachineInt
      /\ frac \in 0..(Fractions - 1) /\ run \in BOOLEAN
      /\ since \in 0..Longest /\ clock = Wrap(start + since)
      /\ sleeping + since >= Interval /\ sleeping \in 0..Interval
  BY DEF IInv, TypeOK, RETypeOK, Clocks, Wake
<1>2. PICK o \in Oversleeps : Elapse(sleeping, o)
  BY DEF Wake
<1>3. sleeping \in Nat /\ since \in Nat
  BY <1>1, Constants, SMT
<1>4. PICK q \in 0..Longest : /\ clock' = Wrap(clock + (sleeping + q))
                              /\ since' = since + (sleeping + q)
                              /\ frac' \in 0..(Fractions - 1)
  BY <1>1, <1>2, <1>3, Elapsed
<1>5. /\ sleeping + q \in Nat /\ since + (sleeping + q) \in Nat
      /\ since + (sleeping + q) < Half
      /\ since + (sleeping + q) \in Interval..(Interval + 2 * Longest)
  BY <1>1, <1>3, Constants, SMT
<1>6. clock' = Wrap(start + since') /\ clock' \in MachineInt
  <2>1. Wrap(Wrap(start + since) + (sleeping + q)) = Wrap(start + (since + (sleeping + q)))
    BY <1>1, <1>3, <1>5, WrapTwice
  <2> QED
    BY <1>1, <1>4, <1>5, <2>1, WrapBack
<1>7. /\ phase' = "start" /\ last' = start
      /\ UNCHANGED <<start, delta, sleeping, run>>
  BY DEF Wake
<1>8. RETypeOK'
  BY <1>1, <1>4, <1>5, <1>6, <1>7 DEF RETypeOK, MachineInt
<1>9. Clocks'
  BY <1>4, <1>5, <1>6, <1>7 DEF Clocks
<1> QED
  BY <1>8, <1>9

LEMMA StopStep ==
  ASSUME IInv, Stop
  PROVE  RETypeOK' /\ Clocks'
<1>1. RETypeOK
  BY DEF IInv, TypeOK
<1> QED
  BY <1>1 DEF RETypeOK, Clocks, Stop, MachineInt

LEMMA StillStep ==
  ASSUME IInv, UNCHANGED reVars
  PROVE  RETypeOK' /\ Clocks' /\ phase' = phase /\ delta' = delta
<1>1. RETypeOK /\ Clocks
  BY DEF IInv, TypeOK
<1> QED
  BY <1>1 DEF RETypeOK, Clocks, reVars, MachineInt
-----------------------------------------------------------------------------
(* The ball: what each step of a tick does to it.                          *)
LEMMA Indices ==
  /\ 0 \in Nat /\ Unwritten = -2 /\ Unwritten \in -2..1 /\ Unwritten \notin {0, 1}
  /\ \A i \in -1..1 : i \in -2..1 /\ i # Unwritten
  /\ -1 \in -1..1 /\ 0 \in -1..1 /\ 1 \in -1..1
BY SMT DEF Unwritten

LEMMA StartTickStep ==
  ASSUME IInv, StartTick
  PROVE  IInv'
<1>1. /\ RETypeOK' /\ Clocks' /\ phase' = "func"
      /\ delta' = since /\ since \in Interval..(Interval + 2 * Longest)
  BY StartFuncStep DEF StartTick, StartFunc
<1>2. /\ stage' = "loop" /\ passed' = 0 /\ scored' = Unwritten
      /\ UNCHANGED <<ball, paddle, cornered, rebounded>>
  BY DEF StartTick
<1>3. TypeOK'
  BY <1>1, <1>2, Indices DEF IInv, TypeOK, BallType
<1>4. delta' >= Interval
  BY <1>1, Constants, SMT
<1>5. Stages'
  BY <1>1, <1>2, <1>4, Indices DEF Stages
<1>6. Walls' /\ Lines'
  BY <1>2 DEF IInv, Walls, Lines, Between, Inside
<1> QED
  BY <1>1, <1>3, <1>5, <1>6 DEF IInv

LEMMA GoalStep ==
  ASSUME IInv, stage = "loop", NEW cs, Goal(cs), UNCHANGED <<reVars, paddle>>
  PROVE  IInv'
<1>1. RETypeOK' /\ Clocks' /\ phase' = phase /\ delta' = delta
  BY StillStep
<1>2. /\ stage' = "done" /\ scored' = ScoredIndex(ball, Remaining)
      /\ UNCHANGED <<ball, paddle, passed, cornered, rebounded>>
  BY DEF Goal
<1>3. scored' \in -2..1 /\ scored' # Unwritten
  <2>1. ScoredIndex(ball, Remaining) \in -1..1
    BY Indices DEF ScoredIndex
  <2> QED
    BY <1>2, <2>1, Indices
<1>4. TypeOK'
  BY <1>1, <1>2, <1>3 DEF IInv, TypeOK, BallType
<1>5. Stages'
  BY <1>1, <1>2, <1>3 DEF IInv, Stages
<1>6. Walls' /\ Lines'
  BY <1>2 DEF IInv, Walls, Lines, Between, Inside
<1> QED
  BY <1>1, <1>4, <1>5, <1>6 DEF IInv

LEMMA NoTimeLeftStep ==
  ASSUME IInv, NoTimeLeft
  PROVE  IInv'
<1>1. RETypeOK' /\ Clocks' /\ phase' = phase /\ delta' = delta
  BY StillStep DEF NoTimeLeft
<1>2. /\ stage = "loop" /\ stage' = "done" /\ ~TimeLeft
      /\ UNCHANGED <<ball, paddle, passed, scored, cornered, rebounded>>
  BY DEF NoTimeLeft
<1>3. scored # Unwritten
  BY <1>2, InTick, Units DEF IInv, Stages
<1>4. TypeOK'
  BY <1>1, <1>2 DEF IInv, TypeOK, BallType
<1>5. Stages'
  BY <1>1, <1>2, <1>3 DEF IInv, Stages
<1>6. Walls' /\ Lines'
  BY <1>2 DEF IInv, Walls, Lines, Between, Inside
<1> QED
  BY <1>1, <1>4, <1>5, <1>6 DEF IInv

LEMMA BounceStep ==
  ASSUME IInv, stage = "loop", TimeLeft, NEW cs, cs = Collisions, BounceOff(cs),
         UNCHANGED <<reVars, paddle>>
  PROVE  IInv'
<1> DEFINE c == FirstOf(cs)
           n == ball.speed * delta
           k == c.cells
           m == Move(ball, k)
<1>1. RETypeOK' /\ Clocks' /\ phase' = phase /\ delta' = delta
  BY StillStep
<1>2. /\ delta \in Nat /\ delta > 0 /\ ball \in BallType /\ passed \in Nat
      /\ {cornered, rebounded} \subseteq BOOLEAN
  BY InTick DEF IInv, TypeOK
<1>3. n \in Nat /\ n > 0 /\ Remaining \in 0..delta
      /\ cs[3] = WallCollide(ball, delta) /\ cs[4] = ScoreCollide(ball, Remaining)
  BY Tried
<1>4. /\ c \in Over(n) /\ k \in 1..n
      /\ Valid(cs[3]) => k <= cs[3].cells /\ (k = cs[3].cells => SameTime(c, cs[3]))
      /\ passed = 0 /\ Valid(cs[4]) => k < cs[4].cells
  BY BounceFirst DEF BounceOff
<1>5. /\ ball' = Bounce(m, c.axis)
      /\ passed' = passed + k * (SpeedUnits \div ball.speed)
      /\ cornered' = (cornered \/ (c.axis = "x" /\ Valid(cs[3]) /\ SameTime(c, cs[3])))
      /\ rebounded' = (rebounded \/ passed > 0)
      /\ scored' = -1 /\ stage' = stage /\ paddle' = paddle
  BY DEF BounceOff
<1> HIDE DEF c, n
<1>6. k \in Nat /\ k > 0 /\ k <= n /\ c.axis \in {"x", "y"}
  <2>1. c.axis \in {"x", "y"}
    BY <1>4 DEF Over, Collision
  <2>2. k \in Nat /\ k > 0 /\ k <= n
    BY <1>3, <1>4, SMT
  <2> QED
    BY <2>1, <2>2
<1> HIDE DEF k
<1>7. m \in BallType
  BY <1>2, <1>6, Moved
<1>8. ball' \in BallType
  BY <1>5, <1>6, <1>7, Bounced
<1>9. passed' \in Nat
  <2>1. SpeedUnits \div ball.speed \in Nat
    BY <1>2, Speeds, FieldConstants, SMT
  <2> QED
    BY <1>2, <1>5, <1>6, <2>1, SMT
<1>10. TypeOK'
  BY <1>1, <1>2, <1>5, <1>8, <1>9, Indices DEF IInv, TypeOK, BallType
<1>11. Stages'
  BY <1>1, <1>5, Indices DEF IInv, Stages
<1>12. Walls'
  <2>1. SUFFICES ASSUME ~cornered' PROVE Between(ball')
    BY DEF Walls, Between
  <2>2. Between(ball)
    BY <1>2, <1>5, <2>1 DEF IInv, Walls
  <2> DEFINE ahead == IF ball.dy = 1 THEN Height - BallHalf - ball.y
                                     ELSE ball.y - BallHalf
  <2>3. /\ ahead \in Nat /\ ahead > 0
        /\ Valid(cs[3]) <=> ahead <= n
        /\ Valid(cs[3]) => cs[3].cells = ahead
    BY <1>2, <1>3, <2>2, WallAhead DEF Between, n
  <2>4. /\ k < ahead => Between(Bounce(m, "x"))
        /\ 0 < k /\ k <= ahead => Between(Bounce(m, "y"))
    BY <1>2, <1>6, <2>2, StaysBetween
  <2> HIDE DEF ahead
  <2>5. CASE Valid(cs[3])
    <3>1. k <= ahead
      BY <1>4, <2>3, <2>5 DEF k
    <3>2. ASSUME c.axis = "x" PROVE k < ahead
      <4>1. k # ahead
        BY <1>4, <1>5, <2>1, <2>3, <2>5, <3>2 DEF k
      <4> QED
        BY <1>6, <2>3, <3>1, <4>1, SMT
    <3> QED
      BY <1>5, <1>6, <2>4, <3>1, <3>2
  <2>6. CASE ~Valid(cs[3])
    <3>1. k < ahead /\ k <= ahead
      BY <1>3, <1>6, <2>3, <2>6, SMT DEF n
    <3> QED
      BY <1>5, <1>6, <2>4, <3>1
  <2> QED
    BY <2>5, <2>6
<1>13. Lines'
  <2>1. SUFFICES ASSUME ~rebounded' PROVE Inside(ball')
    BY DEF Lines, Inside
  <2>2. Inside(ball) /\ ~(passed > 0)
    BY <1>2, <1>5, <2>1 DEF IInv, Lines
  <2>3. passed = 0
    BY <1>2, <2>2, SMT
  <2>4. Remaining = delta
    BY <1>2, <2>3, Units
  <2> DEFINE ahead == IF ball.dx = 1 THEN Width - BallHalf - ball.x
                                     ELSE ball.x - BallHalf
  <2>5. /\ ahead \in Nat /\ ahead > 0
        /\ Valid(cs[4]) <=> ahead <= n
        /\ Valid(cs[4]) => cs[4].cells = ahead
    BY <1>2, <1>3, <2>2, <2>4, LineAhead DEF Inside, n
  <2>6. k < ahead => Inside(Bounce(m, c.axis))
    BY <1>2, <1>6, <2>2, StaysInside
  <2> HIDE DEF ahead
  <2>7. k < ahead
    <3>1. CASE Valid(cs[4])
      BY <1>4, <2>3, <2>5, <3>1 DEF k
    <3>2. CASE ~Valid(cs[4])
      BY <1>3, <1>6, <2>5, <3>2, SMT DEF n
    <3> QED
      BY <3>1, <3>2
  <2> QED
    BY <1>5, <2>6, <2>7
<1> QED
  BY <1>1, <1>10, <1>11, <1>12, <1>13 DEF IInv

LEMMA FreeMoveStep ==
  ASSUME IInv, stage = "loop", TimeLeft, NEW cs, cs = Collisions, FreeMove(cs),
         UNCHANGED <<reVars, paddle>>
  PROVE  IInv'
<1> DEFINE n == ball.speed * delta
           k == ball.speed * Remaining
<1>1. RETypeOK' /\ Clocks' /\ phase' = phase /\ delta' = delta
  BY StillStep
<1>2. /\ delta \in Nat /\ delta > 0 /\ ball \in BallType
  BY InTick
<1>3. /\ Remaining \in 0..delta /\ Remaining \in Nat
      /\ cs[3] = WallCollide(ball, delta) /\ cs[4] = ScoreCollide(ball, Remaining)
  <2>1. Remaining \in 0..delta
    BY Tried
  <2>2. Remaining \in Nat
    BY <1>2, <2>1, SMT
  <2> QED
    BY <2>1, <2>2, Tried
<1>4. n \in Nat /\ k \in Nat /\ k <= n
  <2>1. \A s, r, d \in Nat : r <= d => s * r <= s * d
    BY SMT
  <2>2. Remaining <= delta
    BY <1>2, <1>3, SMT
  <2> QED
    BY <1>2, <1>3, <2>1, <2>2, Speeds
<1>5. ~Valid(cs[3]) /\ ~Valid(cs[4])
  BY EarlierOne DEF FreeMove, FirstOf
<1>6. /\ ball' = Move(ball, k)
      /\ scored' = -1 /\ stage' = "done"
      /\ UNCHANGED <<passed, cornered, rebounded, paddle>>
  BY DEF FreeMove
<1> HIDE DEF n, k
<1>7. ball' \in BallType
  BY <1>2, <1>4, <1>6, Moved
<1>8. TypeOK'
  BY <1>1, <1>6, <1>7, Indices DEF IInv, TypeOK, BallType
<1>9. Stages'
  BY <1>1, <1>6, Indices DEF IInv, Stages
<1>10. Walls'
  <2>1. SUFFICES ASSUME ~cornered' PROVE Between(ball')
    BY DEF Walls, Between
  <2>2. Between(ball)
    BY <1>6, <2>1 DEF IInv, Walls
  <2> DEFINE ahead == IF ball.dy = 1 THEN Height - BallHalf - ball.y
                                     ELSE ball.y - BallHalf
  <2>3. ahead \in Nat /\ (Valid(cs[3]) <=> ahead <= n)
    BY <1>2, <1>3, <2>2, WallAhead DEF Between, n
  <2>4. k < ahead => Between(Move(ball, k))
    BY <1>2, <1>4, <2>2, StaysBetween
  <2> HIDE DEF ahead
  <2>5. k < ahead
    BY <1>4, <1>5, <2>3, SMT
  <2> QED
    BY <1>6, <2>4, <2>5
<1>11. Lines'
  <2>1. SUFFICES ASSUME ~rebounded' PROVE Inside(ball')
    BY DEF Lines, Inside
  <2>2. Inside(ball)
    BY <1>6, <2>1 DEF IInv, Lines
  <2> DEFINE ahead == IF ball.dx = 1 THEN Width - BallHalf - ball.x
                                     ELSE ball.x - BallHalf
  <2>3. ahead \in Nat /\ (Valid(cs[4]) <=> ahead <= k)
    BY <1>2, <1>3, <2>2, LineAhead DEF Inside, k
  <2>4. k < ahead => Inside(Move(ball, k))
    <3>1. "x" \in {"x", "y"}
      OBVIOUS
    <3> QED
      BY <1>2, <1>4, <2>2, <3>1, StaysInside
  <2> HIDE DEF ahead
  <2>5. k < ahead
    BY <1>4, <1>5, <2>3, SMT
  <2> QED
    BY <1>6, <2>4, <2>5
<1> QED
  BY <1>1, <1>8, <1>9, <1>10, <1>11 DEF IInv

LEMMA EndTickStep ==
  ASSUME IInv, NEW again \in BOOLEAN, EndTick(again)
  PROVE  IInv'
<1>1. RETypeOK' /\ Clocks'
  BY FuncReturnsStep DEF EndTick
<1>2. stage' = "idle" /\ passed' = 0 /\ scored' = Unwritten
  BY DEF EndTick
<1>3. Stages'
  BY <1>2, Indices DEF Stages
<1>4. PICK index : IF index # -1
         THEN /\ ball' \in NewBalls
              /\ paddle' = <<Middle, Middle>>
              /\ cornered' = FALSE
              /\ rebounded' = FALSE
         ELSE /\ \E right \in PaddleSteps[1], left \in PaddleSteps[2] :
                   paddle' = <<paddle[1] + right, paddle[2] + left>>
              /\ UNCHANGED <<ball, cornered, rebounded>>
  BY DEF EndTick
<1>5. CASE index # -1
  <2>1. /\ ball' \in NewBalls /\ paddle' = <<Middle, Middle>>
        /\ cornered' = FALSE /\ rebounded' = FALSE
    BY <1>4, <1>5
  <2>2. ball' \in BallType /\ Between(ball') /\ Inside(ball')
    BY <2>1, NewBall
  <2>3. TypeOK'
    BY <1>1, <1>2, <2>1, <2>2, MiddleOfPaddles, Indices DEF TypeOK, BallType
  <2>4. Walls' /\ Lines'
    BY <2>2 DEF Walls, Lines, Between, Inside
  <2> QED
    BY <1>1, <1>3, <2>3, <2>4 DEF IInv
<1>6. CASE index = -1
  <2>1. PICK right \in PaddleSteps[1], left \in PaddleSteps[2] :
          paddle' = <<paddle[1] + right, paddle[2] + left>>
    BY <1>4, <1>6
  <2>2. UNCHANGED <<ball, cornered, rebounded>>
    BY <1>4, <1>6
  <2>3. paddle' \in [1..2 -> Int]
    <3>1. paddle[1] \in Int /\ paddle[2] \in Int
      BY DEF IInv, TypeOK
    <3>2. right \in Int /\ left \in Int
      BY GameTickAssumption
    <3>3. paddle[1] + right \in Int /\ paddle[2] + left \in Int
      BY <3>1, <3>2, SMT
    <3> QED
      BY <2>1, <3>3, SMT
  <2>4. TypeOK'
    BY <1>1, <1>2, <2>2, <2>3, Indices DEF IInv, TypeOK, BallType
  <2>5. Walls' /\ Lines'
    BY <2>2 DEF IInv, Walls, Lines, Between, Inside
  <2> QED
    BY <1>1, <1>3, <2>4, <2>5 DEF IInv
<1> QED
  BY <1>5, <1>6

(* Between two ticks, and when nothing happens, the ball is left alone.    *)
LEMMA BallStill ==
  ASSUME IInv, UNCHANGED ballVars, RETypeOK', Clocks',
         stage = "idle" \/ UNCHANGED <<phase, delta>>
  PROVE  IInv'
<1>1. TypeOK'
  BY DEF IInv, TypeOK, ballVars
<1>2. Stages'
  BY DEF IInv, Stages, ballVars
<1>3. Walls' /\ Lines'
  BY DEF IInv, Walls, Lines, Between, Inside, ballVars
<1> QED
  BY <1>1, <1>2, <1>3 DEF IInv
-----------------------------------------------------------------------------
LEMMA StepInv == IInv /\ [Next]_vars => IInv'
<1> SUFFICES ASSUME IInv, [Next]_vars
             PROVE  IInv'
  OBVIOUS
<1>1. CASE StartTick
  BY <1>1, StartTickStep
<1>2. CASE Pass
  <2>1. PICK cs : cs = Collisions /\ (Goal(cs) \/ BounceOff(cs) \/ FreeMove(cs))
    BY <1>2 DEF Pass
  <2>2. stage = "loop" /\ TimeLeft /\ UNCHANGED <<reVars, paddle>>
    BY <1>2 DEF Pass
  <2> QED
    BY <2>1, <2>2, GoalStep, BounceStep, FreeMoveStep
<1>3. CASE NoTimeLeft
  BY <1>3, NoTimeLeftStep
<1>4. ASSUME NEW again \in BOOLEAN, EndTick(again)
      PROVE  IInv'
  BY <1>4, EndTickStep
<1>5. CASE BetweenTicks
  <2>1. RETypeOK' /\ Clocks' /\ UNCHANGED ballVars
    BY <1>5, WakeStep, StopStep DEF BetweenTicks
  <2>2. stage = "idle"
    BY <1>5 DEF BetweenTicks, Wake, Stop, IInv, Stages
  <2> QED
    BY <2>1, <2>2, BallStill
<1>6. CASE UNCHANGED vars
  <2>1. UNCHANGED reVars /\ UNCHANGED ballVars
    BY <1>6 DEF vars
  <2> QED
    BY <2>1, StillStep, BallStill
<1> QED
  BY <1>1, <1>2, <1>3, <1>4, <1>5, <1>6 DEF Next, Advance

LEMMA Inductive == Spec => []IInv
BY InitInv, StepInv, PTL DEF Spec

(* Every variable keeps its type: no reading of the clock leaves the range *)
(* of an int, and the ball is never faster than one step above the cap.    *)
THEOREM TypesHold == Spec => []TypeOK
<1>1. IInv => TypeOK
  BY DEF IInv
<1> QED
  BY <1>1, Inductive, PTL

(* delta_time, the difference of two readings that may have wrapped, is    *)
(* the time since the previous tick began, and no tick is shorter than the *)
(* interval, which is what send_state relies on.                           *)
THEOREM DeltaIsTime == Spec => TickTrue
<1>1. ASSUME IInv, [Next]_vars, phase' = "func", phase = "start"
      PROVE  delta' = since /\ since >= Interval
  <2>1. StartFunc
    <3>1. phase' # phase
      BY <1>1
    <3>2. ~UNCHANGED vars /\ ~Advance /\ ~BetweenTicks
      BY <1>1, <3>1 DEF vars, reVars, Advance, Pass, NoTimeLeft, BetweenTicks,
                        Wake, Stop
    <3>3. \A again \in BOOLEAN : ~EndTick(again)
      BY <1>1 DEF EndTick, FuncReturns
    <3> QED
      BY <1>1, <3>2, <3>3 DEF Next, StartTick
  <2>2. delta' = since /\ since \in Interval..(Interval + 2 * Longest)
    BY <1>1, <2>1, StartFuncStep
  <2> QED
    BY <2>2, Constants, SMT
<1>2. IInv /\ [Next]_vars => [phase' = "func" /\ phase = "start" =>
                                delta' = since /\ since >= Interval]_vars
  BY <1>1
<1> QED
  BY <1>2, Inductive, PTL DEF Spec, TickTrue

(* send_state never reads scored_index before ball_advance has written it, *)
(* for a tick has some time left when it starts.                           *)
THEOREM IndexWritten == Spec => []ScoredWritten
<1>1. IInv => ScoredWritten
  BY DEF IInv, Stages, ScoredWritten
<1> QED
  BY <1>1, Inductive, PTL

(* Neither a paddle nor a wall is met before the goal line that scores,    *)
(* although the line is tried for a shorter move than they are.            *)
LEMMA GoalFirst ==
  ASSUME IInv, stage = "loop", TimeLeft, NEW cs, cs = Collisions, Scores(cs)
  PROVE  /\ cs[4].cells \in Nat /\ cs[4].cells > 0
         /\ cs[4].cells <= ball.speed * delta
         /\ \A q \in 1..3 : Valid(cs[q]) => cs[4].cells <= cs[q].cells
<1> DEFINE n == ball.speed * delta
           m == ball.speed * Remaining
           pair == EarlierOf(cs[1], cs[2])
           e == EarlierOf(pair, cs[3])
           line == cs[4]
<1>1. /\ n \in Nat /\ n > 0 /\ Remaining \in 0..delta
      /\ cs[1] \in Over(n) /\ cs[2] \in Over(n) /\ cs[3] \in Over(n)
      /\ line \in Over(m)
  <2>1. 1 \in 1..3 /\ 2 \in 1..3 /\ 3 \in 1..3
    BY SMT
  <2> QED
    BY <2>1, Tried
<1>2. m \in Nat /\ m <= n
  <2>1. \A s, r, d \in Nat : r <= d => s * r \in Nat /\ s * r <= s * d
    BY SMT
  <2>2. delta \in Nat /\ delta > 0 /\ ball \in BallType
    BY InTick
  <2>3. Remaining \in Nat /\ Remaining <= delta
    BY <1>1, <2>2, SMT
  <2> QED
    BY <2>1, <2>2, <2>3, Speeds
<1>3. Valid(line) /\ SameTime(EarlierOf(e, line), line)
  BY DEF Scores, FirstOf
<1> HIDE DEF n, m
<1>4. pair \in Over(n) /\ (Valid(cs[1]) => pair.cells <= cs[1].cells)
      /\ (Valid(cs[2]) => pair.cells <= cs[2].cells)
      /\ (Valid(cs[1]) \/ Valid(cs[2]) => Valid(pair))
  BY <1>1, EarlierFirst, EarlierOne
<1> HIDE DEF pair
<1>5. e \in Over(n) /\ (Valid(pair) => e.cells <= pair.cells)
      /\ (Valid(cs[3]) => e.cells <= cs[3].cells)
      /\ (Valid(pair) \/ Valid(cs[3]) => Valid(e))
  <2>1. e \in Over(n)
    BY <1>1, <1>4, EarlierOne
  <2>2. (Valid(pair) => e.cells <= pair.cells) /\ (Valid(cs[3]) => e.cells <= cs[3].cells)
    BY <1>1, <1>4, EarlierFirst
  <2>3. Valid(pair) \/ Valid(cs[3]) => Valid(e)
    BY EarlierOne
  <2> QED
    BY <2>1, <2>2, <2>3
<1> HIDE DEF e, line
<1>6. line.of = m /\ line.cells \in Int /\ 0 < line.cells /\ line.cells <= m
  BY <1>1, <1>3 DEF Over, Collision, Valid
<1>7. line.cells \in Nat /\ line.cells <= n
  BY <1>1, <1>2, <1>6, SMT
<1>8. ASSUME Valid(e)
      PROVE  line.cells <= e.cells
  <2>1. e.of = n /\ e.cells \in Int /\ 0 < e.cells
    BY <1>5, <1>8 DEF Over, Collision, Valid
  <2>2. SUFFICES ASSUME e.cells < line.cells PROVE FALSE
    BY <1>7, <2>1, SMT
  <2>3. e.cells * m < line.cells * n
    <3>1. \A a, w, u, v \in Nat : a < w /\ u <= v /\ v > 0 => a * u < w * v
      <4>1. ASSUME NEW a \in Nat, NEW w \in Nat, NEW u \in Nat, NEW v \in Nat,
                   a < w, u <= v, v > 0
            PROVE  a * u < w * v
        <5>1. a * u <= a * v
          BY <4>1, SMT
        <5>2. a * v < w * v
          BY <4>1, Cancel
        <5> QED
          BY <5>1, <5>2, SMT
      <4> QED
        BY <4>1
    <3>2. e.cells \in Nat
      BY <2>1, SMT
    <3> QED
      BY <1>1, <1>2, <1>7, <2>2, <3>1, <3>2
  <2>4. e.cells * m \in Int /\ line.cells * n \in Int
    BY <1>1, <1>2, <1>6, <2>1, SMT
  <2>5. ~Before(line, e) /\ ~SameTime(e, line)
    BY <1>6, <2>1, <2>3, <2>4, SMT DEF Before, SameTime
  <2>6. EarlierOf(e, line) = e
    BY <1>8, <2>5 DEF EarlierOf
  <2> QED
    BY <1>3, <2>5, <2>6
<1>9. \A q \in 1..3 : Valid(cs[q]) => line.cells <= cs[q].cells
  <2>1. \A u, v, w \in Int : u <= v /\ v <= w => u <= w
    BY SMT
  <2>2. /\ e.cells \in Int /\ pair.cells \in Int
        /\ cs[1].cells \in Int /\ cs[2].cells \in Int /\ cs[3].cells \in Int
    BY <1>1, <1>4, <1>5 DEF Over, Collision
  <2>3. Valid(cs[3]) => line.cells <= cs[3].cells
    BY <1>5, <1>6, <1>8, <2>1, <2>2
  <2>4. Valid(pair) => line.cells <= pair.cells
    BY <1>5, <1>6, <1>8, <2>1, <2>2
  <2>5. /\ Valid(cs[1]) => line.cells <= cs[1].cells
        /\ Valid(cs[2]) => line.cells <= cs[2].cells
    BY <1>4, <1>6, <2>1, <2>2, <2>4
  <2>6. \A q \in 1..3 : q = 1 \/ q = 2 \/ q = 3
    BY SMT
  <2> QED
    BY <2>3, <2>5, <2>6
<1> QED
  BY <1>6, <1>7, <1>9 DEF line, n

(* The step in which somebody scores.                                      *)
LEMMA GoalReal ==
  ASSUME IInv, stage = "loop", TimeLeft, NEW cs, cs = Collisions, Goal(cs)
  PROVE  LET side == IF scored' = 0 THEN 0 ELSE Width
             way == ball.dx * (side - ball.x) - BallHalf
         IN  /\ way \in 1..(ball.speed * delta)
             /\ InHeight(Move(ball, 1)) => InHeight(Move(ball, way))
             /\ \A j \in 1..(way - 1), i \in 1..2 :
                  Touching(Move(ball, j), i) => Touching(ball, i)
<1> DEFINE n == ball.speed * delta
           side == IF scored' = 0 THEN 0 ELSE Width
           way == ball.dx * (side - ball.x) - BallHalf
           left == XCollide(ball, 0, Remaining)
           right == XCollide(ball, Width, Remaining)
<1>1. /\ delta \in Nat /\ delta > 0 /\ ball \in BallType
      /\ n \in Nat /\ n > 0
      /\ cs[3] = WallCollide(ball, delta) /\ cs[4] = ScoreCollide(ball, Remaining)
      /\ cs[1] = PaddleCollide(ball, 1, paddle[1], delta)
      /\ cs[2] = PaddleCollide(ball, 2, paddle[2], delta)
  BY InTick, Tried DEF Collisions
<1>2. /\ cs[4].cells \in Nat /\ cs[4].cells > 0 /\ cs[4].cells <= n
      /\ \A q \in 1..3 : Valid(cs[q]) => cs[4].cells <= cs[q].cells
  BY GoalFirst DEF Goal
<1>3. way = cs[4].cells
  <2>1. /\ left.cells = ball.dx * (0 - ball.x) - BallHalf
        /\ right.cells = ball.dx * (Width - ball.x) - BallHalf
    BY DEF XCollide
  <2>2. Valid(cs[4]) /\ scored' = ScoredIndex(ball, Remaining)
    BY DEF Goal, Scores
  <2>3. cs[4] = IF Valid(left) THEN left ELSE right
    BY <1>1 DEF ScoreCollide
  <2> HIDE DEF left, right
  <2>4. CASE Valid(left)
    <3>1. scored' = 0
      BY <2>2, <2>4 DEF ScoredIndex, left
    <3> QED
      BY <2>1, <2>3, <2>4, <3>1
  <2>5. CASE ~Valid(left)
    <3>1. scored' = 1
      BY <2>2, <2>3, <2>5 DEF ScoredIndex, left, right
    <3>2. 1 # 0
      BY SMT
    <3> QED
      BY <2>1, <2>3, <2>5, <3>1, <3>2
  <2> QED
    BY <2>4, <2>5
<1> HIDE DEF way, n
<1>4. way \in Nat /\ way > 0 /\ way <= n /\ way \in 1..n
  BY <1>1, <1>2, <1>3, SMT
<1>5. InHeight(Move(ball, 1)) => InHeight(Move(ball, way))
  <2>1. Valid(WallCollide(ball, delta)) => way <= WallCollide(ball, delta).cells
    <3>1. 3 \in 1..3
      BY SMT
    <3> QED
      BY <1>1, <1>2, <1>3, <3>1
  <2> QED
    BY <1>1, <1>4, <2>1, WallsClear DEF n
<1>6. ASSUME NEW j \in 1..(way - 1), NEW i \in 1..2, Touching(Move(ball, j), i)
      PROVE  Touching(ball, i)
  <2>1. SUFFICES ASSUME ~Touching(ball, i) PROVE FALSE
    OBVIOUS
  <2>2. j \in Nat /\ j > 0 /\ j < way /\ j <= n
    BY <1>1, <1>4, SMT
  <2>3. i \in 1..3 /\ (i = 1 \/ i = 2)
    BY SMT
  <2>4. paddle[i] \in Int
    BY DEF IInv, TypeOK
  <2>5. cs[i] = PaddleCollide(ball, i, paddle[i], delta)
    BY <1>1, <2>3
  <2>6. Valid(cs[i]) /\ cs[i].cells <= j
    BY <1>1, <1>6, <2>1, <2>2, <2>4, <2>5, PaddleMet DEF n
  <2>7. way <= cs[i].cells /\ cs[i].cells \in Int
    <3>1. cs[i] \in Over(n)
      BY <2>3, <2>5, Tried, <1>1, PaddleTried, <2>4 DEF n
    <3> QED
      BY <1>2, <1>3, <2>3, <2>6, <3>1 DEF Over, Collision
  <2> QED
    BY <1>4, <2>2, <2>6, <2>7, SMT
<1> QED
  BY <1>4, <1>5, <1>6 DEF way, n

(* A goal is given for a ball that reaches the goal line in the tick with  *)
(* nothing in its way: of the collisions that are tried for different      *)
(* lengths of time none comes before the line, and a paddle or a wall on   *)
(* the way is one of them.                                                 *)
THEOREM GoalsAreReal == Spec => GoalIsReal
<1> DEFINE real == LET side == IF scored' = 0 THEN 0 ELSE Width
                       way == ball.dx * (side - ball.x) - BallHalf
                   IN  /\ way \in 1..(ball.speed * delta)
                       /\ InHeight(Move(ball, 1)) => InHeight(Move(ball, way))
                       /\ \A j \in 1..(way - 1), i \in 1..2 :
                            Touching(Move(ball, j), i) => Touching(ball, i)
<1>1. ASSUME IInv, Next, scored' \in {0, 1}, vars' # vars
      PROVE  real
  <2>1. scored' # Unwritten /\ scored' # -1
    BY <1>1, SMT DEF Unwritten
  <2>2. CASE StartTick
    BY <2>1, <2>2 DEF StartTick
  <2>3. CASE Pass
    <3>1. PICK cs : cs = Collisions /\ (Goal(cs) \/ BounceOff(cs) \/ FreeMove(cs))
      BY <2>3 DEF Pass
    <3>2. Goal(cs)
      BY <2>1, <3>1 DEF BounceOff, FreeMove
    <3>3. stage = "loop" /\ TimeLeft
      BY <2>3 DEF Pass
    <3> QED
      BY <1>1, <3>1, <3>2, <3>3, GoalReal
  <2>4. CASE NoTimeLeft
    BY <1>1, <2>4 DEF NoTimeLeft, IInv, Stages
  <2>5. ASSUME NEW again \in BOOLEAN, EndTick(again)
        PROVE  FALSE
    BY <2>1, <2>5 DEF EndTick
  <2>6. CASE BetweenTicks
    <3>1. stage = "idle" /\ scored' = scored
      BY <1>1, <2>6 DEF BetweenTicks, Wake, Stop, ballVars, IInv, Stages
    <3> QED
      BY <1>1, <3>1 DEF IInv, Stages
  <2> HIDE DEF real
  <2> QED
    BY <1>1, <2>2, <2>3, <2>4, <2>5, <2>6 DEF Next, Advance
<1>2. IInv /\ [Next]_vars => [scored' \in {0, 1} => real]_vars
  BY <1>1
<1> QED
  BY <1>2, Inductive, PTL DEF Spec, GoalIsReal

(* Only a corner, where the paddle wins over the wall, lets the ball into  *)
(* a wall of ball_wall_collide.                                            *)
THEOREM WallsKeepTheBall == Spec => []WallsHold
<1>1. ASSUME IInv
      PROVE  WallsHold
  <2>1. SUFFICES ASSUME ~cornered PROVE ball.y \in BallHalf..(Height - BallHalf)
    BY DEF WallsHold, InHeight
  <2>2. Between(ball) /\ ball.y \in Int
    BY <1>1, <2>1 DEF IInv, TypeOK, Walls
  <2> QED
    BY <2>2, FieldConstants, SMT DEF Between
<1> QED
  BY <1>1, Inductive, PTL

(* Only a second bounce in one tick, for which ball_score_collide is given *)
(* less time than the others, lets the ball pass a goal line.              *)
THEOREM LinesKeepTheBall == Spec => []LinesHold
<1>1. ASSUME IInv
      PROVE  LinesHold
  <2>1. SUFFICES ASSUME ~rebounded
                 PROVE  ball.x \in (BallHalf + 1)..(Width - BallHalf - 1)
    BY DEF LinesHold
  <2>2. Inside(ball) /\ ball.x \in Int
    BY <1>1, <2>1 DEF IInv, TypeOK, Lines
  <2> QED
    BY <2>2, FieldConstants, SMT DEF Inside
<1> QED
  BY <1>1, Inductive, PTL
=============================================================================
