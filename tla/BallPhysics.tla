----------------------------- MODULE BallPhysics -----------------------------
(***************************************************************************)
(* The collisions of the ball: src/common/cpong_logic.c with engine.c and  *)
(* vector.c.  Lengths and times are integers.  The ball is a square and    *)
(* always moves along one of the diagonals of the grid, one of the slopes  *)
(* that the random angle of the code may have (a bounce changes only the   *)
(* signs); speed counts the cells that it moves in a millisecond both ways.*)
(* A collision is the number of cells up to it and the number of cells of  *)
(* the whole move: toi is their quotient.                                  *)
(* Paddle 1 is on the right.                                               *)
(***************************************************************************)
EXTENDS Integers

CONSTANTS
  Width, Height,              \* box_size
  BallHalf,                   \* half the size of the ball
  PaddleHalfX, PaddleHalfY,   \* half the size of a paddle
  StartSpeed, SpeedCap        \* 0.25 and 0.63 in the code

ASSUME BallPhysicsAssumption ==
  /\ {Width, Height, BallHalf, PaddleHalfX, PaddleHalfY} \subseteq Nat \ {0}
  /\ {StartSpeed, SpeedCap} \subseteq Nat \ {0} /\ StartSpeed <= SpeedCap
  /\ 2 * PaddleHalfX + BallHalf < Width \div 2
  /\ BallHalf < Height \div 2

PaddleX(i) == IF i = 1 THEN Width - PaddleHalfX ELSE PaddleHalfX

(* The middle of the field, in a random diagonal direction.                *)
NewBalls ==
  {[x |-> Width \div 2, y |-> Height \div 2, dx |-> dx, dy |-> dy,
    speed |-> StartSpeed] : dx \in {-1, 1}, dy \in {-1, 1}}

(* linear_move and linear_interpolate                                      *)
Move(ball, cells) ==
  [ball EXCEPT !.x = @ + cells * ball.dx, !.y = @ + cells * ball.dy]
-----------------------------------------------------------------------------
(* ball_x_collide and ball_y_collide: the edge that leads reaches a line.  *)
XCollide(ball, x, time) ==
  [cells |-> ball.dx * (x - ball.x) - BallHalf, of |-> ball.speed * time,
   axis |-> "x"]
YCollide(ball, y, time) ==
  [cells |-> ball.dy * (y - ball.y) - BallHalf, of |-> ball.speed * time,
   axis |-> "y"]

NoCollision == [cells |-> -1, of |-> 1, axis |-> "x"]

(* Faulty variant: a collision at once counts too.                         *)
ValidFromZero(c) == 0 <= c.cells /\ c.cells <= c.of

(* is_valid_toi                                                            *)
Valid(c) == 0 < c.cells /\ c.cells <= c.of

Before(c, d) == c.cells * d.of < d.cells * c.of
SameTime(c, d) == c.cells * d.of = d.cells * c.of

(* One step of get_first_collision; of two at the same time the first.     *)
EarlierOf(c, d) == IF Valid(d) /\ (Valid(c) => Before(d, c)) THEN d ELSE c

(* AABB_get_boundaries, and the test for a gap in AABB_collide.            *)
Beside(p, q, half) == p - q > BallHalf + half \/ q - p > BallHalf + half

(* AABB_collide.  The paddle is where it was at the start of the tick:     *)
(* coll_info->toi, by which it is moved, is still zero.                    *)
PaddleCollide(ball, i, y, time) ==
  LET x == PaddleX(i)
      xHit == EarlierOf(XCollide(ball, x - PaddleHalfX, time),
                        XCollide(ball, x + PaddleHalfX, time))
      yHit == EarlierOf(YCollide(ball, y + PaddleHalfY, time),
                        YCollide(ball, y - PaddleHalfY, time))
      xMissed == Beside(Move(ball, xHit.cells).y, y, PaddleHalfY)
      yMissed == Beside(Move(ball, yHit.cells).x, x, PaddleHalfX)
  IN  EarlierOf(IF Valid(xHit) /\ ~xMissed THEN xHit ELSE NoCollision,
                IF Valid(yHit) /\ ~yMissed THEN yHit ELSE NoCollision)

(* ball_wall_collide                                                       *)
WallCollide(ball, time) ==
  EarlierOf(YCollide(ball, Height, time), YCollide(ball, 0, time))

(* Faulty variant: the else belongs to the wrong if.                       *)
ScoreLeftOnly(ball, time) == XCollide(ball, 0, time)

(* ball_score_collide, and the index that it returns.                      *)
ScoreCollide(ball, time) ==
  LET left == XCollide(ball, 0, time)
  IN  IF Valid(left) THEN left ELSE XCollide(ball, Width, time)

ScoredIndex(ball, time) ==
  IF Valid(XCollide(ball, 0, time)) THEN 0
  ELSE IF Valid(XCollide(ball, Width, time)) THEN 1 ELSE -1

(* Faulty variant: a wall does not turn the ball round.                    *)
BounceFlat(ball, axis) ==
  [ball EXCEPT !.dx = IF axis = "x" THEN -@ ELSE @]

(* Faulty variant: nothing stops the ball from speeding up.                *)
BounceUncapped(ball, axis) ==
  [ball EXCEPT !.dx = IF axis = "x" THEN -@ ELSE @,
               !.dy = IF axis = "y" THEN -@ ELSE @,
               !.speed = @ + 1]

(* ball_bounce_on_collision: the ball is reflected and speeds up, up to    *)
(* one step beyond the cap.                                                *)
Bounce(ball, axis) ==
  [ball EXCEPT !.dx = IF axis = "x" THEN -@ ELSE @,
               !.dy = IF axis = "y" THEN -@ ELSE @,
               !.speed = IF @ > SpeedCap THEN @ ELSE @ + 1]
=============================================================================
