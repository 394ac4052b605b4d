------------------------------ MODULE GameTick ------------------------------
(***************************************************************************)
(* What a tick of the server does to the ball: send_state with ball_advance*)
(* under run_every.  The thread of PongServer's sender, seen from within:  *)
(* there a tick scores or not, here the ball decides it.                   *)
(* ball_advance is a loop over the collisions of one tick, one step each.  *)
(* It adds up toi in passed_time as if it were milliseconds, although toi  *)
(* is the part of the whole tick that lies before the collision.  As an    *)
(* integer, passed counts in units so fine that each toi is a whole number.*)
(***************************************************************************)
EXTENDS RunEvery, BallPhysics

CONSTANTS
  SpeedUnits,   \* divisible by every speed of the ball
  PaddleSteps,  \* what a paddle may move in a tick, given its input
  PaddleReach,  \* bound on the distance of a paddle from the middle
  BallReach     \* bound on the distance of a lost ball from the field

ASSUME GameTickAssumption ==
  /\ SpeedUnits \in Nat \ {0}
  /\ PaddleSteps \in [1..2 -> SUBSET Int] /\ PaddleReach \in Nat
  /\ BallReach \in Nat

VARIABLES
  ball,      \* the ball, in the hands of ball_advance
  paddle,    \* y of both paddles
  stage,     \* "idle", or where send_state is: in the "loop" or "done"
  passed,    \* passed_time
  scored,    \* scored_index
  cornered,  \* history: the ball has met a paddle and a wall at once
  rebounded  \* history: the ball has bounced more than once in one tick

ballVars == <<ball, paddle, stage, passed, scored, cornered, rebounded>>
vars == <<reVars, ballVars>>

Unwritten == -2  \* scored_index before anything is stored in it
Middle == Height \div 2

Init ==
  /\ REInit
  /\ ball \in NewBalls
  /\ paddle = <<Middle, Middle>>
  /\ stage = "idle"
  /\ passed = 0
  /\ scored = Unwritten
  /\ cornered = FALSE
  /\ rebounded = FALSE
-----------------------------------------------------------------------------
InReach ==
  /\ ball.x \in -BallReach..(Width + BallReach)
  /\ ball.y \in -BallReach..(Height + BallReach)

(* send_state up to the call of ball_advance.                              *)
StartTick ==
  /\ StartFunc
  /\ InReach
  /\ stage' = "loop"
  /\ passed' = 0
  /\ scored' = Unwritten
  /\ UNCHANGED <<ball, paddle, cornered, rebounded>>

(* A millisecond in the units of passed, and the condition of the loop.    *)
Millisecond == SpeedUnits * delta
TimeLeft == passed < Millisecond * delta

(* delta_time - passed_time, cut down to an int.                           *)
Remaining == (Millisecond * delta - passed) \div Millisecond

(* collisions[4]: the paddles and walls are tried for the whole tick, the  *)
(* goal lines for what is left of it.                                      *)
Collisions ==
  <<PaddleCollide(ball, 1, paddle[1], delta), PaddleCollide(ball, 2, paddle[2], delta),
    WallCollide(ball, delta), ScoreCollide(ball, Remaining)>>

(* get_first_collision                                                     *)
FirstOf(cs) == EarlierOf(EarlierOf(EarlierOf(cs[1], cs[2]), cs[3]), cs[4])

(* Faulty variant: a goal line in reach wins, whatever is before it.       *)
ScoresRegardless(cs) == Valid(cs[4])

Scores(cs) == Valid(cs[4]) /\ SameTime(FirstOf(cs), cs[4])

(* The goal line comes first: ball_advance returns at once.                *)
Goal(cs) ==
  /\ Scores(cs)
  /\ scored' = ScoredIndex(ball, Remaining)
  /\ stage' = "done"
  /\ UNCHANGED <<ball, passed, cornered, rebounded>>

(* Something else does: the ball bounces, and the loop goes on.            *)
BounceOff(cs) ==
  /\ Valid(FirstOf(cs)) /\ ~Scores(cs)
  /\ LET c == FirstOf(cs)
     IN  /\ ball' = Bounce(Move(ball, c.cells), c.axis)
         /\ passed' = passed + c.cells * (SpeedUnits \div ball.speed)
         /\ cornered' = \/ cornered
                        \/ c.axis = "x" /\ Valid(cs[3]) /\ SameTime(c, cs[3])
  /\ rebounded' = (rebounded \/ passed > 0)
  /\ scored' = -1
  /\ UNCHANGED stage

(* Nothing is in the way: the ball moves for the rest of the tick.         *)
FreeMove(cs) ==
  /\ ~Valid(FirstOf(cs))
  /\ ball' = Move(ball, ball.speed * Remaining)
  /\ scored' = -1
  /\ stage' = "done"
  /\ UNCHANGED <<passed, cornered, rebounded>>

(* One pass of the loop; the quantifier but names the array.               *)
Pass ==
  /\ phase = "func" /\ stage = "loop"
  /\ TimeLeft
  /\ \E cs \in {Collisions} : Goal(cs) \/ BounceOff(cs) \/ FreeMove(cs)
  /\ UNCHANGED <<reVars, paddle>>

(* The loop ends; scored_index is what it was.                             *)
NoTimeLeft ==
  /\ phase = "func" /\ stage = "loop"
  /\ ~TimeLeft
  /\ stage' = "done"
  /\ UNCHANGED <<reVars, ball, paddle, passed, scored, cornered, rebounded>>

(* The rest of send_state.  After a goal init_game puts everything back.   *)
(* What is stored in scored_index if nobody has is anybody's guess.        *)
EndTick(again) ==
  /\ stage = "done"
  /\ FuncReturns(again)
  /\ \E index \in IF scored = Unwritten THEN -1..1 ELSE {scored} :
       IF index # -1
         THEN /\ ball' \in NewBalls
              /\ paddle' = <<Middle, Middle>>
              /\ cornered' = FALSE
              /\ rebounded' = FALSE
         ELSE /\ \E right \in PaddleSteps[1], left \in PaddleSteps[2] :
                   paddle' = <<paddle[1] + right, paddle[2] + left>>
              /\ \A i \in 1..2 : paddle'[i] - Middle \in -PaddleReach..PaddleReach
              /\ UNCHANGED <<ball, cornered, rebounded>>
  /\ stage' = "idle"
  /\ passed' = 0
  /\ scored' = Unwritten

BetweenTicks == (Wake \/ Stop) /\ UNCHANGED ballVars

Advance == Pass \/ NoTimeLeft

Next == StartTick \/ Advance \/ (\E again \in BOOLEAN : EndTick(again)) \/ BetweenTicks

Spec == Init /\ [][Next]_vars

(* The thread runs while it can.                                           *)
FairSpec == Spec /\ WF_vars(Advance)
-----------------------------------------------------------------------------
Touching(b, i) ==
  /\ ~Beside(b.x, PaddleX(i), PaddleHalfX)
  /\ ~Beside(b.y, paddle[i], PaddleHalfY)
InHeight(b) == b.y \in BallHalf..(Height - BallHalf)

TypeOK ==
  /\ RETypeOK
  /\ ball \in [x : Int, y : Int, dx : {-1, 1}, dy : {-1, 1},
               speed : StartSpeed..(SpeedCap + 1)]
  /\ paddle \in [1..2 -> Int]
  /\ stage \in {"idle", "loop", "done"}
  /\ passed \in Nat
  /\ scored \in -2..1
  /\ {cornered, rebounded} \subseteq BOOLEAN

(* delta_time is the time since the previous tick began, whether or not    *)
(* the clock has wrapped in between, and never less than the interval.     *)
TickTrue == [][phase' = "func" /\ phase = "start" =>
                 delta' = since /\ since >= Interval]_vars

(* The variable that send_state leaves uninitialised is written by every   *)
(* call of ball_advance: no tick is too short for its loop.                *)
ScoredWritten == stage = "done" => scored # Unwritten

(* A goal is only given for a ball that really gets to the line of that    *)
(* side before the tick is over, with nothing in its way: neither a wall   *)
(* that it is not already going into, nor a paddle that it does not        *)
(* already touch.                                                          *)
GoalIsReal ==
  [][scored' \in {0, 1} =>
       LET side == IF scored' = 0 THEN 0 ELSE Width
           way == ball.dx * (side - ball.x) - BallHalf
       IN  /\ way \in 1..(ball.speed * delta)
           /\ InHeight(Move(ball, 1)) => InHeight(Move(ball, way))
           /\ \A j \in 1..(way - 1), i \in 1..2 :
                Touching(Move(ball, j), i) => Touching(ball, i)]_vars

(* The ball stays between the walls until it meets a paddle and a wall at  *)
(* the same time, of which only the paddle turns it round.                 *)
WallsHold == ~cornered => InHeight(ball)

(* The ball stays between the goal lines, where crossing one would be a    *)
(* goal, until it bounces twice in one tick: the second time the goal line *)
(* is tried for less time than what turns the ball round.                  *)
LinesHold == ~rebounded => ball.x \in (BallHalf + 1)..(Width - BallHalf - 1)

(* However the ball bounces to and fro in it, a tick comes to an end.      *)
TickEnds == stage = "loop" ~> stage = "done"
=============================================================================
