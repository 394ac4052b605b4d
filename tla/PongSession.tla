---------------------------- MODULE PongSession ----------------------------
(***************************************************************************)
(* A whole game: the threads of the server's rooms, the two clients of     *)
(* each, and the connections between them.  A step is one step of one      *)
(* thread of one process, or a reset that arrives at the server.           *)
(***************************************************************************)
EXTENDS PongServer, PongClient, SequencesExt

CONSTANTS
  MayQuit  \* clients that may exit (bounds a run)

ASSUME PongSessionAssumption ==
  /\ MayQuit \subseteq Clients
  /\ \A c \in Clients : \E r \in Rooms, k \in Seat : Seats[r][k] = c

vars == <<serverVars, clientVars, netVars>>

Init == ServerInit /\ ClientInit /\ NetInit

Server(r) ==
  /\ GameThread(r) \/ SenderThread(r) \/ ReceiverThread(r)
  /\ UNCHANGED clientVars

Client(c) ==
  /\ ClientNext(c) \/ (c \in MayQuit /\ Quit(c))
  /\ UNCHANGED serverVars

Reset(c) == ResetArrives(c) /\ UNCHANGED <<serverVars, clientVars>>

Next ==
  \/ \E r \in Rooms : Server(r)
  \/ \E c \in Clients : Client(c) \/ Reset(c)

Spec == Init /\ [][Next]_vars

(***************************************************************************)
(* Every thread that is not blocked runs, and what is sent arrives.  That  *)
(* a player presses a key, quits or misses the ball is never assumed.      *)
(***************************************************************************)
ServerRuns(r) ==
  /\ WF_vars(GameThread(r) /\ UNCHANGED clientVars)
  /\ WF_vars(SenderThread(r) /\ UNCHANGED clientVars)
  /\ WF_vars(ReceiverThread(r) /\ UNCHANGED clientVars)

ClientRuns(c) ==
  /\ WF_vars(Start(c) /\ UNCHANGED serverVars)
  /\ WF_vars(MovePaddle(c) /\ UNCHANGED serverVars)
  /\ WF_vars(NetworkThread(c) /\ UNCHANGED serverVars)
  /\ WF_vars(StateReceiver(c) /\ UNCHANGED serverVars)
  /\ WF_vars(Reset(c))

Fairness == (\A r \in Rooms : ServerRuns(r)) /\ (\A c \in Clients : ClientRuns(c))

FairSpec == Spec /\ Fairness
-----------------------------------------------------------------------------
RoomOf(c) == CHOOSE r \in Rooms : \E k \in Seat : Seats[r][k] = c
SeatOf(c) == CHOOSE k \in Seat : Seats[RoomOf(c)][k] = c
Playing(c) == app[c] = "run"

TypeOK == ServerTypeOK /\ ClientTypeOK

(* A client that believes v0 believes v after the first n packets of q: it *)
(* goes by the last init packet among them.                                *)
Known(q, v0, n, v) ==
  /\ \A i \in 1..n :
       q[i].type = "INIT" /\ (\A j \in (i + 1)..n : q[j].type # "INIT")
         => v = <<q[i].sync, q[i].score>>
  /\ (\A i \in 1..n : q[i].type # "INIT") => v = v0

(* The sync and the score of a client: once it has dealt with the init     *)
(* packet in its hand, and with all that is on its way.                    *)
Belief(c) ==
  IF rcv[c] = "sync" THEN <<hand[c].sync, hand[c].score>>
                     ELSE <<csync[c], points[c]>>
WillBelieve(c, v) == Known(toClient[c], Belief(c), Len(toClient[c]), v)

(* The room's sender has counted a goal that it has not sent to c yet.     *)
ToBeAnnounced(c) ==
  LET r == RoomOf(c)
  IN  \/ sender[r] = "sync"
      \/ sender[r] \in {"pack", "send1"} /\ packet[r].type = "INIT"
      \/ sender[r] = "send2" /\ packet[r].type = "INIT" /\ SeatOf(c) = 2

(* Whatever the interleaving, a running client's sync is the server's, or  *)
(* the init packet that will make it so is on its way, or the server's     *)
(* sender is between counting the goal and announcing it: no client stays  *)
(* behind with a sync under which the server drops everything it sends.    *)
SyncAnnounced ==
  \A c \in Clients :
    Playing(c) /\ ~ToBeAnnounced(c) /\ sender[RoomOf(c)] # "done" =>
      WillBelieve(c, <<sync, score>>)

(* The sync of a client goes up one goal at a time: no round is skipped    *)
(* and none is repeated, also when the int8_t wraps around.                *)
SyncNeverSkips ==
  [][\A c \in Clients : Playing(c) /\ csync'[c] # csync[c] =>
       csync'[c] = NextSync(csync[c])]_vars

SameInt8(n, s) == (n - s) % 256 = 0

(* What the sync stands for: the number of goals, counted in eight bits.   *)
ScoreCountsSync ==
  \A r \in Rooms : sender[r] # "sync" =>
    SameInt8(score[1] + score[2] + StartSync, sync)

(* The two players of a room disagree about who is who: each has its own   *)
(* index, and keeps it although every later init packet says seat 1.       *)
SeatsKept == \A c \in Clients : Playing(c) => own[c] = SeatOf(c)
-----------------------------------------------------------------------------
(* The input of seat k that is neither in the server's paddle nor in the   *)
(* display of its client alone: where it may be on its way.                *)
InputsIn(s) ==
  LET sum[n \in 0..Len(s)] == IF n = 0 THEN 0 ELSE sum[n - 1] + s[n].acc
  IN  sum[Len(s)]

InReceiver(r, k) ==
  IF receiver[r] = "add" /\ Reading(r) = k THEN got[r].acc ELSE 0

OnTheWay(c) ==
  LET r == RoomOf(c)
      k == SeatOf(c)
  IN  inputAcc[k] + InReceiver(r, k) + InputsIn(toServer[c])
        + (IF net[c] = "send" THEN out[c].acc ELSE 0) + acc[c]

ServerPaddle(c) ==
  LET r == RoomOf(c)
      k == SeatOf(c)
  IN  IF sender[r] = "advance" THEN moved[r][k] ELSE paddle[k]

(* Until the first goal the server's paddle and the player's own display   *)
(* of it differ by exactly what is on its way: across two mutexes at each  *)
(* end, two threads at each end and a packet in between, no millisecond    *)
(* of input is lost or counted twice.                                      *)
FirstRoundExact ==
  \A c \in Clients : Playing(c) /\ score = Zero =>
    mine[c] + (IF frame[c] = "move" THEN dir[c] ELSE 0)
      = ServerPaddle(c) + OnTheWay(c)

(* No player's input goes nowhere: what the receiver has accepted is       *)
(* credited to the seat of the client that sent it.                        *)
InputCredited ==
  \A r \in Rooms : receiver[r] = "add" =>
    CreditTo(Seats[r][Reading(r)]) = {Reading(r)}

(* "invalid sync: got %d, current %d": an input is credited only while its *)
(* sync is the current one.                                                *)
OnlyCurrentInput ==
  [][\A r \in Rooms : receiver[r] = "add" /\ receiver'[r] # "add" =>
       got[r].sync = sync]_vars
-----------------------------------------------------------------------------
(* Goals reach both players: once there are no more, every running client  *)
(* shows the server's score and sends under the server's sync, for good.   *)
EventuallyInStep ==
  \A c \in Clients :
    <>[](Playing(c) /\ csync[c] = sync /\ points[c] = score)

(* In a game without goals both players' input reaches the server's        *)
(* paddles: in the end these are where their players see them.             *)
EventuallySamePaddle ==
  [](score = Zero) =>
    \A c \in Clients : <>[](paddle[SeatOf(c)] = mine[c])

(* A player who leaves ends the game: all three threads of the room come   *)
(* to their end, the receiver too, whose poll has no timeout and which     *)
(* looks at is_disbanded only between two polls.                           *)
RoomEnds ==
  \A c \in Clients :
    app[c] = "exit" ~> LET r == RoomOf(c)
                       IN  /\ game[r] = "done"
                           /\ sender[r] \in {"off", "done"}
                           /\ receiver[r] \in {"off", "done"}

(* A room is disbanded, and its sender ends, only because a player left.   *)
OnlyLeaversDisband ==
  \A r \in Rooms : r \in disbanded \/ sender[r] = "done" \/ receiver[r] = "done"
    => \E k \in Seat : app[Seats[r][k]] = "exit"
=============================================================================
