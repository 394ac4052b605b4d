----------------------------- MODULE PongClient -----------------------------
(***************************************************************************)
(* The client program, src/client/main.c.  A process waits for its init    *)
(* packet and then runs three threads: update (a frame of the display, in  *)
(* the main thread), network_update (a tick of the network) and            *)
(* server_state_receiver.  They share the local state, the sync and the    *)
(* accumulated input, each under a mutex of its own.  network_update nests *)
(* sync_mtx in input_mtx and nobody nests them the other way round, so a   *)
(* critical section is one step.                                           *)
(*                                                                         *)
(* Of the local state the model keeps the score and the own paddle, which  *)
(* only the client moves; the opponent's paddle and the ball are displayed *)
(* as the server last said, extrapolated, and influence nothing.  A frame  *)
(* with a key down lasts one unit of time; a frame without one changes     *)
(* nothing here.                                                           *)
(***************************************************************************)
EXTENDS Network

CONSTANTS
  MaxFrames,  \* bound on the frames in which a key of the client is down
  MaxIdle     \* bound on the network ticks that find no input

ASSUME PongClientAssumption ==
  MaxFrames \in [Clients -> Nat] /\ MaxIdle \in [Clients -> Nat]

VARIABLES
  app,     \* the process: before the init packet, running, or exited
  frame,   \* where update is: the input, or the local state still to come
  dir,     \* input_direction of that frame
  frames,  \* frames so far with a key down
  mine,    \* local_state: the own paddle
  points,  \* local_state.score
  own,     \* local_state.own_id_index
  csync,   \* sync
  acc,     \* input.input_acc_ms
  idle,    \* ticks so far that found no input
  net,     \* where network_update is: the input, or the packet to be sent
  out,     \* that packet
  rcv,     \* where server_state_receive is
  hand     \* the init packet it is working on

clientVars == <<app, frame, dir, frames, mine, points, own, csync, acc, idle,
                net, out, rcv, hand>>

NoPoints == [k \in 1..2 |-> 0]
NoOut == [type |-> "INPUT", sync |-> 0, acc |-> 0]
EmptyHand == [type |-> "NONE"]

ClientInit ==
  /\ app = [c \in Clients |-> "connect"]
  /\ frame = [c \in Clients |-> "input"]
  /\ dir = [c \in Clients |-> 0]
  /\ frames = [c \in Clients |-> 0]
  /\ mine = [c \in Clients |-> 0]
  /\ points = [c \in Clients |-> NoPoints]
  /\ own = [c \in Clients |-> 1]
  /\ csync = [c \in Clients |-> 0]
  /\ acc = [c \in Clients |-> 0]
  /\ idle = [c \in Clients |-> 0]
  /\ net = [c \in Clients |-> "tick"]
  /\ out = [c \in Clients |-> NoOut]
  /\ rcv = [c \in Clients |-> "recv"]
  /\ hand = [c \in Clients |-> EmptyHand]
-----------------------------------------------------------------------------
(* Faulty variant: the sync of the init packet is not taken.               *)
StartWithoutSync(c) ==
  LET p == Head(toClient[c])
  IN  /\ app[c] = "connect"
      /\ ClientRecv(c)
      /\ app' = [app EXCEPT ![c] = "run"]
      /\ own' = [own EXCEPT ![c] = p.own]
      /\ mine' = [mine EXCEPT ![c] = p.paddle[p.own]]
      /\ points' = [points EXCEPT ![c] = NoPoints]
      /\ UNCHANGED <<frame, dir, frames, csync, acc, idle, net, out, rcv, hand>>

(* main: the first packet must be an init packet; the score starts at zero *)
(* whatever it says, and the three threads are started.                    *)
Start(c) ==
  LET p == Head(toClient[c])
  IN  /\ app[c] = "connect"
      /\ ClientRecv(c)
      /\ IF p.type = "INIT"
           THEN /\ app' = [app EXCEPT ![c] = "run"]
                /\ csync' = [csync EXCEPT ![c] = p.sync]
                /\ own' = [own EXCEPT ![c] = p.own]
                /\ mine' = [mine EXCEPT ![c] = p.paddle[p.own]]
                /\ points' = [points EXCEPT ![c] = NoPoints]
           ELSE /\ app' = [app EXCEPT ![c] = "leave"]
                /\ UNCHANGED <<csync, own, mine, points>>
      /\ UNCHANGED <<frame, dir, frames, acc, idle, net, out, rcv, hand>>

(* The window is closed and main returns, or the process is killed before. *)
Quit(c) ==
  /\ app[c] \in {"connect", "run", "leave"}
  /\ ClientClose(c)
  /\ app' = [app EXCEPT ![c] = "exit"]
  /\ UNCHANGED <<frame, dir, frames, mine, points, own, csync, acc, idle, net,
                 out, rcv, hand>>
-----------------------------------------------------------------------------
(* update: the direction of the keys is added to the input, under          *)
(* input_mtx, and then moves the own paddle, under state_mtx.              *)
Frame(c, d) ==
  /\ app[c] = "run"
  /\ frame[c] = "input"
  /\ frames[c] < MaxFrames[c]
  /\ frames' = [frames EXCEPT ![c] = @ + 1]
  /\ dir' = [dir EXCEPT ![c] = d]
  /\ acc' = [acc EXCEPT ![c] = @ + d]
  /\ frame' = [frame EXCEPT ![c] = "move"]
  /\ UNCHANGED <<app, mine, points, own, csync, idle, net, out, rcv, hand,
                 netVars>>

MovePaddle(c) ==
  /\ app[c] = "run"
  /\ frame[c] = "move"
  /\ mine' = [mine EXCEPT ![c] = @ + dir[c]]
  /\ frame' = [frame EXCEPT ![c] = "input"]
  /\ dir' = [dir EXCEPT ![c] = 0]
  /\ UNCHANGED <<app, frames, points, own, csync, acc, idle, net, out, rcv,
                 hand, netVars>>
-----------------------------------------------------------------------------
(* network_update: the input with the sync of now becomes a packet and is  *)
(* reset, under both mutexes; then the packet is sent, which may block.    *)
NetTick(c) ==
  /\ app[c] = "run"
  /\ net[c] = "tick"
  /\ acc[c] = 0 => idle[c] < MaxIdle[c]
  /\ idle' = [idle EXCEPT ![c] = IF acc[c] = 0 THEN @ + 1 ELSE @]
  /\ out' = [out EXCEPT ![c] =
       [type |-> "INPUT", sync |-> csync[c], acc |-> acc[c]]]
  /\ acc' = [acc EXCEPT ![c] = 0]
  /\ net' = [net EXCEPT ![c] = "send"]
  /\ UNCHANGED <<app, frame, dir, frames, mine, points, own, csync, rcv, hand,
                 netVars>>

NetSend(c) ==
  /\ app[c] = "run"
  /\ net[c] = "send"
  /\ ClientSend(c, out[c])
  /\ net' = [net EXCEPT ![c] = "tick"]
  /\ out' = [out EXCEPT ![c] = NoOut]
  /\ UNCHANGED <<app, frame, dir, frames, mine, points, own, csync, acc, idle,
                 rcv, hand>>
-----------------------------------------------------------------------------
(* server_state_receive of a state packet: server_snap takes the ball and  *)
(* the opponent's paddle from it, and leaves the own paddle alone.         *)
RecvState(c) ==
  /\ app[c] = "run"
  /\ rcv[c] = "recv"
  /\ ClientRecv(c)
  /\ Head(toClient[c]).type = "STATE"
  /\ UNCHANGED clientVars

(* Faulty variant: own_id_index is replaced with the rest.                 *)
RecvInitWhole(c) ==
  LET p == Head(toClient[c])
  IN  /\ app[c] = "run"
      /\ rcv[c] = "recv"
      /\ ClientRecv(c)
      /\ p.type = "INIT"
      /\ points' = [points EXCEPT ![c] = p.score]
      /\ own' = [own EXCEPT ![c] = p.own]
      /\ mine' = [mine EXCEPT ![c] = p.paddle[p.own]]
      /\ hand' = [hand EXCEPT ![c] = p]
      /\ rcv' = [rcv EXCEPT ![c] = "sync"]
      /\ UNCHANGED <<app, frame, dir, frames, csync, acc, idle, net, out>>

(* Of an init packet: the local state is replaced, but for own_id_index;   *)
(* then sync, and then the input, each under its own mutex.                *)
RecvInit(c) ==
  LET p == Head(toClient[c])
  IN  /\ app[c] = "run"
      /\ rcv[c] = "recv"
      /\ ClientRecv(c)
      /\ p.type = "INIT"
      /\ points' = [points EXCEPT ![c] = p.score]
      /\ mine' = [mine EXCEPT ![c] = p.paddle[own[c]]]
      /\ hand' = [hand EXCEPT ![c] = p]
      /\ rcv' = [rcv EXCEPT ![c] = "sync"]
      /\ UNCHANGED <<app, frame, dir, frames, own, csync, acc, idle, net, out>>

TakeSync(c) ==
  /\ app[c] = "run"
  /\ rcv[c] = "sync"
  /\ csync' = [csync EXCEPT ![c] = hand[c].sync]
  /\ hand' = [hand EXCEPT ![c] = EmptyHand]
  /\ rcv' = [rcv EXCEPT ![c] = "clear"]
  /\ UNCHANGED <<app, frame, dir, frames, mine, points, own, acc, idle, net,
                 out, netVars>>

ClearInput(c) ==
  /\ app[c] = "run"
  /\ rcv[c] = "clear"
  /\ acc' = [acc EXCEPT ![c] = 0]
  /\ rcv' = [rcv EXCEPT ![c] = "recv"]
  /\ UNCHANGED <<app, frame, dir, frames, mine, points, own, csync, idle, net,
                 out, hand, netVars>>
-----------------------------------------------------------------------------
UpdateThread(c) == MovePaddle(c) \/ \E d \in {-1, 1} : Frame(c, d)
NetworkThread(c) == NetTick(c) \/ NetSend(c)
StateReceiver(c) == RecvState(c) \/ RecvInit(c) \/ TakeSync(c) \/ ClearInput(c)

ClientNext(c) ==
  Start(c) \/ UpdateThread(c) \/ NetworkThread(c) \/ StateReceiver(c)

ClientTypeOK ==
  /\ app \in [Clients -> {"connect", "run", "leave", "exit"}]
  /\ frame \in [Clients -> {"input", "move"}]
  /\ dir \in [Clients -> -1..1]
  /\ \A c \in Clients : frames[c] \in 0..MaxFrames[c]
  /\ mine \in [Clients -> Int]
  /\ points \in [Clients -> [1..2 -> Nat]]
  /\ own \in [Clients -> 1..2]
  /\ csync \in [Clients -> -128..127]
  /\ \A c \in Clients : idle[c] \in 0..MaxIdle[c]
  /\ acc \in [Clients -> Int]
  /\ net \in [Clients -> {"tick", "send"}]
  /\ rcv \in [Clients -> {"recv", "sync", "clear"}]
=============================================================================
