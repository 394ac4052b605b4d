----------------------------- MODULE PongServer -----------------------------
(***************************************************************************)
(* The game on the server: src/server/main.c with src/server/utility.c.    *)
(* Every room has a game thread (start_pong_game), which starts a sender   *)
(* (send_state under run_every) and a receiver (input_receive).  The state *)
(* of the game, sync and the accumulated input are static variables: there *)
(* is one copy of them, whatever the number of rooms.  The critical        *)
(* sections of sync_mtx and input_mtx contain no wait and do not nest, so  *)
(* each is one step.                                                       *)
(*                                                                         *)
(* Seats are counted from 1.  A paddle is its distance from the middle of  *)
(* the field in steps of speed (half a pixel per millisecond of input).    *)
(* Locals are emptied when they go out of scope.                           *)
(* The ball is left out but for what it decides, whether a tick scores;    *)
(* any tick may, up to MaxGoals.                                           *)
(***************************************************************************)
EXTENDS Network, FiniteSets, FiniteSetsExt

CONSTANTS
  Rooms,      \* the rooms that matchmaking hands to start_pong_game
  Seats,      \* room->clients of each
  NoClient,   \* in player_ids before the first game
  StartSync,  \* sync when the first of the rooms starts
  Junk,       \* inputs that may be left on the stack of on_input_ready
  MaxGoals    \* bound on the goals scored

Seat == 1..2
Int8 == -128..127
PacketTypes == {"INPUT", "INIT", "STATE"}

ASSUME PongServerAssumption ==
  /\ NoClient \notin Clients
  /\ Seats \in [Rooms -> [Seat -> Clients]]
  /\ \A r, s \in Rooms, j, k \in Seat :
       Seats[r][j] = Seats[s][k] => r = s /\ j = k
  /\ StartSync \in Int8
  /\ Junk \subseteq Int
  /\ MaxGoals \in Nat

VARIABLES
  playerIds, score, paddle,  \* state
  sync,                      \* sync
  inputAcc,                  \* input1, input2
  disbanded,                 \* rooms whose is_disbanded is set
  game,                      \* where start_pong_game is
  sender,                    \* where send_state is
  moved,                     \* its player1_upd, player2_upd
  packet,                    \* the packet that is being sent to a room
  receiver,                  \* where input_receive is
  ready,                     \* seats it still has to read after poll
  got                        \* the input it has read and accepted

gameVars == <<playerIds, score, paddle, sync, inputAcc>>
roomVars == <<disbanded, game, sender, moved, packet, receiver, ready, got>>
serverVars == <<gameVars, roomVars>>

Zero == [k \in Seat |-> 0]
NoPacket == [type |-> "STATE", sync |-> 0, score |-> Zero, paddle |-> Zero,
             own |-> 1]
NoInput == [type |-> "INPUT", sync |-> 0, acc |-> 0]

ServerInit ==
  /\ playerIds = [k \in Seat |-> NoClient]
  /\ score = Zero
  /\ paddle = Zero
  /\ sync = StartSync
  /\ inputAcc = Zero
  /\ disbanded = {}
  /\ game = [r \in Rooms |-> "ids"]
  /\ sender = [r \in Rooms |-> "off"]
  /\ moved = [r \in Rooms |-> Zero]
  /\ packet = [r \in Rooms |-> NoPacket]
  /\ receiver = [r \in Rooms |-> "off"]
  /\ ready = [r \in Rooms |-> {}]
  /\ got = [r \in Rooms |-> NoInput]

(* Faulty variant: an integer without a width.                             *)
NextSyncUnwrapped(s) == s + 1

(* sync is an int8_t.                                                      *)
NextSync(s) == IF s = 127 THEN -128 ELSE s + 1
-----------------------------------------------------------------------------
(* start_pong_game: the players and the score of the one state.            *)
StartPlayers(r) ==
  /\ game[r] = "ids"
  /\ playerIds' = Seats[r]
  /\ score' = Zero
  /\ game' = [game EXCEPT ![r] = "start"]
  /\ UNCHANGED <<paddle, sync, inputAcc, disbanded, sender, moved, packet,
                 receiver, ready, got, netVars>>

(* init_game, and the copy of the state into init_packet; sync is read     *)
(* without its mutex.                                                      *)
StartField(r) ==
  /\ game[r] = "start"
  /\ paddle' = Zero
  /\ packet' = [packet EXCEPT ![r] =
       [type |-> "INIT", sync |-> sync, score |-> score, paddle |-> Zero,
        own |-> 1]]
  /\ game' = [game EXCEPT ![r] = "init1"]
  /\ UNCHANGED <<playerIds, score, sync, inputAcc, disbanded, sender, moved,
                 receiver, ready, got, netVars>>

(* The init packet goes to one client after the other, each told its own   *)
(* index; then both threads are started.                                   *)
SendInit(r) ==
  \/ /\ game[r] = "init1"
     /\ ServerSend(Seats[r][1], [packet[r] EXCEPT !.own = 1])
     /\ game' = [game EXCEPT ![r] = "init2"]
     /\ UNCHANGED <<gameVars, disbanded, sender, moved, packet, receiver,
                    ready, got>>
  \/ /\ game[r] = "init2"
     /\ ServerSend(Seats[r][2], [packet[r] EXCEPT !.own = 2])
     /\ game' = [game EXCEPT ![r] = "join"]
     /\ sender' = [sender EXCEPT ![r] = "input"]
     /\ receiver' = [receiver EXCEPT ![r] = "check"]
     /\ packet' = [packet EXCEPT ![r] = NoPacket]
     /\ UNCHANGED <<gameVars, disbanded, moved, ready, got>>

(* A failed send ends the game thread; is_disbanded stays false.           *)
SendInitFails(r) ==
  /\ \/ game[r] = "init1" /\ ServerSendFails(Seats[r][1])
     \/ game[r] = "init2" /\ ServerSendFails(Seats[r][2])
  /\ game' = [game EXCEPT ![r] = "done"]
  /\ packet' = [packet EXCEPT ![r] = NoPacket]
  /\ UNCHANGED <<gameVars, disbanded, sender, moved, receiver, ready, got>>

(* pthread_join(state_sender).                                             *)
Join(r) ==
  /\ game[r] = "join"
  /\ sender[r] = "done"
  /\ game' = [game EXCEPT ![r] = "done"]
  /\ UNCHANGED <<gameVars, disbanded, sender, moved, packet, receiver, ready,
                 got, netVars>>
-----------------------------------------------------------------------------
(* get_input_acc_direction, and the distance that linear_move covers in    *)
(* abs(acc) milliseconds in that direction.                                *)
Direction(acc) == IF acc > 0 THEN 1 ELSE IF acc = 0 THEN 0 ELSE -1
Distance(acc) == Direction(acc) * (IF acc < 0 THEN -acc ELSE acc)

(* Faulty variant: the input is left in place.                             *)
InputNotReset(r) ==
  /\ sender[r] = "input"
  /\ moved' = [moved EXCEPT ![r] =
       [k \in Seat |-> paddle[k] + Distance(inputAcc[k])]]
  /\ sender' = [sender EXCEPT ![r] = "advance"]
  /\ UNCHANGED <<gameVars, disbanded, game, packet, receiver, ready, got,
                 netVars>>

(* send_state, under input_mtx: the input becomes movement and is reset.   *)
TakeInput(r) ==
  /\ sender[r] = "input"
  /\ moved' = [moved EXCEPT ![r] =
       [k \in Seat |-> paddle[k] + Distance(inputAcc[k])]]
  /\ inputAcc' = Zero
  /\ sender' = [sender EXCEPT ![r] = "advance"]
  /\ UNCHANGED <<playerIds, score, paddle, sync, disbanded, game, packet,
                 receiver, ready, got, netVars>>

(* ball_advance reports no goal: the paddles get their new positions.      *)
AdvanceBall(r) ==
  /\ sender[r] = "advance"
  /\ paddle' = moved[r]
  /\ packet' = [packet EXCEPT ![r].type = "STATE"]
  /\ sender' = [sender EXCEPT ![r] = "pack"]
  /\ moved' = [moved EXCEPT ![r] = Zero]
  /\ UNCHANGED <<playerIds, score, sync, inputAcc, disbanded, game, receiver,
                 ready, got, netVars>>

(* Faulty variant: packet_type stays PACKET_STATE.                         *)
GoalUnannounced(r, k) ==
  /\ sender[r] = "advance"
  /\ score[1] + score[2] < MaxGoals
  /\ paddle' = Zero
  /\ score' = [score EXCEPT ![k] = @ + 1]
  /\ packet' = [packet EXCEPT ![r].type = "STATE"]
  /\ sender' = [sender EXCEPT ![r] = "sync"]
  /\ moved' = [moved EXCEPT ![r] = Zero]
  /\ UNCHANGED <<playerIds, sync, inputAcc, disbanded, game, receiver, ready,
                 got, netVars>>

(* ball_advance reports a goal for seat k: init_game puts everything back  *)
(* to the start, and the goal is counted.                                  *)
Goal(r, k) ==
  /\ sender[r] = "advance"
  /\ score[1] + score[2] < MaxGoals
  /\ paddle' = Zero
  /\ score' = [score EXCEPT ![k] = @ + 1]
  /\ packet' = [packet EXCEPT ![r].type = "INIT"]
  /\ sender' = [sender EXCEPT ![r] = "sync"]
  /\ moved' = [moved EXCEPT ![r] = Zero]
  /\ UNCHANGED <<playerIds, sync, inputAcc, disbanded, game, receiver, ready,
                 got, netVars>>

(* Faulty variant: sync is not incremented.                                *)
BumpForgotten(r) ==
  /\ sender[r] = "sync"
  /\ sender' = [sender EXCEPT ![r] = "pack"]
  /\ UNCHANGED <<gameVars, disbanded, game, moved, packet, receiver, ready,
                 got, netVars>>

(* Under sync_mtx.                                                         *)
BumpSync(r) ==
  /\ sender[r] = "sync"
  /\ sync' = NextSync(sync)
  /\ sender' = [sender EXCEPT ![r] = "pack"]
  /\ UNCHANGED <<playerIds, score, paddle, inputAcc, disbanded, game, moved,
                 packet, receiver, ready, got, netVars>>

(* The packet is filled in, again under sync_mtx.  own_id_index is that of *)
(* the shared state, which nothing ever sets.                              *)
Pack(r) ==
  /\ sender[r] = "pack"
  /\ packet' = [packet EXCEPT ![r] =
       [type |-> @.type, sync |-> sync, score |-> score, paddle |-> paddle,
        own |-> 1]]
  /\ sender' = [sender EXCEPT ![r] = "send1"]
  /\ UNCHANGED <<gameVars, disbanded, game, moved, receiver, ready, got,
                 netVars>>

(* Faulty variant: the loop stops one client too early.                    *)
BroadcastToFirst(r) ==
  /\ sender[r] = "send1"
  /\ ServerSend(Seats[r][1], packet[r])
  /\ sender' = [sender EXCEPT ![r] =
       IF r \in disbanded THEN "done" ELSE "input"]
  /\ packet' = [packet EXCEPT ![r] = NoPacket]
  /\ UNCHANGED <<gameVars, disbanded, game, moved, receiver, ready, got>>

(* room_broadcast, one client after the other; after the second, send_state*)
(* asks to be run again unless the room has been disbanded.                *)
Broadcast(r) ==
  /\ \/ /\ sender[r] = "send1"
        /\ ServerSend(Seats[r][1], packet[r])
        /\ sender' = [sender EXCEPT ![r] = "send2"]
        /\ UNCHANGED packet
     \/ /\ sender[r] = "send2"
        /\ ServerSend(Seats[r][2], packet[r])
        /\ sender' = [sender EXCEPT ![r] =
             IF r \in disbanded THEN "done" ELSE "input"]
        /\ packet' = [packet EXCEPT ![r] = NoPacket]
  /\ UNCHANGED <<gameVars, disbanded, game, moved, receiver, ready, got>>

(* Faulty variant: the result of server_send is ignored.                   *)
BroadcastFailsQuietly(r) ==
  /\ \/ /\ sender[r] = "send1"
        /\ ServerSendFails(Seats[r][1])
        /\ sender' = [sender EXCEPT ![r] = "send2"]
     \/ /\ sender[r] = "send2"
        /\ ServerSendFails(Seats[r][2])
        /\ sender' = [sender EXCEPT ![r] = "input"]
  /\ UNCHANGED <<gameVars, disbanded, game, moved, packet, receiver, ready,
                 got>>

(* A failed send disbands the room and ends the sender.  The search of the *)
(* client queue by server_send finds nothing (see Matchmaking).            *)
BroadcastFails(r) ==
  /\ \/ sender[r] = "send1" /\ ServerSendFails(Seats[r][1])
     \/ sender[r] = "send2" /\ ServerSendFails(Seats[r][2])
  /\ disbanded' = disbanded \cup {r}
  /\ sender' = [sender EXCEPT ![r] = "done"]
  /\ packet' = [packet EXCEPT ![r] = NoPacket]
  /\ UNCHANGED <<gameVars, game, moved, receiver, ready, got>>
-----------------------------------------------------------------------------
(* input_receive: while (!room->is_disbanded).                             *)
CheckDisbanded(r) ==
  /\ receiver[r] = "check"
  /\ receiver' = [receiver EXCEPT ![r] =
       IF r \in disbanded THEN "done" ELSE "poll"]
  /\ UNCHANGED <<gameVars, disbanded, game, sender, moved, packet, ready, got,
                 netVars>>

(* poll without a timeout returns once a client is readable; every seat    *)
(* that was readable then is read in turn.                                 *)
Poll(r) ==
  LET seats == {k \in Seat : Readable(Seats[r][k])}
  IN  /\ receiver[r] = "poll"
      /\ seats # {}
      /\ ready' = [ready EXCEPT ![r] = seats]
      /\ receiver' = [receiver EXCEPT ![r] = "recv"]
      /\ UNCHANGED <<gameVars, disbanded, game, sender, moved, packet, got,
                     netVars>>

Reading(r) == Min(ready[r])

(* The seat has been dealt with: the next one, or back to the loop.        *)
SeatDone(r) ==
  /\ ready' = [ready EXCEPT ![r] = @ \ {Reading(r)}]
  /\ receiver' = [receiver EXCEPT ![r] =
       IF ready[r] = {Reading(r)} THEN "check" ELSE "recv"]

(* on_input_ready up to its second lock: a packet with another sync, or of *)
(* another type, is dropped; an input with the current sync goes on.       *)
AcceptInput(r, p) ==
  /\ p.sync = sync
  /\ got' = [got EXCEPT ![r] = p]
  /\ receiver' = [receiver EXCEPT ![r] = "add"]
  /\ UNCHANGED ready

(* Faulty variant: a dropped packet ends the receiver.                     *)
DropEnds(r) ==
  receiver' = [receiver EXCEPT ![r] = "done"] /\ UNCHANGED <<ready, got>>

DropInput(r) == SeatDone(r) /\ UNCHANGED got

RecvInput(r) ==
  /\ receiver[r] = "recv"
  /\ LET c == Seats[r][Reading(r)]
         p == Head(toServer[c])
     IN  /\ ServerRecv(c)
         /\ IF p.sync = sync /\ p.type = "INPUT"
              THEN AcceptInput(r, p)
              ELSE DropInput(r)
  /\ UNCHANGED <<gameVars, disbanded, game, sender, moved, packet>>

(* recv_packet returns 0: the receiver ends, the room is not disbanded.    *)
RecvEnd(r) ==
  /\ receiver[r] = "recv"
  /\ ServerRecvEnd(Seats[r][Reading(r)])
  /\ receiver' = [receiver EXCEPT ![r] = "done"]
  /\ UNCHANGED <<gameVars, disbanded, game, sender, moved, packet, ready, got,
                 netVars>>

(* recv_packet returns -1: the error is logged and the packet used, which  *)
(* was never written.  It is taken for an input if what is on the stack    *)
(* says so, and dropped otherwise.                                         *)
RecvError(r) ==
  /\ receiver[r] = "recv"
  /\ ServerRecvError(Seats[r][Reading(r)])
  /\ \/ DropInput(r)
     \/ \E acc \in Junk :
          AcceptInput(r, [type |-> "INPUT", sync |-> sync, acc |-> acc])
  /\ UNCHANGED <<gameVars, disbanded, game, sender, moved, packet>>

(* Faulty variants: the input goes to the other seat; the second seat is   *)
(* not looked for.                                                         *)
CreditSwapped(c) == IF playerIds[1] = c THEN {2}
                    ELSE IF playerIds[2] = c THEN {1} ELSE {}
CreditFirstOnly(c) == IF playerIds[1] = c THEN {1} ELSE {}

(* The rest of on_input_ready, under input_mtx: the input is credited to   *)
(* the seat that player_ids gives the client, if any.                      *)
CreditTo(c) == IF playerIds[1] = c THEN {1}
               ELSE IF playerIds[2] = c THEN {2} ELSE {}

AddInput(r) ==
  /\ receiver[r] = "add"
  /\ inputAcc' = [k \in Seat |->
       IF k \in CreditTo(Seats[r][Reading(r)]) THEN inputAcc[k] + got[r].acc
                                               ELSE inputAcc[k]]
  /\ got' = [got EXCEPT ![r] = NoInput]
  /\ SeatDone(r)
  /\ UNCHANGED <<playerIds, score, paddle, sync, disbanded, game, sender,
                 moved, packet, netVars>>
-----------------------------------------------------------------------------
GameThread(r) == StartPlayers(r) \/ StartField(r) \/ SendInit(r)
                   \/ SendInitFails(r) \/ Join(r)
SenderThread(r) == TakeInput(r) \/ AdvanceBall(r) \/ BumpSync(r) \/ Pack(r)
                     \/ Broadcast(r) \/ BroadcastFails(r)
                     \/ \E k \in Seat : Goal(r, k)
ReceiverThread(r) == CheckDisbanded(r) \/ Poll(r) \/ RecvInput(r)
                       \/ RecvEnd(r) \/ RecvError(r) \/ AddInput(r)

ServerNext == \E r \in Rooms :
                GameThread(r) \/ SenderThread(r) \/ ReceiverThread(r)

ServerTypeOK ==
  /\ playerIds \in [Seat -> Clients \cup {NoClient}]
  /\ score \in [Seat -> Nat]
  /\ paddle \in [Seat -> Int]
  /\ sync \in Int8
  /\ inputAcc \in [Seat -> Int]
  /\ disbanded \subseteq Rooms
  /\ game \in [Rooms -> {"ids", "start", "init1", "init2", "join", "done"}]
  /\ sender \in [Rooms -> {"off", "input", "advance", "sync", "pack", "send1",
                           "send2", "done"}]
  /\ moved \in [Rooms -> [Seat -> Int]]
  /\ receiver \in [Rooms -> {"off", "check", "poll", "recv", "add", "done"}]
  /\ ready \in [Rooms -> SUBSET Seat]
=============================================================================
