------------------------- MODULE PongSessionProofs -------------------------
(***************************************************************************)
(* What holds of a session for any clients, buffers and numbers of goals,  *)
(* frames and exits.  The first part is for any number of rooms; what      *)
(* sync and the score stand for is only true of one (see InputCredited).   *)
(***************************************************************************)
EXTENDS PongSession, TLAPS

Packet == [type : {"INIT", "STATE"}, sync : Int8, score : [Seat -> Nat],
           paddle : [Seat -> Int], own : Seat]
Input == [type : {"INPUT"}, sync : Int8, acc : Int]
LinkStates == {"open", "fin", "late", "rst", "reset"}

(* TypeOK with the types of the packets.                                   *)
ServerTypes ==
  /\ ServerTypeOK
  /\ packet \in [Rooms -> Packet]
  /\ got \in [Rooms -> Input]
  /\ \A r \in Rooms : receiver[r] \in {"recv", "add"} => ready[r] # {}
ClientTypes ==
  /\ ClientTypeOK
  /\ frames \in [Clients -> Nat] /\ idle \in [Clients -> Nat]
  /\ out \in [Clients -> Input]
  /\ hand \in [Clients -> Packet \cup {EmptyHand}]
  /\ \A c \in Clients : rcv[c] = "sync" => hand[c] \in Packet
NetTypes ==
  /\ toServer \in [Clients -> Seq(Input)]
  /\ toClient \in [Clients -> Seq(Packet)]
  /\ link \in [Clients -> LinkStates]
Types == ServerTypes /\ ClientTypes /\ NetTypes
-----------------------------------------------------------------------------
LEMMA SeatFacts ==
  /\ 1 \in Seat /\ 2 \in Seat /\ \A k \in Seat : k = 1 \/ k = 2
  /\ \A r \in Rooms, k \in Seat : Seats[r][k] \in Clients
<1>1. 1 \in Seat /\ 2 \in Seat /\ \A k \in Seat : k = 1 \/ k = 2
  BY SMT DEF Seat
<1> QED
  BY <1>1, PongServerAssumption

LEMMA ConstantTypes ==
  /\ StartSync \in Int8
  /\ Zero \in [Seat -> Nat] /\ Zero \in [Seat -> Int] /\ NoPoints = Zero
  /\ NoPacket \in Packet /\ NoInput \in Input /\ NoOut \in Input
  /\ \A s \in Int8 : NextSync(s) \in Int8
  /\ \A a \in Int : Distance(a) \in Int
<1>1. 0 \in Nat /\ 0 \in Int /\ 0 \in Int8 /\ 1 \in Seat
  BY SMT DEF Int8, Seat
<1>2. Zero \in [Seat -> Nat] /\ Zero \in [Seat -> Int] /\ NoPoints = Zero
  BY <1>1 DEF Zero, NoPoints, Seat
<1>3. \A s \in Int8 : NextSync(s) \in Int8
  BY SMT DEF NextSync, Int8
<1>4. \A a \in Int : Distance(a) \in Int
  BY SMT DEF Distance, Direction
<1> QED
  BY <1>1, <1>2, <1>3, <1>4, PongServerAssumption
     DEF NoPacket, NoInput, NoOut, Packet, Input

LEMMA PacketFields ==
  ASSUME NEW p \in Packet
  PROVE  /\ \A k \in Seat :
              LET q == [p EXCEPT !.own = k]
              IN  q \in Packet /\ q.own = k /\ q.type = p.type
                    /\ q.sync = p.sync /\ q.score = p.score
         /\ \A t \in {"INIT", "STATE"} : [p EXCEPT !.type = t] \in Packet
<1>1. ASSUME NEW k \in Seat
      PROVE  LET q == [p EXCEPT !.own = k]
             IN  q \in Packet /\ q.own = k /\ q.type = p.type
                   /\ q.sync = p.sync /\ q.score = p.score
  BY <1>1 DEF Packet
<1>2. ASSUME NEW t \in {"INIT", "STATE"} PROVE [p EXCEPT !.type = t] \in Packet
  BY <1>2 DEF Packet
<1> QED
  BY <1>1, <1>2

LEMMA ReadingSeat ==
  ASSUME NEW r \in Rooms, ready[r] \subseteq Seat, ready[r] # {}
  PROVE  Reading(r) \in ready[r] /\ Reading(r) \in Seat
<1> DEFINE R == ready[r]
<1>1. \E x \in R : \A y \in R : x <= y
  <2>1. CASE 1 \in R
    BY <2>1, SMT DEF Seat
  <2>2. CASE 1 \notin R
    BY <2>2, SMT DEF Seat
  <2> QED
    BY <2>1, <2>2
<1> QED
  BY <1>1 DEF Reading, Min

LEMMA InitTypes == Init => Types
<1> SUFFICES ASSUME Init PROVE Types
  OBVIOUS
<1>1. ServerTypes
  BY ConstantTypes DEF Init, ServerInit, ServerTypes, ServerTypeOK
<1>2. ClientTypes
  <2>1. 0 \in Nat /\ 0 \in -1..1 /\ 0 \in Int /\ 0 \in -128..127 /\ 1 \in 1..2
    BY SMT
  <2>2. \A c \in Clients : 0 \in 0..MaxFrames[c] /\ 0 \in 0..MaxIdle[c]
    BY SMT, PongClientAssumption
  <2>3. NoPoints \in [1..2 -> Nat]
    BY <2>1 DEF NoPoints
  <2> QED
    BY <2>1, <2>2, <2>3, ConstantTypes DEF Init, ClientInit, ClientTypes, ClientTypeOK
<1>3. NetTypes
  BY SMT DEF Init, NetInit, NetTypes, LinkStates
<1> QED
  BY <1>1, <1>2, <1>3 DEF Types
-----------------------------------------------------------------------------
(* Types: the operations on connections, then the steps of each thread.    *)
LEMMA NetworkTypes ==
  ASSUME NetTypes, NEW c \in Clients
  PROVE  /\ \A p \in Packet : ServerSend(c, p) => NetTypes'
         /\ ServerSendFails(c) => NetTypes'
         /\ ServerRecv(c) => NetTypes' /\ Head(toServer[c]) \in Input
         /\ ServerRecvEnd(c) => NetTypes'
         /\ ServerRecvError(c) => NetTypes'
         /\ \A i \in Input : ClientSend(c, i) => NetTypes'
         /\ ClientRecv(c) => NetTypes' /\ Head(toClient[c]) \in Packet
         /\ ClientClose(c) => NetTypes'
         /\ ResetArrives(c) => NetTypes'
<1> USE DEF NetTypes, LinkStates
<1>1. /\ toServer \in [Clients -> Seq(Input)]
      /\ toClient \in [Clients -> Seq(Packet)]
      /\ link \in [Clients -> LinkStates]
  OBVIOUS
<1>2. /\ \A i \in Input : Append(toServer[c], i) \in Seq(Input)
      /\ \A p \in Packet : Append(toClient[c], p) \in Seq(Packet)
      /\ toServer[c] # <<>> => /\ Tail(toServer[c]) \in Seq(Input)
                               /\ Head(toServer[c]) \in Input
      /\ toClient[c] # <<>> => /\ Tail(toClient[c]) \in Seq(Packet)
                               /\ Head(toClient[c]) \in Packet
      /\ <<>> \in Seq(Packet)
  BY SMT
<1>3. ASSUME NEW p \in Packet, ServerSend(c, p) PROVE NetTypes'
  BY <1>2, <1>3 DEF ServerSend
<1>4. ASSUME NEW i \in Input, ClientSend(c, i) PROVE NetTypes'
  BY <1>2, <1>4 DEF ClientSend
<1>5. ASSUME ServerRecv(c) PROVE NetTypes' /\ Head(toServer[c]) \in Input
  BY <1>2, <1>5 DEF ServerRecv
<1>6. ASSUME ClientRecv(c) PROVE NetTypes' /\ Head(toClient[c]) \in Packet
  BY <1>2, <1>6 DEF ClientRecv
<1>7. ServerSendFails(c) => NetTypes'
  BY DEF ServerSendFails
<1>8. ServerRecvEnd(c) => NetTypes'
  BY DEF ServerRecvEnd, netVars
<1>9. ServerRecvError(c) => NetTypes'
  BY DEF ServerRecvError
<1>10. ClientClose(c) => NetTypes'
  BY <1>2 DEF ClientClose
<1>11. ResetArrives(c) => NetTypes'
  BY DEF ResetArrives
<1> QED
  BY <1>3, <1>4, <1>5, <1>6, <1>7, <1>8, <1>9, <1>10, <1>11

LEMMA GameThreadTypes ==
  ASSUME Types, NEW r \in Rooms, GameThread(r)
  PROVE  ServerTypes' /\ NetTypes'
<1> USE DEF Types, ServerTypes, ServerTypeOK
<1>1. CASE StartPlayers(r)
  <2>1. Seats[r] \in [Seat -> Clients \cup {NoClient}]
    BY PongServerAssumption
  <2> QED
    BY <1>1, <2>1, ConstantTypes DEF StartPlayers, NetTypes, netVars
<1>2. CASE StartField(r)
  <2>1. packet' \in [Rooms -> Packet]
    BY <1>2, SeatFacts, ConstantTypes DEF StartField, Packet
  <2> QED
    BY <1>2, <2>1, ConstantTypes DEF StartField, NetTypes, netVars
<1>3. CASE SendInit(r)
  <2>1. [packet[r] EXCEPT !.own = 1] \in Packet /\ [packet[r] EXCEPT !.own = 2] \in Packet
    BY SeatFacts, PacketFields
  <2>2. Seats[r][1] \in Clients /\ Seats[r][2] \in Clients
    BY SeatFacts
  <2>3. NetTypes'
    BY <1>3, <2>1, <2>2, NetworkTypes DEF SendInit
  <2>4. packet' \in [Rooms -> Packet]
    BY <1>3, ConstantTypes DEF SendInit
  <2> QED
    BY <1>3, <2>3, <2>4 DEF SendInit, gameVars
<1>4. CASE SendInitFails(r)
  <2>1. Seats[r][1] \in Clients /\ Seats[r][2] \in Clients
    BY SeatFacts
  <2>2. NetTypes'
    BY <1>4, <2>1, NetworkTypes DEF SendInitFails
  <2> QED
    BY <1>4, <2>2, ConstantTypes DEF SendInitFails, gameVars
<1>5. CASE Join(r)
  BY <1>5 DEF Join, gameVars, NetTypes, netVars
<1> QED
  BY <1>1, <1>2, <1>3, <1>4, <1>5 DEF GameThread

LEMMA SenderThreadTypes ==
  ASSUME Types, NEW r \in Rooms, SenderThread(r)
  PROVE  ServerTypes' /\ NetTypes'
<1> USE DEF Types, ServerTypes, ServerTypeOK
<1>1. CASE TakeInput(r)
  <2>1. \A k \in Seat : paddle[k] + Distance(inputAcc[k]) \in Int
    BY ConstantTypes, SMT
  <2> QED
    BY <1>1, <2>1, ConstantTypes DEF TakeInput, NetTypes, netVars
<1>2. CASE AdvanceBall(r)
  <2>1. packet' \in [Rooms -> Packet]
    <3>1. [packet[r] EXCEPT !.type = "STATE"] \in Packet
      BY PacketFields
    <3>2. packet' = [packet EXCEPT ![r] = [packet[r] EXCEPT !.type = "STATE"]]
      BY <1>2 DEF AdvanceBall
    <3> QED
      BY <3>1, <3>2
  <2> QED
    BY <1>2, <2>1, ConstantTypes DEF AdvanceBall, NetTypes, netVars
<1>3. ASSUME NEW k \in Seat, Goal(r, k) PROVE ServerTypes' /\ NetTypes'
  <2>1. packet' \in [Rooms -> Packet]
    <3>1. [packet[r] EXCEPT !.type = "INIT"] \in Packet
      BY PacketFields
    <3>2. packet' = [packet EXCEPT ![r] = [packet[r] EXCEPT !.type = "INIT"]]
      BY <1>3 DEF Goal
    <3> QED
      BY <3>1, <3>2
  <2>2. score' \in [Seat -> Nat]
    <3>1. score[k] + 1 \in Nat
      BY SMT
    <3> QED
      BY <1>3, <3>1 DEF Goal
  <2> QED
    BY <1>3, <2>1, <2>2, ConstantTypes DEF Goal, NetTypes, netVars
<1>4. CASE BumpSync(r)
  BY <1>4, ConstantTypes DEF BumpSync, NetTypes, netVars
<1>5. CASE Pack(r)
  <2>1. packet' \in [Rooms -> Packet]
    BY <1>5, SeatFacts DEF Pack, Packet, gameVars
  <2> QED
    BY <1>5, <2>1 DEF Pack, gameVars, NetTypes, netVars
<1>6. CASE Broadcast(r)
  <2>1. packet[r] \in Packet /\ Seats[r][1] \in Clients /\ Seats[r][2] \in Clients
    BY SeatFacts
  <2>2. NetTypes'
    BY <1>6, <2>1, NetworkTypes DEF Broadcast
  <2>3. packet' \in [Rooms -> Packet]
    BY <1>6, ConstantTypes DEF Broadcast
  <2> QED
    BY <1>6, <2>2, <2>3 DEF Broadcast, gameVars
<1>7. CASE BroadcastFails(r)
  <2>1. Seats[r][1] \in Clients /\ Seats[r][2] \in Clients
    BY SeatFacts
  <2>2. NetTypes'
    BY <1>7, <2>1, NetworkTypes DEF BroadcastFails
  <2> QED
    BY <1>7, <2>2, ConstantTypes DEF BroadcastFails, gameVars
<1> QED
  BY <1>1, <1>2, <1>3, <1>4, <1>5, <1>6, <1>7 DEF SenderThread

(* A seat that has been dealt with leaves ready.                           *)
LEMMA SeatDoneTypes ==
  ASSUME Types, NEW r \in Rooms, receiver[r] \in {"recv", "add"}, SeatDone(r)
  PROVE  /\ receiver' \in [Rooms -> {"off", "check", "poll", "recv", "add", "done"}]
         /\ ready' \in [Rooms -> SUBSET Seat]
         /\ \A s \in Rooms : receiver'[s] \in {"recv", "add"} => ready'[s] # {}
<1> USE DEF Types, ServerTypes, ServerTypeOK
<1>1. ready' = [ready EXCEPT ![r] = @ \ {Reading(r)}]
  BY DEF SeatDone
<1>2. receiver' = [receiver EXCEPT ![r] =
                    IF ready[r] = {Reading(r)} THEN "check" ELSE "recv"]
  BY DEF SeatDone
<1>3. Reading(r) \in ready[r]
  BY ReadingSeat
<1>4. ready[r] # {Reading(r)} => ready[r] \ {Reading(r)} # {}
  BY <1>3
<1> HIDE DEF Types
<1> QED
  BY <1>1, <1>2, <1>4 DEF Types

LEMMA DropInputTypes ==
  ASSUME Types, NEW r \in Rooms, receiver[r] \in {"recv", "add"}, DropInput(r),
         UNCHANGED <<gameVars, disbanded, game, sender, moved, packet>>
  PROVE  ServerTypes'
<1> USE DEF ServerTypes, ServerTypeOK
<1>1. SeatDone(r) /\ got' = got
  BY DEF DropInput
<1>2. /\ receiver' \in [Rooms -> {"off", "check", "poll", "recv", "add", "done"}]
      /\ ready' \in [Rooms -> SUBSET Seat]
      /\ \A s \in Rooms : receiver'[s] \in {"recv", "add"} => ready'[s] # {}
  BY <1>1, SeatDoneTypes
<1>3. ServerTypeOK'
  BY <1>2 DEF Types, gameVars
<1>4. packet' \in [Rooms -> Packet] /\ got' \in [Rooms -> Input]
  BY <1>1 DEF Types
<1> HIDE DEF ServerTypeOK
<1> QED
  BY <1>2, <1>3, <1>4

LEMMA ReceiverThreadTypes ==
  ASSUME Types, NEW r \in Rooms, ReceiverThread(r)
  PROVE  ServerTypes' /\ NetTypes'
<1> USE DEF Types, ServerTypes, ServerTypeOK
<1>1. CASE CheckDisbanded(r)
  BY <1>1 DEF CheckDisbanded, gameVars, NetTypes, netVars
<1>2. CASE Poll(r)
  BY <1>2 DEF Poll, gameVars, NetTypes, netVars
<1>3. ASSUME receiver[r] \in {"recv", "add"}
      PROVE  Seats[r][Reading(r)] \in Clients
  BY <1>3, ReadingSeat, SeatFacts
<1>4. CASE RecvInput(r)
  <2> DEFINE c == Seats[r][Reading(r)]
  <2>1. c \in Clients /\ ServerRecv(c) /\ receiver[r] = "recv"
    BY <1>3, <1>4 DEF RecvInput
  <2> HIDE DEF c
  <2>2. NetTypes' /\ Head(toServer[c]) \in Input
    BY <2>1, NetworkTypes
  <2>3. UNCHANGED <<gameVars, disbanded, game, sender, moved, packet>>
    BY <1>4 DEF RecvInput
  <2>4. CASE AcceptInput(r, Head(toServer[c]))
    BY <2>1, <2>2, <2>3, <2>4 DEF AcceptInput, gameVars
  <2>5. CASE DropInput(r)
    BY <2>1, <2>2, <2>3, <2>5, DropInputTypes
  <2> QED
    BY <1>4, <2>4, <2>5 DEF RecvInput, c
<1>5. CASE RecvEnd(r)
  BY <1>5 DEF RecvEnd, gameVars, NetTypes, netVars
<1>6. CASE RecvError(r)
  <2>1. NetTypes'
    BY <1>3, <1>6, NetworkTypes DEF RecvError
  <2>2. receiver[r] = "recv" /\ UNCHANGED <<gameVars, disbanded, game, sender, moved, packet>>
    BY <1>6 DEF RecvError
  <2>3. ASSUME NEW a \in Junk,
               AcceptInput(r, [type |-> "INPUT", sync |-> sync, acc |-> a])
        PROVE  ServerTypes'
    <3>1. [type |-> "INPUT", sync |-> sync, acc |-> a] \in Input
      BY PongServerAssumption DEF Input
    <3> QED
      BY <2>2, <2>3, <3>1 DEF AcceptInput, gameVars
  <2>4. CASE DropInput(r)
    <3> HIDE DEF Types, ServerTypes, ServerTypeOK
    <3> QED
      BY <2>1, <2>2, <2>4, DropInputTypes
  <2> QED
    BY <1>6, <2>1, <2>3, <2>4 DEF RecvError
<1>7. CASE AddInput(r)
  <2>1. receiver[r] = "add" /\ SeatDone(r)
    BY <1>7 DEF AddInput
  <2>2. inputAcc' \in [Seat -> Int]
    <3>1. \A k \in Seat : inputAcc[k] + got[r].acc \in Int
      BY SMT DEF Input
    <3> QED
      BY <1>7, <3>1 DEF AddInput
  <2>3. got' \in [Rooms -> Input]
    BY <1>7, ConstantTypes DEF AddInput
  <2>4. UNCHANGED <<playerIds, score, paddle, sync, disbanded, game, sender,
                    moved, packet, netVars>>
    BY <1>7 DEF AddInput
  <2> QED
    BY <2>1, <2>2, <2>3, <2>4, SeatDoneTypes DEF NetTypes, netVars
<1> QED
  BY <1>1, <1>2, <1>4, <1>5, <1>6, <1>7 DEF ReceiverThread

LEMMA ClientThreadTypes ==
  ASSUME Types, NEW c \in Clients, ClientNext(c) \/ Quit(c)
  PROVE  ClientTypes' /\ NetTypes'
<1> USE DEF ClientTypes, ClientTypeOK
<1>1. ClientTypes /\ NetTypes
  BY DEF Types
<1>2. CASE Start(c)
  <2> DEFINE p == Head(toClient[c])
  <2>1. p \in Packet /\ NetTypes'
    BY <1>1, <1>2, NetworkTypes DEF Start
  <2>2. p.sync \in -128..127 /\ p.own \in 1..2 /\ p.paddle[p.own] \in Int
    BY <2>1 DEF Packet, Int8, Seat
  <2>3. NoPoints \in [1..2 -> Nat]
    BY ConstantTypes DEF Seat
  <2> HIDE DEF p
  <2>4. /\ app' \in [Clients -> {"connect", "run", "leave", "exit"}]
        /\ csync' \in [Clients -> -128..127] /\ own' \in [Clients -> 1..2]
        /\ mine' \in [Clients -> Int] /\ points' \in [Clients -> [1..2 -> Nat]]
    <3>1. CASE p.type = "INIT"
      <4>1. /\ app' = [app EXCEPT ![c] = "run"]
            /\ csync' = [csync EXCEPT ![c] = p.sync]
            /\ own' = [own EXCEPT ![c] = p.own]
            /\ mine' = [mine EXCEPT ![c] = p.paddle[p.own]]
            /\ points' = [points EXCEPT ![c] = NoPoints]
        BY <1>2, <3>1 DEF Start, p
      <4> QED
        BY <1>1, <2>2, <2>3, <4>1
    <3>2. CASE p.type # "INIT"
      BY <1>1, <1>2, <3>2 DEF Start, p
    <3> QED
      BY <3>1, <3>2
  <2> QED
    BY <1>1, <1>2, <2>1, <2>4 DEF Start
<1>3. CASE Quit(c)
  <2>1. NetTypes'
    BY <1>1, <1>3, NetworkTypes DEF Quit
  <2> QED
    BY <1>1, <1>3, <2>1 DEF Quit
<1>4. ASSUME NEW d \in {-1, 1}, Frame(c, d) PROVE ClientTypes' /\ NetTypes'
  <2>1. d \in -1..1 /\ acc[c] + d \in Int /\ frames[c] + 1 \in 0..MaxFrames[c]
        /\ frames[c] + 1 \in Nat
    <3>1. acc[c] \in Int /\ frames[c] \in Nat /\ MaxFrames[c] \in Nat
          /\ frames[c] < MaxFrames[c]
      BY <1>1, <1>4, PongClientAssumption DEF Frame
    <3> HIDE DEF ClientTypes
    <3> QED
      BY <1>4, <3>1, SMT
  <2> QED
    BY <1>1, <1>4, <2>1 DEF Frame, NetTypes, netVars
<1>5. CASE MovePaddle(c)
  <2>1. 0 \in -1..1 /\ mine[c] + dir[c] \in Int
    BY <1>1, SMT
  <2> QED
    BY <1>1, <1>5, <2>1 DEF MovePaddle, NetTypes, netVars
<1>6. CASE NetTick(c)
  <2>1. [type |-> "INPUT", sync |-> csync[c], acc |-> acc[c]] \in Input
    BY <1>1 DEF Input, Int8
  <2>2. acc[c] = 0 => idle[c] + 1 \in 0..MaxIdle[c] /\ idle[c] + 1 \in Nat
    <3>1. idle[c] \in Nat /\ MaxIdle[c] \in Nat
          /\ (acc[c] = 0 => idle[c] < MaxIdle[c])
      BY <1>1, <1>6, PongClientAssumption DEF NetTick
    <3> HIDE DEF ClientTypes
    <3> QED
      BY <3>1, SMT
  <2>3. out' \in [Clients -> Input]
    BY <1>1, <1>6, <2>1 DEF NetTick
  <2>4. idle' \in [Clients -> Nat] /\ \A b \in Clients : idle'[b] \in 0..MaxIdle[b]
    BY <1>1, <1>6, <2>2 DEF NetTick
  <2>5. acc' \in [Clients -> Int] /\ net' \in [Clients -> {"tick", "send"}]
    BY <1>1, <1>6 DEF NetTick
  <2> QED
    BY <1>1, <1>6, <2>3, <2>4, <2>5 DEF NetTick, NetTypes, netVars
<1>7. CASE NetSend(c)
  <2>1. NetTypes'
    BY <1>1, <1>7, NetworkTypes DEF NetSend
  <2> QED
    BY <1>1, <1>7, <2>1, ConstantTypes DEF NetSend
<1>8. CASE RecvState(c)
  <2>1. NetTypes'
    BY <1>1, <1>8, NetworkTypes DEF RecvState
  <2> QED
    BY <1>1, <1>8, <2>1 DEF RecvState, clientVars
<1>9. CASE RecvInit(c)
  <2> DEFINE p == Head(toClient[c])
  <2>1. p \in Packet /\ NetTypes'
    BY <1>1, <1>9, NetworkTypes DEF RecvInit
  <2>2. p.score \in [1..2 -> Nat] /\ p.paddle[own[c]] \in Int
    BY <1>1, <2>1 DEF Packet, Seat
  <2> HIDE DEF p
  <2>3. /\ points' \in [Clients -> [1..2 -> Nat]] /\ mine' \in [Clients -> Int]
        /\ hand' \in [Clients -> Packet \cup {EmptyHand}]
        /\ rcv' \in [Clients -> {"recv", "sync", "clear"}]
        /\ \A b \in Clients : rcv'[b] = "sync" => hand'[b] \in Packet
    BY <1>1, <1>9, <2>1, <2>2 DEF RecvInit, p
  <2> QED
    BY <1>1, <1>9, <2>1, <2>3 DEF RecvInit
<1>10. CASE TakeSync(c)
  <2>1. hand[c].sync \in -128..127
    BY <1>1, <1>10 DEF TakeSync, Packet, Int8
  <2> QED
    BY <1>1, <1>10, <2>1 DEF TakeSync, NetTypes, netVars
<1>11. CASE ClearInput(c)
  <2>1. acc' \in [Clients -> Int] /\ rcv' \in [Clients -> {"recv", "sync", "clear"}]
    BY <1>1, <1>11, SMT DEF ClearInput
  <2>2. \A b \in Clients : rcv'[b] = "sync" => hand'[b] \in Packet
    BY <1>1, <1>11 DEF ClearInput
  <2>3. NetTypes'
    BY <1>1, <1>11 DEF ClearInput, NetTypes, netVars
  <2> QED
    BY <1>1, <1>11, <2>1, <2>2, <2>3 DEF ClearInput
<1> QED
  BY <1>2, <1>3, <1>4, <1>5, <1>6, <1>7, <1>8, <1>9, <1>10, <1>11
     DEF ClientNext, UpdateThread, NetworkThread, StateReceiver

LEMMA NextTypes == Types /\ [Next]_vars => Types'
<1> SUFFICES ASSUME Types, [Next]_vars PROVE Types'
  OBVIOUS
<1>1. ASSUME NEW r \in Rooms, Server(r) PROVE Types'
  <2>1. ServerTypes' /\ NetTypes'
    BY <1>1, GameThreadTypes, SenderThreadTypes, ReceiverThreadTypes DEF Server
  <2>2. ClientTypes'
    BY <1>1 DEF Types, ClientTypes, ClientTypeOK, Server, clientVars
  <2> QED
    BY <2>1, <2>2 DEF Types
<1>2. ASSUME NEW c \in Clients, Client(c) PROVE Types'
  <2>1. ClientTypes' /\ NetTypes'
    BY <1>2, ClientThreadTypes DEF Client
  <2>2. ServerTypes'
    BY <1>2 DEF Types, ServerTypes, ServerTypeOK, Client, serverVars, gameVars, roomVars
  <2> QED
    BY <2>1, <2>2 DEF Types
<1>3. ASSUME NEW c \in Clients, Reset(c) PROVE Types'
  <2>1. NetTypes'
    BY <1>3, NetworkTypes DEF Reset, Types
  <2>2. ServerTypes' /\ ClientTypes'
    BY <1>3 DEF Types, ServerTypes, ServerTypeOK, ClientTypes, ClientTypeOK, Reset,
                serverVars, gameVars, roomVars, clientVars
  <2> QED
    BY <2>1, <2>2 DEF Types
<1>4. CASE UNCHANGED vars
  BY <1>4 DEF Types, ServerTypes, ServerTypeOK, ClientTypes, ClientTypeOK, NetTypes,
              vars, serverVars, gameVars, roomVars, clientVars, netVars
<1> QED
  BY <1>1, <1>2, <1>3, <1>4 DEF Next

(* Every variable stays in its type, for any clients, rooms and bounds.    *)
THEOREM TypesHold == Spec => []TypeOK
<1>1. Types => TypeOK
  BY DEF Types, ServerTypes, ClientTypes, TypeOK
<1> QED
  BY <1>1, InitTypes, NextTypes, PTL DEF Spec
-----------------------------------------------------------------------------
(* What a step does to the packets on their way to a client, and to        *)
(* whether its connection is open.                                         *)
SameLinks == \A b \in Clients : link'[b] = "open" <=> link[b] = "open"
Silent == toClient' = toClient /\ SameLinks
Sends(c, p) ==
  /\ \A b \in Clients : toClient'[b] = IF b = c /\ link[c] = "open"
                                         THEN Append(toClient[b], p)
                                         ELSE toClient[b]
  /\ SameLinks

LEMMA NetworkEffects ==
  ASSUME NetTypes, NEW c \in Clients
  PROVE  /\ \A p : ServerSend(c, p) => Sends(c, p)
         /\ ServerSendFails(c) => Silent /\ link[c] # "open"
         /\ ServerRecv(c) => Silent
         /\ ServerRecvEnd(c) => Silent /\ link[c] # "open"
         /\ ServerRecvError(c) => Silent
         /\ \A i : ClientSend(c, i) => Silent
         /\ ResetArrives(c) => Silent
<1> USE DEF NetTypes, SameLinks
<1>1. ASSUME NEW p, ServerSend(c, p) PROVE Sends(c, p)
  BY <1>1 DEF ServerSend, Sends
<1>2. ServerSendFails(c) => Silent /\ link[c] # "open"
  BY DEF ServerSendFails, Silent
<1>3. ServerRecv(c) => Silent
  BY DEF ServerRecv, Silent
<1>4. ServerRecvEnd(c) => Silent /\ link[c] # "open"
  BY DEF ServerRecvEnd, Silent, netVars
<1>5. ServerRecvError(c) => Silent
  BY DEF ServerRecvError, Silent
<1>6. ASSUME NEW i, ClientSend(c, i) PROVE Silent
  BY <1>6 DEF ClientSend, Silent
<1>7. ResetArrives(c) => Silent
  BY DEF ResetArrives, Silent
<1> QED
  BY <1>1, <1>2, <1>3, <1>4, <1>5, <1>6, <1>7

LEMMA GameThreadEffects ==
  ASSUME Types, NEW r \in Rooms, GameThread(r), ~SendInit(r)
  PROVE  Silent
<1>1. NetTypes /\ (UNCHANGED netVars => Silent)
  BY DEF Types, netVars, Silent, SameLinks
<1>2. CASE StartPlayers(r)
  BY <1>1, <1>2 DEF StartPlayers
<1>3. CASE StartField(r)
  BY <1>1, <1>3 DEF StartField
<1>4. CASE SendInitFails(r)
  BY <1>1, <1>4, SeatFacts, NetworkEffects DEF SendInitFails
<1>5. CASE Join(r)
  BY <1>1, <1>5 DEF Join
<1> QED
  BY <1>2, <1>3, <1>4, <1>5 DEF GameThread

LEMMA SenderThreadEffects ==
  ASSUME Types, NEW r \in Rooms, SenderThread(r), ~Broadcast(r)
  PROVE  Silent
<1>1. NetTypes /\ (UNCHANGED netVars => Silent)
  BY DEF Types, netVars, Silent, SameLinks
<1>2. CASE TakeInput(r)
  BY <1>1, <1>2 DEF TakeInput
<1>3. CASE AdvanceBall(r)
  BY <1>1, <1>3 DEF AdvanceBall
<1>4. CASE \E k \in Seat : Goal(r, k)
  BY <1>1, <1>4 DEF Goal
<1>5. CASE BumpSync(r)
  BY <1>1, <1>5 DEF BumpSync
<1>6. CASE Pack(r)
  BY <1>1, <1>6 DEF Pack
<1>7. CASE BroadcastFails(r)
  BY <1>1, <1>7, SeatFacts, NetworkEffects DEF BroadcastFails
<1> QED
  BY <1>2, <1>3, <1>4, <1>5, <1>6, <1>7 DEF SenderThread

LEMMA ReceiverThreadEffects ==
  ASSUME Types, NEW r \in Rooms, ReceiverThread(r)
  PROVE  Silent
<1>1. NetTypes /\ (UNCHANGED netVars => Silent)
  BY DEF Types, netVars, Silent, SameLinks
<1>2. receiver[r] = "recv" => Seats[r][Reading(r)] \in Clients
  BY ReadingSeat, SeatFacts DEF Types, ServerTypes, ServerTypeOK
<1>3. CASE CheckDisbanded(r)
  BY <1>1, <1>3 DEF CheckDisbanded
<1>4. CASE Poll(r)
  BY <1>1, <1>4 DEF Poll
<1>5. CASE RecvInput(r)
  BY <1>1, <1>2, <1>5, NetworkEffects DEF RecvInput
<1>6. CASE RecvEnd(r)
  BY <1>1, <1>2, <1>6, NetworkEffects DEF RecvEnd
<1>7. CASE RecvError(r)
  BY <1>1, <1>2, <1>7, NetworkEffects DEF RecvError
<1>8. CASE AddInput(r)
  BY <1>1, <1>8 DEF AddInput
<1> QED
  BY <1>3, <1>4, <1>5, <1>6, <1>7, <1>8 DEF ReceiverThread
-----------------------------------------------------------------------------
(* A connection is no longer open because its client has left.             *)
Links == \A c \in Clients : link[c] # "open" => app[c] = "exit"

LEMMA LinksNext == Types /\ Links /\ [Next]_vars => Links'
<1> SUFFICES ASSUME Types, Links, [Next]_vars PROVE Links'
  OBVIOUS
<1>1. NetTypes /\ app \in [Clients -> {"connect", "run", "leave", "exit"}]
  BY DEF Types, ClientTypes, ClientTypeOK
<1>2. ASSUME NEW r \in Rooms, Server(r) PROVE Links'
  <2>1. SameLinks
    <3>1. CASE SendInit(r)
      BY <1>1, <3>1, SeatFacts, NetworkEffects DEF SendInit, Sends
    <3>2. CASE Broadcast(r)
      BY <1>1, <3>2, SeatFacts, NetworkEffects DEF Broadcast, Sends
    <3> QED
      BY <1>2, <3>1, <3>2, GameThreadEffects, SenderThreadEffects,
         ReceiverThreadEffects DEF Server, Silent
  <2> QED
    BY <1>2, <2>1 DEF Server, clientVars, Links, SameLinks
<1>3. ASSUME NEW c \in Clients, Client(c) PROVE Links'
  <2>1. CASE Quit(c)
    BY <1>1, <2>1 DEF Quit, ClientClose, Links, NetTypes
  <2>2. CASE Start(c)
    BY <1>1, <2>2 DEF Start, ClientRecv, Links
  <2>3. CASE UpdateThread(c) \/ NetworkThread(c) \/ StateReceiver(c)
    <3>1. app' = app /\ link' = link
      BY <2>3 DEF UpdateThread, NetworkThread, StateReceiver, Frame, MovePaddle, NetTick,
                  NetSend, RecvState, RecvInit, TakeSync, ClearInput, ClientSend,
                  ClientRecv, netVars, clientVars
    <3> QED
      BY <3>1 DEF Links
  <2> QED
    BY <1>3, <2>1, <2>2, <2>3 DEF Client, ClientNext
<1>4. ASSUME NEW c \in Clients, Reset(c) PROVE Links'
  BY <1>1, <1>4, NetworkEffects DEF Reset, Links, Silent, SameLinks, clientVars
<1>5. CASE UNCHANGED vars
  BY <1>5 DEF Links, vars, clientVars, netVars
<1> QED
  BY <1>2, <1>3, <1>4, <1>5 DEF Next

(* OnlyLeaversDisband, one step.                                           *)
LEMMA LeaversNext ==
  Types /\ Links /\ OnlyLeaversDisband /\ [Next]_vars => OnlyLeaversDisband'
<1> SUFFICES ASSUME Types, Links, OnlyLeaversDisband, [Next]_vars
             PROVE  OnlyLeaversDisband'
  OBVIOUS
<1> DEFINE Ended(s) == s \in disbanded \/ sender[s] = "done" \/ receiver[s] = "done"
           Left(s) == \E k \in Seat : app[Seats[s][k]] = "exit"
<1>1. /\ NetTypes /\ app \in [Clients -> {"connect", "run", "leave", "exit"}]
      /\ disbanded \subseteq Rooms /\ sender \in [Rooms -> {"off", "input", "advance",
                                       "sync", "pack", "send1", "send2", "done"}]
      /\ receiver \in [Rooms -> {"off", "check", "poll", "recv", "add", "done"}]
  BY DEF Types, ClientTypes, ClientTypeOK, ServerTypes, ServerTypeOK
<1>2. \A s \in Rooms : Ended(s) => Left(s)
  BY DEF OnlyLeaversDisband
<1>3. \A s \in Rooms, k \in Seat : link[Seats[s][k]] # "open" => Left(s)
  BY SeatFacts DEF Links
<1>4. ASSUME NEW r \in Rooms, Server(r) PROVE OnlyLeaversDisband'
  <2>1. app' = app
    BY <1>4 DEF Server, clientVars
  <2>2. ASSUME NEW s \in Rooms PROVE Ended(s)' => Left(s)
    <3>1. CASE GameThread(r)
      BY <1>1, <1>2, <3>1 DEF GameThread, StartPlayers, StartField, SendInit,
         SendInitFails, Join
    <3>2. CASE Broadcast(r)
      BY <1>1, <1>2, <3>2 DEF Broadcast
    <3>3. CASE BroadcastFails(r)
      <4>1. Left(r)
        BY <1>1, <1>3, <3>3, SeatFacts, NetworkEffects DEF BroadcastFails
      <4> QED
        BY <1>1, <1>2, <3>3, <4>1 DEF BroadcastFails
    <3>4. CASE TakeInput(r) \/ AdvanceBall(r) \/ BumpSync(r) \/ Pack(r)
                 \/ \E k \in Seat : Goal(r, k)
      BY <1>1, <1>2, <3>4 DEF TakeInput, AdvanceBall, BumpSync, Pack, Goal
    <3>5. CASE RecvEnd(r)
      <4>1. Reading(r) \in Seat
        BY <3>5, ReadingSeat DEF RecvEnd, Types, ServerTypes, ServerTypeOK
      <4>2. Left(r)
        BY <1>1, <1>3, <3>5, <4>1, SeatFacts, NetworkEffects DEF RecvEnd
      <4> QED
        BY <1>1, <1>2, <3>5, <4>2 DEF RecvEnd
    <3>6. CASE CheckDisbanded(r)
      BY <1>1, <1>2, <3>6 DEF CheckDisbanded
    <3>7. CASE Poll(r)
      BY <1>1, <1>2, <3>7 DEF Poll
    <3>8. CASE RecvInput(r) \/ RecvError(r) \/ AddInput(r)
      BY <1>1, <1>2, <3>8 DEF RecvInput, RecvError, AddInput, AcceptInput, DropInput, SeatDone
    <3> QED
      BY <1>4, <3>1, <3>2, <3>3, <3>4, <3>5, <3>6, <3>7, <3>8
         DEF Server, SenderThread, ReceiverThread
  <2> QED
    BY <2>1, <2>2 DEF OnlyLeaversDisband
<1>5. ASSUME NEW c \in Clients, Client(c) PROVE OnlyLeaversDisband'
  <2>1. UNCHANGED <<disbanded, sender, receiver>>
    BY <1>5 DEF Client, serverVars, roomVars
  <2>2. ASSUME NEW b \in Clients, app[b] = "exit" PROVE app'[b] = "exit"
    BY <1>1, <1>5, <2>2 DEF Client, ClientNext, Quit, Start, UpdateThread, NetworkThread,
       StateReceiver, Frame, MovePaddle, NetTick, NetSend, RecvState, RecvInit, TakeSync,
       ClearInput, clientVars
  <2> QED
    BY <1>2, <2>1, <2>2, SeatFacts DEF OnlyLeaversDisband
<1>6. CASE UNCHANGED <<serverVars, clientVars>>
  BY <1>2, <1>6 DEF OnlyLeaversDisband, serverVars, roomVars, clientVars
<1> QED
  BY <1>4, <1>5, <1>6 DEF Next, Reset, vars

(* However many rooms, clients and steps: a room is disbanded, and one of  *)
(* its threads ends, only after one of its players has gone.               *)
THEOREM LeaversDisband == Spec => []OnlyLeaversDisband
<1>1. Init => Links /\ OnlyLeaversDisband
  BY DEF Init, NetInit, ServerInit, Links, OnlyLeaversDisband
<1> QED
  BY <1>1, InitTypes, NextTypes, LinksNext, LeaversNext, PTL DEF Spec
-----------------------------------------------------------------------------
(* The two threads of a room start after both init packets; what a client  *)
(* reads first is the one that tells it its seat.                          *)
Stages ==
  \A r \in Rooms :
    /\ game[r] \in {"ids", "start", "init1", "init2"} => sender[r] = "off"
    /\ game[r] \in {"init1", "init2"} => packet[r].type = "INIT"

Sent(r, k) == sender[r] # "off" \/ (k = 1 /\ game[r] = "init2")

First(r, k, c) ==
  /\ app[c] # "leave"
  /\ app[c] = "run" => own[c] = k
  /\ app[c] = "connect" => rcv[c] = "recv"
  /\ app[c] = "connect" /\ Sent(r, k) => toClient[c] # <<>>
  /\ app[c] = "connect" /\ toClient[c] # <<>> =>
       Head(toClient[c]).type = "INIT" /\ Head(toClient[c]).own = k
Firsts == \A r \in Rooms, k \in Seat : First(r, k, Seats[r][k])

LEMMA StagesNext == Types /\ Stages /\ [Next]_vars => Stages'
<1> SUFFICES ASSUME Types, Stages, [Next]_vars PROVE Stages'
  OBVIOUS
<1>1. /\ game \in [Rooms -> {"ids", "start", "init1", "init2", "join", "done"}]
      /\ sender \in [Rooms -> {"off", "input", "advance", "sync", "pack", "send1",
                               "send2", "done"}]
      /\ packet \in [Rooms -> Packet]
  BY DEF Types, ServerTypes, ServerTypeOK
<1>2. ASSUME NEW r \in Rooms, GameThread(r) PROVE Stages'
  BY <1>1, <1>2 DEF GameThread, StartPlayers, StartField, SendInit, SendInitFails, Join,
                    Stages
<1>3. ASSUME NEW r \in Rooms, SenderThread(r) PROVE Stages'
  <2>1. game' = game /\ sender[r] # "off"
    BY <1>3 DEF SenderThread, TakeInput, AdvanceBall, BumpSync, Pack, Broadcast,
                BroadcastFails, Goal
  <2>2. \A s \in Rooms \ {r} : sender'[s] = sender[s] /\ packet'[s] = packet[s]
    BY <1>1, <1>3 DEF SenderThread, TakeInput, AdvanceBall, BumpSync, Pack, Broadcast,
                      BroadcastFails, Goal
  <2> QED
    BY <2>1, <2>2 DEF Stages
<1>4. ASSUME UNCHANGED <<game, sender, packet>> PROVE Stages'
  BY <1>4 DEF Stages
<1>5. ASSUME NEW r \in Rooms, ReceiverThread(r) PROVE UNCHANGED <<game, sender, packet>>
  BY <1>5 DEF ReceiverThread, CheckDisbanded, Poll, RecvInput, RecvEnd, RecvError, AddInput
<1> QED
  BY <1>2, <1>3, <1>4, <1>5
     DEF Next, Server, Client, Reset, vars, serverVars, roomVars

(* What the packets to a seat do to First, whatever room they are from.    *)
LEMMA SendKeepsFirst ==
  ASSUME Types, Links, NEW r \in Rooms, NEW k \in Seat, First(r, k, Seats[r][k]),
         NEW c \in Clients, NEW p \in Packet, Sends(c, p), UNCHANGED clientVars,
         Sent(r, k) \/ ~Sent(r, k)' \/ c = Seats[r][k],
         c = Seats[r][k] => Sent(r, k) \/ (p.type = "INIT" /\ p.own = k)
  PROVE  First(r, k, Seats[r][k])'
<1> DEFINE b == Seats[r][k]
           q == toClient[b]
<1>1. b \in Clients /\ q \in Seq(Packet) /\ q' \in {q, Append(q, p)}
      /\ (b # c => q' = q)
      /\ (b = c /\ app[b] = "connect" => q' = Append(q, p))
  BY SeatFacts DEF Types, NetTypes, Sends, Links
<1>2. UNCHANGED <<app, own, rcv>>
  BY DEF clientVars
<1>3. Append(q, p) # <<>> /\ (q # <<>> => Head(Append(q, p)) = Head(q))
      /\ (q = <<>> => Head(Append(q, p)) = p)
  BY <1>1, SMT
<1> HIDE DEF b, q
<1>4. app[b] = "connect" /\ Sent(r, k)' => q' # <<>>
  BY <1>1, <1>2, <1>3 DEF First, b, q
<1>5. app[b] = "connect" /\ q' # <<>> => Head(q').type = "INIT" /\ Head(q').own = k
  BY <1>1, <1>2, <1>3 DEF First, b, q
<1> QED
  BY <1>2, <1>4, <1>5 DEF First, b, q

LEMMA FirstsServer ==
  ASSUME Types, Links, Stages, Firsts, NEW r \in Rooms, Server(r)
  PROVE  Firsts'
<1>1. UNCHANGED clientVars /\ UNCHANGED <<app, own, rcv>>
  BY DEF Server, clientVars
<1>2. /\ game \in [Rooms -> {"ids", "start", "init1", "init2", "join", "done"}]
      /\ sender \in [Rooms -> {"off", "input", "advance", "sync", "pack", "send1",
                               "send2", "done"}]
      /\ packet \in [Rooms -> Packet] /\ NetTypes
  BY DEF Types, ServerTypes, ServerTypeOK
<1>3. \A k \in Seat : Seats[r][k] \in Clients
  BY SeatFacts
<1>4. ASSUME Silent, \A s \in Rooms, k \in Seat : Sent(s, k)' => Sent(s, k)
      PROVE  Firsts'
  BY <1>1, <1>4 DEF Firsts, First, Silent
<1>5. CASE SendInit(r)
  <2>1. PICK j \in Seat :
          /\ game[r] = (IF j = 1 THEN "init1" ELSE "init2")
          /\ ServerSend(Seats[r][j], [packet[r] EXCEPT !.own = j])
    BY <1>5, SeatFacts DEF SendInit
  <2> DEFINE p == [packet[r] EXCEPT !.own = j]
  <2>2. p \in Packet /\ p.own = j /\ p.type = "INIT"
    <3>1. packet[r] \in Packet /\ packet[r].type = "INIT"
      BY <1>2, <2>1 DEF Stages
    <3> QED
      BY <3>1, PacketFields
  <2> HIDE DEF p
  <2>3. Sends(Seats[r][j], p)
    BY <1>2, <1>3, <2>1, NetworkEffects DEF p
  <2>4. ASSUME NEW s \in Rooms, NEW k \in Seat
        PROVE  Sent(s, k) \/ ~Sent(s, k)' \/ Seats[r][j] = Seats[s][k]
    BY <1>2, <1>5, <2>1, SeatFacts DEF SendInit, Sent
  <2>5. ASSUME NEW s \in Rooms, NEW k \in Seat, Seats[r][j] = Seats[s][k]
        PROVE  p.type = "INIT" /\ p.own = k
    BY <2>2, <2>5, PongServerAssumption
  <2> QED
    BY <1>1, <1>3, <2>2, <2>3, <2>4, <2>5, SendKeepsFirst DEF Firsts
<1>6. CASE Broadcast(r)
  <2>1. PICK j \in Seat : ServerSend(Seats[r][j], packet[r])
    BY <1>6, SeatFacts DEF Broadcast
  <2>2. Sends(Seats[r][j], packet[r]) /\ packet[r] \in Packet
    BY <1>2, <1>3, <2>1, NetworkEffects
  <2>3. sender[r] # "off" /\ \A s \in Rooms, k \in Seat : Sent(s, k)' => Sent(s, k)
    BY <1>2, <1>6 DEF Broadcast, Sent
  <2>4. ASSUME NEW s \in Rooms, NEW k \in Seat, Seats[r][j] = Seats[s][k]
        PROVE  Sent(s, k)
    BY <2>3, <2>4, PongServerAssumption DEF Sent
  <2> QED
    BY <1>1, <1>3, <2>2, <2>3, <2>4, SendKeepsFirst DEF Firsts
<1>7. CASE GameThread(r) /\ ~SendInit(r)
  <2>1. sender' = sender /\ \A s \in Rooms : game'[s] = "init2" => game[s] = "init2"
    BY <1>2, <1>7 DEF GameThread, StartPlayers, StartField, SendInitFails, Join
  <2> QED
    BY <1>4, <1>7, <2>1, GameThreadEffects DEF Sent
<1>8. CASE SenderThread(r) /\ ~Broadcast(r)
  <2>1. game' = game /\ \A s \in Rooms : sender'[s] # "off" => sender[s] # "off"
    BY <1>2, <1>8 DEF SenderThread, TakeInput, AdvanceBall, BumpSync, Pack,
                      BroadcastFails, Goal
  <2> QED
    BY <1>4, <1>8, <2>1, SenderThreadEffects DEF Sent
<1>9. CASE ReceiverThread(r)
  <2>1. game' = game /\ sender' = sender
    BY <1>9 DEF ReceiverThread, CheckDisbanded, Poll, RecvInput, RecvEnd, RecvError, AddInput
  <2> QED
    BY <1>4, <1>9, <2>1, ReceiverThreadEffects DEF Sent
<1> QED
  BY <1>5, <1>6, <1>7, <1>8, <1>9 DEF Server

LEMMA FirstsClient ==
  ASSUME Types, Firsts, NEW c \in Clients, Client(c)
  PROVE  Firsts'
<1>1. /\ app \in [Clients -> {"connect", "run", "leave", "exit"}]
      /\ own \in [Clients -> 1..2]
      /\ rcv \in [Clients -> {"recv", "sync", "clear"}]
      /\ toClient \in [Clients -> Seq(Packet)]
  BY DEF Types, ClientTypes, ClientTypeOK, NetTypes
<1>2. \A s \in Rooms, k \in Seat : Sent(s, k)' = Sent(s, k)
  BY DEF Client, serverVars, roomVars, Sent
<1>3. ASSUME NEW s \in Rooms, NEW k \in Seat, Seats[s][k] # c
      PROVE  First(s, k, Seats[s][k])'
  <2> DEFINE b == Seats[s][k]
  <2>1. b \in Clients /\ b # c /\ First(s, k, b)
    BY <1>3, SeatFacts DEF Firsts
  <2> HIDE DEF b
  <2>2. UNCHANGED <<app[b], own[b], rcv[b], toClient[b]>>
    BY <1>1, <2>1 DEF Client, ClientNext, Quit, Start, UpdateThread, NetworkThread,
       StateReceiver, Frame, MovePaddle, NetTick, NetSend, RecvState, RecvInit, TakeSync,
       ClearInput, ClientSend, ClientRecv, ClientClose, netVars, clientVars
  <2> QED
    BY <1>2, <2>1, <2>2 DEF First, b
<1>4. ASSUME NEW s \in Rooms, NEW k \in Seat, Seats[s][k] = c
      PROVE  First(s, k, c)'
  <2>1. First(s, k, c)
    BY <1>4 DEF Firsts
  <2>2. CASE Start(c)
    <3>1. Head(toClient[c]).type = "INIT" /\ Head(toClient[c]).own = k
      BY <2>1, <2>2 DEF Start, ClientRecv, First
    <3>2. app'[c] = "run" /\ own'[c] = k
      BY <1>1, <2>2, <3>1 DEF Start
    <3> QED
      BY <3>2 DEF First
  <2>3. CASE Quit(c)
    BY <1>1, <2>3 DEF Quit, First
  <2>4. CASE UpdateThread(c) \/ NetworkThread(c) \/ StateReceiver(c)
    <3>1. app[c] = "run" /\ app' = app /\ own' = own
      BY <2>4 DEF UpdateThread, NetworkThread, StateReceiver, Frame, MovePaddle, NetTick,
                  NetSend, RecvState, RecvInit, TakeSync, ClearInput, clientVars
    <3> QED
      BY <2>1, <3>1 DEF First
  <2> QED
    BY <2>2, <2>3, <2>4 DEF Client, ClientNext
<1> QED
  BY <1>3, <1>4 DEF Firsts

LEMMA FirstsNext == Types /\ Links /\ Stages /\ Firsts /\ [Next]_vars => Firsts'
<1> SUFFICES ASSUME Types, Links, Stages, Firsts, [Next]_vars PROVE Firsts'
  OBVIOUS
<1>1. ASSUME NEW c \in Clients, Reset(c) PROVE Firsts'
  <2>1. UNCHANGED <<game, sender, app, own, rcv, toClient>>
    BY <1>1 DEF Reset, ResetArrives, serverVars, roomVars, clientVars
  <2> QED
    BY <2>1 DEF Firsts, First, Sent
<1>2. CASE UNCHANGED vars
  BY <1>2 DEF Firsts, First, Sent, vars, serverVars, roomVars, clientVars, netVars
<1> QED
  BY <1>1, <1>2, FirstsServer, FirstsClient DEF Next

(* RoomOf and SeatOf undo Seats.                                           *)
LEMMA SeatOfSeats ==
  ASSUME NEW c \in Clients
  PROVE  RoomOf(c) \in Rooms /\ SeatOf(c) \in Seat /\ Seats[RoomOf(c)][SeatOf(c)] = c
<1>1. RoomOf(c) \in Rooms /\ \E k \in Seat : Seats[RoomOf(c)][k] = c
  BY PongSessionAssumption DEF RoomOf
<1> QED
  BY <1>1 DEF SeatOf

(* However many rooms, clients and steps: a player keeps the seat that its *)
(* first packet gave it, and that is the seat its room has it in.          *)
THEOREM SeatsAreKept == Spec => []SeatsKept
<1>1. Init => Links /\ Stages /\ Firsts
  BY SeatFacts DEF Init, NetInit, ServerInit, ClientInit, Links, Stages, Firsts, First, Sent
<1>2. Firsts => SeatsKept
  BY SeatOfSeats DEF Firsts, First, SeatsKept, Playing
<1> QED
  BY <1>1, <1>2, InitTypes, NextTypes, LinksNext, StagesNext, FirstsNext, PTL DEF Spec
=============================================================================
