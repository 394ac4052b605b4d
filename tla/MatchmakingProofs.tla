------------------------- MODULE MatchmakingProofs -------------------------
(***************************************************************************)
(* What the runs of Matchmaking check on a few clients, proved for every   *)
(* number of clients, of descriptors and of seats in a room.               *)
(***************************************************************************)
EXTENDS Matchmaking, SequenceTheorems, WellFoundedInduction, TLAPS

(***************************************************************************)
(* The inductive invariant.  A descriptor, once given to a client, stays   *)
(* open and belongs to that client alone; only the client that the accept  *)
(* loop is working on has a descriptor but no thread.  Together with       *)
(* OneHome this makes the search of server_handle_disconnection fail       *)
(* always, which in turn keeps the descriptors open and the client_t's     *)
(* allocated.                                                              *)
(***************************************************************************)
FdsDistinct ==
  /\ \A c \in Clients : fd[c] # NoFd => fd[c] \in openFds
  /\ \A c, d \in Clients : fd[c] # NoFd /\ fd[c] = fd[d] => c = d

Stages ==
  /\ acceptor # "accept" => /\ current \in Clients
                            /\ fd[current] # NoFd
                            /\ conn[current] = "none"
  /\ \A c \in Clients : conn[c] # "none" => fd[c] # NoFd

IInv ==
  /\ TypeOK
  /\ MutexOwner
  /\ FdsDistinct
  /\ Stages
  /\ OneHome
  /\ freed = {}
-----------------------------------------------------------------------------
(* A nonempty set of naturals has a least element, so accept returns a     *)
(* descriptor that was not open.                                           *)
LEMMA LowestFdOpen ==
  ASSUME Fds \ openFds # {}
  PROVE  LowestFd \in Fds \ openFds
<1> DEFINE T == Fds \ openFds
           R == {ss \in Nat \X Nat : ss[1] < ss[2]}
<1>1. T \subseteq Nat
  BY MatchmakingAssumption DEF MatchmakingAssumption
<1>2. R = OpToRel(<, Nat)
  BY DEF OpToRel
<1>3. IsWellFoundedOn(R, Nat)
  BY <1>2, NatLessThanWellFounded
<1>4. \E f \in T : \A g \in T : ~(<<g, f>> \in R)
  BY <1>1, <1>3, WFMin
<1>5. \E f \in T : \A g \in T : f <= g
  <2>1. PICK f \in T : \A g \in T : ~(<<g, f>> \in R)
    BY <1>4
  <2>2. \A g \in T : f <= g
    <3> TAKE g \in T
    <3>1. g \in Nat /\ f \in Nat
      BY <1>1
    <3>2. <<g, f>> \in Nat \X Nat /\ <<g, f>>[1] = g /\ <<g, f>>[2] = f
      BY <3>1
    <3>3. g < f => <<g, f>> \in R
      BY <3>2
    <3> QED
      BY <2>1, <3>1, <3>3
  <2> QED
    BY <2>2
<1> QED
  BY <1>5 DEF LowestFd

(* Taking a room off the front of a queue.                                 *)
LEMMA FrontAndRest ==
  ASSUME NEW q \in Seq(Clients), Len(q) >= RoomSize
  PROVE  LET front == SubSeq(q, 1, RoomSize)
             rest == SubSeq(q, RoomSize + 1, Len(q))
         IN  /\ front \in Rooms
             /\ \A k \in 1..RoomSize : front[k] = q[k]
             /\ rest \in Seq(Clients)
             /\ Len(rest) = Len(q) - RoomSize
             /\ \A i \in 1..Len(rest) : rest[i] = q[RoomSize + i]
<1> DEFINE front == SubSeq(q, 1, RoomSize)
           rest == SubSeq(q, RoomSize + 1, Len(q))
<1>1. RoomSize \in Nat \ {0} /\ Len(q) \in Nat
  BY MatchmakingAssumption, LenProperties DEF MatchmakingAssumption
<1>2. \A i \in 1..Len(q) : q[i] \in Clients
  BY ElementOfSeq
<1>3. /\ front \in Seq(Clients)
      /\ Len(front) = RoomSize
      /\ \A k \in 1..RoomSize : front[k] = q[k]
  <2>1. \A i \in 1..RoomSize : q[i] \in Clients
    BY <1>1, <1>2
  <2> QED
    BY <1>1, <2>1, SubSeqProperties
<1>4. front \in Rooms
  BY <1>3, <1>1, LenProperties, ElementOfSeq DEF Rooms
<1>5. /\ rest \in Seq(Clients)
      /\ Len(rest) = Len(q) - RoomSize
      /\ \A i \in 1..Len(rest) : rest[i] = q[RoomSize + i]
  <2>1. \A i \in (RoomSize + 1)..Len(q) : q[i] \in Clients
    BY <1>1, <1>2
  <2>2. /\ rest \in Seq(Clients)
        /\ Len(rest) = IF RoomSize + 1 <= Len(q)
                         THEN Len(q) - (RoomSize + 1) + 1 ELSE 0
        /\ \A i \in 1..(Len(q) - (RoomSize + 1) + 1) :
             rest[i] = q[(RoomSize + 1) + i - 1]
    BY <1>1, <2>1, SubSeqProperties
  <2> QED
    BY <1>1, <2>2
<1> QED
  BY <1>3, <1>4, <1>5

(* What a step does to the homes of clients, for each of the two steps     *)
(* that change them and for those that do not.                             *)
LEMMA HomesUnchanged ==
  ASSUME OneHome, UNCHANGED <<queue, rooms>>,
         \A c \in Clients : Enqueued(c)' <=> Enqueued(c)
  PROVE  OneHome'
BY DEF OneHome, InQueue, InRoom

LEMMA EnqueueKeepsHomes ==
  ASSUME IInv, Enqueue
  PROVE  OneHome'
<1> USE DEF IInv
<1>1. /\ current \in Clients /\ conn[current] = "none"
      /\ ~Enqueued(current)
  BY DEF Enqueue, Stages, Enqueued
<1>2. ~InQueue(current) /\ ~InRoom(current)
  BY <1>1 DEF OneHome
<1>3. queue \in Seq(Clients) /\ Len(queue) \in Nat /\ DOMAIN queue = 1..Len(queue)
  BY LenProperties DEF TypeOK
<1>4. /\ queue' \in Seq(Clients)
      /\ Len(queue') = Len(queue) + 1
      /\ \A i \in 1..Len(queue) : queue'[i] = queue[i]
      /\ queue'[Len(queue) + 1] = current
  BY <1>1, <1>3, AppendProperties DEF Enqueue
<1>5. DOMAIN queue' = 1..(Len(queue) + 1)
  BY <1>4, LenProperties
<1>6. \A c \in Clients : InQueue(c)' <=> InQueue(c) \/ c = current
  <2> SUFFICES ASSUME NEW c \in Clients
               PROVE  InQueue(c)' <=> InQueue(c) \/ c = current
    OBVIOUS
  <2>1. InQueue(c)' => InQueue(c) \/ c = current
    BY <1>3, <1>4, <1>5 DEF InQueue
  <2>2. InQueue(c) => InQueue(c)'
    BY <1>3, <1>4, <1>5 DEF InQueue
  <2>3. c = current => InQueue(c)'
    BY <1>3, <1>4, <1>5 DEF InQueue
  <2> QED
    BY <2>1, <2>2, <2>3
<1>7. \A c \in Clients : InRoom(c)' <=> InRoom(c)
  BY DEF InRoom, Enqueue
<1>8. \A c \in Clients : Enqueued(c)' <=> Enqueued(c) \/ c = current
  BY <1>1 DEF Enqueued, Enqueue
<1>9. \A i, j \in DOMAIN queue' : queue'[i] = queue'[j] => i = j
  <2>1. \A i \in 1..Len(queue) : queue[i] # current
    BY <1>2, <1>3 DEF InQueue
  <2>2. \A i, j \in 1..Len(queue) : queue[i] = queue[j] => i = j
    BY <1>3 DEF OneHome
  <2> QED
    BY <1>3, <1>4, <1>5, <2>1, <2>2
<1>10. \A r, s \in DOMAIN rooms', k, l \in 1..RoomSize :
         rooms'[r][k] = rooms'[s][l] => r = s /\ k = l
  BY DEF OneHome, Enqueue
<1> QED
  BY <1>2, <1>6, <1>7, <1>8, <1>9, <1>10 DEF OneHome

LEMMA MakeRoomKeepsHomes ==
  ASSUME IInv, MakeRoom
  PROVE  OneHome'
<1> USE DEF IInv
<1>1. /\ queue \in Seq(Clients) /\ Len(queue) \in Nat
      /\ DOMAIN queue = 1..Len(queue) /\ Len(queue) >= RoomSize
      /\ RoomSize \in Nat
  BY LenProperties, MatchmakingAssumption
     DEF TypeOK, MakeRoom, MatchmakingAssumption
<1>2. /\ queue' \in Seq(Clients)
      /\ DOMAIN queue' = 1..(Len(queue) - RoomSize)
      /\ \A i \in DOMAIN queue' : queue'[i] = queue[RoomSize + i]
  BY <1>1, FrontAndRest, LenProperties DEF MakeRoom
<1>3. rooms \in Seq(Rooms) /\ Len(rooms) \in Nat /\ DOMAIN rooms = 1..Len(rooms)
  BY LenProperties DEF TypeOK
<1>4. /\ DOMAIN rooms' = 1..(Len(rooms) + 1)
      /\ \A r \in DOMAIN rooms : rooms'[r] = rooms[r]
      /\ \A k \in 1..RoomSize : rooms'[Len(rooms) + 1][k] = queue[k]
  <2> DEFINE front == SubSeq(queue, 1, RoomSize)
  <2>1. front \in Rooms /\ \A k \in 1..RoomSize : front[k] = queue[k]
    BY <1>1, FrontAndRest
  <2>2. rooms' = Append(rooms, front)
    BY DEF MakeRoom
  <2> HIDE DEF front
  <2>3. /\ rooms' \in Seq(Rooms)
        /\ Len(rooms') = Len(rooms) + 1
        /\ \A r \in 1..Len(rooms) : rooms'[r] = rooms[r]
        /\ rooms'[Len(rooms) + 1] = front
    BY <1>3, <2>1, <2>2, AppendProperties
  <2> QED
    BY <1>3, <2>1, <2>3, LenProperties
<1>5. \A c \in Clients : InQueue(c)' <=>
        \E i \in (RoomSize + 1)..Len(queue) : queue[i] = c
  <2> SUFFICES ASSUME NEW c \in Clients
               PROVE  InQueue(c)' <=>
                        \E i \in (RoomSize + 1)..Len(queue) : queue[i] = c
    OBVIOUS
  <2>1. ASSUME InQueue(c)'
        PROVE  \E i \in (RoomSize + 1)..Len(queue) : queue[i] = c
    <3>1. PICK i \in DOMAIN queue' : queue'[i] = c
      BY <2>1 DEF InQueue
    <3>2. RoomSize + i \in (RoomSize + 1)..Len(queue)
      BY <1>1, <1>2
    <3> QED
      BY <1>2, <3>1, <3>2
  <2>2. ASSUME NEW i \in (RoomSize + 1)..Len(queue), queue[i] = c
        PROVE  InQueue(c)'
    <3>1. i - RoomSize \in DOMAIN queue' /\ RoomSize + (i - RoomSize) = i
      BY <1>1, <1>2
    <3>2. queue'[i - RoomSize] = c
      BY <1>2, <2>2, <3>1
    <3> QED
      BY <3>1, <3>2 DEF InQueue
  <2> QED
    BY <2>1, <2>2
<1>6. \A c \in Clients : InRoom(c)' <=>
        InRoom(c) \/ \E k \in 1..RoomSize : queue[k] = c
  <2> SUFFICES ASSUME NEW c \in Clients
               PROVE  InRoom(c)' <=>
                        InRoom(c) \/ \E k \in 1..RoomSize : queue[k] = c
    OBVIOUS
  <2>1. InRoom(c) => InRoom(c)'
    BY <1>3, <1>4 DEF InRoom
  <2>2. (\E k \in 1..RoomSize : queue[k] = c) => InRoom(c)'
    BY <1>3, <1>4 DEF InRoom
  <2>3. InRoom(c)' => InRoom(c) \/ \E k \in 1..RoomSize : queue[k] = c
    BY <1>3, <1>4 DEF InRoom
  <2> QED
    BY <2>1, <2>2, <2>3
<1>7. \A c \in Clients : InQueue(c) <=>
        \/ \E k \in 1..RoomSize : queue[k] = c
        \/ \E i \in (RoomSize + 1)..Len(queue) : queue[i] = c
  <2>1. DOMAIN queue = 1..RoomSize \cup (RoomSize + 1)..Len(queue)
    BY <1>1
  <2> QED
    BY <2>1 DEF InQueue
<1>8. \A i, j \in DOMAIN queue : queue[i] = queue[j] => i = j
  BY DEF OneHome
<1>9. \A c \in Clients : Enqueued(c)' <=> Enqueued(c)
  BY DEF Enqueued, MakeRoom
<1>10. \A c \in Clients : Enqueued(c)' <=> InQueue(c)' \/ InRoom(c)'
  BY <1>5, <1>6, <1>7, <1>9 DEF OneHome
<1>11. \A c \in Clients : ~(InQueue(c)' /\ InRoom(c)')
  <2> SUFFICES ASSUME NEW c \in Clients, InQueue(c)', InRoom(c)'
               PROVE  FALSE
    OBVIOUS
  <2>1. PICK i \in (RoomSize + 1)..Len(queue) : queue[i] = c
    BY <1>5
  <2>2. InQueue(c) /\ ~InRoom(c)
    BY <1>7, <2>1 DEF OneHome
  <2>3. PICK k \in 1..RoomSize : queue[k] = c
    BY <1>6, <2>2
  <2>4. i \in DOMAIN queue /\ k \in DOMAIN queue /\ i # k
    BY <1>1
  <2> QED
    BY <1>8, <2>1, <2>3, <2>4
<1>12. \A i, j \in DOMAIN queue' : queue'[i] = queue'[j] => i = j
  <2> SUFFICES ASSUME NEW i \in DOMAIN queue', NEW j \in DOMAIN queue',
                      queue'[i] = queue'[j]
               PROVE  i = j
    OBVIOUS
  <2>1. queue[RoomSize + i] = queue[RoomSize + j]
    BY <1>2
  <2>2. RoomSize + i \in DOMAIN queue /\ RoomSize + j \in DOMAIN queue
    BY <1>1, <1>2
  <2>3. RoomSize + i = RoomSize + j
    BY <1>8, <2>1, <2>2
  <2> QED
    BY <1>1, <1>2, <2>3
<1>13. \A r, s \in DOMAIN rooms', k, l \in 1..RoomSize :
         rooms'[r][k] = rooms'[s][l] => r = s /\ k = l
  <2> SUFFICES ASSUME NEW r \in DOMAIN rooms', NEW s \in DOMAIN rooms',
                      NEW k \in 1..RoomSize, NEW l \in 1..RoomSize,
                      rooms'[r][k] = rooms'[s][l]
               PROVE  r = s /\ k = l
    OBVIOUS
  <2>1. CASE r \in DOMAIN rooms /\ s \in DOMAIN rooms
    BY <1>4, <2>1 DEF OneHome
  <2>2. CASE r = Len(rooms) + 1 /\ s = Len(rooms) + 1
    <3>1. queue[k] = queue[l]
      BY <1>4, <2>2
    <3>2. k \in DOMAIN queue /\ l \in DOMAIN queue
      BY <1>1
    <3> QED
      BY <1>8, <2>2, <3>1, <3>2
  <2>3. ASSUME NEW t \in DOMAIN rooms, NEW m \in 1..RoomSize,
               NEW n \in 1..RoomSize, rooms[t][m] = queue[n]
        PROVE  FALSE
    <3>1. queue[n] \in Clients
      BY <1>1, ElementOfSeq
    <3>2. InQueue(queue[n])
      BY <1>1 DEF InQueue
    <3>3. InRoom(queue[n])
      BY <2>3 DEF InRoom
    <3> QED
      BY <3>1, <3>2, <3>3 DEF OneHome
  <2>4. CASE r \in DOMAIN rooms /\ s = Len(rooms) + 1
    <3>1. rooms[r][k] = queue[l]
      BY <1>4, <2>4
    <3> QED
      BY <2>3, <2>4, <3>1
  <2>5. CASE r = Len(rooms) + 1 /\ s \in DOMAIN rooms
    <3>1. rooms[s][l] = queue[k]
      BY <1>4, <2>5
    <3> QED
      BY <2>3, <2>5, <3>1
  <2> QED
    BY <1>3, <1>4, <2>1, <2>2, <2>4, <2>5
<1> QED
  BY <1>10, <1>11, <1>12, <1>13 DEF OneHome
-----------------------------------------------------------------------------
(* server_handle_disconnection finds nothing: the clients of a room are    *)
(* not in the queue, and nobody in the queue has the same descriptor.      *)
LEMMA NotFound ==
  ASSUME IInv, NEW r \in DOMAIN rooms, HandleDisconnection(r)
  PROVE  UNCHANGED <<queue, openFds, freed>>
<1> USE DEF IInv
<1> DEFINE c == rooms[r][game[r].slot]
<1>1. game[r] \in GameThreads /\ rooms[r] \in Rooms
  BY LenProperties, ElementOfSeq DEF TypeOK
<1>2. game[r].slot \in 1..RoomSize /\ c \in Clients
  BY <1>1 DEF GameThreads, Rooms
<1>3. InRoom(c)
  BY <1>2 DEF InRoom
<1>4. Enqueued(c) /\ ~InQueue(c)
  BY <1>2, <1>3 DEF OneHome
<1>5. fd[c] # NoFd
  BY <1>2, <1>4 DEF Enqueued, Stages
<1>6. ASSUME NEW j \in DOMAIN queue
      PROVE  fd[queue[j]] # fd[c]
  <2>1. queue[j] \in Clients
    BY LenProperties, ElementOfSeq DEF TypeOK
  <2>2. queue[j] # c
    BY <1>4 DEF InQueue
  <2> QED
    BY <1>2, <1>5, <2>1, <2>2 DEF FdsDistinct
<1>7. Positions(c) = {}
  BY <1>6 DEF Positions
<1>8. ForgetClient(c)
  BY DEF HandleDisconnection
<1> QED
  BY <1>7, <1>8 DEF ForgetClient

LEMMA InitIInv == Init => IInv
<1> SUFFICES ASSUME Init PROVE IInv
  OBVIOUS
<1> USE DEF Init
<1>1. DOMAIN queue = {} /\ DOMAIN rooms = {}
  BY EmptySeq, LenProperties
<1>2. TypeOK
  BY EmptySeq, MatchmakingAssumption DEF TypeOK, Free
<1>3. MutexOwner
  BY DEF MutexOwner, Free
<1>4. FdsDistinct
  BY DEF FdsDistinct
<1>5. Stages
  BY DEF Stages
<1>6. OneHome
  BY <1>1 DEF OneHome, Enqueued, InQueue, InRoom
<1> QED
  BY <1>2, <1>3, <1>4, <1>5, <1>6 DEF IInv

(* TypeOK is preserved; freed and openFds are where ForgetClient matters.  *)
LEMMA StepTypeOK ==
  ASSUME IInv, Next
  PROVE  TypeOK'
<1> USE DEF TypeOK
<1>0. TypeOK
  BY DEF IInv
<1>1. CASE Enqueue
  <2>1. current \in Clients
    BY <1>1 DEF IInv, Stages, Enqueue
  <2>2. queue' \in Seq(Clients)
    BY <1>0, <1>1, <2>1, AppendProperties DEF Enqueue
  <2> QED
    BY <1>0, <1>1, <2>2 DEF Enqueue
<1>2. CASE PrintQueue
  BY <1>0, <1>2 DEF PrintQueue
<1>3. CASE Spawn
  BY <1>0, <1>3 DEF Spawn
<1>4. CASE Lock
  BY <1>0, <1>4 DEF Lock, WaitOrScan
<1>5. CASE SpuriousWakeup
  BY <1>0, <1>5 DEF SpuriousWakeup
<1>6. CASE MakeRoom
  <2> DEFINE front == SubSeq(queue, 1, RoomSize)
             new == [pc |-> "running", slot |-> 1]
  <2>1. front \in Rooms /\ queue' \in Seq(Clients)
    BY <1>0, <1>6, FrontAndRest DEF MakeRoom
  <2>2. new \in GameThreads
    BY MatchmakingAssumption DEF GameThreads, MatchmakingAssumption
  <2>3. rooms' = Append(rooms, front) /\ game' = Append(game, new)
    BY <1>6 DEF MakeRoom
  <2> HIDE DEF front, new
  <2>4. rooms' \in Seq(Rooms) /\ Len(rooms') = Len(rooms) + 1
    BY <1>0, <2>1, <2>3, AppendProperties
  <2>5. game' \in Seq(GameThreads) /\ Len(game') = Len(game) + 1
    BY <1>0, <2>2, <2>3, AppendProperties
  <2> QED
    BY <1>0, <1>6, <2>1, <2>4, <2>5 DEF MakeRoom
<1>7. CASE RoomAllocFails
  BY <1>0, <1>7 DEF RoomAllocFails
<1>8. CASE Unlock
  BY <1>0, <1>8 DEF Unlock
<1>9. ASSUME NEW c \in Clients, Accept(c)
      PROVE  TypeOK'
  <2>1. LowestFd \in Fds
    BY <1>9, LowestFdOpen DEF Accept
  <2> QED
    BY <1>0, <1>9, <2>1 DEF Accept
<1>10. ASSUME NEW c \in Clients, Signal(c)
       PROVE  TypeOK'
  BY <1>0, <1>10 DEF Signal
<1>11. ASSUME NEW c \in MayClose, PeerCloses(c)
       PROVE  TypeOK'
  BY <1>0, <1>11, MatchmakingAssumption
     DEF PeerCloses, MatchmakingAssumption
<1>12. ASSUME NEW r \in DOMAIN rooms, NEW g \in GameThreads,
              game' = [game EXCEPT ![r] = g]
       PROVE  game' \in Seq(GameThreads) /\ Len(game') = Len(game)
  <2>1. r \in 1..Len(game)
    BY <1>0, LenProperties
  <2> QED
    BY <1>0, <1>12, <2>1, ExceptSeq
<1>13. ASSUME NEW r \in DOMAIN rooms, HandleDisconnection(r)
       PROVE  TypeOK'
  <2>1. UNCHANGED <<queue, openFds, freed>>
    BY <1>13, NotFound
  <2>2. game[r] \in GameThreads
    BY <1>0, LenProperties, ElementOfSeq
  <2>3. [game[r] EXCEPT !.pc = "over"] \in GameThreads
    BY <2>2 DEF GameThreads
  <2>4. game' = [game EXCEPT ![r] = [game[r] EXCEPT !.pc = "over"]]
    BY <1>13 DEF HandleDisconnection
  <2>5. game' \in Seq(GameThreads) /\ Len(game') = Len(game)
    BY <1>12, <2>3, <2>4
  <2> QED
    BY <1>0, <1>13, <2>1, <2>5 DEF HandleDisconnection
<1>14. ASSUME NEW r \in DOMAIN rooms, NEW k \in 1..RoomSize, SendFails(r, k)
       PROVE  TypeOK'
  <2>1. [pc |-> "leaving", slot |-> k] \in GameThreads
    BY DEF GameThreads
  <2>2. game' \in Seq(GameThreads) /\ Len(game') = Len(game)
    BY <1>12, <1>14, <2>1 DEF SendFails
  <2> QED
    BY <1>0, <1>14, <2>2 DEF SendFails
<1> QED
  BY <1>1, <1>2, <1>3, <1>4, <1>5, <1>6, <1>7, <1>8, <1>9, <1>10, <1>11,
     <1>13, <1>14 DEF Next

(* Only the matcher's own steps touch what MutexOwner relates.             *)
LEMMA StepMutexOwner ==
  ASSUME IInv, Next
  PROVE  MutexOwner'
<1> USE DEF MutexOwner, Free, MutexFree
<1>0. MutexOwner
  BY DEF IInv
<1>1. CASE Lock \/ Unlock \/ MakeRoom \/ RoomAllocFails \/ SpuriousWakeup
  BY <1>0, <1>1
     DEF Lock, WaitOrScan, Unlock, MakeRoom, RoomAllocFails, SpuriousWakeup
<1>2. CASE Enqueue \/ PrintQueue \/ Spawn
  BY <1>0, <1>2 DEF Enqueue, PrintQueue, Spawn
<1>3. ASSUME NEW c \in Clients, Signal(c)
      PROVE  MutexOwner'
  BY <1>0, <1>3 DEF Signal
<1>4. ASSUME NEW c \in Clients, Accept(c) \/ PeerCloses(c)
      PROVE  MutexOwner'
  BY <1>0, <1>4 DEF Accept, PeerCloses
<1>5. ASSUME NEW r \in DOMAIN rooms, HandleDisconnection(r)
      PROVE  MutexOwner'
  BY <1>0, <1>5 DEF HandleDisconnection
<1>6. ASSUME NEW r \in DOMAIN rooms, NEW k \in 1..RoomSize, SendFails(r, k)
      PROVE  MutexOwner'
  BY <1>0, <1>6 DEF SendFails
<1> QED
  BY <1>1, <1>2, <1>3, <1>4, <1>5, <1>6, MatchmakingAssumption
     DEF Next, MatchmakingAssumption

(* What every step but the accept loop's own and Signal leave alone.       *)
Quiet == UNCHANGED <<acceptor, current, conn, fd, openFds, freed>>

LEMMA QuietSteps ==
  ASSUME IInv,
         \/ Lock \/ SpuriousWakeup \/ MakeRoom \/ RoomAllocFails \/ Unlock
         \/ \E c \in MayClose : PeerCloses(c)
         \/ \E r \in DOMAIN rooms :
              HandleDisconnection(r) \/ \E k \in 1..RoomSize : SendFails(r, k)
  PROVE  Quiet
<1> USE DEF Quiet
<1>1. CASE Lock \/ SpuriousWakeup \/ MakeRoom \/ RoomAllocFails \/ Unlock
  BY <1>1 DEF Lock, SpuriousWakeup, MakeRoom, RoomAllocFails, Unlock
<1>2. ASSUME NEW c \in MayClose, PeerCloses(c)
      PROVE  Quiet
  BY <1>2 DEF PeerCloses
<1>3. ASSUME NEW r \in DOMAIN rooms, HandleDisconnection(r)
      PROVE  Quiet
  BY <1>3, NotFound DEF HandleDisconnection
<1>4. ASSUME NEW r \in DOMAIN rooms, NEW k \in 1..RoomSize, SendFails(r, k)
      PROVE  Quiet
  BY <1>4 DEF SendFails
<1> QED
  BY <1>1, <1>2, <1>3, <1>4

LEMMA QuietKeeps ==
  ASSUME IInv, Quiet
  PROVE  FdsDistinct' /\ Stages' /\ (freed = {})'
BY DEF IInv, Quiet, FdsDistinct, Stages

(* Every step keeps the descriptors apart, the accept loop at its stage,   *)
(* each client at home and every client_t allocated.                       *)
Rest == FdsDistinct /\ Stages /\ OneHome /\ freed = {}

LEMMA StepRest ==
  ASSUME IInv, Next
  PROVE  Rest'
<1> USE DEF Rest
<1>0. /\ TypeOK /\ MutexOwner /\ FdsDistinct /\ Stages /\ OneHome
      /\ freed = {}
  BY DEF IInv
<1>1. CASE Enqueue
  <2>1. FdsDistinct'
    BY <1>0, <1>1 DEF FdsDistinct, Enqueue
  <2>2. Stages'
    BY <1>0, <1>1 DEF Stages, Enqueue
  <2>3. OneHome'
    BY <1>1, EnqueueKeepsHomes
  <2> QED
    BY <1>0, <1>1, <2>1, <2>2, <2>3 DEF Enqueue
<1>2. CASE PrintQueue
  <2>1. FdsDistinct' /\ Stages'
    BY <1>0, <1>2 DEF FdsDistinct, Stages, PrintQueue
  <2>2. OneHome'
    BY <1>0, <1>2, HomesUnchanged DEF PrintQueue, Enqueued
  <2> QED
    BY <1>0, <1>2, <2>1, <2>2 DEF PrintQueue
<1>3. CASE Spawn
  <2>1. current \in Clients /\ fd[current] # NoFd
    BY <1>0, <1>3 DEF Stages, Spawn
  <2>2. \A c \in Clients : conn'[c] # "none" <=> conn[c] # "none" \/ c = current
    BY <1>0, <1>3, <2>1 DEF TypeOK, Spawn
  <2>3. FdsDistinct' /\ Stages'
    BY <1>0, <1>3, <2>1, <2>2 DEF FdsDistinct, Stages, Spawn
  <2>4. \A c \in Clients : Enqueued(c)' <=> Enqueued(c)
    BY <1>3, <2>2 DEF Enqueued, Spawn
  <2>5. OneHome'
    BY <1>0, <1>3, <2>4, HomesUnchanged DEF Spawn
  <2> QED
    BY <1>0, <1>3, <2>3, <2>5 DEF Spawn
<1>4. ASSUME NEW c \in Clients, Accept(c)
      PROVE  Rest'
  <2>1. LowestFd \in Fds \ openFds /\ LowestFd # NoFd
    BY <1>4, LowestFdOpen, MatchmakingAssumption
       DEF Accept, NoFd, MatchmakingAssumption
  <2>2. fd' = [fd EXCEPT ![c] = LowestFd] /\ openFds' = openFds \cup {LowestFd}
    BY <1>4 DEF Accept
  <2>3. fd'[c] = LowestFd /\ \A d \in Clients : d # c => fd'[d] = fd[d]
    BY <1>0, <2>2 DEF TypeOK
  <2>4. FdsDistinct'
    BY <1>0, <2>1, <2>2, <2>3 DEF FdsDistinct
  <2>5. fd[c] = NoFd /\ conn[c] = "none" /\ acceptor = "accept"
    BY <1>0, <1>4 DEF Accept, Stages
  <2>6. Stages'
    BY <1>0, <1>4, <2>1, <2>3, <2>5 DEF Stages, Accept
  <2>7. \A d \in Clients : Enqueued(d)' <=> Enqueued(d)
    BY <1>4 DEF Enqueued, Accept
  <2>8. OneHome'
    BY <1>0, <1>4, <2>7, HomesUnchanged DEF Accept
  <2> QED
    BY <1>0, <1>4, <2>4, <2>6, <2>8 DEF Accept
<1>5. ASSUME NEW c \in Clients, Signal(c)
      PROVE  Rest'
  <2>1. \A d \in Clients : conn'[d] # "none" <=> conn[d] # "none"
    BY <1>0, <1>5 DEF TypeOK, Signal
  <2>2. acceptor # "accept" => conn'[current] = "none"
    BY <1>0, <1>5, <2>1 DEF Stages, Signal
  <2>3. FdsDistinct' /\ Stages'
    BY <1>0, <1>5, <2>1, <2>2 DEF FdsDistinct, Stages, Signal
  <2>4. OneHome'
    BY <1>0, <1>5, <2>1, HomesUnchanged DEF Enqueued, Signal
  <2> QED
    BY <1>0, <1>5, <2>3, <2>4 DEF Signal
<1>6. CASE MakeRoom
  BY <1>6, QuietSteps, QuietKeeps, MakeRoomKeepsHomes
<1>7. ASSUME \/ Lock \/ SpuriousWakeup \/ RoomAllocFails \/ Unlock
             \/ \E c \in MayClose : PeerCloses(c)
             \/ \E r \in DOMAIN rooms : HandleDisconnection(r)
             \/ \E r \in DOMAIN rooms, k \in 1..RoomSize : SendFails(r, k)
      PROVE  Rest'
  <2>1. Quiet
    BY <1>7, QuietSteps
  <2>2. UNCHANGED <<queue, rooms>>
    <3>1. CASE \E r \in DOMAIN rooms : HandleDisconnection(r)
      BY <3>1, NotFound DEF HandleDisconnection
    <3>2. CASE ~\E r \in DOMAIN rooms : HandleDisconnection(r)
      BY <1>7, <3>2 DEF Lock, SpuriousWakeup, RoomAllocFails, Unlock,
                        PeerCloses, SendFails
    <3> QED
      BY <3>1, <3>2
  <2>3. OneHome'
    BY <1>0, <2>1, <2>2, HomesUnchanged DEF Quiet, Enqueued
  <2> QED
    BY <2>1, <2>3, QuietKeeps
<1> QED
  BY <1>1, <1>2, <1>3, <1>4, <1>5, <1>6, <1>7 DEF Next

LEMMA StepIInv ==
  ASSUME IInv, [Next]_vars
  PROVE  IInv'
<1>1. CASE Next
  BY <1>1, StepRest, StepTypeOK, StepMutexOwner DEF IInv, Rest
<1>2. CASE UNCHANGED vars
  BY <1>2 DEF vars, IInv, TypeOK, MutexOwner, FdsDistinct, Stages,
              OneHome, Enqueued, InQueue, InRoom
<1> QED
  BY <1>1, <1>2

(* The invariant holds in every reachable state.                           *)
THEOREM Inductive == Spec => []IInv
BY InitIInv, StepIInv, PTL DEF Spec
-----------------------------------------------------------------------------
(* The types, and the size of every room, are as declared.                 *)
THEOREM TypesHold == Spec => []TypeOK
<1>1. IInv => TypeOK
  BY DEF IInv
<1> QED
  BY Inductive, <1>1, PTL

(* A queued client is in the queue or in one slot of one room.             *)
THEOREM EveryClientHasOneHome == Spec => []OneHome
<1>1. IInv => OneHome
  BY DEF IInv
<1> QED
  BY Inductive, <1>1, PTL

(* The descriptors of queued and matched clients are open and distinct.    *)
THEOREM IdsStayDistinct == Spec => []IdsDistinct
<1>1. IInv => IdsDistinct
  <2> SUFFICES ASSUME IInv PROVE IdsDistinct
    OBVIOUS
  <2>1. ASSUME NEW c \in Clients, Enqueued(c)
        PROVE  fd[c] # NoFd
    BY <2>1 DEF IInv, Stages, Enqueued
  <2> QED
    BY <2>1 DEF IInv, FdsDistinct, IdsDistinct
<1> QED
  BY Inductive, <1>1, PTL

(* No client_t is read after it has been freed.                            *)
THEOREM ClientsStayAllocated == Spec => []NoUseAfterFree
<1>1. IInv => NoUseAfterFree
  BY DEF IInv, NoUseAfterFree
<1> QED
  BY Inductive, <1>1, PTL

(* No step closes a descriptor.                                            *)
THEOREM NothingIsClosed == Spec => DescriptorsNeverClosed
<1>1. ASSUME IInv, [Next]_vars
      PROVE  openFds \subseteq openFds'
  <2>1. CASE Enqueue \/ PrintQueue \/ Spawn
    BY <2>1 DEF Enqueue, PrintQueue, Spawn
  <2>2. ASSUME NEW c \in Clients, Accept(c) \/ Signal(c)
        PROVE  openFds \subseteq openFds'
    BY <2>2 DEF Accept, Signal
  <2>3. CASE UNCHANGED vars
    BY <2>3 DEF vars
  <2> QED
    BY <1>1, <2>1, <2>2, <2>3, QuietSteps DEF Next, Quiet
<1> QED
  BY Inductive, <1>1, PTL DEF Spec, DescriptorsNeverClosed

(* After the matcher has died nothing enters or leaves the queue again, and*)
(* no game gets past a failed send.                                        *)
THEOREM DeadMatcherFreezes == Spec => DeadMatcherFreezesQueue
<1> DEFINE Frozen == /\ UNCHANGED <<queue, rooms, matcher>>
                     /\ \A r \in DOMAIN rooms : ~GameGetsOver(r)
<1>1. ASSUME IInv, [Next]_vars, matcher = "dead"
      PROVE  Frozen
  <2>1. ~MutexFree
    BY <1>1 DEF IInv, MutexOwner, MutexFree, Free
  <2>2. ~Enqueue /\ ~Lock /\ ~MakeRoom /\ ~Unlock /\ ~RoomAllocFails
    BY <1>1, <2>1 DEF Enqueue, Lock, MakeRoom, Unlock, RoomAllocFails
  <2>3. CASE PrintQueue \/ Spawn \/ SpuriousWakeup
    BY <1>1, <2>1, <2>3 DEF PrintQueue, Spawn, SpuriousWakeup, GameGetsOver
  <2>4. ASSUME NEW c \in Clients, Accept(c) \/ Signal(c) \/ PeerCloses(c)
        PROVE  Frozen
    BY <1>1, <2>4 DEF Accept, Signal, PeerCloses, GameGetsOver
  <2>5. ASSUME NEW r \in DOMAIN rooms, HandleDisconnection(r)
        PROVE  Frozen
    BY <2>1, <2>5 DEF HandleDisconnection
  <2>6. ASSUME NEW r \in DOMAIN rooms, NEW k \in 1..RoomSize, SendFails(r, k)
        PROVE  Frozen
    <3>1. UNCHANGED <<queue, rooms, matcher>>
      BY <2>6 DEF SendFails
    <3>2. game' = [game EXCEPT ![r] = [pc |-> "leaving", slot |-> k]]
      BY <2>6 DEF SendFails
    <3>3. game \in Seq(GameThreads) /\ DOMAIN game = 1..Len(game)
      BY <1>1 DEF IInv, TypeOK
    <3>4. ASSUME NEW s \in DOMAIN rooms PROVE ~GameGetsOver(s)
      <4>1. CASE s = r
        <5>1. r \in DOMAIN game => game'[r].pc = "leaving"
          BY <3>2
        <5>2. r \in DOMAIN game
          BY <1>1, <3>3 DEF IInv, TypeOK
        <5> QED
          BY <4>1, <5>1, <5>2 DEF GameGetsOver
      <4>2. CASE s # r
        <5>1. s \in DOMAIN game => game'[s] = game[s]
          BY <3>2, <4>2
        <5>2. s \in DOMAIN game
          BY <1>1, <3>3 DEF IInv, TypeOK
        <5> QED
          BY <5>1, <5>2 DEF GameGetsOver
      <4> QED
        BY <4>1, <4>2
    <3> QED
      BY <3>1, <3>4
  <2>7. CASE UNCHANGED vars
    BY <2>7 DEF vars, GameGetsOver
  <2> QED
    BY <1>1, <2>2, <2>3, <2>4, <2>5, <2>6, <2>7, MatchmakingAssumption
       DEF Next, MatchmakingAssumption
<1>2. IInv /\ [Next]_vars => (matcher = "dead" => Frozen)
  BY <1>1
<1> QED
  BY Inductive, <1>2, PTL DEF Spec, DeadMatcherFreezesQueue
-----------------------------------------------------------------------------
(* The steps that can end with the matcher asleep on a long enough queue   *)
(* are those that start so, and Enqueue, after which the newest client is  *)
(* the accept loop's current one.                                          *)
LEMMA StepNoLostWakeup ==
  ASSUME IInv, NoLostWakeup, [Next]_vars
  PROVE  NoLostWakeup'
<1> SUFFICES ASSUME matcher' = "waiting", Len(queue') >= RoomSize
             PROVE  LET newest == queue'[Len(queue')]
                    IN  \/ current' = newest /\ acceptor' \in {"print", "spawn"}
                        \/ conn'[newest] \in {"signal", "failed"}
  BY DEF NoLostWakeup
<1>0. /\ TypeOK /\ Stages /\ queue \in Seq(Clients) /\ Len(queue) \in Nat
      /\ RoomSize \in Nat \ {0}
  BY LenProperties, MatchmakingAssumption
     DEF IInv, TypeOK, MatchmakingAssumption
<1> DEFINE newest == queue[Len(queue)]
<1>1. CASE Enqueue
  <2>1. current \in Clients
    BY <1>0, <1>1 DEF Stages, Enqueue
  <2>2. queue'[Len(queue')] = current
    BY <1>0, <1>1, <2>1, AppendProperties DEF Enqueue
  <2> QED
    BY <1>1, <2>2 DEF Enqueue
<1>2. ASSUME queue' = queue, matcher = "waiting"
      PROVE  /\ newest \in Clients
             /\ \/ current = newest /\ acceptor \in {"print", "spawn"}
                \/ conn[newest] \in {"signal", "failed"}
  <2>1. Len(queue) \in 1..Len(queue) /\ Len(queue) >= RoomSize
    BY <1>0, <1>2
  <2> QED
    BY <1>0, <1>2, <2>1, ElementOfSeq DEF NoLostWakeup
<1>3. CASE PrintQueue
  BY <1>2, <1>3 DEF PrintQueue
<1>4. CASE Spawn
  <2>1. conn' \in [Clients -> {"none", "signal", "done", "failed"}]
        /\ conn'[current] \in {"signal", "failed"}
        /\ \A c \in Clients : c # current => conn'[c] = conn[c]
    BY <1>0, <1>4 DEF TypeOK, Stages, Spawn
  <2> QED
    BY <1>2, <1>4, <2>1 DEF Spawn
<1>5. ASSUME NEW c \in Clients, Accept(c)
      PROVE  conn'[queue'[Len(queue')]] \in {"signal", "failed"}
  BY <1>2, <1>5 DEF Accept
<1>6. ASSUME NEW c \in Clients, Signal(c)
      PROVE  FALSE
  BY <1>6 DEF Signal
<1>7. CASE Lock
  BY <1>0, <1>7 DEF Lock, WaitOrScan
<1>8. CASE SpuriousWakeup \/ MakeRoom \/ RoomAllocFails \/ Unlock
  BY <1>8 DEF SpuriousWakeup, MakeRoom, RoomAllocFails, Unlock
<1>9. CASE \/ \E c \in MayClose : PeerCloses(c)
           \/ \E r \in DOMAIN rooms, k \in 1..RoomSize : SendFails(r, k)
           \/ UNCHANGED vars
  BY <1>2, <1>9 DEF PeerCloses, SendFails, vars
<1>10. ASSUME NEW r \in DOMAIN rooms, HandleDisconnection(r)
       PROVE  \/ current' = queue'[Len(queue')] /\ acceptor' \in {"print", "spawn"}
              \/ conn'[queue'[Len(queue')]] \in {"signal", "failed"}
  BY <1>2, <1>10, NotFound DEF HandleDisconnection
<1> QED
  BY <1>1, <1>3, <1>4, <1>5, <1>6, <1>7, <1>8, <1>9, <1>10 DEF Next

(* The matcher does not sleep through the last signal that it needs.       *)
THEOREM WakeupsAreNotLost == Spec => []NoLostWakeup
<1>1. Init => NoLostWakeup
  BY DEF Init, NoLostWakeup
<1> QED
  BY Inductive, <1>1, StepNoLostWakeup, PTL DEF Spec
-----------------------------------------------------------------------------
(* Every step of matchmaking is a step of Pairing or leaves the queue and  *)
(* the rooms alone.                                                        *)
LEMMA StepPairing ==
  ASSUME IInv, [Next]_vars
  PROVE  [P!Next]_<<queue, rooms>>
<1>1. CASE Enqueue
  <2>1. current \in Clients /\ ~Enqueued(current)
    BY <1>1 DEF IInv, Stages, Enqueue, Enqueued
  <2>2. ~InQueue(current) /\ ~InRoom(current)
    BY <2>1 DEF IInv, OneHome
  <2>3. P!Arrive(current)
    BY <1>1, <2>2 DEF P!Arrive, P!Waiting, P!InRoom, InQueue, InRoom, Enqueue
  <2> QED
    BY <2>1, <2>3 DEF P!Next
<1>2. CASE MakeRoom
  BY <1>2 DEF MakeRoom, P!OpenRoom, P!Next
<1>3. CASE PrintQueue \/ Spawn \/ Lock \/ SpuriousWakeup \/ RoomAllocFails \/ Unlock
  BY <1>3 DEF PrintQueue, Spawn, Lock, SpuriousWakeup, RoomAllocFails, Unlock
<1>4. ASSUME NEW c \in Clients, Accept(c) \/ Signal(c) \/ PeerCloses(c)
      PROVE  UNCHANGED <<queue, rooms>>
  BY <1>4 DEF Accept, Signal, PeerCloses
<1>5. ASSUME NEW r \in DOMAIN rooms, HandleDisconnection(r)
      PROVE  UNCHANGED <<queue, rooms>>
  BY <1>5, NotFound DEF HandleDisconnection
<1>6. ASSUME NEW r \in DOMAIN rooms, NEW k \in 1..RoomSize, SendFails(r, k)
      PROVE  UNCHANGED <<queue, rooms>>
  BY <1>6 DEF SendFails
<1>7. CASE UNCHANGED vars
  BY <1>7 DEF vars
<1> QED
  BY <1>1, <1>2, <1>3, <1>4, <1>5, <1>6, <1>7, MatchmakingAssumption
     DEF Next, MatchmakingAssumption

(* Matchmaking implements the safety part of Pairing: first come, first    *)
(* served, and nobody lost, whatever fails and whoever leaves.             *)
THEOREM ImplementsPairing == Spec => PairingSafe
<1>1. Init => P!Init
  BY DEF Init, P!Init
<1> QED
  BY Inductive, <1>1, StepPairing, PTL
     DEF Spec, PairingSafe, P!SafeSpec, P!pairingVars
=============================================================================
