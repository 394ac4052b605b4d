-------------------------- MODULE PongInputProofs --------------------------
(***************************************************************************)
(* No input is lost or counted twice until the first goal of a game of one *)
(* room, for any buffers and numbers of frames, ticks and exits.           *)
(***************************************************************************)
EXTENDS PongSyncProofs, WellFoundedInduction, SequenceTheorems

(* A nonempty set of naturals has a least element: what induction over the *)
(* length of a sequence rests on below.                                    *)
LEMMA LeastNat ==
  ASSUME NEW T \in SUBSET Nat, T # {}
  PROVE  \E n \in T : \A m \in T : n <= m
<1> DEFINE R == {ss \in Nat \X Nat : ss[1] < ss[2]}
<1>1. R = OpToRel(<, Nat)
  BY DEF OpToRel
<1>2. IsWellFoundedOn(R, Nat)
  BY <1>1, NatLessThanWellFounded
<1>3. \E n \in T : \A m \in T : ~(<<m, n>> \in R)
  BY <1>2, WFMin
<1>4. \A m, n \in T : m < n => <<m, n>> \in R
  OBVIOUS
<1>5. \A m, n \in T : n <= m \/ m < n
  OBVIOUS
<1> QED
  BY <1>3, <1>4, <1>5, Zenon

(* The sums that InputsIn goes through: of the first i of s, up to n.      *)
Sums(f, s, n) == f = [i \in 0..n |-> IF i = 0 THEN 0 ELSE f[i - 1] + s[i].acc]

LEMMA InputsAre ==
  ASSUME NEW s
  PROVE  InputsIn(s) = (CHOOSE f : Sums(f, s, Len(s)))[Len(s)]
BY Zenon DEF InputsIn, Sums

LEMMA SumsAt ==
  ASSUME NEW f, NEW s, NEW n \in Nat, Sums(f, s, n), NEW i \in 0..n
  PROVE  f[i] = IF i = 0 THEN 0 ELSE f[i - 1] + s[i].acc
<1> DEFINE e(j) == IF j = 0 THEN 0 ELSE f[j - 1] + s[j].acc
<1>1. f = [j \in 0..n |-> e(j)]
  BY DEF Sums
<1> HIDE DEF e
<1>2. f[i] = e(i)
  BY <1>1
<1> QED
  BY <1>2 DEF e

LEMMA SumsExist ==
  ASSUME NEW s, NEW n \in Nat
  PROVE  \E f : Sums(f, s, n)
<1> DEFINE T == {k \in Nat : ~(\E f : Sums(f, s, k))}
<1> SUFFICES ASSUME T # {} PROVE FALSE
  OBVIOUS
<1>1. PICK k \in T : \A j \in T : k <= j
  BY LeastNat
<1>2. k # 0
  <2> DEFINE f == [i \in 0..0 |-> 0]
  <2>1. Sums(f, s, 0)
    BY DEF Sums
  <2> QED
    BY <2>1
<1>3. PICK f : Sums(f, s, k - 1)
  BY <1>1, <1>2
<1> DEFINE g == [i \in 0..k |-> IF i = 0 THEN 0 ELSE f[i - 1] + s[i].acc]
<1>4. ASSUME NEW i \in 0..(k - 1) PROVE f[i] = g[i]
  <2>1. f[i] = IF i = 0 THEN 0 ELSE f[i - 1] + s[i].acc
    BY <1>2, <1>3, SumsAt
  <2> QED
    BY <1>2, <2>1
<1>5. Sums(g, s, k)
  <2>1. ASSUME NEW i \in 0..k
        PROVE  g[i] = IF i = 0 THEN 0 ELSE g[i - 1] + s[i].acc
    <3>1. i # 0 => i - 1 \in 0..(k - 1)
      BY <1>1, <1>2
    <3> QED
      BY <1>4, <3>1
  <2> HIDE DEF g
  <2>2. g = [i \in 0..k |-> g[i]]
    BY DEF g
  <2> QED
    BY <2>1, <2>2 DEF Sums
<1> QED
  BY <1>1, <1>5

LEMMA SumsAgree ==
  ASSUME NEW s, NEW t, NEW m \in Nat, NEW n \in Nat, m <= n,
         \A i \in 1..m : s[i] = t[i],
         NEW f, Sums(f, s, m), NEW g, Sums(g, t, n)
  PROVE  f[m] = g[m]
<1> DEFINE T == {i \in 0..m : f[i] # g[i]}
<1>1. CASE T = {}
  BY <1>1
<1>2. CASE T # {}
  <2>1. PICK k \in T : \A j \in T : k <= j
    <3>1. T \in SUBSET Nat
      OBVIOUS
    <3> HIDE DEF T
    <3> QED
      BY <1>2, <3>1, LeastNat
  <2>2. /\ f[k] = IF k = 0 THEN 0 ELSE f[k - 1] + s[k].acc
        /\ g[k] = IF k = 0 THEN 0 ELSE g[k - 1] + t[k].acc
    BY SumsAt
  <2>3. k # 0 => k \in 1..m /\ k - 1 \in 0..m /\ f[k - 1] = g[k - 1]
    BY <2>1
  <2> QED
    BY <2>2, <2>3
<1> QED
  BY <1>1, <1>2

(* InputsIn, taken apart at the end, where a client adds to it.            *)
LEMMA NoInputs == InputsIn(<<>>) = 0
<1> DEFINE f == CHOOSE f : Sums(f, <<>>, 0)
<1>1. Sums(f, <<>>, 0)
  BY SumsExist
<1> HIDE DEF f
<1>2. f[0] = 0
  BY <1>1, SumsAt
<1>3. Len(<<>>) = 0
  OBVIOUS
<1> QED
  BY <1>2, <1>3, InputsAre DEF f

LEMMA InputsAppended ==
  ASSUME NEW s \in Seq(Input), NEW p \in Input
  PROVE  InputsIn(Append(s, p)) = InputsIn(s) + p.acc
<1> DEFINE n == Len(s)
           m == n + 1
           t == Append(s, p)
           f == CHOOSE f : Sums(f, s, n)
           g == CHOOSE g : Sums(g, t, m)
<1>1. /\ n \in Nat /\ m \in Nat /\ n <= m /\ m # 0 /\ m - 1 = n /\ m \in 0..m
      /\ Len(t) = m /\ t[m] = p /\ \A i \in 1..n : s[i] = t[i]
  BY AppendProperties
<1>2. InputsIn(s) = f[n] /\ InputsIn(t) = g[m]
  BY <1>1, InputsAre
<1>3. Sums(f, s, n) /\ Sums(g, t, m)
  BY <1>1, SumsExist
<1> HIDE DEF n, m, t, f, g
<1>4. g[m] = g[n] + p.acc
  BY <1>1, <1>3, SumsAt
<1>5. f[n] = g[n]
  BY <1>1, <1>3, SumsAgree
<1> QED
  BY <1>2, <1>4, <1>5 DEF t

(* Induction over the packets: a shortest counterexample has a last one.   *)
LEMMA InputsType ==
  ASSUME NEW s \in Seq(Input)
  PROVE  InputsIn(s) \in Int
<1> DEFINE T == {n \in Nat : \E t \in Seq(Input) : Len(t) = n /\ InputsIn(t) \notin Int}
<1> SUFFICES ASSUME T # {} PROVE FALSE
  OBVIOUS
<1>1. PICK n \in T : \A m \in T : n <= m
  <2>1. T \in SUBSET Nat
    OBVIOUS
  <2> HIDE DEF T
  <2> QED
    BY <2>1, LeastNat
<1>2. PICK t \in Seq(Input) : Len(t) = n /\ InputsIn(t) \notin Int
  OBVIOUS
<1>3. t # <<>>
  BY <1>2, NoInputs
<1>4. PICK u \in Seq(Input), p \in Input : t = Append(u, p)
  BY <1>3, SequenceEmptyOrAppend
<1>5. Len(u) \in Nat /\ Len(t) = Len(u) + 1
  BY <1>4, AppendProperties
<1>6. InputsIn(u) \in Int
  <2>1. Len(u) \notin T
    <3> HIDE DEF T
    <3> QED
      BY <1>1, <1>2, <1>5
  <2> QED
    BY <1>5, <2>1
<1>7. InputsIn(t) = InputsIn(u) + p.acc /\ p.acc \in Int
  BY <1>4, InputsAppended DEF Input
<1> QED
  BY <1>2, <1>6, <1>7

(* And at the front, where the server takes from it.                       *)
LEMMA InputsTaken ==
  ASSUME NEW s \in Seq(Input), s # <<>>
  PROVE  InputsIn(s) = Head(s).acc + InputsIn(Tail(s))
<1> DEFINE P(t) == InputsIn(t) = Head(t).acc + InputsIn(Tail(t))
           T == {n \in Nat : \E t \in Seq(Input) : t # <<>> /\ Len(t) = n /\ ~P(t)}
<1> SUFFICES ASSUME T # {} PROVE FALSE
  OBVIOUS
<1>1. PICK n \in T : \A m \in T : n <= m
  <2>1. T \in SUBSET Nat
    OBVIOUS
  <2> HIDE DEF T
  <2> QED
    BY <2>1, LeastNat
<1>2. PICK t \in Seq(Input) : t # <<>> /\ Len(t) = n /\ ~P(t)
  OBVIOUS
<1>3. PICK u \in Seq(Input), p \in Input : t = Append(u, p)
  BY <1>2, SequenceEmptyOrAppend
<1>4. Len(u) \in Nat /\ Len(t) = Len(u) + 1
  BY <1>3, AppendProperties
<1>5. InputsIn(t) = InputsIn(u) + p.acc /\ p.acc \in Int /\ InputsIn(u) \in Int
  BY <1>3, InputsAppended, InputsType DEF Input
<1>6. CASE u = <<>>
  <2>1. Head(t) = p /\ Tail(t) = <<>>
    BY <1>3, <1>6
  <2>2. 0 + p.acc = p.acc + 0
    BY <1>5
  <2>3. P(t)
    BY <1>5, <1>6, <2>1, <2>2, NoInputs
  <2> QED
    BY <1>2, <2>3
<1>7. CASE u # <<>>
  <2>1. P(u)
    BY <1>1, <1>2, <1>4, <1>7
  <2>2. /\ Head(u) \in Input /\ Tail(u) \in Seq(Input)
        /\ Head(t) = Head(u) /\ Tail(t) = Append(Tail(u), p)
    BY <1>3, <1>7
  <2>3. InputsIn(Tail(t)) = InputsIn(Tail(u)) + p.acc /\ InputsIn(Tail(u)) \in Int
    BY <2>2, InputsAppended, InputsType
  <2>4. Head(u).acc \in Int
    BY <2>2 DEF Input
  <2> HIDE DEF T
  <2>5. \A a, b, x \in Int : (a + b) + x = a + (b + x)
    OBVIOUS
  <2> QED
    BY <1>2, <1>5, <2>1, <2>2, <2>3, <2>4, <2>5
<1> QED
  BY <1>6, <1>7
-----------------------------------------------------------------------------
CurrentInput == {i \in Input : i.sync = StartSync}
StatePacket == {p \in Packet : p.type = "STATE"}

(* Nothing has moved before the threads of the room run.  Until the first  *)
(* goal only state packets are made once they do, and all init packets say *)
(* what the game starts with.                                              *)
Opening(r) ==
  /\ game[r] # "ids" => playerIds = Seats[r]
  /\ receiver[r] # "off" => sender[r] # "off"
  /\ sender[r] = "off" => paddle = Zero
  /\ game[r] \in {"init1", "init2"} => packet[r].paddle = Zero
  /\ score = Zero =>
       /\ sync = StartSync
       /\ sender[r] # "sync"
       /\ sender[r] \in {"pack", "send1", "send2"} => packet[r].type = "STATE"

(* A client that has not started.                                          *)
Unstarted(c) ==
  /\ mine[c] = 0 /\ frame[c] = "input" /\ net[c] = "tick" /\ acc[c] = 0
  /\ toServer[c] = <<>>
  /\ toClient[c] # <<>> => /\ Head(toClient[c]).sync = StartSync
                           /\ Head(toClient[c]).paddle = Zero

(* A client in the first round: all it sends is under the first sync.      *)
Started(c) ==
  /\ csync[c] = StartSync /\ rcv[c] = "recv"
  /\ toServer[c] \in Seq(CurrentInput)
  /\ net[c] = "send" => out[c].sync = StartSync

(* FirstRoundExact, of one seat.                                           *)
Shown(c) == mine[c] + (IF frame[c] = "move" THEN dir[c] ELSE 0)
Moved(r, k) == IF sender[r] = "advance" THEN moved[r][k] ELSE paddle[k]
Leaving(c) == (IF net[c] = "send" THEN out[c].acc ELSE 0) + acc[c]
Held(r, k, c) ==
  Moved(r, k) + inputAcc[k] + InReceiver(r, k) + InputsIn(toServer[c])
Exact(r, k, c) == Shown(c) = Held(r, k, c) + Leaving(c)

FirstRound(r, k, c) ==
  /\ app[c] = "connect" => Unstarted(c)
  /\ app[c] = "run" => Started(c)
  /\ Live(c) => Rest(c) \in Seq(StatePacket)
  /\ app[c] \in {"connect", "run"} => Exact(r, k, c)

IInv(r) ==
  /\ Game(r) /\ Opening(r)
  /\ score = Zero => \A k \in Seat : FirstRound(r, k, Seats[r][k])
-----------------------------------------------------------------------------
LEMMA AmountTypes ==
  ASSUME Types, NEW r \in Rooms, NEW k \in Seat, NEW c \in Clients
  PROVE  /\ Moved(r, k) \in Int /\ inputAcc[k] \in Int /\ InReceiver(r, k) \in Int
         /\ InputsIn(toServer[c]) \in Int /\ Held(r, k, c) \in Int
         /\ mine[c] \in Int /\ dir[c] \in Int /\ acc[c] \in Int /\ out[c].acc \in Int
<1>1. paddle[k] \in Int /\ moved[r][k] \in Int /\ inputAcc[k] \in Int /\ got[r].acc \in Int
  BY DEF Types, ServerTypes, ServerTypeOK, Input
<1>2. 0 \in Int /\ -1..1 \subseteq Int
  OBVIOUS
<1>3. mine[c] \in Int /\ dir[c] \in Int /\ acc[c] \in Int /\ out[c].acc \in Int
  BY <1>2 DEF Types, ClientTypes, ClientTypeOK, Input
<1>4. Moved(r, k) \in Int /\ InReceiver(r, k) \in Int
  BY <1>1, <1>2 DEF Moved, InReceiver
<1>5. InputsIn(toServer[c]) \in Int
  BY InputsType DEF Types, NetTypes
<1> QED
  BY <1>1, <1>3, <1>4, <1>5 DEF Held

(* A step that leaves each part of a sum alone, or moves it to another.    *)
LEMMA HeldSame ==
  ASSUME NEW r, NEW k, NEW c,
         Moved(r, k)' = Moved(r, k), inputAcc'[k] = inputAcc[k],
         InReceiver(r, k)' = InReceiver(r, k), toServer'[c] = toServer[c]
  PROVE  Held(r, k, c)' = Held(r, k, c)
BY DEF Held, InputsIn

(* The score leaves zero once, with the first goal.                        *)
LEMMA ScoreGone ==
  ASSUME Types, Stages, NEW r \in Rooms, Round(r), Server(r), score' = Zero
  PROVE  score = Zero
<1>1. ASSUME NEW k \in Seat, Goal(r, k) PROVE FALSE
  <2>1. score'[k] = score[k] + 1 /\ score[k] \in Nat
    BY <1>1, RoomTypes DEF Goal
  <2>2. score'[k] = 0
    BY DEF Zero
  <2> QED
    BY <2>1, <2>2, SMT
<1> QED
  BY <1>1, ServerCounts

LEMMA OpeningServer ==
  ASSUME Types, Stages, NEW r \in Rooms, Round(r), Opening(r), Server(r)
  PROVE  Opening(r)'
<1> USE RoomTypes
<1>0. receiver \in [Rooms -> {"off", "check", "poll", "recv", "add", "done"}]
  BY DEF Types, ServerTypes, ServerTypeOK
<1>1. CASE StartPlayers(r)
  BY <1>1 DEF StartPlayers, Opening, Stages, Round
<1>2. CASE StartField(r)
  <2>1. packet'[r].paddle = Zero /\ paddle' = Zero /\ game'[r] = "init1" /\ sender[r] = "off"
    BY <1>2 DEF StartField, Stages
  <2>2. UNCHANGED <<playerIds, score, sync, sender, receiver>> /\ game[r] = "start"
    BY <1>2 DEF StartField
  <2> QED
    BY <2>1, <2>2 DEF Opening
<1>3. CASE SendInit(r)
  BY <1>0, <1>3 DEF SendInit, gameVars, Opening, Stages
<1>4. CASE SendInitFails(r)
  BY <1>4 DEF SendInitFails, gameVars, Opening, Stages
<1>5. CASE Join(r)
  BY <1>5 DEF Join, gameVars, Opening
<1>6. ASSUME SenderThread(r)
      PROVE  /\ UNCHANGED <<game, receiver, playerIds>>
             /\ game[r] \notin {"init1", "init2"} /\ sender'[r] # "off"
  BY <1>6 DEF SenderThread, TakeInput, AdvanceBall, Goal, BumpSync, Pack, Broadcast,
              BroadcastFails, gameVars, Stages
<1>7. ASSUME SenderThread(r), score' = Zero
      PROVE  /\ sync' = StartSync /\ sender'[r] # "sync"
             /\ sender'[r] \in {"pack", "send1", "send2"} => packet'[r].type = "STATE"
  <2>1. score = Zero
    BY <1>7, ScoreGone DEF Server
  <2>2. sync = StartSync /\ sender[r] # "sync"
        /\ (sender[r] \in {"pack", "send1", "send2"} => packet[r].type = "STATE")
    BY <2>1 DEF Opening
  <2>3. CASE TakeInput(r)
    BY <2>2, <2>3 DEF TakeInput
  <2>4. CASE AdvanceBall(r)
    <3>1. packet'[r] = [packet[r] EXCEPT !.type = "STATE"]
      BY <2>4 DEF AdvanceBall
    <3>2. packet'[r].type = "STATE"
      BY <3>1 DEF Packet
    <3> QED
      BY <2>2, <2>4, <3>2 DEF AdvanceBall
  <2>5. ~\E k \in Seat : Goal(r, k)
    <3>1. ASSUME NEW k \in Seat, Goal(r, k) PROVE FALSE
      <4>1. score'[k] = score[k] + 1 /\ score[k] = 0 /\ score'[k] = 0
        BY <1>7, <2>1, <3>1 DEF Goal, Zero
      <4> QED
        BY <4>1, SMT
    <3> QED
      BY <3>1
  <2>6. ~BumpSync(r)
    BY <2>2 DEF BumpSync
  <2>7. CASE Pack(r)
    <3>1. packet'[r].type = packet[r].type
      BY <2>7 DEF Pack
    <3> QED
      BY <2>2, <2>7, <3>1 DEF Pack, gameVars
  <2>8. CASE Broadcast(r)
    BY <2>2, <2>8 DEF Broadcast, gameVars
  <2>9. CASE BroadcastFails(r)
    BY <2>2, <2>9 DEF BroadcastFails, gameVars
  <2> QED
    BY <1>7, <2>3, <2>4, <2>5, <2>6, <2>7, <2>8, <2>9 DEF SenderThread
<1>8. CASE SenderThread(r)
  BY <1>6, <1>7, <1>8 DEF Opening
<1>9. CASE ReceiverThread(r)
  <2>1. UNCHANGED <<game, sender, packet, sync, score, playerIds, paddle>>
        /\ receiver[r] # "off"
    BY <1>9 DEF ReceiverThread, CheckDisbanded, Poll, RecvInput, RecvEnd, RecvError,
                AddInput, gameVars
  <2> QED
    BY <2>1 DEF Opening
<1> QED
  BY <1>1, <1>2, <1>3, <1>4, <1>5, <1>8, <1>9 DEF Server, GameThread
-----------------------------------------------------------------------------
(* The server keeps what it holds: in both halves of its tick, and from    *)
(* the packet to the accumulator.                                          *)
LEMMA GameHeld ==
  ASSUME Types, Stages, NEW r \in Rooms, Round(r), Opening(r), GameThread(r),
         NEW k \in Seat, NEW c \in Clients
  PROVE  Held(r, k, c)' = Held(r, k, c)
<1> USE RoomTypes
<1>1. UNCHANGED <<inputAcc, moved, ready, got>>
  BY DEF GameThread, StartPlayers, StartField, SendInit, SendInitFails, Join, gameVars
<1>2. toServer' = toServer
  BY DEF GameThread, StartPlayers, StartField, SendInit, SendInitFails, Join, ServerSend,
         ServerSendFails, netVars
<1>3. paddle' = paddle
  BY DEF GameThread, StartPlayers, StartField, SendInit, SendInitFails, Join, gameVars,
         Stages, Opening
<1>4. sender' = sender \/ (sender[r] = "off" /\ sender'[r] = "input")
  BY DEF GameThread, StartPlayers, StartField, SendInit, SendInitFails, Join, Stages
<1>5. receiver' = receiver \/ (receiver[r] = "off" /\ receiver'[r] = "check")
  <2>1. receiver \in [Rooms -> {"off", "check", "poll", "recv", "add", "done"}]
    BY DEF Types, ServerTypes, ServerTypeOK
  <2> QED
    BY <2>1 DEF GameThread, StartPlayers, StartField, SendInit, SendInitFails, Join, Stages,
                Opening
<1>6. Moved(r, k)' = Moved(r, k)
  BY <1>1, <1>3, <1>4 DEF Moved
<1>7. InReceiver(r, k)' = InReceiver(r, k)
  BY <1>1, <1>5 DEF InReceiver, Reading
<1> QED
  BY <1>1, <1>2, <1>6, <1>7, HeldSame

LEMMA DistanceIs == \A a \in Int : Distance(a) = a
BY SMT DEF Distance, Direction

LEMMA SenderHeld ==
  ASSUME Types, NEW r \in Rooms, Opening(r), SenderThread(r), score = Zero, score' = Zero,
         NEW k \in Seat, NEW c \in Clients
  PROVE  Held(r, k, c)' = Held(r, k, c)
<1> USE RoomTypes
<1>1. UNCHANGED <<receiver, ready, got>>
  BY DEF SenderThread, TakeInput, AdvanceBall, Goal, BumpSync, Pack, Broadcast,
         BroadcastFails
<1>2. toServer' = toServer
  BY DEF SenderThread, TakeInput, AdvanceBall, Goal, BumpSync, Pack, Broadcast,
         BroadcastFails, ServerSend, ServerSendFails, netVars
<1>3. InReceiver(r, k)' = InReceiver(r, k)
  BY <1>1 DEF InReceiver, Reading
<1>4. CASE TakeInput(r)
  <2>1. /\ Moved(r, k) = paddle[k] /\ inputAcc'[k] = 0
        /\ Moved(r, k)' = paddle[k] + Distance(inputAcc[k])
    <3>1. /\ sender[r] = "input" /\ sender'[r] = "advance" /\ inputAcc' = Zero
          /\ moved'[r] = [j \in Seat |-> paddle[j] + Distance(inputAcc[j])]
      BY <1>4 DEF TakeInput, Types, ServerTypes, ServerTypeOK
    <3> QED
      BY <3>1 DEF Moved, Zero
  <2>2. /\ paddle[k] \in Int /\ inputAcc[k] \in Int /\ InReceiver(r, k) \in Int
        /\ InputsIn(toServer[c]) \in Int
    BY <2>1, AmountTypes
  <2>3. Moved(r, k)' + inputAcc'[k] = Moved(r, k) + inputAcc[k]
    <3>1. Distance(inputAcc[k]) = inputAcc[k]
      BY <2>2, DistanceIs
    <3> QED
      BY <2>1, <2>2, <3>1, SMT
  <2>4. InputsIn(toServer[c])' = InputsIn(toServer[c])
    BY <1>2 DEF InputsIn
  <2> QED
    BY <1>3, <2>3, <2>4 DEF Held
<1>5. CASE AdvanceBall(r)
  <2>1. Moved(r, k)' = Moved(r, k) /\ inputAcc' = inputAcc
    BY <1>5 DEF AdvanceBall, Moved
  <2> QED
    BY <1>2, <1>3, <2>1, HeldSame
<1>6. ~\E j \in Seat : Goal(r, j)
  <2>1. ASSUME NEW j \in Seat, Goal(r, j) PROVE FALSE
    <3>1. score'[j] = score[j] + 1 /\ score[j] = 0 /\ score'[j] = 0
      BY <2>1 DEF Goal, Zero
    <3> QED
      BY <3>1, SMT
  <2> QED
    BY <2>1
<1>7. CASE BumpSync(r) \/ Pack(r) \/ Broadcast(r) \/ BroadcastFails(r)
  <2>1. Moved(r, k)' = Moved(r, k) /\ inputAcc' = inputAcc
    BY <1>7 DEF BumpSync, Pack, Broadcast, BroadcastFails, Moved, gameVars
  <2> QED
    BY <1>2, <1>3, <2>1, HeldSame
<1> QED
  BY <1>4, <1>5, <1>6, <1>7 DEF SenderThread

(* The seat whose packet is in the receiver's hands is credited with it.   *)
LEMMA CreditIsSeat ==
  ASSUME NEW r \in Rooms, NEW k \in Seat, playerIds = Seats[r]
  PROVE  CreditTo(Seats[r][k]) = {k}
<1>1. Seats[r][2] # Seats[r][1]
  <2>1. 1 # 2
    BY SMT
  <2> QED
    BY <2>1, SeatFacts, PongServerAssumption
<1>2. CASE k = 1
  BY <1>2 DEF CreditTo
<1>3. CASE k = 2
  BY <1>1, <1>3 DEF CreditTo
<1> QED
  BY <1>2, <1>3, SeatFacts

LEMMA ReceiverHeld ==
  ASSUME Types, Links, Stages, NEW r \in Rooms, Opening(r), ReceiverThread(r),
         score = Zero, NEW k \in Seat, NEW c \in Clients, c = Seats[r][k],
         app[c] # "exit", toServer[c] \in Seq(CurrentInput)
  PROVE  /\ Held(r, k, c)' = Held(r, k, c)
         /\ toServer'[c] \in {toServer[c], Tail(toServer[c])}
         /\ toServer[c] = <<>> => toServer'[c] = <<>>
<1>1. /\ receiver \in [Rooms -> {"off", "check", "poll", "recv", "add", "done"}]
      /\ ready \in [Rooms -> SUBSET Seat] /\ got \in [Rooms -> Input]
      /\ toServer \in [Clients -> Seq(Input)]
      /\ receiver[r] \in {"recv", "add"} => ready[r] # {}
  BY DEF Types, ServerTypes, ServerTypeOK, NetTypes
<1>2. receiver[r] \in {"recv", "add"} =>
        Reading(r) \in Seat /\ (Seats[r][Reading(r)] = c => Reading(r) = k)
        /\ Seats[r][Reading(r)] \in Clients
  BY <1>1, ReadingSeat, PongServerAssumption
<1>3. UNCHANGED <<paddle, sender, moved>> /\ Moved(r, k)' = Moved(r, k)
  <2>1. UNCHANGED <<paddle, sender, moved>>
    BY DEF ReceiverThread, CheckDisbanded, Poll, RecvInput, RecvEnd, RecvError, AddInput,
           gameVars
  <2> QED
    BY <2>1 DEF Moved
<1>4. ASSUME inputAcc' = inputAcc, toServer'[c] = toServer[c],
             InReceiver(r, k) = 0, InReceiver(r, k)' = 0
      PROVE  Held(r, k, c)' = Held(r, k, c)
  BY <1>3, <1>4, HeldSame
<1>5. CASE CheckDisbanded(r) \/ Poll(r) \/ RecvEnd(r)
  <2>1. /\ receiver[r] # "add" /\ receiver'[r] # "add" /\ inputAcc' = inputAcc
        /\ toServer' = toServer
    BY <1>1, <1>5 DEF CheckDisbanded, Poll, RecvEnd, gameVars, netVars
  <2> QED
    BY <1>4, <2>1 DEF InReceiver
<1>6. CASE RecvInput(r)
  <2> DEFINE j == Reading(r)
             b == Seats[r][j]
             p == Head(toServer[b])
  <2>1. /\ receiver[r] = "recv" /\ ServerRecv(b) /\ inputAcc' = inputAcc
        /\ IF p.sync = sync /\ p.type = "INPUT" THEN AcceptInput(r, p) ELSE DropInput(r)
    BY <1>6 DEF RecvInput, gameVars
  <2>2. /\ j \in Seat /\ b \in Clients /\ (b = c => j = k)
        /\ toServer[b] # <<>> /\ toServer' = [toServer EXCEPT ![b] = Tail(@)]
    BY <1>2, <2>1 DEF ServerRecv
  <2>3. InReceiver(r, k) = 0
    BY <2>1 DEF InReceiver
  <2>4. CASE j # k
    <3>1. toServer'[c] = toServer[c]
      BY <1>1, <2>2, <2>4
    <3>2. InReceiver(r, k)' = 0
      <4>1. CASE AcceptInput(r, p)
        BY <2>4, <4>1 DEF AcceptInput, InReceiver, Reading
      <4>2. CASE DropInput(r)
        BY <1>1, <4>2 DEF DropInput, SeatDone, InReceiver
      <4> QED
        BY <2>1, <4>1, <4>2
    <3> QED
      BY <1>4, <2>1, <2>3, <3>1, <3>2
  <2>5. CASE j = k
    <3>1. b = c /\ toServer'[c] = Tail(toServer[c]) /\ toServer[c] # <<>>
      BY <1>1, <2>2, <2>5
    <3>2. AcceptInput(r, p)
      <4>1. \A q \in Seq(CurrentInput) : q # <<>> => Head(q) \in CurrentInput
        OBVIOUS
      <4>2. p.sync = sync
        BY <3>1, <4>1 DEF CurrentInput, Opening
      <4>3. p.type = "INPUT"
        <5>1. \A q \in Seq(Input) : q # <<>> => Head(q) \in Input
          OBVIOUS
        <5> QED
          BY <1>1, <3>1, <5>1 DEF Input
      <4> QED
        BY <2>1, <4>2, <4>3
    <3>3. InReceiver(r, k)' = p.acc
      BY <1>1, <2>5, <3>2 DEF AcceptInput, InReceiver, Reading
    <3>4. InputsIn(toServer[c]) = p.acc + InputsIn(Tail(toServer[c]))
      BY <1>1, <3>1, InputsTaken
    <3>5. /\ Moved(r, k) \in Int /\ inputAcc[k] \in Int /\ p.acc \in Int
          /\ InputsIn(Tail(toServer[c])) \in Int
      <4>1. Tail(toServer[c]) \in Seq(Input) /\ p \in Input
        <5>1. \A q \in Seq(Input) : q # <<>> => Head(q) \in Input /\ Tail(q) \in Seq(Input)
          OBVIOUS
        <5> QED
          BY <1>1, <3>1, <5>1
      <4> QED
        BY <4>1, AmountTypes, InputsType DEF Input
    <3>6. InputsIn(toServer[c])' = InputsIn(Tail(toServer[c]))
      BY <3>1 DEF InputsIn
    <3> HIDE DEF p
    <3>7. \A m, i, a, s \in Int : m + i + a + s = m + i + 0 + (a + s)
      BY SMT
    <3>8. Held(r, k, c)' = Held(r, k, c)
      BY <1>3, <2>1, <2>3, <3>3, <3>4, <3>5, <3>6, <3>7 DEF Held
    <3> QED
      BY <3>1, <3>8
  <2> QED
    BY <2>4, <2>5
<1>7. CASE RecvError(r)
  <2> DEFINE j == Reading(r)
  <2>1. receiver[r] = "recv" /\ inputAcc' = inputAcc /\ ServerRecvError(Seats[r][j])
    BY <1>7 DEF RecvError, gameVars
  <2>2. j # k /\ toServer' = toServer
    <3>1. link[c] = "open"
      BY DEF Links
    <3> QED
      BY <1>2, <2>1, <3>1 DEF ServerRecvError
  <2>3. InReceiver(r, k)' = 0
    <3>1. ASSUME NEW a \in Junk,
                 AcceptInput(r, [type |-> "INPUT", sync |-> sync, acc |-> a])
          PROVE  InReceiver(r, k)' = 0
      BY <2>2, <3>1 DEF AcceptInput, InReceiver, Reading
    <3>2. CASE DropInput(r)
      BY <1>1, <3>2 DEF DropInput, SeatDone, InReceiver
    <3> QED
      BY <1>7, <3>1, <3>2 DEF RecvError
  <2>4. InReceiver(r, k) = 0
    BY <2>1 DEF InReceiver
  <2> QED
    BY <1>4, <2>1, <2>2, <2>3, <2>4
<1>8. CASE AddInput(r)
  <2> DEFINE j == Reading(r)
  <2>1. /\ receiver[r] = "add" /\ receiver'[r] # "add" /\ toServer' = toServer
        /\ j \in Seat
        /\ inputAcc'[k] = IF k \in CreditTo(Seats[r][j]) THEN inputAcc[k] + got[r].acc
                                                         ELSE inputAcc[k]
    <3>1. receiver[r] = "add" /\ j \in Seat
      BY <1>2, <1>8 DEF AddInput
    <3>2. receiver'[r] # "add"
      BY <1>1, <1>8 DEF AddInput, SeatDone
    <3>3. toServer' = toServer
      BY <1>8 DEF AddInput, netVars
    <3>4. inputAcc' = [i \in Seat |->
            IF i \in CreditTo(Seats[r][j]) THEN inputAcc[i] + got[r].acc ELSE inputAcc[i]]
      BY <1>8 DEF AddInput
    <3> QED
      BY <3>1, <3>2, <3>3, <3>4
  <2>2. CreditTo(Seats[r][j]) = {j}
    <3>1. game[r] # "ids"
      BY <2>1 DEF Stages, Opening
    <3> QED
      BY <2>1, <3>1, CreditIsSeat DEF Opening
  <2>3. InReceiver(r, k)' = 0 /\ InReceiver(r, k) = (IF j = k THEN got[r].acc ELSE 0)
    BY <2>1 DEF InReceiver
  <2>4. inputAcc'[k] = inputAcc[k] + InReceiver(r, k)
    <3>1. inputAcc[k] \in Int
      BY AmountTypes
    <3>2. \A i \in Int : i + 0 = i
      BY SMT
    <3> QED
      BY <2>1, <2>2, <2>3, <3>1, <3>2
  <2>5. InputsIn(toServer[c])' = InputsIn(toServer[c])
    BY <2>1 DEF InputsIn
  <2>6. Held(r, k, c)' = Held(r, k, c)
    <3>1. \A m, i, a, s \in Int : m + (i + a) + 0 + s = m + i + a + s
      BY SMT
    <3>2. /\ Moved(r, k) \in Int /\ inputAcc[k] \in Int /\ InReceiver(r, k) \in Int
          /\ InputsIn(toServer[c]) \in Int
      BY AmountTypes
    <3> QED
      BY <1>3, <2>3, <2>4, <2>5, <3>1, <3>2 DEF Held
  <2> QED
    BY <2>1, <2>6
<1> QED
  BY <1>5, <1>6, <1>7, <1>8 DEF ReceiverThread
-----------------------------------------------------------------------------
LEMMA Queues ==
  /\ \A q \in Seq(StatePacket) : /\ q # <<>> => Tail(q) \in Seq(StatePacket)
                                 /\ q # <<>> => Head(q).type = "STATE"
                                 /\ \A p \in StatePacket : Append(q, p) \in Seq(StatePacket)
  /\ \A q \in Seq(CurrentInput) :
       /\ q # <<>> => Tail(q) \in Seq(CurrentInput)
       /\ \A p \in CurrentInput : Append(q, p) \in Seq(CurrentInput)
  /\ <<>> \in Seq(StatePacket) /\ <<>> \in Seq(CurrentInput)
<1>1. \A q \in Seq(StatePacket) : q # <<>> => Head(q).type = "STATE"
  <2>1. \A q \in Seq(StatePacket) : q # <<>> => Head(q) \in StatePacket
    OBVIOUS
  <2> QED
    BY <2>1 DEF StatePacket
<1>2. \A q \in Seq(StatePacket) : /\ q # <<>> => Tail(q) \in Seq(StatePacket)
                                  /\ \A p \in StatePacket : Append(q, p) \in Seq(StatePacket)
  OBVIOUS
<1>3. \A q \in Seq(CurrentInput) :
        /\ q # <<>> => Tail(q) \in Seq(CurrentInput)
        /\ \A p \in CurrentInput : Append(q, p) \in Seq(CurrentInput)
  OBVIOUS
<1>4. <<>> \in Seq(StatePacket) /\ <<>> \in Seq(CurrentInput)
  OBVIOUS
<1> QED
  BY <1>1, <1>2, <1>3, <1>4

(* What a step of the server may do to a client in the first round: take   *)
(* from its inputs, and send it a packet, of the right kind.               *)
LEMMA FirstRoundServed ==
  ASSUME Types, NEW r \in Rooms, NEW k \in Seat, NEW c \in Clients,
         FirstRound(r, k, c), UNCHANGED clientVars,
         app[c] \in {"connect", "run"} => Held(r, k, c)' = Held(r, k, c),
         app[c] # "exit" =>
           /\ toServer'[c] \in {toServer[c], Tail(toServer[c])}
           /\ toServer[c] = <<>> => toServer'[c] = <<>>,
         NEW p \in Packet, toClient'[c] \in {toClient[c], Append(toClient[c], p)},
         app[c] = "connect" /\ toClient[c] = <<>> /\ toClient'[c] # <<>> =>
           p.sync = StartSync /\ p.paddle = Zero,
         Live(c) /\ toClient'[c] # toClient[c] => p.type = "STATE"
  PROVE  FirstRound(r, k, c)'
<1> DEFINE q == toClient[c]
           s == toServer[c]
<1>1. UNCHANGED <<app, frame, dir, mine, csync, acc, net, out, rcv, hand>>
  BY DEF clientVars
<1>2. q \in Seq(Packet) /\ s \in Seq(Input)
  BY DEF Types, NetTypes
<1>3. /\ q # <<>> => /\ Head(Append(q, p)) = Head(q)
                     /\ Tail(Append(q, p)) = Append(Tail(q), p)
      /\ q = <<>> => Head(Append(q, p)) = p /\ Tail(Append(q, p)) = <<>>
      /\ Append(q, p) # <<>>
  BY <1>2, SMT
<1>4. p.type = "STATE" => p \in StatePacket
  BY DEF StatePacket
<1> HIDE DEF q, s
<1>5. ASSUME app[c] = "connect" PROVE Unstarted(c)'
  <2>1. Unstarted(c) /\ toServer'[c] = <<>>
    BY <1>5 DEF FirstRound, Unstarted
  <2>2. toClient'[c] # <<>> => /\ Head(toClient'[c]).sync = StartSync
                               /\ Head(toClient'[c]).paddle = Zero
    BY <1>3, <1>5, <2>1 DEF Unstarted, q
  <2> QED
    BY <1>1, <2>1, <2>2 DEF Unstarted
<1>6. ASSUME app[c] = "run" PROVE Started(c)'
  <2>1. Started(c) /\ toServer'[c] \in Seq(CurrentInput)
    <3>1. Started(c)
      BY <1>6 DEF FirstRound
    <3>2. s \in Seq(CurrentInput) /\ toServer'[c] \in {s, Tail(s)} /\ (s = <<>> => toServer'[c] = <<>>)
      BY <1>6, <3>1 DEF Started, s
    <3> QED
      BY <3>1, <3>2, Queues
  <2> QED
    BY <1>1, <2>1 DEF Started
<1>7. ASSUME Live(c)' PROVE Rest(c)' \in Seq(StatePacket)
  <2>1. CASE Live(c)
    <3>1. Rest(c) \in Seq(StatePacket) /\ (app[c] = "connect" => q # <<>>)
      BY <2>1 DEF FirstRound, Live, q
    <3>2. toClient'[c] = q \/ (toClient'[c] = Append(q, p) /\ p \in StatePacket)
      BY <1>4, <2>1 DEF q
    <3>3. Rest(c)' = Rest(c) \/ (Rest(c)' = Append(Rest(c), p) /\ p \in StatePacket)
      BY <1>1, <1>3, <3>1, <3>2 DEF Rest, q
    <3> QED
      BY <3>1, <3>3, Queues
  <2>2. CASE ~Live(c)
    <3>1. app[c] = "connect" /\ q = <<>> /\ toClient'[c] = Append(q, p)
      BY <1>1, <1>7, <2>2 DEF Live, q
    <3>2. Rest(c)' = <<>>
      BY <1>1, <1>3, <3>1 DEF Rest
    <3> QED
      BY <3>2, Queues
  <2> QED
    BY <2>1, <2>2
<1>8. ASSUME app[c] \in {"connect", "run"} PROVE Exact(r, k, c)'
  <2>1. Exact(r, k, c) /\ Held(r, k, c)' = Held(r, k, c)
    BY <1>8 DEF FirstRound
  <2>2. Shown(c)' = Shown(c) /\ Leaving(c)' = Leaving(c)
    BY <1>1 DEF Shown, Leaving
  <2> QED
    BY <2>1, <2>2 DEF Exact
<1> QED
  BY <1>1, <1>5, <1>6, <1>7, <1>8 DEF FirstRound

LEMMA FirstRoundServer ==
  ASSUME NEW r \in Rooms, Game(r), Opening(r), Server(r), score = Zero, score' = Zero,
         NEW k \in Seat, NEW c \in Clients, c = Seats[r][k], FirstRound(r, k, c)
  PROVE  FirstRound(r, k, c)'
<1>1. /\ UNCHANGED clientVars /\ Types /\ Links /\ Stages /\ Round(r)
      /\ First(r, k, c) /\ Follows(r, k, c) /\ FirstRound(r, k, c)
  BY SeatFacts DEF Game, AllFollow, Firsts, Server
<1>2. \A j \in Seat : Seats[r][j] \in Clients /\ (Seats[r][j] = c => j = k)
  BY SeatFacts, PongServerAssumption
<1> USE RoomTypes
<1>3. app[c] \in {"connect", "run"} <=> app[c] # "exit"
  BY <1>1, AppTypes DEF First
<1>4. ASSUME toClient' = toClient,
             app[c] \in {"connect", "run"} => Held(r, k, c)' = Held(r, k, c),
             app[c] # "exit" => /\ toServer'[c] \in {toServer[c], Tail(toServer[c])}
                                /\ toServer[c] = <<>> => toServer'[c] = <<>>
      PROVE  FirstRound(r, k, c)'
  <2>1. NoPacket \in Packet
    BY ConstantTypes
  <2> QED
    BY <1>1, <1>4, <2>1, FirstRoundServed
<1>5. CASE GameThread(r)
  <2>1. Held(r, k, c)' = Held(r, k, c)
    BY <1>1, <1>5, GameHeld
  <2>2. toServer' = toServer
    BY <1>5 DEF GameThread, StartPlayers, StartField, SendInit, SendInitFails, Join,
                ServerSend, ServerSendFails, netVars
  <2>3. CASE SendInit(r)
    <3>1. PICK j \in Seat :
            /\ game[r] = (IF j = 1 THEN "init1" ELSE "init2")
            /\ ServerSend(Seats[r][j], [packet[r] EXCEPT !.own = j])
      BY <2>3, SeatFacts DEF SendInit
    <3> DEFINE p == [packet[r] EXCEPT !.own = j]
    <3>2. /\ p \in Packet /\ p.sync = sync /\ p.paddle = Zero /\ sync = StartSync
      <4>1. packet[r] \in Packet /\ packet[r].sync = sync /\ packet[r].paddle = Zero
            /\ sync = StartSync
        BY <1>1, <3>1 DEF Round, Opening
      <4>2. p.paddle = packet[r].paddle
        BY <4>1 DEF Packet
      <4> QED
        BY <4>1, <4>2, PacketFields
    <3> HIDE DEF p
    <3>3. Sends(Seats[r][j], p)
      BY <1>1, <1>2, <3>1, NetworkEffects DEF p
    <3>4. toClient'[c] \in {toClient[c], Append(toClient[c], p)}
          /\ (j # k => toClient'[c] = toClient[c])
      BY <1>1, <1>2, <3>3 DEF Sends
    <3>5. j = k => ~Live(c)
      <4>1. j = k => Before(r, k)
        BY <3>1, SeatFacts DEF Before
      <4> QED
        BY <1>1, <4>1 DEF Follows, Live
    <3> QED
      BY <1>1, <2>1, <2>2, <3>2, <3>4, <3>5, FirstRoundServed
  <2>4. CASE ~SendInit(r)
    <3>1. toClient' = toClient
      BY <1>1, <1>5, <2>4, GameThreadEffects DEF Silent
    <3> QED
      BY <1>4, <2>1, <2>2, <3>1
  <2> QED
    BY <2>3, <2>4
<1>6. CASE SenderThread(r)
  <2>1. Held(r, k, c)' = Held(r, k, c)
    BY <1>1, <1>6, SenderHeld
  <2>2. toServer' = toServer
    BY <1>6 DEF SenderThread, TakeInput, AdvanceBall, Goal, BumpSync, Pack, Broadcast,
                BroadcastFails, ServerSend, ServerSendFails, netVars
  <2>3. CASE Broadcast(r)
    <3>1. PICK j \in Seat : ServerSend(Seats[r][j], packet[r])
      BY <2>3, SeatFacts DEF Broadcast
    <3>2. packet[r] \in Packet /\ packet[r].type = "STATE" /\ sender[r] # "off"
      BY <1>1, <2>3 DEF Broadcast, Opening
    <3>3. Sends(Seats[r][j], packet[r])
      BY <1>1, <1>2, <3>1, NetworkEffects
    <3>4. toClient'[c] \in {toClient[c], Append(toClient[c], packet[r])}
      BY <1>1, <3>3 DEF Sends
    <3>5. ~(app[c] = "connect" /\ toClient[c] = <<>>)
      BY <1>1, <3>2 DEF First, Sent
    <3> QED
      BY <1>1, <2>1, <2>2, <3>2, <3>4, <3>5, FirstRoundServed
  <2>4. CASE ~Broadcast(r)
    <3>1. toClient' = toClient
      BY <1>1, <1>6, <2>4, SenderThreadEffects DEF Silent
    <3> QED
      BY <1>4, <2>1, <2>2, <3>1
  <2> QED
    BY <2>3, <2>4
<1>7. CASE ReceiverThread(r)
  <2>1. toClient' = toClient
    BY <1>1, <1>7, ReceiverThreadEffects DEF Silent
  <2>2. app[c] # "exit" => toServer[c] \in Seq(CurrentInput)
    BY <1>1, <1>3, Queues DEF FirstRound, Unstarted, Started
  <2>3. app[c] # "exit" => /\ Held(r, k, c)' = Held(r, k, c)
                           /\ toServer'[c] \in {toServer[c], Tail(toServer[c])}
                           /\ toServer[c] = <<>> => toServer'[c] = <<>>
    BY <1>1, <1>7, <2>2, ReceiverHeld
  <2> QED
    BY <1>3, <1>4, <2>1, <2>3
<1> QED
  BY <1>5, <1>6, <1>7 DEF Server
-----------------------------------------------------------------------------
(* What another client does is nothing to c.                               *)
LEMMA OthersLeaveAlone ==
  ASSUME Types, NEW c \in Clients, NEW b \in Clients, b # c, Client(b)
  PROVE  UNCHANGED <<app[c], frame[c], dir[c], mine[c], csync[c], acc[c], net[c], out[c],
                     rcv[c], toServer[c], toClient[c]>>
<1>1. /\ app \in [Clients -> {"connect", "run", "leave", "exit"}]
      /\ frame \in [Clients -> {"input", "move"}] /\ dir \in [Clients -> -1..1]
      /\ mine \in [Clients -> Int] /\ csync \in [Clients -> -128..127]
  BY DEF Types, ClientTypes, ClientTypeOK
<1>2. /\ acc \in [Clients -> Int] /\ net \in [Clients -> {"tick", "send"}]
      /\ out \in [Clients -> Input] /\ rcv \in [Clients -> {"recv", "sync", "clear"}]
      /\ toServer \in [Clients -> Seq(Input)] /\ toClient \in [Clients -> Seq(Packet)]
  BY DEF Types, ClientTypes, ClientTypeOK, NetTypes
<1> USE DEF Quit, Start, Frame, MovePaddle, NetTick, NetSend, RecvState, RecvInit,
            TakeSync, ClearInput, ClientSend, ClientRecv, ClientClose, netVars, clientVars
<1>3. CASE Start(b) \/ Quit(b) \/ UpdateThread(b)
  BY <1>1, <1>2, <1>3 DEF UpdateThread
<1>4. CASE NetworkThread(b)
  BY <1>1, <1>2, <1>4 DEF NetworkThread
<1>5. CASE StateReceiver(b)
  BY <1>1, <1>2, <1>5 DEF StateReceiver
<1> QED
  BY <1>3, <1>4, <1>5 DEF Client, ClientNext

LEMMA SameDifference ==
  ASSUME NEW h \in Int, NEW s \in Int, NEW i \in Int, NEW l \in Int,
         NEW s1 \in Int, NEW i1 \in Int, NEW l1 \in Int,
         s = h + i + l, s1 - i1 - l1 = s - i - l
  PROVE  s1 = h + i1 + l1
OBVIOUS

(* The parts of FirstRound that say where the client is, in one step of it *)
(* that leaves what it has been sent to the other steps.                   *)
LEMMA FirstRoundMoves ==
  ASSUME Types, NEW r \in Rooms, NEW k \in Seat, NEW c \in Clients,
         FirstRound(r, k, c), app[c] = "run",
         UNCHANGED <<app, csync, rcv, toClient, serverVars>>,
         toServer'[c] \in Seq(CurrentInput),
         net'[c] = "send" => out'[c].sync = StartSync,
         Shown(c)' - InputsIn(toServer[c])' - Leaving(c)'
           = Shown(c) - InputsIn(toServer[c]) - Leaving(c),
         Shown(c)' \in Int, Leaving(c)' \in Int, InputsIn(toServer[c])' \in Int
  PROVE  FirstRound(r, k, c)'
<1> DEFINE H == Moved(r, k) + inputAcc[k] + InReceiver(r, k)
<1>1. Started(c)' /\ Live(c) /\ Live(c)' /\ Rest(c)' = Rest(c)
  BY DEF FirstRound, Started, Live, Rest
<1>2. Exact(r, k, c)
  BY DEF FirstRound
<1>3. H' = H
  BY DEF Moved, InReceiver, Reading, serverVars, gameVars, roomVars
<1>4. Shown(c) = H + InputsIn(toServer[c]) + Leaving(c)
  BY <1>2 DEF Exact, Held
<1>5. /\ H \in Int /\ InputsIn(toServer[c]) \in Int /\ Shown(c) \in Int
      /\ Leaving(c) \in Int
  <2>1. /\ Moved(r, k) \in Int /\ inputAcc[k] \in Int /\ InReceiver(r, k) \in Int
        /\ InputsIn(toServer[c]) \in Int
        /\ mine[c] \in Int /\ dir[c] \in Int /\ acc[c] \in Int /\ out[c].acc \in Int
    BY AmountTypes
  <2>2. H \in Int
    BY <2>1
  <2> HIDE DEF H
  <2>3. Shown(c) \in Int /\ Leaving(c) \in Int
    BY <2>1 DEF Shown, Leaving
  <2> QED
    BY <2>1, <2>2, <2>3
<1> HIDE DEF H
<1>6. Shown(c)' = H + InputsIn(toServer[c])' + Leaving(c)'
  <2> DEFINE s == Shown(c)
             i == InputsIn(toServer[c])
             l == Leaving(c)
             s1 == Shown(c)'
             i1 == InputsIn(toServer[c])'
             l1 == Leaving(c)'
  <2>1. /\ H \in Int /\ s \in Int /\ i \in Int /\ l \in Int /\ s1 \in Int /\ i1 \in Int
        /\ l1 \in Int /\ s = H + i + l /\ s1 - i1 - l1 = s - i - l
    BY <1>4, <1>5
  <2> HIDE DEF s, i, l, s1, i1, l1
  <2>2. s1 = H + i1 + l1
    BY <2>1, SameDifference
  <2> QED
    BY <2>2 DEF s1, i1, l1
<1>7. Exact(r, k, c)'
  BY <1>3, <1>6 DEF Exact, Held, H
<1> QED
  BY <1>1, <1>7 DEF FirstRound

LEMMA FirstRoundOwn ==
  ASSUME Types, NEW r \in Rooms, Opening(r), score = Zero,
         NEW k \in Seat, NEW c \in Clients, First(r, k, c), FirstRound(r, k, c), Client(c)
  PROVE  FirstRound(r, k, c)'
<1> USE AppTypes
<1>0. /\ UNCHANGED serverVars
      /\ frame \in [Clients -> {"input", "move"}] /\ dir \in [Clients -> -1..1]
      /\ mine \in [Clients -> Int] /\ acc \in [Clients -> Int]
      /\ net \in [Clients -> {"tick", "send"}] /\ out \in [Clients -> Input]
      /\ own \in [Clients -> 1..2] /\ toServer \in [Clients -> Seq(Input)]
  BY DEF Client, Types, ClientTypes, ClientTypeOK, NetTypes
<1>1. /\ mine[c] \in Int /\ dir[c] \in Int /\ acc[c] \in Int /\ out[c].acc \in Int
      /\ InputsIn(toServer[c]) \in Int
  BY AmountTypes
<1>2. Shown(c) \in Int /\ Leaving(c) \in Int
  BY <1>1 DEF Shown, Leaving
<1>3. ASSUME UNCHANGED <<mine, frame, dir, net, out, acc, toServer>>
      PROVE  UNCHANGED <<Held(r, k, c), Shown(c), Leaving(c)>>
  BY <1>0, <1>3 DEF Held, Moved, InReceiver, InputsIn, Reading, Shown, Leaving, serverVars,
                    gameVars, roomVars
<1>4. CASE Start(c)
  <2> DEFINE p == Head(toClient[c])
  <2>1. /\ app[c] = "connect" /\ toClient[c] # <<>> /\ p \in Packet /\ p.type = "INIT"
        /\ toClient'[c] = Tail(toClient[c]) /\ toServer' = toServer
        /\ p.sync = StartSync /\ p.paddle = Zero /\ p.own = k /\ rcv[c] = "recv"
    <3>1. app[c] = "connect" /\ ClientRecv(c) /\ NetTypes
      BY <1>4 DEF Start, Types
    <3>2. p \in Packet
      BY <3>1, NetworkTypes DEF Types
    <3> QED
      BY <3>1, <3>2 DEF ClientRecv, First, FirstRound, Unstarted
  <2> HIDE DEF p
  <2>2. /\ app'[c] = "run" /\ csync'[c] = StartSync /\ mine'[c] = 0
        /\ UNCHANGED <<frame, dir, acc, net, out, rcv>>
    <3>1. p.paddle[p.own] = 0
      BY <2>1 DEF Zero
    <3> QED
      BY <1>0, <1>4, <2>1, <3>1 DEF Start, p
  <2>3. Unstarted(c) /\ Exact(r, k, c)
    BY <2>1 DEF FirstRound
  <2>4. Started(c)'
    BY <2>1, <2>2, <2>3, Queues DEF Started, Unstarted
  <2>5. Rest(c)' \in Seq(StatePacket)
    BY <2>1, <2>2 DEF FirstRound, Live, Rest
  <2>6. Exact(r, k, c)'
    <3>1. UNCHANGED <<Shown(c), Leaving(c)>>
      BY <2>2, <2>3 DEF Shown, Leaving, Unstarted
    <3>2. Held(r, k, c)' = Held(r, k, c)
      BY <1>0, <2>1 DEF Held, Moved, InReceiver, InputsIn, Reading, serverVars, gameVars,
                        roomVars
    <3> QED
      BY <2>3, <3>1, <3>2 DEF Exact
  <2> QED
    BY <2>2, <2>4, <2>5, <2>6 DEF FirstRound
<1>5. CASE Quit(c)
  BY <1>5 DEF Quit, FirstRound, Live
<1>6. ASSUME app[c] = "run"
      PROVE  /\ Started(c) /\ toClient[c] \in Seq(StatePacket) /\ Exact(r, k, c)
             /\ csync[c] = StartSync /\ rcv[c] = "recv" /\ toServer[c] \in Seq(CurrentInput)
  BY <1>6 DEF FirstRound, Live, Rest, Started
<1>7. ASSUME NEW d \in {-1, 1}, Frame(c, d) PROVE FirstRound(r, k, c)'
  <2>1. /\ app[c] = "run" /\ frame[c] = "input" /\ frame'[c] = "move" /\ dir'[c] = d
        /\ acc'[c] = acc[c] + d /\ UNCHANGED <<app, mine, csync, net, out, rcv, netVars>>
    BY <1>0, <1>7 DEF Frame
  <2>2. UNCHANGED <<toServer, toClient>> /\ InputsIn(toServer[c])' = InputsIn(toServer[c])
    BY <2>1 DEF netVars, InputsIn
  <2>3. d \in Int
    BY SMT
  <2>4. Shown(c)' = Shown(c) + d
    <3>1. Shown(c) = mine[c] + 0 /\ Shown(c)' = mine[c] + d
      BY <2>1 DEF Shown
    <3> QED
      BY <1>1, <2>3, <3>1, SMT
  <2>5. Leaving(c)' = Leaving(c) + d
    <3> DEFINE x == IF net[c] = "send" THEN out[c].acc ELSE 0
    <3>1. x \in Int /\ Leaving(c) = x + acc[c] /\ Leaving(c)' = x + (acc[c] + d)
      BY <1>1, <2>1 DEF Leaving
    <3> HIDE DEF x
    <3> QED
      BY <1>1, <2>3, <3>1, SMT
  <2>6. Shown(c)' - InputsIn(toServer[c])' - Leaving(c)'
          = Shown(c) - InputsIn(toServer[c]) - Leaving(c)
    BY <1>1, <1>2, <2>2, <2>3, <2>4, <2>5, SMT
  <2>7. Shown(c)' \in Int /\ Leaving(c)' \in Int /\ InputsIn(toServer[c])' \in Int
    BY <1>1, <1>2, <2>2, <2>3, <2>4, <2>5, SMT
  <2>8. toServer'[c] \in Seq(CurrentInput) /\ (net'[c] = "send" => out'[c].sync = StartSync)
    BY <1>6, <2>1, <2>2 DEF Started
  <2> QED
    BY <1>0, <2>1, <2>2, <2>6, <2>7, <2>8, FirstRoundMoves
<1>8. CASE MovePaddle(c)
  <2>1. /\ app[c] = "run" /\ frame[c] = "move" /\ frame'[c] = "input"
        /\ mine'[c] = mine[c] + dir[c]
        /\ UNCHANGED <<app, acc, csync, net, out, rcv, toServer, toClient>>
    BY <1>0, <1>8 DEF MovePaddle, netVars
  <2>2. UNCHANGED <<Leaving(c), InputsIn(toServer[c])>>
    BY <2>1 DEF Leaving, InputsIn
  <2>3. Shown(c)' = Shown(c)
    <3>1. Shown(c) = mine[c] + dir[c] /\ Shown(c)' = mine[c] + dir[c] + 0
      BY <2>1 DEF Shown
    <3> QED
      BY <1>1, <3>1, SMT
  <2>4. toServer'[c] \in Seq(CurrentInput) /\ (net'[c] = "send" => out'[c].sync = StartSync)
    BY <1>6, <2>1 DEF Started
  <2> QED
    BY <1>0, <1>1, <1>2, <2>1, <2>2, <2>3, <2>4, FirstRoundMoves
<1>9. CASE NetTick(c)
  <2>1. /\ app[c] = "run" /\ net[c] = "tick" /\ net'[c] = "send" /\ acc'[c] = 0
        /\ out'[c] = [type |-> "INPUT", sync |-> csync[c], acc |-> acc[c]]
        /\ UNCHANGED <<app, frame, dir, mine, csync, rcv, toServer, toClient>>
    BY <1>0, <1>9 DEF NetTick, netVars
  <2>2. UNCHANGED <<Shown(c), InputsIn(toServer[c])>>
    BY <2>1 DEF Shown, InputsIn
  <2>3. Leaving(c)' = Leaving(c)
    <3>1. Leaving(c) = 0 + acc[c] /\ Leaving(c)' = acc[c] + 0
      BY <2>1 DEF Leaving
    <3> QED
      BY <1>1, <3>1, SMT
  <2>4. toServer'[c] \in Seq(CurrentInput) /\ (net'[c] = "send" => out'[c].sync = StartSync)
    BY <1>6, <2>1
  <2> QED
    BY <1>0, <1>1, <1>2, <2>1, <2>2, <2>3, <2>4, FirstRoundMoves
<1>10. CASE NetSend(c)
  <2>1. /\ app[c] = "run" /\ net[c] = "send" /\ net'[c] = "tick"
        /\ toServer'[c] = Append(toServer[c], out[c])
        /\ UNCHANGED <<app, frame, dir, mine, csync, acc, rcv, toClient>>
    BY <1>0, <1>10 DEF NetSend, ClientSend
  <2>2. out[c] \in CurrentInput /\ out[c] \in Input
    BY <1>0, <1>6, <2>1 DEF Started, CurrentInput
  <2>3. Shown(c)' = Shown(c)
    BY <2>1 DEF Shown
  <2>4. InputsIn(toServer[c])' = InputsIn(toServer[c]) + out[c].acc
    <3>1. InputsIn(toServer[c])' = InputsIn(Append(toServer[c], out[c]))
      BY <2>1 DEF InputsIn
    <3>2. toServer[c] \in Seq(Input)
      BY <1>0
    <3> QED
      BY <2>2, <3>1, <3>2, InputsAppended
  <2>5. Leaving(c) = out[c].acc + acc[c] /\ Leaving(c)' = 0 + acc[c]
    BY <2>1 DEF Leaving
  <2>6. Shown(c)' - InputsIn(toServer[c])' - Leaving(c)'
          = Shown(c) - InputsIn(toServer[c]) - Leaving(c)
    BY <1>1, <1>2, <2>3, <2>4, <2>5, SMT
  <2>7. Shown(c)' \in Int /\ Leaving(c)' \in Int /\ InputsIn(toServer[c])' \in Int
    BY <1>1, <1>2, <2>3, <2>4, <2>5, SMT
  <2>8. toServer'[c] \in Seq(CurrentInput) /\ (net'[c] = "send" => out'[c].sync = StartSync)
    BY <1>6, <2>1, <2>2, Queues
  <2> QED
    BY <1>0, <2>1, <2>6, <2>7, <2>8, FirstRoundMoves
<1>11. CASE StateReceiver(c)
  <2>1. app[c] = "run" /\ RecvState(c)
    BY <1>6, <1>11, Queues DEF StateReceiver, RecvState, RecvInit, TakeSync, ClearInput,
                               ClientRecv
  <2>2. UNCHANGED clientVars /\ toServer' = toServer
        /\ toClient[c] # <<>> /\ toClient'[c] = Tail(toClient[c])
    BY <2>1 DEF RecvState, ClientRecv
  <2>3. UNCHANGED <<app, frame, dir, mine, csync, acc, net, out, rcv>>
    BY <2>2 DEF clientVars
  <2>4. Started(c)' /\ Live(c)' /\ Rest(c)' \in Seq(StatePacket)
    BY <1>6, <2>1, <2>2, <2>3, Queues DEF Started, Live, Rest
  <2>5. Exact(r, k, c)'
    BY <1>3, <1>6, <2>1, <2>2, <2>3 DEF Exact
  <2> QED
    BY <2>1, <2>3, <2>4, <2>5 DEF FirstRound
<1> QED
  BY <1>4, <1>5, <1>7, <1>8, <1>9, <1>10, <1>11
     DEF Client, ClientNext, UpdateThread, NetworkThread
-----------------------------------------------------------------------------
LEMMA IInvInit ==
  ASSUME NEW r, Rooms = {r}, Init
  PROVE  IInv(r)
<1>1. r \in Rooms
  OBVIOUS
<1>2. Game(r) /\ Types
  BY GameInit DEF Game
<1>3. /\ game[r] = "ids" /\ receiver[r] = "off" /\ sender[r] = "off" /\ paddle = Zero
      /\ sync = StartSync /\ inputAcc = Zero
  BY <1>1 DEF Init, ServerInit
<1>4. Opening(r)
  BY <1>3 DEF Opening
<1>5. ASSUME NEW k \in Seat, NEW c \in Clients PROVE FirstRound(r, k, c)
  <2>1. /\ app[c] = "connect" /\ mine[c] = 0 /\ frame[c] = "input" /\ net[c] = "tick"
        /\ acc[c] = 0 /\ toServer[c] = <<>> /\ toClient[c] = <<>>
    BY DEF Init, ClientInit, NetInit
  <2>2. Unstarted(c) /\ ~Live(c)
    BY <2>1 DEF Unstarted, Live
  <2>3. Moved(r, k) = 0 /\ inputAcc[k] = 0 /\ InReceiver(r, k) = 0
    BY <1>3 DEF Moved, InReceiver, Zero
  <2>4. Shown(c) = 0 + 0 /\ Leaving(c) = 0 + 0 /\ InputsIn(toServer[c]) = 0
    BY <2>1, NoInputs DEF Shown, Leaving
  <2>5. Exact(r, k, c)
    <3>1. 0 + 0 = 0 + 0 + 0 + 0 + (0 + 0)
      BY SMT
    <3> QED
      BY <2>3, <2>4, <3>1 DEF Exact, Held
  <2> QED
    BY <2>1, <2>2, <2>5 DEF FirstRound
<1> QED
  BY <1>1, <1>2, <1>4, <1>5, SeatFacts DEF IInv

LEMMA IInvNext ==
  ASSUME NEW r, Rooms = {r}, IInv(r), [Next]_vars
  PROVE  IInv(r)'
<1>1. r \in Rooms /\ Game(r) /\ Types /\ Links /\ Stages /\ Firsts /\ Round(r) /\ Opening(r)
  BY DEF IInv, Game
<1>2. Game(r)'
  BY <1>1, GameNext
<1>3. ASSUME UNCHANGED serverVars PROVE Opening(r)'
  BY <1>1, <1>3 DEF Opening, serverVars, gameVars, roomVars
<1>4. CASE Server(r)
  <2>1. Opening(r)'
    BY <1>1, <1>4, OpeningServer
  <2>2. ASSUME score' = Zero, NEW k \in Seat PROVE FirstRound(r, k, Seats[r][k])'
    <3>1. score = Zero
      BY <1>1, <1>4, <2>2, ScoreGone
    <3> DEFINE c == Seats[r][k]
    <3>2. c \in Clients /\ FirstRound(r, k, c)
      BY <1>1, <3>1, SeatFacts DEF IInv
    <3> HIDE DEF c
    <3>3. c = Seats[r][k]
      BY DEF c
    <3>4. FirstRound(r, k, c)'
      BY <1>1, <1>4, <2>2, <3>1, <3>2, <3>3, FirstRoundServer
    <3> QED
      BY <3>4 DEF c
  <2> QED
    BY <1>2, <2>1, <2>2 DEF IInv
<1>5. ASSUME NEW b \in Clients, Client(b) PROVE IInv(r)'
  <2>1. UNCHANGED serverVars /\ score' = score
    BY <1>5 DEF Client, serverVars, gameVars
  <2>2. ASSUME score = Zero, NEW k \in Seat PROVE FirstRound(r, k, Seats[r][k])'
    <3> DEFINE c == Seats[r][k]
    <3>1. c \in Clients /\ FirstRound(r, k, c) /\ First(r, k, c)
      BY <1>1, <2>2, SeatFacts DEF IInv, Firsts
    <3> HIDE DEF c
    <3>2. CASE b = c
      BY <1>1, <1>5, <2>2, <3>1, <3>2, FirstRoundOwn DEF c
    <3>3. CASE b # c
      <4>1. UNCHANGED <<app[c], frame[c], dir[c], mine[c], csync[c], acc[c], net[c], out[c],
                        rcv[c], toServer[c], toClient[c]>>
        BY <1>1, <1>5, <3>1, <3>3, OthersLeaveAlone
      <4>2. UNCHANGED <<Unstarted(c), Started(c), Live(c), Rest(c), Shown(c), Leaving(c)>>
        BY <4>1 DEF Unstarted, Started, Live, Rest, Shown, Leaving
      <4>3. Held(r, k, c)' = Held(r, k, c)
        BY <2>1, <4>1 DEF Held, Moved, InReceiver, InputsIn, Reading, serverVars, gameVars,
                          roomVars
      <4>4. Exact(r, k, c)' = Exact(r, k, c)
        BY <4>2, <4>3 DEF Exact
      <4> QED
        BY <3>1, <4>1, <4>2, <4>4 DEF FirstRound, c
    <3> QED
      BY <3>2, <3>3
  <2> QED
    BY <1>2, <1>3, <2>1, <2>2 DEF IInv
<1>6. ASSUME UNCHANGED <<serverVars, clientVars, toServer, toClient>> PROVE IInv(r)'
  <2>1. ASSUME NEW k, NEW c PROVE FirstRound(r, k, c)' = FirstRound(r, k, c)
    BY <1>6 DEF FirstRound, Unstarted, Started, Live, Rest, Exact, Shown, Leaving, Held, Moved,
                InReceiver, InputsIn, Reading, serverVars, clientVars, gameVars, roomVars
  <2>2. score' = score
    BY <1>6 DEF serverVars, gameVars
  <2> QED
    BY <1>2, <1>3, <1>6, <2>1, <2>2 DEF IInv
<1>7. ASSUME NEW c \in Clients, Reset(c) PROVE IInv(r)'
  BY <1>6, <1>7 DEF Reset, ResetArrives
<1>8. CASE UNCHANGED vars
  BY <1>6, <1>8 DEF vars, netVars
<1> QED
  BY <1>4, <1>5, <1>7, <1>8 DEF Next

(* In a game of one room, until its first goal: what a player's screen has *)
(* and the server has not is on the way, in one of five places, and what   *)
(* is on the way is nothing else.                                          *)
THEOREM FirstRoundIsExact ==
  ASSUME NEW r, Rooms = {r}
  PROVE  Spec => []FirstRoundExact
<1>1. ASSUME IInv(r), NEW c \in Clients, Playing(c), score = Zero
      PROVE  mine[c] + (IF frame[c] = "move" THEN dir[c] ELSE 0)
               = ServerPaddle(c) + OnTheWay(c)
  <2> DEFINE k == SeatOf(c)
  <2>1. RoomOf(c) = r /\ k \in Seat /\ Seats[r][k] = c
    BY SeatOfSeats
  <2>2. Exact(r, k, c)
    BY <1>1, <2>1 DEF IInv, FirstRound, Playing
  <2> HIDE DEF k
  <2> DEFINE x == IF net[c] = "send" THEN out[c].acc ELSE 0
  <2>3. ServerPaddle(c) = Moved(r, k)
    BY <2>1 DEF ServerPaddle, Moved, k
  <2>4. OnTheWay(c) = inputAcc[k] + InReceiver(r, k) + InputsIn(toServer[c]) + x + acc[c]
    BY <2>1 DEF OnTheWay, k
  <2>5. Shown(c) = Moved(r, k) + inputAcc[k] + InReceiver(r, k) + InputsIn(toServer[c])
                     + (x + acc[c])
    BY <2>2 DEF Exact, Held, Leaving
  <2>6. /\ Moved(r, k) \in Int /\ inputAcc[k] \in Int /\ InReceiver(r, k) \in Int
        /\ InputsIn(toServer[c]) \in Int /\ acc[c] \in Int /\ out[c].acc \in Int
    BY <1>1, <2>1, AmountTypes DEF IInv, Game
  <2>7. x \in Int
    BY <2>6
  <2> HIDE DEF x
  <2>8. Shown(c) = ServerPaddle(c) + OnTheWay(c)
    BY <2>3, <2>4, <2>5, <2>6, <2>7, SMT
  <2> QED
    BY <2>8 DEF Shown
<1>2. IInv(r) => FirstRoundExact
  BY <1>1 DEF FirstRoundExact
<1> QED
  BY <1>2, IInvInit, IInvNext, PTL DEF Spec

(* In a game of one room, what the receiver has accepted is credited to    *)
(* the seat of the client that sent it.                                    *)
THEOREM InputIsCredited ==
  ASSUME NEW r, Rooms = {r}
  PROVE  Spec => []InputCredited
<1>1. ASSUME IInv(r), receiver[r] = "add"
      PROVE  CreditTo(Seats[r][Reading(r)]) = {Reading(r)}
  <2>1. r \in Rooms
    OBVIOUS
  <2>2. ready[r] \subseteq Seat /\ ready[r] # {}
    BY <1>1, <2>1 DEF IInv, Game, Types, ServerTypes, ServerTypeOK
  <2>3. Reading(r) \in Seat
    BY <2>1, <2>2, ReadingSeat
  <2>4. playerIds = Seats[r]
    BY <1>1, <2>1 DEF IInv, Game, Opening, Stages
  <2> QED
    BY <2>1, <2>3, <2>4, CreditIsSeat
<1>2. IInv(r) => InputCredited
  BY <1>1 DEF InputCredited
<1> QED
  BY <1>2, IInvInit, IInvNext, PTL DEF Spec
=============================================================================
