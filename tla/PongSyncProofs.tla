--------------------------- MODULE PongSyncProofs ---------------------------
(***************************************************************************)
(* What the sync is worth in a game of one room: the count of the goals in *)
(* eight bits, announced to both players goal by goal, none left out.      *)
(***************************************************************************)
EXTENDS PongSessionProofs

(* Of the first n packets of q, i is the last init packet; or none is one. *)
LastInit(q, n, i) ==
  i \in 1..n /\ q[i].type = "INIT" /\ \A j \in (i + 1)..n : q[j].type # "INIT"
NoInit(q, n) == \A i \in 1..n : q[i].type # "INIT"

(* Who goes by s and has read the first n packets of q goes on to t.       *)
DueAt(q, n, s, t) ==
  /\ NoInit(q, n) => t = NextSync(s)
  /\ \A i \in 1..n : LastInit(q, n, i) => t = NextSync(q[i].sync)

(* Every init packet of q goes on from where the one before it leaves off. *)
Chain(q, s) ==
  \A j \in 1..Len(q) : q[j].type = "INIT" => DueAt(q, j - 1, s, q[j].sync)
-----------------------------------------------------------------------------
(* A packet more at the end.                                               *)
LEMMA AppendFacts ==
  ASSUME NEW q \in Seq(Packet), NEW p \in Packet, NEW n \in 0..Len(q)
  PROVE  /\ Len(Append(q, p)) = Len(q) + 1
         /\ \A i \in 1..Len(q) : Append(q, p)[i] = q[i]
         /\ Append(q, p)[Len(q) + 1] = p
         /\ NoInit(Append(q, p), n) <=> NoInit(q, n)
         /\ \A i \in 1..n : LastInit(Append(q, p), n, i) <=> LastInit(q, n, i)
<1> DEFINE a == Append(q, p)
<1>1. /\ Len(a) = Len(q) + 1 /\ a[Len(q) + 1] = p
      /\ \A i \in 1..Len(q) : a[i] = q[i]
  BY SMT
<1>2. Len(q) \in Nat
  OBVIOUS
<1> HIDE DEF a
<1>3. \A i \in 1..n : a[i] = q[i]
  BY <1>1, <1>2, SMT
<1>4. NoInit(a, n) <=> NoInit(q, n)
  BY <1>3 DEF NoInit
<1>5. \A i \in 1..n : LastInit(a, n, i) <=> LastInit(q, n, i)
  <2> SUFFICES ASSUME NEW i \in 1..n PROVE LastInit(a, n, i) <=> LastInit(q, n, i)
    OBVIOUS
  <2>1. \A j \in (i + 1)..n : a[j] = q[j]
    BY <1>2, <1>3, SMT
  <2> QED
    BY <1>3, <2>1 DEF LastInit
<1> QED
  BY <1>1, <1>4, <1>5 DEF a

LEMMA ChainAppend ==
  ASSUME NEW q \in Seq(Packet), NEW p \in Packet, NEW s, Chain(q, s),
         p.type = "INIT" => DueAt(q, Len(q), s, p.sync)
  PROVE  Chain(Append(q, p), s)
<1> DEFINE a == Append(q, p)
<1>1. /\ Len(q) \in Nat /\ Len(a) = Len(q) + 1 /\ a[Len(q) + 1] = p
      /\ \A i \in 1..Len(q) : a[i] = q[i]
  BY AppendFacts, SMT
<1>2. ASSUME NEW n \in 0..Len(q), NEW t PROVE DueAt(q, n, s, t) => DueAt(a, n, s, t)
  <2>1. \A i \in 1..n : a[i] = q[i]
    BY <1>1, SMT
  <2> QED
    BY <2>1, AppendFacts DEF DueAt
<1> HIDE DEF a
<1>3. ASSUME NEW j \in 1..Len(a), a[j].type = "INIT"
      PROVE  DueAt(a, j - 1, s, a[j].sync)
  <2>1. CASE j = Len(q) + 1
    <3>1. DueAt(q, Len(q), s, p.sync) /\ j - 1 = Len(q) /\ a[j] = p
      BY <1>1, <1>3, <2>1
    <3>2. Len(q) \in 0..Len(q)
      BY <1>1, SMT
    <3> QED
      BY <1>2, <3>1, <3>2
  <2>2. CASE j # Len(q) + 1
    <3>1. j \in 1..Len(q) /\ j - 1 \in 0..Len(q)
      BY <1>1, <2>2, SMT
    <3>2. a[j] = q[j]
      BY <1>1, <3>1
    <3>3. DueAt(q, j - 1, s, q[j].sync)
      BY <1>3, <3>1, <3>2 DEF Chain
    <3> QED
      BY <1>2, <3>1, <3>2, <3>3
  <2> QED
    BY <2>1, <2>2
<1> QED
  BY <1>3 DEF Chain, a

LEMMA KnownAppend ==
  ASSUME NEW q \in Seq(Packet), NEW p \in Packet, NEW v0, NEW v
  PROVE  /\ p.type = "INIT" =>
              Known(Append(q, p), v0, Len(Append(q, p)), <<p.sync, p.score>>)
         /\ p.type # "INIT" /\ Known(q, v0, Len(q), v) =>
              Known(Append(q, p), v0, Len(Append(q, p)), v)
<1> DEFINE a == Append(q, p)
           n == Len(q)
<1>1. /\ n \in Nat /\ Len(a) = n + 1 /\ a[n + 1] = p /\ \A i \in 1..n : a[i] = q[i]
  BY AppendFacts, SMT
<1> HIDE DEF a, n
<1>2. n + 1 \in 1..(n + 1) /\ \A i \in 1..(n + 1) : i = n + 1 \/ i \in 1..n
  BY <1>1, SMT
<1>3. \A i \in 1..n : n + 1 \in (i + 1)..(n + 1)
  BY <1>1, SMT
<1>4. \A i \in 1..n : \A j \in (i + 1)..n : j \in (i + 1)..(n + 1) /\ j \in 1..n
  BY <1>1, SMT
<1>5. \A i \in 1..n : i \in 1..(n + 1)
  BY <1>1, SMT
<1>6. p.type = "INIT" => Known(a, v0, n + 1, <<p.sync, p.score>>)
  BY <1>1, <1>2, <1>3 DEF Known
<1>7. ASSUME p.type # "INIT", Known(q, v0, n, v) PROVE Known(a, v0, n + 1, v)
  <2>1. ASSUME NEW i \in 1..(n + 1), a[i].type = "INIT",
               \A j \in (i + 1)..(n + 1) : a[j].type # "INIT"
        PROVE  v = <<a[i].sync, a[i].score>>
    <3>1. i \in 1..n
      BY <1>1, <1>2, <1>7, <2>1
    <3>2. a[i] = q[i] /\ \A j \in (i + 1)..n : q[j].type # "INIT"
      BY <1>1, <1>4, <2>1, <3>1
    <3> QED
      BY <1>7, <2>1, <3>1, <3>2 DEF Known
  <2>2. ASSUME \A i \in 1..(n + 1) : a[i].type # "INIT" PROVE v = v0
    BY <1>1, <1>5, <1>7, <2>2 DEF Known
  <2> QED
    BY <2>1, <2>2 DEF Known
<1> QED
  BY <1>1, <1>6, <1>7 DEF a, n

(* What is known is what is gone on from.                                  *)
LEMMA KnownDue ==
  ASSUME NEW q, NEW n, NEW s, NEW p, NEW t, NEW z, Known(q, <<s, p>>, n, <<t, z>>)
  PROVE  DueAt(q, n, s, NextSync(t))
<1>1. NoInit(q, n) => t = s
  BY DEF Known, NoInit
<1>2. \A i \in 1..n : LastInit(q, n, i) => t = q[i].sync
  BY DEF Known, LastInit
<1> QED
  BY <1>1, <1>2 DEF DueAt
-----------------------------------------------------------------------------
(* A packet less at the front: an init packet is what is gone by from then *)
(* on, and a state packet changes nothing.                                 *)
LEMMA TailFacts ==
  ASSUME NEW q \in Seq(Packet), q # <<>>, NEW n \in 1..Len(q)
  PROVE  /\ Tail(q) \in Seq(Packet) /\ Len(q) \in Nat \ {0} /\ Len(Tail(q)) = Len(q) - 1
         /\ Head(q) = q[1] /\ \A i \in 1..(Len(q) - 1) : Tail(q)[i] = q[i + 1]
         /\ \A i \in 1..(n - 1) : LastInit(Tail(q), n - 1, i) => LastInit(q, n, i + 1)
         /\ NoInit(Tail(q), n - 1) =>
              IF Head(q).type = "INIT" THEN LastInit(q, n, 1) ELSE NoInit(q, n)
<1> DEFINE t == Tail(q)
<1>1. /\ t \in Seq(Packet) /\ Len(q) \in Nat \ {0} /\ Len(t) = Len(q) - 1
      /\ Head(q) = q[1] /\ \A i \in 1..(Len(q) - 1) : t[i] = q[i + 1]
  BY SMT
<1> HIDE DEF t
<1>2. \A j \in 2..n : j - 1 \in 1..(n - 1) /\ q[j] = t[j - 1]
  BY <1>1, SMT
<1>3. ASSUME NEW i \in 1..(n - 1), LastInit(t, n - 1, i) PROVE LastInit(q, n, i + 1)
  <2>1. i + 1 \in 1..n /\ q[i + 1] = t[i]
    BY <1>1, SMT
  <2>2. ASSUME NEW j \in (i + 1 + 1)..n PROVE q[j].type # "INIT"
    <3>1. j \in 2..n /\ j - 1 \in (i + 1)..(n - 1)
      BY <1>1, SMT
    <3> QED
      BY <1>2, <1>3, <3>1 DEF LastInit
  <2> QED
    BY <1>3, <2>1, <2>2 DEF LastInit
<1>4. ASSUME NoInit(t, n - 1)
      PROVE  IF Head(q).type = "INIT" THEN LastInit(q, n, 1) ELSE NoInit(q, n)
  <2>1. \A j \in 2..n : q[j].type # "INIT"
    BY <1>2, <1>4 DEF NoInit
  <2>2. \A j \in (1 + 1)..n : q[j].type # "INIT"
    BY <2>1, SMT
  <2>3. 1 \in 1..n /\ \A j \in 1..n : j = 1 \/ j \in 2..n
    BY <1>1, SMT
  <2> QED
    BY <1>1, <2>1, <2>2, <2>3 DEF LastInit, NoInit
<1> QED
  BY <1>1, <1>3, <1>4 DEF t

LEMMA DueTail ==
  ASSUME NEW q \in Seq(Packet), q # <<>>, NEW n \in 1..Len(q), NEW s, NEW t,
         DueAt(q, n, s, t)
  PROVE  DueAt(Tail(q), n - 1, IF Head(q).type = "INIT" THEN Head(q).sync ELSE s, t)
<1>1. /\ Head(q) = q[1] /\ \A i \in 1..(Len(q) - 1) : Tail(q)[i] = q[i + 1]
      /\ Len(q) \in Nat /\ 1 \in 1..n
      /\ \A i \in 1..(n - 1) : LastInit(Tail(q), n - 1, i) => LastInit(q, n, i + 1)
      /\ NoInit(Tail(q), n - 1) =>
           IF Head(q).type = "INIT" THEN LastInit(q, n, 1) ELSE NoInit(q, n)
  BY TailFacts, SMT
<1>2. \A i \in 1..(n - 1) : i + 1 \in 1..n /\ Tail(q)[i] = q[i + 1]
  BY <1>1, SMT
<1>3. \A i \in 1..(n - 1) : LastInit(Tail(q), n - 1, i) => t = NextSync(Tail(q)[i].sync)
  BY <1>1, <1>2 DEF DueAt
<1>4. NoInit(Tail(q), n - 1) =>
        t = NextSync(IF Head(q).type = "INIT" THEN Head(q).sync ELSE s)
  BY <1>1 DEF DueAt
<1> QED
  BY <1>3, <1>4 DEF DueAt

LEMMA ChainTail ==
  ASSUME NEW q \in Seq(Packet), q # <<>>, NEW s, Chain(q, s)
  PROVE  /\ Chain(Tail(q), IF Head(q).type = "INIT" THEN Head(q).sync ELSE s)
         /\ Head(q).type = "INIT" => Head(q).sync = NextSync(s)
<1> DEFINE t == Tail(q)
           z == IF Head(q).type = "INIT" THEN Head(q).sync ELSE s
<1>1. /\ Len(q) \in Nat \ {0} /\ Len(t) = Len(q) - 1 /\ 1 \in 1..Len(q)
      /\ Head(q) = q[1] /\ \A i \in 1..(Len(q) - 1) : t[i] = q[i + 1]
  <2>1. Len(q) \in 1..Len(q)
    BY SMT
  <2> QED
    BY <2>1, TailFacts, SMT
<1> HIDE DEF t
<1>2. ASSUME NEW j \in 1..Len(t), t[j].type = "INIT"
      PROVE  DueAt(t, j - 1, z, t[j].sync)
  <2>1. j + 1 \in 1..Len(q) /\ j \in 1..Len(q) /\ (j + 1) - 1 = j /\ t[j] = q[j + 1]
    BY <1>1, SMT
  <2>2. DueAt(q, j, s, t[j].sync)
    BY <1>2, <2>1 DEF Chain
  <2> QED
    BY <2>1, <2>2, DueTail DEF t
<1>3. Head(q).type = "INIT" => Head(q).sync = NextSync(s)
  <2>1. NoInit(q, 1 - 1)
    BY SMT DEF NoInit
  <2> QED
    BY <1>1, <2>1 DEF Chain, DueAt
<1> QED
  BY <1>2, <1>3 DEF Chain, t

LEMMA KnownTail ==
  ASSUME NEW q \in Seq(Packet), q # <<>>, NEW v0, NEW v, Known(q, v0, Len(q), v)
  PROVE  Known(Tail(q), IF Head(q).type = "INIT" THEN <<Head(q).sync, Head(q).score>> ELSE v0,
               Len(Tail(q)), v)
<1> DEFINE t == Tail(q)
           n == Len(q)
<1>1. /\ n \in Nat \ {0} /\ Len(t) = n - 1 /\ 1 \in 1..n /\ Head(q) = q[1]
      /\ \A i \in 1..(n - 1) : t[i] = q[i + 1] /\ i + 1 \in 1..n
      /\ \A i \in 1..(n - 1) : LastInit(t, n - 1, i) => LastInit(q, n, i + 1)
      /\ NoInit(t, n - 1) =>
           IF Head(q).type = "INIT" THEN LastInit(q, n, 1) ELSE NoInit(q, n)
  <2>1. n \in 1..n /\ 1 \in 1..n /\ \A i \in 1..(n - 1) : i + 1 \in 1..n
    BY SMT
  <2> QED
    BY <2>1, TailFacts
<1> HIDE DEF t, n
<1>2. \A i \in 1..n : LastInit(q, n, i) => v = <<q[i].sync, q[i].score>>
  BY DEF Known, LastInit, n
<1>3. NoInit(q, n) => v = v0
  BY DEF Known, NoInit, n
<1>4. ASSUME NEW i \in 1..(n - 1), t[i].type = "INIT",
             \A j \in (i + 1)..(n - 1) : t[j].type # "INIT"
      PROVE  v = <<t[i].sync, t[i].score>>
  BY <1>1, <1>2, <1>4 DEF LastInit
<1>5. ASSUME \A i \in 1..(n - 1) : t[i].type # "INIT"
      PROVE  v = IF Head(q).type = "INIT" THEN <<Head(q).sync, Head(q).score>> ELSE v0
  BY <1>1, <1>2, <1>3, <1>5 DEF NoInit
<1> QED
  BY <1>1, <1>4, <1>5 DEF Known, t, n
-----------------------------------------------------------------------------
(* The sync once the goal that has been counted last is in it.             *)
NextUp(r) == IF sender[r] = "sync" THEN NextSync(sync) ELSE sync

Round(r) ==
  /\ sender[r] = "off" => score = Zero /\ sync = StartSync
  /\ game[r] \in {"init1", "init2"} \/ sender[r] \in {"send1", "send2"} =>
       packet[r].sync = sync /\ packet[r].score = score
  /\ sender[r] = "sync" => packet[r].type = "INIT"

Counted(r) == SameInt8(score[1] + score[2] + StartSync, NextUp(r))

(* A client goes by what it believes, or, before it runs, by the packet it *)
(* will read first; the rest of the packets are a chain from there, and    *)
(* its end is the server's sync or, before a goal is announced, one less.  *)
Live(c) == app[c] = "run" \/ (app[c] = "connect" /\ toClient[c] # <<>>)
Rest(c) == IF app[c] = "connect" THEN Tail(toClient[c]) ELSE toClient[c]
BaseSync(c) ==
  IF app[c] = "connect" THEN Head(toClient[c]).sync
  ELSE IF rcv[c] = "sync" THEN hand[c].sync ELSE csync[c]
BaseScore(c) ==
  IF app[c] = "connect" THEN Head(toClient[c]).score
  ELSE IF rcv[c] = "sync" THEN hand[c].score ELSE points[c]

Pending(r, k) ==
  \/ sender[r] = "sync"
  \/ sender[r] \in {"pack", "send1"} /\ packet[r].type = "INIT"
  \/ sender[r] = "send2" /\ packet[r].type = "INIT" /\ k = 2

UpToDate(r, k, c) ==
  IF Pending(r, k)
    THEN DueAt(Rest(c), Len(Rest(c)), BaseSync(c), NextUp(r))
    ELSE Known(Rest(c), <<BaseSync(c), BaseScore(c)>>, Len(Rest(c)), <<sync, score>>)

Before(r, k) == game[r] \in {"ids", "start", "init1"} \/ (game[r] = "init2" /\ k = 2)

Follows(r, k, c) ==
  /\ Before(r, k) => toClient[c] = <<>> /\ app[c] \in {"connect", "exit"}
  /\ app[c] = "connect" /\ toClient[c] # <<>> => Head(toClient[c]).score = Zero
  /\ app[c] = "run" /\ rcv[c] = "sync" =>
       hand[c].score = points[c] /\ hand[c].sync = NextSync(csync[c])
  /\ Live(c) => Chain(Rest(c), BaseSync(c))
  /\ Live(c) /\ sender[r] # "done" => UpToDate(r, k, c)

AllFollow(r) == \A k \in Seat : Follows(r, k, Seats[r][k])

(* The invariant of a game of one room.                                    *)
Game(r) == Types /\ Links /\ Stages /\ Firsts /\ Round(r) /\ Counted(r) /\ AllFollow(r)
-----------------------------------------------------------------------------
LEMMA RoomTypes ==
  ASSUME Types
  PROVE  /\ game \in [Rooms -> {"ids", "start", "init1", "init2", "join", "done"}]
         /\ sender \in [Rooms -> {"off", "input", "advance", "sync", "pack", "send1",
                                  "send2", "done"}]
         /\ packet \in [Rooms -> Packet]
         /\ score \in [Seat -> Nat] /\ sync \in Int8 /\ NetTypes
BY DEF Types, ServerTypes, ServerTypeOK

LEMMA AppTypes ==
  ASSUME Types
  PROVE  /\ app \in [Clients -> {"connect", "run", "leave", "exit"}]
         /\ rcv \in [Clients -> {"recv", "sync", "clear"}]
         /\ csync \in [Clients -> -128..127]
         /\ points \in [Clients -> [1..2 -> Nat]]
         /\ hand \in [Clients -> Packet \cup {EmptyHand}]
         /\ toClient \in [Clients -> Seq(Packet)]
BY DEF Types, ClientTypes, ClientTypeOK, NetTypes

(* Who may change the sync and the score: a goal, and nobody else, counts. *)
LEMMA ServerCounts ==
  ASSUME Types, Stages, NEW r \in Rooms, Round(r), Server(r)
  PROVE  \/ \E k \in Seat : Goal(r, k) /\ NextUp(r) = sync /\ NextUp(r)' = NextSync(sync)
         \/ NextUp(r)' = NextUp(r) /\ score' = score
<1> USE RoomTypes
<1>1. CASE \E k \in Seat : Goal(r, k)
  BY <1>1 DEF Goal, NextUp
<1>2. CASE BumpSync(r)
  BY <1>2 DEF BumpSync, NextUp
<1>3. CASE StartPlayers(r)
  BY <1>3 DEF StartPlayers, NextUp, Stages, Round
<1>4. CASE StartField(r) \/ SendInit(r) \/ SendInitFails(r) \/ Join(r)
  <2>1. sync' = sync /\ score' = score /\ (sender'[r] = "sync" <=> sender[r] = "sync")
    BY <1>4 DEF StartField, SendInit, SendInitFails, Join, gameVars, Stages
  <2> QED
    BY <2>1 DEF NextUp
<1>5. CASE TakeInput(r) \/ AdvanceBall(r) \/ Pack(r) \/ Broadcast(r) \/ BroadcastFails(r)
  <2>1. sync' = sync /\ score' = score /\ sender[r] # "sync" /\ sender'[r] # "sync"
    BY <1>5 DEF TakeInput, AdvanceBall, Pack, Broadcast, BroadcastFails, gameVars
  <2> QED
    BY <2>1 DEF NextUp
<1>6. CASE ReceiverThread(r)
  <2>1. sync' = sync /\ score' = score /\ sender' = sender
    BY <1>6 DEF ReceiverThread, CheckDisbanded, Poll, RecvInput, RecvEnd, RecvError,
                AddInput, gameVars
  <2> QED
    BY <2>1 DEF NextUp
<1> QED
  BY <1>1, <1>2, <1>3, <1>4, <1>5, <1>6 DEF Server, GameThread, SenderThread

LEMMA RoundServer ==
  ASSUME Types, Stages, NEW r \in Rooms, Round(r), Server(r)
  PROVE  Round(r)'
<1> USE RoomTypes
<1>1. CASE StartPlayers(r)
  BY <1>1 DEF StartPlayers, Round, Stages
<1>2. CASE StartField(r)
  <2>1. sender[r] = "off" /\ packet'[r].sync = sync /\ packet'[r].score = score
    BY <1>2 DEF StartField, Stages
  <2>2. UNCHANGED <<sender, sync, score>>
    BY <1>2 DEF StartField
  <2> QED
    BY <2>1, <2>2 DEF Round
<1>3. CASE SendInit(r)
  BY <1>3 DEF SendInit, gameVars, Round, Stages
<1>4. CASE SendInitFails(r)
  BY <1>4 DEF SendInitFails, gameVars, Round, Stages
<1>5. CASE Join(r)
  BY <1>5 DEF Join, gameVars, Round
<1>6. ASSUME SenderThread(r)
      PROVE  game' = game /\ game[r] \notin {"init1", "init2"} /\ sender'[r] # "off"
  BY <1>6 DEF SenderThread, TakeInput, AdvanceBall, Goal, BumpSync, Pack, Broadcast,
              BroadcastFails, Stages
<1>7. CASE TakeInput(r) \/ AdvanceBall(r) \/ BumpSync(r) \/ BroadcastFails(r)
  <2>1. sender'[r] \in {"advance", "pack", "done"}
    BY <1>7 DEF TakeInput, AdvanceBall, BumpSync, BroadcastFails
  <2> QED
    BY <1>6, <1>7, <2>1 DEF SenderThread, Round
<1>8. ASSUME NEW k \in Seat, Goal(r, k) PROVE Round(r)'
  <2>1. sender'[r] = "sync"
    BY <1>8 DEF Goal
  <2>2. packet'[r].type = "INIT"
    <3>1. packet'[r] = [packet[r] EXCEPT !.type = "INIT"]
      BY <1>8 DEF Goal
    <3> QED
      BY <3>1 DEF Packet
  <2> QED
    BY <1>6, <1>8, <2>1, <2>2 DEF SenderThread, Round
<1>9. CASE Pack(r)
  <2>1. sender'[r] = "send1" /\ packet'[r].sync = sync' /\ packet'[r].score = score'
    BY <1>9 DEF Pack, gameVars
  <2> QED
    BY <1>6, <1>9, <2>1 DEF SenderThread, Round
<1>10. CASE Broadcast(r)
  BY <1>6, <1>10 DEF SenderThread, Broadcast, gameVars, Round
<1>11. CASE ReceiverThread(r)
  <2>1. UNCHANGED <<game, sender, packet, sync, score>>
    BY <1>11 DEF ReceiverThread, CheckDisbanded, Poll, RecvInput, RecvEnd, RecvError,
                 AddInput, gameVars
  <2> QED
    BY <2>1 DEF Round
<1> QED
  BY <1>1, <1>2, <1>3, <1>4, <1>5, <1>7, <1>8, <1>9, <1>10, <1>11
     DEF Server, GameThread, SenderThread

LEMMA CountMore ==
  ASSUME NEW n \in Int, NEW s \in Int8, SameInt8(n, s)
  PROVE  SameInt8(n + 1, NextSync(s))
BY SMT DEF NextSync, Int8, SameInt8

LEMMA CountedServer ==
  ASSUME Types, Stages, NEW r \in Rooms, Round(r), Counted(r), Server(r)
  PROVE  Counted(r)'
<1>1. CASE NextUp(r)' = NextUp(r) /\ score' = score
  BY <1>1 DEF Counted
<1>2. ASSUME NEW k \in Seat, Goal(r, k), NextUp(r) = sync, NextUp(r)' = NextSync(sync)
      PROVE  Counted(r)'
  <2> DEFINE n == score[1] + score[2] + StartSync
  <2>1. /\ score[1] \in Nat /\ score[2] \in Nat /\ StartSync \in Int /\ sync \in Int8
        /\ 1 \in Seat /\ 2 \in Seat /\ (k = 1 \/ k = 2)
    <3>1. StartSync \in Int
      BY PongServerAssumption DEF Int8
    <3> QED
      BY <3>1, RoomTypes, SeatFacts
  <2>2. score'[1] + score'[2] + StartSync = n + 1 /\ n \in Int
    <3>1. score' = [score EXCEPT ![k] = score[k] + 1]
      BY <1>2 DEF Goal
    <3>2. \/ score'[1] = score[1] + 1 /\ score'[2] = score[2]
          \/ score'[2] = score[2] + 1 /\ score'[1] = score[1]
      BY <2>1, <3>1, RoomTypes
    <3> QED
      BY <2>1, <3>2, SMT
  <2>3. SameInt8(n, sync)
    BY <1>2, Zenon DEF Counted
  <2> HIDE DEF n
  <2>4. SameInt8(n + 1, NextSync(sync))
    BY <2>1, <2>2, <2>3, CountMore
  <2> QED
    BY <1>2, <2>2, <2>4, Zenon DEF Counted
<1> QED
  BY <1>1, <1>2, ServerCounts
-----------------------------------------------------------------------------
LEMMA RestTypes ==
  ASSUME Types, NEW c \in Clients, Live(c)
  PROVE  /\ Rest(c) \in Seq(Packet)
         /\ toClient[c] \in Seq(Packet)
<1>1. toClient[c] \in Seq(Packet)
  BY AppTypes
<1>2. toClient[c] # <<>> => Tail(toClient[c]) \in Seq(Packet)
  BY <1>1, SMT
<1> QED
  BY <1>1, <1>2 DEF Rest, Live

(* Nothing is sent to the client: it stays as far behind as it was, and a  *)
(* goal puts it one behind.                                                *)
LEMMA FollowsSilent ==
  ASSUME Types, NEW r \in Rooms, NEW k \in Seat, NEW c \in Clients, Follows(r, k, c),
         UNCHANGED clientVars, toClient'[c] = toClient[c],
         Before(r, k)' => Before(r, k),
         sender'[r] # "done" =>
           /\ sender[r] # "done"
           /\ \/ Pending(r, k)' /\ Pending(r, k) /\ NextUp(r)' = NextUp(r)
              \/ Pending(r, k)' /\ ~Pending(r, k) /\ NextUp(r)' = NextSync(sync)
              \/ ~Pending(r, k)' /\ ~Pending(r, k) /\ score' = score /\ sync' = sync
  PROVE  Follows(r, k, c)'
<1>1. UNCHANGED <<app, rcv, hand, csync, points>>
  BY DEF clientVars
<1>2. /\ Live(c)' = Live(c) /\ Rest(c)' = Rest(c)
      /\ BaseSync(c)' = BaseSync(c) /\ BaseScore(c)' = BaseScore(c)
  BY <1>1 DEF Live, Rest, BaseSync, BaseScore
<1>3. ASSUME Live(c), sender'[r] # "done" PROVE UpToDate(r, k, c)'
  <2>1. sender[r] # "done" /\ UpToDate(r, k, c)
    BY <1>3 DEF Follows
  <2>2. CASE Pending(r, k)' /\ Pending(r, k) /\ NextUp(r)' = NextUp(r)
    BY <1>2, <2>1, <2>2 DEF UpToDate
  <2>3. CASE Pending(r, k)' /\ ~Pending(r, k) /\ NextUp(r)' = NextSync(sync)
    <3>1. DueAt(Rest(c), Len(Rest(c)), BaseSync(c), NextSync(sync))
      BY <2>1, <2>3, KnownDue DEF UpToDate
    <3> QED
      BY <1>2, <2>3, <3>1 DEF UpToDate
  <2>4. CASE ~Pending(r, k)' /\ ~Pending(r, k) /\ score' = score /\ sync' = sync
    BY <1>2, <2>1, <2>4 DEF UpToDate
  <2> QED
    BY <1>3, <2>2, <2>3, <2>4
<1>4. /\ Live(c)' => Chain(Rest(c), BaseSync(c))'
      /\ app[c] = "connect" /\ toClient[c] # <<>> => Head(toClient[c]).score = Zero
      /\ app[c] = "run" /\ rcv[c] = "sync" =>
           hand[c].score = points[c] /\ hand[c].sync = NextSync(csync[c])
      /\ Before(r, k) => toClient[c] = <<>> /\ app[c] \in {"connect", "exit"}
  BY <1>2 DEF Follows
<1>5. Before(r, k)' => toClient'[c] = <<>> /\ app'[c] \in {"connect", "exit"}
  BY <1>1, <1>4
<1> QED
  BY <1>1, <1>2, <1>3, <1>4, <1>5 DEF Follows

(* A packet is sent to a client that has been sent its first: a goal that  *)
(* was pending is announced now.                                           *)
LEMMA FollowsDelivered ==
  ASSUME Types, Links, NEW r \in Rooms, NEW k \in Seat, NEW c \in Clients,
         First(r, k, c), Follows(r, k, c), Sent(r, k), sender[r] # "done",
         NEW p \in Packet, Sends(c, p), UNCHANGED <<clientVars, sync, score>>,
         p.sync = sync, p.score = score, NextUp(r) = sync,
         Pending(r, k) <=> p.type = "INIT", ~Before(r, k)',
         sender'[r] = "done" \/ ~Pending(r, k)'
  PROVE  Follows(r, k, c)'
<1>1. UNCHANGED <<app, rcv, hand, csync, points>>
  BY DEF clientVars
<1>2. CASE Live(c)
  <2> DEFINE q == Rest(c)
             b == <<BaseSync(c), BaseScore(c)>>
  <2>1. toClient'[c] = Append(toClient[c], p) /\ (app[c] = "connect" => toClient[c] # <<>>)
    BY <1>2 DEF Sends, Links, Live
  <2>2. toClient[c] \in Seq(Packet) /\ q \in Seq(Packet)
    BY <1>2, RestTypes
  <2>3. toClient[c] # <<>> => /\ Head(Append(toClient[c], p)) = Head(toClient[c])
                              /\ Tail(Append(toClient[c], p)) = Append(Tail(toClient[c]), p)
                              /\ Append(toClient[c], p) # <<>>
    BY <2>2, SMT
  <2>4. /\ Rest(c)' = Append(q, p)
        /\ BaseSync(c)' = BaseSync(c) /\ BaseScore(c)' = BaseScore(c)
        /\ app[c] = "connect" => Head(toClient'[c]) = Head(toClient[c])
    BY <1>1, <2>1, <2>3 DEF Rest, BaseSync, BaseScore
  <2>5. Chain(q, BaseSync(c)) /\ UpToDate(r, k, c)
    BY <1>2 DEF Follows
  <2>6. Chain(Append(q, p), BaseSync(c))
    <3>1. p.type = "INIT" => DueAt(q, Len(q), BaseSync(c), p.sync)
      BY <2>5 DEF UpToDate
    <3> HIDE DEF q
    <3> QED
      BY <2>2, <2>5, <3>1, ChainAppend DEF q
  <2>7. Known(Append(q, p), b, Len(Append(q, p)), <<sync, score>>)
    <3>1. p.type # "INIT" => Known(q, b, Len(q), <<sync, score>>)
      BY <2>5 DEF UpToDate
    <3> HIDE DEF q, b
    <3> QED
      BY <2>2, <3>1, KnownAppend
  <2>8. sender'[r] # "done" => UpToDate(r, k, c)'
    BY <2>4, <2>7 DEF UpToDate
  <2>9. app'[c] = "connect" => Head(toClient'[c]).score = Zero
    BY <1>1, <2>1, <2>4 DEF Follows
  <2> QED
    BY <1>1, <2>4, <2>6, <2>8, <2>9 DEF Follows
<1>3. CASE ~Live(c)
  <2>1. app[c] \notin {"run", "connect"}
    BY <1>3 DEF Live, First
  <2> QED
    BY <1>1, <2>1 DEF Live, Follows
<1> QED
  BY <1>2, <1>3

(* The first packet that is sent to a client.                              *)
LEMMA FollowsFirst ==
  ASSUME Types, Links, NEW r \in Rooms, NEW k \in Seat, NEW c \in Clients,
         Follows(r, k, c), Before(r, k), ~Before(r, k)',
         NEW p \in Packet, Sends(c, p), UNCHANGED <<clientVars, sync, score>>,
         p.sync = sync, p.score = score, score = Zero, ~Pending(r, k)'
  PROVE  Follows(r, k, c)'
<1>1. UNCHANGED <<app, rcv, hand, csync, points>>
  BY DEF clientVars
<1>2. toClient[c] = <<>> /\ app[c] \in {"connect", "exit"}
  BY DEF Follows
<1>3. CASE app[c] = "connect"
  <2>1. toClient'[c] = <<p>>
    <3>1. toClient'[c] = Append(<<>>, p)
      BY <1>2, <1>3 DEF Sends, Links
    <3> QED
      BY <3>1, SMT
  <2>2. Head(<<p>>) = p /\ Tail(<<p>>) = <<>> /\ Len(<<>>) = 0 /\ <<p>> # <<>>
    BY SMT
  <2>3. Rest(c)' = <<>> /\ BaseSync(c)' = sync /\ BaseScore(c)' = score
    BY <1>1, <1>3, <2>1, <2>2 DEF Rest, BaseSync, BaseScore
  <2>4. \A s : Chain(<<>>, s)
    BY <2>2, SMT DEF Chain
  <2>5. Known(<<>>, <<sync, score>>, 0, <<sync, score>>)
    BY SMT DEF Known
  <2>6. UpToDate(r, k, c)'
    BY <2>2, <2>3, <2>5 DEF UpToDate
  <2> QED
    BY <1>1, <1>3, <2>1, <2>2, <2>3, <2>4, <2>6 DEF Follows
<1>4. CASE app[c] = "exit"
  BY <1>1, <1>4 DEF Follows, Live
<1> QED
  BY <1>2, <1>3, <1>4
-----------------------------------------------------------------------------
(* What the steps that send nothing do to Before, Pending and NextUp.      *)
LEMMA GamePending ==
  ASSUME Types, Stages, NEW r \in Rooms, Round(r), GameThread(r), ~SendInit(r), NEW k \in Seat
  PROVE  /\ Before(r, k)' => Before(r, k)
         /\ sender' = sender /\ NextUp(r)' = NextUp(r) /\ Pending(r, k)' = Pending(r, k)
         /\ score' = score /\ sync' = sync
<1> USE RoomTypes
<1>1. sender' = sender /\ sync' = sync
  BY DEF GameThread, StartPlayers, StartField, SendInitFails, Join, gameVars
<1>2. score' = score
  BY DEF GameThread, StartPlayers, StartField, SendInitFails, Join, gameVars, Stages, Round
<1>3. sender[r] # "off" => packet'[r] = packet[r]
  BY DEF GameThread, StartPlayers, StartField, SendInitFails, Join, Stages
<1>4. Before(r, k)' => Before(r, k)
  BY DEF GameThread, StartPlayers, StartField, SendInitFails, Join, Before
<1> QED
  BY <1>1, <1>2, <1>3, <1>4 DEF NextUp, Pending

LEMMA SenderPending ==
  ASSUME Types, Stages, NEW r \in Rooms, Round(r), SenderThread(r), ~Broadcast(r),
         NEW k \in Seat, sender'[r] # "done"
  PROVE  /\ sender[r] # "done"
         /\ \/ Pending(r, k)' /\ Pending(r, k) /\ NextUp(r)' = NextUp(r)
            \/ Pending(r, k)' /\ ~Pending(r, k) /\ NextUp(r)' = NextSync(sync)
            \/ ~Pending(r, k)' /\ ~Pending(r, k) /\ score' = score /\ sync' = sync
<1> USE RoomTypes
<1>1. CASE TakeInput(r)
  BY <1>1 DEF TakeInput, Pending
<1>2. CASE AdvanceBall(r)
  <2>1. packet'[r].type = "STATE"
    <3>1. packet'[r] = [packet[r] EXCEPT !.type = "STATE"]
      BY <1>2 DEF AdvanceBall
    <3> QED
      BY <3>1 DEF Packet
  <2>2. sender[r] = "advance" /\ sender'[r] = "pack" /\ score' = score /\ sync' = sync
    BY <1>2 DEF AdvanceBall
  <2> QED
    BY <2>1, <2>2 DEF Pending
<1>3. ASSUME NEW j \in Seat, Goal(r, j)
      PROVE  Pending(r, k)' /\ ~Pending(r, k) /\ NextUp(r)' = NextSync(sync)
             /\ sender[r] # "done"
  BY <1>3 DEF Goal, Pending, NextUp
<1>4. CASE BumpSync(r)
  BY <1>4 DEF BumpSync, Pending, NextUp, Round
<1>5. CASE Pack(r)
  <2>1. packet'[r].type = packet[r].type /\ sender[r] = "pack" /\ sender'[r] = "send1"
        /\ score' = score /\ sync' = sync
    BY <1>5 DEF Pack, gameVars
  <2> QED
    BY <2>1 DEF Pending, NextUp
<1>6. CASE BroadcastFails(r)
  BY <1>6 DEF BroadcastFails
<1> QED
  BY <1>1, <1>2, <1>3, <1>4, <1>5, <1>6 DEF SenderThread

LEMMA FollowsServer ==
  ASSUME Types, Links, Stages, Firsts, NEW r \in Rooms, Round(r), AllFollow(r), Server(r)
  PROVE  AllFollow(r)'
<1> SUFFICES ASSUME NEW k \in Seat PROVE Follows(r, k, Seats[r][k])'
  BY DEF AllFollow
<1> DEFINE c == Seats[r][k]
<1>1. c \in Clients /\ Follows(r, k, c) /\ First(r, k, c) /\ UNCHANGED clientVars
  BY SeatFacts DEF AllFollow, Firsts, Server
<1>2. \A j \in Seat : Seats[r][j] \in Clients /\ (Seats[r][j] = c => j = k)
  BY SeatFacts, PongServerAssumption
<1> HIDE DEF c
<1> USE RoomTypes
<1>3. CASE SendInit(r)
  <2>1. /\ sender[r] = "off" /\ sender'[r] \in {"off", "input"} /\ sync' = sync
        /\ score' = score /\ score = Zero /\ game[r] \in {"init1", "init2"}
        /\ packet[r].sync = sync /\ packet[r].score = score /\ packet[r] \in Packet
    BY <1>3 DEF SendInit, gameVars, Stages, Round
  <2>2. ~Pending(r, k) /\ ~Pending(r, k)'
    BY <2>1 DEF Pending
  <2>3. PICK j \in Seat :
          /\ game[r] = (IF j = 1 THEN "init1" ELSE "init2")
          /\ game'[r] = (IF j = 1 THEN "init2" ELSE "join")
          /\ ServerSend(Seats[r][j], [packet[r] EXCEPT !.own = j])
    <3>1. \/ /\ game[r] = "init1" /\ game'[r] = "init2"
             /\ ServerSend(Seats[r][1], [packet[r] EXCEPT !.own = 1])
          \/ /\ game[r] = "init2" /\ game'[r] = "join"
             /\ ServerSend(Seats[r][2], [packet[r] EXCEPT !.own = 2])
      BY <1>3 DEF SendInit
    <3>2. CASE game[r] = "init1"
      <4>1. game'[r] = "init2" /\ ServerSend(Seats[r][1], [packet[r] EXCEPT !.own = 1])
        BY <3>1, <3>2
      <4> 1 \in Seat
        BY SeatFacts
      <4> WITNESS 1 \in Seat
      <4> QED
        BY <3>2, <4>1
    <3>3. CASE game[r] = "init2"
      <4>1. game'[r] = "join" /\ ServerSend(Seats[r][2], [packet[r] EXCEPT !.own = 2])
        BY <3>1, <3>3
      <4> 2 \in Seat
        BY SeatFacts
      <4> WITNESS 2 \in Seat
      <4>2. 2 # 1
        BY SMT
      <4> QED
        BY <3>3, <4>1, <4>2
    <3> QED
      BY <3>1, <3>2, <3>3
  <2> DEFINE p == [packet[r] EXCEPT !.own = j]
  <2>4. p \in Packet /\ p.sync = sync /\ p.score = score
    BY <2>1, PacketFields
  <2> HIDE DEF p
  <2>5. Sends(Seats[r][j], p)
    BY <1>2, <2>3, NetworkEffects DEF p
  <2>6. CASE j = k
    <3>1. Before(r, k) /\ ~Before(r, k)'
      BY <2>3, <2>6, SeatFacts DEF Before
    <3> QED
      BY <1>1, <2>1, <2>2, <2>4, <2>5, <2>6, <3>1, FollowsFirst DEF c
  <2>7. CASE j # k
    <3>1. toClient'[c] = toClient[c] /\ (Before(r, k)' => Before(r, k))
      BY <1>1, <1>2, <2>3, <2>5, <2>7, SeatFacts DEF Sends, Before
    <3> QED
      BY <1>1, <2>1, <2>2, <3>1, FollowsSilent DEF c
  <2> QED
    BY <2>6, <2>7
<1>4. CASE Broadcast(r)
  <2>1. PICK j \in Seat :
          /\ sender[r] = (IF j = 1 THEN "send1" ELSE "send2")
          /\ IF j = 1 THEN sender'[r] = "send2" /\ packet' = packet
                      ELSE sender'[r] \in {"done", "input"}
          /\ ServerSend(Seats[r][j], packet[r])
    BY <1>4, SeatFacts DEF Broadcast
  <2>2. /\ sync' = sync /\ score' = score /\ game' = game /\ ~Before(r, k)
        /\ sender[r] \in {"send1", "send2"} /\ NextUp(r) = sync /\ NextUp(r)' = sync
        /\ packet[r].sync = sync /\ packet[r].score = score /\ packet[r] \in Packet
    <3>1. sync' = sync /\ score' = score /\ game' = game
          /\ sender[r] \in {"send1", "send2"} /\ sender'[r] # "sync"
      BY <1>4, <2>1 DEF Broadcast, gameVars
    <3> QED
      BY <3>1 DEF NextUp, Before, Stages, Round
  <2>3. ~Before(r, k)' /\ Sent(r, k)
    BY <2>2 DEF Before, Sent
  <2>4. Sends(Seats[r][j], packet[r])
    BY <1>2, <2>1, NetworkEffects
  <2>5. CASE j = k
    <3>1. (Pending(r, k) <=> packet[r].type = "INIT")
          /\ (sender'[r] = "done" \/ ~Pending(r, k)')
      BY <2>1, <2>5, SeatFacts DEF Pending
    <3> QED
      BY <1>1, <2>2, <2>3, <2>4, <2>5, <3>1, FollowsDelivered DEF c
  <2>6. CASE j # k
    <3>1. toClient'[c] = toClient[c]
      BY <1>1, <1>2, <2>4, <2>6 DEF Sends
    <3>2. sender'[r] = "done" \/ Pending(r, k)' = Pending(r, k)
      BY <2>1, <2>6, SeatFacts DEF Pending
    <3> QED
      BY <1>1, <2>2, <2>3, <3>1, <3>2, FollowsSilent DEF c
  <2> QED
    BY <2>5, <2>6
<1>5. CASE GameThread(r) /\ ~SendInit(r)
  <2>1. toClient' = toClient
    BY <1>5, GameThreadEffects DEF Silent
  <2> QED
    BY <1>1, <1>5, <2>1, GamePending, FollowsSilent DEF c
<1>6. CASE SenderThread(r) /\ ~Broadcast(r)
  <2>1. toClient' = toClient
    BY <1>6, SenderThreadEffects DEF Silent
  <2>2. game' = game
    BY <1>6 DEF SenderThread, TakeInput, AdvanceBall, Goal, BumpSync, Pack, BroadcastFails
  <2>3. Before(r, k)' = Before(r, k)
    BY <2>2 DEF Before
  <2> QED
    BY <1>1, <1>6, <2>1, <2>3, SenderPending, FollowsSilent DEF c
<1>7. CASE ReceiverThread(r)
  <2>1. toClient' = toClient
    BY <1>7, ReceiverThreadEffects DEF Silent
  <2>2. UNCHANGED <<game, sender, packet, sync, score>>
    BY <1>7 DEF ReceiverThread, CheckDisbanded, Poll, RecvInput, RecvEnd, RecvError,
                AddInput, gameVars
  <2>3. Before(r, k)' = Before(r, k) /\ Pending(r, k)' = Pending(r, k)
        /\ NextUp(r)' = NextUp(r)
    BY <2>2 DEF Before, Pending, NextUp
  <2> QED
    BY <1>1, <2>1, <2>2, <2>3, FollowsSilent DEF c
<1> QED
  BY <1>3, <1>4, <1>5, <1>6, <1>7 DEF Server

LEMMA FollowsClient ==
  ASSUME Types, Firsts, NEW r \in Rooms, AllFollow(r), NEW b \in Clients, Client(b)
  PROVE  AllFollow(r)'
<1> SUFFICES ASSUME NEW k \in Seat PROVE Follows(r, k, Seats[r][k])'
  BY DEF AllFollow
<1> DEFINE c == Seats[r][k]
<1>1. c \in Clients /\ Follows(r, k, c) /\ First(r, k, c)
  BY SeatFacts DEF AllFollow, Firsts
<1>2. UNCHANGED <<game, sender, packet, sync, score>>
  BY DEF Client, serverVars, gameVars, roomVars
<1>3. /\ Before(r, k)' = Before(r, k) /\ Pending(r, k)' = Pending(r, k)
      /\ NextUp(r)' = NextUp(r)
  BY <1>2 DEF Before, Pending, NextUp
<1> HIDE DEF c
<1> USE AppTypes
<1>4. ASSUME UNCHANGED <<app[c], rcv[c], hand[c], csync[c], points[c], toClient[c]>>
      PROVE  Follows(r, k, c)'
  <2>1. /\ Live(c)' = Live(c) /\ Rest(c)' = Rest(c)
        /\ BaseSync(c)' = BaseSync(c) /\ BaseScore(c)' = BaseScore(c)
    BY <1>4 DEF Live, Rest, BaseSync, BaseScore
  <2>2. UpToDate(r, k, c)' = UpToDate(r, k, c)
    BY <1>2, <1>3, <2>1 DEF UpToDate
  <2> QED
    BY <1>1, <1>2, <1>3, <1>4, <2>1, <2>2 DEF Follows
<1>5. CASE b # c
  <2>1. UNCHANGED <<app[c], rcv[c], hand[c], csync[c], points[c], toClient[c]>>
    BY <1>1, <1>5 DEF Client, ClientNext, Quit, Start, UpdateThread, NetworkThread,
       StateReceiver, Frame, MovePaddle, NetTick, NetSend, RecvState, RecvInit, TakeSync,
       ClearInput, ClientSend, ClientRecv, ClientClose, netVars, clientVars
  <2> QED
    BY <1>4, <2>1 DEF c
<1>6. CASE b = c
  <2> DEFINE q == toClient[c]
             p == Head(q)
  <2>1. q \in Seq(Packet)
    BY <1>1
  <2>2. CASE Start(c)
    <3>1. q # <<>> /\ app[c] = "connect" /\ rcv[c] = "recv" /\ toClient'[c] = Tail(q)
          /\ p.type = "INIT" /\ p.score = Zero
      BY <1>1, <2>2 DEF Start, ClientRecv, First, Follows
    <3>2. /\ app'[c] = "run" /\ csync'[c] = p.sync /\ points'[c] = Zero
          /\ rcv'[c] = "recv"
      BY <1>1, <2>2, <3>1, ConstantTypes DEF Start
    <3>3. /\ Live(c) /\ Rest(c)' = Rest(c)
          /\ BaseSync(c)' = BaseSync(c) /\ BaseScore(c)' = BaseScore(c)
      BY <3>1, <3>2 DEF Live, Rest, BaseSync, BaseScore
    <3>4. UpToDate(r, k, c)' = UpToDate(r, k, c)
      BY <1>2, <1>3, <3>3 DEF UpToDate
    <3>5. ~Before(r, k)
      BY <1>1, <3>1 DEF Follows
    <3> QED
      BY <1>1, <1>2, <1>3, <3>2, <3>3, <3>4, <3>5 DEF Follows, c
  <2>3. CASE Quit(c)
    <3>1. app'[c] = "exit" /\ toClient'[c] = <<>>
      BY <1>1, <2>3 DEF Quit, ClientClose
    <3> QED
      BY <3>1 DEF Follows, Live, c
  <2>4. CASE UpdateThread(c) \/ NetworkThread(c)
    <3>1. UNCHANGED <<app, rcv, hand, csync, points, toClient>>
      BY <2>4 DEF UpdateThread, NetworkThread, Frame, MovePaddle, NetTick, NetSend,
                  ClientSend, netVars
    <3> QED
      BY <1>4, <3>1 DEF c
  <2>5. ASSUME app[c] = "run" PROVE Live(c) /\ ~Before(r, k) /\ Rest(c) = q
    BY <1>1, <2>5 DEF Live, Follows, Rest
  <2>6. CASE RecvState(c)
    <3>1. /\ q # <<>> /\ app[c] = "run" /\ app'[c] = "run" /\ rcv[c] = "recv"
          /\ p.type # "INIT" /\ toClient'[c] = Tail(q)
          /\ UNCHANGED <<rcv, hand, csync, points>>
      BY <1>1, <2>6 DEF RecvState, ClientRecv, clientVars
    <3>2. /\ Rest(c)' = Tail(q) /\ BaseSync(c)' = BaseSync(c)
          /\ BaseScore(c)' = BaseScore(c)
      BY <3>1 DEF Rest, BaseSync, BaseScore
    <3>3. Chain(Tail(q), BaseSync(c))
      BY <1>1, <2>1, <2>5, <3>1, ChainTail DEF Follows
    <3>4. ASSUME sender[r] # "done" PROVE UpToDate(r, k, c)'
      <4>1. UpToDate(r, k, c)
        BY <1>1, <2>5, <3>1, <3>4 DEF Follows
      <4>2. CASE Pending(r, k)
        <5>1. Len(q) \in 1..Len(q) /\ Len(Tail(q)) = Len(q) - 1
          BY <2>1, <3>1, SMT
        <5>2. DueAt(Tail(q), Len(Tail(q)), BaseSync(c), NextUp(r))
          BY <2>1, <2>5, <3>1, <4>1, <4>2, <5>1, DueTail DEF UpToDate
        <5> QED
          BY <1>3, <3>2, <4>2, <5>2 DEF UpToDate
      <4>3. CASE ~Pending(r, k)
        <5>1. Known(Tail(q), <<BaseSync(c), BaseScore(c)>>, Len(Tail(q)), <<sync, score>>)
          BY <2>1, <2>5, <3>1, <4>1, <4>3, KnownTail DEF UpToDate
        <5> QED
          BY <1>2, <1>3, <3>2, <4>3, <5>1 DEF UpToDate
      <4> QED
        BY <4>2, <4>3
    <3> QED
      BY <1>2, <1>3, <2>5, <3>1, <3>2, <3>3, <3>4 DEF Follows, c
  <2>7. CASE RecvInit(c)
    <3>1. /\ q # <<>> /\ app[c] = "run" /\ app'[c] = "run" /\ rcv[c] = "recv"
          /\ p.type = "INIT" /\ toClient'[c] = Tail(q) /\ csync' = csync
          /\ points'[c] = p.score /\ hand'[c] = p /\ rcv'[c] = "sync"
      BY <1>1, <2>7 DEF RecvInit, ClientRecv
    <3>2. /\ Rest(c)' = Tail(q) /\ BaseSync(c)' = p.sync /\ BaseScore(c)' = p.score
          /\ BaseSync(c) = csync[c]
      BY <3>1 DEF Rest, BaseSync, BaseScore
    <3>3. Chain(Tail(q), p.sync) /\ p.sync = NextSync(csync[c])
      BY <1>1, <2>1, <2>5, <3>1, <3>2, ChainTail DEF Follows
    <3>4. ASSUME sender[r] # "done" PROVE UpToDate(r, k, c)'
      <4>1. UpToDate(r, k, c)
        BY <1>1, <2>5, <3>1, <3>4 DEF Follows
      <4>2. CASE Pending(r, k)
        <5>1. Len(q) \in 1..Len(q) /\ Len(Tail(q)) = Len(q) - 1
          BY <2>1, <3>1, SMT
        <5>2. DueAt(Tail(q), Len(Tail(q)), p.sync, NextUp(r))
          BY <2>1, <2>5, <3>1, <4>1, <4>2, <5>1, DueTail DEF UpToDate
        <5> QED
          BY <1>3, <3>2, <4>2, <5>2 DEF UpToDate
      <4>3. CASE ~Pending(r, k)
        <5>1. Known(Tail(q), <<p.sync, p.score>>, Len(Tail(q)), <<sync, score>>)
          BY <2>1, <2>5, <3>1, <4>1, <4>3, KnownTail DEF UpToDate
        <5> QED
          BY <1>2, <1>3, <3>2, <4>3, <5>1 DEF UpToDate
      <4> QED
        BY <4>2, <4>3
    <3> QED
      BY <1>2, <1>3, <2>5, <3>1, <3>2, <3>3, <3>4 DEF Follows, c
  <2>8. CASE TakeSync(c)
    <3>1. /\ app[c] = "run" /\ app'[c] = "run" /\ rcv[c] = "sync" /\ rcv'[c] = "clear"
          /\ csync'[c] = hand[c].sync /\ points' = points /\ toClient' = toClient
          /\ hand[c].score = points[c]
      BY <1>1, <2>8 DEF TakeSync, netVars, Follows
    <3>2. /\ Rest(c)' = Rest(c) /\ BaseSync(c)' = BaseSync(c)
          /\ BaseScore(c)' = BaseScore(c) /\ Live(c)' = Live(c)
      BY <3>1 DEF Rest, BaseSync, BaseScore, Live
    <3>3. UpToDate(r, k, c)' = UpToDate(r, k, c)
      BY <1>2, <1>3, <3>2 DEF UpToDate
    <3> QED
      BY <1>1, <1>2, <1>3, <3>1, <3>2, <3>3 DEF Follows, c
  <2>9. CASE ClearInput(c)
    <3>1. /\ app[c] = "run" /\ app'[c] = "run" /\ rcv[c] = "clear" /\ rcv'[c] = "recv"
          /\ UNCHANGED <<csync, points, toClient>>
      BY <1>1, <2>9 DEF ClearInput, netVars
    <3>2. /\ Rest(c)' = Rest(c) /\ BaseSync(c)' = BaseSync(c)
          /\ BaseScore(c)' = BaseScore(c) /\ Live(c)' = Live(c)
      BY <3>1 DEF Rest, BaseSync, BaseScore, Live
    <3>3. UpToDate(r, k, c)' = UpToDate(r, k, c)
      BY <1>2, <1>3, <3>2 DEF UpToDate
    <3> QED
      BY <1>1, <1>2, <1>3, <3>1, <3>2, <3>3 DEF Follows, c
  <2> QED
    BY <1>6, <2>2, <2>3, <2>4, <2>6, <2>7, <2>8, <2>9
       DEF Client, ClientNext, StateReceiver, c
<1> QED
  BY <1>5, <1>6
-----------------------------------------------------------------------------
LEMMA GameInit ==
  ASSUME NEW r, Rooms = {r}, Init
  PROVE  Game(r)
<1>1. r \in Rooms
  OBVIOUS
<1>2. Types /\ Links /\ Stages /\ Firsts
  BY InitTypes, SeatFacts DEF Init, NetInit, ServerInit, ClientInit, Links, Stages, Firsts,
     First, Sent
<1>3. sender[r] = "off" /\ game[r] = "ids" /\ score = Zero /\ sync = StartSync
  BY <1>1 DEF Init, ServerInit
<1>4. Round(r)
  BY <1>3 DEF Round
<1>5. Counted(r)
  <2>1. score[1] = 0 /\ score[2] = 0 /\ NextUp(r) = StartSync /\ StartSync \in Int
    BY <1>3, SeatFacts, PongServerAssumption DEF Zero, NextUp, Int8
  <2>2. SameInt8(0 + 0 + StartSync, StartSync)
    BY <2>1, SMT DEF SameInt8
  <2> QED
    BY <2>1, <2>2 DEF Counted
<1>6. AllFollow(r)
  <2>1. app = [c \in Clients |-> "connect"] /\ toClient = [c \in Clients |-> <<>>]
    BY DEF Init, ClientInit, NetInit
  <2>2. ASSUME NEW k \in Seat PROVE Follows(r, k, Seats[r][k])
    <3> DEFINE c == Seats[r][k]
    <3>1. c \in Clients
      BY <1>1, SeatFacts
    <3> HIDE DEF c
    <3>2. app[c] = "connect" /\ toClient[c] = <<>>
      BY <2>1, <3>1, Zenon
    <3> QED
      BY <3>2 DEF Follows, Live, c
  <2> QED
    BY <2>2 DEF AllFollow
<1> QED
  BY <1>2, <1>4, <1>5, <1>6 DEF Game

LEMMA GameNext ==
  ASSUME NEW r, Rooms = {r}, Game(r), [Next]_vars
  PROVE  Game(r)'
<1> USE DEF Game
<1>1. r \in Rooms
  OBVIOUS
<1>2. Types' /\ Links' /\ Stages' /\ Firsts'
  BY NextTypes, LinksNext, StagesNext, FirstsNext
<1>3. CASE Server(r)
  BY <1>1, <1>2, <1>3, RoundServer, CountedServer, FollowsServer
<1>4. ASSUME UNCHANGED serverVars PROVE Round(r)' /\ Counted(r)'
  <2>1. UNCHANGED <<game, sender, packet, sync, score>>
    BY <1>4 DEF serverVars, gameVars, roomVars
  <2> QED
    BY <2>1 DEF Round, Counted, NextUp
<1>5. ASSUME NEW c \in Clients, Client(c) PROVE Game(r)'
  BY <1>1, <1>2, <1>4, <1>5, FollowsClient DEF Client
<1>6. ASSUME UNCHANGED <<serverVars, clientVars, toClient>> PROVE Game(r)'
  <2>1. UNCHANGED <<game, sender, packet, sync, score, app, rcv, hand, csync, points,
                    toClient>>
    BY <1>6 DEF serverVars, gameVars, roomVars, clientVars
  <2>2. AllFollow(r)'
    BY <2>1 DEF AllFollow, Follows, UpToDate, Before, Pending, NextUp, Live, Rest,
                BaseSync, BaseScore
  <2> QED
    BY <1>2, <1>4, <1>6, <2>2
<1>7. ASSUME NEW c \in Clients, Reset(c) PROVE Game(r)'
  BY <1>6, <1>7 DEF Reset, ResetArrives
<1>8. CASE UNCHANGED vars
  BY <1>6, <1>8 DEF vars, netVars
<1> QED
  BY <1>3, <1>5, <1>7, <1>8 DEF Next

(* In a game of one room, for any numbers of goals, frames and exits and   *)
(* any buffers: the sync is the number of goals in eight bits.             *)
THEOREM SyncCounts ==
  ASSUME NEW r, Rooms = {r}
  PROVE  Spec => []ScoreCountsSync
<1>1. Game(r) => ScoreCountsSync
  BY DEF Game, Counted, NextUp, ScoreCountsSync
<1> QED
  BY <1>1, GameInit, GameNext, PTL DEF Spec

(* A running client has the server's sync and score, or will have them     *)
(* when it has read what is on its way to it.                              *)
THEOREM SyncIsAnnounced ==
  ASSUME NEW r, Rooms = {r}
  PROVE  Spec => []SyncAnnounced
<1>1. ASSUME Game(r), NEW c \in Clients, Playing(c), ~ToBeAnnounced(c), sender[RoomOf(c)] # "done"
      PROVE  WillBelieve(c, <<sync, score>>)
  <2>1. RoomOf(c) = r /\ SeatOf(c) \in Seat /\ Seats[r][SeatOf(c)] = c
    BY SeatOfSeats
  <2>2. app[c] = "run" /\ Live(c) /\ Follows(r, SeatOf(c), c)
    BY <1>1, <2>1 DEF Game, AllFollow, Live, Playing
  <2>3. ~Pending(r, SeatOf(c))
    BY <1>1, <2>1 DEF ToBeAnnounced, Pending
  <2>4. UpToDate(r, SeatOf(c), c)
    BY <1>1, <2>1, <2>2 DEF Follows
  <2>5. Rest(c) = toClient[c] /\ <<BaseSync(c), BaseScore(c)>> = Belief(c)
    BY <2>2 DEF Rest, BaseSync, BaseScore, Belief
  <2> QED
    BY <2>3, <2>4, <2>5 DEF UpToDate, WillBelieve
<1>2. Game(r) => SyncAnnounced
  BY <1>1 DEF SyncAnnounced
<1> QED
  BY <1>2, GameInit, GameNext, PTL DEF Spec

(* A running client goes from each sync to the next.                       *)
THEOREM NoSyncSkipped ==
  ASSUME NEW r, Rooms = {r}
  PROVE  Spec => SyncNeverSkips
<1> DEFINE Skips == \A c \in Clients : Playing(c) /\ csync'[c] # csync[c] =>
                                         csync'[c] = NextSync(csync[c])
<1>1. ASSUME Game(r), [Next]_vars PROVE [Skips]_vars
  <2> SUFFICES ASSUME Next PROVE Skips
    BY <1>1
  <2>1. ASSUME NEW b \in Clients, Client(b) PROVE Skips
    <3>1. CASE TakeSync(b)
      <4>1. SeatOf(b) \in Seat /\ Follows(r, SeatOf(b), b)
        BY <1>1, SeatOfSeats DEF Game, AllFollow
      <4>2. csync' = [csync EXCEPT ![b] = NextSync(csync[b])]
        BY <3>1, <4>1 DEF TakeSync, Follows
      <4> QED
        BY <1>1, <4>2, AppTypes DEF Game
    <3>2. CASE Start(b)
      BY <1>1, <3>2, AppTypes DEF Game, Start, Playing
    <3>3. CASE ~TakeSync(b) /\ ~Start(b)
      <4>1. csync' = csync
        BY <2>1, <3>3 DEF Client, ClientNext, Quit, UpdateThread, NetworkThread,
           StateReceiver, Frame, MovePaddle, NetTick, NetSend, RecvState, RecvInit,
           ClearInput, clientVars
      <4> QED
        BY <4>1
    <3> QED
      BY <3>1, <3>2, <3>3
  <2>2. CASE UNCHANGED clientVars
    BY <2>2 DEF clientVars
  <2> QED
    BY <2>1, <2>2 DEF Next, Server, Reset
<1> QED
  BY <1>1, GameInit, GameNext, PTL DEF Spec, SyncNeverSkips
=============================================================================
