--------------------------- MODULE TSQueueProofs ---------------------------
(***************************************************************************)
(* The linked list of TSQueue is sound for any number of threads, items    *)
(* and nodes, and every call on it has the effect that Fifo prescribes.    *)
(***************************************************************************)
EXTENDS TSQueue, SequenceTheorems, TLAPS

(* A thread that is in no call has no operation and no item.               *)
CallsTidy ==
  \A t \in Threads :
    /\ pc[t] = "idle" => op[t] = "none" /\ arg[t] = NoItem
    /\ pc[t] # "idle" => op[t] # "none"

IInv == TypeOK /\ ListSound /\ NoNodeLost /\ CallsTidy

(* The links as a relation between positions: what ListSound says of a     *)
(* position that lies inside the list.                                     *)
LEMMA Positions ==
  ASSUME TypeOK, ListSound, NoNodeLost
  PROVE  /\ Len(order) \in Nat /\ DOMAIN order = 1..Len(order)
         /\ \A i \in 1..Len(order) : order[i] \in Nodes /\ order[i] # NULL
         /\ alive = {order[i] : i \in 1..Len(order)}
         /\ \A i, j \in 1..Len(order) : order[i] = order[j] => i = j
         /\ size = Len(order)
         /\ (head = NULL) <=> (order = <<>>)
         /\ (head = NULL) <=> (Len(order) = 0)
         /\ Len(order) # 0 => head = order[1] /\ tail = order[Len(order)]
         /\ Len(order) = 0 => head = NULL /\ tail = NULL
<1>1. Len(order) \in Nat /\ DOMAIN order = 1..Len(order)
  BY LenProperties DEF TypeOK
<1>2. \A i \in 1..Len(order) : order[i] \in Nodes /\ order[i] # NULL
  BY ElementOfSeq, TSQueueAssumption DEF TypeOK, TSQueueAssumption
<1>3. \A i \in Int : i \in 1..Len(order) => At(i) = order[i]
  BY <1>1 DEF At
<1>4. Len(order) = 0 => At(1) = NULL /\ At(Len(order)) = NULL
  BY <1>1 DEF At
<1>5. Len(order) # 0 => At(1) = order[1] /\ At(Len(order)) = order[Len(order)]
  BY <1>1, <1>3
<1>6. (Len(order) = 0) <=> (order = <<>>)
  BY EmptySeq, SeqEqual DEF TypeOK
<1>7. Len(order) # 0 => 1 \in 1..Len(order)
  BY <1>1
<1> QED
  BY <1>1, <1>2, <1>4, <1>5, <1>6, <1>7 DEF ListSound, NoNodeLost

(* The neighbours of a position of a list of n nodes.                       *)
LEMMA Around ==
  ASSUME NEW n \in Nat, NEW i \in 1..n
  PROVE  /\ i # n => i + 1 \in 1..n
         /\ i = n => i + 1 \notin 1..n
         /\ i # 1 => i - 1 \in 1..n
         /\ i = 1 => i - 1 \notin 1..n
OBVIOUS

(* The links at a position: the neighbours, and NULL past either end.      *)
LEMMA Links ==
  ASSUME TypeOK, ListSound, NoNodeLost, NEW i \in 1..Len(order)
  PROVE  /\ next[order[i]] = IF i = Len(order) THEN NULL ELSE order[i + 1]
         /\ prev[order[i]] = IF i = 1 THEN NULL ELSE order[i - 1]
         /\ i # Len(order) => i + 1 \in 1..Len(order)
         /\ i # 1 => i - 1 \in 1..Len(order)
<1>1. Len(order) \in Nat /\ DOMAIN order = 1..Len(order)
  BY Positions
<1>2. /\ i # Len(order) => i + 1 \in 1..Len(order)
      /\ i = Len(order) => i + 1 \notin 1..Len(order)
      /\ i # 1 => i - 1 \in 1..Len(order)
      /\ i = 1 => i - 1 \notin 1..Len(order)
  BY <1>1, Around
<1>3. next[order[i]] = At(i + 1) /\ prev[order[i]] = At(i - 1)
  BY <1>1 DEF ListSound
<1> QED
  BY <1>1, <1>2, <1>3 DEF At
-----------------------------------------------------------------------------
(* A sequence without its element at position i.                           *)
DropAt(s, i) == [j \in 1..(Len(s) - 1) |-> s[IF j < i THEN j ELSE j + 1]]

LEMMA DropIndex ==
  ASSUME NEW n \in Nat, NEW i \in 1..n, NEW j \in 1..(n - 1)
  PROVE  /\ (IF j < i THEN j ELSE j + 1) \in 1..n
         /\ (IF j < i THEN j ELSE j + 1) # i
OBVIOUS

LEMMA DropAtProperties ==
  ASSUME NEW S, NEW s \in Seq(S), NEW i \in 1..Len(s)
  PROVE  /\ DropAt(s, i) \in Seq(S)
         /\ Len(DropAt(s, i)) = Len(s) - 1
         /\ DOMAIN DropAt(s, i) = 1..(Len(s) - 1)
         /\ \A j \in 1..(Len(s) - 1) :
              DropAt(s, i)[j] = s[IF j < i THEN j ELSE j + 1]
<1>1. Len(s) \in Nat /\ Len(s) - 1 \in Nat
  BY LenProperties
<1>2. \A j \in 1..(Len(s) - 1) : s[IF j < i THEN j ELSE j + 1] \in S
  BY <1>1, DropIndex, ElementOfSeq
<1>3. DropAt(s, i) \in [1..(Len(s) - 1) -> S]
  BY <1>2 DEF DropAt
<1>4. DropAt(s, i) \in Seq(S)
  BY <1>1, <1>3, SeqDef
<1>5. Len(DropAt(s, i)) = Len(s) - 1
  BY <1>1, <1>3, <1>4, LenProperties
<1> QED
  BY <1>4, <1>5 DEF DropAt

(* The four paths of __ts_queue_remove_nolock agree: a node is named by    *)
(* its neighbours, also when it is the first, the last or the only one.    *)
LEMMA NeighboursName ==
  ASSUME TypeOK, ListSound, NoNodeLost, NEW i \in 1..Len(order)
  PROVE  Unlinked(prev[order[i]], next[order[i]]) = order[i]
<1> DEFINE g == order[i]
<1>1. Len(order) \in Nat /\ i \in 1..Len(order)
  BY Positions
<1>2. \A j \in 1..Len(order) : order[j] # NULL
  BY Positions
<1>3. CASE i # Len(order)
  <2>1. i + 1 \in 1..Len(order) /\ next[g] = order[i + 1] /\ next[g] # NULL
    BY <1>2, <1>3, Links
  <2>2. prev[order[i + 1]] = order[(i + 1) - 1]
    BY <1>1, <2>1, Links
  <2> QED
    BY <1>1, <2>1, <2>2 DEF Unlinked
<1>4. CASE i = Len(order) /\ i # 1
  <2>1. next[g] = NULL
    BY <1>4, Links
  <2>2. i - 1 \in 1..Len(order) /\ prev[g] = order[i - 1] /\ prev[g] # NULL
    BY <1>2, <1>4, Links
  <2>3. next[order[i - 1]] = order[(i - 1) + 1]
    BY <1>1, <1>4, <2>2, Links
  <2> QED
    BY <1>1, <2>1, <2>2, <2>3 DEF Unlinked
<1>5. CASE i = Len(order) /\ i = 1
  <2>1. next[g] = NULL /\ prev[g] = NULL
    BY <1>5, Links
  <2>2. tail = g
    BY <1>1, <1>5, Positions
  <2> QED
    BY <2>1, <2>2 DEF Unlinked
<1> QED
  BY <1>3, <1>4, <1>5

(* What is linked stays linked when the node at position i is unlinked.    *)
LEMMA Removal ==
  ASSUME TypeOK, ListSound, NoNodeLost, NEW i \in 1..Len(order),
         Unlink(prev[order[i]], next[order[i]]),
         order' = OrderWithout(i)
  PROVE  /\ order' \in Seq(Nodes)
         /\ ListSound'
         /\ NoNodeLost'
<1> DEFINE L == Len(order)
           p == prev[order[i]]
           q == next[order[i]]
           Old(j) == IF j < i THEN j ELSE j + 1
<1>1. /\ L \in Nat /\ i \in Int /\ 1 <= i /\ i <= L
      /\ \A j \in 1..L : order[j] \in Nodes /\ order[j] # NULL
      /\ \A j, k \in 1..L : order[j] = order[k] => j = k
      /\ alive = {order[j] : j \in 1..L}
      /\ size = L
  BY Positions
<1>2. /\ order' \in Seq(Nodes)
      /\ Len(order') = L - 1
      /\ DOMAIN order' = 1..(L - 1)
      /\ \A j \in 1..(L - 1) : order'[j] = order[Old(j)]
  <2>1. order' = DropAt(order, i)
    BY DEF OrderWithout, DropAt
  <2>2. order \in Seq(Nodes)
    BY DEF TypeOK
  <2> QED
    BY <2>1, <2>2, DropAtProperties
<1>3. Unlinked(p, q) = order[i]
  BY NeighboursName
<1>4. /\ size' = L - 1
      /\ head' = IF p = NULL THEN q ELSE head
      /\ tail' = IF q = NULL THEN p ELSE tail
      /\ next' = [m \in Nodes |-> IF m = p THEN q ELSE
                                  IF m = order[i] THEN NULL ELSE next[m]]
      /\ prev' = [m \in Nodes |-> IF m = q THEN p ELSE
                                  IF m = order[i] THEN NULL ELSE prev[m]]
      /\ alive' = alive \ {order[i]}
  BY <1>1, <1>3 DEF Unlink, Link, SizeAfterRemove
<1>5. /\ q = IF i = L THEN NULL ELSE order[i + 1]
      /\ p = IF i = 1 THEN NULL ELSE order[i - 1]
  BY Links
<1>6. \A j \in 1..(L - 1) : Old(j) \in 1..L /\ Old(j) # i
  BY <1>1, DropIndex
<1>7. \A j \in 1..L : /\ next[order[j]] = IF j = L THEN NULL ELSE order[j + 1]
                      /\ prev[order[j]] = IF j = 1 THEN NULL ELSE order[j - 1]
  BY Links
<1>8. \A j \in 1..(L - 1) :
        next'[order'[j]] = IF j = L - 1 THEN NULL ELSE order'[j + 1]
  <2> TAKE j \in 1..(L - 1)
  <2>1. /\ j \in Int /\ 1 <= j /\ j <= L - 1 /\ j \in 1..L /\ j + 1 \in 1..L
        /\ j # L - 1 => j + 1 \in 1..(L - 1)
    BY <1>1
  <2>2. /\ order'[j] = order[Old(j)] /\ Old(j) \in 1..L /\ Old(j) # i
        /\ j # L - 1 => order'[j + 1] = order[Old(j + 1)]
    BY <1>2, <1>6, <2>1
  <2>3. order'[j] \in Nodes /\ order'[j] # order[i]
    BY <1>1, <2>2
  <2>4. CASE j = i - 1
    <3>1. Old(j) = i - 1 /\ i # 1 /\ Old(j + 1) = i + 1
      BY <1>1, <2>1, <2>4
    <3>2. order'[j] = p
      BY <1>5, <2>2, <3>1
    <3>3. next'[order'[j]] = q
      BY <1>4, <2>3, <3>2
    <3>4. j # L - 1 => order'[j + 1] = order[i + 1]
      BY <2>2, <3>1
    <3> QED
      BY <1>1, <1>5, <2>4, <3>3, <3>4
  <2>5. CASE j # i - 1
    <3>1. order'[j] # p
      <4>1. i # 1 => i - 1 \in 1..L /\ Old(j) # i - 1
        BY <1>1, <2>1, <2>5
      <4> QED
        BY <1>1, <1>5, <2>2, <2>3, <4>1
    <3>2. next'[order'[j]] = next[order'[j]]
      BY <1>4, <2>3, <3>1
    <3>3. next[order'[j]] = IF Old(j) = L THEN NULL ELSE order[Old(j) + 1]
      BY <1>7, <2>2
    <3>4. /\ (Old(j) = L) <=> (j = L - 1)
          /\ Old(j) + 1 = Old(j + 1)
      BY <1>1, <2>1, <2>5
    <3> QED
      BY <2>2, <3>2, <3>3, <3>4
  <2> QED
    BY <2>4, <2>5
<1>9. \A j \in 1..(L - 1) :
        prev'[order'[j]] = IF j = 1 THEN NULL ELSE order'[j - 1]
  <2> TAKE j \in 1..(L - 1)
  <2>1. /\ j \in Int /\ 1 <= j /\ j <= L - 1 /\ j \in 1..L /\ j + 1 \in 1..L
        /\ j # 1 => j - 1 \in 1..(L - 1)
    BY <1>1
  <2>2. /\ order'[j] = order[Old(j)] /\ Old(j) \in 1..L /\ Old(j) # i
        /\ j # 1 => order'[j - 1] = order[Old(j - 1)]
    BY <1>2, <1>6, <2>1
  <2>3. order'[j] \in Nodes /\ order'[j] # order[i]
    BY <1>1, <2>2
  <2>4. CASE j = i
    <3>1. Old(j) = i + 1 /\ i # L /\ (j # 1 => Old(j - 1) = i - 1)
      BY <1>1, <2>1, <2>4
    <3>2. order'[j] = q
      BY <1>5, <2>2, <3>1
    <3>3. prev'[order'[j]] = p
      BY <1>4, <2>3, <3>2
    <3>4. j # 1 => order'[j - 1] = order[i - 1]
      BY <2>2, <3>1
    <3> QED
      BY <1>1, <1>5, <2>4, <3>3, <3>4
  <2>5. CASE j # i
    <3>1. order'[j] # q
      <4>1. i # L => i + 1 \in 1..L /\ Old(j) # i + 1
        BY <1>1, <2>1, <2>5
      <4> QED
        BY <1>1, <1>5, <2>2, <2>3, <4>1
    <3>2. prev'[order'[j]] = prev[order'[j]]
      BY <1>4, <2>3, <3>1
    <3>3. prev[order'[j]] = IF Old(j) = 1 THEN NULL ELSE order[Old(j) - 1]
      BY <1>7, <2>2
    <3>4. /\ (Old(j) = 1) <=> (j = 1)
          /\ j # 1 => Old(j) - 1 = Old(j - 1)
      BY <1>1, <2>1, <2>5
    <3> QED
      BY <2>2, <3>2, <3>3, <3>4
  <2> QED
    BY <2>4, <2>5
<1>10. NoNodeLost'
  <2>1. \A j, k \in 1..(L - 1) : Old(j) = Old(k) => j = k
    BY <1>1
  <2>2. \A j, k \in 1..(L - 1) : order'[j] = order'[k] => j = k
    BY <1>1, <1>2, <1>6, <2>1
  <2>3. \A j \in 1..(L - 1) : order'[j] \in alive'
    BY <1>1, <1>2, <1>4, <1>6
  <2>4. ASSUME NEW n \in alive'
        PROVE  \E j \in 1..(L - 1) : order'[j] = n
    <3>1. PICK k \in 1..L : order[k] = n
      BY <1>1, <1>4
    <3>2. k # i
      BY <1>4, <3>1
    <3>3. \E j \in 1..(L - 1) : Old(j) = k
      <4>1. CASE k < i
        <5>1. k \in 1..(L - 1) /\ Old(k) = k
          BY <1>1, <3>1, <4>1
        <5> QED
          BY <5>1
      <4>2. CASE ~(k < i)
        <5>1. k - 1 \in 1..(L - 1) /\ Old(k - 1) = k
          BY <1>1, <3>1, <3>2, <4>2
        <5> QED
          BY <5>1
      <4> QED
        BY <4>1, <4>2
    <3> QED
      BY <1>2, <3>1, <3>3
  <2> QED
    BY <1>2, <2>2, <2>3, <2>4 DEF NoNodeLost
<1>11. /\ head' = IF L = 1 THEN NULL ELSE order'[1]
       /\ tail' = IF L = 1 THEN NULL ELSE order'[L - 1]
  <2>1. /\ L # 1 => 1 \in 1..(L - 1) /\ L - 1 \in 1..(L - 1)
        /\ head = order[1] /\ tail = order[L]
    BY <1>1, Positions
  <2>2. L # 1 => /\ order'[1] = order[IF i = 1 THEN 2 ELSE 1]
                 /\ order'[L - 1] = order[IF i = L THEN L - 1 ELSE L]
    BY <1>1, <1>2, <2>1
  <2>3. /\ (p = NULL) <=> (i = 1)
        /\ (q = NULL) <=> (i = L)
    BY <1>1, <1>5, Links
  <2> QED
    BY <1>1, <1>4, <1>5, <2>1, <2>2, <2>3
<1>12. ListSound'
  <2>1. \A j \in Int : At(j)' = IF j \in 1..(L - 1) THEN order'[j] ELSE NULL
    BY <1>2 DEF At
  <2>2. At(1)' = head' /\ At(Len(order))' = tail'
    <3>1. /\ (1 \in 1..(L - 1)) <=> (L # 1)
          /\ (L - 1 \in 1..(L - 1)) <=> (L # 1)
          /\ 1 \in Int /\ L - 1 \in Int
      BY <1>1
    <3> QED
      BY <1>2, <1>11, <2>1, <3>1
  <2>3. \A j \in 1..(L - 1) :
          /\ next'[order'[j]] = At(j + 1)'
          /\ prev'[order'[j]] = At(j - 1)'
    <3> TAKE j \in 1..(L - 1)
    <3>1. /\ (j + 1 \in 1..(L - 1)) <=> (j # L - 1)
          /\ (j - 1 \in 1..(L - 1)) <=> (j # 1)
          /\ j + 1 \in Int /\ j - 1 \in Int
      BY <1>1
    <3> QED
      BY <1>8, <1>9, <2>1, <3>1
  <2> QED
    BY <1>2, <1>4, <2>2, <2>3 DEF ListSound
<1> QED
  BY <1>2, <1>10, <1>12

(* A new node at the tail.                                                 *)
LEMMA Addition ==
  ASSUME TypeOK, ListSound, NoNodeLost, NEW t \in Threads, NEW n \in Nodes,
         Enqueue(t, n)
  PROVE  /\ order' \in Seq(Nodes)
         /\ ListSound'
         /\ NoNodeLost'
<1> DEFINE L == Len(order)
<1>1. /\ L \in Nat /\ size = L
      /\ \A j \in 1..L : order[j] \in Nodes /\ order[j] # NULL
      /\ \A j, k \in 1..L : order[j] = order[k] => j = k
      /\ alive = {order[j] : j \in 1..L}
      /\ (head = NULL) <=> (L = 0)
      /\ L # 0 => head = order[1] /\ tail = order[L]
  BY Positions
<1>2. /\ order' \in Seq(Nodes)
      /\ Len(order') = L + 1
      /\ DOMAIN order' = 1..(L + 1)
      /\ \A j \in 1..L : order'[j] = order[j]
      /\ order'[L + 1] = n
  <2>1. order \in Seq(Nodes) /\ order' = Append(order, n)
    BY DEF TypeOK, Enqueue
  <2> QED
    BY <1>1, <2>1, AppendProperties, LenProperties
<1>3. \A j \in 1..L : order[j] # n
  BY <1>1 DEF Enqueue
<1>4. n # NULL
  BY TSQueueAssumption DEF TSQueueAssumption
<1>5. \A j \in 1..L : /\ next[order[j]] = IF j = L THEN NULL ELSE order[j + 1]
                      /\ prev[order[j]] = IF j = 1 THEN NULL ELSE order[j - 1]
  BY Links
<1>6. \A j \in 1..(L + 1) :
        /\ next'[order'[j]] = IF j = L + 1 THEN NULL ELSE order'[j + 1]
        /\ prev'[order'[j]] = IF j = 1 THEN NULL ELSE order'[j - 1]
  <2> TAKE j \in 1..(L + 1)
  <2>1. CASE j = L + 1
    <3>1. order'[j] = n /\ (j # 1 => order'[j - 1] = order[L] /\ L \in 1..L)
      BY <1>1, <1>2, <2>1
    <3>2. next'[n] = NULL /\ prev'[n] = IF L = 0 THEN NULL ELSE order[L]
      BY <1>1 DEF Enqueue, TypeOK
    <3> QED
      BY <1>1, <2>1, <3>1, <3>2
  <2>2. CASE j # L + 1
    <3>1. /\ j \in 1..L /\ order'[j] = order[j] /\ L # 0 /\ L \in 1..L
          /\ order'[j + 1] = IF j = L THEN n ELSE order[j + 1]
          /\ j # 1 => order'[j - 1] = order[j - 1]
      BY <1>1, <1>2, <2>2
    <3>2. (order[j] = tail) <=> (j = L)
      BY <1>1, <3>1
    <3>3. /\ next'[order[j]] = IF j = L THEN n ELSE next[order[j]]
          /\ prev'[order[j]] = prev[order[j]]
      BY <1>1, <1>3, <3>1, <3>2 DEF Enqueue, TypeOK
    <3> QED
      BY <1>5, <2>2, <3>1, <3>3
  <2> QED
    BY <2>1, <2>2
<1>7. NoNodeLost'
  <2>1. \A j, k \in 1..(L + 1) : order'[j] = order'[k] => j = k
    <3>1. \A j \in 1..(L + 1) : j \in 1..L \/ j = L + 1
      BY <1>1
    <3> QED
      BY <1>1, <1>2, <1>3, <3>1
  <2>2. alive' = {order'[j] : j \in 1..(L + 1)}
    <3>1. 1..(L + 1) = (1..L) \cup {L + 1}
      BY <1>1
    <3>2. alive' = alive \cup {n}
      BY DEF Enqueue
    <3> QED
      BY <1>1, <1>2, <3>1, <3>2
  <2> QED
    BY <1>2, <2>1, <2>2 DEF NoNodeLost
<1>8. ListSound'
  <2>1. \A j \in Int : At(j)' = IF j \in 1..(L + 1) THEN order'[j] ELSE NULL
    BY <1>2 DEF At
  <2>2. /\ head' = IF L = 0 THEN n ELSE head
        /\ tail' = n
        /\ size' = L + 1
    BY <1>1 DEF Enqueue
  <2>3. At(1)' = head' /\ At(Len(order))' = tail'
    <3>1. /\ 1 \in Int /\ 1 \in 1..(L + 1) /\ (L # 0 => 1 \in 1..L)
          /\ L + 1 \in Int /\ L + 1 \in 1..(L + 1)
      BY <1>1
    <3> QED
      BY <1>1, <1>2, <2>1, <2>2, <3>1
  <2>4. \A j \in 1..(L + 1) :
          /\ next'[order'[j]] = At(j + 1)'
          /\ prev'[order'[j]] = At(j - 1)'
    <3> TAKE j \in 1..(L + 1)
    <3>1. /\ (j + 1 \in 1..(L + 1)) <=> (j # L + 1)
          /\ (j - 1 \in 1..(L + 1)) <=> (j # 1)
          /\ j + 1 \in Int /\ j - 1 \in Int
      BY <1>1
    <3> QED
      BY <1>6, <2>1, <3>1
  <2> QED
    BY <1>2, <2>2, <2>3, <2>4 DEF ListSound
<1> QED
  BY <1>2, <1>7, <1>8
-----------------------------------------------------------------------------
(* A dequeue is the removal of the node at position 1.                     *)
LEMMA DequeueIsRemoval ==
  ASSUME TypeOK, ListSound, NoNodeLost, NEW t \in Threads, Dequeue(t)
  PROVE  /\ 1 \in 1..Len(order)
         /\ Unlink(prev[order[1]], next[order[1]])
         /\ order' = OrderWithout(1)
<1>1. Len(order) \in Nat /\ Len(order) # 0 /\ head = order[1]
  BY Positions DEF Dequeue
<1>2. 1 \in 1..Len(order)
  BY <1>1
<1>3. prev[order[1]] = NULL
  BY <1>2, Links
<1> QED
  BY <1>1, <1>2, <1>3 DEF Dequeue

(* What every body does to the list.                                       *)
LEMMA BodyKeepsList ==
  ASSUME TypeOK, ListSound, NoNodeLost, NEW t \in Threads, Body(t)
  PROVE  /\ order' \in Seq(Nodes)
         /\ ListSound'
         /\ NoNodeLost'
<1>1. ASSUME NEW n \in Nodes, Enqueue(t, n)
      PROVE  order' \in Seq(Nodes) /\ ListSound' /\ NoNodeLost'
  BY <1>1, Addition
<1>2. ASSUME NEW n \in Nodes, Take(t, n)
      PROVE  order' \in Seq(Nodes) /\ ListSound' /\ NoNodeLost'
  <2>1. PICK i \in DOMAIN order : order[i] = n /\ order' = OrderWithout(i)
    BY <1>2 DEF Take
  <2>2. i \in 1..Len(order) /\ Unlink(prev[order[i]], next[order[i]])
    BY <1>2, <2>1, Positions DEF Take
  <2> QED
    BY <2>1, <2>2, Removal
<1>3. CASE Dequeue(t)
  BY <1>3, DequeueIsRemoval, Removal
<1>4. CASE Nothing(t)
  BY <1>4 DEF Nothing, listVars, TypeOK, ListSound, NoNodeLost, At
<1> QED
  BY <1>1, <1>2, <1>3, <1>4 DEF Body

(* The types of the fields that a removal writes.                          *)
LEMMA UnlinkTypes ==
  ASSUME TypeOK, NEW p \in Pointers, NEW q \in Pointers, Unlink(p, q)
  PROVE  /\ prev' \in [Nodes -> Pointers]
         /\ next' \in [Nodes -> Pointers]
         /\ data' \in [Nodes -> Items \cup {NoItem}]
         /\ alive' \subseteq Nodes
<1>1. NULL \in Pointers
  BY DEF Pointers
<1> QED
  BY <1>1 DEF Unlink, Link, TypeOK

LEMMA BodyTypes ==
  ASSUME TypeOK, ListSound, NoNodeLost, NEW t \in Threads, Body(t)
  PROVE  /\ prev' \in [Nodes -> Pointers]
         /\ next' \in [Nodes -> Pointers]
         /\ data' \in [Nodes -> Items \cup {NoItem}]
         /\ alive' \subseteq Nodes
<1>1. NULL \in Pointers /\ Nodes \subseteq Pointers
  BY DEF Pointers
<1>2. ASSUME NEW n \in Nodes, Enqueue(t, n)
      PROVE  /\ prev' \in [Nodes -> Pointers]
             /\ next' \in [Nodes -> Pointers]
             /\ data' \in [Nodes -> Items \cup {NoItem}]
             /\ alive' \subseteq Nodes
  BY <1>1, <1>2 DEF Enqueue, TypeOK
<1>3. ASSUME NEW n \in Nodes, Take(t, n)
      PROVE  \E p, q \in Pointers : Unlink(p, q)
  BY <1>3 DEF Take, TypeOK
<1>4. ASSUME Dequeue(t)
      PROVE  \E p, q \in Pointers : Unlink(p, q)
  <2>1. head \in Nodes
    BY <1>4 DEF Dequeue, TypeOK, Pointers
  <2>2. next[head] \in Pointers
    BY <2>1 DEF TypeOK
  <2> QED
    BY <1>1, <1>4, <2>2 DEF Dequeue
<1>5. ASSUME Nothing(t)
      PROVE  UNCHANGED <<prev, next, data, alive>>
  BY <1>5 DEF Nothing, listVars
<1> QED
  BY <1>2, <1>3, <1>4, <1>5, UnlinkTypes DEF Body, TypeOK

(* Every body leaves the thread before its unlock.                         *)
LEMMA BodyMoves ==
  ASSUME TypeOK, NEW t \in Threads, Body(t)
  PROVE  /\ pc[t] = "body"
         /\ op[t] \in {"enqueue", "dequeue", "take", "remove"}
         /\ pc' = [pc EXCEPT ![t] = "unlock"]
         /\ UNCHANGED <<mutex, op, arg>>
BY DEF Body, Enqueue, Take, Dequeue, Nothing, BodyOf, callVars

LEMMA InitIInv == Init => IInv
<1> SUFFICES ASSUME Init PROVE IInv
  OBVIOUS
<1>1. order = <<>> /\ order \in Seq(Nodes) /\ Len(order) = 0
      /\ DOMAIN order = {}
  BY EmptySeq DEF Init
<1>2. TypeOK
  BY <1>1 DEF Init, TypeOK, Pointers
<1>3. ListSound
  BY <1>1 DEF Init, ListSound, At
<1>4. NoNodeLost
  BY <1>1 DEF Init, NoNodeLost
<1>5. CallsTidy
  BY DEF Init, CallsTidy
<1> QED
  BY <1>2, <1>3, <1>4, <1>5 DEF IInv

LEMMA StepIInv == IInv /\ [Next]_vars => IInv'
<1> SUFFICES ASSUME IInv, [Next]_vars PROVE IInv'
  OBVIOUS
<1> USE DEF IInv
<1>1. ASSUME UNCHANGED vars PROVE IInv'
  BY <1>1 DEF vars, listVars, callVars, TypeOK, ListSound, NoNodeLost, At,
              CallsTidy
<1>2. ASSUME NEW t \in Threads, NEW o \in Ops, NEW x \in Items \cup {NoItem},
             Call(t, o, x)
      PROVE  IInv'
  <2>1. o \in {"enqueue", "dequeue", "take", "remove"}
    BY TSQueueAssumption DEF TSQueueAssumption
  <2>2. TypeOK'
    BY <1>2, <2>1 DEF Call, listVars, TypeOK
  <2>3. ListSound' /\ NoNodeLost'
    BY <1>2 DEF Call, listVars, ListSound, NoNodeLost, At
  <2>4. CallsTidy'
    BY <1>2, <2>1 DEF Call, CallsTidy, TypeOK
  <2> QED
    BY <2>2, <2>3, <2>4
<1>3. ASSUME NEW t \in Threads, Lock(t) PROVE IInv'
  BY <1>3 DEF Lock, listVars, callVars, TypeOK, ListSound, NoNodeLost, At,
              CallsTidy
<1>4. ASSUME NEW t \in Threads, Unlock(t) PROVE IInv'
  BY <1>4 DEF Unlock, listVars, TypeOK, ListSound, NoNodeLost, At, CallsTidy
<1>5. ASSUME NEW t \in Threads, Body(t) PROVE IInv'
  <2>1. order' \in Seq(Nodes) /\ ListSound' /\ NoNodeLost'
    BY <1>5, BodyKeepsList
  <2>2. head' \in Pointers /\ tail' \in Pointers /\ size' \in Nat
    <3>1. Len(order') \in Nat
      BY <2>1, LenProperties
    <3>2. \A j : At(j)' \in Pointers
      BY <2>1, LenProperties, ElementOfSeq DEF At, Pointers
    <3> QED
      BY <2>1, <3>1, <3>2 DEF ListSound
  <2>3. TypeOK'
    BY <1>5, <2>1, <2>2, BodyTypes, BodyMoves DEF TypeOK
  <2>4. CallsTidy'
    BY <1>5, BodyMoves DEF CallsTidy, TypeOK
  <2> QED
    BY <2>1, <2>3, <2>4
<1> QED
  BY <1>1, <1>2, <1>3, <1>4, <1>5 DEF Next

(* IInv holds in every state that TSQueue reaches.                         *)
THEOREM Inductive == Spec => []IInv
BY InitIInv, StepIInv, PTL DEF Spec

(* The fields of the list and of its nodes keep their types; in particular *)
(* size, a size_t, is never decremented below zero.                        *)
THEOREM TypesHold == Spec => []TypeOK
<1>1. IInv => TypeOK
  BY DEF IInv
<1> QED
  BY <1>1, Inductive, PTL

(* For any number of threads and nodes the links in both directions, the   *)
(* ends and the size describe the same list: __ts_queue_add and            *)
(* __ts_queue_remove_nolock update all that they have to.                  *)
THEOREM ListStaysSound == Spec => []ListSound
<1>1. IInv => ListSound
  BY DEF IInv
<1> QED
  BY <1>1, Inductive, PTL

(* The nodes in the list are the allocated ones, each once: the node that  *)
(* __ts_queue_remove_nolock frees is the one that it unlinks.              *)
THEOREM NodesAreNotLost == Spec => []NoNodeLost
<1>1. IInv => NoNodeLost
  BY DEF IInv
<1> QED
  BY <1>1, Inductive, PTL
-----------------------------------------------------------------------------
(* The items of a list of nodes: one for each position.                    *)
ItemsOf(o, d) == [i \in DOMAIN o |-> d[o[i]]]

LEMMA ItemsOfProperties ==
  ASSUME NEW o \in Seq(Nodes), NEW S, NEW d \in [Nodes -> S]
  PROVE  /\ ItemsOf(o, d) \in Seq(S)
         /\ Len(ItemsOf(o, d)) = Len(o)
         /\ \A i \in 1..Len(o) : ItemsOf(o, d)[i] = d[o[i]]
<1>1. /\ Len(o) \in Nat /\ DOMAIN o = 1..Len(o)
      /\ \A i \in 1..Len(o) : o[i] \in Nodes
  BY LenProperties, ElementOfSeq
<1>2. ItemsOf(o, d) \in [1..Len(o) -> S]
  BY <1>1 DEF ItemsOf
<1>3. ItemsOf(o, d) \in Seq(S)
  BY <1>1, <1>2, SeqDef
<1> QED
  BY <1>1, <1>2, <1>3, LenProperties DEF ItemsOf

(* A removal takes the same position out of the list and out of the queue. *)
LEMMA RemovalQueued ==
  ASSUME IInv, IInv', NEW i \in 1..Len(order),
         Unlink(prev[order[i]], next[order[i]]),
         order' = OrderWithout(i)
  PROVE  Queued' = DropAt(Queued, i)
<1> DEFINE L == Len(order)
           S == Items \cup {NoItem}
           Old(j) == IF j < i THEN j ELSE j + 1
<1>1. /\ L \in Nat
      /\ \A j \in 1..L : order[j] \in Nodes
      /\ \A j, k \in 1..L : order[j] = order[k] => j = k
  BY Positions DEF IInv
<1>2. /\ Queued \in Seq(S) /\ Len(Queued) = L
      /\ \A j \in 1..L : Queued[j] = data[order[j]]
  <2>1. Queued = ItemsOf(order, data)
    BY DEF Queued, ItemsOf
  <2>2. order \in Seq(Nodes) /\ data \in [Nodes -> S]
    BY DEF IInv, TypeOK
  <2> QED
    BY <2>1, <2>2, ItemsOfProperties
<1>3. /\ Len(order') = L - 1
      /\ \A j \in 1..(L - 1) : order'[j] = order[Old(j)]
  <2>1. order' = DropAt(order, i)
    BY DEF OrderWithout, DropAt
  <2>2. order \in Seq(Nodes)
    BY DEF IInv, TypeOK
  <2> QED
    BY <2>1, <2>2, DropAtProperties
<1>4. /\ Queued' \in Seq(S) /\ Len(Queued') = L - 1
      /\ \A j \in 1..(L - 1) : Queued'[j] = data'[order'[j]]
  <2>1. Queued' = ItemsOf(order', data')
    BY DEF Queued, ItemsOf
  <2>2. order' \in Seq(Nodes) /\ data' \in [Nodes -> S]
    BY DEF IInv, TypeOK
  <2>3. /\ ItemsOf(order', data') \in Seq(S)
        /\ Len(ItemsOf(order', data')) = Len(order')
        /\ \A j \in 1..Len(order') : ItemsOf(order', data')[j] = data'[order'[j]]
    BY <2>2, ItemsOfProperties
  <2> QED
    BY <1>3, <2>1, <2>3
<1>5. \A j \in 1..(L - 1) : Old(j) \in 1..L /\ Old(j) # i
  BY <1>1, DropIndex
<1>6. \A m \in Nodes : m # order[i] => data'[m] = data[m]
  BY NeighboursName DEF Unlink, IInv
<1>7. \A j \in 1..(L - 1) : Queued'[j] = Queued[Old(j)]
  BY <1>1, <1>2, <1>3, <1>4, <1>5, <1>6
<1>8. /\ DropAt(Queued, i) \in Seq(S) /\ Len(DropAt(Queued, i)) = L - 1
      /\ \A j \in 1..(L - 1) : DropAt(Queued, i)[j] = Queued[Old(j)]
  <2>1. i \in 1..Len(Queued)
    BY <1>2
  <2> QED
    BY <1>2, <2>1, DropAtProperties
<1> QED
  BY <1>4, <1>7, <1>8, SeqEqual

(* Every step of the list is a step of the queue, or none.                 *)
LEMMA StepFifo == IInv /\ IInv' /\ [Next]_vars => [F!Next]_F!fifoVars
<1> SUFFICES ASSUME IInv, IInv', [Next]_vars
             PROVE  F!Next \/ UNCHANGED F!fifoVars
  OBVIOUS
<1> DEFINE S == Items \cup {NoItem}
<1>1. TypeOK /\ ListSound /\ NoNodeLost /\ CallsTidy /\ TypeOK'
  BY DEF IInv
<1>2. /\ Queued = ItemsOf(order, data)
      /\ Queued' = ItemsOf(order', data')
      /\ Queued \in Seq(S) /\ Len(Queued) = Len(order)
      /\ \A i \in 1..Len(order) : Queued[i] = data[order[i]]
  <2>1. order \in Seq(Nodes) /\ data \in [Nodes -> S]
    BY <1>1 DEF TypeOK
  <2>2. Queued = ItemsOf(order, data) /\ Queued' = ItemsOf(order', data')
    BY DEF Queued, ItemsOf
  <2> QED
    BY <2>1, <2>2, ItemsOfProperties
<1>3. ASSUME UNCHANGED <<order, data>> PROVE Queued' = Queued
  BY <1>2, <1>3
<1>4. ASSUME UNCHANGED vars PROVE UNCHANGED F!fifoVars
  BY <1>3, <1>4 DEF vars, listVars, callVars, F!fifoVars, Stage
<1>5. ASSUME NEW t \in Threads, NEW o \in Ops, NEW x \in Items \cup {NoItem},
             Call(t, o, x)
      PROVE  F!Call(t)
  <2>1. o \in {"enqueue", "dequeue", "take", "remove"}
    BY TSQueueAssumption DEF TSQueueAssumption
  <2>2. Queued' = Queued
    BY <1>3, <1>5 DEF Call, listVars
  <2>3. Stage[t] = "none" /\ arg[t] = NoItem
    BY <1>1, <1>5 DEF Call, CallsTidy, Stage
  <2>4. Stage' = [Stage EXCEPT ![t] = o]
    BY <1>1, <1>5 DEF Call, Stage, TypeOK
  <2>5. arg' = [arg EXCEPT ![t] = x]
    BY <1>5 DEF Call
  <2>6. CASE o = "dequeue"
    <3>1. x = NoItem
      BY <1>5, <2>6 DEF Call
    <3>2. arg' = arg
      BY <1>1, <2>3, <2>5, <3>1 DEF TypeOK
    <3> QED
      BY <2>2, <2>3, <2>4, <2>6, <3>2 DEF F!Call
  <2>7. CASE o # "dequeue"
    <3>1. x \in Items /\ o \in {"enqueue", "take", "remove"}
      BY <1>5, <2>1, <2>7 DEF Call
    <3> QED
      BY <2>2, <2>3, <2>4, <2>5, <3>1 DEF F!Call
  <2> QED
    BY <2>6, <2>7
<1>6. ASSUME NEW t \in Threads, Lock(t) PROVE UNCHANGED F!fifoVars
  <2>1. Stage' = Stage
    BY <1>1, <1>6 DEF Lock, callVars, Stage, TypeOK
  <2> QED
    BY <1>3, <1>6, <2>1 DEF Lock, listVars, callVars, F!fifoVars
<1>7. ASSUME NEW t \in Threads, Unlock(t) PROVE F!Return(t)
  <2>1. Stage[t] = "done" /\ Stage' = [Stage EXCEPT ![t] = "none"]
    BY <1>1, <1>7 DEF Unlock, Stage, TypeOK
  <2> QED
    BY <1>3, <1>7, <2>1 DEF Unlock, listVars, F!Return
<1>8. ASSUME NEW t \in Threads, Body(t)
      PROVE  /\ Stage[t] = op[t]
             /\ Stage' = [Stage EXCEPT ![t] = "done"]
             /\ UNCHANGED arg
  <2>1. /\ pc[t] = "body"
        /\ pc' = [pc EXCEPT ![t] = "unlock"]
        /\ UNCHANGED <<op, arg>>
    BY <1>1, <1>8, BodyMoves
  <2>2. Stage[t] = op[t]
    BY <2>1 DEF Stage
  <2>3. Stage' = [Stage EXCEPT ![t] = "done"]
    BY <1>1, <2>1 DEF Stage, TypeOK
  <2> QED
    BY <2>1, <2>2, <2>3
<1>9. ASSUME NEW t \in Threads, Body(t),
             F!Put(t) \/ F!DropFront(t) \/ F!TakeOut(t)
      PROVE  F!Effect(t)
  BY <1>8, <1>9 DEF F!Effect
<1>10. ASSUME NEW t \in Threads, NEW n \in Nodes, Enqueue(t, n)
       PROVE  F!Put(t)
  <2>1. Stage[t] = "enqueue"
    BY <1>10 DEF Enqueue, BodyOf, Stage
  <2>2. Queued' = Append(Queued, arg[t])
    <3> DEFINE L == Len(order)
    <3>1. /\ order \in Seq(Nodes) /\ order' \in Seq(Nodes)
          /\ data' \in [Nodes -> S] /\ arg[t] \in S
          /\ L \in Nat /\ \A j \in 1..L : order[j] \in Nodes
      BY <1>1, Positions DEF TypeOK
    <3>2. /\ order' = Append(order, n) /\ n \notin alive
          /\ data' = [data EXCEPT ![n] = arg[t]]
      BY <1>10 DEF Enqueue
    <3>3. /\ Len(order') = L + 1
          /\ \A j \in 1..L : order'[j] = order[j]
          /\ order'[L + 1] = n
      BY <3>1, <3>2, AppendProperties
    <3>4. /\ ItemsOf(order', data') \in Seq(S)
          /\ Len(ItemsOf(order', data')) = L + 1
          /\ \A j \in 1..(L + 1) : ItemsOf(order', data')[j] = data'[order'[j]]
      <4>1. /\ ItemsOf(order', data') \in Seq(S)
            /\ Len(ItemsOf(order', data')) = Len(order')
            /\ \A j \in 1..Len(order') :
                 ItemsOf(order', data')[j] = data'[order'[j]]
        BY <3>1, ItemsOfProperties
      <4> QED
        BY <3>3, <4>1
    <3>5. \A j \in 1..L : data'[order'[j]] = Queued[j]
      <4> TAKE j \in 1..L
      <4>1. order[j] # n
        BY <1>1, <3>2, Positions
      <4> QED
        BY <1>1, <1>2, <3>1, <3>2, <3>3, <4>1 DEF TypeOK
    <3>6. data'[order'[L + 1]] = arg[t]
      BY <1>1, <3>2, <3>3 DEF TypeOK
    <3>7. /\ Append(Queued, arg[t]) \in Seq(S)
          /\ Len(Append(Queued, arg[t])) = L + 1
          /\ \A j \in 1..L : Append(Queued, arg[t])[j] = Queued[j]
          /\ Append(Queued, arg[t])[L + 1] = arg[t]
      BY <1>2, <3>1, AppendProperties
    <3>8. \A j \in 1..(L + 1) : j \in 1..L \/ j = L + 1
      BY <3>1
    <3>9. \A j \in 1..(L + 1) :
            ItemsOf(order', data')[j] = Append(Queued, arg[t])[j]
      BY <3>4, <3>5, <3>6, <3>7, <3>8
    <3> QED
      BY <1>2, <3>4, <3>7, <3>9, SeqEqual
  <2> QED
    BY <2>1, <2>2 DEF F!Put
<1>11. ASSUME NEW t \in Threads, Dequeue(t)
       PROVE  F!DropFront(t)
  <2>1. Stage[t] = "dequeue"
    BY <1>11 DEF Dequeue, BodyOf, Stage
  <2>2. Queued' = DropAt(Queued, 1)
    BY <1>1, <1>11, DequeueIsRemoval, RemovalQueued
  <2>3. Queued # <<>> /\ DropAt(Queued, 1) = Tail(Queued)
    <3>1. 1 \in 1..Len(Queued)
      BY <1>1, <1>2, <1>11, DequeueIsRemoval
    <3>2. Queued # <<>> /\ Len(Queued) \in Nat
      BY <1>2, <3>1, EmptySeq, LenProperties
    <3>3. /\ DropAt(Queued, 1) \in Seq(S)
          /\ Len(DropAt(Queued, 1)) = Len(Queued) - 1
          /\ \A j \in 1..(Len(Queued) - 1) :
               DropAt(Queued, 1)[j] = Queued[IF j < 1 THEN j ELSE j + 1]
      BY <1>2, <3>1, DropAtProperties
    <3>4. \A j \in 1..(Len(Queued) - 1) : DropAt(Queued, 1)[j] = Queued[j + 1]
      BY <3>2, <3>3
    <3>5. /\ Tail(Queued) \in Seq(S)
          /\ Len(Tail(Queued)) = Len(Queued) - 1
          /\ \A j \in 1..(Len(Queued) - 1) : Tail(Queued)[j] = Queued[j + 1]
      BY <1>2, <3>2, HeadTailProperties
    <3> QED
      BY <3>2, <3>3, <3>4, <3>5, SeqEqual
  <2> QED
    BY <2>1, <2>2, <2>3 DEF F!DropFront
<1>12. ASSUME NEW t \in Threads, NEW n \in Nodes, Take(t, n)
       PROVE  F!TakeOut(t)
  <2>1. Stage[t] \in {"take", "remove"}
    BY <1>12 DEF Take, BodyOf, Stage
  <2>2. PICK i \in 1..Len(order) : order[i] = n /\ order' = OrderWithout(i)
    BY <1>1, <1>12, Positions DEF Take
  <2>3. Queued' = DropAt(Queued, i)
    BY <1>12, <2>2, RemovalQueued DEF Take
  <2>4. i \in DOMAIN Queued /\ Queued[i] = arg[t]
    BY <1>1, <1>2, <1>12, <2>2, LenProperties DEF Take
  <2> QED
    BY <2>1, <2>3, <2>4 DEF F!TakeOut, F!Without, DropAt
<1>13. ASSUME NEW t \in Threads, Nothing(t)
       PROVE  F!DropFront(t) \/ F!TakeOut(t)
  <2>1. Queued' = Queued
    BY <1>3, <1>13 DEF Nothing, listVars
  <2>2. CASE BodyOf(t, {"dequeue"}) /\ head = NULL
    <3>1. Queued = <<>>
      BY <1>1, <1>2, <2>2, Positions, EmptySeq
    <3>2. Stage[t] = "dequeue"
      BY <2>2 DEF BodyOf, Stage
    <3> QED
      BY <2>1, <3>1, <3>2 DEF F!DropFront
  <2>3. CASE BodyOf(t, {"take", "remove"}) /\ \A n \in alive : data[n] # arg[t]
    <3>1. Stage[t] \in {"take", "remove"}
      BY <2>3 DEF BodyOf, Stage
    <3>2. \A i \in DOMAIN Queued : Queued[i] # arg[t]
      BY <1>1, <1>2, <2>3, Positions, LenProperties
    <3> QED
      BY <2>1, <3>1, <3>2 DEF F!TakeOut
  <2> QED
    BY <1>13, <2>2, <2>3 DEF Nothing
<1>14. ASSUME NEW t \in Threads, Body(t) PROVE F!Effect(t)
  BY <1>9, <1>10, <1>11, <1>12, <1>13, <1>14 DEF Body
<1> QED
  BY <1>4, <1>5, <1>6, <1>7, <1>14 DEF Next, F!Next

(* Every call on the queue, by however many threads, takes effect once and *)
(* as Fifo says: items leave in the order in which they came, and the item *)
(* taken out is the one asked for.                                         *)
THEOREM ImplementsFifo == Spec => FifoSafe
<1>1. Init => F!Init
  <2> SUFFICES ASSUME Init PROVE F!Init
    OBVIOUS
  <2>1. Queued = <<>>
    BY DEF Init, Queued
  <2>2. Stage = [t \in Threads |-> "none"]
    BY DEF Init, Stage
  <2> QED
    BY <2>1, <2>2 DEF Init, F!Init
<1> QED
  BY <1>1, Inductive, StepFifo, PTL DEF Spec, FifoSafe, F!Spec
=============================================================================
