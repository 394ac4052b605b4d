--------------------------- MODULE StreamProofs ---------------------------
(***************************************************************************)
(* For any packets, any buffer of the kernel and any way of cutting the    *)
(* bytes into pieces: the receiver stays in step with the packets, fills   *)
(* in what was sent, and the stream is a direction of Network.             *)
(***************************************************************************)
EXTENDS Stream, PacketsProofs, WellFoundedInduction

(* A nonempty set of naturals has a least element: what induction over the *)
(* length of a sequence rests on below.                                    *)
LEMMA LeastNat ==
  ASSUME NEW T \in SUBSET Nat, T # {}
  PROVE  \E n \in T : \A m \in T : n <= m
<1> DEFINE R == {ss \in Nat \X Nat : ss[1] < ss[2]}
<1>1. R = OpToRel(<, Nat)
  BY DEF OpToRel
<1>2. IsWellFoundedOn(R, Nat)
  BY <1>1, NatLessThanWellFounded
<1>3. \E n \in T : \A m \in T : ~(<<m, n>> \in R)
  BY <1>2, WFMin
<1>4. \A m, n \in T : m < n => <<m, n>> \in R
  OBVIOUS
<1>5. \A m, n \in T : n <= m \/ m < n
  OBVIOUS
<1> QED
  BY <1>3, <1>4, <1>5, Zenon

(* What FlattenSeq computes on its way: the first i of s joined.           *)
Joins(f, s, n) == f = [i \in 1..n |-> IF i = 1 THEN s[i] ELSE f[i - 1] \o s[i]]

LEMMA FlattenIs ==
  ASSUME NEW s, Len(s) # 0
  PROVE  FlattenSeq(s) = (CHOOSE f : Joins(f, s, Len(s)))[Len(s)]
BY Zenon DEF FlattenSeq, Joins

LEMMA JoinsAt ==
  ASSUME NEW f, NEW s, NEW n \in Nat, Joins(f, s, n), NEW i \in 1..n
  PROVE  f[i] = IF i = 1 THEN s[i] ELSE f[i - 1] \o s[i]
<1> DEFINE e(j) == IF j = 1 THEN s[j] ELSE f[j - 1] \o s[j]
<1>1. f = [j \in 1..n |-> e(j)]
  BY DEF Joins
<1> HIDE DEF e
<1>2. f[i] = e(i)
  BY <1>1
<1> QED
  BY <1>2 DEF e

LEMMA JoinsExist ==
  ASSUME NEW s, NEW n \in Nat
  PROVE  \E f : Joins(f, s, n)
<1> DEFINE T == {k \in Nat : ~(\E f : Joins(f, s, k))}
<1> SUFFICES ASSUME T # {} PROVE FALSE
  OBVIOUS
<1>1. PICK k \in T : \A j \in T : k <= j
  BY LeastNat
<1>2. k # 0
  <2> DEFINE f == [i \in 1..0 |-> s[i]]
  <2>1. Joins(f, s, 0)
    BY DEF Joins
  <2> QED
    BY <2>1
<1>3. PICK f : Joins(f, s, k - 1)
  BY <1>1, <1>2
<1> DEFINE g == [i \in 1..k |-> IF i = 1 THEN s[i] ELSE f[i - 1] \o s[i]]
<1>4. ASSUME NEW i \in 1..(k - 1) PROVE f[i] = g[i]
  <2>1. f[i] = IF i = 1 THEN s[i] ELSE f[i - 1] \o s[i]
    BY <1>2, <1>3, JoinsAt
  <2> QED
    BY <1>2, <2>1
<1>5. Joins(g, s, k)
  <2>1. ASSUME NEW i \in 1..k
        PROVE  g[i] = IF i = 1 THEN s[i] ELSE g[i - 1] \o s[i]
    <3>1. i # 1 => i - 1 \in 1..(k - 1)
      BY <1>1, <1>2
    <3> QED
      BY <1>4, <3>1
  <2> HIDE DEF g
  <2>2. g = [i \in 1..k |-> g[i]]
    BY DEF g
  <2> QED
    BY <2>1, <2>2 DEF Joins
<1> QED
  BY <1>1, <1>5

LEMMA JoinsAgree ==
  ASSUME NEW s, NEW t, NEW m \in Nat, NEW n \in Nat, m <= n,
         \A i \in 1..m : s[i] = t[i],
         NEW f, Joins(f, s, m), NEW g, Joins(g, t, n)
  PROVE  \A i \in 1..m : f[i] = g[i]
<1> DEFINE T == {i \in 1..m : f[i] # g[i]}
<1> SUFFICES ASSUME T # {} PROVE FALSE
  OBVIOUS
<1>1. PICK k \in T : \A j \in T : k <= j
  <2>1. T \in SUBSET Nat
    OBVIOUS
  <2> HIDE DEF T
  <2> QED
    BY <2>1, LeastNat
<1>2. /\ f[k] = IF k = 1 THEN s[k] ELSE f[k - 1] \o s[k]
      /\ g[k] = IF k = 1 THEN t[k] ELSE g[k - 1] \o t[k]
  BY JoinsAt
<1>3. k # 1 => k - 1 \in 1..m /\ f[k - 1] = g[k - 1]
  BY <1>1
<1> QED
  BY <1>2, <1>3

(* FlattenSeq, taken apart at its end.                                     *)
LEMMA FlattenAppend ==
  ASSUME NEW S, NEW s \in Seq(Seq(S)), NEW x \in Seq(S)
  PROVE  FlattenSeq(Append(s, x)) = IF s = <<>> THEN x ELSE FlattenSeq(s) \o x
<1> DEFINE n == Len(s)
           t == Append(s, x)
<1>1. /\ n \in Nat /\ Len(t) = n + 1 /\ t[n + 1] = x
      /\ \A i \in 1..n : t[i] = s[i]
  BY AppendProperties
<1> HIDE DEF t
<1> DEFINE g == CHOOSE f : Joins(f, t, n + 1)
<1>2. Joins(g, t, n + 1)
  BY <1>1, JoinsExist
<1> HIDE DEF g
<1>3. FlattenSeq(t) = g[n + 1]
  BY <1>1, FlattenIs DEF g
<1>4. g[n + 1] = IF n + 1 = 1 THEN x ELSE g[n] \o x
  BY <1>1, <1>2, JoinsAt
<1>5. CASE s = <<>>
  BY <1>1, <1>3, <1>4, <1>5 DEF t
<1>6. CASE s # <<>>
  <2>0. n # 0
    BY <1>6
  <2> DEFINE f == CHOOSE f : Joins(f, s, n)
  <2>1. Joins(f, s, n)
    BY <1>1, JoinsExist
  <2> HIDE DEF f
  <2>2. FlattenSeq(s) = f[n]
    BY <2>0, FlattenIs DEF f
  <2>3. f[n] = g[n]
    <3>1. \A i \in 1..n : f[i] = g[i]
      <4>1. n \in Nat /\ n + 1 \in Nat /\ n <= n + 1
        BY <1>1
      <4>2. \A i \in 1..n : s[i] = t[i]
        BY <1>1
      <4> QED
        <5> DEFINE m == n + 1
        <5>1. n \in Nat /\ m \in Nat /\ n <= m
          BY <4>1
        <5>2. Joins(f, s, n) /\ Joins(g, t, m)
          BY <1>2, <2>1
        <5> HIDE DEF n, m
        <5> QED
          BY <4>2, <5>1, <5>2, JoinsAgree
    <3> QED
      BY <1>1, <2>0, <3>1
  <2> QED
    BY <1>1, <1>3, <1>4, <1>6, <2>0, <2>2, <2>3 DEF t
<1> QED
  BY <1>5, <1>6

LEMMA ThreeInARow ==
  ASSUME NEW a \in Seq(Byte), NEW b \in Seq(Byte), NEW c \in Seq(Byte)
  PROVE  (a \o b) \o c = a \o (b \o c)
BY ConcatAssociative

(* Bytes, taken apart at either end.                                       *)
Laid(q) == [i \in DOMAIN q |-> Serialize(q[i])]

LEMMA Sent ==
  ASSUME NEW p \in Sendable
  PROVE  /\ IsPacket(p)
         /\ SizeOf(p) \in {1, 4, 40, 100}
         /\ Serialize(p) \in Seq(Byte)
         /\ Len(Serialize(p)) = PACKET_HEADER_SIZE + SizeOf(p)
<1>1. IsPacket(p)
  BY StreamAssumption DEF StreamAssumption
<1> QED
  BY <1>1, PacketFits

LEMMA LaidType ==
  ASSUME NEW q \in Seq(Sendable)
  PROVE  /\ Laid(q) \in Seq(Seq(Byte))
         /\ Len(Laid(q)) = Len(q)
         /\ \A i \in 1..Len(q) : Laid(q)[i] = Serialize(q[i])
<1>1. DOMAIN q = 1..Len(q) /\ Len(q) \in Nat /\ \A i \in 1..Len(q) : q[i] \in Sendable
  BY LenProperties
<1>2. \A i \in 1..Len(q) : Serialize(q[i]) \in Seq(Byte)
  BY <1>1, Sent
<1> DEFINE l == [i \in 1..Len(q) |-> Serialize(q[i])]
<1>3. l \in [1..Len(q) -> Seq(Byte)]
  BY <1>2
<1>4. l = Laid(q)
  BY <1>1 DEF Laid
<1>5. \A i \in 1..Len(q) : l[i] = Serialize(q[i])
  OBVIOUS
<1> HIDE DEF l
<1>6. l \in Seq(Seq(Byte)) /\ Len(l) = Len(q)
  BY <1>1, <1>3
<1> QED
  BY <1>4, <1>5, <1>6

LEMMA LaidAppend ==
  ASSUME NEW q \in Seq(Sendable), NEW p \in Sendable
  PROVE  Laid(Append(q, p)) = Append(Laid(q), Serialize(p))
<1> DEFINE q1 == Append(q, p)
           l == Laid(q)
           l1 == Append(l, Serialize(p))
<1>1. /\ q1 \in Seq(Sendable) /\ Len(q1) = Len(q) + 1 /\ q1[Len(q) + 1] = p
      /\ \A i \in 1..Len(q) : q1[i] = q[i]
  BY AppendProperties
<1>2. /\ l \in Seq(Seq(Byte)) /\ Len(l) = Len(q) /\ Serialize(p) \in Seq(Byte)
      /\ \A i \in 1..Len(q) : l[i] = Serialize(q[i])
  BY LaidType, Sent
<1> HIDE DEF q1, l
<1>3. /\ l1 \in Seq(Seq(Byte)) /\ Len(l1) = Len(l) + 1 /\ l1[Len(l) + 1] = Serialize(p)
      /\ \A i \in 1..Len(l) : l1[i] = l[i]
  BY <1>2, AppendProperties
<1>4. /\ Laid(q1) \in Seq(Seq(Byte)) /\ Len(Laid(q1)) = Len(q1)
      /\ \A i \in 1..Len(q1) : Laid(q1)[i] = Serialize(q1[i])
  BY <1>1, LaidType
<1> HIDE DEF l1
<1>5. ASSUME NEW i \in 1..Len(l1) PROVE Laid(q1)[i] = l1[i]
  <2>0. Len(q) \in Nat
    OBVIOUS
  <2>1. CASE i = Len(q) + 1
    BY <1>1, <1>2, <1>3, <1>4, <2>0, <2>1
  <2>2. CASE i \in 1..Len(q)
    BY <1>1, <1>2, <1>3, <1>4, <2>0, <2>2
  <2> QED
    BY <1>2, <1>3, <2>0, <2>1, <2>2
<1>6. Laid(q1) = l1
  BY <1>1, <1>2, <1>3, <1>4, <1>5, SeqEqual
<1> QED
  BY <1>6 DEF q1, l, l1

LEMMA BytesLaid ==
  ASSUME NEW q
  PROVE  Bytes(q) = FlattenSeq(Laid(q))
BY DEF Bytes, Laid

LEMMA BytesEmpty == Bytes(<<>>) = <<>>
<1>1. <<>> \in Seq(Sendable)
  BY EmptySeq
<1>2. Laid(<<>>) \in Seq(Seq(Byte)) /\ Len(Laid(<<>>)) = 0
  BY <1>1, LaidType
<1>3. FlattenSeq(Laid(<<>>)) = Laid(<<>>)
  BY <1>2 DEF FlattenSeq
<1>4. Laid(<<>>) = <<>>
  BY <1>2, EmptySeq
<1> QED
  BY <1>3, <1>4, BytesLaid

LEMMA BytesAppended ==
  ASSUME NEW q \in Seq(Sendable), NEW p \in Sendable
  PROVE  Bytes(Append(q, p)) = IF q = <<>> THEN Serialize(p) ELSE Bytes(q) \o Serialize(p)
<1>1. Laid(q) \in Seq(Seq(Byte)) /\ Serialize(p) \in Seq(Byte)
      /\ (Laid(q) = <<>> <=> q = <<>>)
  BY LaidType, Sent, EmptySeq
<1>2. FlattenSeq(Append(Laid(q), Serialize(p)))
        = IF Laid(q) = <<>> THEN Serialize(p) ELSE FlattenSeq(Laid(q)) \o Serialize(p)
  BY <1>1, FlattenAppend
<1> QED
  BY <1>1, <1>2, BytesLaid, LaidAppend

(* Induction over the packets: a shortest counterexample has a last one.   *)
LEMMA BytesType ==
  ASSUME NEW q \in Seq(Sendable)
  PROVE  Bytes(q) \in Seq(Byte) /\ Len(q) <= Len(Bytes(q))
<1> DEFINE P(r) == Bytes(r) \in Seq(Byte) /\ Len(r) <= Len(Bytes(r))
           T == {n \in Nat : \E r \in Seq(Sendable) : Len(r) = n /\ ~P(r)}
<1> SUFFICES ASSUME T # {} PROVE FALSE
  OBVIOUS
<1>1. PICK n \in T : \A m \in T : n <= m
  <2>1. T \in SUBSET Nat
    OBVIOUS
  <2> HIDE DEF T
  <2> QED
    BY <2>1, LeastNat
<1>2. PICK r \in Seq(Sendable) : Len(r) = n /\ ~P(r)
  OBVIOUS
<1>3. r # <<>>
  <2>1. <<>> \in Seq(Byte) /\ Len(<<>>) <= Len(<<>>)
    BY EmptySeq
  <2>2. P(<<>>)
    BY <2>1, BytesEmpty
  <2> QED
    BY <1>2, <2>2
<1>4. PICK s \in Seq(Sendable), p \in Sendable : r = Append(s, p)
  BY <1>3, SequenceEmptyOrAppend
<1>5. Len(s) \in Nat /\ Len(r) = Len(s) + 1
  BY <1>4, AppendProperties
<1>6. P(s)
  BY <1>1, <1>2, <1>5
<1>7. /\ Serialize(p) \in Seq(Byte) /\ Len(Serialize(p)) >= 1
  <2>1. SizeOf(p) \in {1, 4, 40, 100} /\ Serialize(p) \in Seq(Byte)
        /\ Len(Serialize(p)) = PACKET_HEADER_SIZE + SizeOf(p)
    BY Sent
  <2>2. \A size \in {1, 4, 40, 100} : 6 + size >= 1
    BY SMT
  <2> QED
    BY <2>1, <2>2 DEF PACKET_HEADER_SIZE
<1>8. Bytes(r) = IF s = <<>> THEN Serialize(p) ELSE Bytes(s) \o Serialize(p)
  BY <1>4, BytesAppended
<1>9. /\ Bytes(s) \o Serialize(p) \in Seq(Byte)
      /\ Len(Bytes(s) \o Serialize(p)) = Len(Bytes(s)) + Len(Serialize(p))
  BY <1>6, <1>7, ConcatProperties
<1>10. P(r)
  <2> HIDE DEF T
  <2>1. CASE s = <<>>
    BY <1>5, <1>7, <1>8, <2>1
  <2>2. CASE s # <<>>
    BY <1>5, <1>6, <1>7, <1>8, <1>9, <2>2
  <2> QED
    BY <2>1, <2>2
<1> QED
  BY <1>2, <1>10

LEMMA BytesAppend ==
  ASSUME NEW q \in Seq(Sendable), NEW p \in Sendable
  PROVE  Bytes(Append(q, p)) = Bytes(q) \o Serialize(p)
<1>1. CASE q = <<>>
  <2>1. <<>> \o Serialize(p) = Serialize(p)
    BY Sent, ConcatEmptySeq
  <2> QED
    BY <1>1, <2>1, BytesAppended, BytesEmpty
<1>2. CASE q # <<>>
  BY <1>2, BytesAppended
<1> QED
  BY <1>1, <1>2

LEMMA BytesHead ==
  ASSUME NEW q \in Seq(Sendable), q # <<>>
  PROVE  Bytes(q) = Serialize(Head(q)) \o Bytes(Tail(q))
<1> DEFINE P(r) == Bytes(r) = Serialize(Head(r)) \o Bytes(Tail(r))
           T == {n \in Nat : \E r \in Seq(Sendable) : Len(r) = n /\ r # <<>> /\ ~P(r)}
<1> SUFFICES ASSUME T # {} PROVE FALSE
  OBVIOUS
<1>1. PICK n \in T : \A m \in T : n <= m
  <2>1. T \in SUBSET Nat
    OBVIOUS
  <2> HIDE DEF T
  <2> QED
    BY <2>1, LeastNat
<1>2. PICK r \in Seq(Sendable) : Len(r) = n /\ r # <<>> /\ ~P(r)
  OBVIOUS
<1>3. PICK s \in Seq(Sendable), p \in Sendable : r = Append(s, p)
  BY <1>2, SequenceEmptyOrAppend
<1>4. Len(s) \in Nat /\ Len(r) = Len(s) + 1
  BY <1>3, AppendProperties
<1>5. s # <<>> => P(s)
  <2>1. Len(s) \in Nat /\ ~(n <= Len(s))
    BY <1>2, <1>4
  <2>2. Len(s) \notin T
    BY <1>1, <2>1, Zenon
  <2> QED
    BY <2>1, <2>2
<1>6. /\ Head(r) = IF s = <<>> THEN p ELSE Head(s)
      /\ Tail(r) = IF s = <<>> THEN <<>> ELSE Append(Tail(s), p)
  BY <1>3, HeadTailAppend
<1>7. Bytes(r) = Bytes(s) \o Serialize(p) /\ Serialize(p) \in Seq(Byte)
  BY <1>3, BytesAppend, Sent
<1>8. CASE s = <<>>
  <2>1. Bytes(r) = Serialize(p)
    BY <1>3, <1>8, BytesAppended
  <2>2. Serialize(p) \o <<>> = Serialize(p)
    BY <1>7, ConcatEmptySeq
  <2> QED
    BY <1>2, <1>6, <1>8, <2>1, <2>2, BytesEmpty
<1>9. CASE s # <<>>
  <2>1. Head(s) \in Sendable /\ Tail(s) \in Seq(Sendable)
    BY <1>9, HeadTailProperties
  <2>2. Serialize(Head(s)) \in Seq(Byte) /\ Bytes(Tail(s)) \in Seq(Byte)
    BY <2>1, Sent, BytesType
  <2>3. Bytes(Tail(r)) = Bytes(Tail(s)) \o Serialize(p)
    BY <1>6, <1>9, <2>1, BytesAppend
  <2>4. Bytes(r) = (Serialize(Head(s)) \o Bytes(Tail(s))) \o Serialize(p)
    BY <1>5, <1>7, <1>9
  <2>5. (Serialize(Head(s)) \o Bytes(Tail(s))) \o Serialize(p)
          = Serialize(Head(s)) \o (Bytes(Tail(s)) \o Serialize(p))
    <3>1. Serialize(p) \in Seq(Byte)
      BY <1>7
    <3> QED
      BY <2>2, <3>1, ThreeInARow
  <2> QED
    BY <1>2, <1>6, <1>9, <2>3, <2>4, <2>5
<1> QED
  BY <1>8, <1>9
-----------------------------------------------------------------------------
(* Bytes cut into pieces.                                                  *)
LEMMA Pieced ==
  ASSUME NEW s \in Seq(Byte), NEW n \in 0..Len(s)
  PROVE  /\ SubSeq(s, 1, n) \in Seq(Byte) /\ Len(SubSeq(s, 1, n)) = n
         /\ SubSeq(s, n + 1, Len(s)) \in Seq(Byte)
         /\ Len(SubSeq(s, n + 1, Len(s))) = Len(s) - n
         /\ SubSeq(s, 1, n) \o SubSeq(s, n + 1, Len(s)) = s
<1>1. Len(s) \in Nat /\ \A i \in 1..Len(s) : s[i] \in Byte
  BY LenProperties
<1>2. SubSeq(s, 1, n) \in Seq(Byte) /\ Len(SubSeq(s, 1, n)) = n
  <2>1. \A i \in 1..n : s[i] \in Byte
    BY <1>1
  <2> QED
    BY <2>1, <1>1, SubSeqProperties
<1>3. /\ SubSeq(s, n + 1, Len(s)) \in Seq(Byte)
      /\ Len(SubSeq(s, n + 1, Len(s))) = Len(s) - n
  <2>1. \A i \in (n + 1)..Len(s) : s[i] \in Byte
    BY <1>1
  <2> QED
    BY <2>1, <1>1, SubSeqProperties
<1>4. SubSeq(s, 1, n) \o SubSeq(s, n + 1, Len(s)) = SubSeq(s, 1, Len(s))
  <2>1. 1 \in 1..(Len(s) + 1) /\ n \in (1 - 1)..Len(s) /\ Len(s) \in n..Len(s)
    BY <1>1
  <2> QED
    BY <2>1, ConcatAdjacentSubSeq
<1> QED
  BY <1>2, <1>3, <1>4, SubSeqFull

LEMMA SameBytes ==
  ASSUME NEW a \in Seq(Byte), NEW b \in Seq(Byte), NEW h \in Seq(Byte),
         NEW t \in Seq(Byte), a \o b = h \o t
  PROVE  /\ Len(a) + Len(b) = Len(h) + Len(t)
         /\ \A i \in 1..Len(a) : i <= Len(h) => a[i] = h[i]
         /\ Len(a) = Len(h) => a = h /\ b = t
<1>1. /\ Len(a \o b) = Len(a) + Len(b)
      /\ \A i \in 1..(Len(a) + Len(b)) :
           (a \o b)[i] = IF i <= Len(a) THEN a[i] ELSE b[i - Len(a)]
  BY ConcatProperties
<1>2. /\ Len(h \o t) = Len(h) + Len(t)
      /\ \A i \in 1..(Len(h) + Len(t)) :
           (h \o t)[i] = IF i <= Len(h) THEN h[i] ELSE t[i - Len(h)]
  BY ConcatProperties
<1>3. Len(a) \in Nat /\ Len(b) \in Nat /\ Len(h) \in Nat /\ Len(t) \in Nat
  OBVIOUS
<1>4. Len(a) + Len(b) = Len(h) + Len(t)
  BY <1>1, <1>2
<1>5. ASSUME NEW i \in 1..Len(a), i <= Len(h)
      PROVE  a[i] = h[i]
  <2>1. i \in 1..(Len(a) + Len(b)) /\ i <= Len(a)
    BY <1>3
  <2> QED
    BY <1>1, <1>2, <1>4, <1>5, <2>1
<1>6. ASSUME Len(a) = Len(h)
      PROVE  a = h /\ b = t
  <2>1. \A i \in 1..Len(a) : a[i] = h[i]
    BY <1>3, <1>5, <1>6
  <2>2. a = h
    BY <1>6, <2>1, SeqEqual
  <2> QED
    BY <2>2, ConcatSimplifications
<1> QED
  BY <1>4, <1>5, <1>6

LEMMA HeaderFirst ==
  ASSUME NEW p \in Sendable
  PROVE  /\ Header(p) \in Seq(Byte) /\ Len(Header(p)) = 6
         /\ Payload(p) \in Seq(Byte)
         /\ SizeIn(Header(p)) = SizeOf(p)
         /\ \A i \in 1..6 : Serialize(p)[i] = Header(p)[i]
<1>1. IsPacket(p) /\ SizeOf(p) \in {1, 4, 40, 100}
  BY Sent
<1>2. Header(p) \in Seq(Byte) /\ Len(Header(p)) = 6 /\ SizeIn(Header(p)) = SizeOf(p)
  BY <1>1, HeaderBytes, PacketFits DEF PACKET_HEADER_SIZE
<1>3. Payload(p) \in Seq(Byte)
  <2> DEFINE w == Width(p.type)
             n == Len(Written[p.type])
             b == Pieces(p)
  <2>1. /\ b \in [1..n -> [1..w -> Byte]]
        /\ Payload(p) = [j \in 1..(w * n) |->
                           b[((j - 1) \div w) + 1][((j - 1) % w) + 1]]
    BY <1>1, PayloadOfPieces
  <2>2. w \in {1, 4} /\ n \in Nat
    BY <1>1, FieldsCounted DEF IsPacket
  <2> HIDE DEF w, n, b
  <2> QED
    BY <2>1, <2>2, LaidOut
<1>4. Serialize(p) = Header(p) \o Payload(p)
  BY DEF Serialize, Header
<1>5. \A i \in 1..(Len(Header(p)) + Len(Payload(p))) :
        (Header(p) \o Payload(p))[i]
          = IF i <= Len(Header(p)) THEN Header(p)[i] ELSE Payload(p)[i - Len(Header(p))]
  BY <1>2, <1>3, ConcatProperties
<1>6. Len(Payload(p)) \in Nat
  BY <1>3
<1>7. ASSUME NEW i \in 1..6
      PROVE  Serialize(p)[i] = Header(p)[i]
  <2>1. i \in 1..(Len(Header(p)) + Len(Payload(p))) /\ i <= Len(Header(p))
    BY <1>2, <1>6
  <2> QED
    BY <1>4, <1>5, <2>1
<1> QED
  BY <1>2, <1>3, <1>7

(* The receiver reads the size of the packet off the first six bytes,      *)
(* whatever else it has received.                                          *)
LEMMA SizeSeen ==
  ASSUME NEW p \in Sendable, NEW a \in Seq(Byte), NEW b \in Seq(Byte),
         NEW t \in Seq(Byte), a \o b = Serialize(p) \o t, Len(a) >= 6
  PROVE  SizeIn(a) = SizeOf(p)
<1>1. Serialize(p) \in Seq(Byte) /\ Len(Serialize(p)) >= 6
  <2>1. \A size \in {1, 4, 40, 100} : 6 + size >= 6
    BY SMT
  <2> QED
    BY <2>1, Sent DEF PACKET_HEADER_SIZE
<1>2. \A i \in 1..Len(a) : i <= Len(Serialize(p)) => a[i] = Serialize(p)[i]
  BY <1>1, SameBytes
<1>3. Len(a) \in Nat /\ Len(Serialize(p)) \in Nat
  BY <1>1
<1>4. \A i \in 1..6 : a[i] = Header(p)[i] /\ Header(p)[i] \in Byte
  <2>1. \A i \in 1..6 : i \in 1..Len(a) /\ i <= Len(Serialize(p))
    BY <1>1, <1>3
  <2>2. \A i \in 1..6 : Header(p)[i] \in Byte
    BY HeaderFirst
  <2> QED
    BY <1>2, <2>1, <2>2, HeaderFirst
<1>5. \A i \in 1..4 : a[2 + i] \in Byte /\ Header(p)[2 + i] \in Byte /\ a[2 + i] = Header(p)[2 + i]
  <2>1. \A i \in 1..4 : 2 + i \in 1..6
    BY SMT
  <2> QED
    BY <1>4, <2>1
<1>6. ASSUME NEW h, \A i \in 1..4 : h[2 + i] \in Byte
      PROVE  /\ SubSeq(h, 3, 6) \in Seq(Byte) /\ Len(SubSeq(h, 3, 6)) = 4
             /\ \A i \in 1..4 : SubSeq(h, 3, 6)[i] = h[2 + i]
  <2>1. 2 \in Nat /\ 4 \in Nat
    BY SMT
  <2>2. /\ SubSeq(h, 2 + 1, 2 + 4) \in Seq(Byte)
        /\ Len(SubSeq(h, 2 + 1, 2 + 4)) = 4
        /\ \A i \in 1..4 : SubSeq(h, 2 + 1, 2 + 4)[i] = h[2 + i]
    BY <1>6, <2>1, Slice, Zenon
  <2> QED
    BY <2>2, SMT
<1>7. SubSeq(a, 3, 6) = SubSeq(Header(p), 3, 6)
  BY <1>5, <1>6, SeqEqual
<1> QED
  BY <1>7, HeaderFirst DEF SizeIn
-----------------------------------------------------------------------------
(***************************************************************************)
(* What is on its way, and what a close has cut off from it: bytes rest of *)
(* a packet p that were never handed over.                                 *)
(***************************************************************************)
OnItsWay(rest, p) == IF rest = <<>> THEN pending ELSE Append(pending, p)

Torn(rest, p) ==
  /\ rest \in Seq(Byte)
  /\ rest # <<>> => p \in Sendable /\ Len(rest) <= Len(Serialize(p))
  /\ buf \o wire \o rest = Bytes(OnItsWay(rest, p))

(* While the sender lives it has the rest; after that nobody has.          *)
InStep ==
  /\ link = "open" => Torn(out, sending)
  /\ link # "open" => out = <<>> /\ \E rest \in Seq(Byte), p \in Sendable \cup {NoPacket} :
                                      Torn(rest, p)

(* How far recv_packet has got with a packet.                              *)
ReaderTidy ==
  /\ reader = "header" => Len(buf) < PACKET_HEADER_SIZE
  /\ reader = "data" => PACKET_HEADER_SIZE <= Len(buf) /\ Len(buf) < Wanted
  /\ reader = "done" => link # "open" /\ wire = <<>> /\ buf = <<>> /\ pending = <<>>

IInv == TypeOK /\ InStep /\ ReaderTidy

LEMMA TornSomehow ==
  ASSUME IInv
  PROVE  \E rest \in Seq(Byte), p \in Sendable \cup {NoPacket} :
           Torn(rest, p) /\ (link = "open" => rest = out /\ p = sending)
BY DEF IInv, InStep, TypeOK

LEMMA OnItsWayType ==
  ASSUME TypeOK, NEW rest, NEW p, Torn(rest, p)
  PROVE  OnItsWay(rest, p) \in Seq(Sendable)
<1>1. pending \in Seq(Sendable)
  BY DEF TypeOK
<1>2. CASE rest = <<>>
  BY <1>1, <1>2 DEF OnItsWay
<1>3. CASE rest # <<>>
  <2>1. p \in Sendable
    BY <1>3 DEF Torn
  <2> QED
    BY <1>1, <1>3, <2>1, AppendProperties DEF OnItsWay
<1> QED
  BY <1>2, <1>3

(* Any bytes that the receiver may have at the front are the beginning of  *)
(* one packet: of the first of pending, or of the torn one, and then they  *)
(* are not all of it.                                                      *)
LEMMA FirstOnItsWay ==
  ASSUME TypeOK, NEW rest, NEW p, Torn(rest, p),
         NEW a \in Seq(Byte), NEW b \in Seq(Byte), a \o b = buf \o wire, a # <<>>
  PROVE  \E h \in Sendable, t \in Seq(Byte) :
           /\ a \o (b \o rest) = Serialize(h) \o t
           /\ b \o rest \in Seq(Byte)
           /\ pending = <<>> => Len(a) < Len(Serialize(h))
           /\ pending # <<>> =>
                /\ h = Head(pending)
                /\ t = Bytes(IF rest = <<>> THEN Tail(pending) ELSE Append(Tail(pending), p))
<1> DEFINE way == OnItsWay(rest, p)
<1>1. way \in Seq(Sendable)
  BY OnItsWayType
<1>2. rest \in Seq(Byte) /\ pending \in Seq(Sendable)
  BY DEF Torn, TypeOK
<1>3. b \o rest \in Seq(Byte)
  BY <1>2, ConcatProperties
<1>4. a \o (b \o rest) = Bytes(way)
  <2>1. (a \o b) \o rest = a \o (b \o rest)
    BY <1>2, ThreeInARow
  <2> QED
    BY <2>1 DEF Torn
<1>5. Len(a) > 0 /\ Len(a) \in Nat
  BY EmptySeq
<1>6. Len(a \o (b \o rest)) = Len(a) + Len(b \o rest) /\ Len(b \o rest) = Len(b) + Len(rest)
      /\ Len(b) \in Nat /\ Len(rest) \in Nat
  BY <1>2, <1>3, ConcatProperties
<1>7. way # <<>>
  <2> SUFFICES ASSUME way = <<>> PROVE FALSE
    OBVIOUS
  <2>1. Len(Bytes(way)) = 0
    BY BytesEmpty, EmptySeq
  <2> HIDE DEF way
  <2> QED
    BY <1>4, <1>5, <1>6, <2>1
<1>8. /\ Head(way) \in Sendable /\ Tail(way) \in Seq(Sendable)
      /\ Bytes(way) = Serialize(Head(way)) \o Bytes(Tail(way))
      /\ Bytes(Tail(way)) \in Seq(Byte)
  <2> HIDE DEF way
  <2>1. Head(way) \in Sendable /\ Tail(way) \in Seq(Sendable)
    BY <1>1, <1>7, HeadTailProperties
  <2> QED
    BY <1>1, <1>7, <2>1, BytesHead, BytesType
<1>9. pending = <<>> => Len(a) < Len(Serialize(Head(way)))
  <2> SUFFICES ASSUME pending = <<>> PROVE Len(a) < Len(Serialize(Head(way)))
    OBVIOUS
  <2>1. rest # <<>>
    BY <1>7 DEF OnItsWay
  <2>2. way = Append(<<>>, p) /\ p \in Sendable
    BY <2>1 DEF OnItsWay, Torn
  <2>3. Bytes(way) = Serialize(p)
    BY <2>2, BytesAppended, EmptySeq
  <2>4. Head(way) = p
    BY <2>2, HeadTailAppend, EmptySeq
  <2>5. Len(rest) > 0
    BY <1>2, <2>1, EmptySeq
  <2> HIDE DEF way
  <2> QED
    BY <1>4, <1>5, <1>6, <2>3, <2>4, <2>5
<1>10. pending # <<>> =>
         /\ Head(way) = Head(pending)
         /\ Tail(way) = IF rest = <<>> THEN Tail(pending) ELSE Append(Tail(pending), p)
  BY <1>2, HeadTailAppend DEF OnItsWay
<1> QED
  BY <1>3, <1>4, <1>8, <1>9, <1>10

LEMMA Handed ==
  ASSUME TypeOK, NEW rest, NEW p, Torn(rest, p)
  PROVE  /\ buf \o wire \in Seq(Byte) /\ Len(buf \o wire) = Len(buf) + Len(wire)
         /\ Bytes(pending) \in Seq(Byte)
         /\ Len(Bytes(pending)) <= Len(buf) + Len(wire)
         /\ IsPrefix(Bytes(pending), buf \o wire)
<1> DEFINE x == buf \o wire
           y == Bytes(pending)
           e == IF rest = <<>> THEN <<>> ELSE Serialize(p)
<1>1. buf \in Seq(Byte) /\ wire \in Seq(Byte) /\ pending \in Seq(Sendable) /\ rest \in Seq(Byte)
  BY DEF TypeOK, Torn
<1>2. x \in Seq(Byte) /\ Len(x) = Len(buf) + Len(wire)
  BY <1>1, ConcatProperties
<1>3. y \in Seq(Byte)
  BY <1>1, BytesType
<1>4. e \in Seq(Byte) /\ Len(rest) <= Len(e)
  <2>1. CASE rest = <<>>
    BY <2>1, EmptySeq
  <2>2. CASE rest # <<>>
    BY <2>2, Sent DEF Torn
  <2> QED
    BY <2>1, <2>2
<1>5. x \o rest = y \o e
  <2>1. CASE rest = <<>>
    <3>1. y \o <<>> = y
      BY <1>3, ConcatEmptySeq
    <3> QED
      BY <2>1, <3>1 DEF Torn, OnItsWay
  <2>2. CASE rest # <<>>
    <3>1. Bytes(Append(pending, p)) = Bytes(pending) \o Serialize(p)
      BY <1>1, <2>2, BytesAppend DEF Torn
    <3> QED
      BY <2>2, <3>1 DEF Torn, OnItsWay
  <2> QED
    BY <2>1, <2>2
<1> HIDE DEF x, y, e
<1>6. /\ Len(x) + Len(rest) = Len(y) + Len(e)
      /\ \A i \in 1..Len(x) : i <= Len(y) => x[i] = y[i]
  <2>1. rest \in Seq(Byte) /\ x \in Seq(Byte) /\ e \in Seq(Byte)
    BY <1>1, <1>2, <1>4
  <2> QED
    BY <1>3, <1>5, <2>1, SameBytes, SMTT(30)
<1>7. /\ Len(x) \in Nat /\ Len(y) \in Nat /\ Len(rest) \in Nat /\ Len(e) \in Nat
      /\ Len(y) <= Len(x)
  <2>1. Len(x) \in Nat /\ Len(y) \in Nat /\ Len(rest) \in Nat /\ Len(e) \in Nat
    BY <1>1, <1>2, <1>3, <1>4, LenProperties
  <2> QED
    BY <1>4, <1>6, <2>1
<1>8. SubSeq(x, 1, Len(y)) = SubSeq(y, 1, Len(y))
  <2>1. Len(y) \in 0..Len(x) /\ Len(y) \in 0..Len(y)
    BY <1>7
  <2>2. /\ SubSeq(x, 1, Len(y)) \in Seq(Byte) /\ Len(SubSeq(x, 1, Len(y))) = Len(y)
        /\ SubSeq(y, 1, Len(y)) = y
    BY <1>2, <1>3, <2>1, Pieced, SubSeqFull
  <2>3. \A i \in 1..Len(y) : x[i] = y[i] /\ x[i] \in Byte
    BY <1>2, <1>6, <1>7, LenProperties
  <2>4. \A i \in 1..Len(y) : SubSeq(x, 1, Len(y))[i] = x[i]
    <3>1. \A i \in 1..(Len(y) - 1 + 1) : SubSeq(x, 1, Len(y))[i] = x[1 + i - 1]
      BY <1>7, <2>3, SubSeqProperties
    <3> QED
      BY <1>7, <3>1
  <2> QED
    BY <1>3, <2>2, <2>3, <2>4, SeqEqual
<1>9. IsPrefix(y, x)
  BY <1>7, <1>8 DEF IsPrefix
<1> QED
  BY <1>2, <1>3, <1>7, <1>9 DEF x, y

(* The second recvall wants the rest of the packet at the front.           *)
LEMMA WantedIsLength ==
  ASSUME TypeOK, NEW rest, NEW p, Torn(rest, p), reader = "data",
         PACKET_HEADER_SIZE <= Len(buf)
  PROVE  \E h \in Sendable :
           /\ Wanted = Len(Serialize(h))
           /\ pending # <<>> => h = Head(pending)
<1>1. buf \in Seq(Byte) /\ wire \in Seq(Byte) /\ Len(buf) >= 6
  BY DEF TypeOK, PACKET_HEADER_SIZE
<1>2. buf # <<>>
  BY <1>1, EmptySeq
<1>3. PICK h \in Sendable, t \in Seq(Byte) :
        /\ buf \o (wire \o rest) = Serialize(h) \o t
        /\ wire \o rest \in Seq(Byte)
        /\ pending # <<>> => h = Head(pending)
  <2> DEFINE Q(h, t) ==
        /\ buf \o (wire \o rest) = Serialize(h) \o t
        /\ wire \o rest \in Seq(Byte)
        /\ pending = <<>> => Len(buf) < Len(Serialize(h))
        /\ pending # <<>> =>
             /\ h = Head(pending)
             /\ t = Bytes(IF rest = <<>> THEN Tail(pending) ELSE Append(Tail(pending), p))
  <2>1. \E h \in Sendable, t \in Seq(Byte) : Q(h, t)
    BY <1>1, <1>2, FirstOnItsWay, Zenon
  <2> QED
    BY <2>1
<1>4. SizeIn(buf) = SizeOf(h)
  BY <1>1, <1>3, SizeSeen
<1> QED
  BY <1>3, <1>4, Sent DEF Wanted

(* With no byte left in the kernel and nothing more to come, a packet that *)
(* was wholly sent has been filled in.                                     *)
LEMMA NothingLeft ==
  ASSUME IInv, wire = <<>>, link # "open", reader # "done"
  PROVE  pending = <<>>
<1> SUFFICES ASSUME pending # <<>> PROVE FALSE
  OBVIOUS
<1>1. TypeOK /\ pending \in Seq(Sendable) /\ buf \in Seq(Byte)
  BY DEF IInv, TypeOK
<1>2. PICK rest, p : Torn(rest, p)
  BY TornSomehow
<1>3. Len(Bytes(pending)) <= Len(buf) /\ Bytes(pending) \in Seq(Byte)
  <2>1. Len(wire) = 0 /\ Len(buf) \in Nat
    BY <1>1, EmptySeq
  <2> QED
    BY <1>1, <1>2, <2>1, Handed
<1>4. /\ Head(pending) \in Sendable
      /\ Len(Bytes(pending)) >= Len(Serialize(Head(pending)))
      /\ Len(Serialize(Head(pending))) >= 7
  <2>1. Head(pending) \in Sendable /\ Tail(pending) \in Seq(Sendable)
    BY <1>1, HeadTailProperties
  <2>2. Bytes(pending) = Serialize(Head(pending)) \o Bytes(Tail(pending))
    BY <1>1, BytesHead
  <2>3. Serialize(Head(pending)) \in Seq(Byte) /\ Bytes(Tail(pending)) \in Seq(Byte)
    BY <2>1, Sent, BytesType
  <2>4. Len(Bytes(pending)) = Len(Serialize(Head(pending))) + Len(Bytes(Tail(pending)))
    BY <2>2, <2>3, ConcatProperties
  <2>5. \A size \in {1, 4, 40, 100} : 6 + size >= 7
    BY SMT
  <2>6. Len(Serialize(Head(pending))) >= 7
    BY <2>1, <2>5, Sent DEF PACKET_HEADER_SIZE
  <2>7. Len(Serialize(Head(pending))) \in Nat /\ Len(Bytes(Tail(pending))) \in Nat
    BY <2>3, LenProperties
  <2> QED
    BY <2>1, <2>4, <2>6, <2>7
<1>5. Len(buf) \in Nat /\ Len(Bytes(pending)) \in Nat
      /\ Len(Serialize(Head(pending))) \in Nat
  BY <1>1, <1>3, <1>4, Sent, LenProperties
<1>6. CASE reader = "header"
  BY <1>3, <1>4, <1>5, <1>6 DEF IInv, ReaderTidy, PACKET_HEADER_SIZE
<1>7. CASE reader = "data"
  <2>1. Wanted = Len(Serialize(Head(pending)))
    BY <1>1, <1>2, <1>7, WantedIsLength DEF IInv, ReaderTidy
  <2>2. Len(buf) < Wanted
    BY <1>7 DEF IInv, ReaderTidy
  <2> QED
    BY <1>3, <1>4, <1>5, <2>1, <2>2
<1> QED
  BY <1>1, <1>6, <1>7 DEF TypeOK
-----------------------------------------------------------------------------
(* The steps.                                                              *)
LEMMA TornOpen ==
  ASSUME IInv, link = "open"
  PROVE  Torn(out, sending)
BY DEF IInv, InStep

LEMMA SendStep ==
  ASSUME IInv, NEW p \in Sendable, Send(p)
  PROVE  IInv'
<1>1. TypeOK /\ Torn(out, sending) /\ link = "open" /\ out = <<>>
  BY TornOpen DEF IInv, Send
<1>2. /\ Serialize(p) \in Seq(Byte) /\ Serialize(p) # <<>>
  <2>1. \A size \in {1, 4, 40, 100} : 6 + size > 0
    BY SMT
  <2>2. Serialize(p) \in Seq(Byte) /\ Len(Serialize(p)) > 0
    BY <2>1, Sent DEF PACKET_HEADER_SIZE
  <2> QED
    BY <2>2, EmptySeq
<1>3. TypeOK'
  <2>1. started < MaxPackets /\ started' = started + 1 /\ MaxPackets \in Nat
    BY StreamAssumption DEF Send, StreamAssumption
  <2>2. started' \in 0..MaxPackets
    BY <1>1, <2>1 DEF TypeOK
  <2> QED
    BY <1>1, <1>2, <2>2 DEF TypeOK, Send, readerVars
<1>4. Torn(out, sending)'
  <2>1. buf \o wire \o <<>> = Bytes(pending)
    BY <1>1 DEF Torn, OnItsWay
  <2>2. buf \in Seq(Byte) /\ wire \in Seq(Byte) /\ pending \in Seq(Sendable)
    BY <1>1 DEF TypeOK
  <2>3. buf \o wire = Bytes(pending)
    BY <2>1, <2>2, ConcatProperties, ConcatEmptySeq
  <2>4. buf \o wire \o Serialize(p) = Bytes(Append(pending, p))
    BY <2>2, <2>3, BytesAppend
  <2>5. Len(Serialize(p)) <= Len(Serialize(p))
    BY <1>2
  <2> QED
    BY <1>2, <2>4, <2>5 DEF Send, Torn, OnItsWay, readerVars
<1>5. InStep'
  BY <1>1, <1>4 DEF InStep, Send
<1>6. ReaderTidy'
  BY DEF IInv, ReaderTidy, Send, readerVars, Wanted
<1> QED
  BY <1>3, <1>5, <1>6 DEF IInv

LEMMA SendSomeStep ==
  ASSUME IInv, NEW n \in 1..BufSize, SendSome(n)
  PROVE  IInv'
<1> DEFINE o1 == SubSeq(out, 1, n)
           o2 == SubSeq(out, n + 1, Len(out))
<1>1. /\ TypeOK /\ Torn(out, sending) /\ link = "open" /\ n <= Len(out)
      /\ Len(wire) + n <= BufSize
      /\ wire' = wire \o o1 /\ out' = o2
  BY TornOpen DEF IInv, SendSome
<1>2. /\ out \in Seq(Byte) /\ wire \in Seq(Byte) /\ buf \in Seq(Byte)
      /\ pending \in Seq(Sendable) /\ n \in 0..Len(out) /\ out # <<>>
  <2>1. out \in Seq(Byte) /\ wire \in Seq(Byte) /\ buf \in Seq(Byte) /\ pending \in Seq(Sendable)
    BY <1>1 DEF TypeOK
  <2>2. Len(out) \in Nat /\ n > 0 /\ n \in Nat
    BY <2>1, StreamAssumption, LenProperties DEF StreamAssumption
  <2> QED
    BY <1>1, <2>1, <2>2, EmptySeq
<1>3. /\ o1 \in Seq(Byte) /\ Len(o1) = n /\ o2 \in Seq(Byte) /\ Len(o2) = Len(out) - n
      /\ o1 \o o2 = out
  BY <1>2, Pieced
<1> HIDE DEF o1, o2
<1>4. sending \in Sendable /\ Len(out) <= Len(Serialize(sending))
      /\ buf \o wire \o out = Bytes(Append(pending, sending))
  BY <1>1, <1>2 DEF Torn, OnItsWay
<1>5. wire' \in Seq(Byte) /\ Len(wire') = Len(wire) + n
  BY <1>1, <1>2, <1>3, ConcatProperties
<1>6. buf \o wire' \o o2 = buf \o wire \o out
  <2>1. buf \o wire \in Seq(Byte)
    BY <1>2, ConcatProperties
  <2>2. buf \o (wire \o o1) = (buf \o wire) \o o1
    BY <1>2, <1>3, ThreeInARow
  <2>3. ((buf \o wire) \o o1) \o o2 = (buf \o wire) \o (o1 \o o2)
    BY <1>3, <2>1, ThreeInARow
  <2> QED
    BY <1>1, <1>3, <2>2, <2>3
<1>7. buf' = buf /\ result' = result /\ reader' = reader /\ link' = link /\ started' = started
      /\ unread' = unread
  BY DEF SendSome, readerVars
<1>8. TypeOK' /\ Torn(out, sending)'
  <2>1. CASE n = Len(out)
    <3>1. pending' = Append(pending, sending) /\ sending' = NoPacket
      BY <2>1 DEF SendSome
    <3>2. pending' \in Seq(Sendable)
      BY <1>2, <1>4, <3>1, AppendProperties
    <3>3. Len(o2) = 0
      BY <1>2, <1>3, <2>1
    <3>4. o2 = <<>>
      BY <1>3, <3>3, EmptySeq
    <3>5. TypeOK'
      BY <1>1, <1>3, <1>5, <1>7, <3>1, <3>2 DEF TypeOK
    <3> QED
      BY <1>1, <1>3, <1>4, <1>6, <1>7, <3>1, <3>4, <3>5 DEF Torn, OnItsWay
  <2>2. CASE n # Len(out)
    <3>1. pending' = pending /\ sending' = sending
      BY <2>2 DEF SendSome
    <3>2. Len(o2) # 0 /\ Len(o2) <= Len(Serialize(sending))
      <4>1. Len(Serialize(sending)) \in Nat
        BY <1>4, Sent, LenProperties
      <4> QED
        BY <1>2, <1>3, <1>4, <2>2, <4>1
    <3>3. o2 # <<>>
      BY <3>2, EmptySeq
    <3>4. TypeOK'
      BY <1>1, <1>3, <1>5, <1>7, <3>1 DEF TypeOK
    <3> QED
      BY <1>1, <1>3, <1>4, <1>6, <1>7, <3>1, <3>2, <3>3, <3>4 DEF Torn, OnItsWay
  <2> QED
    BY <2>1, <2>2
<1>9. InStep'
  BY <1>1, <1>7, <1>8 DEF InStep
<1>10. ReaderTidy'
  BY <1>1, <1>7 DEF IInv, ReaderTidy, Wanted
<1> QED
  BY <1>8, <1>9, <1>10 DEF IInv

LEMMA CloseStep ==
  ASSUME IInv, Close
  PROVE  IInv'
<1>1. TypeOK /\ Torn(out, sending) /\ out \in Seq(Byte) /\ sending \in Sendable \cup {NoPacket}
  BY TornOpen DEF IInv, Close, TypeOK
<1>2. TypeOK'
  BY <1>1, EmptySeq DEF TypeOK, Close, readerVars
<1>3. \E rest \in Seq(Byte), p \in Sendable \cup {NoPacket} : Torn(rest, p)'
  BY <1>1 DEF Torn, OnItsWay, Close, readerVars
<1>4. InStep'
  BY <1>3 DEF InStep, Close
<1>5. ReaderTidy'
  BY DEF IInv, ReaderTidy, Close, readerVars, Wanted
<1> QED
  BY <1>2, <1>4, <1>5 DEF IInv

LEMMA OtherStep ==
  ASSUME IInv, OtherDirection
  PROVE  IInv'
<1>1. TypeOK'
  BY DEF IInv, TypeOK, OtherDirection, senderVars, readerVars
<1>2. InStep' /\ ReaderTidy'
  BY DEF IInv, InStep, Torn, OnItsWay, ReaderTidy, Wanted, OtherDirection, senderVars, readerVars
<1> QED
  BY <1>1, <1>2 DEF IInv

(* After the end of the stream, or an error, what was torn is forgotten.   *)
LEMMA EndStep ==
  ASSUME IInv, RecvEnd \/ RecvError
  PROVE  IInv' /\ pending = <<>> /\ ~(reader = "data" /\ reader' = "header" /\ link' = link)
<1>1. /\ wire = <<>> /\ link # "open" /\ link' # "open" /\ reader # "done"
      /\ buf' = <<>> /\ wire' = wire /\ pending' = pending /\ out' = out
      /\ reader' = "done" \/ (reader' = "header" /\ link = "rst" /\ link' = "reset")
  BY DEF RecvEnd, RecvError, senderVars
<1>2. pending = <<>> /\ out = <<>>
  BY <1>1, NothingLeft DEF IInv, InStep
<1>3. TypeOK'
  <2>1. <<>> \in Seq(Byte) /\ Len(<<>>) <= MAX_PACKET_SIZE
    BY EmptySeq DEF MAX_PACKET_SIZE
  <2> QED
    BY <1>1, <2>1 DEF IInv, TypeOK, RecvEnd, RecvError, senderVars
<1>4. Torn(<<>>, NoPacket)'
  <2>1. <<>> \in Seq(Byte) /\ <<>> \o <<>> = <<>>
    BY EmptySeq, ConcatEmptySeq
  <2> QED
    BY <1>1, <1>2, <2>1, BytesEmpty DEF Torn, OnItsWay
<1>5. InStep'
  BY <1>1, <1>2, <1>4, EmptySeq DEF InStep
<1>6. ReaderTidy'
  BY <1>1, <1>2, EmptySeq DEF ReaderTidy, PACKET_HEADER_SIZE
<1> QED
  BY <1>1, <1>2, <1>3, <1>5, <1>6 DEF IInv

(* One recv: more of the packet, its header complete, or all of it.        *)
LEMMA RecvStep ==
  ASSUME IInv, NEW n \in 1..BufSize, RecvSome(n)
  PROVE  /\ IInv'
         /\ \/ pending' = pending /\ reader' # "header"
            \/ pending' = pending /\ reader = "header"
            \/ /\ reader = "data" /\ reader' = "header"
               /\ pending # <<>>
               /\ pending' = Tail(pending)
               /\ result' = AsRead(Head(pending))
<1> DEFINE w1 == SubSeq(wire, 1, n)
           b == SubSeq(wire, n + 1, Len(wire))
           a == buf \o w1
<1>1. PICK rest, p : Torn(rest, p) /\ (link = "open" => rest = out /\ p = sending)
  BY TornSomehow
<1>2. /\ TypeOK /\ reader \in {"header", "data"} /\ n <= Len(wire) /\ Len(buf) + n <= Wanted
      /\ wire' = b /\ link' = link /\ out' = out /\ sending' = sending
      /\ started' = started /\ unread' = unread
  BY DEF IInv, TypeOK, RecvSome, senderVars
<1>3. /\ wire \in Seq(Byte) /\ Len(wire) \in Nat /\ Len(wire) <= BufSize /\ buf \in Seq(Byte)
      /\ Len(buf) \in Nat
      /\ pending \in Seq(Sendable) /\ n \in 0..Len(wire) /\ n > 0 /\ rest \in Seq(Byte)
      /\ BufSize \in Nat
  BY <1>1, <1>2, StreamAssumption DEF TypeOK, Torn, StreamAssumption
<1>4. w1 \in Seq(Byte) /\ Len(w1) = n /\ b \in Seq(Byte) /\ Len(b) = Len(wire) - n /\ w1 \o b = wire
  BY <1>3, Pieced
<1> HIDE DEF w1, b
<1>5. a \in Seq(Byte) /\ Len(a) = Len(buf) + n /\ a # <<>>
  <2>1. a \in Seq(Byte) /\ Len(a) = Len(buf) + n
    BY <1>3, <1>4, ConcatProperties
  <2> QED
    BY <1>3, <2>1, EmptySeq
<1>6. a \o b = buf \o wire
  BY <1>3, <1>4, ThreeInARow
<1>7. \/ Len(a) < Wanted /\ buf' = a /\ UNCHANGED <<result, reader, pending>>
      \/ Len(a) = Wanted /\ reader = "header" /\ HeaderRead(a)
      \/ Len(a) = Wanted /\ reader = "data" /\ Deliver(a)
  BY DEF RecvSome, w1
<1> DEFINE Q(h, t) ==
      /\ a \o (b \o rest) = Serialize(h) \o t
      /\ b \o rest \in Seq(Byte)
      /\ pending = <<>> => Len(a) < Len(Serialize(h))
      /\ pending # <<>> =>
           /\ h = Head(pending)
           /\ t = Bytes(IF rest = <<>> THEN Tail(pending) ELSE Append(Tail(pending), p))
<1>8. \E h \in Sendable, t \in Seq(Byte) : Q(h, t)
  <2> HIDE DEF a
  <2> QED
    BY <1>1, <1>2, <1>4, <1>5, <1>6, FirstOnItsWay, Zenon
<1>9. PICK h \in Sendable, t \in Seq(Byte) : Q(h, t)
  BY <1>8
<1>10. /\ SizeOf(h) \in {1, 4, 40, 100} /\ Serialize(h) \in Seq(Byte)
       /\ Len(Serialize(h)) = 6 + SizeOf(h)
       /\ SizeOf(h) > 0 /\ SizeOf(h) \in Nat /\ Len(Serialize(h)) <= 200
  <2>1. \A size \in {1, 4, 40, 100} : size > 0 /\ size \in Nat /\ 6 + size <= 200
    BY SMT
  <2> QED
    BY <2>1, Sent DEF PACKET_HEADER_SIZE
<1>11. Len(a) >= 6 => SizeIn(a) = SizeOf(h)
  <2> HIDE DEF a
  <2> QED
    BY <1>5, <1>9, SizeSeen
<1>12. reader = "data" => Len(buf) >= 6 /\ SizeIn(buf) = SizeOf(h) /\ Wanted = 6 + SizeOf(h)
  <2> SUFFICES ASSUME reader = "data"
               PROVE  Len(buf) >= 6 /\ SizeIn(buf) = SizeOf(h) /\ Wanted = 6 + SizeOf(h)
    OBVIOUS
  <2>1. Len(buf) >= 6
    BY DEF IInv, ReaderTidy, PACKET_HEADER_SIZE
  <2> DEFINE e == w1 \o (b \o rest)
  <2>2. e \in Seq(Byte) /\ buf \o e = a \o (b \o rest)
    <3>1. w1 \o (b \o rest) \in Seq(Byte)
      BY <1>4, <1>9, ConcatProperties
    <3>2. (buf \o w1) \o (b \o rest) = buf \o (w1 \o (b \o rest))
      BY <1>3, <1>4, <1>9, ThreeInARow
    <3> QED
      BY <3>1, <3>2
  <2>3. SizeIn(buf) = SizeOf(h)
    <3>1. buf \o e = Serialize(h) \o t
      BY <1>9, <2>2
    <3> HIDE DEF e
    <3> QED
      BY <1>3, <2>1, <2>2, <3>1, SizeSeen
  <2> QED
    BY <2>1, <2>3 DEF Wanted, PACKET_HEADER_SIZE
<1>13. reader = "header" => Wanted = 6
  BY DEF Wanted, PACKET_HEADER_SIZE
<1>14. Torn(rest, p)' => InStep'
  BY <1>1, <1>2, <1>3 DEF IInv, InStep, TypeOK, Torn, OnItsWay
<1>15. Len(b) <= BufSize
  BY <1>3, <1>4
<1>16. ASSUME buf' = a, pending' = pending
       PROVE  Torn(rest, p)'
  <2>1. (a \o b) \o rest = (buf \o wire) \o rest
    BY <1>6
  <2> HIDE DEF a
  <2> QED
    BY <1>1, <1>2, <1>16, <2>1 DEF Torn, OnItsWay
<1>17. CASE Len(a) < Wanted /\ buf' = a /\ UNCHANGED <<result, reader, pending>>
  <2>1. Len(a) <= MAX_PACKET_SIZE
    <3> HIDE DEF a
    <3>1. Wanted <= 200 /\ Wanted \in Nat
      BY <1>2, <1>10, <1>12, <1>13
    <3> QED
      BY <1>5, <1>17, <3>1 DEF MAX_PACKET_SIZE
  <2>2. TypeOK'
    <3> HIDE DEF a
    <3> QED
      BY <1>2, <1>4, <1>5, <1>15, <1>17, <2>1 DEF TypeOK
  <2>3. InStep'
    BY <1>14, <1>16, <1>17
  <2>4. ReaderTidy'
    <3> HIDE DEF a
    <3>1. CASE reader = "header"
      BY <1>13, <1>17, <3>1 DEF ReaderTidy, PACKET_HEADER_SIZE
    <3>2. CASE reader = "data"
      <4>1. Len(a) >= 6
        BY <1>3, <1>5, <1>12, <3>2
      <4>2. Wanted' = 6 + SizeIn(a)
        BY <1>17, <3>2 DEF Wanted, PACKET_HEADER_SIZE
      <4>3. Wanted' = Wanted
        BY <1>11, <1>12, <3>2, <4>1, <4>2
      <4> QED
        BY <1>17, <3>2, <4>1, <4>3 DEF ReaderTidy, PACKET_HEADER_SIZE
    <3> QED
      BY <1>2, <3>1, <3>2
  <2> QED
    BY <1>2, <1>17, <2>2, <2>3, <2>4 DEF IInv
<1>18. CASE Len(a) = Wanted /\ reader = "header" /\ HeaderRead(a)
  <2>1. Len(a) = 6 /\ SizeIn(a) = SizeOf(h) /\ SizeIn(a) # 0
    <3> HIDE DEF a
    <3> QED
      BY <1>10, <1>11, <1>13, <1>18
  <2>2. buf' = a /\ reader' = "data" /\ UNCHANGED <<result, pending>>
    <3> HIDE DEF a
    <3> QED
      BY <1>18, <2>1 DEF HeaderRead
  <2>3. TypeOK'
    <3> HIDE DEF a
    <3>1. Len(a) <= MAX_PACKET_SIZE
      BY <2>1 DEF MAX_PACKET_SIZE
    <3> QED
      BY <1>2, <1>4, <1>5, <1>15, <2>2, <3>1 DEF TypeOK
  <2>4. InStep'
    BY <1>14, <1>16, <2>2
  <2>5. ReaderTidy'
    <3> HIDE DEF a
    <3>1. Wanted' = 6 + SizeIn(a)
      BY <2>2 DEF Wanted, PACKET_HEADER_SIZE
    <3>2. 6 <= Len(a) /\ Len(a) < Wanted'
      BY <1>10, <2>1, <3>1
    <3> QED
      BY <2>2, <3>2 DEF ReaderTidy, PACKET_HEADER_SIZE
  <2> QED
    BY <2>2, <2>3, <2>4, <2>5 DEF IInv
<1>19. CASE Len(a) = Wanted /\ reader = "data" /\ Deliver(a)
  <2>1. Len(a) = Len(Serialize(h))
    BY <1>10, <1>12, <1>19
  <2>2. a = Serialize(h) /\ b \o rest = t
    <3> DEFINE e == b \o rest
               s == Serialize(h)
    <3>1. a \in Seq(Byte) /\ e \in Seq(Byte) /\ s \in Seq(Byte) /\ a \o e = s \o t
          /\ Len(a) = Len(s)
      BY <1>5, <1>9, <1>10, <2>1
    <3> HIDE DEF a, e, s
    <3>2. a = s /\ e = t
      BY <3>1, SameBytes
    <3> QED
      BY <3>2 DEF e, s
  <2>3. pending # <<>> /\ h = Head(pending)
    <3>1. Len(a) \in Nat
      BY <1>3, <1>5
    <3>2. ~(Len(a) < Len(Serialize(h)))
      BY <2>1, <3>1
    <3> QED
      BY <1>9, <3>2
  <2>4. /\ result' = Deserialize(Serialize(h)) /\ buf' = <<>> /\ reader' = "header"
        /\ pending' = Tail(pending)
    BY <1>19, <2>2 DEF Deliver
  <2>5. result' = AsRead(Head(pending))
    BY <2>3, <2>4, Sent, RoundTrip
  <2>6. Tail(pending) \in Seq(Sendable)
    BY <1>3, <2>3, HeadTailProperties
  <2>7. <<>> \in Seq(Byte) /\ Len(<<>>) = 0
    BY EmptySeq
  <2>8. TypeOK'
    BY <1>2, <1>4, <1>15, <2>4, <2>6, <2>7 DEF TypeOK, MAX_PACKET_SIZE
  <2>9. Torn(rest, p)'
    <3>1. <<>> \o b = b
      BY <1>4, ConcatEmptySeq
    <3>2. b \o rest = Bytes(IF rest = <<>> THEN Tail(pending) ELSE Append(Tail(pending), p))
      BY <1>9, <2>2, <2>3
    <3> QED
      BY <1>1, <1>2, <2>4, <3>1, <3>2 DEF Torn, OnItsWay
  <2>10. ReaderTidy'
    BY <2>4, <2>7 DEF ReaderTidy, PACKET_HEADER_SIZE
  <2> QED
    BY <1>14, <1>19, <2>3, <2>4, <2>5, <2>8, <2>9, <2>10 DEF IInv
<1> QED
  BY <1>7, <1>17, <1>18, <1>19

LEMMA Start == Init => IInv
<1> SUFFICES ASSUME Init PROVE IInv
  OBVIOUS
<1>1. <<>> \in Seq(Byte) /\ <<>> \in Seq(Sendable) /\ Len(<<>>) = 0 /\ <<>> \o <<>> = <<>>
  BY EmptySeq, ConcatEmptySeq
<1>2. TypeOK
  <2>1. 0 \in 0..MaxPackets /\ 0 <= BufSize /\ 0 <= 200
    BY StreamAssumption DEF StreamAssumption
  <2> QED
    BY <1>1, <2>1 DEF Init, TypeOK, MAX_PACKET_SIZE
<1>3. InStep
  BY <1>1, BytesEmpty DEF Init, InStep, Torn, OnItsWay
<1>4. ReaderTidy
  BY <1>1 DEF Init, ReaderTidy, PACKET_HEADER_SIZE
<1> QED
  BY <1>2, <1>3, <1>4 DEF IInv

LEMMA Unmoved ==
  ASSUME UNCHANGED vars, IInv
  PROVE  IInv'
BY DEF vars, IInv, TypeOK, InStep, Torn, OnItsWay, ReaderTidy, Wanted

LEMMA Step == IInv /\ [Next]_vars => IInv'
<1> SUFFICES ASSUME IInv, [Next]_vars PROVE IInv'
  OBVIOUS
<1>1. ASSUME NEW p \in Sendable, Send(p) PROVE IInv'
  BY <1>1, SendStep
<1>2. ASSUME NEW n \in 1..BufSize, SendSome(n) PROVE IInv'
  BY <1>2, SendSomeStep
<1>3. CASE Close
  BY <1>3, CloseStep
<1>4. CASE OtherDirection
  BY <1>4, OtherStep
<1>5. CASE RecvEnd \/ RecvError
  BY <1>5, EndStep
<1>6. ASSUME NEW n \in 1..BufSize, RecvSome(n) PROVE IInv'
  BY <1>6, RecvStep
<1>7. CASE UNCHANGED vars
  BY <1>7, Unmoved
<1> QED
  BY <1>1, <1>2, <1>3, <1>4, <1>5, <1>6, <1>7 DEF Next, Sender, Reader

LEMMA Invariance == Spec => []IInv
BY Start, Step, PTL DEF Spec

(* Every variable keeps its type: the kernel never holds more bytes than   *)
(* its buffer, nor recv_packet more than MAX_PACKET_SIZE of them.          *)
THEOREM TypesHold == Spec => []TypeOK
<1>1. IInv => TypeOK
  BY DEF IInv
<1> QED
  BY <1>1, Invariance, PTL

LEMMA InStepFrames ==
  ASSUME IInv
  PROVE  Framing
<1> DEFINE way == IF out = <<>> THEN pending ELSE Append(pending, sending)
           stream == Bytes(way)
           x == buf \o wire
<1>1. PICK rest \in Seq(Byte), p \in Sendable \cup {NoPacket} :
        Torn(rest, p) /\ (link = "open" => rest = out /\ p = sending)
  BY TornSomehow
<1>2. TypeOK /\ x \in Seq(Byte)
  BY <1>1, Handed DEF IInv
<1>3. link = "open" => x \o out = stream
  BY <1>1 DEF Torn, OnItsWay
<1>4. IsPrefix(stream, x \o out)
  <2>1. CASE link = "open"
    <3> HIDE DEF stream, x
    <3>1. Len(stream) <= Len(stream)
      <4>1. x \o out \in Seq(Byte)
        BY <1>2, ConcatProperties DEF TypeOK
      <4> QED
        BY <1>3, <2>1, <4>1
    <3> QED
      BY <1>3, <2>1, <3>1 DEF IsPrefix
  <2>2. CASE link # "open"
    <3>1. out = <<>>
      BY <2>2 DEF IInv, InStep
    <3>2. stream = Bytes(pending)
      BY <3>1
    <3>3. x \o out = x
      <4> HIDE DEF x
      <4> QED
        BY <1>2, <3>1, ConcatEmptySeq
    <3> QED
      BY <1>1, <1>2, <3>2, <3>3, Handed
  <2> QED
    BY <2>1, <2>2
<1>5. reader = "done" => wire = <<>> /\ pending = <<>>
  BY DEF IInv, ReaderTidy
<1> QED
  BY <1>3, <1>4, <1>5 DEF Framing

(* Whatever the sizes of the packets, of the buffer and of the pieces, the *)
(* bytes that the receiver holds, the kernel has and the sender has left   *)
(* are whole packets, up to one that a close has torn.                     *)
THEOREM StaysInStep == Spec => []Framing
BY InStepFrames, Invariance, PTL

(* What recv_packet fills in is the next packet that was sent, of any type *)
(* and with any content, and it is never part of one.                      *)
THEOREM FilledInAsSent == Spec => DeliveredAsSent
<1> DEFINE A == reader = "data" /\ reader' = "header" /\ link' = link =>
                  /\ pending # <<>>
                  /\ result' = AsRead(Head(pending))
                  /\ pending' = Tail(pending)
<1>1. IInv /\ [Next]_vars => [A]_vars
  <2> SUFFICES ASSUME IInv, Next PROVE A
    OBVIOUS
  <2>1. ASSUME NEW p \in Sendable, Send(p) PROVE A
    BY <2>1 DEF Send, readerVars
  <2>2. ASSUME NEW n \in 1..BufSize, SendSome(n) PROVE A
    BY <2>2 DEF SendSome, readerVars
  <2>3. CASE Close
    BY <2>3 DEF Close, readerVars
  <2>4. CASE OtherDirection
    BY <2>4 DEF OtherDirection, readerVars
  <2>5. CASE RecvEnd \/ RecvError
    BY <2>5, EndStep
  <2>6. ASSUME NEW n \in 1..BufSize, RecvSome(n) PROVE A
    BY <2>6, RecvStep
  <2> QED
    BY <2>1, <2>2, <2>3, <2>4, <2>5, <2>6 DEF Next, Sender, Reader
<1> QED
  BY <1>1, Invariance, PTL DEF Spec, DeliveredAsSent
-----------------------------------------------------------------------------
(* The refinement: there is always room in Network's direction for one     *)
(* more packet, since each of them takes a byte at least.                  *)
LEMMA RoomForOne ==
  ASSUME IInv
  PROVE  Len(pending) < BufSize + MAX_PACKET_SIZE
<1>1. PICK rest, p : Torn(rest, p)
  BY TornSomehow
<1>2. /\ TypeOK /\ pending \in Seq(Sendable) /\ buf \in Seq(Byte) /\ wire \in Seq(Byte)
      /\ Len(wire) <= BufSize /\ BufSize \in Nat /\ BufSize > 0
  BY StreamAssumption DEF IInv, TypeOK, StreamAssumption
<1>3. Len(pending) <= Len(Bytes(pending)) /\ Len(Bytes(pending)) \in Nat
  BY <1>2, BytesType, LenProperties
<1>4. Len(Bytes(pending)) <= Len(buf) + Len(wire)
  BY <1>1, <1>2, Handed
<1>5. Len(pending) \in Nat /\ Len(buf) \in Nat /\ Len(wire) \in Nat
  BY <1>2, LenProperties
<1>6. Len(buf) < 200
  <2>1. CASE reader = "header"
    BY <1>5, <2>1 DEF IInv, ReaderTidy, PACKET_HEADER_SIZE
  <2>2. CASE reader = "data"
    <3>1. PICK h \in Sendable : Wanted = Len(Serialize(h))
      BY <1>1, <1>2, <2>2, WantedIsLength DEF IInv, ReaderTidy
    <3>2. Len(Serialize(h)) <= 200 /\ Len(Serialize(h)) \in Nat
      BY Sent, PacketFits, LenProperties DEF MAX_PACKET_SIZE
    <3> QED
      BY <1>5, <2>2, <3>1, <3>2 DEF IInv, ReaderTidy
  <2>3. CASE reader = "done"
    BY <2>3, EmptySeq DEF IInv, ReaderTidy
  <2> QED
    BY <1>2, <2>1, <2>2, <2>3 DEF TypeOK
<1> QED
  BY <1>2, <1>3, <1>4, <1>5, <1>6 DEF MAX_PACKET_SIZE

LEMMA StepNet ==
  ASSUME IInv, Next
  PROVE  NetStep \/ UNCHANGED Net!netVars
<1> USE DEF NetStep, Net!netVars
<1>1. ASSUME NEW p \in Sendable, Send(p)
      PROVE  UNCHANGED Net!netVars
  BY <1>1 DEF Send
<1>2. ASSUME NEW n \in 1..BufSize, SendSome(n)
      PROVE  NetStep \/ UNCHANGED Net!netVars
  <2>1. CASE n = Len(out)
    <3>1. pending' = Append(pending, sending) /\ UNCHANGED <<link, unread>>
      BY <1>2, <2>1 DEF SendSome
    <3>2. Len(pending) < BufSize + MAX_PACKET_SIZE
      BY RoomForOne
    <3>3. Net!ClientSend("c", sending)
      BY <3>1, <3>2 DEF Net!ClientSend
    <3> QED
      BY <3>3
  <2>2. CASE n # Len(out)
    BY <1>2, <2>2 DEF SendSome
  <2> QED
    BY <2>1, <2>2
<1>3. CASE Close
  <2>1. Net!ClientClose("c")
    <3>1. /\ link = "open" /\ link' = (IF unread THEN "rst" ELSE "fin")
          /\ unread' = FALSE /\ pending' = pending /\ unread \in BOOLEAN
      BY <1>3 DEF Close, IInv, TypeOK
    <3> QED
      BY <3>1, Zenon DEF Net!ClientClose
  <2> QED
    BY <2>1
<1>4. CASE OtherDirection
  <2>1. link = "open" /\ unread' = ~unread /\ UNCHANGED <<link, pending>>
    BY <1>4 DEF OtherDirection
  <2> DEFINE full == [c \in {"c"} |-> <<NoPacket>>]
             empty == [c \in {"c"} |-> <<>>]
             other == [c \in {"c"} |-> IF unread THEN <<NoPacket>> ELSE <<>>]
  <2>2. /\ full["c"] = <<NoPacket>> /\ empty["c"] = <<>> /\ full["c"] # <<>>
        /\ empty = [full EXCEPT !["c"] = Tail(full["c"])]
        /\ full = [empty EXCEPT !["c"] = Append(empty["c"], NoPacket)]
    <3>1. Tail(<<NoPacket>>) = <<>> /\ Append(<<>>, NoPacket) = <<NoPacket>> /\ <<NoPacket>> # <<>>
      OBVIOUS
    <3> QED
      BY <3>1
  <2>3. other = (IF unread THEN full ELSE empty) /\ other' = (IF unread' THEN full ELSE empty)
    OBVIOUS
  <2>4. CASE unread
    <3>1. other = full /\ other' = empty
      BY <2>1, <2>3, <2>4
    <3>2. other["c"] # <<>> /\ other' = [other EXCEPT !["c"] = Tail(other["c"])]
      BY <2>2, <3>1
    <3>3. Net!ClientRecv("c")
      BY <2>1, <3>2, Zenon DEF Net!ClientRecv
    <3> QED
      BY <3>3
  <2>5. CASE ~unread
    <3>1. other = empty /\ other' = full
      BY <2>1, <2>3, <2>5
    <3>2. /\ other' = [other EXCEPT !["c"] = Append(other["c"], NoPacket)]
          /\ Len(other["c"]) < BufSize + MAX_PACKET_SIZE
      <4>1. 0 < BufSize + MAX_PACKET_SIZE /\ Len(<<>>) = 0
        BY StreamAssumption DEF StreamAssumption, MAX_PACKET_SIZE
      <4> QED
        BY <2>2, <3>1, <4>1
    <3> DEFINE l == [c \in {"c"} |-> link]
    <3>3. /\ l["c"] = "open"
          /\ l' = [l EXCEPT !["c"] = IF l["c"] = "fin" THEN "late" ELSE l["c"]]
          /\ UNCHANGED [c \in {"c"} |-> pending]
      BY <2>1
    <3>4. Net!ServerSend("c", NoPacket)
      <4> HIDE DEF other, l
      <4>1. /\ l["c"] \in {"open", "fin", "late"}
            /\ l["c"] = "open" => Len(other["c"]) < BufSize + MAX_PACKET_SIZE
            /\ other' = IF l["c"] = "open" THEN [other EXCEPT !["c"] = Append(other["c"], NoPacket)]
                                           ELSE other
        BY <3>2, <3>3
      <4> QED
        BY <3>3, <4>1, Zenon DEF Net!ServerSend, other, l
    <3> QED
      BY <3>4
  <2> QED
    BY <2>4, <2>5
<1>5. CASE RecvEnd
  BY <1>5 DEF RecvEnd
<1>6. CASE RecvError
  <2>1. pending = <<>> /\ link = "rst" /\ link' = "reset" /\ UNCHANGED <<unread, pending>>
    BY <1>6, EndStep DEF RecvError
  <2>2. Net!ServerRecvError("c")
    BY <2>1 DEF Net!ServerRecvError
  <2> QED
    BY <2>2
<1>7. ASSUME NEW n \in 1..BufSize, RecvSome(n)
      PROVE  NetStep \/ UNCHANGED Net!netVars
  <2>1. UNCHANGED <<link, unread>>
    BY <1>7 DEF RecvSome
  <2>2. CASE pending' = pending
    BY <2>1, <2>2
  <2>3. CASE pending # <<>> /\ pending' = Tail(pending)
    <3>1. Net!ServerRecv("c")
      BY <2>1, <2>3 DEF Net!ServerRecv
    <3> QED
      BY <3>1
  <2> QED
    BY <1>7, <2>2, <2>3, RecvStep
<1> QED
  BY <1>1, <1>2, <1>3, <1>4, <1>5, <1>6, <1>7 DEF Next, Sender, Reader

(* A direction of a connection, with its bytes left out, is the FIFO of    *)
(* whole packets that the session is built on.                             *)
THEOREM ImplementsNetwork == Spec => NetworkSafe
<1>1. Init => Net!NetInit
  BY DEF Init, Net!NetInit
<1>2. IInv /\ [Next]_vars => [NetStep]_(Net!netVars)
  <2>1. UNCHANGED vars => UNCHANGED Net!netVars
    BY DEF vars, Net!netVars
  <2> QED
    BY <2>1, StepNet
<1> QED
  BY <1>1, <1>2, Invariance, PTL DEF Spec, NetworkSafe
=============================================================================
