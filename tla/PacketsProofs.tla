--------------------------- MODULE PacketsProofs ---------------------------
(* For every packet: what is written is what is read.                      *)
EXTENDS Packets, SequenceTheorems, TLAPS

LEMMA BytesOfI32 ==
  ASSUME NEW v \in Int
  PROVE  I32Bytes(v) \in [1..4 -> Byte]
BY SMT DEF I32Bytes, Byte

LEMMA TopByte ==
  ASSUME NEW q \in Int8
  PROVE  (IF q % 256 < 128 THEN q % 256 ELSE (q % 256) - 256) = q
BY SMT DEF Int8

(* htonl and ntohl over memcpy: every int32_t is read back as it was       *)
(* written, the negative ones too.                                         *)
THEOREM I32RoundTrip ==
  ASSUME NEW v \in Int32
  PROVE  FromI32(I32Bytes(v)) = v
<1> DEFINE q1 == v \div 256
           q2 == v \div 65536
           q3 == v \div 16777216
<1>1. v \in Int /\ q1 \in Int /\ q2 \in Int /\ q3 \in Int
  BY SMT DEF Int32
<1>2. v = 256 * q1 + (v % 256)
  BY <1>1, SMT
<1>3. q1 = 256 * q2 + (q1 % 256)
  BY <1>1, SMT
<1>4. q2 = 256 * q3 + (q2 % 256)
  BY <1>1, SMT
<1>5. q3 \in Int8
  BY SMT DEF Int32, Int8
<1>6. (IF q3 % 256 < 128 THEN q3 % 256 ELSE (q3 % 256) - 256) = q3
  BY <1>5, TopByte
<1>7. FromI32(I32Bytes(v)) =
        (IF q3 % 256 < 128 THEN q3 % 256 ELSE (q3 % 256) - 256) * 16777216
          + (q2 % 256) * 65536 + (q1 % 256) * 256 + (v % 256)
  BY <1>1, SMT DEF FromI32, I32Bytes
<1> HIDE DEF q1, q2, q3
<1> QED
  BY <1>1, <1>2, <1>3, <1>4, <1>6, <1>7, SMT

LEMMA I8RoundTrip ==
  ASSUME NEW v \in Int8
  PROVE  v % 256 \in Byte /\ FromI8(I8Bytes(v)) = v
BY SMT DEF Int8, Byte, FromI8, I8Bytes

LEMMA FormatFacts ==
  /\ FLOAT_SCALE \in Nat /\ FLOAT_SCALE > 0
  /\ Grid \in Nat /\ Grid > 0
  /\ \A s \in Spacings : s \in Nat /\ s > 0
BY PacketsAssumption

LEMMA Division ==
  ASSUME NEW n \in Int, NEW d \in Nat, d > 0
  PROVE  /\ n \div d \in Int
         /\ n % d \in 0..(d - 1)
         /\ n = d * (n \div d) + (n % d)
BY SMT

(* The nearest multiple of a step is at most half a step away.             *)
LEMMA NearestIsNear ==
  ASSUME NEW n \in Int, NEW step \in Nat, step > 0
  PROVE  /\ Nearest(n, step) \in Int
         /\ 2 * (n - step * Nearest(n, step)) <= step
         /\ 2 * (step * Nearest(n, step) - n) <= step
<1> DEFINE q == n \div step
           r == n % step
           m == Nearest(n, step)
<1>1. q \in Int /\ r \in 0..(step - 1) /\ n = step * q + r
  BY Division
<1>2. (m = q /\ 2 * r <= step) \/ (m = q + 1 /\ 2 * r >= step)
  BY <1>1, SMT DEF Nearest
<1> HIDE DEF q, r, m
<1>3. step * (q + 1) = step * q + step /\ step * q \in Int
  BY <1>1, SMT
<1>4. CASE m = q /\ 2 * r <= step
  BY <1>1, <1>3, <1>4, SMT DEF m
<1>5. CASE m = q + 1 /\ 2 * r >= step
  BY <1>1, <1>3, <1>5, SMT DEF m
<1> QED
  BY <1>2, <1>4, <1>5

(* One float operation: a result in range is off by half a spacing.        *)
LEMMA RoundedIsNear ==
  ASSUME NEW n \in Int, NEW d \in Nat, d > 0, InRange(n, d)
  PROVE  /\ Spacing(n, d) \in Nat
         /\ Rounded(n, d) \in Int
         /\ 2 * (n - d * Rounded(n, d)) <= d * Spacing(n, d)
         /\ 2 * (d * Rounded(n, d) - n) <= d * Spacing(n, d)
<1> DEFINE s == Spacing(n, d)
           m == Nearest(n, d * s)
<1>1. s \in Spacings
  BY DEF InRange, Spacing, IsSpacing
<1>2. s \in Nat /\ s > 0
  BY <1>1, FormatFacts
<1>3. Rounded(n, d) = s * m
  BY DEF Rounded
<1> HIDE DEF s
<1>4. d * s \in Nat /\ d * s > 0
  BY <1>2, SMT
<1>5. /\ m \in Int
      /\ 2 * (n - (d * s) * m) <= d * s
      /\ 2 * ((d * s) * m - n) <= d * s
  BY <1>4, NearestIsNear
<1> HIDE DEF m
<1>6. s * m \in Int /\ d * (s * m) = (d * s) * m
  BY <1>2, <1>5, SMT
<1> QED
  BY <1>2, <1>3, <1>5, <1>6 DEF s

LEMMA TruncatedIsNear ==
  ASSUME NEW n \in Int, NEW d \in Nat, d > 0
  PROVE  /\ Truncated(n, d) \in Int
         /\ n - d * Truncated(n, d) < d
         /\ d * Truncated(n, d) - n < d
<1>1. CASE n >= 0
  <2>1. Truncated(n, d) = n \div d
    BY <1>1 DEF Truncated
  <2> QED
    BY <1>1, <2>1, Division, SMT
<1>2. CASE n < 0
  <2> DEFINE q == (-n) \div d
  <2>1. Truncated(n, d) = -q
    BY <1>2, SMT DEF Truncated
  <2>2. /\ q \in Int /\ (-n) % d \in 0..(d - 1)
        /\ -n = d * q + ((-n) % d)
    BY Division, -n \in Int
  <2> HIDE DEF q
  <2>3. d * (-q) = -(d * q)
    BY <2>2, SMT
  <2> QED
    BY <2>1, <2>2, <2>3, SMT
<1> QED
  BY <1>1, <1>2, SMT

(* What bin_array.h loses of a float on the wire: less than one of the     *)
(* FLOAT_SCALE parts of a 1 that the encoding keeps, and half a spacing of *)
(* floats for each of the three operations that round, the product, the    *)
(* conversion of the integer, and the quotient.  All is counted in parts   *)
(* of 1 / (2 * Grid * FLOAT_SCALE).                                        *)
THEOREM FloatLoss ==
  ASSUME NEW x \in Int, InRange(x * FLOAT_SCALE, 1),
         InRange(ToFixed(x) * Grid, 1),
         InRange(AsFloat[ToFixed(x)], FLOAT_SCALE)
  PROVE  LET i == ToFixed(x)
             y == FromFixed(i)
             product == Spacing(x * FLOAT_SCALE, 1)
             integer == Spacing(i * Grid, 1)
             quotient == Spacing(AsFloat[i], FLOAT_SCALE)
             loss == 2 * Grid + product + integer + FLOAT_SCALE * quotient
         IN  /\ i \in Int /\ y \in Int
             /\ 2 * (FLOAT_SCALE * x - FLOAT_SCALE * y) < loss
             /\ 2 * (FLOAT_SCALE * y - FLOAT_SCALE * x) < loss
<1> DEFINE i == ToFixed(x)
           p == Product[x]
           w == AsFloat[i]
           y == FromFixed(i)
           s1 == Spacing(x * FLOAT_SCALE, 1)
           s2 == Spacing(i * Grid, 1)
           s3 == Spacing(w, FLOAT_SCALE)
<1>1. x * FLOAT_SCALE \in Int /\ x * FLOAT_SCALE = FLOAT_SCALE * x
  BY FormatFacts, SMT
<1>2. s1 \in Nat /\ p \in Int
      /\ 2 * (x * FLOAT_SCALE - p) <= s1 /\ 2 * (p - x * FLOAT_SCALE) <= s1
  <2>1. p = Rounded(x * FLOAT_SCALE, 1)
    BY DEF Product
  <2> HIDE DEF p
  <2>2. /\ s1 \in Nat /\ p \in Int
        /\ 2 * (x * FLOAT_SCALE - 1 * p) <= 1 * s1
        /\ 2 * (1 * p - x * FLOAT_SCALE) <= 1 * s1
    BY <1>1, <2>1, RoundedIsNear, 1 \in Nat, 1 > 0
  <2> HIDE DEF s1
  <2> QED
    BY <1>1, <2>2, SMT
<1>3. i \in Int /\ p - Grid * i < Grid /\ Grid * i - p < Grid
  <2>1. i = Truncated(p, Grid)
    BY DEF ToFixed
  <2> HIDE DEF i, p
  <2> QED
    BY <1>2, <2>1, FormatFacts, TruncatedIsNear
<1>4. i * Grid \in Int /\ i * Grid = Grid * i
  <2> HIDE DEF i
  <2> QED
    BY <1>3, FormatFacts, SMT
<1>5. s2 \in Nat /\ w \in Int
      /\ 2 * (i * Grid - w) <= s2 /\ 2 * (w - i * Grid) <= s2
  <2>1. w = Rounded(i * Grid, 1)
    BY <1>3 DEF AsFloat
  <2> HIDE DEF w
  <2>2. /\ s2 \in Nat /\ w \in Int
        /\ 2 * (i * Grid - 1 * w) <= 1 * s2
        /\ 2 * (1 * w - i * Grid) <= 1 * s2
    BY <1>4, <2>1, RoundedIsNear, 1 \in Nat, 1 > 0
  <2> HIDE DEF s2, i
  <2> QED
    BY <1>4, <2>2, SMT
<1>6. s3 \in Nat /\ y \in Int
      /\ 2 * (w - FLOAT_SCALE * y) <= FLOAT_SCALE * s3
      /\ 2 * (FLOAT_SCALE * y - w) <= FLOAT_SCALE * s3
  <2>1. y = Rounded(w, FLOAT_SCALE)
    BY <1>5 DEF FromFixed, Quotient
  <2> HIDE DEF y
  <2> QED
    BY <1>5, <2>1, FormatFacts, RoundedIsNear
<1> HIDE DEF i, p, w, y, s1, s2, s3
<1>7. /\ FLOAT_SCALE * x \in Int /\ FLOAT_SCALE * y \in Int /\ FLOAT_SCALE * s3 \in Int
      /\ Grid * i \in Int
  BY <1>3, <1>6, FormatFacts, SMT
<1>8. /\ 2 * (FLOAT_SCALE * x - FLOAT_SCALE * y) < 2 * Grid + s1 + s2 + FLOAT_SCALE * s3
      /\ 2 * (FLOAT_SCALE * y - FLOAT_SCALE * x) < 2 * Grid + s1 + s2 + FLOAT_SCALE * s3
  BY <1>1, <1>2, <1>3, <1>4, <1>5, <1>6, <1>7, FormatFacts, SMT
<1> QED
  BY <1>3, <1>6, <1>8 DEF i, w, y, s1, s2, s3

-----------------------------------------------------------------------------
LEMMA WrittenTypes ==
  /\ Written[PACKET_PING] = <<<<"i8", "dummy">>>>
  /\ Written[PACKET_INPUT] = Ints(<<"input_acc_ms">>)
  /\ Written[PACKET_INIT] =
         Ints(Ids) \o Floats("player1", Whole) \o Floats("player2", Whole)
           \o Floats("ball", Whole) \o Floats("box_size", <<"x", "y">>)
  /\ Written[PACKET_STATE] =
         Floats("player1", Paddle) \o Floats("player2", Paddle)
           \o Floats("ball", Ball)
BY SMT DEF Written, Types, PACKET_PING, PACKET_INPUT, PACKET_INIT, PACKET_STATE

(* The two switches name the same fields in the same order.                *)
LEMMA OrdersAgree == ReadOrder = Written
BY DEF ReadOrder, Written

(* The fields of four bytes; only the ping has another one.                *)
Names == {"player_ids[0]", "player_ids[1]", "own_id_index", "score[0]",
          "score[1]", "input_acc_ms", "pos.x", "pos.y", "velocity.x",
          "velocity.y", "size.x", "size.y", "x", "y"}
Objects == {"player1", "player2", "ball", "box_size"}
Wide == {<<"i32", n>> : n \in Names}
          \cup {<<"float", o, n>> : o \in Objects, n \in Names}

LEMMA WideKinds ==
  ASSUME NEW f \in Wide
  PROVE  f[1] \in {"i32", "float"}
BY DEF Wide

LEMMA IntsWide ==
  ASSUME NEW names \in Seq(Names)
  PROVE  Ints(names) \in Seq(Wide) /\ Len(Ints(names)) = Len(names)
<1>1. \A i \in 1..Len(names) : <<"i32", names[i]>> \in Wide
  <2> TAKE i \in 1..Len(names)
  <2>1. names[i] \in Names
    OBVIOUS
  <2> QED
    BY <2>1 DEF Wide
<1>2. Ints(names) = [i \in 1..Len(names) |-> <<"i32", names[i]>>]
  BY SMT DEF Ints
<1> QED
  BY <1>1, <1>2, SMT

LEMMA FloatsWide ==
  ASSUME NEW object \in Objects, NEW names \in Seq(Names)
  PROVE  /\ Floats(object, names) \in Seq(Wide)
         /\ Len(Floats(object, names)) = Len(names)
<1>1. \A i \in 1..Len(names) : <<"float", object, names[i]>> \in Wide
  <2> TAKE i \in 1..Len(names)
  <2>1. names[i] \in Names
    OBVIOUS
  <2> QED
    BY <2>1 DEF Wide
<1>2. Floats(object, names) =
        [i \in 1..Len(names) |-> <<"float", object, names[i]>>]
  BY SMT DEF Floats
<1> QED
  BY <1>1, <1>2, SMT

LEMMA NameLists ==
  /\ Ids \in Seq(Names) /\ Len(Ids) = 5
  /\ Whole \in Seq(Names) /\ Len(Whole) = 6
  /\ Paddle \in Seq(Names) /\ Len(Paddle) = 3
  /\ Ball \in Seq(Names) /\ Len(Ball) = 4
  /\ <<"x", "y">> \in Seq(Names) /\ Len(<<"x", "y">>) = 2
  /\ <<"input_acc_ms">> \in Seq(Names) /\ Len(<<"input_acc_ms">>) = 1
<1>1. Ids \in Seq(Names) /\ Len(Ids) = 5
  BY DEF Ids, Names
<1>2. Whole \in Seq(Names) /\ Len(Whole) = 6
  BY DEF Whole, Names
<1>3. Paddle \in Seq(Names) /\ Len(Paddle) = 3
  BY DEF Paddle, Names
<1>4. Ball \in Seq(Names) /\ Len(Ball) = 4
  BY DEF Ball, Names
<1>5. <<"x", "y">> \in Seq(Names) /\ Len(<<"x", "y">>) = 2
  BY DEF Names
<1>6. <<"input_acc_ms">> \in Seq(Names) /\ Len(<<"input_acc_ms">>) = 1
  BY DEF Names
<1> QED
  BY <1>1, <1>2, <1>3, <1>4, <1>5, <1>6

LEMMA Joined ==
  ASSUME NEW S, NEW s \in Seq(S), NEW t \in Seq(S)
  PROVE  s \o t \in Seq(S) /\ Len(s \o t) = Len(s) + Len(t)
BY ConcatProperties

LEMMA ThreeJoined ==
  ASSUME NEW S, NEW a \in Seq(S), NEW b \in Seq(S), NEW c \in Seq(S)
  PROVE  /\ a \o b \o c \in Seq(S)
         /\ Len(a \o b \o c) = Len(a) + Len(b) + Len(c)
<1>1. a \o b \in Seq(S) /\ Len(a \o b) = Len(a) + Len(b)
  BY Joined
<1>2. (a \o b) \o c \in Seq(S) /\ Len((a \o b) \o c) = Len(a \o b) + Len(c)
  BY <1>1, Joined
<1> QED
  BY <1>1, <1>2

LEMMA FiveJoined ==
  ASSUME NEW S, NEW a \in Seq(S), NEW b \in Seq(S), NEW c \in Seq(S),
         NEW d \in Seq(S), NEW e \in Seq(S)
  PROVE  /\ a \o b \o c \o d \o e \in Seq(S)
         /\ Len(a \o b \o c \o d \o e)
              = Len(a) + Len(b) + Len(c) + Len(d) + Len(e)
<1> DEFINE abc == a \o b \o c
<1>1. abc \in Seq(S) /\ Len(abc) = Len(a) + Len(b) + Len(c)
  BY ThreeJoined
<1>2. abc \o d \o e \in Seq(S) /\ Len(abc \o d \o e) = Len(abc) + Len(d) + Len(e)
  BY <1>1, ThreeJoined
<1> QED
  BY <1>1, <1>2

LEMMA WideTypes ==
  /\ Written[PACKET_INPUT] \in Seq(Wide) /\ Len(Written[PACKET_INPUT]) = 1
  /\ Written[PACKET_INIT] \in Seq(Wide) /\ Len(Written[PACKET_INIT]) = 25
  /\ Written[PACKET_STATE] \in Seq(Wide) /\ Len(Written[PACKET_STATE]) = 10
<1>1. Written[PACKET_INPUT] \in Seq(Wide) /\ Len(Written[PACKET_INPUT]) = 1
  BY WrittenTypes, NameLists, IntsWide
<1>2. \A o \in Objects :
        /\ Floats(o, Whole) \in Seq(Wide) /\ Len(Floats(o, Whole)) = 6
        /\ Floats(o, Paddle) \in Seq(Wide) /\ Len(Floats(o, Paddle)) = 3
        /\ Floats(o, Ball) \in Seq(Wide) /\ Len(Floats(o, Ball)) = 4
        /\ Floats(o, <<"x", "y">>) \in Seq(Wide)
        /\ Len(Floats(o, <<"x", "y">>)) = 2
  BY NameLists, FloatsWide
<1>3. "player1" \in Objects /\ "player2" \in Objects /\ "ball" \in Objects
        /\ "box_size" \in Objects
  BY DEF Objects
<1>4. Written[PACKET_INIT] \in Seq(Wide) /\ Len(Written[PACKET_INIT]) = 25
  <2> DEFINE a == Ints(Ids)
             b == Floats("player1", Whole)
             c == Floats("player2", Whole)
             d == Floats("ball", Whole)
             e == Floats("box_size", <<"x", "y">>)
  <2>1. a \in Seq(Wide) /\ Len(a) = 5
    BY NameLists, IntsWide
  <2>2. /\ b \in Seq(Wide) /\ Len(b) = 6 /\ c \in Seq(Wide) /\ Len(c) = 6
        /\ d \in Seq(Wide) /\ Len(d) = 6 /\ e \in Seq(Wide) /\ Len(e) = 2
    BY <1>2, <1>3
  <2>3. Written[PACKET_INIT] = a \o b \o c \o d \o e
    BY WrittenTypes
  <2> HIDE DEF a, b, c, d, e
  <2>4. a \in Seq(Wide) /\ b \in Seq(Wide) /\ c \in Seq(Wide)
          /\ d \in Seq(Wide) /\ e \in Seq(Wide)
    BY <2>1, <2>2
  <2>5. /\ a \o b \o c \o d \o e \in Seq(Wide)
        /\ Len(a \o b \o c \o d \o e) = Len(a) + Len(b) + Len(c) + Len(d) + Len(e)
    BY <2>4, FiveJoined
  <2>6. Len(a) + Len(b) + Len(c) + Len(d) + Len(e) = 25
    BY <2>1, <2>2, SMT
  <2> QED
    BY <2>3, <2>5, <2>6
<1>5. Written[PACKET_STATE] \in Seq(Wide) /\ Len(Written[PACKET_STATE]) = 10
  <2> DEFINE a == Floats("player1", Paddle)
             b == Floats("player2", Paddle)
             c == Floats("ball", Ball)
  <2>1. /\ a \in Seq(Wide) /\ Len(a) = 3 /\ b \in Seq(Wide) /\ Len(b) = 3
        /\ c \in Seq(Wide) /\ Len(c) = 4
    BY <1>2, <1>3
  <2>2. Written[PACKET_STATE] = a \o b \o c
    BY WrittenTypes
  <2>3. /\ Written[PACKET_STATE] \in Seq(Wide)
        /\ Len(Written[PACKET_STATE]) = Len(a) + Len(b) + Len(c)
    BY <2>1, <2>2, ThreeJoined
  <2> HIDE DEF a, b, c
  <2> QED
    BY <2>1, <2>3, SMT
<1> QED
  BY <1>1, <1>4, <1>5
-----------------------------------------------------------------------------
LEMMA TypeCases ==
  ASSUME NEW t \in Types
  PROVE  \/ t = PACKET_PING /\ Width(t) = 1
         \/ t \in {PACKET_INPUT, PACKET_INIT, PACKET_STATE} /\ Width(t) = 4
BY SMT DEF Types, Width, PACKET_PING, PACKET_INPUT, PACKET_INIT, PACKET_STATE

(* What is written for one field is read back, but for what a float loses. *)
LEMMA FieldRoundTrip ==
  ASSUME NEW f, f[1] \in {"i8", "i32", "float"}, NEW v \in FieldRange(f)
  PROVE  /\ FieldBytes(f, v) \in [1..(IF f[1] = "i8" THEN 1 ELSE 4) -> Byte]
         /\ FieldValue(f, FieldBytes(f, v))
              = IF f[1] = "float" THEN FromFixed(ToFixed(v)) ELSE v
<1>1. CASE f[1] = "i8"
  <2>1. FieldBytes(f, v) = I8Bytes(v) /\ FieldValue(f, I8Bytes(v)) = FromI8(I8Bytes(v))
    BY <1>1 DEF FieldBytes, FieldValue
  <2>2. v \in Int8
    BY <1>1 DEF FieldRange
  <2>3. I8Bytes(v) \in [1..1 -> Byte]
    BY <2>2, I8RoundTrip, SMT DEF I8Bytes
  <2> QED
    BY <1>1, <2>1, <2>2, <2>3, I8RoundTrip
<1>2. CASE f[1] = "i32"
  <2>1. FieldBytes(f, v) = I32Bytes(v) /\ FieldValue(f, I32Bytes(v)) = FromI32(I32Bytes(v))
    BY <1>2 DEF FieldBytes, FieldValue
  <2>2. v \in Int32
    BY <1>2 DEF FieldRange
  <2>3. v \in Int
    BY <2>2 DEF Int32
  <2> QED
    BY <1>2, <2>1, <2>2, <2>3, BytesOfI32, I32RoundTrip
<1>3. CASE f[1] = "float"
  <2> DEFINE i == ToFixed(v)
  <2>1. FieldBytes(f, v) = I32Bytes(i)
          /\ FieldValue(f, I32Bytes(i)) = FromFixed(FromI32(I32Bytes(i)))
    BY <1>3 DEF FieldBytes, FieldValue
  <2>2. i \in Int32
    BY <1>3 DEF FieldRange
  <2>3. i \in Int
    BY <2>2 DEF Int32
  <2> QED
    BY <1>3, <2>1, <2>2, <2>3, BytesOfI32, I32RoundTrip
<1> QED
  BY <1>1, <1>2, <1>3

LEMMA FieldsOfType ==
  ASSUME NEW t \in Types, NEW k \in 1..Len(Written[t])
  PROVE  /\ Written[t][k][1] \in {"i8", "i32", "float"}
         /\ (IF Written[t][k][1] = "i8" THEN 1 ELSE 4) = Width(t)
<1>1. CASE t = PACKET_PING
  <2>1. Written[t] = <<<<"i8", "dummy">>>>
    BY <1>1, WrittenTypes
  <2>2. k = 1
    BY <2>1, SMT
  <2>3. Written[t][k][1] = "i8"
    BY <2>1, <2>2
  <2> QED
    BY <1>1, <2>3 DEF Width
<1>2. CASE t \in {PACKET_INPUT, PACKET_INIT, PACKET_STATE}
  <2>1. Written[t] \in Seq(Wide)
    BY <1>2, WideTypes
  <2>2. Written[t][k] \in Wide
    BY <2>1
  <2>3. Written[t][k][1] \in {"i32", "float"}
    BY <2>2, WideKinds
  <2>4. Width(t) = 4
    BY <1>2, SMT DEF Width, PACKET_PING, PACKET_INPUT, PACKET_INIT, PACKET_STATE
  <2> QED
    BY <2>3, <2>4
<1> QED
  BY <1>1, <1>2, TypeCases

LEMMA InFours ==
  ASSUME NEW k \in Nat, k > 0, NEW i \in 1..4
  PROVE  /\ (((4 * (k - 1) + i) - 1) \div 4) + 1 = k
         /\ (((4 * (k - 1) + i) - 1) % 4) + 1 = i
<1>1. \A a \in Nat, r \in 0..3 : (4 * a + r) \div 4 = a /\ (4 * a + r) % 4 = r
  BY SMT
<1>2. k - 1 \in Nat /\ i - 1 \in 0..3 /\ (4 * (k - 1) + i) - 1 = 4 * (k - 1) + (i - 1)
  BY SMT
<1>3. (4 * (k - 1) + (i - 1)) \div 4 = k - 1 /\ (4 * (k - 1) + (i - 1)) % 4 = i - 1
  BY <1>1, <1>2
<1> QED
  BY <1>2, <1>3, SMT

LEMMA Places ==
  ASSUME NEW w \in {1, 4}, NEW n \in Nat
  PROVE  \A j \in 1..(w * n) : /\ ((j - 1) \div w) + 1 \in 1..n
                               /\ ((j - 1) % w) + 1 \in 1..w
<1>1. CASE w = 1
  BY <1>1, SMT
<1>2. CASE w = 4
  BY <1>2, SMT
<1> QED
  BY <1>1, <1>2

LEMMA Slice ==
  ASSUME NEW s, NEW m \in Nat, NEW w \in Nat,
         \A i \in 1..w : s[m + i] \in Byte
  PROVE  /\ SubSeq(s, m + 1, m + w) \in Seq(Byte)
         /\ Len(SubSeq(s, m + 1, m + w)) = w
         /\ \A i \in 1..w : SubSeq(s, m + 1, m + w)[i] = s[m + i]
<1>1. \A j \in (m + 1)..(m + w) : s[j] \in Byte
  <2> TAKE j \in (m + 1)..(m + w)
  <2>1. j - m \in 1..w /\ m + (j - m) = j
    BY SMT
  <2> QED
    BY <2>1
<1>2. m + 1 \in Int /\ m + w \in Int
  BY SMT
<1>3. /\ SubSeq(s, m + 1, m + w) \in Seq(Byte)
      /\ Len(SubSeq(s, m + 1, m + w))
           = IF m + 1 <= m + w THEN (m + w) - (m + 1) + 1 ELSE 0
      /\ \A i \in 1..((m + w) - (m + 1) + 1) :
           SubSeq(s, m + 1, m + w)[i] = s[(m + 1) + i - 1]
  BY <1>1, <1>2, SubSeqProperties
<1>4. /\ (m + w) - (m + 1) + 1 = w
      /\ (IF m + 1 <= m + w THEN (m + w) - (m + 1) + 1 ELSE 0) = w
      /\ \A i \in 1..w : (m + 1) + i - 1 = m + i
  BY SMT
<1> QED
  BY <1>3, <1>4

LEMMA BehindHeader ==
  ASSUME NEW h \in Seq(Byte), NEW t \in Seq(Byte)
  PROVE  \A i \in 1..Len(t) : (h \o t)[Len(h) + i] = t[i]
<1> TAKE i \in 1..Len(t)
<1>1. Len(h) \in Nat /\ Len(t) \in Nat
  OBVIOUS
<1>2. /\ Len(h) + i \in 1..(Len(h) + Len(t))
      /\ ~(Len(h) + i <= Len(h))
      /\ (Len(h) + i) - Len(h) = i
  BY <1>1, SMT
<1> QED
  BY <1>2, ConcatProperties

LEMMA LaidOut ==
  ASSUME NEW w \in {1, 4}, NEW n \in Nat, NEW b \in [1..n -> [1..w -> Byte]],
         NEW body,
         body = [j \in 1..(w * n) |-> b[((j - 1) \div w) + 1][((j - 1) % w) + 1]]
  PROVE  body \in Seq(Byte) /\ Len(body) = w * n
<1>1. w * n \in Nat
  BY SMT
<1>2. \A j \in 1..(w * n) : /\ ((j - 1) \div w) + 1 \in 1..n
                            /\ ((j - 1) % w) + 1 \in 1..w
  BY Places
<1>3. \A j \in 1..(w * n) : body[j] \in Byte
  BY <1>2, SMT
<1> QED
  BY <1>1, <1>3, SMT

(* Fields of equal width, laid out one after the other behind a header,    *)
(* are found again where Slot looks for them.                              *)
LEMMA Layout ==
  ASSUME NEW w \in {1, 4}, NEW n \in Nat, NEW b \in [1..n -> [1..w -> Byte]],
         NEW h \in Seq(Byte), Len(h) = PACKET_HEADER_SIZE, NEW body,
         body = [j \in 1..(w * n) |-> b[((j - 1) \div w) + 1][((j - 1) % w) + 1]]
  PROVE  /\ body \in Seq(Byte)
         /\ Len(body) = w * n
         /\ \A k \in 1..n : Slot(h \o body, w, k) = b[k]
<1>1. w * n \in Nat
  BY SMT
<1>2. body \in Seq(Byte) /\ Len(body) = w * n
  BY LaidOut
<1>3. \A j \in 1..Len(body) : (h \o body)[Len(h) + j] = body[j]
  BY <1>2, BehindHeader, Zenon
<1>4. ASSUME NEW k \in 1..n
      PROVE  Slot(h \o body, w, k) = b[k]
  <2> DEFINE at == w * (k - 1)
             from == Len(h) + at
             all == h \o body
  <2>1. /\ from \in Nat /\ at \in Nat /\ at + w <= w * n
        /\ Len(h) + w * k = from + w
    <3>1. CASE w = 1
      BY <3>1, SMT DEF PACKET_HEADER_SIZE
    <3>2. CASE w = 4
      BY <3>2, SMT DEF PACKET_HEADER_SIZE
    <3> QED
      BY <3>1, <3>2
  <2>2. ASSUME NEW i \in 1..w
        PROVE  all[from + i] = b[k][i] /\ b[k][i] \in Byte
    <3>1. at + i \in 1..Len(body) /\ from + i = Len(h) + (at + i)
      <4> HIDE DEF at
      <4> QED
        BY <1>2, <1>1, <2>1, SMT
    <3>2. all[from + i] = body[at + i]
      <4> HIDE DEF at, from
      <4>1. (h \o body)[Len(h) + (at + i)] = body[at + i]
        BY <1>3, <3>1
      <4> QED
        BY <3>1, <4>1
    <3>3. (((at + i) - 1) \div w) + 1 = k /\ (((at + i) - 1) % w) + 1 = i
      <4>1. CASE w = 1
        BY <4>1, SMT
      <4>2. CASE w = 4
        <5>1. k \in Nat /\ k > 0 /\ i \in 1..4
          BY <4>2, SMT
        <5> QED
          BY <4>2, <5>1, InFours
      <4> QED
        BY <4>1, <4>2
    <3>4. body[at + i] = b[(((at + i) - 1) \div w) + 1][(((at + i) - 1) % w) + 1]
      <4> HIDE DEF at, from
      <4> QED
        BY <1>2, <3>1
    <3>5. b[k][i] \in Byte
      OBVIOUS
    <3> QED
      BY <3>2, <3>3, <3>4, <3>5
  <2>3. Slot(all, w, k) = SubSeq(all, from + 1, from + w)
    BY <2>1 DEF Slot
  <2> HIDE DEF all, from, at
  <2>4. /\ Len(SubSeq(all, from + 1, from + w)) = w
        /\ SubSeq(all, from + 1, from + w) \in Seq(Byte)
        /\ \A i \in 1..w : SubSeq(all, from + 1, from + w)[i] = b[k][i]
    <3>0. from \in Nat
      BY <2>1
    <3>1. w \in Nat
      BY SMT
    <3>2. \A i \in 1..w : all[from + i] \in Byte
      BY <2>2
    <3>3. /\ Len(SubSeq(all, from + 1, from + w)) = w
          /\ SubSeq(all, from + 1, from + w) \in Seq(Byte)
          /\ \A i \in 1..w : SubSeq(all, from + 1, from + w)[i] = all[from + i]
      BY <3>0, <3>1, <3>2, Slice, ZenonT(60)
    <3> QED
      BY <2>2, <3>3
  <2>5. b[k] \in Seq(Byte) /\ Len(b[k]) = w
    <3>1. b[k] \in [1..w -> Byte] /\ w \in Nat
      BY SMT
    <3> QED
      BY <3>1, SMT
  <2>6. SubSeq(all, from + 1, from + w) = b[k]
    BY <2>4, <2>5, SeqEqual
  <2> QED
    BY <2>3, <2>6 DEF all
<1> QED
  BY <1>2, <1>4
-----------------------------------------------------------------------------
LEMMA FieldsCounted ==
  ASSUME NEW t \in Types
  PROVE  /\ Len(Written[t]) \in Nat
         /\ DOMAIN Written[t] = 1..Len(Written[t])
         /\ Width(t) \in {1, 4}
         /\ Width(t) * Len(Written[t]) \in {1, 4, 40, 100}
<1>1. CASE t = PACKET_PING /\ Width(t) = 1
  <2>1. Written[t] = <<<<"i8", "dummy">>>>
    BY <1>1, WrittenTypes
  <2>2. Len(Written[t]) = 1 /\ DOMAIN Written[t] = 1..1
    BY <2>1
  <2> QED
    BY <1>1, <2>2, SMT
<1>2. CASE t \in {PACKET_INPUT, PACKET_INIT, PACKET_STATE} /\ Width(t) = 4
  <2>1. Written[t] \in Seq(Wide) /\ Len(Written[t]) \in {1, 10, 25}
    BY <1>2, WideTypes
  <2>2. DOMAIN Written[t] = 1..Len(Written[t])
    BY <2>1
  <2>3. \A m \in {1, 10, 25} : m \in Nat /\ 4 * m \in {1, 4, 40, 100}
    BY SMT
  <2>4. Len(Written[t]) \in Nat /\ 4 * Len(Written[t]) \in {1, 4, 40, 100}
    BY <2>1, <2>3
  <2> QED
    BY <1>2, <2>2, <2>4
<1> QED
  BY <1>1, <1>2, TypeCases

(* The bytes of each field of a packet.                                    *)
Pieces(p) ==
  [k \in 1..Len(Written[p.type]) |->
     FieldBytes(Written[p.type][k], p.data[Written[p.type][k]])]

Header(p) == <<p.type, p.sync % 256>> \o I32Bytes(SizeOf(p))

LEMMA PieceRoundTrip ==
  ASSUME NEW p, IsPacket(p), NEW k \in 1..Len(Written[p.type])
  PROVE  LET f == Written[p.type][k]
         IN  /\ f \in Fields(p.type)
             /\ FieldBytes(f, p.data[f]) \in [1..Width(p.type) -> Byte]
             /\ FieldValue(f, FieldBytes(f, p.data[f])) = AsRead(p).data[f]
<1> DEFINE f == Written[p.type][k]
<1>1. p.type \in Types
  BY DEF IsPacket
<1>2. f \in Fields(p.type)
  BY <1>1, FieldsCounted DEF Fields
<1>3. p.data[f] \in FieldRange(f)
  BY <1>2 DEF IsPacket
<1>4. /\ f[1] \in {"i8", "i32", "float"}
      /\ (IF f[1] = "i8" THEN 1 ELSE 4) = Width(p.type)
  BY <1>1, FieldsOfType
<1>5. AsRead(p).data[f]
        = IF f[1] = "float" THEN FromFixed(ToFixed(p.data[f])) ELSE p.data[f]
  BY <1>2 DEF AsRead
<1> HIDE DEF f
<1>6. /\ FieldBytes(f, p.data[f]) \in [1..(IF f[1] = "i8" THEN 1 ELSE 4) -> Byte]
      /\ FieldValue(f, FieldBytes(f, p.data[f]))
           = IF f[1] = "float" THEN FromFixed(ToFixed(p.data[f])) ELSE p.data[f]
  BY <1>3, <1>4, FieldRoundTrip
<1>7. /\ f \in Fields(p.type)
      /\ FieldBytes(f, p.data[f]) \in [1..Width(p.type) -> Byte]
      /\ FieldValue(f, FieldBytes(f, p.data[f])) = AsRead(p).data[f]
  BY <1>2, <1>4, <1>5, <1>6
<1> QED
  BY <1>7 DEF f

LEMMA PayloadOfPieces ==
  ASSUME NEW p, IsPacket(p)
  PROVE  LET w == Width(p.type)
             n == Len(Written[p.type])
             b == Pieces(p)
         IN  /\ b \in [1..n -> [1..w -> Byte]]
             /\ Payload(p) = [j \in 1..(w * n) |->
                                b[((j - 1) \div w) + 1][((j - 1) % w) + 1]]
<1> DEFINE w == Width(p.type)
           n == Len(Written[p.type])
           b == Pieces(p)
<1>1. p.type \in Types
  BY DEF IsPacket
<1>2. w \in {1, 4} /\ n \in Nat
  BY <1>1, FieldsCounted
<1>3. \A k \in 1..n : b[k] \in [1..w -> Byte]
                      /\ b[k] = FieldBytes(Written[p.type][k], p.data[Written[p.type][k]])
  BY PieceRoundTrip DEF Pieces
<1>4. b \in [1..n -> [1..w -> Byte]]
  BY <1>3 DEF Pieces
<1>5. \A j \in 1..(w * n) : ((j - 1) \div w) + 1 \in 1..n
  <2> HIDE DEF w, n
  <2> QED
    BY <1>2, Places
<1>6. \A j \in 1..(w * n) :
        LET g == Written[p.type][((j - 1) \div w) + 1]
        IN  FieldBytes(g, p.data[g])[((j - 1) % w) + 1]
              = b[((j - 1) \div w) + 1][((j - 1) % w) + 1]
  BY <1>3, <1>5
<1>7. Payload(p) = [j \in 1..(w * n) |->
                      b[((j - 1) \div w) + 1][((j - 1) % w) + 1]]
  BY <1>6 DEF Payload
<1> QED
  BY <1>4, <1>7

LEMMA FourBytes ==
  ASSUME NEW c \in [1..4 -> Byte]
  PROVE  c \in Seq(Byte) /\ Len(c) = 4
<1>1. \A w \in Nat : \A d \in [1..w -> Byte] : d \in Seq(Byte) /\ Len(d) = w
  BY SMT
<1>2. 4 \in Nat
  BY SMT
<1> QED
  BY <1>1, <1>2

LEMMA SixBytes ==
  ASSUME NEW two \in Seq(Byte), Len(two) = 2, NEW c \in Seq(Byte), Len(c) = 4
  PROVE  LET h == two \o c
         IN  /\ h \in Seq(Byte) /\ Len(h) = 6
             /\ h[1] = two[1] /\ h[2] = two[2]
             /\ SubSeq(h, 3, 6) = c
<1>1. /\ two \o c \in Seq(Byte)
      /\ Len(two \o c) = Len(two) + Len(c)
      /\ \A i \in 1..(Len(two) + Len(c)) :
           (two \o c)[i] = IF i <= Len(two) THEN two[i] ELSE c[i - Len(two)]
  BY ConcatProperties
<1>2. /\ two \o c \in Seq(Byte) /\ Len(two \o c) = 6
      /\ (two \o c)[1] = two[1] /\ (two \o c)[2] = two[2]
  BY <1>1, SMT
<1>3. \A i \in 1..4 : (two \o c)[2 + i] = c[i] /\ c[i] \in Byte
  BY <1>1, SMT
<1>4. SubSeq(two \o c, 3, 6) = c
  <2> SUFFICES ASSUME NEW h, \A i \in 1..4 : h[2 + i] = c[i] /\ c[i] \in Byte
               PROVE  SubSeq(h, 3, 6) = c
    BY <1>3
  <2>1. 2 \in Nat /\ 4 \in Nat
    BY SMT
  <2>2. /\ SubSeq(h, 2 + 1, 2 + 4) \in Seq(Byte)
        /\ Len(SubSeq(h, 2 + 1, 2 + 4)) = 4
        /\ \A i \in 1..4 : SubSeq(h, 2 + 1, 2 + 4)[i] = h[2 + i]
    BY <2>1, Slice, Zenon
  <2>3. /\ SubSeq(h, 3, 6) \in Seq(Byte)
        /\ Len(SubSeq(h, 3, 6)) = 4
        /\ \A i \in 1..4 : SubSeq(h, 3, 6)[i] = c[i]
    BY <2>2, SMT
  <2> QED
    BY <2>3, SeqEqual
<1> QED
  BY <1>2, <1>4

LEMMA HeaderBytes ==
  ASSUME NEW p, IsPacket(p), NEW size \in {1, 4, 40, 100}, SizeOf(p) = size
  PROVE  /\ Header(p) \in Seq(Byte) /\ Len(Header(p)) = PACKET_HEADER_SIZE
         /\ Header(p)[1] = p.type
         /\ FromI8(<<Header(p)[2]>>) = p.sync
         /\ SubSeq(Header(p), 3, 6) = I32Bytes(size)
<1>1. p.type \in Byte /\ p.sync \in Int8 /\ p.sync % 256 \in Byte
  BY SMT DEF IsPacket, Types, Byte, Int8
<1>2. size \in Int
  BY SMT
<1> DEFINE c == I32Bytes(size)
           two == <<p.type, p.sync % 256>>
<1>3. c \in Seq(Byte) /\ Len(c) = 4
  BY <1>2, BytesOfI32, FourBytes
<1>4. two \in Seq(Byte) /\ Len(two) = 2 /\ two[1] = p.type /\ two[2] = p.sync % 256
  BY <1>1
<1>5. FromI8(<<two[2]>>) = p.sync
  BY <1>1, <1>4, I8RoundTrip DEF I8Bytes
<1>6. Header(p) = two \o c
  BY DEF Header
<1> HIDE DEF c, two
<1>7. /\ two \o c \in Seq(Byte) /\ Len(two \o c) = 6
      /\ (two \o c)[1] = two[1] /\ (two \o c)[2] = two[2]
      /\ SubSeq(two \o c, 3, 6) = c
  BY <1>3, <1>4, SixBytes
<1> QED
  BY <1>4, <1>5, <1>6, <1>7 DEF c, PACKET_HEADER_SIZE

(* Of a packet of every type and with every content: the buffer of         *)
(* MAX_PACKET_SIZE bytes holds it, and its header announces exactly the    *)
(* bytes that follow, never none, which recv_packet would take for the end *)
(* of the stream.                                                          *)
THEOREM PacketFits ==
  ASSUME NEW p, IsPacket(p)
  PROVE  /\ SizeOf(p) \in {1, 4, 40, 100}
         /\ Serialize(p) \in Seq(Byte)
         /\ Len(Serialize(p)) = PACKET_HEADER_SIZE + SizeOf(p)
         /\ Len(Serialize(p)) <= MAX_PACKET_SIZE
         /\ SizeIn(Header(p)) = SizeOf(p)
<1> DEFINE w == Width(p.type)
           n == Len(Written[p.type])
           b == Pieces(p)
<1>1. /\ p.type \in Types
      /\ w \in {1, 4} /\ n \in Nat /\ w * n \in {1, 4, 40, 100}
  <2>1. p.type \in Types
    BY DEF IsPacket
  <2> QED
    BY <2>1, FieldsCounted
<1>2. Payload(p) \in Seq(Byte) /\ Len(Payload(p)) = w * n
  <2>1. /\ b \in [1..n -> [1..w -> Byte]]
        /\ Payload(p) = [j \in 1..(w * n) |->
                           b[((j - 1) \div w) + 1][((j - 1) % w) + 1]]
    BY PayloadOfPieces
  <2> HIDE DEF w, n, b
  <2> QED
    BY <1>1, <2>1, LaidOut
<1>3. SizeOf(p) \in {1, 4, 40, 100}
  BY <1>1, <1>2 DEF SizeOf
<1>4. /\ Header(p) \in Seq(Byte) /\ Len(Header(p)) = PACKET_HEADER_SIZE
      /\ SubSeq(Header(p), 3, 6) = I32Bytes(SizeOf(p))
  BY <1>3, HeaderBytes
<1>5. Serialize(p) = Header(p) \o Payload(p)
  BY DEF Serialize, Header
<1>6. /\ Serialize(p) \in Seq(Byte)
      /\ Len(Serialize(p)) = Len(Header(p)) + Len(Payload(p))
  BY <1>2, <1>4, <1>5, ConcatProperties
<1>7. Len(Serialize(p)) = PACKET_HEADER_SIZE + SizeOf(p)
  BY <1>4, <1>6 DEF SizeOf
<1>8. Len(Serialize(p)) <= MAX_PACKET_SIZE
  BY <1>3, <1>7, SMT DEF PACKET_HEADER_SIZE, MAX_PACKET_SIZE
<1>9. SizeIn(Header(p)) = SizeOf(p)
  <2>1. SizeOf(p) \in Int32
    BY <1>3, SMT DEF Int32
  <2> QED
    BY <1>4, <2>1, I32RoundTrip DEF SizeIn
<1> QED
  BY <1>3, <1>6, <1>7, <1>8, <1>9

LEMMA Opening ==
  ASSUME NEW h \in Seq(Byte), Len(h) = PACKET_HEADER_SIZE, NEW t \in Seq(Byte)
  PROVE  (h \o t)[1] = h[1] /\ (h \o t)[2] = h[2]
<1>1. \A i \in 1..(Len(h) + Len(t)) :
        (h \o t)[i] = IF i <= Len(h) THEN h[i] ELSE t[i - Len(h)]
  BY ConcatProperties
<1>2. Len(h) = 6 /\ Len(t) \in Nat
  BY DEF PACKET_HEADER_SIZE
<1>3. 1 \in 1..(Len(h) + Len(t)) /\ 2 \in 1..(Len(h) + Len(t))
        /\ 1 <= Len(h) /\ 2 <= Len(h)
  BY <1>2, SMT
<1> QED
  BY <1>1, <1>3

(* Every packet that fits its fields is read as it was written, whatever   *)
(* its type and its values: packet_deserialize undoes packet_serialize, up *)
(* to the fraction that a float loses.                                     *)
THEOREM RoundTrip ==
  ASSUME NEW p, IsPacket(p)
  PROVE  Deserialize(Serialize(p)) = AsRead(p)
<1> DEFINE t == p.type
           n == Len(Written[t])
           bytes == Serialize(p)
           order == ReadOrder[bytes[1]]
           At(f) == CHOOSE k \in DOMAIN order : order[k] = f
           data == [f \in {order[k] : k \in DOMAIN order} |->
                      FieldValue(f, Slot(bytes, Width(bytes[1]), At(f)))]
<1>1. /\ t \in Types /\ DOMAIN Written[t] = 1..n
      /\ Width(t) \in {1, 4} /\ n \in Nat /\ SizeOf(p) \in {1, 4, 40, 100}
  <2>1. t \in Types
    BY DEF IsPacket
  <2> QED
    BY <2>1, FieldsCounted, PacketFits
<1>2. Header(p) \in Seq(Byte) /\ Len(Header(p)) = PACKET_HEADER_SIZE
  BY <1>1, HeaderBytes
<1>3. Header(p)[1] = t /\ FromI8(<<Header(p)[2]>>) = p.sync
  BY <1>1, HeaderBytes
<1>4. bytes = Header(p) \o Payload(p)
  BY DEF Serialize, Header
<1>5. /\ Payload(p) \in Seq(Byte)
      /\ \A k \in 1..n : Slot(Header(p) \o Payload(p), Width(t), k) = Pieces(p)[k]
  <2> DEFINE w == Width(t)
             m == n
             b == Pieces(p)
             h == Header(p)
             body == Payload(p)
  <2>1. /\ b \in [1..m -> [1..w -> Byte]]
        /\ body = [j \in 1..(w * m) |-> b[((j - 1) \div w) + 1][((j - 1) % w) + 1]]
    BY PayloadOfPieces
  <2>2. w \in {1, 4} /\ m \in Nat
    BY <1>1
  <2>3. h \in Seq(Byte) /\ Len(h) = PACKET_HEADER_SIZE
    BY <1>2
  <2> HIDE DEF w, m, b, h, body
  <2>4. body \in Seq(Byte) /\ (\A k \in 1..m : Slot(h \o body, w, k) = b[k])
    BY <2>1, <2>2, <2>3, Layout, ZenonT(60)
  <2> QED
    BY <2>4 DEF w, m, b, h, body
<1>6. bytes[1] = t /\ bytes[2] = Header(p)[2]
  <2>1. Payload(p) \in Seq(Byte)
    BY <1>5
  <2>2. /\ (Header(p) \o Payload(p))[1] = Header(p)[1]
        /\ (Header(p) \o Payload(p))[2] = Header(p)[2]
    BY <1>2, <2>1, Opening, Zenon
  <2> QED
    BY <1>3, <1>4, <2>2
<1>7. order = Written[t] /\ {order[k] : k \in DOMAIN order} = Fields(t)
  BY <1>1, <1>6, OrdersAgree DEF Fields
<1>8. ASSUME NEW f \in Fields(t)
      PROVE  FieldValue(f, Slot(bytes, Width(bytes[1]), At(f))) = AsRead(p).data[f]
  <2>1. At(f) \in 1..n /\ Written[t][At(f)] = f
    <3>1. \E k \in DOMAIN order : order[k] = f
      BY <1>7
    <3>2. At(f) \in DOMAIN order /\ order[At(f)] = f
      BY <3>1
    <3> QED
      BY <1>1, <1>7, <3>2
  <2> HIDE DEF At
  <2>2. Slot(bytes, Width(bytes[1]), At(f)) = Pieces(p)[At(f)]
    BY <1>4, <1>5, <1>6, <2>1
  <2>3. Pieces(p)[At(f)] = FieldBytes(f, p.data[f])
    BY <2>1 DEF Pieces
  <2>4. FieldValue(f, FieldBytes(f, p.data[f])) = AsRead(p).data[f]
    BY <2>1, PieceRoundTrip
  <2> QED
    BY <2>2, <2>3, <2>4
<1>9. Deserialize(bytes)
        = [type |-> bytes[1], sync |-> FromI8(<<bytes[2]>>), data |-> data]
  BY DEF Deserialize
<1>10. data = AsRead(p).data
  <2>1. data = [f \in Fields(t) |-> AsRead(p).data[f]]
    <3> HIDE DEF bytes, order, At
    <3> QED
      BY <1>7, <1>8
  <2>2. AsRead(p).data = [f \in Fields(t) |-> AsRead(p).data[f]]
    BY DEF AsRead
  <2> QED
    BY <2>1, <2>2
<1>11. AsRead(p) = [type |-> t, sync |-> p.sync, data |-> AsRead(p).data]
  BY DEF AsRead
<1> HIDE DEF data, bytes
<1>12. bytes[1] = t /\ FromI8(<<bytes[2]>>) = p.sync
  BY <1>3, <1>6
<1>13. [type |-> bytes[1], sync |-> FromI8(<<bytes[2]>>), data |-> data]
         = [type |-> t, sync |-> p.sync, data |-> AsRead(p).data]
  BY <1>10, <1>12
<1> QED
  BY <1>9, <1>11, <1>13 DEF bytes
=============================================================================
