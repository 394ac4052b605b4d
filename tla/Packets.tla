------------------------------ MODULE Packets ------------------------------
(***************************************************************************)
(* What a packet looks like on the wire: src/common/cpong_packets.c over   *)
(* include/krft/bin_array.h.  A header of six bytes (type, sync and the    *)
(* number of bytes that follow), then the fields of the type one after the *)
(* other, without padding.  All fields of a type have the same width, so   *)
(* the index into the buffer is computed and not threaded through.         *)
(* A float is an integer here: a count of the smallest difference between  *)
(* two floats, of which Grid make up a 1.  In binary32, Digits is 2^24 and *)
(* the Spacings are powers of 2.                                           *)
(***************************************************************************)
EXTENDS Integers, Sequences

CONSTANTS
  FLOAT_SCALE,  \* the fractions of 1 that the encoding keeps
  Grid,         \* the finest spacing of floats, as a fraction of 1
  Digits,       \* the floats of one spacing reach up to so many of it
  Spacings      \* the distances between neighbouring floats

ASSUME PacketsAssumption ==
  /\ FLOAT_SCALE \in Nat \ {0}
  /\ Grid \in Nat \ {0}
  /\ Digits \in Nat \ {0}
  /\ Spacings \subseteq Nat \ {0}

MAX_PACKET_SIZE == 200
PACKET_HEADER_SIZE == 6

PACKET_PING == 0
PACKET_INPUT == 1
PACKET_INIT == 2
PACKET_STATE == 3
Types == 0..3
-----------------------------------------------------------------------------
(* Integers: htonl puts the highest byte first; the sign is in it.         *)
Byte == 0..255
Int8 == -128..127
Int32 == {v \in Int : -2147483647 - 1 <= v /\ v <= 2147483647}

I8Bytes(v) == <<v % 256>>
FromI8(b) == IF b[1] < 128 THEN b[1] ELSE b[1] - 256

I32Bytes(v) == <<(v \div 16777216) % 256, (v \div 65536) % 256,
                 (v \div 256) % 256, v % 256>>
FromI32(b) ==
  (IF b[1] < 128 THEN b[1] ELSE b[1] - 256) * 16777216
    + b[2] * 65536 + b[3] * 256 + b[4]

(* Floats: an operation yields the float nearest to the true result n / d, *)
(* of two that are equally near the even one.  The spacing of floats near  *)
(* n / d is the finest one that reaches so far; if none does the result is *)
(* not a number of the format.                                             *)
Magnitude(n, d) == (IF n >= 0 THEN n ELSE -n) \div d

IsSpacing(s, n, d) ==
  /\ s \in Spacings
  /\ Magnitude(n, d) < s * Digits
  /\ \A t \in Spacings : Magnitude(n, d) < t * Digits => s <= t

InRange(n, d) == \E s \in Spacings : IsSpacing(s, n, d)
Spacing(n, d) == CHOOSE s \in Spacings : IsSpacing(s, n, d)

Nearest(n, step) ==
  LET q == n \div step
      twice == 2 * (n % step)
  IN  IF twice < step \/ (twice = step /\ q % 2 = 0) THEN q ELSE q + 1

Rounded(n, d) == LET s == Spacing(n, d) IN s * Nearest(n, d * s)

(* The operations of the conversions: data * FLOAT_SCALE, the integer that *)
(* becomes a float, and its division by (float)FLOAT_SCALE.                *)
Product[x \in Int] == Rounded(x * FLOAT_SCALE, 1)
AsFloat[i \in Int] == Rounded(i * Grid, 1)
Quotient[w \in Int] == Rounded(w, FLOAT_SCALE)

(* The conversion to int32_t drops the fraction, towards zero.             *)
Truncated(n, d) == IF n >= 0 THEN n \div d ELSE -((-n) \div d)
ToFixed(x) == Truncated(Product[x], Grid)
FromFixed(i) == Quotient[AsFloat[i]]
-----------------------------------------------------------------------------
(* A field is <<kind, name>> or <<kind, object, name>>.                    *)
Ints(names) == [i \in DOMAIN names |-> <<"i32", names[i]>>]
Floats(object, names) == [i \in DOMAIN names |-> <<"float", object, names[i]>>]

Ids == <<"player_ids[0]", "player_ids[1]", "own_id_index", "score[0]", "score[1]">>
Whole == <<"pos.x", "pos.y", "velocity.x", "velocity.y", "size.x", "size.y">>
Paddle == <<"pos.y", "velocity.x", "velocity.y">>
Ball == <<"pos.x", "pos.y", "velocity.x", "velocity.y">>

(* What packet_serialize appends for each type.                            *)
Written == [t \in Types |->
  CASE t = PACKET_PING -> <<<<"i8", "dummy">>>>
    [] t = PACKET_INPUT -> Ints(<<"input_acc_ms">>)
    [] t = PACKET_INIT ->
         Ints(Ids) \o Floats("player1", Whole) \o Floats("player2", Whole)
           \o Floats("ball", Whole) \o Floats("box_size", <<"x", "y">>)
    [] t = PACKET_STATE ->
         Floats("player1", Paddle) \o Floats("player2", Paddle)
           \o Floats("ball", Ball)]

(* Faulty variant: the paddles of a state packet are read the other way    *)
(* round.                                                                  *)
ReadSwapped == [t \in Types |->
  IF t = PACKET_STATE
    THEN Floats("player2", Paddle) \o Floats("player1", Paddle) \o Floats("ball", Ball)
    ELSE Written[t]]

(* What packet_deserialize reads, in a switch of its own.                  *)
ReadOrder == [t \in Types |->
  CASE t = PACKET_PING -> <<<<"i8", "dummy">>>>
    [] t = PACKET_INPUT -> Ints(<<"input_acc_ms">>)
    [] t = PACKET_INIT ->
         Ints(Ids) \o Floats("player1", Whole) \o Floats("player2", Whole)
           \o Floats("ball", Whole) \o Floats("box_size", <<"x", "y">>)
    [] t = PACKET_STATE ->
         Floats("player1", Paddle) \o Floats("player2", Paddle)
           \o Floats("ball", Ball)]

Width(t) == IF t = PACKET_PING THEN 1 ELSE 4

FieldBytes(f, v) ==
  CASE f[1] = "i8" -> I8Bytes(v)
    [] f[1] = "i32" -> I32Bytes(v)
    [] f[1] = "float" -> I32Bytes(ToFixed(v))

FieldValue(f, b) ==
  CASE f[1] = "i8" -> FromI8(b)
    [] f[1] = "i32" -> FromI32(b)
    [] f[1] = "float" -> FromFixed(FromI32(b))
-----------------------------------------------------------------------------
Fields(t) == {Written[t][k] : k \in DOMAIN Written[t]}

(* What fits into a field; a float is one of the format, and limited by    *)
(* its encoding: a conversion to int32_t from beyond it is undefined.      *)
FieldRange(f) ==
  CASE f[1] = "i8" -> Int8
    [] f[1] = "i32" -> Int32
    [] f[1] = "float" -> {x \in Int : /\ InRange(x, 1) /\ Rounded(x, 1) = x
                                      /\ InRange(x * FLOAT_SCALE, 1)
                                      /\ ToFixed(x) \in Int32}

IsPacket(p) ==
  /\ p.type \in Types
  /\ p.sync \in Int8
  /\ DOMAIN p.data = Fields(p.type)
  /\ \A f \in Fields(p.type) : p.data[f] \in FieldRange(f)

Payload(p) ==
  LET w == Width(p.type)
  IN  [j \in 1..(w * Len(Written[p.type])) |->
         LET f == Written[p.type][((j - 1) \div w) + 1]
         IN  FieldBytes(f, p.data[f])[((j - 1) % w) + 1]]

(* Faulty variant: the size counts the header too.                         *)
SizeWithHeader(p) == Len(Payload(p)) + PACKET_HEADER_SIZE

(* The size is patched in once the fields have been appended.              *)
SizeOf(p) == Len(Payload(p))

Serialize(p) ==
  <<p.type, p.sync % 256>> \o I32Bytes(SizeOf(p)) \o Payload(p)

(* Faulty variant: the size is taken without ntohl.                        *)
SizeInHost(header) == FromI32(<<header[6], header[5], header[4], header[3]>>)

(* recv_packet takes the size from the header alone.                       *)
SizeIn(header) == FromI32(SubSeq(header, 3, 6))

(* The bytes of the k-th field.                                            *)
Slot(bytes, w, k) ==
  SubSeq(bytes, PACKET_HEADER_SIZE + w * (k - 1) + 1, PACKET_HEADER_SIZE + w * k)

Deserialize(bytes) ==
  LET order == ReadOrder[bytes[1]]
      w == Width(bytes[1])
      At(f) == CHOOSE k \in DOMAIN order : order[k] = f
  IN  [type |-> bytes[1],
       sync |-> FromI8(<<bytes[2]>>),
       data |-> [f \in {order[k] : k \in DOMAIN order} |->
                   FieldValue(f, Slot(bytes, w, At(f)))]]

(* The packet the other end is meant to see: the same, but for what a      *)
(* float loses.                                                            *)
AsRead(p) ==
  [type |-> p.type, sync |-> p.sync,
   data |-> [f \in Fields(p.type) |->
               IF f[1] = "float" THEN FromFixed(ToFixed(p.data[f])) ELSE p.data[f]]]
=============================================================================
