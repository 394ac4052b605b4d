------------------------------- MODULE Stream -------------------------------
(***************************************************************************)
(* One direction of a connection, byte by byte: client_send with sendall   *)
(* at one end, recv_packet with recvall at the other, and the buffers of   *)
(* the kernel in between.  send takes and recv yields any number of bytes  *)
(* that is there, so a packet arrives in pieces, and the pieces of one     *)
(* read may belong to two packets.  The process of the sender may exit at  *)
(* any moment, also in the middle of a packet.                             *)
(* The abstract specification is Network, in which packets travel whole.   *)
(***************************************************************************)
EXTENDS Packets, SequencesExt

CONSTANTS
  Sendable,    \* the packets that are sent
  BufSize,     \* bytes that the kernel holds
  MaxPackets,  \* bound on the packets sent
  NoPacket     \* the struct packet before the first call of recv_packet

ASSUME StreamAssumption ==
  /\ \A p \in Sendable : IsPacket(p)
  /\ NoPacket \notin Sendable
  /\ BufSize \in Nat \ {0}
  /\ MaxPackets \in Nat

VARIABLES
  sending,  \* the packet in the hand of client_send
  out,      \* its bytes that send has still to take
  started,  \* packets so far
  wire,     \* the bytes in the kernel
  link,     \* "open", or how the sender has closed; see Network
  unread,   \* whether the other direction holds something for the sender
  buf,      \* what this call of recv_packet has received
  result,   \* the packet it was last asked to fill
  reader,   \* which recvall it is in, or "done" after the end of the stream
  pending   \* history: the packets wholly sent and not yet returned

vars == <<sending, out, started, wire, link, unread, buf, result, reader, pending>>

senderVars == <<sending, out, started>>
readerVars == <<buf, result, reader>>

Init ==
  /\ sending = NoPacket
  /\ out = <<>>
  /\ started = 0
  /\ wire = <<>>
  /\ link = "open"
  /\ unread = FALSE
  /\ buf = <<>>
  /\ result = NoPacket
  /\ reader = "header"
  /\ pending = <<>>
-----------------------------------------------------------------------------
(* client_send, server_send_packet: the packet is laid out in a buffer.    *)
Send(p) ==
  /\ link = "open" /\ out = <<>> /\ started < MaxPackets
  /\ sending' = p
  /\ out' = Serialize(p)
  /\ started' = started + 1
  /\ UNCHANGED <<wire, link, unread, readerVars, pending>>

(* Faulty variant: send is left until there is room for all of it.         *)
SendWhole(n) ==
  /\ link = "open" /\ n = Len(out) /\ Len(wire) + n <= BufSize
  /\ wire' = wire \o out
  /\ out' = <<>>
  /\ pending' = Append(pending, sending)
  /\ sending' = NoPacket
  /\ UNCHANGED <<started, link, unread, readerVars>>

(* One send of sendall: it blocks while there is no room and then takes    *)
(* some bytes.  The loop ends with the last of them.                       *)
SendSome(n) ==
  /\ link = "open" /\ n <= Len(out) /\ Len(wire) + n <= BufSize
  /\ wire' = wire \o SubSeq(out, 1, n)
  /\ out' = SubSeq(out, n + 1, Len(out))
  /\ IF n = Len(out) THEN /\ pending' = Append(pending, sending)
                          /\ sending' = NoPacket
                     ELSE UNCHANGED <<pending, sending>>
  /\ UNCHANGED <<started, link, unread, readerVars>>

(* The process of the sender exits.  What it had not handed over is lost.  *)
Close ==
  /\ link = "open"
  /\ link' = IF unread THEN "rst" ELSE "fin"
  /\ unread' = FALSE
  /\ sending' = NoPacket
  /\ out' = <<>>
  /\ UNCHANGED <<started, wire, readerVars, pending>>

(* The other direction, in which packets are not looked into.              *)
OtherDirection ==
  /\ link = "open"
  /\ unread' = ~unread
  /\ UNCHANGED <<senderVars, wire, link, readerVars, pending>>
-----------------------------------------------------------------------------
(* How many bytes the packet takes up to the end of this recvall.          *)
Wanted == PACKET_HEADER_SIZE + (IF reader = "header" THEN 0 ELSE SizeIn(buf))

(* recv_packet has all of its bytes: the packet is filled in.              *)
Deliver(bytes) ==
  /\ result' = Deserialize(bytes)
  /\ buf' = <<>>
  /\ reader' = "header"
  /\ pending' = Tail(pending)

(* The first recvall is over.  A second one for no bytes returns zero,     *)
(* which recv_packet takes for the end of the stream.                      *)
HeaderRead(bytes) ==
  /\ reader' = IF SizeIn(bytes) = 0 THEN "done" ELSE "data"
  /\ buf' = IF SizeIn(bytes) = 0 THEN <<>> ELSE bytes
  /\ UNCHANGED <<result, pending>>

(* Faulty variant: recvall does not loop.                                  *)
RecvOnce(n) ==
  /\ reader # "done"
  /\ n <= Len(wire) /\ Len(buf) + n <= Wanted
  /\ wire' = SubSeq(wire, n + 1, Len(wire))
  /\ IF reader = "header" /\ Len(buf) + n = Wanted
       THEN HeaderRead(buf \o SubSeq(wire, 1, n))
       ELSE /\ buf' = <<>> /\ reader' = "header" /\ result' = NoPacket
            /\ pending' = IF pending = <<>> THEN <<>> ELSE Tail(pending)
  /\ UNCHANGED <<senderVars, link, unread>>

(* One recv of recvall: never more than the packet needs.                  *)
RecvSome(n) ==
  /\ reader # "done"
  /\ n <= Len(wire) /\ Len(buf) + n <= Wanted
  /\ wire' = SubSeq(wire, n + 1, Len(wire))
  /\ LET bytes == buf \o SubSeq(wire, 1, n)
     IN  \/ /\ Len(bytes) < Wanted
            /\ buf' = bytes
            /\ UNCHANGED <<result, reader, pending>>
         \/ Len(bytes) = Wanted /\ reader = "header" /\ HeaderRead(bytes)
         \/ Len(bytes) = Wanted /\ reader = "data" /\ Deliver(bytes)
  /\ UNCHANGED <<senderVars, link, unread>>

(* recv returns 0: so does recv_packet, whatever it has received by then,  *)
(* and its caller stops reading.                                           *)
RecvEnd ==
  /\ reader # "done"
  /\ wire = <<>> /\ link \in {"fin", "reset"}
  /\ reader' = "done"
  /\ buf' = <<>>
  /\ UNCHANGED <<senderVars, wire, link, unread, result, pending>>

(* recv returns -1: so does recv_packet, and the server reads on.          *)
RecvError ==
  /\ reader # "done"
  /\ wire = <<>> /\ link = "rst"
  /\ link' = "reset"
  /\ reader' = "header"
  /\ buf' = <<>>
  /\ UNCHANGED <<senderVars, wire, unread, result, pending>>
-----------------------------------------------------------------------------
Sender == \E n \in 1..BufSize : SendSome(n)
Reader == RecvEnd \/ RecvError \/ \E n \in 1..BufSize : RecvSome(n)

Next == (\E p \in Sendable : Send(p)) \/ Sender \/ Close \/ OtherDirection \/ Reader

Spec == Init /\ [][Next]_vars

(* Both threads run while they can.  That anybody sends or exits is not    *)
(* assumed.                                                                *)
FairSpec == Spec /\ WF_vars(Sender) /\ WF_vars(Reader)
-----------------------------------------------------------------------------
TypeOK ==
  /\ sending \in Sendable \cup {NoPacket}
  /\ out \in Seq(Byte)
  /\ started \in 0..MaxPackets
  /\ wire \in Seq(Byte) /\ Len(wire) <= BufSize
  /\ link \in {"open", "fin", "rst", "reset"}
  /\ unread \in BOOLEAN
  /\ buf \in Seq(Byte) /\ Len(buf) <= MAX_PACKET_SIZE
  /\ reader \in {"header", "data", "done"}
  /\ pending \in Seq(Sendable)

Bytes(packets) == FlattenSeq([i \in DOMAIN packets |-> Serialize(packets[i])])

(* Wherever the cuts between the pieces fall, the receiver stays in step   *)
(* with the packets: what it holds, what is in the kernel and what the     *)
(* sender still has are the packets on their way, from the first byte of   *)
(* the first of them on; after a close the last one may be torn.           *)
Framing ==
  LET stream == Bytes(IF out = <<>> THEN pending ELSE Append(pending, sending))
  IN  /\ IsPrefix(stream, buf \o wire \o out)
      /\ link = "open" => buf \o wire \o out = stream
      /\ reader = "done" => wire = <<>> /\ pending = <<>>

(* A packet that recv_packet fills in is the next one that was sent,       *)
(* field by field, and never one of which only a part arrived.             *)
DeliveredAsSent ==
  [][reader = "data" /\ reader' = "header" /\ link' = link =>
       /\ pending # <<>>
       /\ result' = AsRead(Head(pending))
       /\ pending' = Tail(pending)]_vars

(* A packet that is begun is delivered, unless its sender exits.           *)
Delivered == started - Len(pending) - (IF out = <<>> THEN 0 ELSE 1)

SentArrives ==
  \A k \in 1..MaxPackets : started >= k ~> Delivered >= k \/ link # "open"

(* What PongSession takes for granted: with its bytes left out, a          *)
(* direction is the FIFO of whole packets of Network.                      *)
Net == INSTANCE Network WITH
  Clients <- {"c"},
  SockBuf <- BufSize + MAX_PACKET_SIZE,
  toServer <- [c \in {"c"} |-> pending],
  toClient <- [c \in {"c"} |-> IF unread THEN <<NoPacket>> ELSE <<>>],
  link <- [c \in {"c"} |-> link]

NetStep ==
  \/ Net!ClientSend("c", sending)
  \/ Net!ServerRecv("c") \/ Net!ServerRecvEnd("c") \/ Net!ServerRecvError("c")
  \/ Net!ClientClose("c")
  \/ Net!ServerSend("c", NoPacket) \/ Net!ClientRecv("c")

NetworkSafe == Net!NetInit /\ [][NetStep]_(Net!netVars)
=============================================================================
