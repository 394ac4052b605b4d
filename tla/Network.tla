------------------------------ MODULE Network ------------------------------
(***************************************************************************)
(* The TCP connections between the server and its clients, as the code     *)
(* uses them through send, recv and poll.  A packet travels whole: sendall *)
(* and recvall loop until all of its bytes have gone through.  Each        *)
(* direction is a FIFO of at most SockBuf packets, and a sender waits when *)
(* it is full.  The state of a connection is the server's view of it:      *)
(*   "open"   both ends live                                               *)
(*   "fin"    the peer has closed: recv returns 0, a send still succeeds   *)
(*   "late"   such a send was made, its reset is on the way                *)
(*   "rst"    the peer closed with packets unread: the next recv or send   *)
(*            returns -1                                                   *)
(*   "reset"  the error has been reported: recv returns 0, send -1         *)
(***************************************************************************)
EXTENDS Integers, Sequences

CONSTANTS
  Clients,  \* the connected clients
  SockBuf   \* packets that fit into one direction of a connection

VARIABLES
  toServer,  \* packets from each client
  toClient,  \* packets to each client
  link       \* the state of each connection

netVars == <<toServer, toClient, link>>

NetInit ==
  /\ toServer = [c \in Clients |-> <<>>]
  /\ toClient = [c \in Clients |-> <<>>]
  /\ link = [c \in Clients |-> "open"]

(* The server's sendall(client.fd, ..., MSG_NOSIGNAL) succeeds.            *)
ServerSend(c, p) ==
  /\ link[c] \in {"open", "fin", "late"}
  /\ link[c] = "open" => Len(toClient[c]) < SockBuf
  /\ toClient' = IF link[c] = "open"
                   THEN [toClient EXCEPT ![c] = Append(@, p)]
                   ELSE toClient
  /\ link' = [link EXCEPT ![c] = IF @ = "fin" THEN "late" ELSE @]
  /\ UNCHANGED toServer

(* The server's sendall returns -1.                                        *)
ServerSendFails(c) ==
  /\ link[c] \in {"rst", "reset"}
  /\ link' = [link EXCEPT ![c] = "reset"]
  /\ UNCHANGED <<toServer, toClient>>

(* poll reports POLLIN: there is a packet, or the end of the stream.       *)
Readable(c) == toServer[c] # <<>> \/ link[c] # "open"

(* The server's recv_packet returns a packet, 0, or -1.                    *)
ServerRecv(c) ==
  /\ toServer[c] # <<>>
  /\ toServer' = [toServer EXCEPT ![c] = Tail(@)]
  /\ UNCHANGED <<toClient, link>>

ServerRecvEnd(c) ==
  /\ toServer[c] = <<>>
  /\ link[c] \in {"fin", "late", "reset"}
  /\ UNCHANGED netVars

ServerRecvError(c) ==
  /\ toServer[c] = <<>>
  /\ link[c] = "rst"
  /\ link' = [link EXCEPT ![c] = "reset"]
  /\ UNCHANGED <<toServer, toClient>>

(* The client's side; the server never closes a connection.                *)
ClientSend(c, p) ==
  /\ Len(toServer[c]) < SockBuf
  /\ toServer' = [toServer EXCEPT ![c] = Append(@, p)]
  /\ UNCHANGED <<toClient, link>>

ClientRecv(c) ==
  /\ toClient[c] # <<>>
  /\ toClient' = [toClient EXCEPT ![c] = Tail(@)]
  /\ UNCHANGED <<toServer, link>>

(* The process of the client exits; unread packets turn the close into a   *)
(* reset.                                                                  *)
ClientClose(c) ==
  /\ link[c] = "open"
  /\ link' = [link EXCEPT ![c] = IF toClient[c] = <<>> THEN "fin" ELSE "rst"]
  /\ toClient' = [toClient EXCEPT ![c] = <<>>]
  /\ UNCHANGED toServer

(* The peer's answer to a packet sent after its close arrives.             *)
ResetArrives(c) ==
  /\ link[c] = "late"
  /\ link' = [link EXCEPT ![c] = "reset"]
  /\ UNCHANGED <<toServer, toClient>>
=============================================================================
