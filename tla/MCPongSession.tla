--------------------------- MODULE MCPongSession ---------------------------
(* Small games for TLC.  The second seat, to which everything is sent last, *)
(* has the keys; each configuration picks how often they are pressed and   *)
(* how many empty packets each client may send.  One of each makes two     *)
(* packets, the second of which waits while the first fills the buffer.    *)
EXTENDS PongSession

CONSTANTS c1, c2, c3, c4, r1, r2

OneRoom == r1 :> <<c1, c2>>
TwoRooms == r1 :> <<c1, c2>> @@ r2 :> <<c3, c4>>

None == [c \in Clients |-> 0]
SecondOnce == [None EXCEPT ![c2] = 1]
SecondIdle == SecondOnce
=============================================================================
