------------------------------ MODULE Pairing ------------------------------
(***************************************************************************)
(* What matchmaking promises, without threads, locks or descriptors:       *)
(* clients arrive one by one, wait in the order of their arrival, and are  *)
(* taken from the front, RoomSize at a time, into rooms that last forever. *)
(* Nobody who waits is ever dropped or overtaken.                          *)
(***************************************************************************)
EXTENDS Naturals, Sequences

CONSTANTS Clients, RoomSize

VARIABLES waiting,  \* the clients that wait, the earliest first
          rooms     \* the rooms, in the order in which they were opened

pairingVars == <<waiting, rooms>>

InRoom(c) == \E r \in DOMAIN rooms, k \in 1..RoomSize : rooms[r][k] = c
Waiting(c) == \E i \in DOMAIN waiting : waiting[i] = c

Init == waiting = <<>> /\ rooms = <<>>

(* A client that was never here before joins the end of the line.          *)
Arrive(c) ==
  /\ ~Waiting(c) /\ ~InRoom(c)
  /\ waiting' = Append(waiting, c)
  /\ UNCHANGED rooms

(* The RoomSize clients that have waited longest get a room.               *)
OpenRoom ==
  /\ Len(waiting) >= RoomSize
  /\ rooms' = Append(rooms, SubSeq(waiting, 1, RoomSize))
  /\ waiting' = SubSeq(waiting, RoomSize + 1, Len(waiting))

Next == OpenRoom \/ \E c \in Clients : Arrive(c)

SafeSpec == Init /\ [][Next]_pairingVars

Spec == SafeSpec /\ WF_pairingVars(OpenRoom)
=============================================================================
