--------------------------- MODULE MCMatchmaking ---------------------------
(* Matchmaking on a handful of clients.                                    *)
EXTENDS Matchmaking, TLC

(* Clients differ in nothing but their name.                               *)
Symmetry == Permutations(Clients)
=============================================================================
