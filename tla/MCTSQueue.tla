----------------------------- MODULE MCTSQueue -----------------------------
(* Two threads, four items and as many nodes as there can be items in the *)
(* queue, so that freed nodes are used again at once.                      *)
EXTENDS TSQueue
=============================================================================
