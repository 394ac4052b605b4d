----------------------------- MODULE MCGameTick -----------------------------
EXTENDS GameTick

(* The right paddle moves both ways, the left one only up.                 *)
Steps == <<{-1, 0, 1}, {0, 1}>>
Takes == {0, 1, 2}
Oversleep == {0, 1, 2}
=============================================================================
