------------------------------ MODULE MCStream ------------------------------
(* One packet of each type, with a different value in every field: some    *)
(* negative, some of several bytes, some floats with a fraction, some so   *)
(* large that every operation on them is rounded.                          *)
EXTENDS Stream

PowersOf2 == {2^k : k \in 0..2}

Value(f, k) ==
  CASE f[1] = "i8" -> -k
    [] f[1] = "i32" -> IF k % 2 = 0 THEN -70000 * k ELSE 300 * k
    [] f[1] = "float" -> Rounded(IF k % 3 = 0 THEN -(2 * Grid * 257 * k + 1)
                                              ELSE 6553 * Grid * k + 1, 1)

Sample(t, s) ==
  [type |-> t, sync |-> s,
   data |-> [f \in Fields(t) |->
               Value(f, CHOOSE k \in DOMAIN Written[t] : Written[t][k] = f)]]

Samples == {Sample(PACKET_PING, 0), Sample(PACKET_INPUT, -1),
            Sample(PACKET_INIT, 127), Sample(PACKET_STATE, -128)}
=============================================================================
