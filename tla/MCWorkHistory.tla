--------------------------- MODULE MCWorkHistory ---------------------------
(* Instances of WorkHistory for TLC. *)
EXTENDS WorkHistory, TLC

CONSTANTS w1, w2, a, b, c

KeepOne == [w \in Works |-> 1]
Symmetric == Permutations(Keys) \cup Permutations(Works)
=============================================================================
