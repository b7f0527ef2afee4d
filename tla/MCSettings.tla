----------------------------- MODULE MCSettings -----------------------------
(* Settings for TLC: three brightness values whose texts differ in length,  *)
(* a wall without a cap and one with it.                                    *)
EXTENDS Settings, TLC

MCCapOf == [w \in Walls |-> IF w = "plain" THEN 255 ELSE 40]

Symmetry == Permutations(Reqs)
=============================================================================
