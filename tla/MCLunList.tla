----------------------------- MODULE MCLunList -----------------------------
(* The LUNs are interchangeable. *)
EXTENDS LunList, TLC

LunSymmetry == Permutations(Luns)
=============================================================================
