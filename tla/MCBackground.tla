---------------------------- MODULE MCBackground ----------------------------
(***************************************************************************)
(* Background with small sets of everything.                               *)
(***************************************************************************)
EXTENDS Background, TLC

CONSTANTS p1, p2, u1, t1, t2

MCProxyOrder == <<1, 2, 3>>
MCAccountOrder == <<11, 12, 13, 14>>

Symmetry == Permutations(Readers)
=============================================================================
