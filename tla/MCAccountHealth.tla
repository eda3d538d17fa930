-------------------------- MODULE MCAccountHealth --------------------------
(***************************************************************************)
(* One account: accounts share nothing but the order in which they are     *)
(* handled, and its listing gets stale by what administrators do meanwhile.*)
(***************************************************************************)
EXTENDS AccountHealth

CONSTANT a1
=============================================================================
