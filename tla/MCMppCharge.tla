----------------------------- MODULE MCMppCharge -----------------------------
(***************************************************************************)
(* Two challenges, two resources and two requests at a time; a public      *)
(* list of one, so that it is trimmed; records and list last for two days. *)
(***************************************************************************)
EXTENDS MppCharge, TLC

MCSymmetry == Permutations(Resources) \cup Permutations(Challenges) \cup Permutations(Requests)
=============================================================================
