---------------------------- MODULE MCMultichain ----------------------------
(***************************************************************************)
(* One bridge, two burns and a transaction that is none, and two bridge    *)
(* calls at a time; or two payments and three requests at a time.          *)
(***************************************************************************)
EXTENDS Multichain, TLC

MCSymmetry == Permutations(Burns) \cup Permutations(Calls)
                \cup Permutations(Payments) \cup Permutations(Asks)
=============================================================================
