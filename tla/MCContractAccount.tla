------------------------- MODULE MCContractAccount --------------------------
(***************************************************************************)
(* One person with the wallet page and the fixture script, one agent, one  *)
(* repeated delivery, two requests and two session keys; or two deploy     *)
(* calls and one ceremony.                                                 *)
(***************************************************************************)
EXTENDS ContractAccount, TLC

\* Request ids are interchangeable, and so are session keys.
IdSymmetry == Permutations(Requests) \cup Permutations(Signers)
=============================================================================
