----------------------------- MODULE Multichain -----------------------------
(***************************************************************************)
(* The multichain side of the hub: the bridge and the paid Base report     *)
(* behind one service, repository and set of gates                         *)
(* (src/multichainService.mjs, src/routes/multichainRoutes.mjs).  An       *)
(* acceptance session opens the gates of one of the two, as the runbook    *)
(* has it (docs/sprint-21-23-multichain.md, Acceptance session), and       *)
(* closes them while requests may still be under way.                      *)
(***************************************************************************)
EXTENDS CctpBridge, BaseX402

vars == <<bvars, xvars>>

Init ==
  /\ BInit /\ XInit
  /\ \/ gate = "submit" /\ enabled = FALSE
     \/ gate = "closed" /\ enabled = TRUE

Next ==
  \/ BridgeStep /\ UNCHANGED xvars
  \/ PaymentStep /\ UNCHANGED bvars

Spec == Init /\ [][Next]_vars

-----------------------------------------------------------------------------
(* Properties *)

\* Types of bridge records and calls, of payments, settlements and requests.
TypeOK == BridgeTypes /\ PaymentTypes
=============================================================================
