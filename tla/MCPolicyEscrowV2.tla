-------------------------- MODULE MCPolicyEscrowV2 --------------------------
(***************************************************************************)
(* A small escrow: i128::MAX is 3 and u64::MAX is 3, so that a budget at   *)
(* the top of its type and the last nonce are both reached.                *)
(***************************************************************************)
EXTENDS PolicyEscrowV2

MCAmounts == -1 .. 2
MCLimits == 0 .. 3
=============================================================================
