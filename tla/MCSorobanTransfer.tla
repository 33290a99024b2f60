------------------------- MODULE MCSorobanTransfer --------------------------
(***************************************************************************)
(* Two calls with two keys and two nonces, a policy that ends and may be   *)
(* revoked and granted again, and a process that is started again once.    *)
(***************************************************************************)
EXTENDS SorobanTransfer, TLC

CONSTANTS Merchant, Provider, XLM

MCPolicies ==
  {[destinations |-> {Merchant}, providers |-> {Provider}, assets |-> {XLM},
    limit |-> 1, ends |-> 0, revoked |-> FALSE]}

MCSymmetry == Permutations(Calls) \cup Permutations(Keys) \cup Permutations(Nonces)
=============================================================================
