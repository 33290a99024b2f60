------------------------------ MODULE MCPilot -------------------------------
(***************************************************************************)
(* Small instances of the pilot.  The bounds are in the configurations:    *)
(*   MCPilot.cfg      two buyer scripts compete for one approved request;  *)
(*   MCPilotLive.cfg  two people hold the link, one buyer, with fairness.  *)
(***************************************************************************)
EXTENDS PilotInvariant, TLC

\* Runs of the buyer script are interchangeable.
BuyerSymmetry == Permutations(Buyers)
=============================================================================
