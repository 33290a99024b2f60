----------------------------- MODULE MCSpendHub -----------------------------
(***************************************************************************)
(* A stellar provider, a Link provider and one that asks for a proof; one  *)
(* seed intent and one created; a page, a machine client and two agents    *)
(* who call the MCP tools and the plain routes, two of them at a time.     *)
(* Both agents together are about the limits: one provider, and amounts of *)
(* every sign, over two days.  The others are about who meets whom: every  *)
(* provider and key, and one amount.                                       *)
(***************************************************************************)
EXTENDS SpendHubClients, TLC

MCAmounts == {-2, 2, NaN}
MCCategory == [p \in Providers |-> IF p = "enel" THEN "bill_pay" ELSE "pay_service"]
MCMachineProvider == [m \in Machines |-> "browserbase"]
MCMachineKey == [m \in Machines |-> "machine:browserbase"]
MCScript == [c \in Callers |->
  IF c \in Pages THEN {"prepare", "proof"}
  ELSE IF c \in Machines THEN {"resource", "prepare", "approve"} ELSE {}]
MCSymmetry == Permutations(Others)

OnlyAgents == \A c \in Callers \ Others : call[c].pc = "away"
AboutLimits ==
  /\ \A i \in Known : intents[i].provider = "browserbase" /\ intents[i].type = "pay_service"
  /\ \A key \in Keys : idempotencyKeys[key] = None
  /\ mode # "soroban" /\ Len(receipts) <= 4 - today
AboutMeeting ==
  /\ \A i \in Known : intents[i].amount = 2
  /\ Len(receipts) <= 2 /\ today = 0
MCBound == IF OnlyAgents THEN AboutLimits ELSE AboutMeeting
=============================================================================
