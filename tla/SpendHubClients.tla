--------------------------- MODULE SpendHubClients --------------------------
(***************************************************************************)
(* Who calls the spend hub: a person on the review page                    *)
(* (src/client/pages/spend.mjs), the machine client                        *)
(* (scripts/machine-agent-client.mjs), an agent through the MCP tools      *)
(* (src/mcp/mcpSpendHubTools.mjs), and any caller of the plain routes      *)
(* (src/routes/spendIntentRoutes.mjs).  A client that has its answer may   *)
(* go on with its script or begin another one.                             *)
(***************************************************************************)
EXTENDS SpendHub

CONSTANTS
  Pages, Machines, McpAgents, Others,   \* the callers
  MachineProvider,   \* the provider a machine client buys from
  MachineKey,        \* "machine:<provider>:<resource>"
  McpKeys,           \* "mcp:<key>"
  McpLimit,          \* MAX_MCP_PAYMENT_USDC
  AtOnce,            \* bound: clients that are there
  LastDay            \* bound: the clock stops here

\* Nobody's keys are his own: the plain routes take any key from their callers.
ASSUME HubClientsAssumption ==
  /\ Script \in [Callers -> SUBSET {"prepare", "proof", "approve", "resource"}]
  /\ Callers = Pages \cup Machines \cup McpAgents \cup Others
  /\ MachineProvider \in [Machines -> Providers] /\ MachineKey \in [Machines -> Keys]
  /\ McpKeys \subseteq Keys /\ McpLimit \in Nat /\ LastDay \in Nat

Has(c, op) == call[c].op = op /\ call[c].pc = "ok"
Positive == {amount \in Amounts : amount # NaN /\ amount > 0}

-----------------------------------------------------------------------------
(* The review page: one click prepares, proves where needed, and approves *)

ClickApprove(c) == Free(c) /\ \E i \in Known : StartPrepare(c, i)

\* The page knows the proof status from when it was loaded.
GoOnToProof(c) ==
  /\ Has(c, "prepare") /\ ProofRequired(call[c].of)
  /\ StartProof(c, call[c].of)

GoOnToApprove(c) ==
  /\ \/ Has(c, "prepare") /\ PrivacyAllows(call[c].of)
     \/ Has(c, "proof")
  /\ StartApprove(c, call[c].of)

ClickDismiss(c) == Free(c) /\ \E i \in Known : Dismiss(c, i)

PageStep(c) == ClickApprove(c) \/ GoOnToProof(c) \/ GoOnToApprove(c) \/ ClickDismiss(c)

-----------------------------------------------------------------------------
(* The machine client: 402, prepare, approve, retry with the receipt *)

AskForResource(c) ==
  /\ Free(c) /\ ~Has(c, "approve")
  /\ \E amount \in Amounts : Challenge(c, MachineKey[c], MachineProvider[c], amount)

PrepareChallenge(c) ==
  /\ Has(c, "resource") /\ call[c].receipt = 0
  /\ StartPrepare(c, call[c].of)

ApproveChallenge(c) == Has(c, "prepare") /\ StartApprove(c, call[c].of)

RetryWithReceipt(c) ==
  /\ Has(c, "approve")
  /\ LET k == call[c].receipt IN
     \/ DeliverResource(c, MachineProvider[c], call[c].of, k)
     \/ /\ ~VerifyCredential(MachineProvider[c], k)
        /\ Error(c)
        /\ UNCHANGED <<mode, today, store>>

MachineStep(c) == AskForResource(c) \/ PrepareChallenge(c) \/ ApproveChallenge(c) \/ RetryWithReceipt(c)

-----------------------------------------------------------------------------
(* The MCP tools: create and prepare, never approve *)

McpAmounts == {amount \in Positive : amount <= McpLimit}

\* A key already used for something else is a conflict.
CreatePaymentIntent(c) ==
  /\ Free(c)
  /\ \E key \in McpKeys, p \in Providers \ LinkProviders, amount \in McpAmounts :
       /\ Category[p] = "pay_service"
       /\ LET i == idempotencyKeys[key] IN
          IF i # None /\ (intents[i].provider # p \/ intents[i].amount # amount)
          THEN Error(c) /\ UNCHANGED <<mode, today, store>>
          ELSE CreateIntent(c, "create", key, p, "pay_service", amount)

\* assertMcpIntent: such a key does not mean that the tools made the intent.
McpIntent(i) == intents[i].type = "pay_service" /\ ~IsLink(i) /\ ~Exceeds(intents[i].amount, McpLimit)

PreparePayment(c) ==
  /\ Free(c)
  /\ \E key \in McpKeys : LET i == idempotencyKeys[key] IN
       /\ i # None
       /\ \/ McpIntent(i) /\ StartPrepare(c, i)
          \/ ~McpIntent(i) /\ Error(c) /\ UNCHANGED <<mode, today, store>>

McpStep(c) == CreatePaymentIntent(c) \/ PreparePayment(c)

-----------------------------------------------------------------------------
(* The plain routes; what the others also call is left to the others *)

\* A caller names whatever key, type and amount it likes.
RouteCall(c) ==
  /\ Free(c)
  /\ \/ \E key \in Keys \cup {None}, p \in Providers, type \in AskedTypes, amount \in Amounts :
          CreateIntent(c, "create", key, p, type, amount)
     \/ \E i \in Known :
          StartApprove(c, i) \/ StartLinkRequest(c, i) \/ StartLinkApprove(c, i) \/ DenyLinkSpendRequest(c, i)

-----------------------------------------------------------------------------
\* The intents of the demonstration, one of any provider.
Seed(p, amount) == [i \in {CHOOSE i \in Intents : TRUE} |->
  [status |-> "open", provider |-> p, type |-> Category[p], amount |-> amount]]
Seeds == {Seed(p, amount) : p \in Providers, amount \in Positive}

\* Bound: at most AtOnce clients are there.
Init == \E away \in SUBSET Callers : Cardinality(Callers \ away) = AtOnce /\ HubInit(Seeds, away)

Next ==
  \/ \E c \in Callers : Handle(c)
  \/ \E c \in Pages : PageStep(c)
  \/ \E c \in Machines : MachineStep(c)
  \/ \E c \in McpAgents : McpStep(c)
  \/ \E c \in Others : RouteCall(c)
  \/ Midnight(LastDay)

Spec == Init /\ [][Next]_hvars

-----------------------------------------------------------------------------
(* Properties *)

\* The state of the hub and the requests of its callers keep their types.
TypeOK ==
  /\ mode \in Mode /\ today \in Nat
  /\ intents \in [Intents -> Intent]
  /\ receipts \in Seq(Receipt)
  /\ proofs \subseteq Known
  /\ spendRequests \subseteq Known
  /\ idempotencyKeys \in [Keys -> Intents \cup {None}]
  /\ call \in [Callers -> Call]

\* Whatever was dismissed, denied or prepared meanwhile, an intent shown as
\* settled, or as an approved preview, has the receipt that says so
\* (spendHubService.mjs approveIntent, approveLinkSpendRequest).
SettledHasReceipt ==
  \A i \in Intents :
    /\ intents[i].status = "settled" =>
         \E k \in DOMAIN receipts : receipts[k].of = i /\ receipts[k].status = "settled"
    /\ intents[i].status = "approved_preview" =>
         \E k \in DOMAIN receipts : receipts[k].of = i /\ receipts[k].status # "settled"

\* An approval never adds a receipt to an intent that had one when it began:
\* two receipts of one intent come from approvals that were under way
\* together, or from the Link route (spendHubService.mjs approveIntent).
NoLateSecondReceipt ==
  \A j, k \in DOMAIN receipts :
    j < k /\ receipts[j].of = receipts[k].of /\ receipts[j].status # "blocked"
          /\ receipts[k].route = "approve"
      => receipts[k].looked < j

Slack == IF mode = "direct" THEN (AtOnce - 1) * PerPayment ELSE 0

\* A limit holds for what its period adds up to, as long as that is a number:
\* exactly where nothing waits between the evaluation and the receipt; the
\* direct rail waits for the network, and there each other approval under
\* way may add one payment (domain.mjs evaluatePaymentIntent).
DailyLimitHolds ==
  /\ SpentToday # NaN => SpentToday <= DailyLimit + Slack
  /\ SpentThisMonth # NaN => SpentThisMonth <= MonthlyLimit + Slack

\* A machine client that got its resource paid for it: a settled receipt of
\* the intent it was challenged with, for the provider it asked, although
\* anybody may have made the intent under its key, for any provider
\* (machinePaymentAdapter.mjs verifyCredential).
DeliveryIsPaid ==
  \A c \in Machines : Has(c, "resource") /\ call[c].receipt # 0 =>
    /\ receipts[call[c].receipt].of = call[c].of
    /\ receipts[call[c].receipt].status = "settled"
    /\ intents[call[c].of].provider = MachineProvider[c]

\* What was really paid in a day stays within the limit, whatever else was
\* asked for: docs/privacy-security.md:65, a payment is blocked if "el monto
\* supera limite por pago, diario o mensual" (domain.mjs
\* evaluatePaymentIntent, spendHubIntentFactory.mjs).
PaymentsWithinDailyLimit ==
  SumOver(Paid, {k \in Settled : receipts[k].day = today /\ Paid[k] > 0}) <= DailyLimit + Slack
=============================================================================
