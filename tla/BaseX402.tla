------------------------------ MODULE BaseX402 ------------------------------
(***************************************************************************)
(* The paid Base risk report (src/baseX402Service.mjs,                     *)
(* src/baseRiskService.mjs) and its buyer (src/client/baseX402Client.mjs), *)
(* with the settlement records of src/multichainService.mjs, which the     *)
(* endpoint writes when a payment has settled and anybody who knows the    *)
(* transaction may have written by record-settlement.                      *)
(*                                                                         *)
(* A payment is an authorization the buyer's wallet has signed; the asset  *)
(* lets it be carried out once.  The facilitator that carries it out is    *)
(* external: it may answer a payment it has seen before with the           *)
(* transaction it has, or lose its answer.                                 *)
(*                                                                         *)
(* Abstractions: network, asset, amount and recipient are the quoted ones, *)
(* which buyer and endpoint both compare; the list of ids is left out; the  *)
(* ids of settlements are those the endpoint makes of transactions.        *)
(***************************************************************************)
EXTENDS Naturals

CONSTANTS
  Payments,   \* signed payment authorizations
  Asks        \* requests that carry a payment or report one

VARIABLES
  enabled,     \* the rail's gates, open and configured
  transfer,    \* external: the transfer of each payment on Base
  settlement,  \* the settlement records: <<id, payment>>
  ask,         \* the requests under way
  delivered    \* history: how many reports each payment has bought

xvars == <<enabled, transfer, settlement, ask, delivered>>

IdleAsk == [pc |-> "idle", payment |-> {}, id |-> {}, report |-> FALSE]

Go(a, pc) == ask' = [ask EXCEPT ![a].pc = pc]
Leave(a) == ask' = [ask EXCEPT ![a] = IdleAsk]

\* inspectX402Challenge and payX402Resource: the wallet signs what the
\* verified challenge asks for; a payment header may be sent more than once.
\* The risk report of the asked transaction is built before the payment is
\* looked at (BaseX402Service.handle).
Pay(a, p) ==
  /\ enabled
  /\ ask[a].pc = "idle"
  /\ ask' = [ask EXCEPT ![a] = [pc |-> "verify", payment |-> {p}, id |-> {p}, report |-> TRUE]]
  /\ UNCHANGED <<enabled, transfer, settlement, delivered>>

\* processHTTPRequest: a payment that is not carried out yet verifies.
VerifyPayment(a) ==
  /\ ask[a].pc = "verify"
  /\ \A p \in ask[a].payment : transfer[p] = "none"
  /\ Go(a, "settle")
  /\ UNCHANGED <<enabled, transfer, settlement, delivered>>

\* processSettlement: carried out now, or before.
Settle(a) ==
  /\ ask[a].pc = "settle"
  /\ \E p \in ask[a].payment :
       /\ transfer[p] \in {"none", "mined"}
       /\ transfer' = [transfer EXCEPT ![p] = "mined"]
  /\ Go(a, "confirm")
  /\ UNCHANGED <<enabled, settlement, delivered>>

\* The facilitator sends it, but its answer is lost or late.
SettleLost(a) ==
  /\ ask[a].pc = "settle"
  /\ \E p \in ask[a].payment :
       /\ transfer[p] = "none"
       /\ \E result \in {"pending", "mined"} : transfer' = [transfer EXCEPT ![p] = result]
  /\ Leave(a)
  /\ UNCHANGED <<enabled, settlement, delivered>>

Mine(p) ==
  /\ transfer[p] = "pending"
  /\ \E result \in {"mined", "failed"} : transfer' = [transfer EXCEPT ![p] = result]
  /\ UNCHANGED <<enabled, settlement, ask, delivered>>

\* POST /api/intents/:id/record-settlement with a transaction that was sent
\* and an id of the caller's choice.
Report(a, p, i) ==
  /\ ask[a].pc = "idle"
  /\ transfer[p] # "none"
  /\ ask' = [ask EXCEPT ![a] = [pc |-> "confirm", payment |-> {p}, id |-> {i}, report |-> FALSE]]
  /\ UNCHANGED <<enabled, transfer, settlement, delivered>>

\* variant: a transaction that was only sent counts
ConfirmedSent(p) == transfer[p] # "none"

\* verifyBaseTransaction and findExactUsdcTransfer
Confirmed(p) == transfer[p] = "mined"

ConfirmTransfer(a) ==
  /\ ask[a].pc = "confirm"
  /\ \A p \in ask[a].payment : Confirmed(p)
  /\ Go(a, "record")
  /\ UNCHANGED <<enabled, transfer, settlement, delivered>>

\* variant: a settlement is recorded over the one that is there
RecordableAgain(a) == TRUE

Recordable(a) == \A s \in settlement : s[1] \notin ask[a].id

\* recordSettlement creates the record or answers 409.
RecordSettlement(a) ==
  /\ ask[a].pc = "record"
  /\ Recordable(a)
  /\ settlement' = settlement \cup (ask[a].id \X ask[a].payment)
  /\ IF ask[a].report THEN Go(a, "answer") ELSE Leave(a)
  /\ UNCHANGED <<enabled, transfer, delivered>>

Deliver(a) ==
  /\ ask[a].pc = "answer"
  /\ delivered' = [p \in Payments |-> IF p \in ask[a].payment THEN delivered[p] + 1 ELSE delivered[p]]
  /\ Leave(a)
  /\ UNCHANGED <<enabled, transfer, settlement>>

\* Refused, already recorded, a service that does not answer, a process that
\* stops: a payment that has settled by then has bought nothing.
GiveUp(a) ==
  /\ ask[a].pc # "idle"
  /\ Leave(a)
  /\ UNCHANGED <<enabled, transfer, settlement, delivered>>

\* An operator closes the rail after an acceptance session.
CloseRail ==
  /\ enabled
  /\ enabled' = FALSE
  /\ UNCHANGED <<transfer, settlement, ask, delivered>>

XInit ==
  /\ transfer = [p \in Payments |-> "none"]
  /\ settlement = {}
  /\ ask = [a \in Asks |-> IdleAsk]
  /\ delivered = [p \in Payments |-> 0]

PaymentStep ==
  \/ \E a \in Asks :
       \/ \E p \in Payments : Pay(a, p) \/ \E i \in Payments : Report(a, p, i)
       \/ VerifyPayment(a) \/ Settle(a) \/ SettleLost(a)
       \/ ConfirmTransfer(a) \/ RecordSettlement(a) \/ Deliver(a) \/ GiveUp(a)
  \/ \E p \in Payments : Mine(p)
  \/ CloseRail

-----------------------------------------------------------------------------
(* Properties *)

PaymentTypes ==
  /\ enabled \in BOOLEAN
  /\ transfer \in [Payments -> {"none", "pending", "mined", "failed"}]
  /\ settlement \subseteq Payments \X Payments
  /\ \A a \in Asks : ask[a].pc \in {"idle", "verify", "settle", "confirm", "record", "answer"}

\* A payment buys one report at most, however often and at the same time its
\* header is sent, and with a facilitator that settles a repeated payment
\* with the transaction it has (docs/sprint-24-base-x402-acceptance.md:
\* "Retry the paid request and verify replay protection").
OneReportPerPayment == \A p \in Payments : delivered[p] <= 1

\* What the evidence shows as a settlement is a transfer that is on Base, and
\* so is whatever a report was delivered for (verifyAndRecordSettlement).
SettlementsArePaid ==
  /\ \A s \in settlement : transfer[s[2]] = "mined"
  /\ \A p \in Payments : delivered[p] > 0 => <<p, p>> \in settlement
=============================================================================
