------------------------------ MODULE MppCharge ------------------------------
(***************************************************************************)
(* A paid report over MPP Charge: the seller (src/mppChargeService.mjs,    *)
(* src/stellarRiskService.mjs, and the handler of src/providerKit.mjs),    *)
(* its replay store (src/mppStore.mjs), its public receipts                *)
(* (src/mppReceiptRepository.mjs) and the supervised buyer                 *)
(* (scripts/mpp-agent-risk.mjs).                                           *)
(*                                                                         *)
(* The charge library is external.  It is taken to refuse a credential     *)
(* whose scope is not the one asked for, to claim a challenge once with    *)
(* the update of the store it was given, to submit the transaction that    *)
(* was signed for it, and to answer anything but 402 only when that        *)
(* transaction has succeeded.                                              *)
(*                                                                         *)
(* Abstractions: an unsigned challenge leaves no state behind; a           *)
(* credential is its challenge; a claim, kept for thirty days, outlives    *)
(* its challenge, valid for ten minutes, and is not forgotten; a key       *)
(* changes once, so that the twelve rounds of update do not run out; rate  *)
(* limits only refuse; a cached report is as good as a new one.  Receipts  *)
(* are those of the Redis repository; their records and their list expire, *)
(* each by a clock of its own.                                             *)
(***************************************************************************)
EXTENDS Naturals, Sequences

CONSTANTS
  Resources,   \* what a report can be about
  Challenges,  \* challenges that may be signed
  Requests,    \* requests under way at a time
  Keep,        \* length of the public list: 100 in the code
  Page,        \* how many of it are shown: 20 in the code
  Lifetime,    \* of a record and of the list, in days: 30 in the code
  None         \* no resource, no challenge

ASSUME KeepAssumption == Keep \in Nat \ {0}
ASSUME LifetimeAssumption == Lifetime \in Nat \ {0}
ASSUME NoneAssumption == None \notin Resources \cup Challenges

VARIABLES
  buyer,      \* the buyer script: what it has confirmed, if anything
  signed,     \* what each challenge was signed for
  chain,      \* external: the transaction of each challenge on Stellar
  claimed,    \* the replay store: the challenges that are used
  request,    \* the requests under way
  receipts,   \* days the public record of each receipt has left, 0: no record
  listed,     \* the list of their ids, newest first
  listLife,   \* days the list has left, 0: it does not expire
  saving,     \* history: how far saveReceipt has come for each challenge
  delivered   \* history: the reports each challenge has bought

vars == <<buyer, signed, chain, claimed, request, receipts, listed, listLife, saving, delivered>>

\* What a challenge may ask for; the buyer is told to pay the merchant one
\* unit at most.
Offers == [to : {"merchant", "other"}, amount : {1, 2}]
MaxAmount == 1

NoOffer == [to |-> "nobody", amount |-> 0]
Unsigned == [resource |-> None, offer |-> NoOffer, confirmed |-> NoOffer]
IdleRequest == [pc |-> "idle", kind |-> "none", resource |-> None, paying |-> None, status |-> 0]

Goto(q, pc) == request' = [request EXCEPT ![q].pc = pc]
End(q) == request' = [request EXCEPT ![q] = IdleRequest]

-----------------------------------------------------------------------------
(* The buyer *)

\* validateChallenge
Acceptable(offer) == offer.to = "merchant" /\ offer.amount <= MaxAmount

\* The script probes, checks the challenge and asks for confirmation.
Confirm ==
  /\ buyer = NoOffer
  /\ \E offer \in Offers : Acceptable(offer) /\ buyer' = offer
  /\ UNCHANGED <<signed, chain, claimed, request, receipts, listed, listLife, saving, delivered>>

\* variant: only the recipient is compared
SameRecipient(offer) == offer.to = buyer.to

\* onProgress: the challenge that is signed is not the one confirmed.
AsConfirmed(offer) == offer.to = buyer.to /\ offer.amount <= buyer.amount

\* client.fetch asks again, and signs what it is asked for then.
Sign(c, r) ==
  /\ buyer # NoOffer
  /\ signed[c] = Unsigned
  /\ \E offer \in Offers :
       /\ AsConfirmed(offer)
       /\ signed' = [signed EXCEPT ![c] = [resource |-> r, offer |-> offer, confirmed |-> buyer]]
  /\ buyer' = NoOffer
  /\ UNCHANGED <<chain, claimed, request, receipts, listed, listLife, saving, delivered>>

\* Cancelled by the user, or the challenge has changed.
Cancel ==
  /\ buyer # NoOffer
  /\ buyer' = NoOffer
  /\ UNCHANGED <<signed, chain, claimed, request, receipts, listed, listLife, saving, delivered>>

-----------------------------------------------------------------------------
(* A request, with a credential or without, for a risk report or for a     *)
(* resource behind the provider kit's handler                              *)

Start(q, kind, r, c) ==
  /\ request[q].pc = "idle"
  /\ c # None => signed[c] # Unsigned
  /\ request' = [request EXCEPT ![q] = [pc |-> IF kind = "risk" THEN "report" ELSE "charge", kind |-> kind,
                                        resource |-> r, paying |-> c, status |-> 0]]
  /\ UNCHANGED <<buyer, signed, chain, claimed, receipts, listed, listLife, saving, delivered>>

\* The report is built, or found in the cache, before anything is charged.
Report(q) ==
  /\ request[q].pc = "report"
  /\ Goto(q, "charge")
  /\ UNCHANGED <<buyer, signed, chain, claimed, receipts, listed, listLife, saving, delivered>>

Answered(q, status) == request' = [request EXCEPT ![q].pc = "handle", ![q].status = status]

\* The scope is the resource; a request without credential is challenged.
InScope(q) == request[q].paying # None /\ signed[request[q].paying].resource = request[q].resource

Charge(q) ==
  /\ request[q].pc = "charge"
  /\ IF InScope(q) THEN Goto(q, "read") ELSE Answered(q, 402)
  /\ UNCHANGED <<buyer, signed, chain, claimed, receipts, listed, listLife, saving, delivered>>

\* update: get, and the function decides on what was read.
Read(q) ==
  /\ request[q].pc = "read"
  /\ IF claimed[request[q].paying] THEN Answered(q, 402) ELSE Goto(q, "cas")
  /\ UNCHANGED <<buyer, signed, chain, claimed, receipts, listed, listLife, saving, delivered>>

\* variant: the script writes without looking at what is there
AsReadIgnored(q) == TRUE

\* The key is still without value, as it was read.
AsRead(q) == ~claimed[request[q].paying]

Claim(q) == claimed' = [claimed EXCEPT ![request[q].paying] = TRUE]

Cas(q) ==
  /\ request[q].pc = "cas"
  /\ \/ AsRead(q) /\ Claim(q) /\ Goto(q, "pay")
     \/ AsRead(q) /\ Claim(q) /\ End(q)              \* applied, but not answered
     \/ ~AsRead(q) /\ Goto(q, "read") /\ UNCHANGED claimed
  /\ UNCHANGED <<buyer, signed, chain, receipts, listed, listLife, saving, delivered>>

\* A transaction that is there already is not carried out again.
Send(q) ==
  /\ request[q].pc = "pay"
  /\ chain' = [chain EXCEPT ![request[q].paying] = IF @ = "none" THEN "sent" ELSE @]
  /\ Goto(q, "wait")
  /\ UNCHANGED <<buyer, signed, claimed, receipts, listed, listLife, saving, delivered>>

Land(c) ==
  /\ chain[c] = "sent"
  /\ \E result \in {"done", "failed"} : chain' = [chain EXCEPT ![c] = result]
  /\ UNCHANGED <<buyer, signed, claimed, request, receipts, listed, listLife, saving, delivered>>

Wait(q) ==
  /\ request[q].pc = "wait"
  /\ \/ chain[request[q].paying] = "done" /\ Answered(q, 200)
     \/ chain[request[q].paying] = "failed" /\ Answered(q, 402)
  /\ UNCHANGED <<buyer, signed, chain, claimed, receipts, listed, listLife, saving, delivered>>

\* variant: only a request without credential is unpaid
UnpaidWithoutCredential(q) == request[q].paying = None

Unpaid(q) == request[q].status = 402

\* variant: the kit's handler keeps receipts too
SavesAlways(q) == TRUE

SavesReceipt(q) == request[q].kind = "risk"

Handle(q) ==
  /\ request[q].pc = "handle"
  /\ IF Unpaid(q) THEN End(q) ELSE IF SavesReceipt(q) THEN Goto(q, "save") ELSE Goto(q, "answer")
  /\ UNCHANGED <<buyer, signed, chain, claimed, receipts, listed, listLife, saving, delivered>>

\* saveReceipt: record, list, trim, and the expiry of the list
Save(q) ==
  /\ request[q].pc = "save"
  /\ receipts' = [receipts EXCEPT ![request[q].paying] = Lifetime]
  /\ saving' = [saving EXCEPT ![request[q].paying] = "record"]
  /\ Goto(q, "push")
  /\ UNCHANGED <<buyer, signed, chain, claimed, listed, listLife, delivered>>

\* variant: the id may be listed first
MayPushUnsaved(q) == request[q].pc \in {"save", "push"}

MayPush(q) == request[q].pc = "push"

Push(q) ==
  /\ MayPush(q)
  /\ listed' = <<request[q].paying>> \o listed
  /\ Goto(q, "trim")
  /\ UNCHANGED <<buyer, signed, chain, claimed, receipts, listLife, saving, delivered>>

Trim(q) ==
  /\ request[q].pc = "trim"
  /\ listed' = IF Len(listed) > Keep THEN SubSeq(listed, 1, Keep) ELSE listed
  /\ Goto(q, "renew")
  /\ UNCHANGED <<buyer, signed, chain, claimed, receipts, listLife, saving, delivered>>

\* variant: expire with NX, for a list without expiry only
RenewedOnce == IF listed = <<>> THEN 0 ELSE IF listLife = 0 THEN Lifetime ELSE listLife

\* A list that is gone cannot be given an expiry.
Renewed == IF listed = <<>> THEN 0 ELSE Lifetime

Renew(q) ==
  /\ request[q].pc = "renew"
  /\ listLife' = Renewed
  /\ saving' = [saving EXCEPT ![request[q].paying] = "done"]
  /\ Goto(q, "answer")
  /\ UNCHANGED <<buyer, signed, chain, claimed, receipts, listed, delivered>>

OneLess(n) == IF n = 0 THEN 0 ELSE n - 1

\* A day passes: every record, and the list, by the expiry it was given.
Day ==
  /\ receipts' = [c \in Challenges |-> OneLess(receipts[c])]
  /\ listLife' = OneLess(listLife)
  /\ listed' = IF listLife = 1 THEN <<>> ELSE listed
  /\ UNCHANGED <<buyer, signed, chain, claimed, request, saving, delivered>>

\* A receipt that cannot be saved degrades the audit, not the answer.
Degrade(q) ==
  /\ request[q].pc \in {"save", "push", "trim", "renew"}
  /\ Goto(q, "answer")
  /\ UNCHANGED <<buyer, signed, chain, claimed, receipts, listed, listLife, saving, delivered>>

\* listReceipts: the newest on the list, without those whose record is gone.
Shown == {c \in {listed[i] : i \in {j \in 1 .. Len(listed) : j <= Page}} : receipts[c] > 0}

\* PublicEvidenceService.manifest: verified evidence, if there is any.
Verified == Shown

Deliver(q) ==
  /\ request[q].pc = "answer"
  /\ delivered' = [delivered EXCEPT ![request[q].paying] = Append(@, request[q].resource)]
  /\ End(q)
  /\ UNCHANGED <<buyer, signed, chain, claimed, receipts, listed, listLife, saving>>

\* A refused or failing dependency, a kit's resource that does not load, the
\* library's timeout, a process that stops: the buyer may have paid by then.
Fail(q) ==
  /\ request[q].pc # "idle"
  /\ End(q)
  /\ UNCHANGED <<buyer, signed, chain, claimed, receipts, listed, listLife, saving, delivered>>

Init ==
  /\ buyer = NoOffer
  /\ signed = [c \in Challenges |-> Unsigned]
  /\ chain = [c \in Challenges |-> "none"]
  /\ claimed = [c \in Challenges |-> FALSE]
  /\ listed = <<>> /\ listLife = 0
  /\ receipts = [c \in Challenges |-> 0]
  /\ saving = [c \in Challenges |-> "none"]
  /\ request = [q \in Requests |-> IdleRequest]
  /\ delivered = [c \in Challenges |-> <<>>]

Next ==
  \/ Confirm \/ Cancel \/ Day
  \/ \E c \in Challenges : Land(c) \/ \E r \in Resources : Sign(c, r)
  \/ \E q \in Requests :
       \/ \E kind \in {"risk", "kit"}, r \in Resources, c \in Challenges \cup {None} : Start(q, kind, r, c)
       \/ Report(q) \/ Charge(q) \/ Read(q) \/ Cas(q) \/ Send(q) \/ Wait(q) \/ Handle(q)
       \/ Save(q) \/ Push(q) \/ Trim(q) \/ Renew(q) \/ Degrade(q) \/ Deliver(q) \/ Fail(q)

Spec == Init /\ [][Next]_vars

-----------------------------------------------------------------------------
(* Properties *)

\* Types; only the risk endpoint goes through the steps of saveReceipt.
TypeOK ==
  /\ buyer \in Offers \cup {NoOffer}
  /\ \A c \in Challenges : signed[c] # Unsigned => signed[c].resource \in Resources /\ signed[c].offer \in Offers
  /\ chain \in [Challenges -> {"none", "sent", "done", "failed"}]
  /\ claimed \in [Challenges -> BOOLEAN]
  /\ receipts \in [Challenges -> 0 .. Lifetime] /\ listLife \in 0 .. Lifetime
  /\ saving \in [Challenges -> {"none", "record", "done"}]
  /\ \A q \in Requests :
       /\ request[q].status \in {0, 200, 402}
       /\ request[q].pc \in {"save", "push", "trim", "renew"} => request[q].kind = "risk"

\* What is signed pays the expected merchant, no more than the user confirmed
\* and no more than the limit, although the challenge that is signed is not
\* the one that was shown (createClient, onProgress: "MPP challenge changed
\* after human confirmation").
SignedAsConfirmed ==
  \A c \in Challenges : signed[c] # Unsigned =>
    /\ signed[c].offer.to = "merchant"
    /\ signed[c].offer.amount <= signed[c].confirmed.amount
    /\ signed[c].confirmed.amount <= MaxAmount

\* A credential buys one report at most, of the resource it was signed for,
\* however many requests carry it, for whatever, at the same time and after
\* failures (createAtomicRedisAdapter, handleRiskRequest; README.md:87, "an
\* identical replay was rejected").
ChargeBuysOneReport ==
  \A c \in Challenges : delivered[c] \in {<<>>, <<signed[c].resource>>}

\* A receipt is saved or shown as verified evidence, and a report handed out,
\* only for a transaction that has succeeded, on a challenge that is used
\* (handleRiskRequest, PublicEvidenceService.manifest).
ReceiptsArePaid ==
  \A c \in Challenges :
    saving[c] # "none" \/ c \in Verified \/ delivered[c] # <<>> => chain[c] = "done" /\ claimed[c]

\* The public list names a receipt once, and only after its record was
\* written; and the list does not expire before the record of a receipt that
\* went through all of saveReceipt, although each record and the list have an
\* expiry of their own (RECEIPT_TTL_SECONDS).  A record may expire first, and
\* the rest of the list is shown without it.
ListOutlivesRecords ==
  /\ \A i \in 1 .. Len(listed) :
       /\ saving[listed[i]] # "none"
       /\ saving[listed[i]] = "done" => receipts[listed[i]] <= listLife
  /\ \A i, j \in 1 .. Len(listed) : listed[i] = listed[j] => i = j
=============================================================================
