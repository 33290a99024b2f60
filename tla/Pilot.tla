------------------------------- MODULE Pilot --------------------------------
(***************************************************************************)
(* The provider pilot end to end: agents, people, the handlers of          *)
(* PilotService, and the supervised buyer script scripts/pilot-buyer.mjs   *)
(* that claims an approved request, pays the Merchant Lab and completes.   *)
(* The lab and the Stellar network are external: a payment the buyer signs *)
(* may reach the ledger at any later time, or never.                       *)
(***************************************************************************)
EXTENDS PilotService, FiniteSets

CONSTANT CompleteAttempts   \* attempts of completeWithRetry

ASSUME CompleteAttemptsAssumption == CompleteAttempts \in Nat \ {0}

VARIABLES
  buyer,      \* each run of the buyer script
  submitted   \* external: payments signed and handed to the lab, per request

vars == <<svars, buyer, submitted>>

BuyerSteps == {"idle", "claiming", "confirming", "paid", "completing"}
Buyer == [pc : BuyerSteps, req : Requests \cup {None},
          claim : Claims \cup {None}, attempts : Nat]
IdleBuyer == [pc |-> "idle", req |-> None, claim |-> None, attempts |-> 0]

-----------------------------------------------------------------------------
(* runPilotBuyer *)

RunClaim(b, r) ==
  /\ buyer[b] = IdleBuyer
  /\ StartClaim(b, r)
  /\ buyer' = [buyer EXCEPT ![b] =
       [pc |-> "claiming", req |-> r, claim |-> None, attempts |-> 0]]
  /\ UNCHANGED submitted

\* A refused claim ends the script; a granted one is probed and shown to the
\* person, who may take any time to answer.
ClaimAnswered(b) ==
  /\ buyer[b].pc = "claiming"
  /\ \/ /\ call[b].pc = "ok"
        /\ buyer' = [buyer EXCEPT ![b].pc = "confirming", ![b].claim = call[b].claim]
     \/ /\ call[b].pc = "refused"
        /\ buyer' = [buyer EXCEPT ![b] = IdleBuyer]
  /\ call' = [call EXCEPT ![b] = IdleCall]
  /\ UNCHANGED <<clock, record, index, links, claimSeq, ledger, approvals, leases, submitted>>

\* CONFIRM was typed: the payment is signed and the lab returns a receipt.
\* The script does not look at its lease again.
Pay(b) ==
  /\ buyer[b].pc = "confirming"
  /\ buyer' = [buyer EXCEPT ![b].pc = "paid"]
  /\ submitted' = [submitted EXCEPT ![buyer[b].req] = @ \cup {buyer[b].claim}]
  /\ UNCHANGED svars

Land(r) ==
  /\ \E c \in submitted[r] \ ledger[r] :
       ledger' = [ledger EXCEPT ![r] = @ \cup {c}]
  /\ UNCHANGED <<clock, record, index, call, links, claimSeq, approvals, leases,
                 buyer, submitted>>

RunComplete(b) ==
  /\ buyer[b].pc = "paid"
  /\ StartComplete(b, buyer[b].req, buyer[b].claim)
  /\ buyer' = [buyer EXCEPT ![b].pc = "completing"]
  /\ UNCHANGED submitted

\* completeWithRetry: 503 and the two "not on the ledger" conflicts are retried,
\* unless the status endpoint answers that the request is settled (it may also
\* fail to answer, which is ignored); any other error ends the script.  A 503
\* of the platform may take the place of any answer, so that a completion is
\* repeated after it was stored.
CompleteAnswered(b) ==
  /\ buyer[b].pc = "completing" /\ call[b].pc \in {"ok", "refused", "retry"}
  /\ \/ /\ \/ call[b].pc \in {"ok", "refused"}
           \/ record[buyer[b].req].status = "settled"
           \/ buyer[b].attempts + 1 = CompleteAttempts
        /\ buyer' = [buyer EXCEPT ![b] = IdleBuyer]
     \/ /\ buyer[b].attempts + 1 < CompleteAttempts
        /\ buyer' = [buyer EXCEPT ![b].pc = "paid", ![b].attempts = @ + 1]
  /\ call' = [call EXCEPT ![b] = IdleCall]
  /\ UNCHANGED <<clock, record, index, links, claimSeq, ledger, approvals, leases, submitted>>

\* The script is cancelled, killed, or loses an answer: whatever it had done
\* stays done, and a later run starts from a new claim.  A call it had made
\* still runs to its end on the server.
Abort(b) ==
  /\ buyer[b].pc # "idle"
  /\ call[b].pc \notin Running
  /\ buyer' = [buyer EXCEPT ![b] = IdleBuyer]
  /\ call' = [call EXCEPT ![b] = IdleCall]
  /\ UNCHANGED <<clock, record, index, links, claimSeq, ledger, approvals, leases, submitted>>

-----------------------------------------------------------------------------

Init ==
  /\ ServiceInit
  /\ buyer = [b \in Buyers |-> IdleBuyer]
  /\ submitted = [r \in Requests |-> {}]

Client ==
  \/ \E k \in Keys : CreateDraft(k)
  \/ \E a \in Agents, r \in Requests : StartPrepare(a, r)
  \/ \E a \in Approvers, l \in links : StartApprove(a, l)

BuyerStep(b) ==
  \/ \E r \in Requests : RunClaim(b, r)
  \/ ClaimAnswered(b) \/ Pay(b) \/ RunComplete(b) \/ CompleteAnswered(b) \/ Abort(b)

Next ==
  \/ Client /\ UNCHANGED <<buyer, submitted>>
  \/ (\E a \in Callers : Handle(a)) /\ UNCHANGED <<buyer, submitted>>
  \/ \E b \in Buyers : BuyerStep(b)
  \/ \E r \in Requests : Land(r)
  \/ Tick /\ UNCHANGED <<buyer, submitted>>

Spec == Init /\ [][Next]_vars

\* A started invocation keeps running: the event loop serves it and every
\* call it makes to Redis, RPC or Horizon is answered or times out.
Fairness == \A a \in Callers : WF_vars(Handle(a) /\ UNCHANGED <<buyer, submitted>>)

FairSpec == Spec /\ Fairness

-----------------------------------------------------------------------------
(* Properties *)

\* The refinement mapping: a request's holder is its current claim while it
\* is settling, and the claim that settled it afterwards.
Stage(s) ==
  CASE s = "absent" -> "absent" [] s = "created" -> "drafted" [] s = "prepared" -> "offered"
    [] s = "approved" -> "approved" [] s = "settling" -> "leased"
    [] s = "settled" -> "settled" [] s = "expired" -> "void"

HolderOf(rec) == IF rec.transactionHash # None THEN rec.transactionHash ELSE rec.claimIdHash

Lifecycle == INSTANCE PilotLifecycle WITH
  LeaseLength <- ClaimTTL,
  now     <- clock,
  stage   <- [r \in Requests |-> Stage(record[r].status)],
  holder  <- [r \in Requests |-> HolderOf(record[r])],
  ends    <- [r \in Requests |-> record[r].claimExpiresAt],
  paid    <- ledger,
  receipt <- [r \in Requests |-> record[r].transactionHash]

TypeOK ==
  /\ ServiceTypeOK
  /\ buyer \in [Buyers -> Buyer]
  /\ submitted \in [Requests -> SUBSET Claims]

\* The handlers, with their stale reads, races and retries, implement the
\* atomic life of a request: the version check of repository.update makes
\* every accepted write look like one step.
LifecycleSpec == Lifecycle!Spec

\* One human approval per request, and no payment is even signed without it,
\* however many links, approve calls and prepare calls are in flight.
ApprovedOnceBeforePayment ==
  \A r \in Requests : approvals[r] <= 1 /\ (submitted[r] # {} => approvals[r] = 1)

\* While a granted lease runs, no other claim can displace it: if the request
\* is still settling, the running lease is the one the record names.
LiveLeaseHolds ==
  \A l \in leases : l.ends > clock =>
    /\ record[l.req].status \in {"settling", "settled", "expired"}
    /\ record[l.req].status = "settling" => record[l.req].claimIdHash = l.claim

\* A settled request is backed by a transfer on the ledger that a granted
\* claim of that same request paid for.
SettledIsPaid ==
  \A r \in Requests : record[r].transactionHash # None =>
    /\ record[r].transactionHash \in ledger[r]
    /\ \E l \in leases : l.req = r /\ l.claim = record[r].transactionHash

\* A recorded settlement transaction is never replaced, even by a second
\* buyer's completion verified at the same time.
ReceiptFrozen ==
  [][\A r \in Requests : record[r].transactionHash # None
       => record'[r].transactionHash = record[r].transactionHash]_vars

\* Every invocation ends: the compare-and-set loop cannot spin for ever.
CallsReturn ==
  \A a \in Callers : call[a].pc \in Running ~> call[a].pc \notin Running

\* docs/sprint-20: the lease expires "so the supervised buyer can retry
\* safely".  A safe retry would pay for one approved request once.
RetryPaysOnce ==
  \A r \in Requests : \A c, d \in ledger[r] : c = d

\* createPilotMcpServer: prepare_payment creates "a ten-minute one-time human
\* approval link".  Until it has been used or has expired, it would be accepted.
LinkLastsUntilExpiry ==
  \A l \in links : (l.expires > clock /\ record[l.req].status = "prepared")
    => record[l.req].approvalTokenHash = l.expires

\* createPilotMcpServer: get_receipt returns the receipt "after verified
\* settlement".  getReceipt answers only while the status is settled.
ReceiptAvailableOnceSettled ==
  [][\A r \in Requests : record[r].status = "settled" => record'[r].status = "settled"]_vars
=============================================================================
