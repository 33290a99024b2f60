---------------------------- MODULE PilotService ----------------------------
(***************************************************************************)
(* The provider pilot's request handlers (src/pilotService.mjs) over its   *)
(* optimistic repository (src/pilotRepository.mjs).  Every HTTP request or *)
(* MCP tool call is a handler invocation of its own: it reads the record,  *)
(* decides, then writes through repository.update, which re-reads, mutates *)
(* and compares versions.  Invocations interleave at their reads and       *)
(* writes.  A decision and the read of update that follows it are one step *)
(* here: another write that falls between them could as well fall before   *)
(* the decision, which does not look at the record again, or, when only    *)
(* the passing of time enabled it, after the read, where it costs the      *)
(* invocation one more attempt.                                            *)
(*                                                                         *)
(* Abstractions: an approval token is HMAC(requestId, expiresAt), so a     *)
(* token is named by the expiry it was computed from; a claim id is the    *)
(* ordinal of the claim call that drew it; a settlement transaction is     *)
(* named by the claim under which the buyer submitted it.                  *)
(***************************************************************************)
EXTENDS Integers

CONSTANTS
  Requests,      \* request ids (UUIDs)
  Keys,          \* idempotency keys
  Agents,        \* remote MCP agents: create and prepare
  Approvers,     \* people holding approval links
  Buyers,        \* local buyers: claim and complete
  ApprovalTTL,   \* APPROVAL_TTL_MS, in ticks
  ClaimTTL,      \* CLAIM_TTL_MS, in ticks
  MaxAttempts,   \* attempts of the repository's compare-and-set loop
  Horizon,       \* bound: the clock stops here
  MaxVersion,    \* bound: no prepare call starts on a record this old
  MaxClaims,     \* bound: number of claim calls
  None           \* null

Callers == Agents \cup Approvers \cup Buyers
Claims  == 1 .. MaxClaims

ASSUME NoneAssumption == None \notin Nat /\ None \notin Requests
ASSUME TimesAssumption ==
  /\ ApprovalTTL \in Nat \ {0} /\ ClaimTTL \in Nat \ {0}
  /\ MaxAttempts \in Nat \ {0}
  /\ Horizon \in Nat /\ MaxVersion \in Nat /\ MaxClaims \in Nat
ASSUME RolesAssumption ==
  Agents \cap Buyers = {} /\ Approvers \cap Buyers = {} /\ Agents \cap Approvers = {}

VARIABLES
  clock,      \* the servers' common clock
  record,     \* the stored request records
  index,      \* idempotency index: the request each key created
  call,       \* the handler invocation each caller is waiting for
  links,      \* approval links handed out: [req, expires]
  claimSeq,   \* claim ids drawn so far
  ledger,     \* external: successful transfers on Stellar, per request
  approvals,  \* history: approvals written, per request
  leases      \* history: claims granted, [req, claim, ends]

svars == <<clock, record, index, call, links, claimSeq, ledger, approvals, leases>>

-----------------------------------------------------------------------------
(* Records *)

Status == {"absent", "created", "prepared", "approved", "settling", "settled", "expired"}

Record == [status : Status, version : Nat,
           approvalExpiresAt : Nat \cup {None}, approvalTokenHash : Nat \cup {None},
           claimIdHash : Claims \cup {None}, claimExpiresAt : Nat \cup {None},
           transactionHash : Claims \cup {None}]

NoRecord == [status |-> "absent", version |-> 0,
             approvalExpiresAt |-> None, approvalTokenHash |-> None,
             claimIdHash |-> None, claimExpiresAt |-> None, transactionHash |-> None]

Draft == [NoRecord EXCEPT !.status = "created", !.version = 1]

\* An absent expiry parses to NaN, which compares false: it never counts as past.
Past(t) == t # None /\ t <= clock

-----------------------------------------------------------------------------
(* Handler invocations *)

Steps == {"idle", "check", "verify", "cas", "ok", "retry", "refused"}
Running == {"check", "verify", "cas"}
Ops == {"none", "prepare", "approve", "expire", "claim", "complete"}

\* seen is the record last read and still to be used; expires the expiry being
\* offered, presented or granted; claim the claim id drawn or presented.
Call == [op : Ops, pc : Steps, req : Requests \cup {None}, seen : Record,
         expires : Nat \cup {None}, claim : Claims \cup {None}, tries : Nat]

IdleCall == [op |-> "none", pc |-> "idle", req |-> None, seen |-> NoRecord,
             expires |-> None, claim |-> None, tries |-> 0]

\* The answer of an invocation.  Only the buyer's script acts on it; what an
\* agent or a person is told changes no state.
Answered(a, result) ==
  IF a \in Buyers
  THEN [IdleCall EXCEPT !.pc = result, !.req = call[a].req, !.claim = call[a].claim]
  ELSE IdleCall

Answer(a, result) == call' = [call EXCEPT ![a] = Answered(a, result)]

-----------------------------------------------------------------------------
(* createDraft: CREATE_SCRIPT is one atomic script.  A key already indexed *)
(* returns the existing record and writes nothing; with one allowlisted    *)
(* provider, resource and amount its payload can never differ.             *)

CreateDraft(k) ==
  /\ index[k] = None
  /\ \E r \in Requests :
       /\ record[r] = NoRecord
       /\ record' = [record EXCEPT ![r] = Draft]
       /\ index' = [index EXCEPT ![k] = r]
  /\ UNCHANGED <<clock, call, links, claimSeq, ledger, approvals, leases>>

-----------------------------------------------------------------------------
(* The first read of each handler *)

Begin(a, op, r, expires, claim) ==
  /\ call[a] = IdleCall
  /\ record[r] # NoRecord
  /\ call' = [call EXCEPT ![a] =
       [op |-> op, pc |-> "check", req |-> r, seen |-> record[r],
        expires |-> expires, claim |-> claim, tries |-> 0]]

StartPrepare(a, r) ==
  /\ record[r].version < MaxVersion
  /\ Begin(a, "prepare", r, None, None)
  /\ UNCHANGED <<clock, record, index, links, claimSeq, ledger, approvals, leases>>

StartApprove(a, link) ==
  /\ Begin(a, "approve", link.req, link.expires, None)
  /\ UNCHANGED <<clock, record, index, links, claimSeq, ledger, approvals, leases>>

\* claim draws its id and its expiry, then goes straight to update.
StartClaim(a, r) ==
  /\ call[a] = IdleCall
  /\ record[r] # NoRecord
  /\ claimSeq < MaxClaims
  /\ claimSeq' = claimSeq + 1
  /\ call' = [call EXCEPT ![a] =
       [op |-> "claim", pc |-> "cas", req |-> r, seen |-> record[r],
        expires |-> clock + ClaimTTL, claim |-> claimSeq + 1, tries |-> 0]]
  /\ UNCHANGED <<clock, record, index, links, ledger, approvals, leases>>

StartComplete(a, r, c) ==
  /\ Begin(a, "complete", r, None, c)
  /\ UNCHANGED <<clock, record, index, links, claimSeq, ledger, approvals, leases>>

-----------------------------------------------------------------------------
(* What each handler decides from that read *)

\* repository.update starts: it reads the record again.
Update(a, op, expires) ==
  call' = [call EXCEPT ![a] = [call[a] EXCEPT !.pc = "cas", !.op = op,
                                 !.seen = record[call[a].req], !.expires = expires]]

\* The link's expiry: an unexpired link is handed out again.
OfferedExpiryUnchecked(rec) ==   \* variant: a missing expiry is reused
  IF ~Past(rec.approvalExpiresAt) THEN rec.approvalExpiresAt ELSE clock + ApprovalTTL

OfferedExpiry(rec) ==
  IF rec.approvalExpiresAt # None /\ ~Past(rec.approvalExpiresAt)
  THEN rec.approvalExpiresAt
  ELSE clock + ApprovalTTL

PrepareCheck(a) ==
  /\ call[a].op = "prepare" /\ call[a].pc = "check"
  /\ IF call[a].seen.status \in {"created", "prepared"}
     THEN Update(a, "prepare", OfferedExpiry(call[a].seen))
     ELSE Answer(a, "refused")
  /\ UNCHANGED <<clock, record, index, links, claimSeq, ledger, approvals, leases>>

\* An expired approval goes on to write status "expired", whatever token it
\* was shown; otherwise the token must match the hash that was read.
ApproveCheck(a) ==
  /\ call[a].op = "approve" /\ call[a].pc = "check"
  /\ IF call[a].seen.status # "prepared" THEN Answer(a, "refused")
     ELSE IF Past(call[a].seen.approvalExpiresAt)
     THEN Update(a, "expire", None)
     ELSE IF call[a].seen.approvalTokenHash # call[a].expires THEN Answer(a, "refused")
     ELSE Update(a, "approve", None)
  /\ UNCHANGED <<clock, record, index, links, claimSeq, ledger, approvals, leases>>

CompleteCheck(a) ==
  /\ call[a].op = "complete" /\ call[a].pc = "check"
  /\ IF /\ call[a].seen.status = "settling"
        /\ ~Past(call[a].seen.claimExpiresAt)
        /\ call[a].seen.claimIdHash = call[a].claim
     THEN call' = [call EXCEPT ![a] = [call[a] EXCEPT !.pc = "verify", !.seen = NoRecord]]
     ELSE Answer(a, "refused")
  /\ UNCHANGED <<clock, record, index, links, claimSeq, ledger, approvals, leases>>

\* verifyPilotSettlement asks Stellar RPC and Horizon.  It accepts only a
\* transfer that is on the ledger; a node that is unreachable or lags behind
\* answers 503 or 409, which the buyer may retry, and one that does not answer
\* within its eight seconds is an error the buyer does not retry.
OnLedgerUnchecked(c) == TRUE   \* variant: the RPC answer is not looked at
OnLedger(c) == \E r \in Requests : c \in ledger[r]

VerifySettlement(a) ==
  /\ call[a].op = "complete" /\ call[a].pc = "verify"
  /\ \/ OnLedger(call[a].claim) /\ Update(a, "complete", None)
     \/ Answer(a, "retry")
     \/ Answer(a, "refused")
  /\ UNCHANGED <<clock, record, index, links, claimSeq, ledger, approvals, leases>>

-----------------------------------------------------------------------------
(* repository.update: mutate what was read, compare-and-set *)

\* The guards the mutate callbacks re-check on the record just read.
MayPrepareUnchecked(rec)     == TRUE                       \* variant: no re-check
MayClaimAnytime(rec)         == rec.status \in {"approved", "settling"}  \* variant: lease ignored
MayCompleteUnchecked(rec, c) == rec.status = "settling"    \* variant: holder not re-checked

MayPrepare(rec)     == rec.status \in {"created", "prepared"}
MayApprove(rec)     == rec.status = "prepared"
MayExpire(rec)      == TRUE
MayClaim(rec)       == rec.status = "approved"
                       \/ (rec.status = "settling" /\ Past(rec.claimExpiresAt))
MayComplete(rec, c) == rec.status = "settling" /\ rec.claimIdHash = c

\* The record they return; update adds one to the version.
Prepared(rec, e)   == [rec EXCEPT !.version = @ + 1, !.status = "prepared",
                                  !.approvalExpiresAt = e, !.approvalTokenHash = e]
Approved(rec)      == [rec EXCEPT !.version = @ + 1, !.status = "approved",
                                  !.approvalTokenHash = None]
Expired(rec)       == [rec EXCEPT !.version = @ + 1, !.status = "expired"]
Claimed(rec, c, e) == [rec EXCEPT !.version = @ + 1, !.status = "settling",
                                  !.claimIdHash = c, !.claimExpiresAt = e]
Completed(rec, c)  == [rec EXCEPT !.version = @ + 1, !.status = "settled",
                                  !.transactionHash = c, !.claimIdHash = None]

\* CAS_SCRIPT's test: the record still has the version that was read.
UnchangedUnchecked(a) == TRUE   \* variant: a blind SET instead of CAS_SCRIPT
Unchanged(a) == record[call[a].req].version = call[a].seen.version

Store(a, op, may, rec) ==
  /\ call[a].pc = "cas" /\ call[a].op = op
  /\ may /\ Unchanged(a)
  /\ record' = [record EXCEPT ![call[a].req] = rec]
  /\ Answer(a, IF op = "expire" THEN "refused" ELSE "ok")

StorePrepared(a) ==
  /\ Store(a, "prepare", MayPrepare(call[a].seen), Prepared(call[a].seen, call[a].expires))
  /\ links' = links \cup {[req |-> call[a].req, expires |-> call[a].expires]}
  /\ UNCHANGED <<clock, index, claimSeq, ledger, approvals, leases>>

StoreApproved(a) ==
  /\ Store(a, "approve", MayApprove(call[a].seen), Approved(call[a].seen))
  /\ approvals' = [approvals EXCEPT ![call[a].req] = @ + 1]
  /\ UNCHANGED <<clock, index, links, claimSeq, ledger, leases>>

StoreExpired(a) ==
  /\ Store(a, "expire", MayExpire(call[a].seen), Expired(call[a].seen))
  /\ UNCHANGED <<clock, index, links, claimSeq, ledger, approvals, leases>>

StoreClaimed(a) ==
  /\ Store(a, "claim", MayClaim(call[a].seen),
           Claimed(call[a].seen, call[a].claim, call[a].expires))
  /\ leases' = leases \cup
       {[req |-> call[a].req, claim |-> call[a].claim, ends |-> call[a].expires]}
  /\ UNCHANGED <<clock, index, links, claimSeq, ledger, approvals>>

StoreCompleted(a) ==
  /\ Store(a, "complete", MayComplete(call[a].seen, call[a].claim),
           Completed(call[a].seen, call[a].claim))
  /\ UNCHANGED <<clock, index, links, claimSeq, ledger, approvals, leases>>

\* A mutate callback that throws ends the call.
MutateAllowed(a) ==
  \/ call[a].op = "prepare"  /\ MayPrepare(call[a].seen)
  \/ call[a].op = "approve"  /\ MayApprove(call[a].seen)
  \/ call[a].op = "expire"   /\ MayExpire(call[a].seen)
  \/ call[a].op = "claim"    /\ MayClaim(call[a].seen)
  \/ call[a].op = "complete" /\ MayComplete(call[a].seen, call[a].claim)

MutateThrows(a) ==
  /\ call[a].pc = "cas" /\ ~MutateAllowed(a)
  /\ Answer(a, "refused")
  /\ UNCHANGED <<clock, record, index, links, claimSeq, ledger, approvals, leases>>

\* A lost race re-reads, at most MaxAttempts times in all.
RetryUpdateStale(a) ==   \* variant: tries the same stale record again
  /\ call[a].pc = "cas" /\ MutateAllowed(a) /\ ~Unchanged(a)
  /\ UNCHANGED svars

RetryUpdate(a) ==
  /\ call[a].pc = "cas" /\ MutateAllowed(a) /\ ~Unchanged(a)
  /\ IF call[a].tries + 1 < MaxAttempts
     THEN call' = [call EXCEPT ![a] = [call[a] EXCEPT !.seen = record[call[a].req],
                                                      !.tries = @ + 1]]
     ELSE Answer(a, "refused")
  /\ UNCHANGED <<clock, record, index, links, claimSeq, ledger, approvals, leases>>

-----------------------------------------------------------------------------

ServiceInit ==
  /\ clock = 0
  /\ record = [r \in Requests |-> NoRecord]
  /\ index = [k \in Keys |-> None]
  /\ call = [a \in Callers |-> IdleCall]
  /\ links = {}
  /\ claimSeq = 0
  /\ ledger = [r \in Requests |-> {}]
  /\ approvals = [r \in Requests |-> 0]
  /\ leases = {}

Tick ==
  /\ clock < Horizon
  /\ clock' = clock + 1
  /\ UNCHANGED <<record, index, call, links, claimSeq, ledger, approvals, leases>>

\* One step of the invocation that caller a is waiting for.
Handle(a) ==
  \/ PrepareCheck(a) \/ ApproveCheck(a) \/ CompleteCheck(a)
  \/ VerifySettlement(a)
  \/ StorePrepared(a) \/ StoreApproved(a) \/ StoreExpired(a)
  \/ StoreClaimed(a) \/ StoreCompleted(a)
  \/ MutateThrows(a) \/ RetryUpdate(a)

ServiceTypeOK ==
  /\ clock \in Nat
  /\ record \in [Requests -> Record]
  /\ index \in [Keys -> Requests \cup {None}]
  /\ call \in [Callers -> Call]
  /\ links \subseteq [req : Requests, expires : Nat]
  /\ claimSeq \in 0 .. MaxClaims
  /\ ledger \in [Requests -> SUBSET Claims]
  /\ approvals \in [Requests -> Nat]
  /\ leases \subseteq [req : Requests, claim : Claims, ends : Nat]
=============================================================================
