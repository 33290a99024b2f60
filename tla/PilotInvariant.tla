--------------------------- MODULE PilotInvariant ---------------------------
(***************************************************************************)
(* The inductive invariant of the pilot, from which PilotProofs derives    *)
(* the properties stated in Pilot.                                         *)
(***************************************************************************)
EXTENDS Pilot

-----------------------------------------------------------------------------
(* What a running invocation and a running script carry *)

Shape(a, c) ==
  /\ c.pc \in Running => c.req \in Requests
  /\ (c.pc = "cas" /\ c.op \in {"prepare", "claim"}) => c.expires \in Nat
  /\ (a \in Buyers /\ c.pc # "idle") => (c.claim \in Claims /\ c.op \in {"none", "claim", "complete"})
  /\ c.op \in {"claim", "complete"} => (a \in Buyers /\ c.pc \in Running)

CallShape == \A a \in Callers : Shape(a, call[a])

BuyerShape ==
  \A b \in Buyers :
    /\ buyer[b].pc # "idle" => buyer[b].req \in Requests
    /\ buyer[b].pc \in {"confirming", "paid", "completing"} => buyer[b].claim \in Claims

TypeInv == TypeOK /\ CallShape /\ BuyerShape

-----------------------------------------------------------------------------
(* The strengthening.  SnapshotInv carries the atomicity of an update,     *)
(* LifeInv ties the history of approvals to the status, LeaseInv ties every *)
(* lease that still runs to the record, and ClaimInv, ScriptInv and PaidInv *)
(* follow a claim id from the moment it is drawn to the payment made under  *)
(* it and the settlement it ends in.                                        *)

Current(a) == record[call[a].req]

SnapshotInv ==
  \A a \in Callers : call[a].pc = "cas" =>
    /\ call[a].seen.version <= Current(a).version
    /\ call[a].seen.version = Current(a).version => call[a].seen = Current(a)

LifeOf(rec, n) ==
  /\ n <= 1
  /\ rec.status \in {"absent", "created", "prepared"} => n = 0
  /\ rec.status \in {"approved", "settling", "settled"} => n = 1
  /\ rec.transactionHash # None => rec.status \in {"settled", "expired"}

LifeInv == \A r \in Requests : LifeOf(record[r], approvals[r])

LeaseOf(l, rec, n) ==
  /\ n = 1
  /\ l.ends > clock =>
       /\ rec.status \in {"settling", "settled", "expired"}
       /\ rec.status = "settling" => rec.claimIdHash = l.claim /\ rec.claimExpiresAt = l.ends

LeaseInv == \A l \in leases : LeaseOf(l, record[l.req], approvals[l.req])

Granted(r, c) == \E l \in leases : l.req = r /\ l.claim = c

ClaimInv ==
  /\ \A l \in leases : l.claim <= claimSeq
  /\ \A l, m \in leases : l.claim = m.claim => l.req = m.req
  /\ \A a \in Callers : call[a].op = "claim" =>
       /\ call[a].claim <= claimSeq
       /\ \A l \in leases : l.claim # call[a].claim
       /\ \A b \in Callers : (b # a /\ call[b].op = "claim") => call[b].claim # call[a].claim

ScriptInv ==
  \A b \in Buyers :
    /\ buyer[b].pc = "claiming" =>
         /\ call[b].op # "complete"
         /\ call[b].pc # "idle" => call[b].req = buyer[b].req
         /\ call[b].pc = "ok" => Granted(call[b].req, call[b].claim)
    /\ buyer[b].pc \in {"confirming", "paid", "completing"} => Granted(buyer[b].req, buyer[b].claim)
    /\ buyer[b].pc \in {"paid", "completing"} => buyer[b].claim \in submitted[buyer[b].req]

PaidInv ==
  /\ \A r \in Requests : /\ \A c \in submitted[r] : Granted(r, c)
                         /\ ledger[r] \subseteq submitted[r]
                         /\ record[r].transactionHash # None => record[r].transactionHash \in ledger[r]
  /\ \A a \in Callers : call[a].op = "complete" =>
       /\ call[a].claim \in submitted[call[a].req]
       /\ call[a].pc = "cas" => call[a].claim \in ledger[call[a].req]

\* What the refinement of PilotLifecycle needs besides: the claim a record names
\* was granted, a claim never asks for more than a full lease, and a request
\* that an approve call has found on offer does not go back before that.
Offered(rec) == rec.status \notin {"absent", "created"}

OriginInv ==
  /\ \A r \in Requests : record[r].claimIdHash # None => Granted(r, record[r].claimIdHash)
  /\ \A a \in Callers :
       /\ (call[a].op = "claim" /\ call[a].pc = "cas") => call[a].expires <= clock + ClaimTTL
       /\ (call[a].op = "approve" /\ call[a].pc = "check" /\ call[a].seen.status = "prepared")
            => Offered(Current(a))
       /\ (call[a].op = "expire" /\ call[a].pc = "cas") => Offered(Current(a))

\* Everything the proofs need, as one invariant that every step preserves: a
\* claim, a lease, a payment and an approval never lose track of one another.
Inv == TypeInv /\ SnapshotInv /\ LifeInv /\ LeaseInv /\ ClaimInv /\ ScriptInv /\ PaidInv
=============================================================================
