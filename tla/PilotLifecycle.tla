--------------------------- MODULE PilotLifecycle ---------------------------
(***************************************************************************)
(* What the provider pilot promises about one request, free of handlers,   *)
(* reads and retries: every change is one atomic step of a request's life. *)
(* A request is drafted, offered to a person, approved once, leased to one *)
(* buyer at a time, and settled by the buyer that holds the lease with a   *)
(* payment that is on the ledger.  An offered request may be voided.       *)
(***************************************************************************)
EXTENDS Integers

CONSTANTS Requests, Claims, LeaseLength, None

VARIABLES
  now,      \* the clock
  stage,    \* where each request is in its life
  holder,   \* the claim that last leased it
  ends,     \* when that lease ends
  paid,     \* the payments made for it that are on the ledger
  receipt   \* the payment that settled it

lvars == <<now, stage, holder, ends, paid, receipt>>

Init ==
  /\ now = 0
  /\ stage = [r \in Requests |-> "absent"]
  /\ holder = [r \in Requests |-> None]
  /\ ends = [r \in Requests |-> None]
  /\ paid = [r \in Requests |-> {}]
  /\ receipt = [r \in Requests |-> None]

Move(r, from, to) == stage[r] \in from /\ stage' = [stage EXCEPT ![r] = to]

Create(r) ==
  /\ Move(r, {"absent"}, "drafted")
  /\ UNCHANGED <<now, holder, ends, paid, receipt>>

Offer(r) ==
  /\ Move(r, {"drafted", "offered"}, "offered")
  /\ UNCHANGED <<now, holder, ends, paid, receipt>>

Approve(r) ==
  /\ Move(r, {"offered"}, "approved")
  /\ UNCHANGED <<now, holder, ends, paid, receipt>>

\* Only a request nobody holds can be leased: a lease is never taken away
\* before it ends.
Lease(r) ==
  /\ Move(r, {"approved", "leased"}, "leased")
  /\ stage[r] = "leased" => ends[r] <= now
  /\ \E c \in Claims, e \in 0 .. now + LeaseLength :
       /\ c # holder[r]
       /\ holder' = [holder EXCEPT ![r] = c]
       /\ ends' = [ends EXCEPT ![r] = e]
  /\ UNCHANGED <<now, paid, receipt>>

Fund(r) ==
  /\ \E c \in Claims \ paid[r] : paid' = [paid EXCEPT ![r] = @ \cup {c}]
  /\ UNCHANGED <<now, stage, holder, ends, receipt>>

\* Settled by the holder, with a payment of its own.
Settle(r) ==
  /\ Move(r, {"leased"}, "settled")
  /\ holder[r] \in paid[r]
  /\ receipt' = [receipt EXCEPT ![r] = holder[r]]
  /\ UNCHANGED <<now, holder, ends, paid>>

Void(r) ==
  /\ Move(r, {"offered", "approved", "leased", "settled", "void"}, "void")
  /\ UNCHANGED <<now, holder, ends, paid, receipt>>

Pass ==
  /\ now' = now + 1
  /\ UNCHANGED <<stage, holder, ends, paid, receipt>>

Next ==
  \/ Pass
  \/ \E r \in Requests :
       Create(r) \/ Offer(r) \/ Approve(r) \/ Lease(r) \/ Fund(r) \/ Settle(r) \/ Void(r)

Spec == Init /\ [][Next]_lvars
=============================================================================
