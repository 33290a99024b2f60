---------------------------- MODULE PilotProofs -----------------------------
(***************************************************************************)
(* Proofs about the pilot, for every number of requests, callers, claims   *)
(* and ticks.  The argument, conjunct by conjunct of Inv (module           *)
(* PilotInvariant):                                                        *)
(* TypeInv: types, and what a running invocation or script carries.        *)
(* SnapshotInv: a record read by an invocation that still has the version  *)
(* that was read is that very record, because versions only grow. Hence    *)
(* the compare-and-set of repository.update makes a write atomic (lemma    *)
(* Stored), and the steps that change a record are few (lemma StepKinds).  *)
(* LifeInv: the approvals written and the recorded transaction agree with  *)
(* the status. It gives one approval per request and frozen receipts.      *)
(* LeaseInv: a lease that still runs is the one its record names.          *)
(* ClaimInv: a claim id is drawn once and granted for one request at       *)
(* most.                                                                   *)
(* ScriptInv and PaidInv: a script pays only under a claim it was          *)
(* granted, a completion only presents such a claim, and a settlement      *)
(* only records one that is on the ledger.                                 *)
(***************************************************************************)
EXTENDS PilotInvariant, TLAPS

LEMMA RecordTypes ==
  /\ NoRecord \in Record /\ Draft \in Record
  /\ IdleCall \in Call /\ IdleBuyer \in Buyer
BY NoneAssumption DEF NoRecord, Draft, Record, Status, IdleCall, Call, Ops, Steps, IdleBuyer, Buyer, BuyerSteps

\* The records the mutate callbacks build are records.
LEMMA MutatedTypes ==
  ASSUME NEW rec \in Record
  PROVE  /\ \A e \in Nat : Prepared(rec, e) \in Record
         /\ Approved(rec) \in Record
         /\ Expired(rec) \in Record
         /\ \A c \in Claims, e \in Nat : Claimed(rec, c, e) \in Record
         /\ \A c \in Claims : Completed(rec, c) \in Record
<1>1. rec.version + 1 \in Nat
  BY DEF Record
<1>2. \A e \in Nat : Prepared(rec, e) \in Record
  BY <1>1, Zenon DEF Record, Status, Prepared
<1>3. Approved(rec) \in Record
  BY <1>1, Zenon DEF Record, Status, Approved
<1>4. Expired(rec) \in Record
  BY <1>1, Zenon DEF Record, Status, Expired
<1>5. \A c \in Claims, e \in Nat : Claimed(rec, c, e) \in Record
  BY <1>1, Zenon DEF Record, Status, Claimed
<1>6. \A c \in Claims : Completed(rec, c) \in Record
  BY <1>1, Zenon DEF Record, Status, Completed
<1> QED  BY <1>2, <1>3, <1>4, <1>5, <1>6

\* A step that rewrites one invocation keeps the types and shapes of all.
LEMMA CallUpdate ==
  ASSUME TypeInv, NEW a \in Callers, NEW c \in Call, Shape(a, c),
         call' = [call EXCEPT ![a] = c]
  PROVE  call' \in [Callers -> Call] /\ CallShape'
<1>1. call' \in [Callers -> Call] /\ \A x \in Callers : call'[x] = IF x = a THEN c ELSE call[x]
  BY DEF TypeInv, TypeOK, ServiceTypeOK
<1>2. \A x \in Callers : Shape(x, call'[x])
  BY <1>1 DEF TypeInv, CallShape
<1> QED  BY <1>1, <1>2 DEF CallShape, Shape

LEMMA IdleShape ==
  ASSUME NEW a \in Callers  PROVE IdleCall \in Call /\ Shape(a, IdleCall)
BY RecordTypes DEF Shape, IdleCall, Running

LEMMA AnsweredShape ==
  ASSUME TypeInv, NEW a \in Callers, NEW result \in {"ok", "retry", "refused"},
         call[a].pc \in Running
  PROVE  Answered(a, result) \in Call /\ Shape(a, Answered(a, result))
<1>1. CASE a \in Buyers
  <2>1. call[a].req \in Requests /\ call[a].claim \in Claims
    BY <1>1 DEF TypeInv, CallShape, Shape, Running
  <2>2. Answered(a, result) =
          [op |-> "none", pc |-> result, req |-> call[a].req, seen |-> NoRecord,
           expires |-> None, claim |-> call[a].claim, tries |-> 0]
    BY <1>1 DEF Answered, IdleCall
  <2>3. Answered(a, result) \in Call
    BY <2>1, <2>2, RecordTypes DEF Call, Ops, Steps
  <2> QED  BY <1>1, <2>1, <2>2, <2>3 DEF Shape, Running
<1>2. CASE a \notin Buyers
  BY <1>2, IdleShape DEF Answered
<1> QED  BY <1>1, <1>2

\* Nothing but the invocation changes.
LEMMA QuietTypes ==
  ASSUME TypeInv, NEW a \in Callers, NEW c \in Call, Shape(a, c),
         call' = [call EXCEPT ![a] = c],
         UNCHANGED <<clock, record, index, links, claimSeq, ledger, approvals, leases,
                     buyer, submitted>>
  PROVE  TypeInv'
BY CallUpdate DEF TypeInv, TypeOK, ServiceTypeOK, BuyerShape

\* A record is stored and the invocation answers.
LEMMA StoreTypes ==
  ASSUME TypeInv, NEW a \in Callers, NEW op, NEW may, NEW rec \in Record,
         Store(a, op, may, rec),
         UNCHANGED <<clock, index, claimSeq, ledger, buyer, submitted>>,
         links' \subseteq [req : Requests, expires : Nat],
         approvals' \in [Requests -> Nat],
         leases' \subseteq [req : Requests, claim : Claims, ends : Nat]
  PROVE  TypeInv'
<1>1. call[a].pc \in Running
  BY DEF Store, Running
<1>2. PICK result \in {"ok", "retry", "refused"} : Answer(a, result)
  BY DEF Store
<1>3. call' \in [Callers -> Call] /\ CallShape'
  BY <1>1, <1>2, AnsweredShape, CallUpdate DEF Answer
<1>4. record' \in [Requests -> Record]
  BY DEF Store, TypeInv, TypeOK, ServiceTypeOK
<1> QED  BY <1>3, <1>4 DEF TypeInv, TypeOK, ServiceTypeOK, BuyerShape

LEMMA HandleTypes ==
  ASSUME TypeInv, NEW a \in Callers, Handle(a), UNCHANGED <<buyer, submitted>>
  PROVE  TypeInv'
<1> USE DEF Running
<1>1. /\ call[a] \in Call /\ Shape(a, call[a])
      /\ call[a].seen \in Record
      /\ call[a].req \in Requests => record[call[a].req] \in Record
  BY DEF TypeInv, TypeOK, ServiceTypeOK, CallShape, Call
<1>2. ASSUME NEW result \in {"ok", "retry", "refused"}, Answer(a, result), call[a].pc \in Running,
             UNCHANGED <<clock, record, index, links, claimSeq, ledger, approvals, leases>>
      PROVE  TypeInv'
  BY <1>2, AnsweredShape, QuietTypes DEF Answer
<1>3. ASSUME NEW op \in {"prepare", "approve", "expire", "complete"},
             NEW e \in Nat \cup {None},
             Update(a, op, e), call[a].pc \in Running,
             op = "prepare" => e \in Nat,
             op = "complete" => a \in Buyers, op # "complete" => a \notin Buyers,
             UNCHANGED <<clock, record, index, links, claimSeq, ledger, approvals, leases>>
      PROVE  TypeInv'
  <2> DEFINE c == [call[a] EXCEPT !.pc = "cas", !.op = op,
                                  !.seen = record[call[a].req], !.expires = e]
  <2>1. c \in Call
    BY <1>1, <1>3, Zenon DEF Call, Shape, Ops, Steps
  <2>2. Shape(a, c)
    BY <1>1, <1>3 DEF Call, Shape
  <2> QED  BY <1>3, <2>1, <2>2, QuietTypes DEF Update
<1>4. CASE PrepareCheck(a)
  <2>1. a \notin Buyers
    BY <1>1, <1>4 DEF PrepareCheck, Shape
  <2>2. CASE call[a].seen.status \in {"created", "prepared"}
    <3>1. OfferedExpiry(call[a].seen) \in Nat
      BY <1>1, TimesAssumption DEF OfferedExpiry, Record, TypeInv, TypeOK, ServiceTypeOK
    <3> QED  BY <1>3, <1>4, <2>1, <2>2, <3>1 DEF PrepareCheck
  <2>3. CASE call[a].seen.status \notin {"created", "prepared"}
    BY <1>2, <1>4, <2>3 DEF PrepareCheck
  <2> QED  BY <2>2, <2>3
<1>5. CASE ApproveCheck(a)
  <2>1. a \notin Buyers
    BY <1>1, <1>5 DEF ApproveCheck, Shape
  <2> QED  BY <1>2, <1>3, <1>5, <2>1 DEF ApproveCheck
<1>6. CASE CompleteCheck(a)
  <2> DEFINE c == [call[a] EXCEPT !.pc = "verify", !.seen = NoRecord]
  <2>1. c \in Call
    BY <1>1, RecordTypes, Zenon DEF Call, Steps
  <2>2. Shape(a, c)
    BY <1>1, <1>6 DEF Call, Shape, CompleteCheck
  <2> QED  BY <1>2, <1>6, <2>1, <2>2, QuietTypes DEF CompleteCheck
<1>7. CASE VerifySettlement(a)
  <2>1. a \in Buyers
    BY <1>1, <1>7 DEF VerifySettlement, Shape
  <2> QED  BY <1>2, <1>3, <1>7, <2>1 DEF VerifySettlement
<1> DEFINE rec == call[a].seen
<1>8. CASE StorePrepared(a)
  <2>1. call[a].expires \in Nat /\ call[a].req \in Requests
    BY <1>1, <1>8 DEF StorePrepared, Store, Shape
  <2>2. links' \subseteq [req : Requests, expires : Nat]
    BY <1>8, <2>1 DEF StorePrepared, TypeInv, TypeOK, ServiceTypeOK
  <2>3. Prepared(rec, call[a].expires) \in Record
    BY <1>1, <2>1, MutatedTypes
  <2> QED
    BY <1>8, <2>2, <2>3, StoreTypes DEF StorePrepared, TypeInv, TypeOK, ServiceTypeOK
<1>9. CASE StoreApproved(a)
  <2>1. call[a].req \in Requests
    BY <1>1, <1>9 DEF StoreApproved, Store, Shape
  <2>2. approvals' \in [Requests -> Nat]
    BY <1>9, <2>1 DEF StoreApproved, TypeInv, TypeOK, ServiceTypeOK
  <2>3. Approved(rec) \in Record
    BY <1>1, MutatedTypes
  <2> QED
    BY <1>9, <2>2, <2>3, StoreTypes DEF StoreApproved, TypeInv, TypeOK, ServiceTypeOK
<1>10. CASE StoreExpired(a)
  <2>1. Expired(rec) \in Record
    BY <1>1, MutatedTypes
  <2> QED
    BY <1>10, <2>1, StoreTypes DEF StoreExpired, TypeInv, TypeOK, ServiceTypeOK
<1>11. CASE StoreClaimed(a)
  <2>1. call[a].expires \in Nat /\ call[a].req \in Requests /\ call[a].claim \in Claims
    BY <1>1, <1>11 DEF StoreClaimed, Store, Shape
  <2>2. leases' \subseteq [req : Requests, claim : Claims, ends : Nat]
    BY <1>11, <2>1 DEF StoreClaimed, TypeInv, TypeOK, ServiceTypeOK
  <2>3. Claimed(rec, call[a].claim, call[a].expires) \in Record
    BY <1>1, <2>1, MutatedTypes
  <2> QED
    BY <1>11, <2>2, <2>3, StoreTypes DEF StoreClaimed, TypeInv, TypeOK, ServiceTypeOK
<1>12. CASE StoreCompleted(a)
  <2>1. call[a].claim \in Claims
    BY <1>1, <1>12 DEF StoreCompleted, Store, Shape
  <2>2. Completed(rec, call[a].claim) \in Record
    BY <1>1, <2>1, MutatedTypes
  <2> QED
    BY <1>12, <2>2, StoreTypes DEF StoreCompleted, TypeInv, TypeOK, ServiceTypeOK
<1>13. CASE MutateThrows(a)
  BY <1>2, <1>13 DEF MutateThrows
<1>14. CASE RetryUpdate(a)
  <2> DEFINE c == [call[a] EXCEPT !.seen = record[call[a].req], !.tries = @ + 1]
  <2>1. c \in Call
    <3>1. call[a].tries + 1 \in Nat /\ record[call[a].req] \in Record
      BY <1>1, <1>14 DEF RetryUpdate, Shape, Call
    <3> QED  BY <1>1, <3>1, Zenon DEF Call
  <2>2. Shape(a, c)
    BY <1>1, <1>14 DEF Call, Shape
  <2> QED  BY <1>2, <1>14, <2>1, <2>2, QuietTypes DEF RetryUpdate
<1> QED
  BY <1>4, <1>5, <1>6, <1>7, <1>8, <1>9, <1>10, <1>11, <1>12, <1>13, <1>14 DEF Handle

LEMMA BeginTypes ==
  ASSUME TypeInv, NEW a \in Callers, NEW op, NEW r \in Requests,
         NEW e \in Nat \cup {None}, NEW c \in Claims \cup {None},
         Begin(a, op, r, e, c),
         \/ op \in {"prepare", "approve"} /\ a \notin Buyers
         \/ op = "complete" /\ a \in Buyers /\ c \in Claims
  PROVE  call' \in [Callers -> Call] /\ CallShape'
<1> DEFINE new == [op |-> op, pc |-> "check", req |-> r, seen |-> record[r],
                   expires |-> e, claim |-> c, tries |-> 0]
<1>1. new \in Call
  BY DEF TypeInv, TypeOK, ServiceTypeOK, Call, Ops, Steps
<1>2. Shape(a, new)
  BY DEF Shape, Running
<1> QED  BY <1>1, <1>2, CallUpdate DEF Begin

LEMMA BuyerTypes ==
  ASSUME TypeInv, NEW b \in Buyers,
         ClaimAnswered(b) \/ Pay(b) \/ RunComplete(b) \/ CompleteAnswered(b) \/ Abort(b)
  PROVE  TypeInv'
<1>1. /\ b \in Callers
      /\ buyer \in [Buyers -> Buyer] /\ buyer[b] \in Buyer
      /\ call[b] \in Call /\ Shape(b, call[b])
      /\ IdleCall \in Call /\ Shape(b, IdleCall)
  BY IdleShape DEF TypeInv, TypeOK, ServiceTypeOK, CallShape, Callers
<1>2. ASSUME NEW n \in Buyer, buyer' = [buyer EXCEPT ![b] = n],
             n.pc # "idle" => n.req \in Requests,
             n.pc \in {"confirming", "paid", "completing"} => n.claim \in Claims
      PROVE  buyer' \in [Buyers -> Buyer] /\ BuyerShape'
  <2>1. buyer' \in [Buyers -> Buyer] /\ \A x \in Buyers : buyer'[x] = IF x = b THEN n ELSE buyer[x]
    BY <1>1, <1>2
  <2> QED  BY <1>2, <2>1 DEF TypeInv, BuyerShape
<1>3. ASSUME call' = [call EXCEPT ![b] = IdleCall],
             buyer' \in [Buyers -> Buyer], BuyerShape',
             UNCHANGED <<clock, record, index, links, claimSeq, ledger, approvals, leases, submitted>>
      PROVE  TypeInv'
  BY <1>1, <1>3, CallUpdate DEF TypeInv, TypeOK, ServiceTypeOK
<1>4. ASSUME buyer' = [buyer EXCEPT ![b] = IdleBuyer]
      PROVE  buyer' \in [Buyers -> Buyer] /\ BuyerShape'
  <2>1. IdleBuyer \in Buyer /\ IdleBuyer.pc = "idle"
    BY RecordTypes DEF IdleBuyer
  <2> QED  BY <1>2, <1>4, <2>1
<1>5. CASE ClaimAnswered(b)
  <2>1. CASE call[b].pc = "ok" /\ buyer' = [buyer EXCEPT ![b].pc = "confirming", ![b].claim = call[b].claim]
    <3> DEFINE n == [buyer[b] EXCEPT !.pc = "confirming", !.claim = call[b].claim]
    <3>1. call[b].claim \in Claims /\ buyer[b].req \in Requests
      BY <1>1, <1>5, <2>1 DEF Shape, ClaimAnswered, TypeInv, BuyerShape
    <3>2. n \in Buyer
      BY <1>1, <3>1, Zenon DEF Buyer, BuyerSteps
    <3>3. buyer' = [buyer EXCEPT ![b] = n] /\ n.req = buyer[b].req /\ n.claim = call[b].claim
      BY <1>1, <2>1 DEF Buyer
    <3>4. buyer' \in [Buyers -> Buyer] /\ BuyerShape'
      BY <1>2, <3>1, <3>2, <3>3
    <3> QED  BY <1>3, <1>5, <3>4 DEF ClaimAnswered
  <2>2. CASE buyer' = [buyer EXCEPT ![b] = IdleBuyer]
    BY <1>3, <1>4, <1>5, <2>2 DEF ClaimAnswered
  <2> QED  BY <1>5, <2>1, <2>2 DEF ClaimAnswered
<1>6. CASE Pay(b)
  <2> DEFINE n == [buyer[b] EXCEPT !.pc = "paid"]
  <2>1. buyer[b].req \in Requests /\ buyer[b].claim \in Claims
    BY <1>6 DEF Pay, TypeInv, BuyerShape
  <2>2. n \in Buyer /\ n.req = buyer[b].req /\ n.claim = buyer[b].claim
    BY <1>1 DEF Buyer, BuyerSteps
  <2>3. buyer' \in [Buyers -> Buyer] /\ BuyerShape'
    BY <1>2, <1>6, <2>1, <2>2 DEF Pay
  <2>4. submitted' \in [Requests -> SUBSET Claims]
    BY <1>6, <2>1 DEF Pay, TypeInv, TypeOK
  <2> QED  BY <1>6, <2>3, <2>4 DEF Pay, svars, TypeInv, TypeOK, ServiceTypeOK, CallShape, Shape
<1>7. CASE RunComplete(b)
  <2> DEFINE n == [buyer[b] EXCEPT !.pc = "completing"]
  <2>1. buyer[b].req \in Requests /\ buyer[b].claim \in Claims
    BY <1>7 DEF RunComplete, TypeInv, BuyerShape
  <2>2. n \in Buyer /\ n.req = buyer[b].req /\ n.claim = buyer[b].claim
    BY <1>1 DEF Buyer, BuyerSteps
  <2>3. buyer' \in [Buyers -> Buyer] /\ BuyerShape'
    BY <1>2, <1>7, <2>1, <2>2 DEF RunComplete
  <2>4. call' \in [Callers -> Call] /\ CallShape'
    BY <1>1, <1>7, <2>1, BeginTypes DEF RunComplete, StartComplete
  <2> QED  BY <1>7, <2>3, <2>4 DEF RunComplete, StartComplete, TypeInv, TypeOK, ServiceTypeOK
<1>8. CASE CompleteAnswered(b)
  <2>1. CASE buyer' = [buyer EXCEPT ![b] = IdleBuyer]
    BY <1>3, <1>4, <1>8, <2>1 DEF CompleteAnswered
  <2>2. CASE buyer' = [buyer EXCEPT ![b].pc = "paid", ![b].attempts = @ + 1]
    <3> DEFINE n == [buyer[b] EXCEPT !.pc = "paid", !.attempts = @ + 1]
    <3>1. buyer[b].req \in Requests /\ buyer[b].claim \in Claims
      BY <1>8 DEF CompleteAnswered, TypeInv, BuyerShape
    <3>2. buyer[b].attempts + 1 \in Nat
      BY <1>1 DEF Buyer
    <3>3. n \in Buyer
      BY <1>1, <3>2, Zenon DEF Buyer, BuyerSteps
    <3>4. buyer' = [buyer EXCEPT ![b] = n] /\ n.req = buyer[b].req /\ n.claim = buyer[b].claim
      BY <1>1, <2>2 DEF Buyer
    <3>5. buyer' \in [Buyers -> Buyer] /\ BuyerShape'
      BY <1>2, <3>1, <3>3, <3>4
    <3> QED  BY <1>3, <1>8, <3>5 DEF CompleteAnswered
  <2> QED  BY <1>8, <2>1, <2>2 DEF CompleteAnswered
<1>9. CASE Abort(b)
  BY <1>3, <1>4, <1>9 DEF Abort
<1> QED  BY <1>5, <1>6, <1>7, <1>8, <1>9

\* The invariant holds initially and every step keeps it.
LEMMA InitTypes == Init => TypeInv
<1> SUFFICES ASSUME Init PROVE TypeInv  OBVIOUS
<1>1. TypeOK
  BY RecordTypes, TimesAssumption DEF Init, ServiceInit, TypeOK, ServiceTypeOK
<1>2. CallShape
  BY IdleShape DEF Init, ServiceInit, CallShape
<1>3. BuyerShape
  BY DEF Init, BuyerShape, IdleBuyer
<1> QED  BY <1>1, <1>2, <1>3 DEF TypeInv

LEMMA StepTypes ==
  ASSUME TypeInv, [Next]_vars
  PROVE  TypeInv'
<1>4. ASSUME NEW b \in Buyers, NEW r \in Requests, RunClaim(b, r)
      PROVE  TypeInv'
  <2> DEFINE new == [op |-> "claim", pc |-> "cas", req |-> r, seen |-> record[r],
                     expires |-> clock + ClaimTTL, claim |-> claimSeq + 1, tries |-> 0]
             n == [pc |-> "claiming", req |-> r, claim |-> None, attempts |-> 0]
  <2>0. /\ claimSeq \in 0 .. MaxClaims /\ clock \in Nat
        /\ record[r] \in Record /\ b \in Callers
        /\ buyer \in [Buyers -> Buyer] /\ BuyerShape
    BY DEF TypeInv, TypeOK, ServiceTypeOK, Callers
  <2>1. /\ clock + ClaimTTL \in Nat
        /\ claimSeq + 1 \in Claims /\ claimSeq + 1 \in 0 .. MaxClaims
    BY <1>4, <2>0, TimesAssumption DEF Claims, RunClaim, StartClaim
  <2>2. new \in Call /\ Shape(b, new)
    BY <2>0, <2>1 DEF Call, Ops, Steps, Shape, Running
  <2>3. call' \in [Callers -> Call] /\ CallShape'
    BY <1>4, <2>0, <2>2, CallUpdate DEF RunClaim, StartClaim
  <2>5. n \in Buyer
    BY DEF Buyer, BuyerSteps
  <2>6. buyer' = [buyer EXCEPT ![b] = n]
    BY <1>4 DEF RunClaim
  <2>7. buyer' \in [Buyers -> Buyer] /\ \A x \in Buyers : buyer'[x] = IF x = b THEN n ELSE buyer[x]
    BY <2>0, <2>5, <2>6
  <2>8. BuyerShape'
    BY <2>0, <2>7 DEF BuyerShape
  <2> QED
    BY <1>4, <2>1, <2>3, <2>7, <2>8 DEF RunClaim, StartClaim, TypeInv, TypeOK, ServiceTypeOK
<1> USE DEF TypeInv, TypeOK, ServiceTypeOK
<1>1. ASSUME NEW k \in Keys, CreateDraft(k), UNCHANGED <<buyer, submitted>>
      PROVE  TypeInv'
  BY <1>1, RecordTypes DEF CreateDraft, CallShape, Shape, BuyerShape
<1>2. ASSUME NEW a \in Agents, NEW r \in Requests, StartPrepare(a, r), UNCHANGED <<buyer, submitted>>
      PROVE  TypeInv'
  <2>1. a \in Callers /\ a \notin Buyers
    BY RolesAssumption DEF Callers
  <2>2. call' \in [Callers -> Call] /\ CallShape'
    BY <1>2, <2>1, BeginTypes DEF StartPrepare
  <2> QED  BY <1>2, <2>2 DEF StartPrepare, BuyerShape
<1>3. ASSUME NEW a \in Approvers, NEW l \in links, StartApprove(a, l), UNCHANGED <<buyer, submitted>>
      PROVE  TypeInv'
  <2>1. a \in Callers /\ a \notin Buyers /\ l.req \in Requests /\ l.expires \in Nat
    BY RolesAssumption DEF Callers
  <2>2. call' \in [Callers -> Call] /\ CallShape'
    BY <1>3, <2>1, BeginTypes DEF StartApprove
  <2> QED  BY <1>3, <2>2 DEF StartApprove, BuyerShape
<1>5. ASSUME NEW r \in Requests, Land(r)
      PROVE  TypeInv'
  BY <1>5 DEF Land, CallShape, Shape, BuyerShape
<1>6. ASSUME Tick, UNCHANGED <<buyer, submitted>>
      PROVE  TypeInv'
  BY <1>6 DEF Tick, CallShape, Shape, BuyerShape
<1>7. CASE UNCHANGED vars
  BY <1>7 DEF vars, svars, CallShape, Shape, BuyerShape
<1> QED
  BY <1>1, <1>2, <1>3, <1>4, <1>5, <1>6, <1>7, HandleTypes, BuyerTypes DEF Next, Client, BuyerStep

\* TypeCorrect: the stored records, invocations and scripts always have their
\* types; in particular no link is handed out without an expiry and no record
\* is settled without a transaction name.
THEOREM TypeCorrect == Spec => []TypeOK
<1>1. Init => TypeInv
  BY InitTypes
<1>2. TypeInv /\ [Next]_vars => TypeInv'
  BY StepTypes
<1>3. TypeInv => TypeOK
  BY DEF TypeInv
<1> QED  BY <1>1, <1>2, <1>3, PTL DEF Spec

THEOREM TypeInvariant == Spec => []TypeInv
<1>1. Init => TypeInv
  BY InitTypes
<1>2. TypeInv /\ [Next]_vars => TypeInv'
  BY StepTypes
<1> QED  BY <1>1, <1>2, PTL DEF Spec

-----------------------------------------------------------------------------
(* The atomicity of repository.update *)

\* An accepted compare-and-set writes what the mutate callback made of the
\* record that is still stored.
LEMMA StoreFacts ==
  ASSUME TypeInv, SnapshotInv, NEW a \in Callers, NEW op, NEW may, NEW rec, Store(a, op, may, rec)
  PROVE  /\ call[a].req \in Requests /\ call[a].op = op /\ call[a].pc = "cas"
         /\ call[a].seen = record[call[a].req] /\ call[a].seen \in Record
         /\ may
         /\ record' = [record EXCEPT ![call[a].req] = rec]
         /\ \E result \in {"ok", "refused"} : call' = [call EXCEPT ![a] = Answered(a, result)]
BY DEF Store, Unchanged, SnapshotInv, Current, TypeInv, TypeOK, ServiceTypeOK, CallShape, Shape,
       Running, Answer

\* Each store, spelt out: the record that was current gets its new contents.
Wrote(a, op, rec) ==
  /\ call[a].req \in Requests /\ call[a].op = op /\ call[a].pc = "cas"
  /\ call[a].seen = record[call[a].req] /\ call[a].seen \in Record
  /\ record' = [record EXCEPT ![call[a].req] = rec]
  /\ \E result \in {"ok", "refused"} : call' = [call EXCEPT ![a] = Answered(a, result)]

LEMMA Stored ==
  ASSUME TypeInv, SnapshotInv, NEW a \in Callers
  PROVE  /\ StorePrepared(a) =>
              MayPrepare(call[a].seen) /\ Wrote(a, "prepare", Prepared(call[a].seen, call[a].expires))
         /\ StoreApproved(a) =>
              MayApprove(call[a].seen) /\ Wrote(a, "approve", Approved(call[a].seen))
         /\ StoreExpired(a) => Wrote(a, "expire", Expired(call[a].seen))
         /\ StoreClaimed(a) =>
              MayClaim(call[a].seen)
                /\ Wrote(a, "claim", Claimed(call[a].seen, call[a].claim, call[a].expires))
         /\ StoreCompleted(a) =>
              MayComplete(call[a].seen, call[a].claim)
                /\ Wrote(a, "complete", Completed(call[a].seen, call[a].claim))
<1>1. ASSUME NEW op, NEW may, NEW rec, Store(a, op, may, rec)
      PROVE  may /\ Wrote(a, op, rec)
  BY <1>1, StoreFacts DEF Wrote
<1>2. StorePrepared(a) =>
        MayPrepare(call[a].seen) /\ Wrote(a, "prepare", Prepared(call[a].seen, call[a].expires))
  BY <1>1 DEF StorePrepared
<1>3. StoreApproved(a) =>
        MayApprove(call[a].seen) /\ Wrote(a, "approve", Approved(call[a].seen))
  BY <1>1 DEF StoreApproved
<1>4. StoreExpired(a) => Wrote(a, "expire", Expired(call[a].seen))
  BY <1>1 DEF StoreExpired
<1>5. StoreClaimed(a) =>
        MayClaim(call[a].seen) /\ Wrote(a, "claim", Claimed(call[a].seen, call[a].claim, call[a].expires))
  BY <1>1 DEF StoreClaimed
<1>6. StoreCompleted(a) =>
        MayComplete(call[a].seen, call[a].claim)
          /\ Wrote(a, "complete", Completed(call[a].seen, call[a].claim))
  BY <1>1 DEF StoreCompleted
<1> QED  BY <1>2, <1>3, <1>4, <1>5, <1>6

\* What a step does to records, approvals and leases.
LEMMA StepKinds ==
  ASSUME [Next]_vars
  PROVE  \/ UNCHANGED <<record, approvals, leases>> /\ (clock' = clock \/ Tick)
         \/ \E k \in Keys : CreateDraft(k)
         \/ \E a \in Callers : \/ StorePrepared(a) \/ StoreApproved(a) \/ StoreExpired(a)
                               \/ StoreClaimed(a) \/ StoreCompleted(a)
BY DEF Next, vars, svars, Client, Handle, BuyerStep, StartPrepare, StartApprove, PrepareCheck,
       ApproveCheck, CompleteCheck, VerifySettlement, MutateThrows, RetryUpdate, RunClaim,
       StartClaim, ClaimAnswered, Pay, RunComplete, StartComplete, CompleteAnswered, Abort,
       Land, Tick

\* What a step does to one invocation that is about to compare and set.
LEMMA CallKinds ==
  ASSUME TypeInv, [Next]_vars, NEW x \in Callers, call'[x].pc = "cas"
  PROVE  \/ call'[x] = call[x]
         \/ record' = record /\ call'[x].seen = record[call'[x].req]
<1>1. call \in [Callers -> Call] /\ Buyers \subseteq Callers /\ Agents \subseteq Callers /\ Approvers \subseteq Callers
  BY DEF TypeInv, TypeOK, ServiceTypeOK, Callers
<1>2. ASSUME NEW a \in Callers, NEW result \in {"ok", "retry", "refused"}, Answer(a, result)
      PROVE  call'[x] = call[x]
  <2>1. Answered(a, result).pc # "cas"
    BY DEF Answered, IdleCall
  <2>2. call'[x] = IF x = a THEN Answered(a, result) ELSE call[x]
    BY <1>1, <1>2 DEF Answer
  <2> QED  BY <2>1, <2>2
<1>3. ASSUME NEW a \in Callers, NEW op, NEW e, Update(a, op, e), record' = record
      PROVE  call'[x] = call[x] \/ (record' = record /\ call'[x].seen = record[call'[x].req])
  BY <1>1, <1>3 DEF Update, Call
<1>4. ASSUME NEW a \in Callers, NEW op, NEW r, NEW e, NEW c, Begin(a, op, r, e, c)
      PROVE  call'[x] = call[x]
  BY <1>1, <1>4 DEF Begin
<1>5. ASSUME NEW a \in Callers, call' = [call EXCEPT ![a] = IdleCall]
      PROVE  call'[x] = call[x]
  BY <1>1, <1>5 DEF IdleCall
<1>6. ASSUME NEW a \in Callers, Handle(a)
      PROVE  call'[x] = call[x] \/ (record' = record /\ call'[x].seen = record[call'[x].req])
  <2>1. CASE PrepareCheck(a)
    BY <1>2, <1>3, <2>1 DEF PrepareCheck
  <2>2. CASE ApproveCheck(a)
    BY <1>2, <1>3, <2>2 DEF ApproveCheck
  <2>3. CASE CompleteCheck(a)
    <3>1. CASE Answer(a, "refused")
      BY <1>2, <3>1
    <3>2. CASE call' = [call EXCEPT ![a] = [call[a] EXCEPT !.pc = "verify", !.seen = NoRecord]]
      BY <1>1, <3>2 DEF Call
    <3> QED  BY <2>3, <3>1, <3>2 DEF CompleteCheck
  <2>4. CASE VerifySettlement(a)
    BY <1>2, <1>3, <2>4 DEF VerifySettlement
  <2>5. CASE MutateThrows(a)
    BY <1>2, <2>5 DEF MutateThrows
  <2>6. CASE RetryUpdate(a)
    <3>1. CASE Answer(a, "refused")
      BY <1>2, <3>1
    <3>2. CASE call' = [call EXCEPT ![a] = [call[a] EXCEPT !.seen = record[call[a].req], !.tries = @ + 1]]
      BY <1>1, <2>6, <3>2 DEF Call, RetryUpdate
    <3> QED  BY <2>6, <3>1, <3>2 DEF RetryUpdate
  <2>7. CASE StorePrepared(a) \/ StoreApproved(a) \/ StoreExpired(a) \/ StoreClaimed(a) \/ StoreCompleted(a)
    BY <1>2, <2>7 DEF StorePrepared, StoreApproved, StoreExpired, StoreClaimed, StoreCompleted, Store
  <2> QED  BY <1>6, <2>1, <2>2, <2>3, <2>4, <2>5, <2>6, <2>7 DEF Handle
<1>7. ASSUME NEW b \in Buyers, BuyerStep(b)
      PROVE  call'[x] = call[x] \/ (record' = record /\ call'[x].seen = record[call'[x].req])
  <2>1. ASSUME NEW r \in Requests, RunClaim(b, r)
        PROVE  call'[x] = call[x] \/ (record' = record /\ call'[x].seen = record[call'[x].req])
    BY <1>1, <2>1 DEF RunClaim, StartClaim
  <2>2. CASE ClaimAnswered(b) \/ CompleteAnswered(b) \/ Abort(b)
    BY <1>1, <1>5, <2>2 DEF ClaimAnswered, CompleteAnswered, Abort
  <2>3. CASE Pay(b)
    BY <2>3 DEF Pay, svars
  <2>4. CASE RunComplete(b)
    BY <1>1, <1>4, <2>4 DEF RunComplete, StartComplete
  <2> QED  BY <1>7, <2>1, <2>2, <2>3, <2>4 DEF BuyerStep
<1>8. CASE Client
  BY <1>1, <1>4, <1>8 DEF Client, CreateDraft, StartPrepare, StartApprove
<1> QED
  BY <1>6, <1>7, <1>8 DEF Next, vars, svars, Land, Tick

\* What an accepted write does to a record, field by field.
LEMMA MutatedFields ==
  ASSUME NEW rec \in Record
  PROVE  /\ \A e : /\ Prepared(rec, e).version = rec.version + 1
                  /\ Prepared(rec, e).status = "prepared"
                  /\ Prepared(rec, e).transactionHash = rec.transactionHash
         /\ Approved(rec).version = rec.version + 1
         /\ Approved(rec).status = "approved"
         /\ Approved(rec).transactionHash = rec.transactionHash
         /\ Expired(rec).version = rec.version + 1
         /\ Expired(rec).status = "expired"
         /\ Expired(rec).transactionHash = rec.transactionHash
         /\ \A c, e : /\ Claimed(rec, c, e).version = rec.version + 1
                     /\ Claimed(rec, c, e).status = "settling"
                     /\ Claimed(rec, c, e).transactionHash = rec.transactionHash
                     /\ Claimed(rec, c, e).claimIdHash = c
                     /\ Claimed(rec, c, e).claimExpiresAt = e
         /\ \A c : /\ Completed(rec, c).version = rec.version + 1
                  /\ Completed(rec, c).status = "settled"
                  /\ Completed(rec, c).transactionHash = c
BY DEF Record, Prepared, Approved, Expired, Claimed, Completed

\* A stored record only ever gets newer, and a new version is a new record.
LEMMA VersionGrows ==
  ASSUME TypeInv, SnapshotInv, [Next]_vars, NEW r \in Requests
  PROVE  record'[r] = record[r] \/ record'[r].version > record[r].version
<1>1. record \in [Requests -> Record] /\ record[r] \in Record /\ record[r].version \in Nat
  BY DEF TypeInv, TypeOK, ServiceTypeOK, Record
<1>2. ASSUME NEW a \in Callers, NEW op, NEW may, NEW rec, Store(a, op, may, rec),
             rec.version = call[a].seen.version + 1
      PROVE  record'[r] = record[r] \/ record'[r].version > record[r].version
  BY <1>1, <1>2, StoreFacts
<1>3. ASSUME NEW k \in Keys, CreateDraft(k)
      PROVE  record'[r] = record[r] \/ record'[r].version > record[r].version
  <2>1. Draft.version = 1 /\ NoRecord.version = 0
    BY DEF Draft, NoRecord
  <2> QED  BY <1>1, <1>3, <2>1 DEF CreateDraft
<1>4. ASSUME NEW a \in Callers,
             \/ StorePrepared(a) \/ StoreApproved(a) \/ StoreExpired(a)
             \/ StoreClaimed(a) \/ StoreCompleted(a)
      PROVE  record'[r] = record[r] \/ record'[r].version > record[r].version
  <2>1. call[a].seen \in Record
    BY DEF TypeInv, TypeOK, ServiceTypeOK, Call
  <2> QED
    BY <1>2, <1>4, <2>1, MutatedFields
    DEF StorePrepared, StoreApproved, StoreExpired, StoreClaimed, StoreCompleted
<1> QED  BY <1>3, <1>4, StepKinds

LEMMA SnapshotStep ==
  ASSUME TypeInv, SnapshotInv, [Next]_vars
  PROVE  SnapshotInv'
<1>1. TypeInv'
  BY StepTypes
<1>2. SUFFICES ASSUME NEW x \in Callers, call'[x].pc = "cas"
      PROVE  /\ call'[x].seen.version <= record'[call'[x].req].version
             /\ call'[x].seen.version = record'[call'[x].req].version
                  => call'[x].seen = record'[call'[x].req]
  BY DEF SnapshotInv, Current
<1>3. /\ call'[x].req \in Requests /\ call'[x].seen \in Record
      /\ record[call'[x].req] \in Record /\ record'[call'[x].req] \in Record
  BY <1>1, <1>2 DEF TypeInv, TypeOK, ServiceTypeOK, CallShape, Shape, Running, Call
<1>4. CASE call'[x] = call[x]
  <2>1. /\ call[x].seen.version <= record[call[x].req].version
        /\ call[x].seen.version = record[call[x].req].version => call[x].seen = record[call[x].req]
    BY <1>2, <1>4 DEF SnapshotInv, Current
  <2>2. record'[call[x].req] = record[call[x].req] \/ record'[call[x].req].version > record[call[x].req].version
    BY <1>3, <1>4, VersionGrows
  <2> QED  BY <1>3, <1>4, <2>1, <2>2 DEF Record
<1>5. CASE record' = record /\ call'[x].seen = record[call'[x].req]
  BY <1>3, <1>5 DEF Record
<1> QED  BY <1>2, <1>4, <1>5, CallKinds

-----------------------------------------------------------------------------
(* Approvals *)

LEMMA LifeStep ==
  ASSUME TypeInv, SnapshotInv, LifeInv, [Next]_vars
  PROVE  LifeInv'
<1>1. /\ record \in [Requests -> Record] /\ approvals \in [Requests -> Nat]
      /\ \A a \in Callers : call[a].seen \in Record
  BY DEF TypeInv, TypeOK, ServiceTypeOK, Call
<1>2. ASSUME NEW a \in Callers, NEW op, NEW rec, Wrote(a, op, rec),
             \/ approvals' = approvals /\ LifeOf(rec, approvals[call[a].req])
             \/ /\ approvals' = [approvals EXCEPT ![call[a].req] = @ + 1]
                /\ LifeOf(rec, approvals[call[a].req] + 1)
      PROVE  LifeInv'
  <2>1. \A r \in Requests : record'[r] = IF r = call[a].req THEN rec ELSE record[r]
    BY <1>1, <1>2 DEF Wrote
  <2> QED  BY <1>1, <1>2, <2>1 DEF LifeInv, LifeOf, Wrote
<1>3. ASSUME NEW a \in Callers, NEW op, NEW rec, Wrote(a, op, rec)
      PROVE  LifeOf(call[a].seen, approvals[call[a].req]) /\ approvals[call[a].req] \in Nat
  BY <1>1, <1>3 DEF Wrote, LifeInv
<1>4. CASE UNCHANGED <<record, approvals, leases>>
  BY <1>4 DEF LifeInv, LifeOf
<1>5. ASSUME NEW k \in Keys, CreateDraft(k)
      PROVE  LifeInv'
  <2>1. /\ NoRecord.status = "absent" /\ Draft.status = "created" /\ Draft.transactionHash = None
    BY DEF Draft, NoRecord
  <2> QED  BY <1>1, <1>5, <2>1 DEF CreateDraft, LifeInv, LifeOf
<1>6. ASSUME NEW a \in Callers, StorePrepared(a)
      PROVE  LifeInv'
  <2>1. Wrote(a, "prepare", Prepared(call[a].seen, call[a].expires)) /\ MayPrepare(call[a].seen)
    BY <1>6, Stored
  <2> DEFINE new == Prepared(call[a].seen, call[a].expires)
  <2>2. approvals[call[a].req] = 0 /\ call[a].seen.transactionHash = None
    <3>1. LifeOf(call[a].seen, approvals[call[a].req])
      BY <1>3, <2>1
    <3> QED  BY <2>1, <3>1 DEF LifeOf, MayPrepare
  <2>3. new.status = "prepared" /\ new.transactionHash = None
    BY <1>1, <2>2, MutatedFields
  <2>4. LifeOf(new, approvals[call[a].req])
    BY <2>2, <2>3 DEF LifeOf
  <2> QED  BY <1>2, <1>6, <2>1, <2>4 DEF StorePrepared
<1>7. ASSUME NEW a \in Callers, StoreApproved(a)
      PROVE  LifeInv'
  <2>1. Wrote(a, "approve", Approved(call[a].seen)) /\ MayApprove(call[a].seen)
    BY <1>7, Stored
  <2>2. approvals[call[a].req] = 0 /\ call[a].seen.transactionHash = None
    <3>1. LifeOf(call[a].seen, approvals[call[a].req]) /\ call[a].seen.status = "prepared"
      BY <1>3, <2>1 DEF MayApprove
    <3> QED  BY <3>1 DEF LifeOf
  <2>3. /\ Approved(call[a].seen).status = "approved"
        /\ Approved(call[a].seen).transactionHash = None
    BY <1>1, <2>2, MutatedFields
  <2>4. LifeOf(Approved(call[a].seen), approvals[call[a].req] + 1)
    BY <2>2, <2>3 DEF LifeOf
  <2> QED  BY <1>2, <1>7, <2>1, <2>4 DEF StoreApproved
<1>8. ASSUME NEW a \in Callers, StoreExpired(a)
      PROVE  LifeInv'
  <2>1. Wrote(a, "expire", Expired(call[a].seen))
    BY <1>8, Stored
  <2>2. LifeOf(Expired(call[a].seen), approvals[call[a].req])
    BY <1>1, <1>3, <2>1, MutatedFields DEF LifeOf
  <2> QED  BY <1>2, <1>8, <2>1, <2>2 DEF StoreExpired
<1>9. ASSUME NEW a \in Callers, StoreClaimed(a)
      PROVE  LifeInv'
  <2> DEFINE new == Claimed(call[a].seen, call[a].claim, call[a].expires)
  <2>1. Wrote(a, "claim", new) /\ MayClaim(call[a].seen)
    BY <1>9, Stored
  <2>2. LifeOf(new, approvals[call[a].req])
    BY <1>1, <1>3, <2>1, MutatedFields DEF LifeOf, MayClaim
  <2> QED  BY <1>2, <1>9, <2>1, <2>2 DEF StoreClaimed
<1>10. ASSUME NEW a \in Callers, StoreCompleted(a)
      PROVE  LifeInv'
  <2> DEFINE new == Completed(call[a].seen, call[a].claim)
  <2>1. Wrote(a, "complete", new) /\ MayComplete(call[a].seen, call[a].claim)
    BY <1>10, Stored
  <2>2. LifeOf(new, approvals[call[a].req])
    BY <1>1, <1>3, <2>1, MutatedFields DEF LifeOf, MayComplete
  <2> QED  BY <1>2, <1>10, <2>1, <2>2 DEF StoreCompleted
<1> QED  BY <1>4, <1>5, <1>6, <1>7, <1>8, <1>9, <1>10, StepKinds

-----------------------------------------------------------------------------
(* Leases *)

\* A step that leaves the clock alone and rewrites one record keeps LeaseInv
\* if no running lease of that record is contradicted.
LEMMA LeaseWrite ==
  ASSUME TypeInv, LeaseInv, NEW a \in Callers, NEW op, NEW rec, Wrote(a, op, rec),
         clock' = clock, leases' = leases, approvals' = approvals,
         \A l \in leases : l.req = call[a].req => LeaseOf(l, rec, approvals[l.req])
  PROVE  LeaseInv'
<1>1. /\ record \in [Requests -> Record]
      /\ \A l \in leases : l.req \in Requests
  BY DEF TypeInv, TypeOK, ServiceTypeOK
<1>2. \A l \in leases : record'[l.req] = IF l.req = call[a].req THEN rec ELSE record[l.req]
  BY <1>1 DEF Wrote
<1> QED  BY <1>2 DEF LeaseInv, LeaseOf

LEMMA LeaseStep ==
  ASSUME TypeInv, SnapshotInv, LifeInv, LeaseInv, [Next]_vars
  PROVE  LeaseInv'
<1>1. /\ record \in [Requests -> Record] /\ approvals \in [Requests -> Nat] /\ clock \in Nat
      /\ \A a \in Callers : call[a].seen \in Record
      /\ \A l \in leases : l.req \in Requests /\ l.ends \in Nat
  BY DEF TypeInv, TypeOK, ServiceTypeOK, Call
<1>2. CASE UNCHANGED <<record, approvals, leases>> /\ (clock' = clock \/ Tick)
  <2>1. clock' \in Nat /\ clock' >= clock
    BY <1>1, <1>2 DEF Tick
  <2> QED  BY <1>1, <1>2, <2>1 DEF LeaseInv, LeaseOf
<1>3. ASSUME NEW k \in Keys, CreateDraft(k)
      PROVE  LeaseInv'
  <2>1. PICK r \in Requests : record[r] = NoRecord /\ record' = [record EXCEPT ![r] = Draft]
    BY <1>3 DEF CreateDraft
  <2>2. approvals[r] = 0
    BY <2>1 DEF LifeInv, LifeOf, NoRecord
  <2>3. \A l \in leases : l.req # r
    BY <2>2 DEF LeaseInv, LeaseOf
  <2>4. \A l \in leases : record'[l.req] = record[l.req]
    BY <1>1, <2>1, <2>3
  <2> QED  BY <1>3, <2>4 DEF CreateDraft, LeaseInv, LeaseOf
\* No lease exists on a record that is not approved yet.
<1>4. ASSUME NEW a \in Callers, NEW op, NEW rec, Wrote(a, op, rec),
             call[a].seen.status \in {"created", "prepared"}
      PROVE  \A l \in leases : l.req # call[a].req
  <2>1. approvals[call[a].req] = 0
    BY <1>4 DEF LifeInv, LifeOf, Wrote
  <2> QED  BY <2>1 DEF LeaseInv, LeaseOf
<1>5. ASSUME NEW a \in Callers, StorePrepared(a)
      PROVE  LeaseInv'
  <2> DEFINE new == Prepared(call[a].seen, call[a].expires)
  <2>1. Wrote(a, "prepare", new) /\ MayPrepare(call[a].seen)
    BY <1>5, Stored
  <2>2. \A l \in leases : l.req # call[a].req
    BY <1>4, <2>1 DEF MayPrepare
  <2> QED  BY <1>5, <2>1, <2>2, LeaseWrite DEF StorePrepared
<1>6. ASSUME NEW a \in Callers, StoreApproved(a)
      PROVE  LeaseInv'
  <2>1. Wrote(a, "approve", Approved(call[a].seen)) /\ MayApprove(call[a].seen)
    BY <1>6, Stored
  <2>2. \A l \in leases : l.req # call[a].req
    BY <1>4, <2>1 DEF MayApprove
  <2>3. \A l \in leases : record'[l.req] = record[l.req] /\ approvals'[l.req] = approvals[l.req]
    BY <1>1, <1>6, <2>1, <2>2 DEF Wrote, StoreApproved
  <2> QED  BY <1>6, <2>3 DEF StoreApproved, LeaseInv, LeaseOf
<1>7. ASSUME NEW a \in Callers, StoreExpired(a)
      PROVE  LeaseInv'
  <2>1. Wrote(a, "expire", Expired(call[a].seen))
    BY <1>7, Stored
  <2>2. Expired(call[a].seen).status = "expired"
    BY <1>1, MutatedFields
  <2>3. \A l \in leases : LeaseOf(l, Expired(call[a].seen), approvals[l.req])
    BY <2>2 DEF LeaseInv, LeaseOf
  <2> QED  BY <1>7, <2>1, <2>3, LeaseWrite DEF StoreExpired
<1>8. ASSUME NEW a \in Callers, StoreCompleted(a)
      PROVE  LeaseInv'
  <2> DEFINE new == Completed(call[a].seen, call[a].claim)
  <2>1. Wrote(a, "complete", new)
    BY <1>8, Stored
  <2>2. new.status = "settled"
    BY <1>1, MutatedFields
  <2>3. \A l \in leases : LeaseOf(l, new, approvals[l.req])
    BY <2>2 DEF LeaseInv, LeaseOf
  <2> QED  BY <1>8, <2>1, <2>3, LeaseWrite DEF StoreCompleted
<1>9. ASSUME NEW a \in Callers, StoreClaimed(a)
      PROVE  LeaseInv'
  <2> DEFINE r == call[a].req
             new == Claimed(call[a].seen, call[a].claim, call[a].expires)
             lease == [req |-> r, claim |-> call[a].claim, ends |-> call[a].expires]
  <2>1. Wrote(a, "claim", new) /\ MayClaim(call[a].seen)
    BY <1>9, Stored
  <2>2. r \in Requests /\ call[a].seen = record[r]
    BY <2>1 DEF Wrote
  <2>3. approvals[r] = 1
    BY <2>1, <2>2 DEF LifeInv, LifeOf, MayClaim
  <2>4. new.status = "settling" /\ new.claimIdHash = lease.claim /\ new.claimExpiresAt = lease.ends
    BY <1>1, MutatedFields
  \* A claim is only accepted when no granted lease still runs.
  <2>5. ASSUME NEW l \in leases, l.req = r
        PROVE  ~(l.ends > clock)
    <3>1. LeaseOf(l, record[r], approvals[r])
      BY <2>5 DEF LeaseInv
    <3>2. record[r].status = "settling" => Past(record[r].claimExpiresAt)
      BY <2>1, <2>2 DEF MayClaim
    <3>3. record[r].status \in {"approved", "settling"}
      BY <2>1, <2>2 DEF MayClaim
    <3> QED  BY <1>1, <2>5, <3>1, <3>2, <3>3 DEF LeaseOf, Past
  <2>6. ASSUME NEW l \in leases \cup {lease}
        PROVE  LeaseOf(l, record'[l.req], approvals[l.req])
    <3>1. \A q \in Requests : record'[q] = IF q = r THEN new ELSE record[q]
      BY <1>1, <2>1 DEF Wrote
    <3>2. CASE l = lease
      BY <2>2, <2>3, <2>4, <3>1, <3>2 DEF LeaseOf
    <3>3. CASE l \in leases /\ l.req = r
      BY <2>3, <2>5, <3>3 DEF LeaseOf
    <3>4. CASE l \in leases /\ l.req # r
      BY <1>1, <3>1, <3>4 DEF LeaseInv
    <3> QED  BY <3>2, <3>3, <3>4
  <2> QED  BY <1>9, <2>6 DEF StoreClaimed, LeaseInv, LeaseOf
<1> QED  BY <1>2, <1>3, <1>5, <1>6, <1>7, <1>8, <1>9, StepKinds

-----------------------------------------------------------------------------
(* Claims, scripts and payments *)

\* What a step does to one invocation, as far as claims and completions go.
CallMove(x) ==
  \/ call'[x] = call[x]
  \/ call'[x].op \notin {"claim", "complete"}
  \/ /\ call'[x].op \in {"claim", "complete"} /\ call'[x].op = call[x].op
     /\ call'[x].claim = call[x].claim /\ call'[x].req = call[x].req
     /\ (call'[x].op = "complete" /\ call'[x].pc = "cas") =>
          call[x].pc = "cas" \/ OnLedger(call[x].claim)
  \/ x \in Buyers /\ \E r \in Requests : RunClaim(x, r)
  \/ x \in Buyers /\ RunComplete(x)

\* The invocation of another caller is never touched.
LEMMA HandleOthers ==
  ASSUME TypeInv, NEW a \in Callers, Handle(a), NEW x \in Callers, x # a
  PROVE  call'[x] = call[x]
BY DEF TypeInv, TypeOK, ServiceTypeOK, Handle, PrepareCheck, ApproveCheck, CompleteCheck,
       VerifySettlement, StorePrepared, StoreApproved, StoreExpired, StoreClaimed,
       StoreCompleted, Store, MutateThrows, RetryUpdate, Answer, Update

LEMMA BuyerOthers ==
  ASSUME TypeInv, NEW b \in Buyers, BuyerStep(b)
  PROVE  /\ \A x \in Callers : x # b => call'[x] = call[x]
         /\ \A x \in Buyers : x # b => buyer'[x] = buyer[x]
<1>1. call \in [Callers -> Call] /\ buyer \in [Buyers -> Buyer]
  BY DEF TypeInv, TypeOK, ServiceTypeOK
<1> QED
  BY <1>1 DEF BuyerStep, RunClaim, StartClaim, ClaimAnswered, Pay, svars, RunComplete,
     StartComplete, Begin, CompleteAnswered, Abort

\* An answer ends the invocation.
LEMMA AnsweredFields ==
  ASSUME NEW a \in Callers, NEW result
  PROVE  /\ Answered(a, result).op = "none"
         /\ a \in Buyers => /\ Answered(a, result).pc = result
                            /\ Answered(a, result).req = call[a].req
                            /\ Answered(a, result).claim = call[a].claim
BY DEF Answered, IdleCall

LEMMA HandleMoves ==
  ASSUME TypeInv, NEW a \in Callers, Handle(a)
  PROVE  CallMove(a)
<1>1. call \in [Callers -> Call] /\ call[a] \in Call
  BY DEF TypeInv, TypeOK, ServiceTypeOK
<1>2. ASSUME NEW result, Answer(a, result)
      PROVE  CallMove(a)
  <2>1. call'[a].op = "none"
    BY <1>1, <1>2, AnsweredFields DEF Answer
  <2> QED  BY <2>1 DEF CallMove
<1>3. ASSUME NEW op, NEW e, Update(a, op, e), op \notin {"claim", "complete"}
      PROVE  CallMove(a)
  <2>1. call'[a].op = op
    BY <1>1, <1>3 DEF Update, Call
  <2> QED  BY <1>3, <2>1 DEF CallMove
<1>4. CASE PrepareCheck(a)
  BY <1>2, <1>3, <1>4 DEF PrepareCheck
<1>5. CASE ApproveCheck(a)
  BY <1>2, <1>3, <1>5 DEF ApproveCheck
<1>6. CASE CompleteCheck(a)
  <2>1. CASE call' = [call EXCEPT ![a] = [call[a] EXCEPT !.pc = "verify", !.seen = NoRecord]]
    BY <1>1, <1>6, <2>1 DEF Call, CompleteCheck, CallMove
  <2> QED  BY <1>2, <1>6, <2>1 DEF CompleteCheck
<1>7. CASE VerifySettlement(a)
  <2>1. CASE OnLedger(call[a].claim) /\ Update(a, "complete", None)
    BY <1>1, <1>7, <2>1 DEF Call, Update, VerifySettlement, CallMove
  <2> QED  BY <1>2, <1>7, <2>1 DEF VerifySettlement
<1>8. CASE MutateThrows(a)
  BY <1>2, <1>8 DEF MutateThrows
<1>9. CASE RetryUpdate(a)
  <2>1. CASE call' = [call EXCEPT ![a] = [call[a] EXCEPT !.seen = record[call[a].req], !.tries = @ + 1]]
    BY <1>1, <1>9, <2>1 DEF Call, RetryUpdate, CallMove
  <2> QED  BY <1>2, <1>9, <2>1 DEF RetryUpdate
<1>10. CASE StorePrepared(a) \/ StoreApproved(a) \/ StoreExpired(a) \/ StoreClaimed(a) \/ StoreCompleted(a)
  BY <1>2, <1>10 DEF StorePrepared, StoreApproved, StoreExpired, StoreClaimed, StoreCompleted, Store
<1> QED  BY <1>4, <1>5, <1>6, <1>7, <1>8, <1>9, <1>10 DEF Handle

LEMMA CallMoves ==
  ASSUME TypeInv, [Next]_vars, NEW x \in Callers
  PROVE  CallMove(x)
<1>1. call \in [Callers -> Call] /\ Buyers \subseteq Callers
  BY DEF TypeInv, TypeOK, ServiceTypeOK, Callers
<1>2. ASSUME NEW a \in Callers, Handle(a)
      PROVE  CallMove(x)
  BY <1>2, HandleMoves, HandleOthers DEF CallMove
<1>3. ASSUME NEW b \in Buyers, BuyerStep(b)
      PROVE  CallMove(x)
  <2>1. CASE x # b
    BY <1>3, <2>1, BuyerOthers DEF CallMove
  <2>2. CASE x = b /\ (ClaimAnswered(b) \/ CompleteAnswered(b) \/ Abort(b))
    BY <1>1, <2>2 DEF ClaimAnswered, CompleteAnswered, Abort, IdleCall, CallMove
  <2>3. CASE x = b /\ Pay(b)
    BY <2>3 DEF Pay, svars, CallMove
  <2> QED  BY <1>3, <2>1, <2>2, <2>3 DEF BuyerStep, CallMove
<1>4. CASE Client
  BY <1>1, <1>4 DEF Client, CreateDraft, StartPrepare, StartApprove, Begin, CallMove
<1> QED
  BY <1>2, <1>3, <1>4 DEF Next, vars, svars, Land, Tick, CallMove

\* Leases, payments and claim ids are never forgotten.
LEMMA Monotone ==
  ASSUME TypeInv, [Next]_vars
  PROVE  /\ leases \subseteq leases'
         /\ claimSeq <= claimSeq'
         /\ \A r \in Requests : submitted[r] \subseteq submitted'[r] /\ ledger[r] \subseteq ledger'[r]
<1>1. /\ claimSeq \in Nat
      /\ submitted \in [Requests -> SUBSET Claims] /\ ledger \in [Requests -> SUBSET Claims]
  BY TimesAssumption DEF TypeInv, TypeOK, ServiceTypeOK
<1>2. ASSUME NEW a \in Callers, Handle(a)
      PROVE  leases \subseteq leases' /\ UNCHANGED <<claimSeq, ledger>>
  BY <1>2 DEF Handle, PrepareCheck, ApproveCheck, CompleteCheck,
       VerifySettlement, StorePrepared, StoreApproved, StoreExpired, StoreClaimed,
       StoreCompleted, MutateThrows, RetryUpdate
<1>3. ASSUME NEW b \in Buyers, BuyerStep(b)
      PROVE  /\ UNCHANGED <<leases, ledger>> /\ claimSeq <= claimSeq'
             /\ \A r \in Requests : submitted[r] \subseteq submitted'[r]
  BY <1>1, <1>3 DEF BuyerStep, RunClaim, StartClaim, ClaimAnswered, Pay, svars, RunComplete,
     StartComplete, CompleteAnswered, Abort
<1>4. ASSUME NEW r \in Requests, Land(r)
      PROVE  /\ UNCHANGED <<leases, claimSeq, submitted>>
             /\ \A q \in Requests : ledger[q] \subseteq ledger'[q]
  BY <1>1, <1>4 DEF Land
<1>5. CASE Client /\ UNCHANGED <<buyer, submitted>>
  BY <1>1, <1>5 DEF Client, CreateDraft, StartPrepare, StartApprove
<1> QED
  BY <1>1, <1>2, <1>3, <1>4, <1>5 DEF Next, vars, svars, Tick

\* Only an accepted claim adds a lease.
LEMMA LeasesMove ==
  ASSUME TypeInv, [Next]_vars
  PROVE  leases' = leases \/ \E x \in Callers : StoreClaimed(x)
<1>1. CASE Client
  BY <1>1 DEF Client, CreateDraft, StartPrepare, StartApprove
<1>2. ASSUME NEW a \in Callers, Handle(a)
      PROVE  leases' = leases \/ StoreClaimed(a)
  BY <1>2 DEF Handle, PrepareCheck, ApproveCheck, CompleteCheck, VerifySettlement,
       StorePrepared, StoreApproved, StoreExpired, StoreCompleted, MutateThrows, RetryUpdate
<1>3. ASSUME NEW b \in Buyers, BuyerStep(b)
      PROVE  leases' = leases
  BY <1>3 DEF BuyerStep, RunClaim, StartClaim, ClaimAnswered, Pay, svars, RunComplete,
     StartComplete, CompleteAnswered, Abort
<1> QED
  BY <1>1, <1>2, <1>3 DEF Next, vars, svars, Tick, Land

\* The lease an accepted claim adds, and the answer its caller gets.
LEMMA LeaseAdded ==
  ASSUME TypeInv, NEW x \in Callers, StoreClaimed(x)
  PROVE  /\ leases' = leases \cup {[req |-> call[x].req, claim |-> call[x].claim, ends |-> call[x].expires]}
         /\ call[x].op = "claim" /\ call[x].req \in Requests /\ call'[x].op = "none"
         /\ x \in Buyers => call'[x].req = call[x].req /\ call'[x].claim = call[x].claim
<1>1. call \in [Callers -> Call]
  BY DEF TypeInv, TypeOK, ServiceTypeOK
<1>2. call[x].op = "claim" /\ call[x].req \in Requests
  BY DEF StoreClaimed, Store, TypeInv, CallShape, Shape, Running
<1>3. call'[x] = Answered(x, "ok")
  BY <1>1 DEF StoreClaimed, Store, Answer
<1> QED  BY <1>2, <1>3, AnsweredFields DEF StoreClaimed

\* The id a claim call draws has never been drawn before.
LEMMA ClaimDrawn ==
  ASSUME TypeInv, NEW b \in Buyers, NEW r \in Requests, RunClaim(b, r)
  PROVE  /\ call'[b].op = "claim" /\ call'[b].pc = "cas" /\ call'[b].req = r
         /\ call'[b].claim = claimSeq + 1 /\ claimSeq' = claimSeq + 1
         /\ leases' = leases
BY DEF RunClaim, StartClaim, TypeInv, TypeOK, ServiceTypeOK, Callers

\* Where a claim call that is running after a step comes from.
LEMMA ClaimCalls ==
  ASSUME TypeInv, [Next]_vars, NEW x \in Callers, call'[x].op = "claim"
  PROVE  \/ call[x].op = "claim" /\ call'[x].claim = call[x].claim
         \/ x \in Buyers /\ \E r \in Requests : RunClaim(x, r)
<1>1. CASE x \in Buyers /\ RunComplete(x)
  BY <1>1 DEF RunComplete, StartComplete, Begin, TypeInv, TypeOK, ServiceTypeOK, Callers
<1> QED  BY <1>1, CallMoves DEF CallMove

LEMMA ClaimStep ==
  ASSUME TypeInv, ClaimInv, [Next]_vars
  PROVE  ClaimInv'
<1>1. /\ claimSeq \in Nat /\ claimSeq' \in Nat /\ claimSeq <= claimSeq'
      /\ \A l \in leases : l.claim \in Nat
      /\ \A a \in Callers : call[a].op = "claim" => call[a].claim \in Nat
      /\ Buyers \subseteq Callers
  <2>1. TypeInv'
    BY StepTypes
  <2>2. \A a \in Callers : call[a].op = "claim" => call[a].claim \in Nat
    <3>1. \A a \in Callers : call[a].op = "claim" => call[a].claim <= claimSeq /\ call[a] \in Call
      BY DEF ClaimInv, TypeInv, TypeOK, ServiceTypeOK
    <3>2. \A a \in Callers : call[a].op = "claim" => a \in Buyers /\ call[a].pc # "idle"
      BY DEF TypeInv, CallShape, Shape, Running
    <3> QED  BY <3>1, <3>2 DEF TypeInv, CallShape, Shape, Claims
  <2>3. claimSeq \in Nat /\ claimSeq' \in Nat
    BY <2>1, TimesAssumption DEF TypeInv, TypeOK, ServiceTypeOK
  <2>4. \A l \in leases : l.claim \in Nat
    BY TimesAssumption DEF TypeInv, TypeOK, ServiceTypeOK, Claims
  <2> QED  BY <2>2, <2>3, <2>4, Monotone DEF Callers
<1>2. \A l \in leases : l.claim <= claimSeq'
  BY <1>1 DEF ClaimInv
<1>3. \A l, m \in leases : l.claim = m.claim => l.req = m.req
  BY DEF ClaimInv
\* A claim call that is running after the step: its id is drawn, is not that of
\* a lease that was there before, and differs from that of every other call.
<1>4. ASSUME NEW a \in Callers, call'[a].op = "claim"
      PROVE  call'[a].claim <= claimSeq' /\ \A l \in leases : l.claim # call'[a].claim
  <2>1. CASE call[a].op = "claim" /\ call'[a].claim = call[a].claim
    BY <1>1, <2>1 DEF ClaimInv
  <2>2. ASSUME NEW r \in Requests, a \in Buyers, RunClaim(a, r)
        PROVE  call'[a].claim <= claimSeq' /\ \A l \in leases : l.claim # call'[a].claim
    <3>1. call'[a].claim = claimSeq + 1 /\ claimSeq' = claimSeq + 1
      BY <2>2, ClaimDrawn
    <3> QED  BY <1>1, <3>1 DEF ClaimInv
  <2> QED  BY <1>4, <2>1, <2>2, ClaimCalls
<1>5. ASSUME NEW a \in Callers, NEW b \in Callers, b # a,
             call'[a].op = "claim", call'[b].op = "claim"
      PROVE  call'[b].claim # call'[a].claim
  <2>1. ASSUME NEW x \in Callers, NEW y \in Callers, x # y, NEW r \in Requests, x \in Buyers, RunClaim(x, r),
               call'[y].op = "claim"
        PROVE  call'[y].claim # call'[x].claim
    <3>1. call'[x].claim = claimSeq + 1
      BY <2>1, ClaimDrawn
    <3>2. call'[y] = call[y]
      BY <2>1, BuyerOthers DEF BuyerStep
    <3>3. call[y].claim <= claimSeq /\ call[y].claim \in Nat
      BY <1>1, <2>1, <3>2 DEF ClaimInv
    <3> QED  BY <1>1, <3>1, <3>2, <3>3
  <2>2. CASE /\ call[a].op = "claim" /\ call'[a].claim = call[a].claim
             /\ call[b].op = "claim" /\ call'[b].claim = call[b].claim
    BY <1>5, <2>2 DEF ClaimInv
  <2> QED  BY <1>5, <2>1, <2>2, ClaimCalls
<1>6. CASE leases' = leases
  BY <1>2, <1>3, <1>4, <1>5, <1>6 DEF ClaimInv
<1>7. ASSUME NEW x \in Callers, StoreClaimed(x)
      PROVE  ClaimInv'
  <2>1. /\ leases' = leases \cup {[req |-> call[x].req, claim |-> call[x].claim, ends |-> call[x].expires]}
        /\ call[x].op = "claim" /\ call'[x].op = "none"
    BY <1>7, LeaseAdded
  <2>2. call[x].claim <= claimSeq' /\ \A l \in leases : l.claim # call[x].claim
    BY <1>1, <2>1 DEF ClaimInv
  <2>3. \A l \in leases' : l.claim <= claimSeq'
    BY <1>2, <2>1, <2>2
  <2>4. \A l, m \in leases' : l.claim = m.claim => l.req = m.req
    BY <1>3, <2>1, <2>2
  <2>5. ASSUME NEW a \in Callers, call'[a].op = "claim"
        PROVE  \A l \in leases' : l.claim # call'[a].claim
    <3>1. a # x /\ call'[a] = call[a]
      BY <1>7, <2>1, <2>5, HandleOthers DEF Handle
    <3>2. call[a].claim # call[x].claim
      BY <2>1, <2>5, <3>1 DEF ClaimInv
    <3> QED  BY <1>4, <2>1, <2>5, <3>1, <3>2
  <2> QED  BY <2>3, <2>4, <2>5, <1>4, <1>5 DEF ClaimInv
<1> QED  BY <1>6, <1>7, LeasesMove

\* What a step of the handler does to the invocation a buyer waits for.
LEMMA HandleBuyer ==
  ASSUME TypeInv, NEW a \in Callers, a \in Buyers, Handle(a)
  PROVE  /\ call[a].pc # "idle" /\ call'[a].req = call[a].req
         /\ call'[a].pc = "ok" => StoreClaimed(a) \/ call[a].op = "complete"
<1>1. call \in [Callers -> Call] /\ call[a] \in Call /\ call[a].op \in {"none", "claim", "complete"}
  <2>1. call[a].pc # "idle"
    BY DEF Handle, PrepareCheck, ApproveCheck, CompleteCheck, VerifySettlement,
       StorePrepared, StoreApproved, StoreExpired, StoreClaimed, StoreCompleted, Store, MutateThrows, RetryUpdate
  <2> QED  BY <2>1 DEF TypeInv, TypeOK, ServiceTypeOK, CallShape, Shape
<1>2. ASSUME NEW result, Answer(a, result)
      PROVE  call'[a].req = call[a].req /\ call'[a].pc = result
  BY <1>1, <1>2, AnsweredFields DEF Answer
<1>3. ASSUME NEW op, NEW e, Update(a, op, e)
      PROVE  call'[a].req = call[a].req /\ call'[a].pc = "cas"
  BY <1>1, <1>3 DEF Update, Call
<1>4. CASE PrepareCheck(a) \/ ApproveCheck(a) \/ StorePrepared(a) \/ StoreApproved(a) \/ StoreExpired(a)
  BY <1>1, <1>4 DEF PrepareCheck, ApproveCheck, StorePrepared, StoreApproved, StoreExpired, Store
<1>5. CASE CompleteCheck(a)
  <2>1. CASE call' = [call EXCEPT ![a] = [call[a] EXCEPT !.pc = "verify", !.seen = NoRecord]]
    BY <1>1, <1>5, <2>1 DEF Call, CompleteCheck
  <2> QED  BY <1>2, <1>5, <2>1 DEF CompleteCheck
<1>6. CASE VerifySettlement(a)
  BY <1>2, <1>3, <1>6 DEF VerifySettlement
<1>7. CASE StoreClaimed(a)
  BY <1>2, <1>7 DEF StoreClaimed, Store
<1>8. CASE StoreCompleted(a)
  BY <1>2, <1>8 DEF StoreCompleted, Store
<1>9. CASE MutateThrows(a)
  BY <1>2, <1>9 DEF MutateThrows
<1>10. CASE RetryUpdate(a)
  <2>1. CASE call' = [call EXCEPT ![a] = [call[a] EXCEPT !.seen = record[call[a].req], !.tries = @ + 1]]
    BY <1>1, <1>10, <2>1 DEF Call, RetryUpdate
  <2> QED  BY <1>2, <1>10, <2>1 DEF RetryUpdate
<1> QED  BY <1>4, <1>5, <1>6, <1>7, <1>8, <1>9, <1>10 DEF Handle

\* Whose step it is, seen from one buyer.
LEMMA BuyerMoves ==
  ASSUME TypeInv, [Next]_vars, NEW x \in Buyers
  PROVE  \/ buyer'[x] = buyer[x] /\ call'[x] = call[x]
         \/ buyer'[x] = buyer[x] /\ Handle(x)
         \/ BuyerStep(x)
<1>1. x \in Callers /\ x \notin Agents /\ x \notin Approvers /\ call \in [Callers -> Call]
  BY RolesAssumption DEF Callers, TypeInv, TypeOK, ServiceTypeOK
<1>2. ASSUME NEW a \in Callers, Handle(a), buyer' = buyer
      PROVE  (buyer'[x] = buyer[x] /\ call'[x] = call[x]) \/ (buyer'[x] = buyer[x] /\ Handle(x))
  BY <1>1, <1>2, HandleOthers
<1>3. ASSUME NEW b \in Buyers, BuyerStep(b)
      PROVE  (buyer'[x] = buyer[x] /\ call'[x] = call[x]) \/ BuyerStep(x)
  BY <1>1, <1>3, BuyerOthers
<1>4. CASE Client /\ buyer' = buyer
  BY <1>1, <1>4 DEF Client, CreateDraft, StartPrepare, StartApprove, Begin
<1> QED
  BY <1>2, <1>3, <1>4 DEF Next, vars, svars, Tick, Land

LEMMA ScriptStep ==
  ASSUME TypeInv, ScriptInv, [Next]_vars
  PROVE  ScriptInv'
<1>1. /\ call \in [Callers -> Call] /\ buyer \in [Buyers -> Buyer] /\ Buyers \subseteq Callers
      /\ submitted \in [Requests -> SUBSET Claims]
  BY DEF Callers, TypeInv, TypeOK, ServiceTypeOK
<1>2. \A r, c : Granted(r, c) => Granted(r, c)'
  BY Monotone DEF Granted
<1> DEFINE Goal(b) ==
             /\ buyer'[b].pc = "claiming" =>
                  /\ call'[b].op # "complete"
                  /\ call'[b].pc # "idle" => call'[b].req = buyer'[b].req
                  /\ call'[b].pc = "ok" => Granted(call[b].req, call[b].claim)'
             /\ buyer'[b].pc \in {"confirming", "paid", "completing"} => Granted(buyer[b].req, buyer[b].claim)'
             /\ buyer'[b].pc \in {"paid", "completing"} => buyer'[b].claim \in submitted'[buyer'[b].req]
<1>3. SUFFICES ASSUME NEW b \in Buyers
               PROVE  Goal(b)
  BY DEF ScriptInv
\* Payments stay submitted, leases stay granted.
<1>4. ASSUME buyer'[b] = buyer[b]
      PROVE  /\ buyer'[b].pc \in {"confirming", "paid", "completing"} => Granted(buyer[b].req, buyer[b].claim)'
             /\ buyer'[b].pc \in {"paid", "completing"} => buyer'[b].claim \in submitted'[buyer'[b].req]
  <2>1. buyer[b].pc # "idle" => buyer[b].req \in Requests
    BY DEF TypeInv, BuyerShape
  <2>2. buyer[b].pc \in {"confirming", "paid", "completing"} => Granted(buyer[b].req, buyer[b].claim)
    BY DEF ScriptInv
  <2> QED  BY <1>2, <1>4, <2>1, <2>2, Monotone DEF ScriptInv, Granted
<1>5. CASE buyer'[b] = buyer[b] /\ call'[b] = call[b]
  <2>1. buyer[b].pc = "claiming" /\ call[b].pc = "ok" => Granted(call[b].req, call[b].claim)
    BY DEF ScriptInv
  <2> QED  BY <1>2, <1>4, <1>5, <2>1 DEF ScriptInv, Granted
<1>6. CASE buyer'[b] = buyer[b] /\ Handle(b)
  <2>1. /\ call[b].pc # "idle" /\ call'[b].req = call[b].req
        /\ call'[b].pc = "ok" => StoreClaimed(b) \/ call[b].op = "complete"
    BY <1>1, <1>6, HandleBuyer
  <2>2. ASSUME buyer[b].pc = "claiming"
        PROVE  /\ call[b].op # "complete" /\ call[b].req = buyer[b].req
               /\ call'[b].op # "complete"
    <3>1. call[b].op # "complete" /\ call[b].req = buyer[b].req
      BY <2>1, <2>2 DEF ScriptInv
    <3>2. CallMove(b)
      BY <1>1, <1>6, HandleMoves
    <3> QED  BY <2>2, <3>1, <3>2 DEF CallMove, RunClaim, RunComplete, IdleBuyer
  <2>3. ASSUME StoreClaimed(b)
        PROVE  Granted(call[b].req, call[b].claim)'
    <3> DEFINE lease == [req |-> call[b].req, claim |-> call[b].claim, ends |-> call[b].expires]
    <3>1. /\ lease \in leases'
          /\ call'[b].req = call[b].req /\ call'[b].claim = call[b].claim
      BY <1>1, <2>3, LeaseAdded
    <3>2. lease.req = call[b].req /\ lease.claim = call[b].claim
      OBVIOUS
    <3> HIDE DEF lease
    <3> QED  BY <3>1, <3>2 DEF Granted
  <2>4. ASSUME buyer'[b].pc = "claiming"
        PROVE  /\ call'[b].op # "complete"
               /\ call'[b].pc # "idle" => call'[b].req = buyer'[b].req
               /\ call'[b].pc = "ok" => Granted(call[b].req, call[b].claim)'
    BY <1>6, <2>1, <2>2, <2>3, <2>4
  <2> QED  BY <1>4, <1>6, <2>4
<1>7. ASSUME NEW r \in Requests, RunClaim(b, r)
      PROVE  Goal(b)
  <2>1. buyer'[b].pc = "claiming" /\ buyer'[b].req = r
    BY <1>1, <1>7 DEF RunClaim
  <2> QED  BY <1>7, <2>1, ClaimDrawn
<1>8. CASE ClaimAnswered(b)
  <2>1. call'[b].pc = "idle" /\ call'[b].op = "none" /\ UNCHANGED <<leases, submitted>>
    BY <1>1, <1>8 DEF ClaimAnswered, IdleCall
  <2>2. CASE buyer' = [buyer EXCEPT ![b] = IdleBuyer]
    BY <1>1, <2>2 DEF IdleBuyer
  <2>3. CASE call[b].pc = "ok" /\ buyer' = [buyer EXCEPT ![b].pc = "confirming", ![b].claim = call[b].claim]
    <3>1. /\ buyer'[b].pc = "confirming" /\ buyer'[b].req = buyer[b].req
          /\ buyer'[b].claim = call[b].claim
      BY <1>1, <2>3 DEF Buyer
    <3>2. Granted(buyer[b].req, call[b].claim)
      BY <1>8, <2>3 DEF ClaimAnswered, ScriptInv
    <3> QED  BY <2>1, <3>1, <3>2 DEF Granted
  <2> QED  BY <1>8, <2>2, <2>3 DEF ClaimAnswered
<1>9. CASE Pay(b)
  <2>1. /\ buyer'[b].pc = "paid" /\ buyer'[b].req = buyer[b].req
        /\ buyer'[b].claim = buyer[b].claim /\ leases' = leases
    BY <1>1, <1>9 DEF Pay, svars, Buyer
  <2>2. buyer[b].req \in Requests /\ Granted(buyer[b].req, buyer[b].claim)
    BY <1>9 DEF Pay, ScriptInv, TypeInv, BuyerShape
  <2>3. buyer[b].claim \in submitted'[buyer[b].req]
    BY <1>1, <1>9, <2>2 DEF Pay
  <2> QED  BY <2>1, <2>2, <2>3 DEF Granted
<1>10. CASE RunComplete(b)
  <2>1. /\ buyer'[b].pc = "completing" /\ buyer'[b].req = buyer[b].req /\ buyer[b].pc = "paid"
        /\ buyer'[b].claim = buyer[b].claim /\ leases' = leases /\ submitted' = submitted
    BY <1>1, <1>10 DEF RunComplete, StartComplete, Buyer
  <2> QED  BY <2>1 DEF Granted, ScriptInv
<1>11. CASE CompleteAnswered(b) \/ Abort(b)
  <2>1. leases' = leases /\ submitted' = submitted
    BY <1>11 DEF CompleteAnswered, Abort
  <2>2. CASE buyer' = [buyer EXCEPT ![b] = IdleBuyer]
    BY <1>1, <2>2 DEF IdleBuyer
  <2>3. CASE buyer[b].pc = "completing" /\ buyer' = [buyer EXCEPT ![b].pc = "paid", ![b].attempts = @ + 1]
    <3>1. /\ buyer'[b].pc = "paid" /\ buyer'[b].req = buyer[b].req
          /\ buyer'[b].claim = buyer[b].claim
      BY <1>1, <2>3 DEF Buyer
    <3> QED  BY <2>1, <2>3, <3>1 DEF Granted, ScriptInv
  <2> QED  BY <1>11, <2>2, <2>3 DEF CompleteAnswered, Abort
<1> QED  BY <1>5, <1>6, <1>7, <1>8, <1>9, <1>10, <1>11, BuyerMoves DEF BuyerStep

\* A claim id never pays for two requests, so a transfer that is on the ledger
\* under a claim submitted for a request is on the ledger for that request.
LEMMA OnLedgerOnce ==
  ASSUME TypeInv, ClaimInv, PaidInv, NEW r \in Requests, NEW c \in submitted[r], OnLedger(c)
  PROVE  c \in ledger[r]
<1>1. PICK q \in Requests : c \in ledger[q]
  BY DEF OnLedger
<1>2. Granted(q, c) /\ Granted(r, c)
  BY <1>1 DEF PaidInv
<1>3. q = r
  BY <1>2 DEF Granted, ClaimInv
<1> QED  BY <1>1, <1>3

LEMMA PaymentStep ==
  ASSUME TypeInv, ScriptInv, PaidInv, [Next]_vars, NEW r \in Requests
  PROVE  /\ \A c \in submitted'[r] : Granted(r, c)'
         /\ ledger'[r] \subseteq submitted'[r]
<1>1. /\ buyer \in [Buyers -> Buyer]
      /\ submitted \in [Requests -> SUBSET Claims] /\ ledger \in [Requests -> SUBSET Claims]
  BY DEF TypeInv, TypeOK, ServiceTypeOK
<1>2. \A c : Granted(r, c) => Granted(r, c)'
  BY Monotone DEF Granted
<1>3. CASE UNCHANGED <<submitted, ledger>>
  BY <1>2, <1>3 DEF PaidInv, Granted
<1>4. ASSUME NEW q \in Requests, Land(q)
      PROVE  /\ \A c \in submitted'[r] : Granted(r, c)'
             /\ ledger'[r] \subseteq submitted'[r]
  BY <1>1, <1>2, <1>4 DEF Land, PaidInv, Granted
<1>5. ASSUME NEW b \in Buyers, Pay(b)
      PROVE  /\ \A c \in submitted'[r] : Granted(r, c)'
             /\ ledger'[r] \subseteq submitted'[r]
  <2>1. Granted(buyer[b].req, buyer[b].claim)
    BY <1>5 DEF ScriptInv, Pay
  <2>2. \A c \in submitted'[r] : c \in submitted[r] \/ (r = buyer[b].req /\ c = buyer[b].claim)
    BY <1>1, <1>5 DEF Pay
  <2>3. ledger'[r] \subseteq submitted'[r]
    BY <1>1, <1>5 DEF Pay, svars, PaidInv
  <2>4. leases' = leases
    BY <1>5 DEF Pay, svars
  <2> QED  BY <2>1, <2>2, <2>3, <2>4 DEF PaidInv, Granted
<1>6. ASSUME NEW a \in Callers, Handle(a), UNCHANGED <<buyer, submitted>>
      PROVE  UNCHANGED <<submitted, ledger>>
  BY <1>6 DEF Handle, PrepareCheck, ApproveCheck, CompleteCheck, VerifySettlement,
       StorePrepared, StoreApproved, StoreExpired, StoreClaimed, StoreCompleted,
       MutateThrows, RetryUpdate
<1>7. ASSUME NEW b \in Buyers, BuyerStep(b)
      PROVE  UNCHANGED <<submitted, ledger>> \/ Pay(b)
  BY <1>7 DEF BuyerStep, RunClaim, StartClaim, ClaimAnswered, RunComplete,
     StartComplete, CompleteAnswered, Abort
<1>8. CASE Client /\ UNCHANGED <<buyer, submitted>>
  BY <1>3, <1>8 DEF Client, CreateDraft, StartPrepare, StartApprove
<1> QED
  BY <1>3, <1>4, <1>5, <1>6, <1>7, <1>8 DEF Next, vars, svars, Tick

\* A completion is under way only for a payment of the same request.
LEMMA CompletionStep ==
  ASSUME TypeInv, ClaimInv, ScriptInv, PaidInv, [Next]_vars,
         NEW a \in Callers, call'[a].op = "complete"
  PROVE  /\ call'[a].claim \in submitted'[call'[a].req]
         /\ call'[a].pc = "cas" => call'[a].claim \in ledger'[call'[a].req]
<1>1. call[a].op = "complete" =>
        /\ call[a].req \in Requests /\ call[a].claim \in submitted[call[a].req]
        /\ call[a].pc = "cas" => call[a].claim \in ledger[call[a].req]
  BY DEF PaidInv, TypeInv, CallShape, Shape
<1>2. CASE call'[a] = call[a]
  BY <1>1, <1>2, Monotone
<1>3. CASE /\ call[a].op = "complete"
           /\ call'[a].claim = call[a].claim /\ call'[a].req = call[a].req
           /\ call'[a].pc = "cas" => call[a].pc = "cas" \/ OnLedger(call[a].claim)
  <2>1. OnLedger(call[a].claim) => call[a].claim \in ledger[call[a].req]
    BY <1>1, <1>3, OnLedgerOnce
  <2> QED  BY <1>1, <1>3, <2>1, Monotone
<1>4. ASSUME NEW r \in Requests, a \in Buyers, RunClaim(a, r)
      PROVE  FALSE
  BY <1>4, ClaimDrawn
<1>5. CASE a \in Buyers /\ RunComplete(a)
  <2>1. /\ call'[a].pc = "check" /\ call'[a].req = buyer[a].req
        /\ call'[a].claim = buyer[a].claim /\ submitted' = submitted
    BY <1>5 DEF RunComplete, StartComplete, Begin, TypeInv, TypeOK, ServiceTypeOK
  <2> QED  BY <1>5, <2>1 DEF ScriptInv, RunComplete
<1> QED  BY <1>2, <1>3, <1>4, <1>5, CallMoves DEF CallMove

\* A settlement transaction enters a record only from a completion whose
\* payment is on the ledger.
LEMMA SettlementStep ==
  ASSUME TypeInv, SnapshotInv, PaidInv, [Next]_vars, NEW r \in Requests,
         record'[r].transactionHash # None
  PROVE  record'[r].transactionHash \in ledger'[r]
<1>1. /\ record \in [Requests -> Record] /\ \A a \in Callers : call[a].seen \in Record
      /\ ledger[r] \subseteq ledger'[r]
      /\ record[r].transactionHash # None => record[r].transactionHash \in ledger[r]
  BY Monotone DEF TypeInv, TypeOK, ServiceTypeOK, Call, PaidInv
<1>2. CASE record'[r].transactionHash = record[r].transactionHash
  BY <1>1, <1>2
<1>3. ASSUME NEW k \in Keys, CreateDraft(k)
      PROVE  record'[r].transactionHash = record[r].transactionHash \/ record'[r].transactionHash = None
  BY <1>1, <1>3 DEF CreateDraft, Draft, NoRecord
<1>4. ASSUME NEW a \in Callers, NEW op, NEW rec, Wrote(a, op, rec),
             rec.transactionHash = call[a].seen.transactionHash
      PROVE  record'[r].transactionHash = record[r].transactionHash
  BY <1>1, <1>4 DEF Wrote
<1>5. ASSUME NEW a \in Callers, StorePrepared(a) \/ StoreApproved(a) \/ StoreExpired(a) \/ StoreClaimed(a)
      PROVE  record'[r].transactionHash = record[r].transactionHash
  BY <1>1, <1>4, <1>5, Stored, MutatedFields
<1>6. ASSUME NEW a \in Callers, StoreCompleted(a)
      PROVE  record'[r].transactionHash \in ledger'[r]
  <2> DEFINE new == Completed(call[a].seen, call[a].claim)
  <2>1. Wrote(a, "complete", new)
    BY <1>6, Stored
  <2>2. new.transactionHash = call[a].claim
    BY <1>1, MutatedFields
  <2>3. call[a].claim \in ledger[call[a].req]
    BY <1>6 DEF StoreCompleted, Store, PaidInv
  <2>4. record'[r] = IF r = call[a].req THEN new ELSE record[r]
    BY <1>1, <2>1 DEF Wrote
  <2> HIDE DEF new
  <2> QED  BY <1>1, <2>2, <2>3, <2>4
<1> QED  BY <1>2, <1>3, <1>5, <1>6, StepKinds

LEMMA PaidStep ==
  ASSUME TypeInv, SnapshotInv, ClaimInv, ScriptInv, PaidInv, [Next]_vars
  PROVE  PaidInv'
BY PaymentStep, CompletionStep, SettlementStep DEF PaidInv, Granted

-----------------------------------------------------------------------------
(* The inductive invariant and what it implies *)

LEMMA InitInv == Init => Inv
<1>1. SUFFICES ASSUME Init PROVE Inv
  OBVIOUS
<1>2. TypeInv
  BY <1>1, InitTypes
<1>3. /\ NoRecord.status = "absent" /\ NoRecord.transactionHash = None
      /\ IdleCall.op = "none" /\ IdleCall.pc = "idle" /\ IdleBuyer.pc = "idle"
  BY DEF NoRecord, IdleCall, IdleBuyer
<1>4. SnapshotInv /\ LifeInv /\ LeaseInv
  BY <1>1, <1>3 DEF Init, ServiceInit, SnapshotInv, LifeInv, LifeOf, LeaseInv
<1>5. ClaimInv /\ ScriptInv /\ PaidInv
  BY <1>1, <1>3 DEF Init, ServiceInit, ClaimInv, ScriptInv, PaidInv
<1> QED  BY <1>2, <1>4, <1>5 DEF Inv

\* A claim, a lease, a payment and an approval never lose track of one
\* another: the conjunction the properties below are read off from.
THEOREM InvariantHolds == Spec => []Inv
<1>1. Init => Inv
  BY InitInv
<1>2. Inv /\ [Next]_vars => Inv'
  BY StepTypes, SnapshotStep, LifeStep, LeaseStep, ClaimStep, ScriptStep, PaidStep DEF Inv
<1> QED  BY <1>1, <1>2, PTL DEF Spec

\* One approval per request, and none of its payments is signed before it:
\* every payment was made under a granted lease, and a lease was only granted
\* on a record whose single approval had been written.
THEOREM OneApproval == Spec => []ApprovedOnceBeforePayment
<1>1. Inv => ApprovedOnceBeforePayment
  <2>1. SUFFICES ASSUME Inv, NEW r \in Requests
                 PROVE  approvals[r] <= 1 /\ (submitted[r] # {} => approvals[r] = 1)
    BY DEF ApprovedOnceBeforePayment
  <2>2. approvals[r] <= 1
    BY <2>1 DEF Inv, LifeInv, LifeOf
  <2>3. ASSUME NEW c \in submitted[r]
        PROVE  approvals[r] = 1
    <3>1. PICK l \in leases : l.req = r
      BY <2>1, <2>3 DEF Inv, PaidInv, Granted
    <3> QED  BY <2>1, <3>1 DEF Inv, LeaseInv, LeaseOf
  <2> QED  BY <2>2, <2>3
<1> QED  BY <1>1, InvariantHolds, PTL

\* A claim never displaces a lease that still runs.
THEOREM LeaseExclusion == Spec => []LiveLeaseHolds
<1>1. Inv => LiveLeaseHolds
  BY DEF Inv, LeaseInv, LeaseOf, LiveLeaseHolds
<1> QED  BY <1>1, InvariantHolds, PTL

\* A recorded settlement is a transfer on the ledger, paid for by a granted
\* claim of the same request.
THEOREM SettlementBacked == Spec => []SettledIsPaid
<1>1. Inv => SettledIsPaid
  <2>1. SUFFICES ASSUME Inv, NEW r \in Requests, record[r].transactionHash # None
                 PROVE  /\ record[r].transactionHash \in ledger[r]
                        /\ \E l \in leases : l.req = r /\ l.claim = record[r].transactionHash
    BY DEF SettledIsPaid
  <2>2. record[r].transactionHash \in ledger[r]
    BY <2>1 DEF Inv, PaidInv
  <2> QED  BY <2>1, <2>2 DEF Inv, PaidInv, Granted
<1> QED  BY <1>1, InvariantHolds, PTL

\* No step replaces a recorded settlement transaction: a completion is only
\* stored over a settling record, which has none, and the other writes keep it.
THEOREM ReceiptsFrozen == Spec => ReceiptFrozen
<1>1. ASSUME Inv, [Next]_vars, NEW r \in Requests, record[r].transactionHash # None
      PROVE  record'[r].transactionHash = record[r].transactionHash
  <2>1. /\ TypeInv /\ SnapshotInv
        /\ record \in [Requests -> Record] /\ \A a \in Callers : call[a].seen \in Record
        /\ record[r].status \in {"settled", "expired"}
    BY <1>1 DEF Inv, TypeInv, TypeOK, ServiceTypeOK, Call, LifeInv, LifeOf
  <2>2. CASE UNCHANGED record
    BY <2>2
  <2>3. ASSUME NEW k \in Keys, CreateDraft(k)
        PROVE  record'[r] = record[r]
    BY <1>1, <2>1, <2>3 DEF CreateDraft, NoRecord
  <2>4. ASSUME NEW a \in Callers, NEW op, NEW rec, Wrote(a, op, rec),
               rec.transactionHash = call[a].seen.transactionHash
        PROVE  record'[r].transactionHash = record[r].transactionHash
    BY <2>1, <2>4 DEF Wrote
  <2>5. ASSUME NEW a \in Callers, StorePrepared(a) \/ StoreApproved(a) \/ StoreExpired(a) \/ StoreClaimed(a)
        PROVE  record'[r].transactionHash = record[r].transactionHash
    BY <2>1, <2>4, <2>5, Stored, MutatedFields
  <2>6. ASSUME NEW a \in Callers, StoreCompleted(a)
        PROVE  record'[r] = record[r]
    <3>1. /\ Wrote(a, "complete", Completed(call[a].seen, call[a].claim))
          /\ call[a].seen.status = "settling"
      BY <2>1, <2>6, Stored DEF MayComplete
    <3>2. call[a].req # r
      BY <2>1, <3>1 DEF Wrote
    <3> QED  BY <2>1, <3>1, <3>2 DEF Wrote
  <2> QED  BY <1>1, <2>1, <2>2, <2>3, <2>5, <2>6, StepKinds
<1>2. Inv /\ [Next]_vars
        => [\A r \in Requests : record[r].transactionHash # None
              => record'[r].transactionHash = record[r].transactionHash]_vars
  BY <1>1
<1> QED  BY <1>2, InvariantHolds, PTL DEF Spec, ReceiptFrozen

-----------------------------------------------------------------------------
(* The refinement.  The pilot's handlers implement the atomic life of a    *)
(* request stated in PilotLifecycle; OriginInv adds to Inv where the       *)
(* claims and the approve calls in flight come from.                       *)


\* What a step does to the variables the refinement mapping reads.
LEMMA MappedSteps ==
  ASSUME [Next]_vars
  PROVE  \/ UNCHANGED <<clock, record, ledger>>
         \/ Tick /\ UNCHANGED <<record, ledger>>
         \/ \E r \in Requests : Land(r) /\ UNCHANGED <<clock, record>>
         \/ \E k \in Keys : CreateDraft(k) /\ UNCHANGED <<clock, ledger>>
         \/ \E a \in Callers : \/ StorePrepared(a) \/ StoreApproved(a) \/ StoreExpired(a)
                               \/ StoreClaimed(a) \/ StoreCompleted(a)
BY DEF Next, vars, svars, Client, Handle, BuyerStep, StartPrepare, StartApprove, CreateDraft, PrepareCheck,
       ApproveCheck, CompleteCheck, VerifySettlement, MutateThrows, RetryUpdate, RunClaim,
       StartClaim, ClaimAnswered, Pay, RunComplete, StartComplete, CompleteAnswered, Abort,
       Land, Tick

\* What the writes do to the claim a record names and to its lease.
LEMMA ClaimFields ==
  ASSUME NEW rec \in Record
  PROVE  /\ \A e : Prepared(rec, e).claimIdHash = rec.claimIdHash
         /\ \A e : Prepared(rec, e).claimExpiresAt = rec.claimExpiresAt
         /\ Approved(rec).claimIdHash = rec.claimIdHash
         /\ Approved(rec).claimExpiresAt = rec.claimExpiresAt
         /\ Expired(rec).claimIdHash = rec.claimIdHash
         /\ Expired(rec).claimExpiresAt = rec.claimExpiresAt
         /\ \A c : Completed(rec, c).claimIdHash = None
         /\ \A c : Completed(rec, c).claimExpiresAt = rec.claimExpiresAt
BY DEF Record, Prepared, Approved, Expired, Completed

\* Once offered, a request is never again absent or a mere draft.
LEMMA OfferedStays ==
  ASSUME TypeInv, SnapshotInv, [Next]_vars, NEW r \in Requests, Offered(record[r])
  PROVE  Offered(record'[r])
<1>1. /\ record \in [Requests -> Record] /\ \A a \in Callers : call[a].seen \in Record
  BY DEF TypeInv, TypeOK, ServiceTypeOK, Call
<1>2. ASSUME NEW k \in Keys, CreateDraft(k)
      PROVE  record'[r] = record[r]
  BY <1>1, <1>2 DEF CreateDraft, NoRecord, Offered
<1>3. ASSUME NEW a \in Callers, NEW op, NEW rec, Wrote(a, op, rec), Offered(rec)
      PROVE  Offered(record'[r])
  BY <1>1, <1>3 DEF Wrote
<1>4. ASSUME NEW a \in Callers, StorePrepared(a)
      PROVE  Offered(record'[r])
  <2>1. Offered(Prepared(call[a].seen, call[a].expires))
    BY <1>1, MutatedFields DEF Offered
  <2> QED  BY <1>3, <1>4, <2>1, Stored
<1>5. ASSUME NEW a \in Callers, StoreApproved(a)
      PROVE  Offered(record'[r])
  <2>1. Offered(Approved(call[a].seen))
    BY <1>1, MutatedFields DEF Offered
  <2> QED  BY <1>3, <1>5, <2>1, Stored
<1>6. ASSUME NEW a \in Callers, StoreExpired(a)
      PROVE  Offered(record'[r])
  <2>1. Offered(Expired(call[a].seen))
    BY <1>1, MutatedFields DEF Offered
  <2> QED  BY <1>3, <1>6, <2>1, Stored
<1>7. ASSUME NEW a \in Callers, StoreClaimed(a)
      PROVE  Offered(record'[r])
  <2>1. Offered(Claimed(call[a].seen, call[a].claim, call[a].expires))
    BY <1>1, MutatedFields DEF Offered
  <2> QED  BY <1>3, <1>7, <2>1, Stored
<1>8. ASSUME NEW a \in Callers, StoreCompleted(a)
      PROVE  Offered(record'[r])
  <2>1. Offered(Completed(call[a].seen, call[a].claim))
    BY <1>1, MutatedFields DEF Offered
  <2> QED  BY <1>3, <1>8, <2>1, Stored
<1> QED  BY <1>2, <1>4, <1>5, <1>6, <1>7, <1>8, StepKinds

\* The claim a record names was granted.
LEMMA NamedClaimStep ==
  ASSUME TypeInv, SnapshotInv, OriginInv, [Next]_vars, NEW r \in Requests, record'[r].claimIdHash # None
  PROVE  Granted(r, record[r].claimIdHash)'
<1>1. /\ record \in [Requests -> Record] /\ \A a \in Callers : call[a].seen \in Record
      /\ leases \subseteq leases'
  BY Monotone DEF TypeInv, TypeOK, ServiceTypeOK, Call
<1>2. CASE record'[r].claimIdHash = record[r].claimIdHash
  BY <1>1, <1>2 DEF OriginInv, Granted
<1>3. ASSUME NEW k \in Keys, CreateDraft(k)
      PROVE  record'[r].claimIdHash = record[r].claimIdHash \/ record'[r].claimIdHash = None
  BY <1>1, <1>3 DEF CreateDraft, Draft, NoRecord
<1>4. ASSUME NEW a \in Callers, NEW op, NEW rec, Wrote(a, op, rec),
             rec.claimIdHash = call[a].seen.claimIdHash \/ rec.claimIdHash = None
      PROVE  record'[r].claimIdHash = record[r].claimIdHash \/ record'[r].claimIdHash = None
  BY <1>1, <1>4 DEF Wrote
<1>5. ASSUME NEW a \in Callers, StorePrepared(a) \/ StoreApproved(a) \/ StoreExpired(a) \/ StoreCompleted(a)
      PROVE  record'[r].claimIdHash = record[r].claimIdHash \/ record'[r].claimIdHash = None
  BY <1>1, <1>4, <1>5, Stored, ClaimFields
<1>6. ASSUME NEW a \in Callers, StoreClaimed(a)
      PROVE  Granted(r, record[r].claimIdHash)'
  <2> DEFINE new == Claimed(call[a].seen, call[a].claim, call[a].expires)
             lease == [req |-> call[a].req, claim |-> call[a].claim, ends |-> call[a].expires]
  <2>1. Wrote(a, "claim", new)
    BY <1>6, Stored
  <2>2. lease \in leases' /\ lease.req = call[a].req /\ lease.claim = call[a].claim
    BY <1>6, LeaseAdded
  <2>3. new.claimIdHash = call[a].claim
    BY <1>1, MutatedFields
  <2> HIDE DEF new, lease
  <2>4. CASE r = call[a].req
    BY <1>1, <2>1, <2>2, <2>3, <2>4 DEF Wrote, Granted
  <2>5. CASE r # call[a].req
    BY <1>1, <1>2, <2>1, <2>5 DEF Wrote
  <2> QED  BY <2>4, <2>5
<1> QED  BY <1>2, <1>3, <1>5, <1>6, StepKinds

\* Where an invocation that is under way after a step comes from.
CallOrigin(x) ==
  \/ call'[x] = call[x]
  \/ call'[x].op \in {"none", "prepare", "complete"}
  \/ call'[x].op = "approve" /\ call'[x].pc # "check"
  \/ call'[x].op = "approve" /\ call'[x].seen = record[call'[x].req] /\ record' = record
  \/ /\ call'[x].op = "expire" /\ call[x].op = "approve" /\ call[x].pc = "check"
     /\ call[x].seen.status = "prepared" /\ call'[x].req = call[x].req
  \/ /\ call'[x].op = call[x].op /\ call[x].pc = "cas" /\ call'[x].pc = "cas"
     /\ call'[x].req = call[x].req /\ call'[x].expires = call[x].expires
  \/ call'[x].op = "claim" /\ call'[x].expires = clock + ClaimTTL /\ clock' = clock

LEMMA HandleOrigin ==
  ASSUME TypeInv, NEW a \in Callers, Handle(a)
  PROVE  CallOrigin(a)
<1>1. call \in [Callers -> Call] /\ call[a] \in Call
  BY DEF TypeInv, TypeOK, ServiceTypeOK
<1>2. ASSUME NEW result, Answer(a, result)
      PROVE  CallOrigin(a)
  <2>1. call'[a].op = "none"
    BY <1>1, <1>2, AnsweredFields DEF Answer
  <2> QED  BY <2>1 DEF CallOrigin
<1>3. ASSUME NEW op, NEW e, Update(a, op, e)
      PROVE  call'[a].op = op /\ call'[a].pc = "cas" /\ call'[a].req = call[a].req
  BY <1>1, <1>3 DEF Update, Call
<1>4. CASE PrepareCheck(a)
  BY <1>2, <1>3, <1>4 DEF PrepareCheck, CallOrigin
<1>5. CASE ApproveCheck(a)
  BY <1>2, <1>3, <1>5 DEF ApproveCheck, CallOrigin
<1>6. CASE CompleteCheck(a)
  <2>1. CASE call' = [call EXCEPT ![a] = [call[a] EXCEPT !.pc = "verify", !.seen = NoRecord]]
    BY <1>1, <1>6, <2>1 DEF Call, CompleteCheck, CallOrigin
  <2> QED  BY <1>2, <1>6, <2>1 DEF CompleteCheck
<1>7. CASE VerifySettlement(a)
  BY <1>2, <1>3, <1>7 DEF VerifySettlement, CallOrigin
<1>8. CASE MutateThrows(a)
  BY <1>2, <1>8 DEF MutateThrows
<1>9. CASE RetryUpdate(a)
  <2>1. CASE call' = [call EXCEPT ![a] = [call[a] EXCEPT !.seen = record[call[a].req], !.tries = @ + 1]]
    BY <1>1, <1>9, <2>1 DEF Call, RetryUpdate, CallOrigin
  <2> QED  BY <1>2, <1>9, <2>1 DEF RetryUpdate
<1>10. CASE StorePrepared(a) \/ StoreApproved(a) \/ StoreExpired(a) \/ StoreClaimed(a) \/ StoreCompleted(a)
  BY <1>2, <1>10 DEF StorePrepared, StoreApproved, StoreExpired, StoreClaimed, StoreCompleted, Store
<1> QED  BY <1>4, <1>5, <1>6, <1>7, <1>8, <1>9, <1>10 DEF Handle

LEMMA CallOrigins ==
  ASSUME TypeInv, [Next]_vars, NEW x \in Callers
  PROVE  CallOrigin(x)
<1>1. call \in [Callers -> Call] /\ Buyers \subseteq Callers /\ Agents \subseteq Callers /\ Approvers \subseteq Callers
  BY DEF TypeInv, TypeOK, ServiceTypeOK, Callers
<1>2. ASSUME NEW a \in Callers, Handle(a)
      PROVE  CallOrigin(x)
  BY <1>2, HandleOrigin, HandleOthers DEF CallOrigin
<1>3. ASSUME NEW b \in Buyers, BuyerStep(b)
      PROVE  CallOrigin(x)
  <2>1. CASE x # b
    BY <1>3, <2>1, BuyerOthers DEF CallOrigin
  <2>2. CASE x = b /\ (ClaimAnswered(b) \/ CompleteAnswered(b) \/ Abort(b))
    BY <1>1, <2>2 DEF ClaimAnswered, CompleteAnswered, Abort, IdleCall, CallOrigin
  <2>3. CASE x = b /\ Pay(b)
    BY <2>3 DEF Pay, svars, CallOrigin
  <2>4. CASE x = b /\ RunComplete(b)
    BY <1>1, <2>4 DEF RunComplete, StartComplete, Begin, CallOrigin
  <2>5. ASSUME NEW r \in Requests, RunClaim(b, r), x = b
        PROVE  CallOrigin(x)
    BY <1>1, <2>5 DEF RunClaim, StartClaim, CallOrigin
  <2> QED  BY <1>3, <2>1, <2>2, <2>3, <2>4, <2>5 DEF BuyerStep
<1>4. CASE Client
  BY <1>1, <1>4 DEF Client, CreateDraft, StartPrepare, StartApprove, Begin, CallOrigin
<1> QED
  BY <1>2, <1>3, <1>4 DEF Next, vars, svars, Land, Tick, CallOrigin

LEMMA OriginStep ==
  ASSUME TypeInv, SnapshotInv, OriginInv, [Next]_vars
  PROVE  OriginInv'
<1>1. TypeInv'
  BY StepTypes
<1>2. /\ clock \in Nat /\ ClaimTTL \in Nat /\ (clock' = clock \/ clock' = clock + 1)
      /\ \A x \in Callers : call'[x].pc \in Running => call'[x].req \in Requests
      /\ \A x \in Callers : (call'[x].op = "claim" /\ call'[x].pc = "cas") => call'[x].expires \in Nat
      /\ \A x \in Callers : call[x].pc \in Running => call[x].req \in Requests
  <2>1. clock' = clock \/ clock' = clock + 1
    <3>1. \A a \in Callers : Handle(a) => clock' = clock
      BY DEF Handle, PrepareCheck, ApproveCheck, CompleteCheck, VerifySettlement, StorePrepared,
         StoreApproved, StoreExpired, StoreClaimed, StoreCompleted, MutateThrows, RetryUpdate
    <3>2. \A b \in Buyers : BuyerStep(b) => clock' = clock
      BY DEF BuyerStep, RunClaim, StartClaim, ClaimAnswered, Pay, svars, RunComplete, StartComplete,
         CompleteAnswered, Abort
    <3>3. Client => clock' = clock
      BY DEF Client, CreateDraft, StartPrepare, StartApprove
    <3> QED  BY <3>1, <3>2, <3>3 DEF Next, vars, svars, Land, Tick
  <2> QED
    BY <1>1, <2>1, TimesAssumption DEF TypeInv, TypeOK, ServiceTypeOK, CallShape, Shape, Running
<1>3. ASSUME NEW x \in Callers, call'[x].op = "claim", call'[x].pc = "cas"
      PROVE  call'[x].expires <= clock' + ClaimTTL
  <2>1. call[x].op = "claim" /\ call[x].pc = "cas" => call[x].expires <= clock + ClaimTTL
    BY DEF OriginInv
  <2> QED  BY <1>2, <1>3, <2>1, CallOrigins DEF CallOrigin
<1>4. ASSUME NEW x \in Callers, call'[x].op = "approve", call'[x].pc = "check", call'[x].seen.status = "prepared"
      PROVE  Offered(record'[call'[x].req])
  <2>1. CASE call'[x] = call[x]
    <3>1. call[x].req \in Requests /\ Offered(record[call[x].req])
      BY <1>2, <1>4, <2>1 DEF OriginInv, Current, Running
    <3> QED  BY <2>1, <3>1, OfferedStays
  <2>2. CASE call'[x].seen = record[call'[x].req] /\ record' = record
    BY <1>4, <2>2 DEF Offered
  <2> QED  BY <1>4, <2>1, <2>2, CallOrigins DEF CallOrigin
<1>5. ASSUME NEW x \in Callers, call'[x].op = "expire", call'[x].pc = "cas"
      PROVE  Offered(record'[call'[x].req])
  <2>1. CASE call'[x] = call[x] \/ (call[x].op = "expire" /\ call[x].pc = "cas" /\ call'[x].req = call[x].req)
    <3>1. call[x].req \in Requests /\ Offered(record[call[x].req]) /\ call'[x].req = call[x].req
      BY <1>2, <1>5, <2>1 DEF OriginInv, Current, Running
    <3> QED  BY <3>1, OfferedStays
  <2>2. CASE /\ call[x].op = "approve" /\ call[x].pc = "check"
             /\ call[x].seen.status = "prepared" /\ call'[x].req = call[x].req
    <3>1. call[x].req \in Requests /\ Offered(record[call[x].req])
      BY <1>2, <2>2 DEF OriginInv, Current, Running
    <3> QED  BY <2>2, <3>1, OfferedStays
  <2> QED  BY <1>5, <2>1, <2>2, CallOrigins DEF CallOrigin
<1> QED  BY <1>3, <1>4, <1>5, NamedClaimStep DEF OriginInv, Current

LEMMA InitOrigin == Init => OriginInv
BY DEF Init, ServiceInit, OriginInv, NoRecord, IdleCall

\* The pilot's invariant together with the origin of what is in flight.
THEOREM OriginsHold == Spec => [](Inv /\ OriginInv)
<1>1. Inv /\ OriginInv /\ [Next]_vars => OriginInv'
  BY OriginStep DEF Inv
<1> QED  BY <1>1, InitOrigin, InvariantHolds, PTL DEF Spec

-----------------------------------------------------------------------------
(* The refinement mapping, one function for each abstract variable that is *)
(* read off the records.                                                   *)

Stages   == [r \in Requests |-> Stage(record[r].status)]
Holders  == [r \in Requests |-> HolderOf(record[r])]
Ends     == [r \in Requests |-> record[r].claimExpiresAt]
Receipts == [r \in Requests |-> record[r].transactionHash]

\* A write to one record is one step of that request's life.
LEMMA Mapped ==
  ASSUME record \in [Requests -> Record], NEW r \in Requests, NEW new,
         record' = [record EXCEPT ![r] = new]
  PROVE  /\ Stages' = [Stages EXCEPT ![r] = Stage(new.status)]
         /\ Holders' = [Holders EXCEPT ![r] = HolderOf(new)]
         /\ Ends' = [Ends EXCEPT ![r] = new.claimExpiresAt]
         /\ Receipts' = [Receipts EXCEPT ![r] = new.transactionHash]
<1>1. \A q \in Requests : record'[q] = IF q = r THEN new ELSE record[q]
  OBVIOUS
<1>2. Stages' = [Stages EXCEPT ![r] = Stage(new.status)]
  BY <1>1 DEF Stages
<1>3. Holders' = [Holders EXCEPT ![r] = HolderOf(new)]
  BY <1>1 DEF Holders
<1>4. Ends' = [Ends EXCEPT ![r] = new.claimExpiresAt]
  BY <1>1 DEF Ends
<1>5. Receipts' = [Receipts EXCEPT ![r] = new.transactionHash]
  BY <1>1 DEF Receipts
<1> QED  BY <1>2, <1>3, <1>4, <1>5

LEMMA MappedAt ==
  ASSUME NEW r \in Requests
  PROVE  /\ Stages[r] = Stage(record[r].status) /\ Holders[r] = HolderOf(record[r])
         /\ Ends[r] = record[r].claimExpiresAt /\ Receipts[r] = record[r].transactionHash
         /\ [Stages EXCEPT ![r] = Stages[r]] = Stages
         /\ [Holders EXCEPT ![r] = Holders[r]] = Holders
         /\ [Ends EXCEPT ![r] = Ends[r]] = Ends
         /\ [Receipts EXCEPT ![r] = Receipts[r]] = Receipts
BY DEF Stages, Holders, Ends, Receipts

LEMMA StageNames ==
  /\ Stage("absent") = "absent" /\ Stage("created") = "drafted" /\ Stage("prepared") = "offered"
  /\ Stage("approved") = "approved" /\ Stage("settling") = "leased"
  /\ Stage("settled") = "settled" /\ Stage("expired") = "void"
BY DEF Stage

LEMMA LifecycleInit == Init => Lifecycle!Init
BY StageNames, NoneAssumption DEF Init, ServiceInit, NoRecord, HolderOf, Lifecycle!Init

\* A step that leaves records, ledger and clock alone is a stutter of the life.
LEMMA MappedStutter ==
  ASSUME UNCHANGED <<clock, record, ledger>>
  PROVE  UNCHANGED Lifecycle!lvars
BY DEF Lifecycle!lvars, HolderOf

LEMMA TickPasses ==
  ASSUME Tick, UNCHANGED <<record, ledger>>
  PROVE  Lifecycle!Pass
BY DEF Tick, Lifecycle!Pass, HolderOf

LEMMA LandFunds ==
  ASSUME TypeInv, NEW r \in Requests, Land(r), UNCHANGED <<clock, record>>
  PROVE  Lifecycle!Fund(r)
<1>1. PICK c \in submitted[r] \ ledger[r] : ledger' = [ledger EXCEPT ![r] = @ \cup {c}]
  BY DEF Land
<1>2. c \in Claims \ ledger[r]
  BY <1>1 DEF TypeInv, TypeOK
<1> QED  BY <1>1, <1>2 DEF Lifecycle!Fund, HolderOf

LEMMA DraftCreates ==
  ASSUME TypeInv, NEW k \in Keys, CreateDraft(k), UNCHANGED <<clock, ledger>>
  PROVE  \E r \in Requests : Lifecycle!Create(r)
<1>1. PICK r \in Requests : record[r] = NoRecord /\ record' = [record EXCEPT ![r] = Draft]
  BY DEF CreateDraft
<1>2. record \in [Requests -> Record]
  BY DEF TypeInv, TypeOK, ServiceTypeOK
<1>3. /\ Stages[r] = "absent" /\ Stage(Draft.status) = "drafted" /\ HolderOf(Draft) = Holders[r]
      /\ Draft.claimExpiresAt = Ends[r] /\ Draft.transactionHash = Receipts[r]
  <2>1. /\ NoRecord.status = "absent" /\ Draft.status = "created"
        /\ Draft.transactionHash = NoRecord.transactionHash /\ Draft.claimIdHash = NoRecord.claimIdHash
        /\ Draft.claimExpiresAt = NoRecord.claimExpiresAt
    BY DEF NoRecord, Draft
  <2> QED  BY <1>1, <2>1, MappedAt, StageNames DEF HolderOf
<1>4. /\ Stages' = [Stages EXCEPT ![r] = "drafted"]
      /\ Holders' = Holders /\ Ends' = Ends /\ Receipts' = Receipts
  <2>1. /\ Stages' = [Stages EXCEPT ![r] = Stage(Draft.status)]
        /\ Holders' = [Holders EXCEPT ![r] = HolderOf(Draft)]
        /\ Ends' = [Ends EXCEPT ![r] = Draft.claimExpiresAt]
        /\ Receipts' = [Receipts EXCEPT ![r] = Draft.transactionHash]
    BY <1>1, <1>2, Mapped
  <2> QED  BY <1>3, <2>1, MappedAt
<1>5. Stages[r] \in {"absent"}
  BY <1>3
<1>6. Lifecycle!Create(r)
  BY <1>4, <1>5 DEF Lifecycle!Create, Lifecycle!Move, Stages, Holders, Ends, Receipts
<1> QED  BY <1>6

\* A write that keeps holder, lease and receipt only moves the request on.
LEMMA WriteMoves ==
  ASSUME TypeInv, NEW a \in Callers, NEW op, NEW rec, Wrote(a, op, rec), UNCHANGED <<clock, ledger>>,
         HolderOf(rec) = HolderOf(call[a].seen), rec.claimExpiresAt = call[a].seen.claimExpiresAt,
         rec.transactionHash = call[a].seen.transactionHash
  PROVE  LET r == call[a].req IN
         /\ r \in Requests /\ Stages[r] = Stage(call[a].seen.status)
         /\ Stages' = [Stages EXCEPT ![r] = Stage(rec.status)]
         /\ Holders' = Holders /\ Ends' = Ends /\ Receipts' = Receipts
<1> DEFINE r == call[a].req
<1>1. r \in Requests /\ call[a].seen = record[r] /\ record' = [record EXCEPT ![r] = rec]
  BY DEF Wrote
<1>2. record \in [Requests -> Record]
  BY DEF TypeInv, TypeOK, ServiceTypeOK
<1> HIDE DEF r
<1>3. /\ Stages' = [Stages EXCEPT ![r] = Stage(rec.status)]
      /\ Holders' = [Holders EXCEPT ![r] = HolderOf(rec)]
      /\ Ends' = [Ends EXCEPT ![r] = rec.claimExpiresAt]
      /\ Receipts' = [Receipts EXCEPT ![r] = rec.transactionHash]
  BY <1>1, <1>2, Mapped
<1>4. Holders' = Holders /\ Ends' = Ends /\ Receipts' = Receipts /\ Stages[r] = Stage(call[a].seen.status)
  BY <1>1, <1>3, MappedAt
<1> QED  BY <1>1, <1>3, <1>4 DEF r

LEMMA SeenTypes ==
  ASSUME TypeInv
  PROVE  record \in [Requests -> Record] /\ \A a \in Callers : call[a].seen \in Record
BY DEF TypeInv, TypeOK, ServiceTypeOK, Call

LEMMA PrepareOffers ==
  ASSUME TypeInv, SnapshotInv, NEW a \in Callers, StorePrepared(a)
  PROVE  \E r \in Requests : Lifecycle!Offer(r)
<1> DEFINE rec == Prepared(call[a].seen, call[a].expires)
<1>1. Wrote(a, "prepare", rec) /\ call[a].seen.status \in {"created", "prepared"}
  BY Stored DEF MayPrepare
<1>2. UNCHANGED <<clock, ledger>>
  BY DEF StorePrepared
<1>3. /\ rec.status = "prepared" /\ rec.claimExpiresAt = call[a].seen.claimExpiresAt
      /\ rec.transactionHash = call[a].seen.transactionHash /\ HolderOf(rec) = HolderOf(call[a].seen)
  BY SeenTypes, MutatedFields, ClaimFields DEF HolderOf
<1> HIDE DEF rec
<1> DEFINE r == call[a].req
<1>4. /\ r \in Requests /\ Stages[r] = Stage(call[a].seen.status)
      /\ Stages' = [Stages EXCEPT ![r] = Stage(rec.status)]
      /\ Holders' = Holders /\ Ends' = Ends /\ Receipts' = Receipts
  BY <1>1, <1>2, <1>3, WriteMoves
<1> HIDE DEF r
<1>5. Stages[r] \in {"drafted", "offered"} /\ Stages' = [Stages EXCEPT ![r] = "offered"]
  BY <1>1, <1>3, <1>4, StageNames
<1>6. Lifecycle!Offer(r)
  BY <1>2, <1>4, <1>5 DEF Lifecycle!Offer, Lifecycle!Move, Stages, Holders, Ends, Receipts
<1> QED  BY <1>4, <1>6

LEMMA ApproveApproves ==
  ASSUME TypeInv, SnapshotInv, NEW a \in Callers, StoreApproved(a)
  PROVE  \E r \in Requests : Lifecycle!Approve(r)
<1> DEFINE rec == Approved(call[a].seen)
<1>1. Wrote(a, "approve", rec) /\ call[a].seen.status = "prepared"
  BY Stored DEF MayApprove
<1>2. UNCHANGED <<clock, ledger>>
  BY DEF StoreApproved
<1>3. /\ rec.status = "approved" /\ rec.claimExpiresAt = call[a].seen.claimExpiresAt
      /\ rec.transactionHash = call[a].seen.transactionHash /\ HolderOf(rec) = HolderOf(call[a].seen)
  BY SeenTypes, MutatedFields, ClaimFields DEF HolderOf
<1> HIDE DEF rec
<1> DEFINE r == call[a].req
<1>4. /\ r \in Requests /\ Stages[r] = Stage(call[a].seen.status)
      /\ Stages' = [Stages EXCEPT ![r] = Stage(rec.status)]
      /\ Holders' = Holders /\ Ends' = Ends /\ Receipts' = Receipts
  BY <1>1, <1>2, <1>3, WriteMoves
<1> HIDE DEF r
<1>5. Stages[r] \in {"offered"} /\ Stages' = [Stages EXCEPT ![r] = "approved"]
  BY <1>1, <1>3, <1>4, StageNames
<1>6. Lifecycle!Approve(r)
  BY <1>2, <1>4, <1>5 DEF Lifecycle!Approve, Lifecycle!Move, Stages, Holders, Ends, Receipts
<1> QED  BY <1>4, <1>6

\* The write of status "expired" is not guarded in the code: it may void a
\* request at any stage from its offer on, a settled one included.
LEMMA ExpireVoids ==
  ASSUME TypeInv, SnapshotInv, OriginInv, NEW a \in Callers, StoreExpired(a)
  PROVE  \E r \in Requests : Lifecycle!Void(r)
<1> DEFINE rec == Expired(call[a].seen)
<1>1. /\ Wrote(a, "expire", rec) /\ call[a].seen \in Record
      /\ call[a].seen.status \in {"prepared", "approved", "settling", "settled", "expired"}
  <2>1. Wrote(a, "expire", rec)
    BY Stored
  <2>2. Offered(call[a].seen) /\ call[a].seen \in Record
    BY <2>1 DEF Wrote, OriginInv, Current
  <2> QED  BY <2>1, <2>2 DEF Offered, Record, Status
<1>2. UNCHANGED <<clock, ledger>>
  BY DEF StoreExpired
<1>3. /\ rec.status = "expired" /\ rec.claimExpiresAt = call[a].seen.claimExpiresAt
      /\ rec.transactionHash = call[a].seen.transactionHash /\ HolderOf(rec) = HolderOf(call[a].seen)
  BY <1>1, MutatedFields, ClaimFields DEF HolderOf
<1> HIDE DEF rec
<1> DEFINE r == call[a].req
<1>4. /\ r \in Requests /\ Stages[r] = Stage(call[a].seen.status)
      /\ Stages' = [Stages EXCEPT ![r] = Stage(rec.status)]
      /\ Holders' = Holders /\ Ends' = Ends /\ Receipts' = Receipts
  BY <1>1, <1>2, <1>3, WriteMoves
<1> HIDE DEF r
<1>5. /\ Stages[r] \in {"offered", "approved", "leased", "settled", "void"}
      /\ Stages' = [Stages EXCEPT ![r] = "void"]
  BY <1>1, <1>3, <1>4, StageNames
<1>6. Lifecycle!Void(r)
  BY <1>2, <1>4, <1>5 DEF Lifecycle!Void, Lifecycle!Move, Stages, Holders, Ends, Receipts
<1> QED  BY <1>4, <1>6

LEMMA ClaimLeases ==
  ASSUME TypeInv, SnapshotInv, LifeInv, ClaimInv, OriginInv, NEW a \in Callers, StoreClaimed(a)
  PROVE  \E r \in Requests : Lifecycle!Lease(r)
<1> DEFINE seen == call[a].seen
           rec == Claimed(seen, call[a].claim, call[a].expires)
<1>1. Wrote(a, "claim", rec) /\ MayClaim(seen)
  BY Stored
<1>a. PICK r \in Requests : r = call[a].req
  BY <1>1 DEF Wrote
<1>2. /\ UNCHANGED <<clock, ledger>> /\ call[a].op = "claim" /\ call[a].pc = "cas"
      /\ seen = record[r] /\ seen \in Record /\ record' = [record EXCEPT ![r] = rec]
  BY <1>1, <1>a DEF StoreClaimed, Wrote
<1>3. /\ rec.status = "settling" /\ rec.transactionHash = seen.transactionHash
      /\ rec.claimIdHash = call[a].claim /\ rec.claimExpiresAt = call[a].expires
  BY <1>2, MutatedFields
<1>4. seen.transactionHash = None /\ seen.status \in {"approved", "settling"}
  BY <1>1, <1>2 DEF LifeInv, LifeOf, MayClaim
<1>5. HolderOf(rec) = call[a].claim /\ HolderOf(seen) = seen.claimIdHash
  BY <1>3, <1>4 DEF HolderOf
<1>6. call[a].claim \in Claims /\ call[a].expires \in 0 .. clock + ClaimTTL
  <2>1. /\ call[a].op = "claim" => a \in Buyers /\ call[a].pc \in Running
        /\ a \in Buyers /\ call[a].pc # "idle" => call[a].claim \in Claims
        /\ call[a].expires \in Nat
    BY <1>2 DEF TypeInv, CallShape, Shape
  <2>2. call[a].expires <= clock + ClaimTTL /\ clock \in Nat /\ ClaimTTL \in Nat
    BY <1>2, TimesAssumption DEF OriginInv, TypeInv, TypeOK, ServiceTypeOK
  <2> QED  BY <1>2, <2>1, <2>2
<1>7. call[a].claim # seen.claimIdHash
  <2>1. seen.claimIdHash # None => Granted(r, seen.claimIdHash)
    BY <1>2 DEF OriginInv
  <2>2. \A l \in leases : l.claim # call[a].claim
    BY <1>2 DEF ClaimInv
  <2>3. call[a].claim # None
    BY <1>6, NoneAssumption DEF Claims
  <2> QED  BY <2>1, <2>2, <2>3 DEF Granted
<1>8. seen.status = "settling" => record[r].claimExpiresAt <= clock
  BY <1>1, <1>2 DEF MayClaim, Past
<1> HIDE DEF seen, rec
<1>9. /\ Stages' = [Stages EXCEPT ![r] = "leased"] /\ Receipts' = Receipts
      /\ Holders' = [Holders EXCEPT ![r] = call[a].claim]
      /\ Ends' = [Ends EXCEPT ![r] = call[a].expires]
  <2>1. record \in [Requests -> Record]
    BY SeenTypes
  <2>2. /\ Stages' = [Stages EXCEPT ![r] = Stage(rec.status)]
        /\ Holders' = [Holders EXCEPT ![r] = HolderOf(rec)]
        /\ Ends' = [Ends EXCEPT ![r] = rec.claimExpiresAt]
        /\ Receipts' = [Receipts EXCEPT ![r] = rec.transactionHash]
    BY <1>2, <2>1, Mapped
  <2>3. Receipts[r] = rec.transactionHash
    BY <1>2, <1>3, MappedAt
  <2> QED  BY <1>2, <1>3, <1>5, <2>2, <2>3, MappedAt, StageNames
<1>10. /\ Stages[r] \in {"approved", "leased"} /\ (Stages[r] = "leased" => Ends[r] <= clock)
       /\ call[a].claim # Holders[r]
  BY <1>2, <1>4, <1>5, <1>7, <1>8, MappedAt, StageNames
<1>11. Lifecycle!Lease(r)
  <2>1. \E c \in Claims, e \in 0 .. clock + ClaimTTL :
          c # Holders[r] /\ Holders' = [Holders EXCEPT ![r] = c] /\ Ends' = [Ends EXCEPT ![r] = e]
    BY <1>6, <1>9, <1>10
  <2> QED
    BY <1>2, <1>9, <1>10, <2>1 DEF Lifecycle!Lease, Lifecycle!Move, Stages, Holders, Ends, Receipts
<1> QED  BY <1>11

LEMMA CompleteSettles ==
  ASSUME TypeInv, SnapshotInv, LifeInv, PaidInv, NEW a \in Callers, StoreCompleted(a)
  PROVE  \E r \in Requests : Lifecycle!Settle(r)
<1> DEFINE seen == call[a].seen
           rec == Completed(seen, call[a].claim)
<1>1. Wrote(a, "complete", rec) /\ seen.status = "settling" /\ seen.claimIdHash = call[a].claim
  BY Stored DEF MayComplete
<1>a. PICK r \in Requests : r = call[a].req
  BY <1>1 DEF Wrote
<1>2. /\ UNCHANGED <<clock, ledger>> /\ call[a].op = "complete" /\ call[a].pc = "cas"
      /\ seen = record[r] /\ seen \in Record /\ record' = [record EXCEPT ![r] = rec]
  BY <1>1, <1>a DEF StoreCompleted, Wrote
<1>3. /\ rec.status = "settled" /\ rec.transactionHash = call[a].claim
      /\ rec.claimExpiresAt = seen.claimExpiresAt
  BY <1>2, MutatedFields, ClaimFields
<1>4. seen.transactionHash = None
  BY <1>1, <1>2 DEF LifeInv, LifeOf
<1>5. call[a].claim \in ledger[r] /\ call[a].claim # None
  <2>1. call[a].claim \in ledger[r] /\ ledger[r] \subseteq Claims
    BY <1>2, <1>a DEF PaidInv, TypeInv, TypeOK, ServiceTypeOK
  <2> QED  BY <2>1, NoneAssumption DEF Claims
<1>6. HolderOf(seen) = call[a].claim /\ HolderOf(rec) = call[a].claim
  BY <1>1, <1>3, <1>4, <1>5 DEF HolderOf
<1> HIDE DEF seen, rec
<1>7. /\ Stages' = [Stages EXCEPT ![r] = "settled"] /\ Holders' = Holders /\ Ends' = Ends
      /\ Receipts' = [Receipts EXCEPT ![r] = call[a].claim]
  <2>1. record \in [Requests -> Record]
    BY SeenTypes
  <2>2. /\ Stages' = [Stages EXCEPT ![r] = Stage(rec.status)]
        /\ Holders' = [Holders EXCEPT ![r] = HolderOf(rec)]
        /\ Ends' = [Ends EXCEPT ![r] = rec.claimExpiresAt]
        /\ Receipts' = [Receipts EXCEPT ![r] = rec.transactionHash]
    BY <1>2, <2>1, Mapped
  <2>3. HolderOf(rec) = Holders[r] /\ rec.claimExpiresAt = Ends[r]
    BY <1>2, <1>3, <1>6, MappedAt
  <2> QED  BY <1>2, <1>3, <2>2, <2>3, MappedAt, StageNames
<1>8. Stages[r] \in {"leased"} /\ Holders[r] = call[a].claim
  BY <1>1, <1>2, <1>6, MappedAt, StageNames
<1>9. Lifecycle!Settle(r)
  <2>1. Holders[r] \in ledger[r] /\ Receipts' = [Receipts EXCEPT ![r] = Holders[r]]
    BY <1>5, <1>7, <1>8
  <2> QED
    BY <1>2, <1>7, <1>8, <2>1 DEF Lifecycle!Settle, Lifecycle!Move, Stages, Holders, Ends, Receipts
<1> QED  BY <1>9

LEMMA LifecycleStep ==
  ASSUME Inv, OriginInv, [Next]_vars
  PROVE  [Lifecycle!Next]_(Lifecycle!lvars)
<1>1. TypeInv /\ SnapshotInv /\ LifeInv /\ ClaimInv /\ PaidInv
  BY DEF Inv
<1>2. CASE UNCHANGED <<clock, record, ledger>>
  BY <1>2, MappedStutter
<1>3. CASE Tick /\ UNCHANGED <<record, ledger>>
  BY <1>3, TickPasses DEF Lifecycle!Next
<1>4. ASSUME NEW r \in Requests, Land(r), UNCHANGED <<clock, record>>
      PROVE  Lifecycle!Next
  BY <1>1, <1>4, LandFunds DEF Lifecycle!Next
<1>5. ASSUME NEW k \in Keys, CreateDraft(k), UNCHANGED <<clock, ledger>>
      PROVE  Lifecycle!Next
  BY <1>1, <1>5, DraftCreates DEF Lifecycle!Next
<1>6. ASSUME NEW a \in Callers, \/ StorePrepared(a) \/ StoreApproved(a) \/ StoreExpired(a)
                                \/ StoreClaimed(a) \/ StoreCompleted(a)
      PROVE  Lifecycle!Next
  BY <1>1, <1>6, PrepareOffers, ApproveApproves, ExpireVoids, ClaimLeases, CompleteSettles
     DEF Lifecycle!Next
<1> QED  BY <1>2, <1>3, <1>4, <1>5, <1>6, MappedSteps

\* Every behaviour of the handlers, the buyer scripts and the ledger is a
\* behaviour of the atomic life of a request.
THEOREM ImplementsLifecycle == Spec => LifecycleSpec
<1>1. Inv /\ OriginInv /\ [Next]_vars => [Lifecycle!Next]_(Lifecycle!lvars)
  BY LifecycleStep
<1> QED  BY <1>1, LifecycleInit, OriginsHold, PTL DEF Spec, LifecycleSpec, Lifecycle!Spec
=============================================================================
