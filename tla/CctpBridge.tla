----------------------------- MODULE CctpBridge -----------------------------
(***************************************************************************)
(* The bridge (src/multichainService.mjs, src/cctpBridgeAdapter.mjs,       *)
(* src/multichainVerification.mjs) with its records in Redis               *)
(* (src/multichainRepository.mjs), the Treasury page's wallet              *)
(* (src/client/pages/treasury.mjs), and Base, Circle and Stellar, which    *)
(* burn, attest and mint in their own time.                                *)
(*                                                                         *)
(* update reads, mutates and writes back with a comparison of versions.    *)
(* Versions grow with every write, so that the comparison succeeds exactly *)
(* when nobody has written since the read: a call keeps that bit.          *)
(*                                                                         *)
(* Abstractions: lists of ids, quotes and timestamps are left out; all     *)
(* bridges are prepared from one wallet with one destination; an approval  *)
(* stands for every transaction on Base that is not the prepared burn.     *)
(***************************************************************************)
EXTENDS Naturals

CONSTANTS
  Bridges,      \* bridge ids
  Burns,        \* hashes of burns
  Approvals,    \* hashes of other transactions on Base
  Calls,        \* requests to the bridge handlers, any number one after another
  MaxAttempts,  \* rounds of update: 8 in the code
  None          \* no hash

ASSUME AttemptsAssumption == MaxAttempts \in Nat \ {0}
ASSUME NoHashAssumption == None \notin Burns \cup Approvals

VARIABLES
  gate,     \* CCTP_ENABLED and CCTP_SUBMIT_ENABLED: closed, preview or submit
  bridge,   \* the bridge records
  burn,     \* external: the burns on Base
  circle,   \* external: Circle's latest message about each burn
  mint,     \* external: the destination transaction of each burn on Stellar
  call      \* the calls under way

bvars == <<gate, bridge, burn, circle, mint, call>>

Statuses == {"none", "created", "prepared", "burn_submitted", "attesting", "forwarding",
             "settled", "manual_review"}
Messages == {"confirming", "pending", "complete", "forwarded", "failed"}
Terminal == {"settled", "manual_review"}

NoBridge == [status |-> "none", burn |-> None, verified |-> FALSE]

IdleCall == [op |-> "none", pc |-> "idle", bridge |-> None, hash |-> None, message |-> "none",
             verified |-> FALSE, seen |-> NoBridge, fresh |-> FALSE, tries |-> 0]

-----------------------------------------------------------------------------
(* What the mutations of update do to the record they are given *)

\* variant: what Circle says is taken for what is on Stellar
HeardUnverified(r, message, verified) ==
  [r EXCEPT !.status = IF message = "forwarded" THEN "settled" ELSE "forwarding",
            !.verified = message = "forwarded"]

\* applyCircleStatus, whatever the record's status is by now.
Heard(r, message, verified) ==
  CASE message = "forwarded"  -> [r EXCEPT !.status = IF verified THEN "settled" ELSE "forwarding",
                                           !.verified = verified]
    [] message = "failed"     -> [r EXCEPT !.status = "manual_review"]
    [] message = "confirming" -> [r EXCEPT !.status = "attesting"]
    [] OTHER                  -> [r EXCEPT !.status = "forwarding"]

Preparable(r) == r.status \in {"created", "prepared"}
Burnable(r) == r.status = "prepared"

Mutable(c) ==
  CASE call[c].op = "prepare" -> Preparable(bridge[call[c].bridge])
    [] call[c].op = "record"  -> Burnable(bridge[call[c].bridge])
    [] OTHER                  -> TRUE

Mutated(c) ==
  LET r == call[c].seen
  IN CASE call[c].op = "prepare" -> [r EXCEPT !.status = "prepared"]
       [] call[c].op = "record"  -> [r EXCEPT !.status = "burn_submitted", !.burn = call[c].hash]
       [] OTHER                  -> Heard(r, call[c].message, call[c].verified)

-----------------------------------------------------------------------------
(* MultichainRepository.update *)

End(c) == call' = [call EXCEPT ![c] = IdleCall]

Read(c) ==
  /\ call[c].pc = "read"
  /\ \/ /\ Mutable(c)
        /\ call' = [call EXCEPT ![c].pc = "cas", ![c].seen = bridge[call[c].bridge], ![c].fresh = TRUE]
     \/ ~Mutable(c) /\ End(c)
  /\ UNCHANGED <<gate, bridge, burn, circle, mint>>

\* variant: the record is written back whatever has happened to it
VersionIgnored(c) == TRUE

VersionUnchanged(c) == call[c].fresh

\* A write makes what other calls have read of the bridge old.
Outdated(d, b) == IF call[d].bridge = b THEN [call[d] EXCEPT !.fresh = FALSE] ELSE call[d]

\* variant: one more round than there are
MayRetryOnceMore(c) == call[c].tries < MaxAttempts

MayRetry(c) == call[c].tries + 1 < MaxAttempts

Cas(c) ==
  /\ call[c].pc = "cas"
  /\ \/ /\ VersionUnchanged(c)
        /\ bridge' = [bridge EXCEPT ![call[c].bridge] = Mutated(c)]
        /\ call' = [d \in Calls |-> IF d = c THEN IdleCall ELSE Outdated(d, call[c].bridge)]
     \/ /\ ~VersionUnchanged(c)
        /\ UNCHANGED bridge
        /\ IF MayRetry(c)
           THEN call' = [call EXCEPT ![c].pc = "read", ![c].tries = @ + 1, ![c].seen = NoBridge]
           ELSE End(c)
  /\ UNCHANGED <<gate, burn, circle, mint>>

-----------------------------------------------------------------------------
(* The handlers *)

Begin(c, op, b, pc) ==
  /\ call[c].pc = "idle"
  /\ call' = [call EXCEPT ![c].op = op, ![c].bridge = b, ![c].pc = pc]
  /\ UNCHANGED <<gate, bridge, burn, circle, mint>>

\* createBridge, with a fresh id.
Create(b) ==
  /\ gate # "closed"
  /\ bridge[b].status = "none"
  /\ bridge' = [bridge EXCEPT ![b].status = "created"]
  /\ UNCHANGED <<gate, burn, circle, mint, call>>

StartPrepare(c, b) == Preparable(bridge[b]) /\ Begin(c, "prepare", b, "read")

StartRecordBurn(c, b, h) ==
  /\ gate = "submit"
  /\ call[c].pc = "idle"
  /\ Burnable(bridge[b])
  /\ call' = [call EXCEPT ![c].op = "record", ![c].bridge = b, ![c].hash = h, ![c].pc = "verify"]
  /\ UNCHANGED <<gate, bridge, burn, circle, mint>>

OnBase(h) == h \in Burns => burn[h] = "mined"

\* validatePreparedCctpBurn
IsPreparedBurn(h) == h \in Burns

Verify(c) ==
  /\ call[c].pc = "verify"
  /\ OnBase(call[c].hash) /\ IsPreparedBurn(call[c].hash)
  /\ call' = [call EXCEPT ![c].pc = "read"]
  /\ UNCHANGED <<gate, bridge, burn, circle, mint>>

StartStatus(c, b) ==
  /\ bridge[b].burn # None /\ bridge[b].status \notin Terminal
  /\ call[c].pc = "idle"
  /\ call' = [call EXCEPT ![c].op = "status", ![c].bridge = b, ![c].hash = bridge[b].burn, ![c].pc = "circle"]
  /\ UNCHANGED <<gate, bridge, burn, circle, mint>>

\* Horizon is asked only about a destination transaction, and may not answer.
AskCircle(c) ==
  /\ call[c].pc = "circle" /\ call[c].hash \in Burns
  /\ LET h == call[c].hash
     IN /\ circle[h] \in Messages
        /\ \E verified \in {FALSE, circle[h] = "forwarded" /\ mint[h] = "done"} :
             call' = [call EXCEPT ![c].pc = "read", ![c].message = circle[h], ![c].verified = verified]
  /\ UNCHANGED <<gate, bridge, burn, circle, mint>>

\* Base, Circle or Redis does not answer, a transaction is not the prepared
\* burn, or the process stops.
Fail(c) ==
  /\ call[c].pc # "idle"
  /\ End(c)
  /\ UNCHANGED <<gate, bridge, burn, circle, mint>>

-----------------------------------------------------------------------------
(* The page's wallet, and the chains *)

\* The page sends a burn it was given by prepare, perhaps more than once:
\* a burn that could not be recorded may be confirmed again.
SendBurn(h) ==
  /\ gate = "submit"
  /\ burn[h] = "none"
  /\ \E b \in Bridges : bridge[b].status \notin {"none", "created"}
  /\ burn' = [burn EXCEPT ![h] = "sent"]
  /\ UNCHANGED <<gate, bridge, circle, mint, call>>

MineBurn(h) ==
  /\ burn[h] = "sent"
  /\ burn' = [burn EXCEPT ![h] = "mined"]
  /\ UNCHANGED <<gate, bridge, circle, mint, call>>

Progress(m) ==
  CASE m = "none"       -> {"confirming"}
    [] m = "confirming" -> {"pending", "failed"}
    [] m = "pending"    -> {"complete", "failed"}
    [] m = "complete"   -> {"forwarded"}
    [] OTHER            -> {}

Attest(h) ==
  /\ burn[h] = "mined"
  /\ \E m \in Progress(circle[h]) : circle' = [circle EXCEPT ![h] = m]
  /\ UNCHANGED <<gate, bridge, burn, mint, call>>

\* The destination transaction may be known to Circle before it succeeds.
Mint(h) ==
  /\ circle[h] \in {"complete", "forwarded"} /\ mint[h] = "none"
  /\ \E result \in {"done", "failed"} : mint' = [mint EXCEPT ![h] = result]
  /\ UNCHANGED <<gate, bridge, burn, circle, call>>

\* An operator closes the submit gate after an acceptance session.
CloseGate ==
  /\ gate = "submit"
  /\ gate' = "preview"
  /\ UNCHANGED <<bridge, burn, circle, mint, call>>

\* evidence: the settled bridges are shown as verified.
Evidence == {b \in Bridges : bridge[b].status = "settled"}

BInit ==
  /\ bridge = [b \in Bridges |-> NoBridge]
  /\ burn = [h \in Burns |-> "none"]
  /\ circle = [h \in Burns |-> "none"]
  /\ mint = [h \in Burns |-> "none"]
  /\ call = [c \in Calls |-> IdleCall]

BridgeStep ==
  \/ \E b \in Bridges : Create(b)
  \/ \E c \in Calls :
       \/ \E b \in Bridges :
            \/ StartPrepare(c, b) \/ StartStatus(c, b)
            \/ \E h \in Burns \cup Approvals : StartRecordBurn(c, b, h)
       \/ Verify(c) \/ AskCircle(c) \/ Read(c) \/ Cas(c) \/ Fail(c)
  \/ \E h \in Burns : SendBurn(h) \/ MineBurn(h) \/ Attest(h) \/ Mint(h)
  \/ CloseGate

-----------------------------------------------------------------------------
(* Properties *)

BridgeTypes ==
  /\ gate \in {"closed", "preview", "submit"}
  /\ bridge \in [Bridges -> [status : Statuses, burn : Burns \cup Approvals \cup {None}, verified : BOOLEAN]]
  /\ \A c \in Calls :
       /\ call[c].pc \in {"idle", "verify", "circle", "read", "cas"}
       /\ call[c].tries \in 0 .. MaxAttempts - 1
       /\ call[c].op = "status" /\ call[c].pc # "circle" => call[c].message \in Messages

\* A bridge that has taken on a burn has taken on the prepared one, which is
\* on Base; one that says settled, or that its destination is verified, has
\* its money on Stellar (recordBurn, applyCircleStatus;
\* docs/sprint-21-23-multichain.md, CCTP acceptance).
SettledIsVerified ==
  \A b \in Bridges :
    /\ bridge[b].burn # None => bridge[b].burn \in Burns /\ burn[bridge[b].burn] = "mined"
    /\ b \in Evidence => bridge[b].verified
    /\ bridge[b].verified => mint[bridge[b].burn] = "done"

Stage(b) ==
  CASE bridge[b].status = "none" -> "absent"
    [] bridge[b].status \in {"burn_submitted", "attesting", "forwarding"} -> "moving"
    [] bridge[b].status = "manual_review" -> "review"
    [] OTHER -> bridge[b].status

\* The handlers, with their reads of long ago, lost races and failures, go
\* through the atomic life of a bridge: nothing overwrites a recorded burn.
Lifecycle == INSTANCE BridgeLifecycle WITH
  stage <- [b \in Bridges |-> Stage(b)],
  burned <- [b \in Bridges |-> bridge[b].burn],
  base <- {h \in Burns : burn[h] = "mined"},
  minted <- {h \in Burns : mint[h] = "done"},
  given <- {h \in Burns : circle[h] = "failed"}

BridgeLifecycleSpec == Lifecycle!Spec
=============================================================================
