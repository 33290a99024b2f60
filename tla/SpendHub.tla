------------------------------ MODULE SpendHub ------------------------------
(***************************************************************************)
(* SpendHubService (src/spendHubService.mjs): spend intents, the policy    *)
(* that judges them, their approval over one of the payment rails or the   *)
(* Link wallet, and the receipts.  One process holds all of the state in   *)
(* memory; a handler runs alone until it awaits something that really      *)
(* waits: the digest of the legal terms in evaluateIntent, the digests of  *)
(* a proof, the network of the direct rail.  Awaits of values that are     *)
(* already there let no other request in.                                  *)
(*                                                                         *)
(* Abstractions: an intent is named by its id and a receipt by its place   *)
(* in the order of recording; every secret makes a valid proof; texts,     *)
(* evidence and the scan for sensitive data are left out, and so are the   *)
(* machine challenges, which are stored and never read.  An amount is what *)
(* Number makes of the input: any number, negative ones too, or NaN.  An   *)
(* infinite one is never let through if positive, and like a very small    *)
(* one if negative.                                                        *)
(***************************************************************************)
EXTENDS Integers, Sequences, FiniteSetsExt

CONSTANTS
  Intents,        \* intent ids
  Providers,      \* the provider directory
  Keys,           \* idempotency keys
  Callers,        \* clients with one request at a time
  Script,         \* the operations whose answer a client's script goes on from
  Category,       \* of a provider
  LinkProviders,  \* paid through the Link wallet
  ProofProviders, \* privacyRequirement zk-required
  Allowlisted,    \* spendingPolicy.allowlistedProviders
  InSession,      \* the Soroban session's allowed providers
  NaN,            \* what Number makes of an amount that is no number
  Amounts,        \* amounts asked for
  AskedTypes,     \* intent types asked for
  PerPayment, DailyLimit, MonthlyLimit,   \* spendingPolicy
  PortfolioLimit, \* maxPortfolioActionAmount
  SessionLimit,   \* the Soroban session's perPaymentLimit
  MaxReceipts,    \* bound: no approval begins beyond
  None

Type == {"pay_service", "buy_crypto", "defi_allocate", "bill_pay"}

ASSUME HubAssumption ==
  /\ Category \in [Providers -> Type] /\ AskedTypes \subseteq Type
  /\ NaN \notin Int /\ Amounts \subseteq Int \cup {NaN}
  /\ {PerPayment, DailyLimit, MonthlyLimit, PortfolioLimit, SessionLimit, MaxReceipts} \subseteq Nat
  /\ PerPayment <= DailyLimit /\ DailyLimit <= MonthlyLimit
  /\ None \notin Intents \cup Providers \cup Keys
  /\ IsFiniteSet(Callers)

VARIABLES
  mode,       \* SPEND_HUB_PAYMENT_RAIL
  today,      \* the day of the process's clock
  intents,    \* state.intents
  receipts,   \* state.receipts, oldest first
  proofs,     \* intents with a valid proof in state.proofs
  spendRequests,  \* intents with one in state.spendRequests; nothing reads its status
  idempotencyKeys,
  call        \* the request each caller has made

hvars == <<mode, today, intents, receipts, proofs, spendRequests, idempotencyKeys, call>>
store == <<intents, receipts, proofs, spendRequests, idempotencyKeys>>

\* "open" stands for created, proof_verified, requires_confirmation,
\* approval_required and blocked, "closed" for dismissed and denied: nothing
\* in the service tells them apart.
Status == {"absent", "open", "approved_preview", "settled", "closed"}
Intent == [status : Status, provider : Providers \cup {None}, type : Type, amount : Amounts \cup {0}]
NoIntent == [status |-> "absent", provider |-> None, type |-> "pay_service", amount |-> 0]
Known == {i \in Intents : intents[i] # NoIntent}

Mode == {"simulated", "direct", "soroban"}
ReceiptStatus == {"settled", "pending", "blocked"}
Route == {"approve", "link_approve"}
\* "looked" is the number of receipts when the approval looked for one.
Receipt == [of : Intents, status : ReceiptStatus, day : Nat, route : Route, looked : Nat]

Op == {"none", "create", "prepare", "proof", "approve", "dismiss",
       "link_request", "link_approve", "link_deny", "resource"}
Pc == {"idle", "evaluate", "prove", "rail", "ok", "away"}
Call == [op : Op, of : Intents \cup {None}, pc : Pc, looked : Nat, receipt : Nat]
IdleCall == [op |-> "none", of |-> None, pc |-> "idle", looked |-> 0, receipt |-> 0]

\* A caller waits for one answer, goes on from it if its script does, and
\* starts over after any other and after an error.
Free(c) == call[c].pc \in {"idle", "ok"}
Waits(c, op, pc) == call[c].op = op /\ call[c].pc = pc
Begin(c, op, i, pc) == call' = [call EXCEPT ![c] =
  [IdleCall EXCEPT !.op = op, !.of = i, !.pc = pc, !.looked = IF op = "approve" THEN Len(receipts) ELSE 0]]
Answer(c, op, i, k) == call' = [call EXCEPT ![c] =
  IF op \in Script[c] THEN [IdleCall EXCEPT !.op = op, !.of = i, !.pc = "ok", !.receipt = k] ELSE IdleCall]
Error(c) == call' = [call EXCEPT ![c] = IdleCall]
Done(c) == Answer(c, call[c].op, call[c].of, 0)
SetStatus(i, status) == intents' = [intents EXCEPT ![i].status = status]

IsLink(i) == intents[i].provider \in LinkProviders
ProofRequired(i) == intents[i].provider \in ProofProviders

-----------------------------------------------------------------------------
(* evaluateIntent *)

\* Every comparison asks for more than a limit, which NaN never is.
Exceeds(amount, limit) == amount # NaN /\ amount > limit
Plus(x, y) == IF x = NaN \/ y = NaN THEN NaN ELSE x + y

AmountOf(k) == intents[receipts[k].of].amount
Paid == [k \in DOMAIN receipts |-> IF AmountOf(k) = NaN THEN 0 ELSE AmountOf(k)]
SumOver(amounts, ks) == MapThenSumSet(LAMBDA k : amounts[k], ks)
Spent(ks) == IF \E k \in ks : AmountOf(k) = NaN THEN NaN ELSE SumOver(Paid, ks)
Settled == {k \in DOMAIN receipts : receipts[k].status = "settled"}
SpentToday == Spent({k \in Settled : receipts[k].day = today})
SpentThisMonth == Spent(Settled)

PrivacyAllows(i) == ProofRequired(i) => i \in proofs
CryptoAllows(i) == intents[i].type = "buy_crypto" => ~Exceeds(intents[i].amount, PortfolioLimit)
\* An allocation is never of low risk, and so never allowed.
DefiAllows(i) == intents[i].type # "defi_allocate"

WithinPaymentLimit(i) == ~Exceeds(intents[i].amount, PerPayment)
\* variant: a payment is compared with the limit alone
WithinDailyLimitAlone(i) == ~Exceeds(intents[i].amount, DailyLimit)
WithinDailyLimit(i) == ~Exceeds(Plus(SpentToday, intents[i].amount), DailyLimit)
WithinMonthlyLimit(i) == ~Exceeds(Plus(SpentThisMonth, intents[i].amount), MonthlyLimit)

\* The provider's terms are found, match their hash and are trusted, or not.
LegalDecisions == BOOLEAN

Evaluation(i, legal) ==
  /\ intents[i].provider \in Allowlisted
  /\ WithinPaymentLimit(i) /\ WithinDailyLimit(i) /\ WithinMonthlyLimit(i)
  /\ legal /\ PrivacyAllows(i) /\ CryptoAllows(i) /\ DefiAllows(i)

\* evaluateIntent; a legal adapter that fails is a decision against.
EvaluateIntent(i) == {Evaluation(i, legal) : legal \in LegalDecisions}

\* activePaymentAdapter: Link intents stay off the rail.
PaymentAdapter(i) == IF IsLink(i) THEN "link" ELSE mode

-----------------------------------------------------------------------------
(* createIntent *)

\* variant: a new intent takes the first status of a receipt
BuiltPending(p, type, amount) == [status |-> "pending", provider |-> p, type |-> type, amount |-> amount]

Built(p, type, amount) == [status |-> "open", provider |-> p, type |-> type, amount |-> amount]

\* Who asks again under a key gets the first intent, whatever it asks for.
CreateIntent(c, op, key, p, type, amount) ==
  \/ /\ key # None /\ idempotencyKeys[key] # None
     /\ Answer(c, op, idempotencyKeys[key], 0)
     /\ UNCHANGED <<mode, today, store>>
  \/ /\ key # None => idempotencyKeys[key] = None
     /\ \E i \in Intents \ Known :
          /\ intents' = [intents EXCEPT ![i] = Built(p, type, amount)]
          /\ idempotencyKeys' = IF key = None THEN idempotencyKeys
                                ELSE [idempotencyKeys EXCEPT ![key] = i]
          /\ Answer(c, op, i, 0)
     /\ UNCHANGED <<mode, today, receipts, proofs, spendRequests>>

-----------------------------------------------------------------------------
(* generateProof *)

StartProof(c, i) ==
  /\ IF ProofRequired(i) THEN Begin(c, "proof", i, "prove") ELSE Error(c)
  /\ UNCHANGED <<mode, today, store>>

GenerateProof(c) ==
  /\ Waits(c, "proof", "prove")
  /\ proofs' = proofs \cup {call[c].of}
  /\ SetStatus(call[c].of, "open")
  /\ Done(c)
  /\ UNCHANGED <<mode, today, receipts, spendRequests, idempotencyKeys>>

-----------------------------------------------------------------------------
(* prepareIntent, which looks at no status *)

StartPrepare(c, i) == Begin(c, "prepare", i, "evaluate") /\ UNCHANGED <<mode, today, store>>

\* The evaluation decides between "blocked" and the others, all of them open;
\* the direct rail waits once more, for its readiness.
PrepareIntent(c) ==
  /\ Waits(c, "prepare", "evaluate")
  /\ LET i == call[c].of IN
     \/ PaymentAdapter(i) = "link" /\ spendRequests' = spendRequests \cup {i} /\ SetStatus(i, "open") /\ Done(c)
     \/ PaymentAdapter(i) \in {"simulated", "soroban"} /\ SetStatus(i, "open") /\ Done(c) /\ UNCHANGED spendRequests
     \/ /\ PaymentAdapter(i) = "direct"
        /\ call' = [call EXCEPT ![c].pc = "rail"]
        /\ UNCHANGED <<intents, spendRequests>>
  /\ UNCHANGED <<mode, today, receipts, proofs, idempotencyKeys>>

PrepareDirect(c) ==
  /\ Waits(c, "prepare", "rail")
  /\ SetStatus(call[c].of, "open")
  /\ Done(c)
  /\ UNCHANGED <<mode, today, receipts, proofs, spendRequests, idempotencyKeys>>

-----------------------------------------------------------------------------
(* approveIntent *)

Existing(i) == {k \in DOMAIN receipts : receipts[k].of = i /\ receipts[k].status # "blocked"}

\* variant: only a settled receipt makes the approval a replay
StartApproveSettledOnly(c, i) ==
  /\ \/ /\ \E k \in Existing(i) : receipts[k].status = "settled"
        /\ Answer(c, "approve", i, Max(Existing(i)))
     \/ /\ \A k \in Existing(i) : receipts[k].status # "settled"
        /\ Len(receipts) < MaxReceipts
        /\ Begin(c, "approve", i, "evaluate")
  /\ UNCHANGED <<mode, today, store>>

StartApprove(c, i) ==
  /\ \/ Existing(i) # {} /\ Answer(c, "approve", i, Max(Existing(i)))
     \/ Existing(i) = {} /\ Len(receipts) < MaxReceipts /\ Begin(c, "approve", i, "evaluate")
  /\ UNCHANGED <<mode, today, store>>

\* A receipt that is not settled, a blocked one too, makes a preview.
RecordReceipt(c, status) ==
  LET i == call[c].of  route == call[c].op IN
  /\ receipts' = Append(receipts, [of |-> i, status |-> status, day |-> today,
                                   route |-> route, looked |-> call[c].looked])
  /\ SetStatus(i, IF status = "settled" THEN "settled" ELSE "approved_preview")
  /\ Answer(c, route, i, Len(receipts) + 1)

SettleLink(c) ==
  /\ spendRequests' = spendRequests \cup {call[c].of}
  /\ RecordReceipt(c, "settled")

SessionAllows(i) == intents[i].provider \in InSession /\ ~Exceeds(intents[i].amount, SessionLimit)

\* variant: the direct rail marks the intent settled before it asks the network
GoDirectEarly(c) ==
  /\ call' = [call EXCEPT ![c].pc = "rail"]
  /\ SetStatus(call[c].of, "settled")
  /\ UNCHANGED receipts

GoDirect(c) ==
  /\ call' = [call EXCEPT ![c].pc = "rail"]
  /\ UNCHANGED <<intents, receipts>>

SettleRail(c) ==
  LET i == call[c].of IN
  \/ PaymentAdapter(i) = "simulated" /\ RecordReceipt(c, "settled")
  \/ PaymentAdapter(i) = "soroban" /\ RecordReceipt(c, IF SessionAllows(i) THEN "pending" ELSE "blocked")
  \/ PaymentAdapter(i) = "direct" /\ GoDirect(c)

ApproveIntent(c) ==
  /\ Waits(c, "approve", "evaluate")
  /\ \E allowed \in EvaluateIntent(call[c].of) :
       \/ ~allowed /\ Error(c) /\ UNCHANGED <<intents, receipts, spendRequests>>
       \/ allowed /\ IsLink(call[c].of) /\ SettleLink(c)
       \/ allowed /\ SettleRail(c) /\ UNCHANGED spendRequests
  /\ UNCHANGED <<mode, today, proofs, idempotencyKeys>>

\* The network takes the payment, or one of the calls to it fails; a payment
\* that went out before the failure is not known of.
SubmitNativePayment == {"submitted-testnet", "error"}

Finality == {"not-submitted-testnet-not-ready", "dry-run-ready-not-submitted"} \cup SubmitNativePayment

\* Every finality ends in a receipt that counts as settled, an error in none.
SettleDirect(c) ==
  /\ Waits(c, "approve", "rail")
  /\ \E finality \in Finality :
       IF finality = "error" THEN Error(c) /\ UNCHANGED <<intents, receipts>>
       ELSE RecordReceipt(c, "settled")
  /\ UNCHANGED <<mode, today, proofs, spendRequests, idempotencyKeys>>

-----------------------------------------------------------------------------
(* dismissIntent, and the Link wallet's own routes *)

Dismiss(c, i) ==
  /\ IF intents[i].status \in {"settled", "approved_preview"}
     THEN Error(c) /\ UNCHANGED intents
     ELSE SetStatus(i, "closed") /\ Answer(c, "dismiss", i, 0)
  /\ UNCHANGED <<mode, today, receipts, proofs, spendRequests, idempotencyKeys>>

StartLinkRequest(c, i) == Begin(c, "link_request", i, "evaluate") /\ UNCHANGED <<mode, today, store>>

\* The decision is noted and not acted upon.
CreateLinkSpendRequest(c) ==
  /\ Waits(c, "link_request", "evaluate")
  /\ spendRequests' = spendRequests \cup {call[c].of}
  /\ Done(c)
  /\ UNCHANGED <<mode, today, intents, receipts, proofs, idempotencyKeys>>

StartLinkApprove(c, i) ==
  /\ Len(receipts) < MaxReceipts
  /\ Begin(c, "link_approve", i, "evaluate")
  /\ UNCHANGED <<mode, today, store>>

ApproveLinkSpendRequest(c) ==
  /\ Waits(c, "link_approve", "evaluate")
  /\ \E allowed \in EvaluateIntent(call[c].of) :
       IF allowed THEN SettleLink(c)
       ELSE Error(c) /\ UNCHANGED <<intents, receipts, spendRequests>>
  /\ UNCHANGED <<mode, today, proofs, idempotencyKeys>>

DenyLinkSpendRequest(c, i) ==
  /\ \/ i \notin spendRequests /\ Error(c) /\ UNCHANGED intents
     \/ i \in spendRequests /\ SetStatus(i, "closed") /\ Answer(c, "link_deny", i, 0)
  /\ UNCHANGED <<mode, today, receipts, proofs, spendRequests, idempotencyKeys>>

-----------------------------------------------------------------------------
(* requestMachineResource *)

\* variant: any settled receipt will do
VerifyCredentialAnyProvider(p, k) ==
  k \in DOMAIN receipts /\ receipts[k].status = "settled"

VerifyCredential(p, k) ==
  /\ k \in DOMAIN receipts
  /\ intents[receipts[k].of].provider = p
  /\ receipts[k].status = "settled"

\* The provider is the one asked for, whatever the intent of the challenge.
DeliverResource(c, p, i, k) ==
  /\ VerifyCredential(p, k)
  /\ Answer(c, "resource", i, k)
  /\ UNCHANGED <<mode, today, store>>

\* Without a good credential the answer is a challenge over an intent.
Challenge(c, key, p, amount) == CreateIntent(c, "resource", key, p, Category[p], amount)

-----------------------------------------------------------------------------
Handle(c) ==
  \/ GenerateProof(c) \/ PrepareIntent(c) \/ PrepareDirect(c)
  \/ ApproveIntent(c) \/ SettleDirect(c)
  \/ CreateLinkSpendRequest(c) \/ ApproveLinkSpendRequest(c)

Midnight(last) == today < last /\ today' = today + 1 /\ UNCHANGED <<mode, store, call>>

\* The demonstration's intents and no receipt of this month; those in "away"
\* never call.
HubInit(seeds, away) ==
  /\ mode \in Mode
  /\ today = 0
  /\ intents \in {[i \in Intents |-> IF i \in DOMAIN f THEN f[i] ELSE NoIntent] : f \in seeds}
  /\ receipts = << >>
  /\ proofs = {}
  /\ spendRequests = {}
  /\ idempotencyKeys = [k \in Keys |-> None]
  /\ call = [c \in Callers |-> [IdleCall EXCEPT !.pc = IF c \in away THEN "away" ELSE "idle"]]
=============================================================================
