--------------------------- MODULE PolicyEscrowV2 ---------------------------
(***************************************************************************)
(* The Soroban contract contracts/policy-escrow-v2: an escrow whose owner  *)
(* grants session signers a bounded right to pay out of it.  A contract    *)
(* call is one atomic step: a call that panics, or whose token transfer    *)
(* fails, leaves no trace.  Calls reach the ledger in any order and after  *)
(* any delay, so every call with every argument may come at any time.      *)
(*                                                                         *)
(* Instance-storage time-to-live (bump_ttl, extend_ttl) and the payment    *)
(* reference carried into the event decide nothing and are left out.       *)
(***************************************************************************)
EXTENDS Integers, FiniteSets

CONSTANTS
  Owner,        \* the address given to the constructor
  Accounts,     \* addresses that may call
  Signers,      \* session signers among them
  Places,       \* addresses that may be paid
  Assets,       \* token contracts
  Amounts,      \* amounts callers ask for (i128: may be zero or negative)
  Limits,       \* limits owners ask for
  MaxAllowlist, \* MAX_ALLOWLIST_ITEMS
  MaxI128,      \* i128::MAX
  MaxU64,       \* u64::MAX
  Horizon,      \* bound: ledger time stops here
  MaxGrants,    \* bound: grants per signer
  Supply,       \* bound: what is ever deposited of each asset
  None          \* no session stored

ASSUME WidthAssumption ==
  /\ MaxI128 \in Nat /\ MaxU64 \in Nat \ {0}
  /\ Amounts \subseteq Int /\ \A x \in Amounts : x <= MaxI128
  /\ Limits \subseteq Int /\ \A x \in Limits : x <= MaxI128
ASSUME PartiesAssumption == Owner \in Accounts /\ Signers \subseteq Accounts
ASSUME BoundsAssumption ==
  Horizon \in Nat /\ MaxGrants \in Nat /\ Supply \in Nat /\ MaxAllowlist \in Nat

VARIABLES
  now,      \* env.ledger().timestamp()
  session,  \* DataKey::Session(signer)
  balance,  \* external: the escrow's balance in each token contract
  receipts, \* TransferExecutedV2 events, each with the grant it was paid under
  grants,   \* history: number of grants, per signer
  granted,  \* history: sum of the budgets granted, per signer
  paid      \* history: sum of the transfers executed, per signer

vars == <<now, session, balance, receipts, grants, granted, paid>>

SessionPolicy ==
  [allowed_destinations : SUBSET Places, allowed_assets : SUBSET Assets,
   per_payment_limit : 1 .. MaxI128, total_limit : 1 .. MaxI128, spent : 0 .. MaxI128,
   expires_at : Nat, revoked : BOOLEAN, next_nonce : 1 .. MaxU64]

ASSUME NoneAssumption == None \notin SessionPolicy

TransferReceipt ==
  [session_signer : Signers, grant : Nat, destination : Places, asset_contract : Assets,
   amount : Int, nonce : Nat, spent : Int, remaining_budget : Int, executed_at : Nat]

-----------------------------------------------------------------------------
(* grant_session and revoke_session *)

RequireOwner(caller) == caller = Owner

ValidPolicy(destinations, assets, per, total, expires_at) ==
  /\ destinations # {} /\ assets # {}
  /\ per > 0 /\ total >= per
  /\ expires_at > now
  /\ Cardinality(destinations) <= MaxAllowlist /\ Cardinality(assets) <= MaxAllowlist

\* A grant is a fresh policy: what an earlier one had spent is forgotten.
FreshCarriesSpent(s, destinations, assets, per, total, expires_at) ==   \* variant: no reset
  [allowed_destinations |-> destinations, allowed_assets |-> assets,
   per_payment_limit |-> per, total_limit |-> total,
   spent |-> IF session[s] = None THEN 0 ELSE session[s].spent,
   expires_at |-> expires_at, revoked |-> FALSE, next_nonce |-> 1]

Fresh(s, destinations, assets, per, total, expires_at) ==
  [allowed_destinations |-> destinations, allowed_assets |-> assets,
   per_payment_limit |-> per, total_limit |-> total, spent |-> 0,
   expires_at |-> expires_at, revoked |-> FALSE, next_nonce |-> 1]

GrantSession(caller, s, destinations, assets, per, total, expires_at) ==
  /\ RequireOwner(caller)
  /\ ValidPolicy(destinations, assets, per, total, expires_at)
  /\ grants[s] < MaxGrants
  /\ session' = [session EXCEPT ![s] = Fresh(s, destinations, assets, per, total, expires_at)]
  /\ grants' = [grants EXCEPT ![s] = @ + 1]
  /\ granted' = [granted EXCEPT ![s] = @ + total]
  /\ UNCHANGED <<now, balance, receipts, paid>>

RevokeSession(caller, s) ==
  /\ RequireOwner(caller)
  /\ session[s] # None
  /\ session' = [session EXCEPT ![s] = [session[s] EXCEPT !.revoked = TRUE]]
  /\ UNCHANGED <<now, balance, receipts, grants, granted, paid>>

-----------------------------------------------------------------------------
(* execute_allowed_transfer *)

ValidTransferIgnoringRevocation(policy, destination, asset, amount, nonce) ==   \* variant
  /\ now <= policy.expires_at
  /\ amount > 0 /\ amount <= policy.per_payment_limit
  /\ destination \in policy.allowed_destinations /\ asset \in policy.allowed_assets
  /\ nonce = policy.next_nonce

ValidTransfer(policy, destination, asset, amount, nonce) ==
  /\ ~policy.revoked /\ now <= policy.expires_at
  /\ amount > 0 /\ amount <= policy.per_payment_limit
  /\ destination \in policy.allowed_destinations /\ asset \in policy.allowed_assets
  /\ nonce = policy.next_nonce

\* checked_add on spent and on the nonce: the last nonce of a u64 cannot be used.
WithinBudgetPerPayment(policy, amount) ==   \* variant: only the limit of one payment
  policy.next_nonce + 1 <= MaxU64
WithinBudget(policy, amount) ==
  /\ policy.spent + amount <= MaxI128
  /\ policy.spent + amount <= policy.total_limit
  /\ policy.next_nonce + 1 <= MaxU64

Charged(policy, amount) ==
  [policy EXCEPT !.spent = @ + amount, !.next_nonce = @ + 1]

Receipt(s, destination, asset, amount, nonce) ==
  [session_signer |-> s, grant |-> grants[s], destination |-> destination,
   asset_contract |-> asset, amount |-> amount, nonce |-> nonce,
   spent |-> session[s].spent + amount,
   remaining_budget |-> session[s].total_limit - (session[s].spent + amount),
   executed_at |-> now]

\* The signer's authorization is the host's to check; the token transfer fails,
\* and with it the call, when the escrow holds less than the amount.
ExecuteAllowedTransfer(s, destination, asset, amount, nonce) ==
  /\ session[s] # None
  /\ ValidTransfer(session[s], destination, asset, amount, nonce)
  /\ WithinBudget(session[s], amount)
  /\ amount <= balance[asset]
  /\ session' = [session EXCEPT ![s] = Charged(session[s], amount)]
  /\ balance' = [balance EXCEPT ![asset] = @ - amount]
  /\ receipts' = receipts \cup {Receipt(s, destination, asset, amount, nonce)}
  /\ paid' = [paid EXCEPT ![s] = @ + amount]
  /\ UNCHANGED <<now, grants, granted>>

-----------------------------------------------------------------------------
(* owner_withdraw, deposits and time *)

OwnerWithdraw(caller, asset, amount) ==
  /\ RequireOwner(caller)
  /\ amount > 0 /\ amount <= balance[asset]
  /\ balance' = [balance EXCEPT ![asset] = @ - amount]
  /\ UNCHANGED <<now, session, receipts, grants, granted, paid>>

Deposit(asset) ==
  /\ balance[asset] < Supply
  /\ balance' = [balance EXCEPT ![asset] = @ + 1]
  /\ UNCHANGED <<now, session, receipts, grants, granted, paid>>

Tick ==
  /\ now < Horizon
  /\ now' = now + 1
  /\ UNCHANGED <<session, balance, receipts, grants, granted, paid>>

-----------------------------------------------------------------------------

Init ==
  /\ now = 0
  /\ session = [s \in Signers |-> None]
  /\ balance = [x \in Assets |-> 0]
  /\ receipts = {}
  /\ grants = [s \in Signers |-> 0]
  /\ granted = [s \in Signers |-> 0]
  /\ paid = [s \in Signers |-> 0]

OwnerCall ==
  \E caller \in Accounts :
    \/ \E s \in Signers, destinations \in SUBSET Places, assets \in SUBSET Assets,
          per, total \in Limits, expires_at \in 0 .. Horizon + 1 :
         GrantSession(caller, s, destinations, assets, per, total, expires_at)
    \/ \E s \in Signers : RevokeSession(caller, s)
    \/ \E asset \in Assets, amount \in Amounts : OwnerWithdraw(caller, asset, amount)

SignerCall ==
  \E s \in Signers, destination \in Places, asset \in Assets, amount \in Amounts,
     nonce \in 0 .. MaxU64 :
    ExecuteAllowedTransfer(s, destination, asset, amount, nonce)

Next == OwnerCall \/ SignerCall \/ (\E asset \in Assets : Deposit(asset)) \/ Tick

Spec == Init /\ [][Next]_vars

-----------------------------------------------------------------------------
(* Properties *)

TypeOK ==
  /\ now \in Nat
  /\ session \in [Signers -> SessionPolicy \cup {None}]
  /\ balance \in [Assets -> Nat]
  /\ receipts \subseteq TransferReceipt
  /\ grants \in [Signers -> Nat]
  /\ granted \in [Signers -> Nat]
  /\ paid \in [Signers -> Nat]

\* The events tell the whole story of a grant: its nonces are used once each
\* and in order, every event's running total is the one before it plus its own
\* amount, and the stored session stands where the last event left it.
ReceiptsAddUp ==
  /\ \A r \in receipts :
       /\ r.remaining_budget >= 0
       /\ IF r.nonce = 1 THEN r.spent = r.amount
          ELSE \E p \in receipts : /\ p.session_signer = r.session_signer /\ p.grant = r.grant
                                   /\ p.nonce = r.nonce - 1 /\ p.spent = r.spent - r.amount
                                   /\ p.executed_at <= r.executed_at
  /\ \A r, p \in receipts :
       (r.session_signer = p.session_signer /\ r.grant = p.grant /\ r.nonce = p.nonce) => r = p
  /\ \A s \in Signers : session[s] # None =>
       IF session[s].next_nonce = 1 THEN session[s].spent = 0
       ELSE \E r \in receipts : /\ r.session_signer = s /\ r.grant = grants[s]
                                /\ r.nonce = session[s].next_nonce - 1
                                /\ r.spent = session[s].spent

\* Granting again resets what was spent, but never lets a signer pay more in
\* its life than the budgets it was given.
PaidWithinGrants == \A s \in Signers : paid[s] <= granted[s]

\* What ReceiptsAddUp and PaidWithinGrants need to be inductive: events only
\* speak of grants already made, of the past, and of nonces already used; and
\* what a session may still pay is money its signer was granted and never paid.
EventsArePast ==
  \A r \in receipts :
    /\ r.grant <= grants[r.session_signer] /\ r.executed_at <= now
    /\ r.grant = grants[r.session_signer] =>
         /\ session[r.session_signer] # None
         /\ r.nonce < session[r.session_signer].next_nonce

BudgetCovered ==
  \A s \in Signers :
    IF session[s] = None THEN paid[s] <= granted[s]
    ELSE /\ session[s].spent <= session[s].total_limit
         /\ paid[s] + (session[s].total_limit - session[s].spent) <= granted[s]

\* The inductive invariant of the escrow.
EscrowInv == TypeOK /\ ReceiptsAddUp /\ EventsArePast /\ BudgetCovered

\* The refinement mapping: an allowance is open unless it is missing or revoked,
\* and what is left of it is what the policy has not spent.
OpenSigners == {s \in Signers : session[s] # None /\ ~session[s].revoked}
EndOf(s)  == IF session[s] = None THEN 0 ELSE session[s].expires_at
LeftOf(s) == IF session[s] = None THEN 0 ELSE session[s].total_limit - session[s].spent

Allowance == INSTANCE SessionAllowance WITH
  Spenders <- Signers,
  time <- now,
  open <- OpenSigners,
  ends <- [s \in Signers |-> EndOf(s)],
  left <- [s \in Signers |-> LeftOf(s)],
  paid <- paid

\* The contract implements an allowance that is opened, spent and closed: a
\* signer that was revoked or ran out of time or budget pays nothing.
AllowanceSpec == Allowance!Spec
=============================================================================
