--------------------------- MODULE SpendAccountV1 ---------------------------
(***************************************************************************)
(* The contract account (contracts/spend-account-v1/src/lib.rs).  The      *)
(* owner's passkey may grant, revoke and transfer; the one session key it  *)
(* has granted may transfer within the policy.  __check_auth judges and    *)
(* charges all the contexts of a transaction at once, and the transfers    *)
(* follow in the same transaction: if one of them fails the host undoes    *)
(* the charge too, so authorization and transfers are one step here.       *)
(* The transactions of the sessions' holders and of the owner that do not  *)
(* pass through the relayer are the actions of this module.                *)
(*                                                                         *)
(* Abstractions: a signature is named by the key that made it; one amount  *)
(* unit is the 0.01 USDC of a payment; the two allowlists are sets.        *)
(***************************************************************************)
EXTENDS Integers, Sequences, FiniteSets

CONSTANTS
  Signers,       \* session public keys
  Payees,        \* transfer destinations
  Assets,        \* asset contracts
  MaxEntries,    \* entries of an allowlist: 16 in the code
  MaxLimit,      \* bound: the largest per-payment or total limit granted
  None           \* no session

ASSUME MaxEntriesAssumption == MaxEntries \in Nat \ {0}
ASSUME MaxLimitAssumption == MaxLimit \in Nat \ {0}
ASSUME NoSignerAssumption == None \notin Signers

VARIABLES
  time,      \* ledger close time
  session,   \* DataKey::Session
  balance,   \* external: what the account holds in the asset contract
  paid       \* history: what sessions have paid out of the account

cvars == <<time, session, balance, paid>>

SessionPolicy == [signer : Signers \cup {None}, destinations : SUBSET Payees, assets : SUBSET Assets,
                  per : Nat, total : Nat, spent : Nat, ends : Nat, revoked : BOOLEAN]

NoSession == [signer |-> None, destinations |-> {}, assets |-> {},
              per |-> 0, total |-> 0, spent |-> 0, ends |-> 0, revoked |-> FALSE]

Context == [asset : Assets, to : Payees, amount : 0 .. MaxLimit]

\* The contexts of one authorization; bound: at most two.
Contexts == {<<c>> : c \in Context} \cup Context \X Context

Charge(contexts) == IF Len(contexts) = 1 THEN contexts[1].amount
                                         ELSE contexts[1].amount + contexts[2].amount

-----------------------------------------------------------------------------
(* The owner, whose passkey signs for the account itself *)

ValidPolicy(destinations, assets, per, total, ends) ==
  /\ Cardinality(destinations) \in 1 .. MaxEntries
  /\ Cardinality(assets) \in 1 .. MaxEntries
  /\ per > 0 /\ total >= per
  /\ ends > time

Fresh(s, destinations, assets, per, total, ends) ==
  [signer |-> s, destinations |-> destinations, assets |-> assets, per |-> per,
   total |-> total, spent |-> 0, ends |-> ends, revoked |-> FALSE]

Grant(s, destinations, assets, per, total, ends) ==
  /\ ValidPolicy(destinations, assets, per, total, ends)
  /\ session' = Fresh(s, destinations, assets, per, total, ends)
  /\ UNCHANGED <<time, balance, paid>>

Revoke ==
  /\ session # NoSession
  /\ session' = [session EXCEPT !.revoked = TRUE]
  /\ UNCHANGED <<time, balance, paid>>

\* validate_transfer_args asks an owner's transfer for a positive amount only.
OwnerTransfer(amount) ==
  /\ amount > 0 /\ amount <= balance
  /\ balance' = balance - amount
  /\ UNCHANGED <<time, session, paid>>

-----------------------------------------------------------------------------
(* The session: verify_session_signature, verify_session_policy *)

SessionSigns(s) ==
  /\ session # NoSession
  /\ ~session.revoked
  /\ time <= session.ends
  /\ session.signer = s

Allowed(c) ==
  /\ c.asset \in session.assets
  /\ c.amount > 0
  /\ c.to \in session.destinations
  /\ c.amount <= session.per

\* variant: each payment alone is compared with the budget
WithinBudgetPerPayment(contexts) ==
  \A i \in DOMAIN contexts : contexts[i].amount <= session.total

WithinBudget(contexts) == session.spent + Charge(contexts) <= session.total

Authorizes(s, contexts) ==
  /\ SessionSigns(s)
  /\ \A i \in DOMAIN contexts : Allowed(contexts[i])
  /\ WithinBudget(contexts)

Transfer(s, contexts) ==
  /\ Authorizes(s, contexts)
  /\ Charge(contexts) <= balance
  /\ session' = [session EXCEPT !.spent = @ + Charge(contexts)]
  /\ balance' = balance - Charge(contexts)
  /\ paid' = paid + Charge(contexts)
  /\ UNCHANGED time

-----------------------------------------------------------------------------
(* extend_ttl changes nothing the policy reads and has no action. *)

CInit ==
  /\ time = 0
  /\ session = NoSession
  /\ balance \in 0 .. MaxLimit
  /\ paid = 0

OwnerActs ==
  \/ \E s \in Signers, per, total \in 0 .. MaxLimit, ends \in {time, time + 1} :
       Grant(s, Payees, Assets, per, total, ends)
  \/ Revoke
  \/ \E amount \in 1 .. MaxLimit : OwnerTransfer(amount)

SessionActs == \E s \in Signers, contexts \in Contexts : Transfer(s, contexts)

Deposit(amount) ==
  /\ balance' = balance + amount
  /\ UNCHANGED <<time, session, paid>>

Pass ==
  /\ time' = time + 1
  /\ UNCHANGED <<session, balance, paid>>

CNext == OwnerActs \/ SessionActs \/ Pass \/ \E amount \in 1 .. MaxLimit : Deposit(amount)

ContractSpec == CInit /\ [][CNext]_cvars

-----------------------------------------------------------------------------
(* The abstract allowance this contract gives its one session slot.        *)

Slot == "session"
IsOpen == session # NoSession /\ ~session.revoked

\* Whoever holds the slot, the contract is an allowance: payments come out
\* of the budget of the last grant, while it is neither revoked nor ended.
Allowance == INSTANCE SessionAllowance WITH
  Spenders <- {Slot},
  open <- IF IsOpen THEN {Slot} ELSE {},
  ends <- [x \in {Slot} |-> session.ends],
  left <- [x \in {Slot} |-> session.total - session.spent],
  paid <- [x \in {Slot} |-> paid]
AllowanceSpec == Allowance!Spec
=============================================================================
