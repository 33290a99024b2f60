------------------------- MODULE SorobanSmartWallet -------------------------
(***************************************************************************)
(* The smart wallet contract                                               *)
(* (contracts/soroban-smart-wallet/src/lib.rs): the owner grants and       *)
(* revokes session policies, and a session signer executes payments, which *)
(* only leave an event, and transfers, which move the contract's asset.    *)
(* Both use up a nonce of the signer.  A call that panics, the transfer's  *)
(* asset call included, leaves nothing behind: it has no step here.        *)
(*                                                                         *)
(* Abstractions: the wallet is initialised and funded at the start; a      *)
(* signature is implied by who calls.                                      *)
(***************************************************************************)
EXTENDS Integers

CONSTANTS
  Signers,       \* session public keys
  Payees,        \* destinations
  Providers,     \* provider ids
  Assets,        \* asset contracts
  Nonces,        \* bound: the nonces anybody uses
  MaxAmount,     \* bound: the largest amount anybody asks for
  Policies,      \* bound: the policies the owner grants
  None           \* no session

ASSUME MaxAmountAssumption == MaxAmount \in Nat \ {0}
ASSUME NoPolicyAssumption == None \notin Policies

VARIABLES
  time,      \* ledger timestamp
  session,   \* DataKey::Session
  used,      \* DataKey::Nonce: the nonces each signer has used
  balance,   \* external: what the wallet holds in the asset contract
  uses       \* history: how often each nonce of a signer went through

wvars == <<time, session, used, balance, uses>>

Policy == [destinations : SUBSET Payees, providers : SUBSET Providers, assets : SUBSET Assets,
           limit : Int, ends : Nat, revoked : BOOLEAN]

ASSUME PoliciesAssumption == Policies \subseteq Policy

-----------------------------------------------------------------------------
(* The owner *)

\* variant: a grant starts the signer's nonces anew
GrantFresh(s, policy) ==
  /\ session' = [session EXCEPT ![s] = policy]
  /\ used' = [used EXCEPT ![s] = {}]
  /\ UNCHANGED <<time, balance, uses>>

\* grant_session stores what it is given; the signer's used nonces stay used.
Grant(s, policy) ==
  /\ session' = [session EXCEPT ![s] = policy]
  /\ UNCHANGED <<time, used, balance, uses>>

Revoke(s) ==
  /\ session[s] # None
  /\ session' = [session EXCEPT ![s].revoked = TRUE]
  /\ UNCHANGED <<time, used, balance, uses>>

-----------------------------------------------------------------------------
(* The session signer *)

NonceUnused(s, nonce) == nonce \notin used[s]

\* validate_session_payment: being an allowed destination or naming an
\* allowed provider is enough; amounts have no lower bound.
Validates(s, payment) ==
  /\ session[s] # None
  /\ ~session[s].revoked
  /\ time <= session[s].ends
  /\ payment.amount <= session[s].limit
  /\ payment.to \in session[s].destinations \/ payment.provider \in session[s].providers
  /\ NonceUnused(s, payment.nonce)

Uses(s, nonce) ==
  /\ used' = [used EXCEPT ![s] = @ \cup {nonce}]
  /\ uses' = [uses EXCEPT ![s][nonce] = @ + 1]

ExecuteAllowedPayment(s, payment) ==
  /\ Validates(s, payment)
  /\ Uses(s, payment.nonce)
  /\ UNCHANGED <<time, session, balance>>

\* The asset contract refuses negative amounts and what the wallet does not
\* have, and with it the whole call is undone, its nonce included.
Transfers(s, payment) ==
  /\ Validates(s, payment)
  /\ payment.asset \in session[s].assets
  /\ payment.amount \in 0 .. balance

ExecuteAllowedTransfer(s, payment) ==
  /\ Transfers(s, payment)
  /\ Uses(s, payment.nonce)
  /\ balance' = balance - payment.amount
  /\ UNCHANGED <<time, session>>

-----------------------------------------------------------------------------

Deposit(amount) ==
  /\ balance' = balance + amount
  /\ UNCHANGED <<time, session, used, uses>>

Close ==
  /\ time' = time + 1
  /\ UNCHANGED <<session, used, balance, uses>>

WInit ==
  /\ time = 0
  /\ session = [s \in Signers |-> None]
  /\ used = [s \in Signers |-> {}]
  /\ uses = [s \in Signers |-> [n \in Nonces |-> 0]]
=============================================================================
