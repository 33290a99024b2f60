-------------------------- MODULE ContractAccount ---------------------------
(***************************************************************************)
(* The contract account in use: the wallet page, the agent's payment       *)
(* script and the fixture script prepare, sign and submit through the      *)
(* relayer; a delivery of a submit call may be repeated; the holder of a   *)
(* session key may also send a transaction of its own.                     *)
(***************************************************************************)
EXTENDS ContractAccountCeremony

CONSTANTS
  Wallets,     \* the owner's wallet page (src/client/pages/wallet.mjs)
  Agents,      \* agents (scripts/contract-account-testnet.mjs)
  Fixtures,    \* the fixture script (scripts/contract-account-fixture-e2e.mjs)
  Repeats,     \* repeated deliveries of a submit call
  Horizon      \* bound: the clock stops here

ASSUME ClientsAssumption ==
  /\ Submits = Wallets \cup Agents \cup Fixtures \cup Repeats
  /\ Horizon \in Nat

vars == <<cvars, rvars, dvars>>

Clients == Wallets \cup Agents \cup Fixtures

-----------------------------------------------------------------------------
(* What each client asks for *)

\* The fixture grants, pays and revokes, and stops at the first failure.
AfterLast == [idle |-> "grant", grant |-> "transfer", transfer |-> "revoke", revoke |-> "end"]

FixtureWants(c, canonical) ==
  /\ call[c].pc \in {"idle", "ok"}
  /\ canonical.action =
       AfterLast[IF At(c, "idle") THEN "idle" ELSE request[call[c].of].canonical.action]

WalletWants(c, canonical) ==
  /\ call[c].pc \in {"idle", "ok", "error"}
  /\ canonical.action \in {"grant", "revoke"}

\* The script runs once and ends; another run is another agent.
AgentWants(c, canonical) ==
  /\ At(c, "idle")
  /\ canonical = CanonicalTransfer(PerPayment)

Wants(c, canonical) ==
  \/ c \in Fixtures /\ FixtureWants(c, canonical)
  \/ c \in Wallets /\ WalletWants(c, canonical)
  \/ c \in Agents /\ AgentWants(c, canonical)

RuntimeEnabled == inUse

Ask(c) ==
  /\ RuntimeEnabled
  /\ \E canonical \in Canonicals : Wants(c, canonical) /\ Prepare(c, canonical)
  /\ UNCHANGED dvars

-----------------------------------------------------------------------------
(* Signing and delivery *)

\* An assertion must be of the signer type of the prepared action, but an
\* entry that is signed already is taken as it is: whoever holds a session
\* key, or the owner's passkey (None), may have signed what is submitted.
SignedBy == Signers \cup {None}

Submit(c) ==
  /\ At(c, "sign")
  /\ \E key \in SignedBy : Consume(c, call[c].of, key)
  /\ UNCHANGED dvars

Repeat(c) ==
  /\ At(c, "idle")
  /\ \E k \in Clients :
       /\ call[k].pc \notin {"idle", "sign"}
       /\ Consume(c, call[k].of, call[k].key)
  /\ UNCHANGED dvars

\* Who holds a key needs no relayer, nor its amounts; when the owner takes
\* funds out, it takes all (bound).
Direct ==
  /\ SessionActs \/ OwnerTransfer(balance)
  /\ UNCHANGED <<rvars, dvars>>

Tick ==
  /\ time < Horizon
  /\ Pass
  /\ UNCHANGED <<rvars, dvars>>

-----------------------------------------------------------------------------
Init == CInit /\ RInit /\ DInit

Next ==
  \/ \E k \in Ceremonies : Register(k)
  \/ \E d \in Deploys :
       \/ \E k \in Ceremonies \cup {None} : StartDeploy(d, k)
       \/ DeployStep(d) \/ LandDeployment(d) \/ CrashDeploy(d)
  \/ \E c \in Clients : Ask(c) \/ Submit(c)
  \/ \E c \in Repeats : Repeat(c)
  \/ \E c \in Submits : (SubmitStep(c) \/ Crash(c) \/ \E r \in Requests : Land(c, r)) /\ UNCHANGED dvars
  \/ Direct
  \/ Tick

Spec == Init /\ [][Next]_vars

-----------------------------------------------------------------------------
(* Properties *)

\* Stores, invocations, transactions and the contract keep their types.
TypeOK ==
  /\ time \in Nat /\ balance \in Nat /\ paid \in Nat /\ sequence \in Nat
  /\ session \in SessionPolicy
  /\ request \in [Requests -> Request]
  /\ receipts \subseteq Requests /\ listed \subseteq Requests
  /\ call \in [Submits -> Call]
  /\ tx \in [Names -> Tx]
  /\ ceremony \in [Ceremonies -> Ceremony]
  /\ job \in [Deploys -> Job]
  /\ inUse \in BOOLEAN

OnTheWay == {"pending", "success", "failed"}
Carriers(r) == {c \in Submits : tx[<<c, r>>].state \in OnTheWay}
Landed(r) == \E c \in Submits : tx[<<c, r>>].state = "success"

\* However often a submit call is delivered, and whatever failed before, a
\* prepared request (contractAccountRepository.mjs consumeRequest) is sent
\* to the network in one transaction at most.
OneTransactionPerRequest == \A r \in Requests : Cardinality(Carriers(r)) <= 1

\* A receipt, stored or listed, and a successful answer stand for an
\* operation the ledger has executed (contractAccountRelayer.mjs submit).
ReceiptsAreSettled ==
  /\ listed \subseteq receipts
  /\ \A r \in receipts : Landed(r)
  /\ \A c \in Submits : At(c, "ok") => call[c].of \in listed

\* Two administrators' deploy calls for one ceremony, at once or after an
\* error, send one deployment at most (contractAccountCeremony.mjs claim).
OneDeploymentPerCeremony ==
  \A k \in Ceremonies :
    Cardinality({d \in Deploys : job[d].of = k /\ tx[Deployment(d)].state \in OnTheWay}) <= 1

\* A ceremony recorded as deployed names a contract that is on the ledger
\* and was deployed for it (adminContractAccountDeploy.mjs).
DeployedIsReal ==
  \A k \in Ceremonies : ceremony[k].status = "deployed" =>
    LET d == ceremony[k].contract IN
    d \in Deploys /\ job[d].of = k /\ tx[Deployment(d)].state = "success"

\* Nothing is sent any more for a request recorded as failed, though what was
\* sent before may still land (contractAccountRelayer.mjs markFailed).
FailedIsFinal ==
  [][\A r \in Requests : request[r].status = "failed" =>
       Carriers(r)' = Carriers(r) /\ (request[r].status)' = "failed"]_vars
=============================================================================
