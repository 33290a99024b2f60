----------------------- MODULE ContractAccountRelayer -----------------------
(***************************************************************************)
(* The relayer that carries an owner's and an agent's signed requests to   *)
(* the contract account (src/contractAccountRelayer.mjs), its request and  *)
(* receipt store (src/contractAccountRepository.mjs), and the Stellar      *)
(* account it pays from.  Every submit call is an invocation of its own;   *)
(* invocations interleave at their calls to the store and to the network,  *)
(* and a process may stop at any of them.                                  *)
(*                                                                         *)
(* Abstractions: a transaction is named by the call that built it and the  *)
(* request it carries, an authorization nonce by its request; XDR, fees,   *)
(* formats and the rate limit are refusals that change nothing.            *)
(***************************************************************************)
EXTENDS SpendAccountV1

CONSTANTS
  Requests,       \* request ids (UUIDs)
  Submits,        \* submit invocations: one per client or repeated delivery
  Deploys,        \* deploy invocations, which share the relayer's account
  Merchant,       \* CONTRACT_ACCOUNT_MERCHANT
  USDC,           \* the testnet USDC contract
  PerPayment,     \* CONTRACT_ACCOUNT_PER_PAYMENT_LIMIT
  TotalLimit,     \* CONTRACT_ACCOUNT_TOTAL_LIMIT
  SessionTTL,     \* 24 hours, in ticks
  RequestTTL,     \* REQUEST_TTL_SECONDS, in ticks
  SignatureTTL,   \* 120 ledgers, in ticks
  TxTimeout       \* setTimeout(300), in ticks

ASSUME RelayerAssumption ==
  /\ Merchant \in Payees /\ USDC \in Assets
  /\ PerPayment \in 1 .. MaxLimit /\ TotalLimit \in PerPayment .. MaxLimit
  /\ {SessionTTL, RequestTTL, SignatureTTL, TxTimeout} \subseteq Nat \ {0}
  /\ Submits \cap Deploys = {} /\ None \notin Requests

\* A call submits a request at most once; a deployment carries none.
Names == Submits \X Requests \cup Deploys \X {None}

VARIABLES
  request,    \* the stored requests, until they expire
  receipts,   \* stored receipts, by request
  listed,     \* receipts on the public list
  call,       \* the invocation each caller waits for
  tx,         \* external: the transactions built, by name
  sequence    \* external: the relayer account's sequence number

rvars == <<request, receipts, listed, call, tx, sequence>>

Action == {"grant", "revoke", "transfer"}
Canonical == [action : Action, signer : Signers \cup {None}, amount : 0 .. MaxLimit, ends : Nat]
NoCanonical == [action |-> "revoke", signer |-> None, amount |-> 0, ends |-> 0]

Request == [status : {"absent", "prepared", "submitting", "failed"}, canonical : Canonical,
            until : Nat, signatureEnds : Nat]
NoRequest == [status |-> "absent", canonical |-> NoCanonical, until |-> 0, signatureEnds |-> 0]

Present(r) == request[r].status # "absent" /\ time < request[r].until

Pc == {"idle", "sign", "build", "send", "poll", "record", "list",
       "failRead", "failWrite", "ok", "error"}
Running == {"build", "send", "poll", "record", "list", "failRead", "failWrite"}
Call == [pc : Pc, of : Requests \cup {None}, key : Signers \cup {None}]
IdleCall == [pc |-> "idle", of |-> None, key |-> None]

At(c, pc) == call[c].pc = pc
Goto(c, pc) == call' = [call EXCEPT ![c].pc = pc]
Name(c) == <<c, call[c].of>>

-----------------------------------------------------------------------------
(* The relayer's account on the network *)

TxState == {"none", "built", "pending", "success", "failed"}
Tx == [state : TxState, key : Signers \cup {None}, seq : Nat, until : Nat]
NoTx == [state |-> "none", key |-> None, seq |-> 0, until |-> 0]

\* getAccount and TransactionBuilder: the sequence number is the one read now.
BuildTx(n, key) == tx' = [tx EXCEPT ![n] =
  [state |-> "built", key |-> key, seq |-> sequence + 1, until |-> time + TxTimeout]]

SendTx(n) == tx' = [tx EXCEPT ![n].state = "pending"]

\* Transactions built on the same reading of the account exclude each other.
Includable(n) == tx[n].state = "pending" /\ tx[n].seq = sequence + 1 /\ time < tx[n].until

Include(n, state) ==
  /\ tx' = [tx EXCEPT ![n] = [NoTx EXCEPT !.state = state]]
  /\ sequence' = sequence + 1

-----------------------------------------------------------------------------
(* prepare *)

CanonicalGrant(s) == [action |-> "grant", signer |-> s, amount |-> 0, ends |-> time + SessionTTL]
CanonicalRevoke == NoCanonical
CanonicalTransfer(amount) == [action |-> "transfer", signer |-> None, amount |-> amount, ends |-> 0]

Canonicals ==
  {CanonicalGrant(s) : s \in Signers} \cup {CanonicalRevoke}
    \cup {CanonicalTransfer(amount) : amount \in 1 .. PerPayment}

Payment(canonical) == <<[asset |-> USDC, to |-> Merchant, amount |-> canonical.amount]>>

\* The recording simulation runs the operation without judging signatures.
Simulates(canonical) ==
  \/ canonical.action = "grant"
  \/ canonical.action = "revoke" /\ session # NoSession
  \/ canonical.action = "transfer" /\ canonical.amount <= balance

Prepared(canonical) ==
  [status |-> "prepared", canonical |-> canonical,
   until |-> time + RequestTTL, signatureEnds |-> time + SignatureTTL]

Prepare(c, canonical) ==
  /\ Simulates(canonical)
  /\ \E r \in Requests :
       /\ request[r] = NoRequest
       /\ request' = [request EXCEPT ![r] = Prepared(canonical)]
       /\ call' = [call EXCEPT ![c] = [pc |-> "sign", of |-> r, key |-> None]]
  /\ UNCHANGED <<cvars, receipts, listed, tx, sequence>>

-----------------------------------------------------------------------------
(* submit: consume the request, once *)

\* variant: the status is not part of the atomic script
ConsumableUnchecked(r) == Present(r)

Consumable(r) == Present(r) /\ request[r].status = "prepared"

Consumed(r) == [request[r] EXCEPT !.status = "submitting", !.until = time + RequestTTL]

Consume(c, r, key) ==
  /\ \/ /\ Consumable(r)
        /\ request' = [request EXCEPT ![r] = Consumed(r)]
        /\ call' = [call EXCEPT ![c] = [pc |-> "build", of |-> r, key |-> key]]
     \/ /\ ~Consumable(r)
        /\ call' = [call EXCEPT ![c] = [pc |-> "error", of |-> r, key |-> key]]
        /\ UNCHANGED request
  /\ UNCHANGED <<cvars, receipts, listed, tx, sequence>>

-----------------------------------------------------------------------------
(* submit: the executor's build, simulation, sending and polling *)

\* A nonce is spent by the transaction that succeeds.
NonceFree(r) == \A c \in Submits : tx[<<c, r>>].state # "success"

\* Would the contract accept the request, signed with this key, now?
Accepts(r, key) ==
  LET canonical == request[r].canonical IN
  /\ NonceFree(r) /\ time <= request[r].signatureEnds
  /\ \/ /\ canonical.action = "grant" /\ key = None
        /\ ValidPolicy({Merchant}, {USDC}, PerPayment, TotalLimit, canonical.ends)
     \/ canonical.action = "revoke" /\ key = None /\ session # NoSession
     \/ /\ canonical.action = "transfer" /\ canonical.amount <= balance
        /\ key = None \/ Authorizes(key, Payment(canonical))

\* getAccount, and the enforcing simulation of what was signed.
Build(c) ==
  /\ At(c, "build")
  /\ \/ /\ Accepts(call[c].of, call[c].key)
        /\ BuildTx(Name(c), call[c].key)
        /\ Goto(c, "send")
     \/ Goto(c, "failRead") /\ UNCHANGED tx
  /\ UNCHANGED <<cvars, request, receipts, listed, sequence>>

\* The call may fail before the network has the transaction, or after.
Send(c) ==
  /\ At(c, "send")
  /\ \/ SendTx(Name(c)) /\ Goto(c, "poll")
     \/ SendTx(Name(c)) /\ Goto(c, "failRead")
     \/ Goto(c, "failRead") /\ UNCHANGED tx
  /\ UNCHANGED <<cvars, request, receipts, listed, sequence>>

\* The ledger runs the signed operation; one that fails changes nothing.
Execute(c, r) ==
  LET canonical == request[r].canonical  key == tx[<<c, r>>].key IN
  IF Accepts(r, key)
  THEN /\ Include(<<c, r>>, "success")
       /\ \/ /\ canonical.action = "grant"
             /\ Grant(canonical.signer, {Merchant}, {USDC}, PerPayment, TotalLimit, canonical.ends)
          \/ canonical.action = "revoke" /\ Revoke
          \/ canonical.action = "transfer" /\ key = None /\ OwnerTransfer(canonical.amount)
          \/ canonical.action = "transfer" /\ key # None /\ Transfer(key, Payment(canonical))
  ELSE Include(<<c, r>>, "failed") /\ UNCHANGED cvars

Land(c, r) ==
  /\ Includable(<<c, r>>)
  /\ Execute(c, r)
  /\ UNCHANGED <<request, receipts, listed, call>>

\* variant: any status other than NOT_FOUND counts as settled
SettledUnchecked(c) == tx[Name(c)].state \in {"success", "failed"}

Settled(c) == tx[Name(c)].state = "success"

\* Thirty attempts, or an error of the network, end the wait at any time.
Poll(c) ==
  /\ At(c, "poll")
  /\ \/ Settled(c) /\ Goto(c, "record")
     \/ Goto(c, "failRead")
  /\ UNCHANGED <<cvars, request, receipts, listed, tx, sequence>>

-----------------------------------------------------------------------------
(* submit: the receipt, and the failure that any error becomes *)

SaveReceipt(c) ==
  /\ At(c, "record")
  /\ \/ receipts' = receipts \cup {call[c].of} /\ Goto(c, "list")
     \/ Goto(c, "failRead") /\ UNCHANGED receipts
  /\ UNCHANGED <<cvars, request, listed, tx, sequence>>

\* lpush, ltrim and expire: the last two may fail with the receipt listed.
ListReceipt(c) ==
  /\ At(c, "list")
  /\ \/ listed' = listed \cup {call[c].of} /\ Goto(c, "ok")
     \/ listed' = listed \cup {call[c].of} /\ Goto(c, "failRead")
     \/ Goto(c, "failRead") /\ UNCHANGED listed
  /\ UNCHANGED <<cvars, request, receipts, tx, sequence>>

\* markFailed reads and then writes; the record may expire before, and
\* between, and is then left alone or brought back as failed.
FailRead(c) ==
  /\ At(c, "failRead")
  /\ Goto(c, IF Present(call[c].of) THEN "failWrite" ELSE "error")
  /\ UNCHANGED <<cvars, request, receipts, listed, tx, sequence>>

\* variant: a failed request is put back for another attempt
FailedRestored(r) == [request[r] EXCEPT !.status = "prepared", !.until = time + RequestTTL]

Failed(r) == [request[r] EXCEPT !.status = "failed", !.until = time + RequestTTL]

FailWrite(c) ==
  /\ At(c, "failWrite")
  /\ \/ request' = [request EXCEPT ![call[c].of] = Failed(call[c].of)]
     \/ UNCHANGED request
  /\ Goto(c, "error")
  /\ UNCHANGED <<cvars, receipts, listed, tx, sequence>>

\* The process stops, and the caller sees an error.
Crash(c) ==
  /\ call[c].pc \in Running
  /\ Goto(c, "error")
  /\ UNCHANGED <<cvars, request, receipts, listed, tx, sequence>>

SubmitStep(c) ==
  \/ Build(c) \/ Send(c) \/ Poll(c) \/ SaveReceipt(c)
  \/ ListReceipt(c) \/ FailRead(c) \/ FailWrite(c)

RInit ==
  /\ request = [r \in Requests |-> NoRequest]
  /\ receipts = {}
  /\ listed = {}
  /\ call = [c \in Submits |-> IdleCall]
  /\ tx = [n \in Names |-> NoTx]
  /\ sequence = 0
=============================================================================
