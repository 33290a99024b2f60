--------------------------- MODULE SorobanTransfer ---------------------------
(***************************************************************************)
(* The supervised transfer: the admin endpoint                             *)
(* (src/adminSorobanTransfer.mjs, api/admin/soroban-transfer.mjs) with the *)
(* reports it keeps in the hub's state file (src/spendHubService.mjs), the *)
(* stellar CLI it runs (scripts/soroban-testnet-demo.mjs), the command     *)
(* that calls it (scripts/soroban-admin-transfer.mjs), and the owner and   *)
(* the session's holder, who run the demo script themselves.               *)
(*                                                                         *)
(* A handler gives up the thread at each of the two waits of save, mkdir   *)
(* and writeFile, and while the CLI runs; the state is written out as it   *)
(* is after mkdir.                                                         *)
(*                                                                         *)
(* Abstractions: the CLI's transactions may be included in any order; a    *)
(* call is made once, and the receipt is its nonce.                        *)
(***************************************************************************)
EXTENDS SorobanSmartWallet

CONSTANTS
  Calls,        \* POSTs to the endpoint
  Keys,         \* idempotency keys
  TinyMax,      \* SOROBAN_TINY_MAX_AMOUNT
  Signer,       \* SOROBAN_SESSION_PUBLIC_KEY
  Destination,  \* SOROBAN_TEST_DESTINATION
  Native,       \* SOROBAN_NATIVE_ASSET_CONTRACT_ID
  Allowlist,    \* SOROBAN_ALLOWED_PROVIDERS
  Torn,         \* a state file that is not JSON
  MaxRestarts,  \* bound: how often the process starts again
  Horizon       \* bound: ledger time

ASSUME EnvAssumption ==
  /\ Signer \in Signers /\ Destination \in Payees /\ Native \in Assets
  /\ Allowlist \subseteq Providers /\ TinyMax \in Nat
ASSUME HorizonAssumption == Horizon \in Nat

VARIABLES
  enabled,   \* whether this process may submit
  report,    \* state.sorobanExecutions
  file,      \* what the state file holds of it
  call,      \* the calls, with the snapshots they are writing out
  tx,        \* external: what became of the transaction of each call
  restarts,
  runs       \* history: CLI runs under each key since the file last forgot it

hvars == <<enabled, report, file, call, tx, restarts, runs>>
vars == <<wvars, hvars>>

Statuses == {"preview", "submitting", "settled", "failed"}

NoReport == [status |-> "none", nonce |-> None]
NoReports == [k \in Keys |-> NoReport]
Recorded(status, nonce) == [status |-> status, nonce |-> nonce]

\* variant: a submission under way is not loaded again
LoadedFinished == [k \in Keys |-> IF file[k].status = "submitting" THEN NoReport ELSE file[k]]

Loaded == file

Input == [mode : {"dry-run", "submit"}, key : Keys, amount : Int, provider : Providers, nonce : Nonces]

Idle == [pc |-> "idle", input |-> None, saving |-> "none", snap |-> NoReports, answer |-> NoReport]

-----------------------------------------------------------------------------
(* runAdminSorobanTransfer *)

Valid(input) ==
  /\ input.provider \in Allowlist
  /\ input.amount \in 1 .. TinyMax

\* What a call answers, unless it is a settled report, is not told apart.
Told(r) == IF r.status = "settled" THEN r ELSE NoReport

Answer(c, result) ==
  /\ call' = [call EXCEPT ![c].pc = "done", ![c].saving = "none", ![c].snap = NoReports, ![c].answer = Told(result)]
  /\ UNCHANGED report

\* variant: the report is recorded when the call is over
RecordFinished(c, status) ==
  IF status = "submitting" THEN UNCHANGED report
  ELSE report' = [report EXCEPT ![call'[c].input.key] = Recorded(status, None)]

\* recordSorobanExecution: in memory at once, then save.
Record(c, status) ==
  LET in == call'[c].input IN
  report' = [report EXCEPT ![in.key] = Recorded(status, IF status = "settled" THEN in.nonce ELSE None)]

Saves(c, input, status) ==
  /\ call' = [call EXCEPT ![c] = [pc |-> "save", input |-> input, saving |-> status,
                                  snap |-> NoReports, answer |-> NoReport]]
  /\ Record(c, status)

\* variant: a key that has failed may be tried again
UnseenOrFailed(key) == report[key].status \in {"none", "failed"}

Unseen(key) == report[key] = NoReport

SubmitEnabled == enabled

\* An unauthorized or invalid call is refused before it has an input.  A
\* submit that the environment forbids is recorded as failed.
Enter(c, input) ==
  /\ call[c].pc = "idle"
  /\ Valid(input)
  /\ Unseen(input.key)
  /\ \/ input.mode = "dry-run" /\ Saves(c, input, "preview")
     \/ input.mode = "submit" /\ SubmitEnabled /\ Saves(c, input, "submitting")
     \/ input.mode = "submit" /\ ~SubmitEnabled /\ Saves(c, input, "failed")
  /\ UNCHANGED <<wvars, enabled, file, tx, restarts, runs>>

Replay(c, input) ==
  /\ call[c].pc = "idle"
  /\ Valid(input)
  /\ ~Unseen(input.key)
  /\ call' = [call EXCEPT ![c].pc = "done", ![c].input = input, ![c].answer = Told(report[input.key])]
  /\ UNCHANGED <<wvars, enabled, report, file, tx, restarts, runs>>

\* save, between mkdir and writeFile.
Snapshot(c) ==
  /\ call[c].pc = "save"
  /\ call' = [call EXCEPT ![c].pc = "write", ![c].snap = report]
  /\ UNCHANGED <<wvars, enabled, report, file, tx, restarts, runs>>

Writing == {c \in Calls : call[c].pc = "write"}

\* Two writes of one file that overlap may leave a mixture behind.
Written(c) == {call[c].snap} \cup (IF Writing = {c} THEN {} ELSE {Torn})

AfterSave(c) ==
  \/ /\ call[c].saving = "submitting"
     /\ call' = [call EXCEPT ![c].pc = "run", ![c].saving = "none", ![c].snap = NoReports]
     /\ UNCHANGED report
  \/ /\ call[c].saving # "submitting"
     /\ Answer(c, report[call[c].input.key])

Write(c) ==
  /\ call[c].pc = "write"
  /\ file' \in Written(c)
  /\ AfterSave(c)
  /\ UNCHANGED <<wvars, enabled, tx, restarts, runs>>

\* The catch of runAdminSorobanTransfer: a submit is recorded as failed,
\* also when its settled report is in memory already.
Fails(c) ==
  IF call[c].input.mode = "submit" /\ call[c].saving # "failed"
  THEN Saves(c, call[c].input, "failed")
  ELSE Answer(c, Recorded("failed", None))

WriteFails(c) ==
  /\ call[c].pc = "write"
  /\ file' \in {file, Torn}
  /\ Fails(c)
  /\ UNCHANGED <<wvars, enabled, tx, restarts, runs>>

-----------------------------------------------------------------------------
(* The stellar CLI: simulates the call, sends it and waits for it *)

Payment(input) == [to |-> Destination, asset |-> Native, amount |-> input.amount,
                   provider |-> input.provider, nonce |-> input.nonce]

Run(c) ==
  /\ call[c].pc = "run"
  /\ runs' = [runs EXCEPT ![call[c].input.key] = @ + 1]
  /\ \/ /\ Transfers(Signer, Payment(call[c].input))
        /\ tx' = [tx EXCEPT ![c] = "sent"]
        /\ call' = [call EXCEPT ![c].pc = "running"]
        /\ UNCHANGED report
     \/ /\ Fails(c)
        /\ UNCHANGED tx
  /\ UNCHANGED <<wvars, enabled, file, restarts>>

\* The ledger executes the transaction, in time or long after the CLI has
\* given up on it, or finds that the contract no longer allows it.
Land(c) ==
  /\ tx[c] = "sent"
  /\ LET payment == Payment(call[c].input)
     IN \/ /\ ExecuteAllowedTransfer(Signer, payment)
           /\ tx' = [tx EXCEPT ![c] = "landed"]
        \/ /\ ~Transfers(Signer, payment)
           /\ tx' = [tx EXCEPT ![c] = "refused"]
           /\ UNCHANGED wvars
  /\ UNCHANGED <<enabled, report, file, call, restarts, runs>>

\* variant: a CLI that fails is taken for one that has finished
ExitOkAnyStatus(c) == tx[c] \in {"landed", "refused"}

ExitOk(c) == tx[c] = "landed"

\* A run that fails, times out, or prints no hash is a failure.
Finish(c) ==
  /\ call[c].pc = "running"
  /\ \/ ExitOk(c) /\ Saves(c, call[c].input, "settled")
     \/ Fails(c)
  /\ UNCHANGED <<wvars, enabled, file, tx, restarts, runs>>

-----------------------------------------------------------------------------
(* The process, the owner and the session's holder *)

\* The process stops anywhere and loads the state file when it starts again,
\* on the same machine or on one that has none.  A file that is not JSON
\* keeps it from starting until it is removed.
Restart(kept) ==
  /\ restarts < MaxRestarts
  /\ restarts' = restarts + 1
  /\ enabled' \in BOOLEAN
  /\ \/ kept /\ file # Torn /\ report' = Loaded /\ UNCHANGED file
     \/ ~kept /\ report' = NoReports /\ file' = NoReports
  /\ call' = [c \in Calls |-> IF call[c].pc \in {"idle", "done"} THEN call[c]
                              ELSE [call[c] EXCEPT !.pc = "done", !.saving = "none", !.snap = NoReports]]
  /\ runs' = [k \in Keys |-> IF file'[k] = NoReport THEN 0 ELSE runs[k]]
  /\ UNCHANGED <<wvars, tx>>

\* A process that stops while it writes may leave a part of it.
Tear ==
  /\ Writing # {}
  /\ restarts < MaxRestarts
  /\ file' = Torn
  /\ UNCHANGED <<wvars, enabled, report, call, tx, restarts, runs>>

\* soroban-testnet-demo.mjs --execute: grant and fund-contract are the
\* owner's, execute and transfer the session holder's.
OwnerActs ==
  /\ \/ \E s \in Signers, policy \in Policies : Grant(s, policy)
     \/ \E s \in Signers : Revoke(s)
     \/ balance = 0 /\ Deposit(MaxAmount)
  /\ UNCHANGED hvars

Scripted == [to : Payees, asset : Assets, amount : 0 .. MaxAmount, provider : Providers, nonce : Nonces]

SessionActs ==
  /\ \E s \in Signers, payment \in Scripted :
       ExecuteAllowedPayment(s, payment) \/ ExecuteAllowedTransfer(s, payment)
  /\ UNCHANGED hvars

Tick ==
  /\ time < Horizon
  /\ Close
  /\ UNCHANGED hvars

Inputs == {input \in [mode : {"dry-run", "submit"}, key : Keys, amount : 0 .. MaxAmount,
                      provider : Providers, nonce : Nonces] : Valid(input)}

Init ==
  /\ WInit
  /\ balance \in 0 .. MaxAmount
  /\ enabled \in BOOLEAN
  /\ report = NoReports /\ file = NoReports
  /\ call = [c \in Calls |-> Idle]
  /\ tx = [c \in Calls |-> "none"]
  /\ restarts = 0
  /\ runs = [k \in Keys |-> 0]

Next ==
  \/ \E c \in Calls :
       \/ \E input \in Inputs : Enter(c, input) \/ Replay(c, input)
       \/ Snapshot(c) \/ Write(c) \/ WriteFails(c)
       \/ Run(c) \/ Land(c) \/ Finish(c)
  \/ \E kept \in BOOLEAN : Restart(kept)
  \/ Tear
  \/ OwnerActs \/ SessionActs \/ Tick

Spec == Init /\ [][Next]_vars

-----------------------------------------------------------------------------
(* Properties *)

\* Types of the wallet's storage, the reports, the file and the calls.
TypeOK ==
  /\ time \in 0 .. Horizon
  /\ session \in [Signers -> Policy \cup {None}]
  /\ used \in [Signers -> SUBSET Nonces]
  /\ balance \in Nat
  /\ enabled \in BOOLEAN
  /\ file = Torn \/ DOMAIN file = Keys
  /\ \A k \in Keys : report[k].status \in Statuses \cup {"none"}
  /\ \A c \in Calls : /\ call[c].pc \in {"idle", "save", "write", "run", "running", "done"}
                      /\ call[c].pc # "idle" => call[c].input \in Input
                      /\ call[c].pc = "write" => call[c].snap[call[c].input.key] # NoReport

PaidUnder(k, nonce) ==
  \E c \in Calls : /\ tx[c] = "landed"
                   /\ call[c].input.key = k /\ call[c].input.nonce = nonce

Truthful(k, r) == r.status = "settled" => PaidUnder(k, r.nonce)

\* Whatever says "settled", in memory, in the state file or in an answer,
\* replays included, names a transfer that its key paid for with that nonce.
SettledIsPaid ==
  /\ \A k \in Keys : Truthful(k, report[k]) /\ (file # Torn => Truthful(k, file[k]))
  /\ \A c \in Calls : call[c].pc = "done" => Truthful(call[c].input.key, call[c].answer)

\* As long as the state file remembers a key, the CLI is run at most once for
\* it, across calls at once, failures and restarts, and never for a key that
\* was only previewed (docs/sprint-08-soroban-runtime.md, Recovery).
OneRunPerKey ==
  \A k \in Keys : /\ runs[k] <= 1
                  /\ report[k].status = "preview" => runs[k] = 0

\* A nonce of a session goes through at most once, whether the endpoint, the
\* demo script, or a CLI run that was given up on uses it, and across grants,
\* restarts and lost state files: retrying with the same nonce never pays twice.
RetriesPayOnce == \A s \in Signers, n \in Nonces : uses[s][n] <= 1

\* While a process runs, a report of a finished call is not changed by
\* another: only a settled one whose save failed becomes failed.
ReportsAreFinal ==
  [][\A k \in Keys :
       report[k].status \in {"preview", "settled", "failed"} /\ restarts' = restarts
         => \/ report'[k] = report[k]
            \/ report[k].status = "settled" /\ report'[k].status = "failed"]_vars
=============================================================================
