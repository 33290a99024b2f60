------------------------ MODULE SorobanTransferProofs ------------------------
(***************************************************************************)
(* Proofs about the supervised transfer, for every number of calls, keys,  *)
(* signers and nonces and any number of restarts: what says settled is     *)
(* paid, a key is run once while it is remembered, a nonce never pays      *)
(* twice, and what is reported of a finished call stays.                   *)
(***************************************************************************)
EXTENDS SorobanTransfer, TLAPS

-----------------------------------------------------------------------------
(* The wallet *)

\* A nonce that is not used has not gone through, one that is, once.
WalletInv ==
  /\ time \in 0 .. Horizon
  /\ session \in [Signers -> Policy \cup {None}]
  /\ used \in [Signers -> SUBSET Nonces]
  /\ balance \in Nat
  /\ uses \in [Signers -> [Nonces -> {0, 1}]]
  /\ \A s \in Signers, n \in Nonces : n \notin used[s] => uses[s][n] = 0

\* What the contract accepts uses up a nonce that was not used.
LEMMA UsesFacts ==
  ASSUME WalletInv, NEW s \in Signers, NEW n \in Nonces, n \notin used[s], Uses(s, n)
  PROVE  /\ used' \in [Signers -> SUBSET Nonces]
         /\ uses' \in [Signers -> [Nonces -> {0, 1}]]
         /\ \A t \in Signers, m \in Nonces : m \notin used'[t] => uses'[t][m] = 0
<1>1. used' = [used EXCEPT ![s] = used[s] \cup {n}] /\ uses' = [uses EXCEPT ![s] = [uses[s] EXCEPT ![n] = uses[s][n] + 1]]
  BY DEF Uses
<1>2. uses[s][n] = 0 /\ uses[s] \in [Nonces -> {0, 1}]
  BY DEF WalletInv
<1>3. [uses[s] EXCEPT ![n] = uses[s][n] + 1] = [uses[s] EXCEPT ![n] = 1]
  BY <1>2
<1>4. [uses[s] EXCEPT ![n] = 1] \in [Nonces -> {0, 1}]
  BY <1>2
<1>5. used' \in [Signers -> SUBSET Nonces] /\ uses' \in [Signers -> [Nonces -> {0, 1}]]
  BY <1>1, <1>3, <1>4 DEF WalletInv
<1>6. ASSUME NEW t \in Signers, NEW m \in Nonces, m \notin used'[t]  PROVE uses'[t][m] = 0
  <2>1. CASE t = s
    <3>1. m # n /\ m \notin used[s] /\ uses'[t] = [uses[s] EXCEPT ![n] = 1]
      BY <1>1, <1>3, <1>6, <2>1 DEF WalletInv
    <3> QED  BY <1>2, <2>1, <3>1 DEF WalletInv
  <2>2. CASE t # s
    BY <1>1, <1>6, <2>2 DEF WalletInv
  <2> QED  BY <2>1, <2>2
<1> QED  BY <1>5, <1>6

LEMMA TransferPreserves ==
  ASSUME WalletInv, NEW s \in Signers, NEW payment, payment.nonce \in Nonces, payment.amount \in Int,
         ExecuteAllowedPayment(s, payment) \/ ExecuteAllowedTransfer(s, payment)
  PROVE  WalletInv'
<1>1. payment.nonce \notin used[s] /\ Uses(s, payment.nonce) /\ UNCHANGED <<time, session>>
  BY DEF ExecuteAllowedPayment, ExecuteAllowedTransfer, Transfers, Validates, NonceUnused
<1>2. balance' \in Nat
  BY DEF WalletInv, ExecuteAllowedPayment, ExecuteAllowedTransfer, Transfers
<1> QED  BY <1>1, <1>2, UsesFacts DEF WalletInv

LEMMA GrantPreserves ==
  ASSUME WalletInv, NEW s \in Signers, NEW policy \in Policies, Grant(s, policy)
  PROVE  WalletInv'
BY PoliciesAssumption DEF WalletInv, Grant

LEMMA RevokePreserves ==
  ASSUME WalletInv, NEW s \in Signers, Revoke(s)
  PROVE  WalletInv'
<1>1. session[s] \in Policy
  BY DEF WalletInv, Revoke
<1>2. [session[s] EXCEPT !.revoked = TRUE] \in Policy
  BY <1>1 DEF Policy
<1>3. session' = [session EXCEPT ![s] = [session[s] EXCEPT !.revoked = TRUE]] /\ UNCHANGED <<time, used, balance, uses>>
  BY DEF Revoke
<1> QED  BY <1>2, <1>3 DEF WalletInv

LEMMA WalletInit == WInit /\ balance \in 0 .. MaxAmount => WalletInv
BY MaxAmountAssumption, HorizonAssumption DEF WInit, WalletInv

-----------------------------------------------------------------------------
(* The endpoint *)

ReportRecord == [status : Statuses \cup {"none"}, nonce : Nonces \cup {None}]
Reports == [Keys -> ReportRecord]
CallRecord == [pc : {"idle", "save", "write", "run", "running", "done"}, input : Input \cup {None},
               saving : Statuses \cup {"none"}, snap : Reports, answer : ReportRecord]

Shapes ==
  /\ enabled \in BOOLEAN
  /\ report \in Reports
  /\ file \in Reports \cup {Torn}
  /\ call \in [Calls -> CallRecord]
  /\ tx \in [Calls -> {"none", "sent", "landed", "refused"}]
  /\ restarts \in Nat
  /\ runs \in [Keys -> {0, 1}]

\* There is a transfer in t that the key has paid for, given the calls cs.
PaidIn(t, cs, k, nonce) ==
  \E c \in Calls : t[c] = "landed" /\ cs[c].input.key = k /\ cs[c].input.nonce = nonce

\* A report of a key, in memory, in the file or on its way there, is empty
\* or tells the truth; a preview is one in memory too.
GoodIn(reports, t, cs, k, r) ==
  /\ r.status = "none" => r = NoReport
  /\ r.status = "preview" => reports[k].status = "preview"
  /\ r.status = "settled" => PaidIn(t, cs, k, r.nonce)

Good(k, r) == GoodIn(report, tx, call, k, r)

\* In the middle of its work; then its key belongs to the call.
Active(c) == call[c].pc \in {"save", "write", "run", "running"}

\* About to run the CLI, which it has not done yet.
BeforeRun(c) == call[c].pc = "run" \/ (call[c].pc \in {"save", "write"} /\ call[c].saving = "submitting")

CallSound(c) ==
  /\ call[c].pc = "idle" => tx[c] = "none"
  /\ call[c].pc # "idle" => call[c].input \in Input
  /\ call[c].pc \in {"save", "write"} =>
       /\ call[c].saving # "none" /\ report[call[c].input.key].status = call[c].saving
       /\ (call[c].saving = "preview") <=> (call[c].input.mode = "dry-run")
  /\ call[c].pc \in {"run", "running"} =>
       /\ call[c].saving = "none" /\ report[call[c].input.key].status = "submitting"
       /\ call[c].input.mode = "submit"
  /\ BeforeRun(c) => tx[c] = "none" /\ runs[call[c].input.key] = 0
  /\ call[c].pc = "write" => call[c].snap[call[c].input.key].status # "none"
  /\ \A k \in Keys : Good(k, call[c].snap[k])
  /\ call[c].pc \in {"idle", "done"} => call[c].snap = NoReports
  /\ Active(c) => call[c].answer = NoReport
  /\ call[c].pc = "done" => /\ call[c].answer.status \in {"none", "settled"}
                            /\ Good(call[c].input.key, call[c].answer)

KeySound(k) ==
  /\ Good(k, report[k])
  /\ report[k].status \in {"none", "preview"} => runs[k] = 0
  /\ file # Torn => Good(k, file[k])

OneAtATime ==
  \A c, d \in Calls : Active(c) /\ Active(d) /\ call[c].input.key = call[d].input.key => c = d

EndpointInv ==
  /\ Shapes
  /\ OneAtATime
  /\ \A k \in Keys : KeySound(k)
  /\ \A c \in Calls : CallSound(c)

SInv == WalletInv /\ EndpointInv

-----------------------------------------------------------------------------
(* What a step of one call leaves true *)

LEMMA GoodStays ==
  ASSUME NEW k \in Keys, NEW r, Good(k, r),
         \A c \in Calls : tx[c] = "landed" => tx'[c] = "landed" /\ call'[c].input = call[c].input,
         report[k].status = "preview" => report'[k].status = "preview"
  PROVE  GoodIn(report', tx', call', k, r)
BY DEF Good, GoodIn, PaidIn

LEMMA NoReportGood ==
  ASSUME NEW k, NEW reports, NEW t, NEW cs
  PROVE  /\ NoReport \in ReportRecord /\ NoReport.status = "none"
         /\ NoReports \in Reports /\ \A j \in Keys : NoReports[j] = NoReport
         /\ GoodIn(reports, t, cs, k, NoReport)
BY DEF NoReport, NoReports, ReportRecord, Reports, GoodIn, Statuses

\* A call keeps what it is doing when a step of another call leaves its key
\* alone.
LEMMA OthersSound ==
  ASSUME EndpointInv, NEW c \in Calls,
         \A d \in Calls \ {c} : call'[d] = call[d] /\ tx'[d] = tx[d],
         tx[c] = "landed" => tx'[c] = "landed" /\ call'[c].input = call[c].input,
         \A k \in Keys : report[k].status = "preview" => report'[k].status = "preview",
         \A d \in Calls \ {c} : Active(d) =>
           /\ report'[call[d].input.key] = report[call[d].input.key]
           /\ runs'[call[d].input.key] = runs[call[d].input.key]
  PROVE  /\ \A d \in Calls \ {c} : CallSound(d)'
         /\ \A d \in Calls \ {c} : Active(d)' <=> Active(d)
<1>1. \A d \in Calls : tx[d] = "landed" => tx'[d] = "landed" /\ call'[d].input = call[d].input
  OBVIOUS
<1>2. ASSUME NEW d \in Calls \ {c}  PROVE CallSound(d)'
  <2>1. CallSound(d) /\ call'[d] = call[d] /\ tx'[d] = tx[d]
    BY DEF EndpointInv
  <2>2. \A k \in Keys : Good(k, call[d].snap[k])'
    <3>1. ASSUME NEW k \in Keys  PROVE Good(k, call[d].snap[k])'
      <4>1. Good(k, call[d].snap[k])
        BY <2>1 DEF CallSound
      <4>2. GoodIn(report', tx', call', k, call[d].snap[k])
        BY <1>1, <4>1, GoodStays
      <4> QED  BY <2>1, <4>2 DEF Good
    <3> QED  BY <3>1
  <2>3. call[d].pc = "done" => Good(call[d].input.key, call[d].answer)'
    <3>1. ASSUME call[d].pc = "done"  PROVE Good(call[d].input.key, call[d].answer)'
      <4>1. call[d].input.key \in Keys /\ Good(call[d].input.key, call[d].answer)
        BY <2>1, <3>1 DEF CallSound, Input
      <4>2. GoodIn(report', tx', call', call[d].input.key, call[d].answer)
        BY <1>1, <4>1, GoodStays
      <4> QED  BY <2>1, <4>2 DEF Good
    <3> QED  BY <3>1
  <2>4. Active(d) => /\ report'[call[d].input.key] = report[call[d].input.key]
                     /\ runs'[call[d].input.key] = runs[call[d].input.key]
    OBVIOUS
  <2> HIDE DEF Good
  <2> QED  BY <2>1, <2>2, <2>3, <2>4, Zenon DEF CallSound, BeforeRun, Active
<1>3. \A d \in Calls \ {c} : Active(d)' <=> Active(d)
  BY DEF Active
<1> QED  BY <1>2, <1>3

LEMMA KeysApart ==
  ASSUME EndpointInv, NEW c \in Calls, NEW k \in Keys,
         (Active(c) /\ call[c].input.key = k) \/ report[k].status = "none"
  PROVE  \A d \in Calls \ {c} : Active(d) => call[d].input.key # k /\ call[d].input.key \in Keys
<1>1. ASSUME NEW d \in Calls \ {c}, Active(d)  PROVE call[d].input.key # k /\ call[d].input.key \in Keys
  <2>1. call[d].input \in Input /\ report[call[d].input.key].status # "none"
    BY <1>1 DEF EndpointInv, CallSound, Active
  <2>2. call[d].input.key \in Keys
    BY <2>1 DEF Input
  <2> QED  BY <1>1, <2>1, <2>2 DEF EndpointInv, OneAtATime
<1> QED  BY <1>1

\* The reports, in memory and on file, stay good when only the report of k
\* changes.
LEMMA OtherKeysSound ==
  ASSUME EndpointInv, NEW k \in Keys,
         \A c \in Calls : tx[c] = "landed" => tx'[c] = "landed" /\ call'[c].input = call[c].input,
         \A j \in Keys \ {k} : report'[j] = report[j] /\ runs'[j] = runs[j],
         report[k].status = "preview" => report'[k].status = "preview",
         Good(k, report[k])', report'[k].status \in {"none", "preview"} => runs'[k] = 0,
         file' # Torn => \A j \in Keys : GoodIn(report', tx', call', j, file'[j])
  PROVE  \A j \in Keys : KeySound(j)'
<1>1. ASSUME NEW j \in Keys  PROVE KeySound(j)'
  <2>1. Good(j, report[j])'
    <3>1. CASE j = k
      BY <3>1
    <3>2. CASE j # k
      <4>1. report'[j] = report[j] /\ Good(j, report[j])
        BY <3>2 DEF EndpointInv, KeySound
      <4>2. GoodIn(report', tx', call', j, report[j])
        BY <4>1, GoodStays
      <4> QED  BY <4>1, <4>2 DEF Good
    <3> QED  BY <3>1, <3>2
  <2>2. report'[j].status \in {"none", "preview"} => runs'[j] = 0
    BY DEF EndpointInv, KeySound
  <2>3. file' # Torn => Good(j, file[j])'
    BY DEF Good
  <2> HIDE DEF Good
  <2> QED  BY <2>1, <2>2, <2>3 DEF KeySound
<1> QED  BY <1>1

\* The file is left alone, or torn.
LEMMA SameFile ==
  ASSUME EndpointInv, file' \in {file, Torn},
         \A c \in Calls : tx[c] = "landed" => tx'[c] = "landed" /\ call'[c].input = call[c].input,
         \A k \in Keys : report[k].status = "preview" => report'[k].status = "preview"
  PROVE  /\ file' \in Reports \cup {Torn}
         /\ file' # Torn => \A j \in Keys : GoodIn(report', tx', call', j, file'[j])
<1>1. file' \in Reports \cup {Torn}
  BY DEF EndpointInv, Shapes
<1>2. ASSUME file' # Torn, NEW j \in Keys  PROVE GoodIn(report', tx', call', j, file'[j])
  <2>1. file' = file /\ Good(j, file[j])
    BY <1>2 DEF EndpointInv, KeySound
  <2> QED  BY <2>1, GoodStays
<1> QED  BY <1>1, <1>2

\* Which calls are at work, and on which key, after a step of c on k.
LEMMA StillOneAtATime ==
  ASSUME EndpointInv, NEW c \in Calls, NEW k \in Keys,
         \A d \in Calls \ {c} : call'[d] = call[d],
         Active(c)' => call'[c].input.key = k,
         (Active(c) /\ call[c].input.key = k) \/ report[k].status = "none"
  PROVE  OneAtATime'
<1>1. \A d \in Calls \ {c} : Active(d) => call[d].input.key # k
  BY KeysApart
<1>2. \A d \in Calls \ {c} : Active(d)' => Active(d)
  BY DEF Active
<1>3. ASSUME NEW d \in Calls, NEW e \in Calls, Active(d)', Active(e)', call'[d].input.key = call'[e].input.key
      PROVE  d = e
  <2>1. CASE d = c
    BY <1>1, <1>2, <1>3, <2>1
  <2>2. CASE e = c
    BY <1>1, <1>2, <1>3, <2>2
  <2>3. CASE d # c /\ e # c
    BY <1>2, <1>3, <2>3 DEF EndpointInv, OneAtATime
  <2> QED  BY <2>1, <2>2, <2>3
<1> QED  BY <1>3 DEF OneAtATime

\* A report is recorded and its call starts to save: a new call on a key
\* without one, or a call at work on the key, whose report is no preview.
LEMMA SavesPreserve ==
  ASSUME EndpointInv, NEW c \in Calls, NEW input \in Input, NEW status \in Statuses,
         Saves(c, input, status),
         \/ call[c].pc = "idle" /\ report[input.key].status = "none"
         \/ Active(c) /\ call[c].input = input /\ report[input.key].status # "preview",
         status = "preview" <=> input.mode = "dry-run",
         status = "submitting" => tx[c] = "none" /\ runs'[input.key] = 0,
         status = "settled" => tx[c] = "landed",
         status = "preview" => runs'[input.key] = 0,
         runs' \in [Keys -> {0, 1}], \A k \in Keys \ {input.key} : runs'[k] = runs[k],
         file' \in {file, Torn}, UNCHANGED <<enabled, tx>>, restarts' \in Nat
  PROVE  EndpointInv'
<1> DEFINE key == input.key
           record == Recorded(status, IF status = "settled" THEN input.nonce ELSE None)
           new == [pc |-> "save", input |-> input, saving |-> status, snap |-> NoReports, answer |-> NoReport]
<1>1. key \in Keys /\ input.nonce \in Nonces
  BY DEF Input
<1>2. record \in ReportRecord /\ record.status = status /\ (status = "settled" => record.nonce = input.nonce)
  BY <1>1 DEF Recorded, ReportRecord, Statuses
<1>3. new \in CallRecord
  BY NoReportGood DEF CallRecord
<1>4. Shapes /\ call \in [Calls -> CallRecord] /\ report \in Reports
  BY DEF EndpointInv, Shapes
<1>5. call' \in [Calls -> CallRecord] /\ call'[c] = new /\ \A d \in Calls \ {c} : call'[d] = call[d]
  <2> HIDE DEF new
  <2>1. call' = [call EXCEPT ![c] = new]
    BY DEF Saves, new
  <2> QED  BY <1>3, <1>4, <2>1
<1>6. report' \in Reports /\ report'[key] = record /\ \A j \in Keys \ {key} : report'[j] = report[j]
  <2>1. call'[c].input = input
    BY <1>5
  <2>2. report' = [report EXCEPT ![key] = record]
    <3>1. Record(c, status)
      BY DEF Saves
    <3> QED  BY <2>1, <3>1, Zenon DEF Record
  <2> HIDE DEF record, key
  <2> QED  BY <1>1, <1>2, <1>4, <2>2 DEF Reports
<1>7. CallSound(c) /\ KeySound(key)
  BY <1>1 DEF EndpointInv
<1>8. \A d \in Calls : tx[d] = "landed" => tx'[d] = "landed" /\ call'[d].input = call[d].input
  <2>1. tx[c] = "landed" => call'[c].input = call[c].input
    BY <1>5, <1>7 DEF CallSound
  <2> QED  BY <1>5, <2>1
<1>9. report[key].status # "preview"
  OBVIOUS
<1>10. \A j \in Keys : report[j].status = "preview" => report'[j].status = "preview"
  BY <1>6, <1>9
<1>11. (Active(c) /\ call[c].input.key = key) \/ report[key].status = "none"
  OBVIOUS
<1>12. \A d \in Calls \ {c} : Active(d) => call[d].input.key # key /\ call[d].input.key \in Keys
  BY <1>1, <1>11, KeysApart
<1>13. \A d \in Calls \ {c} : CallSound(d)'
  <2> HIDE DEF key
  <2>1. \A d \in Calls \ {c} : Active(d) =>
           /\ report'[call[d].input.key] = report[call[d].input.key]
           /\ runs'[call[d].input.key] = runs[call[d].input.key]
    BY <1>6, <1>12 DEF key
  <2>2. \A d \in Calls \ {c} : call'[d] = call[d] /\ tx'[d] = tx[d]
    BY <1>5
  <2>3. tx[c] = "landed" => tx'[c] = "landed" /\ call'[c].input = call[c].input
    BY <1>8
  <2> QED  BY <1>10, <2>1, <2>2, <2>3, OthersSound
<1>14. Good(key, report[key])'
  <2>1. status = "settled" => PaidIn(tx', call', key, record.nonce)
    BY <1>2, <1>5 DEF PaidIn
  <2> HIDE DEF record, key
  <2> QED  BY <1>2, <1>6, <2>1 DEF Good, GoodIn, Statuses
<1>15. \A k \in Keys : Good(k, call[c].snap[k])'
  <2>1. ASSUME NEW k \in Keys  PROVE GoodIn(report', tx', call', k, call'[c].snap[k])
    BY <1>5, NoReportGood
  <2> QED  BY <2>1 DEF Good
<1>16. CallSound(c)'
  <2>1. /\ call'[c].pc = "save" /\ call'[c].input = input /\ call'[c].saving = status
        /\ report'[input.key].status = status /\ call'[c].answer = NoReport
    BY <1>2, <1>5, <1>6
  <2>2. status # "none"
    BY DEF Statuses
  <2> HIDE DEF Good, key, record, new
  <2> QED  BY <1>15, <2>1, <2>2 DEF CallSound, BeforeRun, Active
<1>17. /\ file' \in Reports \cup {Torn}
       /\ file' # Torn => \A j \in Keys : GoodIn(report', tx', call', j, file'[j])
  BY <1>8, <1>10, SameFile
<1>18. \A k \in Keys : KeySound(k)'
  <2>1. report'[key].status \in {"none", "preview"} => runs'[key] = 0
    BY <1>2, <1>6 DEF Statuses
  <2> HIDE DEF Good
  <2> QED  BY <1>1, <1>6, <1>8, <1>9, <1>14, <1>17, <2>1, OtherKeysSound
<1>19. OneAtATime'
  BY <1>1, <1>5, <1>11, StillOneAtATime
<1>20. Shapes'
  BY <1>4, <1>5, <1>6, <1>17 DEF Shapes
<1> HIDE DEF key, record, new
<1>21. \A d \in Calls : CallSound(d)'
  BY <1>13, <1>16
<1> QED  BY <1>18, <1>19, <1>20, <1>21 DEF EndpointInv

\* A step of one call that records nothing: its own state has to be sound
\* after it, and a key is run only for the call at work on it.
LEMMA QuietPreserves ==
  ASSUME EndpointInv, NEW c \in Calls,
         call' \in [Calls -> CallRecord], tx' \in [Calls -> {"none", "sent", "landed", "refused"}],
         runs' \in [Keys -> {0, 1}], UNCHANGED <<enabled, report, restarts>>,
         \A d \in Calls \ {c} : call'[d] = call[d] /\ tx'[d] = tx[d],
         tx[c] = "landed" => tx'[c] = "landed" /\ call'[c].input = call[c].input,
         Active(c)' => Active(c) /\ call'[c].input = call[c].input,
         \A k \in Keys : \/ runs'[k] = runs[k]
                         \/ Active(c) /\ call[c].input.key = k /\ report[k].status = "submitting",
         file' \in Reports \cup {Torn},
         file' # Torn => \A k \in Keys : GoodIn(report', tx', call', k, file'[k]),
         CallSound(c)'
  PROVE  EndpointInv'
<1>1. \A d \in Calls : tx[d] = "landed" => tx'[d] = "landed" /\ call'[d].input = call[d].input
  OBVIOUS
<1>2. \A d \in Calls \ {c} : CallSound(d)'
  <2>1. ASSUME NEW d \in Calls \ {c}, Active(d)
        PROVE  runs'[call[d].input.key] = runs[call[d].input.key]
    <3>1. CallSound(d)
      BY DEF EndpointInv
    <3>2. call[d].input.key \in Keys
      BY <2>1, <3>1 DEF CallSound, Active, Input
    <3> QED  BY <2>1, <3>2 DEF EndpointInv, OneAtATime
  <2> HIDE DEF Active
  <2> QED  BY <2>1, OthersSound
<1>3. \A d \in Calls : CallSound(d)'
  BY <1>2
<1>4. \A k \in Keys : KeySound(k)'
  <2>1. ASSUME NEW k \in Keys  PROVE KeySound(k)'
    <3>1. KeySound(k)
      BY DEF EndpointInv
    <3>2. Good(k, report[k])'
      BY <1>1, <3>1, GoodStays DEF KeySound, Good
    <3>3. report'[k].status \in {"none", "preview"} => runs'[k] = 0
      BY <3>1 DEF KeySound
    <3>4. file' # Torn => Good(k, file[k])'
      BY DEF Good
    <3> HIDE DEF Good
    <3> QED  BY <3>2, <3>3, <3>4 DEF KeySound
  <2> QED  BY <2>1
<1>5. OneAtATime'
  <2>1. \A d \in Calls : Active(d)' => Active(d) /\ call'[d].input = call[d].input
    BY DEF Active
  <2> HIDE DEF Active
  <2> QED  BY <2>1 DEF EndpointInv, OneAtATime
<1>6. Shapes'
  BY DEF EndpointInv, Shapes
<1> QED  BY <1>3, <1>4, <1>5, <1>6 DEF EndpointInv

LEMMA FourFields ==
  ASSUME NEW Q, NEW R, NEW f \in [Q -> R], NEW q \in Q, NEW pc, NEW saving, NEW snap, NEW answer
  PROVE  [f EXCEPT ![q].pc = pc, ![q].saving = saving, ![q].snap = snap, ![q].answer = answer]
           = [f EXCEPT ![q] = [f[q] EXCEPT !.pc = pc, !.saving = saving, !.snap = snap, !.answer = answer]]
OBVIOUS

\* A call at work ends with an answer that is good for its key.
LEMMA AnswerPreserves ==
  ASSUME EndpointInv, NEW c \in Calls, NEW result \in ReportRecord, Answer(c, result), Active(c),
         Good(call[c].input.key, result),
         UNCHANGED <<enabled, tx, restarts, runs>>,
         file' \in Reports \cup {Torn},
         file' # Torn => \A k \in Keys : GoodIn(report, tx, call, k, file'[k])
  PROVE  EndpointInv'
<1> DEFINE told == Told(result)
           new == [call[c] EXCEPT !.pc = "done", !.saving = "none", !.snap = NoReports, !.answer = told]
<1>1. told \in ReportRecord /\ told.status \in {"none", "settled"} /\ Good(call[c].input.key, told)
  BY NoReportGood DEF Told, Good
<1>2. call \in [Calls -> CallRecord] /\ CallSound(c)
  BY DEF EndpointInv, Shapes
<1>3. call' = [call EXCEPT ![c] = new]
  <2> HIDE DEF told
  <2>1. call' = [call EXCEPT ![c].pc = "done", ![c].saving = "none", ![c].snap = NoReports, ![c].answer = told]
    BY DEF Answer, told
  <2> QED  BY <1>2, <2>1, FourFields, Zenon
<1>4. /\ new \in CallRecord /\ new.input = call[c].input
      /\ new.pc = "done" /\ new.answer = told /\ new.snap = NoReports
  <2> HIDE DEF told
  <2>1. call[c] \in CallRecord
    BY <1>2
  <2> QED  BY <1>1, <2>1, NoReportGood DEF CallRecord
<1> HIDE DEF new, told
<1>5. /\ call' \in [Calls -> CallRecord] /\ call'[c] = new
      /\ \A d \in Calls : d # c => call'[d] = call[d]
  BY <1>2, <1>3, <1>4
<1>6. \A d \in Calls : call'[d].input = call[d].input
  BY <1>4, <1>5
<1>7. UNCHANGED report
  BY DEF Answer
<1>8. \A k \in Keys : \A r : GoodIn(report, tx, call, k, r) => GoodIn(report', tx', call', k, r)
  BY <1>6, <1>7 DEF GoodIn, PaidIn
<1>9. call[c].input \in Input /\ call[c].input.key \in Keys
  BY <1>2 DEF CallSound, Active, Input
<1>10. CallSound(c)'
  <2>1. \A k \in Keys : Good(k, call[c].snap[k])'
    BY <1>4, <1>5, NoReportGood DEF Good
  <2>2. Good(call[c].input.key, call[c].answer)'
    BY <1>1, <1>4, <1>5, <1>8, <1>9 DEF Good
  <2>3. /\ call'[c].pc = "done" /\ call'[c].input = call[c].input /\ call'[c].snap = NoReports
        /\ call'[c].answer.status \in {"none", "settled"}
    BY <1>1, <1>4, <1>5
  <2> HIDE DEF Good
  <2> QED  BY <1>9, <2>1, <2>2, <2>3 DEF CallSound, BeforeRun, Active
<1>11. ~Active(c)'
  BY <1>4, <1>5 DEF Active
<1>12. file' # Torn => \A k \in Keys : GoodIn(report', tx', call', k, file'[k])
  BY <1>8
<1>13. Shapes
  BY DEF EndpointInv
<1> HIDE DEF Active
<1> QED  BY <1>5, <1>6, <1>7, <1>10, <1>11, <1>12, <1>13, QuietPreserves DEF Shapes

\* What a call at work is about.
LEMMA AtWork ==
  ASSUME EndpointInv, NEW c \in Calls, Active(c)
  PROVE  /\ call[c].input \in Input /\ call[c].input.key \in Keys
         /\ call[c].input.mode = "submit" => report[call[c].input.key].status # "preview"
         /\ report[call[c].input.key].status # "none"
BY DEF EndpointInv, CallSound, Active, Input

LEMMA FailsPreserves ==
  ASSUME EndpointInv, NEW c \in Calls, Active(c), Fails(c),
         UNCHANGED <<enabled, tx, restarts>>, file' \in {file, Torn},
         runs' \in [Keys -> {0, 1}],
         \A k \in Keys : runs'[k] = runs[k] \/ (call[c].pc = "run" /\ k = call[c].input.key)
  PROVE  EndpointInv'
<1>1. PICK input \in Input : input = call[c].input
  BY AtWork
<1>2. /\ input.key \in Keys /\ report[input.key].status # "none"
      /\ input.mode = "submit" => report[input.key].status # "preview"
  BY <1>1, AtWork
<1>3. restarts' \in Nat
  BY DEF EndpointInv, Shapes
<1>4. CASE input.mode = "submit" /\ call[c].saving # "failed"
  <2>1. Saves(c, input, "failed")
    BY <1>1, <1>4 DEF Fails
  <2>2. \A k \in Keys \ {input.key} : runs'[k] = runs[k]
    BY <1>1
  <2>3. "failed" \in Statuses
    BY DEF Statuses
  <2> HIDE DEF Active
  <2> QED  BY <1>1, <1>2, <1>3, <1>4, <2>1, <2>2, <2>3, SavesPreserve
<1>5. CASE ~(input.mode = "submit" /\ call[c].saving # "failed")
  <2>1. Answer(c, Recorded("failed", None))
    BY <1>1, <1>5 DEF Fails
  <2>2. call[c].pc # "run"
    BY <1>1, <1>5 DEF EndpointInv, CallSound
  <2>3. runs' = runs
    BY <2>2 DEF EndpointInv, Shapes
  <2>4. Recorded("failed", None) \in ReportRecord /\ Good(call[c].input.key, Recorded("failed", None))
    BY DEF Recorded, ReportRecord, Statuses, Good, GoodIn
  <2>5. /\ file' \in Reports \cup {Torn}
        /\ file' # Torn => \A k \in Keys : GoodIn(report, tx, call, k, file'[k])
    BY DEF EndpointInv, Shapes, KeySound, Good
  <2> HIDE DEF Active, Good
  <2> QED  BY <2>1, <2>3, <2>4, <2>5, AnswerPreserves
<1> QED  BY <1>4, <1>5

LEMMA EnterPreserves ==
  ASSUME EndpointInv, NEW c \in Calls, NEW input \in Input, Enter(c, input)
  PROVE  EndpointInv'
<1>1. /\ call[c].pc = "idle" /\ report[input.key] = NoReport
      /\ UNCHANGED <<enabled, file, tx, restarts, runs>>
  BY DEF Enter, Unseen
<1>2. input.key \in Keys /\ input.mode \in {"dry-run", "submit"}
  BY DEF Input
<1>3. PICK status \in {"preview", "submitting", "failed"} :
         Saves(c, input, status) /\ (status = "preview" <=> input.mode = "dry-run")
  BY DEF Enter
<1>4. report[input.key].status = "none" /\ tx[c] = "none" /\ runs[input.key] = 0
  BY <1>1, <1>2, NoReportGood DEF EndpointInv, CallSound, KeySound
<1>5. /\ status \in Statuses /\ status # "settled"
      /\ runs' \in [Keys -> {0, 1}] /\ restarts' \in Nat
  BY <1>1, <1>3 DEF Statuses, EndpointInv, Shapes
<1> QED  BY <1>1, <1>3, <1>4, <1>5, SavesPreserve

LEMMA ReplayFields ==
  ASSUME NEW Q, NEW R, NEW f \in [Q -> R], NEW q \in Q, NEW pc, NEW input, NEW answer
  PROVE  [f EXCEPT ![q].pc = pc, ![q].input = input, ![q].answer = answer]
           = [f EXCEPT ![q] = [f[q] EXCEPT !.pc = pc, !.input = input, !.answer = answer]]
OBVIOUS

LEMMA ReplayPreserves ==
  ASSUME EndpointInv, NEW c \in Calls, NEW input \in Input, Replay(c, input)
  PROVE  EndpointInv'
<1> DEFINE told == Told(report[input.key])
           new == [call[c] EXCEPT !.pc = "done", !.input = input, !.answer = told]
<1>1. input.key \in Keys
  BY DEF Input
<1>2. Shapes /\ call \in [Calls -> CallRecord] /\ CallSound(c) /\ KeySound(input.key) /\ call[c].pc = "idle"
  BY <1>1 DEF EndpointInv, Shapes, Replay
<1>3. told \in ReportRecord /\ told.status \in {"none", "settled"} /\ Good(input.key, told)
  <2>1. report[input.key] \in ReportRecord
    BY <1>1, <1>2 DEF Shapes, Reports
  <2> QED  BY <1>2, <2>1, NoReportGood DEF Told, Good, KeySound
<1>4. call' = [call EXCEPT ![c] = new]
  <2> HIDE DEF told
  <2>1. call' = [call EXCEPT ![c].pc = "done", ![c].input = input, ![c].answer = told]
    BY DEF Replay, told
  <2> QED  BY <1>2, <2>1, ReplayFields, Zenon
<1>5. /\ new \in CallRecord /\ new.input = input
      /\ new.pc = "done" /\ new.answer = told /\ new.snap = call[c].snap
  <2> HIDE DEF told
  <2>1. call[c] \in CallRecord
    BY <1>2
  <2> QED  BY <1>3, <2>1 DEF CallRecord
<1> HIDE DEF new, told
<1>6. /\ call' \in [Calls -> CallRecord] /\ call'[c] = new
      /\ \A d \in Calls : d # c => call'[d] = call[d]
  BY <1>2, <1>4, <1>5
<1>7. UNCHANGED <<enabled, report, file, tx, restarts, runs>>
  BY DEF Replay
<1>8. tx[c] = "none"
  BY <1>2 DEF CallSound
<1>9. \A k \in Keys : \A r : GoodIn(report, tx, call, k, r) => GoodIn(report', tx', call', k, r)
  BY <1>6, <1>7, <1>8 DEF GoodIn, PaidIn
<1>10. CallSound(c)'
  <2>1. \A k \in Keys : Good(k, call[c].snap[k])'
    BY <1>2, <1>5, <1>6, <1>9 DEF CallSound, Good
  <2>2. Good(call[c].input.key, call[c].answer)'
    BY <1>1, <1>3, <1>5, <1>6, <1>9 DEF Good
  <2>3. /\ call'[c].pc = "done" /\ call'[c].input = input /\ call'[c].snap = NoReports
        /\ call'[c].answer.status \in {"none", "settled"}
    BY <1>2, <1>3, <1>5, <1>6 DEF CallSound
  <2> HIDE DEF Good
  <2> QED  BY <2>1, <2>2, <2>3 DEF CallSound, BeforeRun, Active
<1>11. ~Active(c)'
  BY <1>5, <1>6 DEF Active
<1>12. file' # Torn => \A k \in Keys : GoodIn(report', tx', call', k, file'[k])
  BY <1>7, <1>9 DEF EndpointInv, KeySound, Good
<1> HIDE DEF Active
<1> QED  BY <1>2, <1>6, <1>7, <1>8, <1>10, <1>11, <1>12, QuietPreserves DEF Shapes

LEMMA SnapshotPreserves ==
  ASSUME EndpointInv, NEW c \in Calls, Snapshot(c)
  PROVE  EndpointInv'
<1> DEFINE new == [call[c] EXCEPT !.pc = "write", !.snap = report]
<1>1. Shapes /\ call \in [Calls -> CallRecord] /\ CallSound(c) /\ call[c].pc = "save" /\ Active(c)
  BY DEF EndpointInv, Shapes, Snapshot, Active
<1>2. call' = [call EXCEPT ![c] = new]
  <2>1. call' = [call EXCEPT ![c].pc = "write", ![c].snap = report]
    BY DEF Snapshot
  <2> QED  BY <1>1, <2>1
<1>3. /\ new \in CallRecord /\ new.input = call[c].input /\ new.pc = "write"
      /\ new.saving = call[c].saving /\ new.snap = report /\ new.answer = call[c].answer
  <2>1. call[c] \in CallRecord /\ report \in Reports
    BY <1>1 DEF Shapes
  <2> QED  BY <2>1 DEF CallRecord
<1> HIDE DEF new
<1>4. /\ call' \in [Calls -> CallRecord] /\ call'[c] = new
      /\ \A d \in Calls : d # c => call'[d] = call[d]
  BY <1>1, <1>2, <1>3
<1>5. UNCHANGED <<enabled, report, file, tx, restarts, runs>>
  BY DEF Snapshot
<1>6. \A d \in Calls : call'[d].input = call[d].input
  BY <1>3, <1>4
<1>7. \A k \in Keys : \A r : GoodIn(report, tx, call, k, r) => GoodIn(report', tx', call', k, r)
  BY <1>5, <1>6 DEF GoodIn, PaidIn
<1>8. CallSound(c)'
  <2>1. \A k \in Keys : Good(k, call[c].snap[k])'
    BY <1>3, <1>4, <1>7 DEF EndpointInv, KeySound, Good
  <2> HIDE DEF Good
  <2> QED  BY <1>1, <1>3, <1>4, <1>5, <2>1, Zenon DEF CallSound, BeforeRun
<1>9. file' # Torn => \A k \in Keys : GoodIn(report', tx', call', k, file'[k])
  BY <1>5, <1>7 DEF EndpointInv, KeySound, Good
<1> HIDE DEF Active
<1> QED  BY <1>1, <1>4, <1>5, <1>6, <1>8, <1>9, QuietPreserves DEF Shapes

LEMMA ThreeFields ==
  ASSUME NEW Q, NEW R, NEW f \in [Q -> R], NEW q \in Q, NEW pc, NEW saving, NEW snap
  PROVE  [f EXCEPT ![q].pc = pc, ![q].saving = saving, ![q].snap = snap]
           = [f EXCEPT ![q] = [f[q] EXCEPT !.pc = pc, !.saving = saving, !.snap = snap]]
OBVIOUS

\* What is written out is good, as it was when the snapshot was taken.
LEMMA WritePreserves ==
  ASSUME EndpointInv, NEW c \in Calls, Write(c)
  PROVE  EndpointInv'
<1>1. Shapes /\ call \in [Calls -> CallRecord] /\ CallSound(c) /\ call[c].pc = "write" /\ Active(c)
  BY DEF EndpointInv, Shapes, Write, Active
<1>2. call[c].snap \in Reports
  BY <1>1 DEF CallRecord
<1>3. /\ file' \in Reports \cup {Torn}
      /\ file' # Torn => \A k \in Keys : GoodIn(report, tx, call, k, file'[k])
  BY <1>1, <1>2 DEF Write, Written, CallSound, Good
<1>4. UNCHANGED <<enabled, tx, restarts, runs>>
  BY DEF Write
<1>5. call[c].input.key \in Keys /\ report[call[c].input.key] \in ReportRecord
  BY <1>1, AtWork DEF Shapes, Reports
<1>6. CASE call[c].saving # "submitting" /\ Answer(c, report[call[c].input.key])
  <2>1. Good(call[c].input.key, report[call[c].input.key])
    BY <1>5 DEF EndpointInv, KeySound
  <2> HIDE DEF Good, Active
  <2>2. PICK result \in ReportRecord : result = report[call[c].input.key]
    BY <1>5
  <2> QED  BY <1>1, <1>3, <1>4, <1>6, <2>1, <2>2, AnswerPreserves
<1>7. CASE /\ call[c].saving = "submitting"
           /\ call' = [call EXCEPT ![c].pc = "run", ![c].saving = "none", ![c].snap = NoReports]
           /\ UNCHANGED report
  <2> DEFINE new == [call[c] EXCEPT !.pc = "run", !.saving = "none", !.snap = NoReports]
  <2>1. call' = [call EXCEPT ![c] = new]
    BY <1>1, <1>7, ThreeFields, Zenon
  <2>2. /\ new \in CallRecord /\ new.input = call[c].input /\ new.pc = "run"
        /\ new.saving = "none" /\ new.snap = NoReports /\ new.answer = call[c].answer
    <3>1. call[c] \in CallRecord
      BY <1>1
    <3> QED  BY <3>1, NoReportGood DEF CallRecord, Statuses
  <2> HIDE DEF new
  <2>3. /\ call' \in [Calls -> CallRecord] /\ call'[c] = new
        /\ \A d \in Calls : d # c => call'[d] = call[d]
    BY <1>1, <2>1, <2>2
  <2>4. \A d \in Calls : call'[d].input = call[d].input
    BY <2>2, <2>3
  <2>5. \A k \in Keys : \A r : GoodIn(report, tx, call, k, r) => GoodIn(report', tx', call', k, r)
    BY <1>4, <1>7, <2>4 DEF GoodIn, PaidIn
  <2>6. CallSound(c)'
    <3>1. \A k \in Keys : Good(k, call[c].snap[k])'
      BY <2>2, <2>3, NoReportGood DEF Good
    <3>2. /\ call[c].input \in Input /\ call[c].input.mode = "submit"
          /\ report[call[c].input.key].status = "submitting"
          /\ tx[c] = "none" /\ runs[call[c].input.key] = 0
          /\ call[c].answer = NoReport
      BY <1>1, <1>7 DEF CallSound, BeforeRun, Active, Input
    <3> HIDE DEF Good
    <3> QED  BY <1>4, <1>7, <2>2, <2>3, <3>1, <3>2, Zenon DEF CallSound, BeforeRun, Active
  <2>7. file' # Torn => \A k \in Keys : GoodIn(report', tx', call', k, file'[k])
    BY <1>3, <2>5
  <2> HIDE DEF Active
  <2> QED  BY <1>1, <1>3, <1>4, <1>7, <2>3, <2>4, <2>6, <2>7, QuietPreserves DEF Shapes
<1> QED  BY <1>6, <1>7 DEF Write, AfterSave

LEMMA WriteFailsPreserves ==
  ASSUME EndpointInv, NEW c \in Calls, WriteFails(c)
  PROVE  EndpointInv'
<1>1. Active(c) /\ Fails(c) /\ file' \in {file, Torn} /\ UNCHANGED <<enabled, tx, restarts, runs>>
  BY DEF WriteFails, Active
<1>2. runs \in [Keys -> {0, 1}]
  BY DEF EndpointInv, Shapes
<1> HIDE DEF Active
<1> QED  BY <1>1, <1>2, FailsPreserves

LEMMA FinishPreserves ==
  ASSUME EndpointInv, NEW c \in Calls, Finish(c)
  PROVE  EndpointInv'
<1>1. Active(c) /\ call[c].pc = "running" /\ UNCHANGED <<enabled, file, tx, restarts, runs>>
  BY DEF Finish, Active
<1>2. runs \in [Keys -> {0, 1}] /\ restarts \in Nat
  BY DEF EndpointInv, Shapes
<1>3. CASE Fails(c)
  <2> HIDE DEF Active
  <2> QED  BY <1>1, <1>2, <1>3, FailsPreserves
<1>4. CASE ExitOk(c) /\ Saves(c, call[c].input, "settled")
  <2>1. /\ call[c].input \in Input /\ call[c].input.mode = "submit"
        /\ report[call[c].input.key].status = "submitting"
    BY <1>1, AtWork DEF EndpointInv, CallSound
  <2>2. PICK input \in Input : input = call[c].input
    BY <2>1
  <2>3. tx[c] = "landed" /\ Saves(c, input, "settled") /\ "settled" \in Statuses
    BY <1>4, <2>2 DEF ExitOk, Statuses
  <2> HIDE DEF Active
  <2> QED  BY <1>1, <1>2, <2>1, <2>2, <2>3, SavesPreserve
<1> QED  BY <1>3, <1>4 DEF Finish

LEMMA RunPreserves ==
  ASSUME EndpointInv, NEW c \in Calls, Run(c)
  PROVE  EndpointInv'
<1> DEFINE key == call[c].input.key
<1>1. /\ Shapes /\ call \in [Calls -> CallRecord] /\ CallSound(c) /\ call[c].pc = "run" /\ Active(c)
      /\ runs \in [Keys -> {0, 1}] /\ UNCHANGED <<enabled, file, restarts>>
  BY DEF EndpointInv, Shapes, Run, Active
<1>2. /\ key \in Keys /\ call[c].input \in Input /\ runs[key] = 0
      /\ report[key].status = "submitting" /\ tx[c] = "none"
  BY <1>1, AtWork DEF CallSound, BeforeRun
<1>3. runs' = [runs EXCEPT ![key] = 1]
  BY <1>1, <1>2 DEF Run
<1>4. runs' \in [Keys -> {0, 1}] /\ \A k \in Keys \ {key} : runs'[k] = runs[k]
  <2> HIDE DEF key
  <2> QED  BY <1>1, <1>2, <1>3
<1>5. CASE Fails(c) /\ UNCHANGED tx
  <2>1. \A k \in Keys : runs'[k] = runs[k] \/ (call[c].pc = "run" /\ k = call[c].input.key)
    BY <1>1, <1>4
  <2> HIDE DEF Active, key
  <2> QED  BY <1>1, <1>4, <1>5, <2>1, FailsPreserves
<1>6. CASE /\ tx' = [tx EXCEPT ![c] = "sent"]
           /\ call' = [call EXCEPT ![c].pc = "running"]
           /\ UNCHANGED report
  <2> DEFINE new == [call[c] EXCEPT !.pc = "running"]
  <2>1. call' = [call EXCEPT ![c] = new]
    BY <1>6
  <2>2. /\ new \in CallRecord /\ new.input = call[c].input /\ new.pc = "running"
        /\ new.saving = call[c].saving /\ new.snap = call[c].snap /\ new.answer = call[c].answer
    <3>1. call[c] \in CallRecord
      BY <1>1
    <3> QED  BY <3>1 DEF CallRecord
  <2> HIDE DEF new
  <2>3. /\ call' \in [Calls -> CallRecord] /\ call'[c] = new
        /\ \A d \in Calls : d # c => call'[d] = call[d]
    BY <1>1, <2>1, <2>2
  <2>4. /\ tx' \in [Calls -> {"none", "sent", "landed", "refused"}] /\ tx'[c] = "sent"
        /\ \A d \in Calls : d # c => tx'[d] = tx[d]
    BY <1>1, <1>6 DEF Shapes
  <2>5. \A d \in Calls : call'[d].input = call[d].input
    BY <2>2, <2>3
  <2>6. \A k \in Keys : \A r : GoodIn(report, tx, call, k, r) => GoodIn(report', tx', call', k, r)
    BY <1>2, <1>6, <2>4, <2>5 DEF GoodIn, PaidIn
  <2>7. CallSound(c)'
    <3>1. \A k \in Keys : Good(k, call[c].snap[k])'
      BY <1>1, <2>2, <2>3, <2>6 DEF CallSound, Good
    <3>2. call[c].input.mode = "submit" /\ call[c].saving = "none"
      BY <1>1 DEF CallSound
    <3> HIDE DEF Good
    <3> QED  BY <1>1, <1>2, <1>6, <2>2, <2>3, <2>4, <3>1, <3>2, Zenon DEF CallSound, BeforeRun
  <2>8. /\ file' \in Reports \cup {Torn}
        /\ file' # Torn => \A k \in Keys : GoodIn(report', tx', call', k, file'[k])
    BY <1>1, <2>6 DEF EndpointInv, Shapes, KeySound, Good
  <2>9. \A k \in Keys : \/ runs'[k] = runs[k]
                        \/ Active(c) /\ call[c].input.key = k /\ report[k].status = "submitting"
    BY <1>1, <1>2, <1>4
  <2> HIDE DEF Active, key
  <2> QED  BY <1>1, <1>2, <1>4, <1>6, <2>3, <2>4, <2>5, <2>7, <2>8, <2>9, QuietPreserves
<1> QED  BY <1>5, <1>6 DEF Run

\* A transaction that lands pays for its call, whatever became of the call.
LEMMA LandPreserves ==
  ASSUME EndpointInv, NEW c \in Calls, Land(c)
  PROVE  EndpointInv'
<1>1. /\ Shapes /\ CallSound(c) /\ tx[c] = "sent"
      /\ UNCHANGED <<enabled, report, file, call, restarts, runs>>
  BY DEF EndpointInv, Land
<1>2. PICK outcome \in {"landed", "refused"} : tx' = [tx EXCEPT ![c] = outcome]
  BY DEF Land
<1>3. /\ tx' \in [Calls -> {"none", "sent", "landed", "refused"}] /\ tx'[c] = outcome
      /\ \A d \in Calls : d # c => tx'[d] = tx[d]
  BY <1>1, <1>2 DEF Shapes
<1>4. \A k \in Keys : \A r : GoodIn(report, tx, call, k, r) => GoodIn(report', tx', call', k, r)
  BY <1>1, <1>3 DEF GoodIn, PaidIn
<1>5. CallSound(c)'
  <2>1. \A k \in Keys : Good(k, call[c].snap[k])'
    BY <1>1, <1>4 DEF CallSound, Good
  <2>2. call[c].pc = "done" => Good(call[c].input.key, call[c].answer)'
    <3>1. call[c].pc = "done" => call[c].input.key \in Keys
      BY <1>1 DEF CallSound, Input
    <3> QED  BY <1>1, <1>4, <3>1 DEF CallSound, Good
  <2>3. call[c].pc # "idle" /\ ~BeforeRun(c)
    BY <1>1 DEF CallSound
  <2> HIDE DEF Good
  <2> QED  BY <1>1, <2>1, <2>2, <2>3, Zenon DEF CallSound, BeforeRun, Active
<1>6. file' # Torn => \A k \in Keys : GoodIn(report', tx', call', k, file'[k])
  BY <1>1, <1>4 DEF EndpointInv, KeySound, Good
<1>7. Active(c)' => Active(c)
  BY <1>1 DEF Active
<1> HIDE DEF Active
<1> QED  BY <1>1, <1>3, <1>5, <1>6, <1>7, QuietPreserves DEF Shapes

LEMMA TearPreserves ==
  ASSUME EndpointInv, Tear
  PROVE  EndpointInv'
<1>1. file' = Torn /\ UNCHANGED <<enabled, report, call, tx, restarts, runs>>
  BY DEF Tear
<1>2. Shapes'
  BY <1>1 DEF EndpointInv, Shapes
<1>3. \A k \in Keys : KeySound(k)'
  BY <1>1 DEF EndpointInv, KeySound, Good
<1>4. \A c \in Calls : CallSound(c)'
  BY <1>1 DEF EndpointInv, CallSound, BeforeRun, Active, Good
<1>5. OneAtATime'
  BY <1>1 DEF EndpointInv, OneAtATime, Active
<1> QED  BY <1>2, <1>3, <1>4, <1>5 DEF EndpointInv

LEMMA AsidePreserves ==
  ASSUME EndpointInv, UNCHANGED hvars
  PROVE  EndpointInv'
<1>1. Shapes' /\ OneAtATime'
  BY DEF hvars, EndpointInv, Shapes, OneAtATime, Active
<1>2. \A k \in Keys : KeySound(k)'
  BY DEF hvars, EndpointInv, KeySound, Good
<1>3. \A c \in Calls : CallSound(c)'
  BY DEF hvars, EndpointInv, CallSound, BeforeRun, Active, Good
<1> QED  BY <1>1, <1>2, <1>3 DEF EndpointInv

\* The process loads what the file holds, or nothing; its calls are over.
LEMMA RestartPreserves ==
  ASSUME EndpointInv, NEW kept \in BOOLEAN, Restart(kept)
  PROVE  EndpointInv'
<1>1. Shapes /\ call \in [Calls -> CallRecord] /\ runs \in [Keys -> {0, 1}] /\ UNCHANGED tx
  BY DEF EndpointInv, Shapes, Restart
<1>2. /\ file' = report' /\ report' \in Reports
      /\ \A k \in Keys : report'[k] = NoReport \/ (file # Torn /\ report'[k] = file[k])
  BY <1>1, NoReportGood DEF Restart, Loaded, Shapes
<1>3. /\ runs' \in [Keys -> {0, 1}]
      /\ \A k \in Keys : runs'[k] = IF report'[k] = NoReport THEN 0 ELSE runs[k]
  BY <1>1, <1>2 DEF Restart
<1>4. enabled' \in BOOLEAN /\ restarts' \in Nat
  <2>1. enabled' \in BOOLEAN /\ restarts' = restarts + 1
    BY Zenon DEF Restart
  <2> QED  BY <1>1, <2>1 DEF Shapes
<1>5. ASSUME NEW c \in Calls
      PROVE  /\ call'[c] \in CallRecord /\ call'[c].input = call[c].input
             /\ call'[c].pc \in {"idle", "done"} /\ call'[c].snap = NoReports
             /\ call'[c].pc = "idle" => call[c].pc = "idle"
             /\ call'[c].answer = call[c].answer
             /\ call[c].pc \in {"idle", "done"} => call'[c] = call[c]
  <2>1. call[c] \in CallRecord /\ CallSound(c)
    BY <1>1 DEF EndpointInv
  <2>2. CASE call[c].pc \in {"idle", "done"}
    <3>1. call'[c] = call[c]
      BY <2>2 DEF Restart
    <3> QED  BY <2>1, <2>2, <3>1 DEF CallSound
  <2>3. CASE call[c].pc \notin {"idle", "done"}
    <3>1. call'[c] = [call[c] EXCEPT !.pc = "done", !.saving = "none", !.snap = NoReports]
      BY <2>3 DEF Restart
    <3> QED  BY <2>1, <2>3, <3>1, NoReportGood DEF CallRecord
  <2> QED  BY <2>2, <2>3
<1>6. call' \in [Calls -> CallRecord]
  <2>1. call' = [c \in Calls |-> call'[c]]
    BY Zenon DEF Restart
  <2> QED  BY <1>5, <2>1
<1>7. ASSUME NEW k \in Keys, NEW r, GoodIn(report, tx, call, k, r), r.status # "preview"
      PROVE  GoodIn(report', tx', call', k, r)
  BY <1>1, <1>5, <1>7 DEF GoodIn, PaidIn
<1>8. ASSUME NEW k \in Keys  PROVE KeySound(k)'
  <2>1. CASE report'[k] = NoReport
    BY <1>2, <1>3, <2>1, NoReportGood DEF KeySound, Good
  <2>2. CASE report'[k] # NoReport
    <3>1. file # Torn /\ report'[k] = file[k] /\ KeySound(k) /\ GoodIn(report, tx, call, k, file[k])
      BY <1>2, <2>2 DEF EndpointInv, KeySound, Good
    <3>2. GoodIn(report', tx', call', k, report'[k])
      <4>1. CASE report'[k].status = "preview"
        BY <4>1 DEF GoodIn
      <4>2. CASE report'[k].status # "preview"
        BY <1>7, <3>1, <4>2
      <4> QED  BY <4>1, <4>2
    <3>3. report'[k].status # "none"
      BY <2>2, <3>1 DEF GoodIn
    <3>4. report'[k].status = "preview" => runs'[k] = 0
      <4>1. report'[k].status = "preview" => report[k].status = "preview"
        BY <3>1 DEF GoodIn
      <4> QED  BY <1>3, <2>2, <3>1, <4>1 DEF KeySound
    <3> QED  BY <1>2, <3>2, <3>3, <3>4 DEF KeySound, Good
  <2> QED  BY <2>1, <2>2
<1>9. ASSUME NEW c \in Calls  PROVE CallSound(c)'
  <2>1. CallSound(c) /\ call'[c].pc \in {"idle", "done"} /\ call'[c].snap = NoReports
    BY <1>5 DEF EndpointInv
  <2>2. \A k \in Keys : Good(k, call[c].snap[k])'
    BY <2>1, NoReportGood DEF Good
  <2>3. call'[c].pc = "done" => /\ call[c].input \in Input /\ call'[c].answer.status \in {"none", "settled"}
                                /\ Good(call[c].input.key, call[c].answer)'
    <3>1. ASSUME call'[c].pc = "done"
          PROVE  /\ call[c].input \in Input /\ call'[c].answer.status \in {"none", "settled"}
                 /\ GoodIn(report, tx, call, call[c].input.key, call'[c].answer)
      <4>1. CASE call[c].pc = "done"
        BY <1>5, <2>1, <4>1 DEF CallSound, Good
      <4>2. CASE call[c].pc # "done"
        <5>1. Active(c)
          BY <1>1, <1>5, <3>1, <4>2 DEF Active, CallRecord
        <5>2. call[c].input \in Input /\ call'[c].answer = NoReport
          BY <1>5, <2>1, <5>1, AtWork DEF CallSound
        <5> QED  BY <5>2, NoReportGood
      <4> QED  BY <4>1, <4>2
    <3>2. ASSUME call'[c].pc = "done"
          PROVE  Good(call[c].input.key, call[c].answer)'
      <4>1. call[c].input.key \in Keys /\ call'[c].answer.status # "preview"
        BY <3>1, <3>2 DEF Input
      <4> QED  BY <1>5, <1>7, <3>1, <3>2, <4>1 DEF Good
    <3> QED  BY <3>1, <3>2
  <2> HIDE DEF Good
  <2> QED  BY <1>1, <1>5, <2>1, <2>2, <2>3 DEF CallSound, BeforeRun, Active
<1>10. OneAtATime'
  BY <1>5 DEF OneAtATime, Active
<1>11. Shapes'
  BY <1>1, <1>2, <1>3, <1>4, <1>6 DEF Shapes
<1> QED  BY <1>8, <1>9, <1>10, <1>11 DEF EndpointInv

-----------------------------------------------------------------------------
(* The invariant *)

LEMMA InitSound == Init => SInv
<1> SUFFICES ASSUME Init  PROVE SInv
  OBVIOUS
<1>1. WalletInv
  BY WalletInit DEF Init
<1>2. Idle \in CallRecord /\ Idle.pc = "idle" /\ Idle.snap = NoReports
  BY NoReportGood DEF Idle, CallRecord, Statuses
<1>3. \A c \in Calls : call[c] = Idle
  BY DEF Init
<1>4. call \in [Calls -> CallRecord]
  <2> HIDE DEF Idle
  <2> QED  BY <1>2 DEF Init
<1>5. Shapes
  BY <1>4, NoReportGood DEF Init, Shapes
<1>6. ASSUME NEW c \in Calls  PROVE CallSound(c)
  <2>1. call[c].pc = "idle" /\ call[c].snap = NoReports /\ tx[c] = "none"
    BY <1>2, <1>3 DEF Init
  <2>2. \A k \in Keys : Good(k, call[c].snap[k])
    BY <2>1, NoReportGood DEF Good
  <2> HIDE DEF Good
  <2> QED  BY <2>1, <2>2 DEF CallSound, BeforeRun, Active
<1>7. ASSUME NEW k \in Keys  PROVE KeySound(k)
  BY NoReportGood DEF Init, KeySound, Good
<1>8. OneAtATime
  BY <1>2, <1>3 DEF OneAtATime, Active
<1> QED  BY <1>1, <1>5, <1>6, <1>7, <1>8 DEF SInv, EndpointInv

LEMMA EndpointNext ==
  ASSUME EndpointInv, [Next]_vars
  PROVE  EndpointInv'
<1>1. ASSUME NEW c \in Calls, NEW input \in Inputs, Enter(c, input) \/ Replay(c, input)
      PROVE  EndpointInv'
  <2>1. input \in Input
    BY MaxAmountAssumption DEF Inputs, Input
  <2> QED  BY <1>1, <2>1, EnterPreserves, ReplayPreserves
<1>2. ASSUME NEW c \in Calls,
             Snapshot(c) \/ Write(c) \/ WriteFails(c) \/ Run(c) \/ Land(c) \/ Finish(c)
      PROVE  EndpointInv'
  BY <1>2, SnapshotPreserves, WritePreserves, WriteFailsPreserves, RunPreserves, LandPreserves, FinishPreserves
<1>3. ASSUME NEW kept \in BOOLEAN, Restart(kept)  PROVE EndpointInv'
  BY <1>3, RestartPreserves
<1>4. CASE Tear
  BY <1>4, TearPreserves
<1>5. CASE OwnerActs \/ SessionActs \/ Tick \/ UNCHANGED vars
  <2>1. UNCHANGED hvars
    BY <1>5 DEF OwnerActs, SessionActs, Tick, vars
  <2> QED  BY <2>1, AsidePreserves
<1> QED  BY <1>1, <1>2, <1>3, <1>4, <1>5, Zenon DEF Next

LEMMA WalletNext ==
  ASSUME WalletInv, EndpointInv, [Next]_vars
  PROVE  WalletInv'
<1>1. ASSUME UNCHANGED wvars  PROVE WalletInv'
  BY <1>1 DEF WalletInv, wvars
<1>2. ASSUME NEW c \in Calls, NEW input \in Inputs, Enter(c, input) \/ Replay(c, input)
      PROVE  WalletInv'
  BY <1>1, <1>2 DEF Enter, Replay
<1>3. ASSUME NEW c \in Calls, Snapshot(c) \/ Write(c) \/ WriteFails(c) \/ Run(c) \/ Finish(c)
      PROVE  WalletInv'
  BY <1>1, <1>3 DEF Snapshot, Write, WriteFails, Run, Finish
<1>4. ASSUME NEW c \in Calls, Land(c)  PROVE WalletInv'
  <2>1. CallSound(c) /\ tx[c] = "sent"
    BY <1>4 DEF EndpointInv, Land
  <2>2. PICK input \in Input : input = call[c].input
    BY <2>1 DEF CallSound
  <2>3. CASE ExecuteAllowedTransfer(Signer, Payment(input))
    <3>1. Payment(input).nonce \in Nonces /\ Payment(input).amount \in Int
      BY DEF Payment, Input
    <3> QED  BY <2>3, <3>1, EnvAssumption, TransferPreserves
  <2>4. CASE UNCHANGED wvars
    BY <1>1, <2>4
  <2> QED  BY <1>4, <2>2, <2>3, <2>4 DEF Land
<1>5. ASSUME NEW kept \in BOOLEAN, Restart(kept)  PROVE WalletInv'
  BY <1>1, <1>5 DEF Restart
<1>6. CASE Tear \/ UNCHANGED vars
  BY <1>1, <1>6 DEF Tear, vars
<1>7. CASE OwnerActs
  <2>1. balance = 0 /\ Deposit(MaxAmount) => WalletInv'
    BY MaxAmountAssumption DEF Deposit, WalletInv
  <2> QED  BY <1>7, <2>1, GrantPreserves, RevokePreserves DEF OwnerActs
<1>8. CASE SessionActs
  <2>1. PICK s \in Signers, payment \in Scripted :
           ExecuteAllowedPayment(s, payment) \/ ExecuteAllowedTransfer(s, payment)
    BY <1>8 DEF SessionActs
  <2>2. payment.nonce \in Nonces /\ payment.amount \in Int
    BY MaxAmountAssumption DEF Scripted
  <2> QED  BY <2>1, <2>2, TransferPreserves
<1>9. CASE Tick
  BY <1>9, HorizonAssumption DEF Tick, Close, WalletInv
<1> QED  BY <1>2, <1>3, <1>4, <1>5, <1>6, <1>7, <1>8, <1>9, Zenon DEF Next

THEOREM InvariantHolds == Spec => []SInv
<1>1. SInv /\ [Next]_vars => SInv'
  BY EndpointNext, WalletNext DEF SInv
<1> QED  BY InitSound, <1>1, PTL DEF Spec

-----------------------------------------------------------------------------
(* What it says of the supervised transfer *)

\* The wallet, the reports, the file and the calls keep their types.
THEOREM TypeCorrect == Spec => []TypeOK
<1>1. SInv => TypeOK
  <2> SUFFICES ASSUME SInv  PROVE TypeOK
    OBVIOUS
  <2>1. WalletInv /\ Shapes /\ \A c \in Calls : CallSound(c)
    BY DEF SInv, EndpointInv
  <2>2. file = Torn \/ DOMAIN file = Keys
    BY <2>1 DEF Shapes, Reports
  <2>3. \A k \in Keys : report[k].status \in Statuses \cup {"none"}
    BY <2>1 DEF Shapes, Reports, ReportRecord
  <2>4. ASSUME NEW c \in Calls
        PROVE  /\ call[c].pc \in {"idle", "save", "write", "run", "running", "done"}
               /\ call[c].pc # "idle" => call[c].input \in Input
               /\ call[c].pc = "write" => call[c].snap[call[c].input.key] # NoReport
    <3>1. CallSound(c) /\ call[c] \in CallRecord
      BY <2>1 DEF Shapes
    <3> QED  BY <3>1, NoReportGood DEF CallSound, CallRecord
  <2> QED  BY <2>1, <2>2, <2>3, <2>4 DEF TypeOK, WalletInv, Shapes
<1> QED  BY InvariantHolds, <1>1, PTL

\* Whatever says settled names a transfer that its key paid for.
THEOREM SettledIsPaidHolds == Spec => []SettledIsPaid
<1>1. SInv => SettledIsPaid
  <2> SUFFICES ASSUME SInv  PROVE SettledIsPaid
    OBVIOUS
  <2>1. \A k, r : Good(k, r) => Truthful(k, r)
    BY DEF Good, GoodIn, PaidIn, Truthful, PaidUnder
  <2>2. \A k \in Keys : Good(k, report[k]) /\ (file # Torn => Good(k, file[k]))
    BY DEF SInv, EndpointInv, KeySound
  <2>3. \A c \in Calls : call[c].pc = "done" => Good(call[c].input.key, call[c].answer)
    BY DEF SInv, EndpointInv, CallSound
  <2> HIDE DEF Good
  <2> QED  BY <2>1, <2>2, <2>3 DEF SettledIsPaid
<1> QED  BY InvariantHolds, <1>1, PTL

\* While the file remembers a key the CLI is run for it once at most.
THEOREM OneRunHolds == Spec => []OneRunPerKey
<1>1. SInv => OneRunPerKey
  BY DEF SInv, EndpointInv, Shapes, KeySound, OneRunPerKey
<1> QED  BY InvariantHolds, <1>1, PTL

\* A nonce of a session goes through once at most.
THEOREM RetriesPayOnceHolds == Spec => []RetriesPayOnce
<1>1. SInv => RetriesPayOnce
  BY DEF SInv, WalletInv, RetriesPayOnce
<1> QED  BY InvariantHolds, <1>1, PTL

\* What is reported of a finished call.
Final(k) == report[k].status \in {"preview", "settled", "failed"}

\* The report of k stays, or a settled one becomes failed.
Stays(k) == \/ report'[k] = report[k]
            \/ report[k].status = "settled" /\ report'[k].status = "failed"

LEMMA SavesStays ==
  ASSUME Shapes, NEW c \in Calls, NEW input \in Input, NEW status, Saves(c, input, status),
         ~Final(input.key) \/ (report[input.key].status = "settled" /\ status = "failed")
  PROVE  \A k \in Keys : Final(k) => Stays(k)
<1>1. call'[c].input = input
  BY DEF Saves, Shapes
<1>2. report' = [report EXCEPT ![input.key] = Recorded(status, IF status = "settled" THEN input.nonce ELSE None)]
  <2>1. Record(c, status)
    BY DEF Saves
  <2> QED  BY <1>1, <2>1, Zenon DEF Record
<1>3. input.key \in Keys
  BY DEF Input
<1>4. report \in [Keys -> ReportRecord]
  BY DEF Shapes, Reports
<1>5. Recorded(status, IF status = "settled" THEN input.nonce ELSE None).status = status
  BY DEF Recorded
<1>6. report'[input.key].status = status /\ \A k \in Keys \ {input.key} : report'[k] = report[k]
  BY <1>2, <1>3, <1>4, <1>5
<1> QED  BY <1>6 DEF Stays

LEMMA FailsStays ==
  ASSUME EndpointInv, NEW c \in Calls, Active(c), Fails(c)
  PROVE  \A k \in Keys : Final(k) => Stays(k)
<1>1. PICK input \in Input : input = call[c].input
  BY AtWork
<1>2. CASE input.mode = "submit" /\ call[c].saving # "failed"
  <2>1. Saves(c, input, "failed")
    BY <1>1, <1>2 DEF Fails
  <2>2. report[input.key].status \in Statuses \ {"preview", "failed"}
    BY <1>1, <1>2, AtWork DEF EndpointInv, Shapes, Reports, ReportRecord, CallSound, Active
  <2> QED  BY <2>1, <2>2, SavesStays DEF Final, Statuses, EndpointInv
<1>3. CASE ~(input.mode = "submit" /\ call[c].saving # "failed")
  BY <1>1, <1>3 DEF Fails, Answer, Stays
<1> QED  BY <1>2, <1>3

\* While a process runs, a report of a finished call stays, except that a
\* settled one whose save failed becomes failed.
THEOREM ReportsAreFinalHolds == Spec => ReportsAreFinal
<1> DEFINE Step == \A k \in Keys : Final(k) /\ restarts' = restarts => Stays(k)
<1>1. SInv /\ [Next]_vars => [Step]_vars
  <2> SUFFICES ASSUME SInv, Next  PROVE Step
    OBVIOUS
  <2>1. ASSUME NEW c \in Calls, NEW input \in Inputs, Enter(c, input) \/ Replay(c, input)
        PROVE  Step
    <3>1. input \in Input /\ Shapes
      BY MaxAmountAssumption DEF Inputs, Input, SInv, EndpointInv
    <3>2. CASE Enter(c, input)
      <4>1. PICK status \in {"preview", "submitting", "failed"} : Saves(c, input, status)
        BY <3>2 DEF Enter
      <4>2. ~Final(input.key)
        BY <3>2, NoReportGood DEF Enter, Unseen, Final
      <4> QED  BY <3>1, <4>1, <4>2, SavesStays
    <3>3. CASE Replay(c, input)
      BY <3>3 DEF Replay, Stays
    <3> QED  BY <2>1, <3>2, <3>3
  <2>2. ASSUME NEW c \in Calls, Snapshot(c) \/ Land(c)  PROVE Step
    BY <2>2 DEF Snapshot, Land, Stays
  <2>3. ASSUME NEW c \in Calls, Write(c)  PROVE Step
    BY <2>3 DEF Write, AfterSave, Answer, Stays
  <2>4. ASSUME NEW c \in Calls, WriteFails(c) \/ Run(c) \/ Finish(c)  PROVE Step
    <3>1. Active(c)
      BY <2>4 DEF WriteFails, Run, Finish, Active
    <3>2. CASE Fails(c)
      BY <3>1, <3>2, FailsStays DEF SInv
    <3>3. CASE Finish(c) /\ Saves(c, call[c].input, "settled")
      <4>1. PICK input \in Input : input = call[c].input
        BY <3>1, AtWork DEF SInv
      <4>2. Saves(c, input, "settled") /\ report[input.key].status = "submitting" /\ Shapes
        BY <3>3, <4>1 DEF Finish, SInv, EndpointInv, CallSound
      <4> QED  BY <4>2, SavesStays DEF Final
    <3>4. CASE UNCHANGED report
      BY <3>4 DEF Stays
    <3> QED  BY <2>4, <3>2, <3>3, <3>4 DEF WriteFails, Run, Finish
  <2>5. ASSUME NEW kept \in BOOLEAN, Restart(kept)  PROVE Step
    <3>1. restarts' = restarts + 1
      BY <2>5, Zenon DEF Restart
    <3>2. restarts' # restarts
      BY <3>1 DEF SInv, EndpointInv, Shapes
    <3> QED  BY <3>2
  <2>6. CASE Tear \/ OwnerActs \/ SessionActs \/ Tick
    BY <2>6 DEF Tear, OwnerActs, SessionActs, Tick, hvars, Stays
  <2> HIDE DEF Step
  <2> QED  BY <2>1, <2>2, <2>3, <2>4, <2>5, <2>6, Zenon DEF Next
<1>2. [Step]_vars => [\A k \in Keys :
                        report[k].status \in {"preview", "settled", "failed"} /\ restarts' = restarts
                          => \/ report'[k] = report[k]
                             \/ report[k].status = "settled" /\ report'[k].status = "failed"]_vars
  BY DEF Final, Stays
<1> HIDE DEF Step
<1> QED  BY InvariantHolds, <1>1, <1>2, PTL DEF Spec, ReportsAreFinal
=============================================================================
