----------------------- MODULE ContractAccountProofs -----------------------
(***************************************************************************)
(* Proofs about the contract account in use, for every number of clients,  *)
(* repeated deliveries, requests, deploy calls and ceremonies: a request   *)
(* is sent to the network once, receipts and ceremonies tell the truth,    *)
(* what is recorded as failed stays failed, and the contract is an         *)
(* allowance.                                                              *)
(***************************************************************************)
EXTENDS ContractAccount, FiniteSetTheorems, TLAPS

-----------------------------------------------------------------------------
(* The invariant *)

\* The invocation c has consumed r: it works on it, or left a transaction.
Touched(c, r) ==
  \/ call[c].of = r /\ call[c].pc \in Running
  \/ tx[<<c, r>>].state # "none"

\* One invocation at most consumes a request, and none works on a failed one.
RequestSound(r) ==
  /\ request[r].status \in {"absent", "prepared"} => \A c \in Submits : ~Touched(c, r)
  /\ request[r].status = "failed" => \A c \in Submits : ~(call[c].of = r /\ call[c].pc \in Running)
  /\ \A c, d \in Submits : Touched(c, r) /\ Touched(d, r) => c = d
  /\ r \in receipts => Landed(r)

\* How far an invocation is tells what has become of its transaction.
CallSound(c) ==
  /\ call[c].pc # "idle" => call[c].of \in Requests
  /\ At(c, "build") => tx[Name(c)].state = "none"
  /\ At(c, "send") => tx[Name(c)].state = "built"
  /\ At(c, "record") => tx[Name(c)].state = "success"
  /\ At(c, "list") => tx[Name(c)].state = "success" /\ call[c].of \in receipts
  /\ At(c, "ok") => call[c].of \in listed

RelayerInv ==
  /\ listed \subseteq receipts
  /\ \A r \in Requests : RequestSound(r)
  /\ \A c \in Submits : CallSound(c)

\* The deploy call d has claimed its ceremony.
Owns(d) == job[d].pc \in JobRunning \ {"claim"} \/ tx[Deployment(d)].state # "none"

\* One deploy call at most owns a ceremony.
CeremonySound(k) ==
  /\ ceremony[k].status \in {"absent", "pending"} => \A d \in Deploys : job[d].of = k => ~Owns(d)
  /\ \A d, e \in Deploys : job[d].of = k /\ job[e].of = k /\ Owns(d) /\ Owns(e) => d = e
  /\ ceremony[k].status = "deployed" =>
       LET d == ceremony[k].contract IN
       d \in Deploys /\ job[d].of = k /\ tx[Deployment(d)].state = "success"

JobSound(d) ==
  /\ Doing(d, "idle") => job[d] = IdleJob /\ tx[Deployment(d)].state = "none"
  /\ job[d].pc \in {"claim", "deploy"} => tx[Deployment(d)].state = "none"
  /\ Doing(d, "sendDeploy") => tx[Deployment(d)].state = "built"
  /\ job[d].pc \in {"completeRead", "completeWrite"} => tx[Deployment(d)].state = "success"
  /\ job[d].pc \in {"claim", "completeRead", "completeWrite", "failRead", "failWrite"} => job[d].of # None

CeremonyInv ==
  /\ \A k \in Ceremonies : CeremonySound(k)
  /\ \A d \in Deploys : JobSound(d)

AInv == TypeOK /\ RelayerInv /\ CeremonyInv

-----------------------------------------------------------------------------
(* What the steps are made of *)

LEMMA ConstantFacts ==
  /\ MaxLimit \in Nat \ {0} /\ PerPayment \in Nat \ {0} /\ PerPayment <= MaxLimit
  /\ TotalLimit \in Nat \ {0} /\ PerPayment <= TotalLimit
  /\ SessionTTL \in Nat \ {0} /\ RequestTTL \in Nat \ {0} /\ SignatureTTL \in Nat \ {0}
  /\ TxTimeout \in Nat \ {0} /\ CeremonyTTL \in Nat \ {0}
BY RelayerAssumption, CeremonyAssumption, MaxLimitAssumption

\* The transactions of two invocations are not the same.
LEMMA NameFacts ==
  /\ \A c \in Submits, r \in Requests : <<c, r>> \in Names
  /\ \A d \in Deploys : Deployment(d) \in Names
  /\ \A c \in Submits, r \in Requests, d \in Deploys : <<c, r>> # Deployment(d)
  /\ \A d, e \in Deploys : d # e => Deployment(d) # Deployment(e)
BY RelayerAssumption DEF Names, Deployment

LEMMA GotoFacts ==
  ASSUME call \in [Submits -> Call], NEW c \in Submits, NEW pc \in Pc, Goto(c, pc)
  PROVE  /\ call' \in [Submits -> Call]
         /\ call'[c].pc = pc /\ call'[c].of = call[c].of /\ call'[c].key = call[c].key
         /\ \A d \in Submits : d # c => call'[d] = call[d]
<1>1. call[c] \in Call /\ call' = [call EXCEPT ![c] = [call[c] EXCEPT !.pc = pc]]
  BY DEF Goto
<1>2. [call[c] EXCEPT !.pc = pc] \in Call
  BY <1>1 DEF Call
<1>3. /\ [call[c] EXCEPT !.pc = pc].pc = pc /\ [call[c] EXCEPT !.pc = pc].of = call[c].of
      /\ [call[c] EXCEPT !.pc = pc].key = call[c].key
  BY <1>1 DEF Call
<1> QED  BY <1>1, <1>2, <1>3

LEMMA ThenFacts ==
  ASSUME job \in [Deploys -> Job], NEW d \in Deploys, NEW pc \in JobPc, Then(d, pc)
  PROVE  /\ job' \in [Deploys -> Job]
         /\ job'[d].pc = pc /\ job'[d].of = job[d].of
         /\ \A e \in Deploys : e # d => job'[e] = job[e]
<1>1. job[d] \in Job /\ job' = [job EXCEPT ![d] = [job[d] EXCEPT !.pc = pc]]
  BY DEF Then
<1>2. [job[d] EXCEPT !.pc = pc] \in Job
  BY <1>1 DEF Job
<1>3. [job[d] EXCEPT !.pc = pc].pc = pc /\ [job[d] EXCEPT !.pc = pc].of = job[d].of
  BY <1>1 DEF Job
<1> QED  BY <1>1, <1>2, <1>3

LEMMA BuildFacts ==
  ASSUME tx \in [Names -> Tx], time \in Nat, sequence \in Nat,
         NEW n \in Names, NEW key \in Signers \cup {None}, BuildTx(n, key)
  PROVE  /\ tx' \in [Names -> Tx] /\ tx'[n].state = "built"
         /\ \A m \in Names : m # n => tx'[m] = tx[m]
<1> DEFINE new == [state |-> "built", key |-> key, seq |-> sequence + 1, until |-> time + TxTimeout]
<1>1. new \in Tx /\ new.state = "built"
  BY ConstantFacts DEF Tx, TxState
<1>2. tx' = [tx EXCEPT ![n] = new]
  BY DEF BuildTx
<1> HIDE DEF new
<1> QED  BY <1>1, <1>2

LEMMA SendFacts ==
  ASSUME tx \in [Names -> Tx], NEW n \in Names, SendTx(n)
  PROVE  /\ tx' \in [Names -> Tx] /\ tx'[n].state = "pending"
         /\ \A m \in Names : m # n => tx'[m] = tx[m]
<1> DEFINE new == [tx[n] EXCEPT !.state = "pending"]
<1>1. new \in Tx /\ new.state = "pending"
  <2>1. tx[n] \in Tx /\ "pending" \in TxState
    BY DEF TxState
  <2> QED  BY <2>1 DEF Tx
<1>2. tx' = [tx EXCEPT ![n] = new]
  BY DEF SendTx
<1> HIDE DEF new
<1> QED  BY <1>1, <1>2

LEMMA IncludeFacts ==
  ASSUME tx \in [Names -> Tx], sequence \in Nat,
         NEW n \in Names, NEW state \in TxState, Include(n, state)
  PROVE  /\ tx' \in [Names -> Tx] /\ tx'[n].state = state /\ sequence' \in Nat
         /\ \A m \in Names : m # n => tx'[m] = tx[m]
<1> DEFINE new == [NoTx EXCEPT !.state = state]
<1>1. NoTx \in Tx
  BY DEF NoTx, Tx, TxState
<1>2. new \in Tx /\ new.state = state
  <2> HIDE DEF NoTx
  <2> QED  BY <1>1 DEF Tx
<1>3. tx' = [tx EXCEPT ![n] = new] /\ sequence' = sequence + 1
  BY DEF Include
<1> HIDE DEF new
<1> QED  BY <1>2, <1>3

-----------------------------------------------------------------------------
(* The relayer *)

\* The relayer's part does not see the deployments, nor they it.
LEMMA RelayerAside ==
  ASSUME TypeOK, RelayerInv, UNCHANGED <<request, receipts, listed, call>>,
         \A c \in Submits, r \in Requests : tx'[<<c, r>>] = tx[<<c, r>>]
  PROVE  RelayerInv'
<1>1. ASSUME NEW r \in Requests  PROVE RequestSound(r)'
  <2>1. RequestSound(r) /\ \A c \in Submits : tx'[<<c, r>>] = tx[<<c, r>>]
    BY DEF RelayerInv
  <2> QED  BY <2>1 DEF RequestSound, Touched, Landed
<1>2. ASSUME NEW c \in Submits  PROVE CallSound(c)'
  <2>1. CallSound(c) /\ (call[c].pc # "idle" => tx'[Name(c)] = tx[Name(c)])
    BY DEF RelayerInv, CallSound, Name
  <2>2. Name(c)' = Name(c)
    BY DEF Name
  <2> QED  BY <2>1, <2>2 DEF CallSound, At
<1> QED  BY <1>1, <1>2 DEF RelayerInv

LEMMA CeremonyAside ==
  ASSUME CeremonyInv, UNCHANGED <<ceremony, job>>,
         \A d \in Deploys : tx'[Deployment(d)] = tx[Deployment(d)]
  PROVE  CeremonyInv'
<1>1. ASSUME NEW k \in Ceremonies  PROVE CeremonySound(k)'
  <2>1. CeremonySound(k)
    BY DEF CeremonyInv
  <2> QED  BY <2>1 DEF CeremonySound, Owns, Deployment
<1>2. ASSUME NEW d \in Deploys  PROVE JobSound(d)'
  <2>1. JobSound(d)
    BY DEF CeremonyInv
  <2> QED  BY <2>1 DEF JobSound, Doing, Deployment
<1> QED  BY <1>1, <1>2 DEF CeremonyInv

\* A step of an invocation on the request it has consumed.
LEMMA CallStep ==
  ASSUME TypeOK, RelayerInv, NEW c \in Submits, NEW r0 \in Requests,
         call[c].pc \in Running, call[c].of = r0, call'[c].of = r0,
         \A d \in Submits : d # c => call'[d] = call[d],
         \A d \in Submits, r \in Requests : d # c \/ r # r0 => tx'[<<d, r>>] = tx[<<d, r>>],
         tx[<<c, r0>>].state = "success" => tx'[<<c, r0>>].state = "success",
         \A r \in Requests : r # r0 => request'[r] = request[r],
         \/ request'[r0].status = request[r0].status
         \/ request'[r0].status = "failed" /\ call'[c].pc \notin Running,
         receipts' = receipts \/ (receipts' = receipts \cup {r0} /\ tx'[<<c, r0>>].state = "success"),
         listed \subseteq listed', listed' \subseteq receipts',
         CallSound(c)'
  PROVE  RelayerInv'
<1>1. Touched(c, r0) /\ RequestSound(r0)
  BY DEF Touched, RelayerInv
<1>2. ASSUME NEW d \in Submits, NEW r \in Requests, Touched(d, r)'  PROVE Touched(d, r)
  <2>1. CASE d = c /\ r = r0
    BY <1>1, <2>1
  <2>2. CASE d # c \/ r # r0
    <3>1. tx'[<<d, r>>] = tx[<<d, r>>]
      BY <2>2
    <3>2. call'[d].of = r /\ call'[d].pc \in Running => call[d].of = r /\ call[d].pc \in Running
      BY <2>2
    <3> QED  BY <1>2, <3>1, <3>2 DEF Touched
  <2> QED  BY <2>1, <2>2
<1>3. ASSUME NEW r \in Requests, Landed(r)  PROVE Landed(r)'
  BY <1>3 DEF Landed
<1>4. ASSUME NEW r \in Requests  PROVE RequestSound(r)'
  <2>1. RequestSound(r)
    BY DEF RelayerInv
  <2>2. request'[r].status \in {"absent", "prepared"} => \A d \in Submits : ~Touched(d, r)'
    <3>1. request'[r].status \in {"absent", "prepared"} => request'[r].status = request[r].status
      OBVIOUS
    <3> QED  BY <1>2, <2>1, <3>1 DEF RequestSound
  <2>3. request'[r].status = "failed" =>
          \A d \in Submits : ~(call'[d].of = r /\ call'[d].pc \in Running)
    <3>1. CASE r = r0
      <4>1. request[r0].status # "failed"
        BY <1>1 DEF RequestSound
      <4>2. request'[r0].status = "failed" => call'[c].pc \notin Running
        BY <4>1
      <4>3. \A d \in Submits : d # c => ~(call[d].of = r0 /\ call[d].pc \in Running)
        BY <1>1 DEF RequestSound, Touched
      <4> QED  BY <3>1, <4>2, <4>3
    <3>2. CASE r # r0
      BY <2>1, <3>2 DEF RequestSound
    <3> QED  BY <3>1, <3>2
  <2>4. \A d, e \in Submits : Touched(d, r)' /\ Touched(e, r)' => d = e
    BY <1>2, <2>1 DEF RequestSound
  <2>5. r \in receipts' => Landed(r)'
    <3>1. CASE r \in receipts
      BY <1>3, <2>1, <3>1 DEF RequestSound
    <3>2. CASE r \notin receipts
      BY <3>2 DEF Landed
    <3> QED  BY <3>1, <3>2
  <2> HIDE DEF Touched
  <2> QED  BY <2>2, <2>3, <2>4, <2>5 DEF RequestSound
<1>5. ASSUME NEW d \in Submits  PROVE CallSound(d)'
  <2>1. CASE d = c
    BY <2>1
  <2>2. CASE d # c
    <3>1. CallSound(d) /\ call'[d] = call[d]
      BY <2>2 DEF RelayerInv
    <3>2. call[d].pc # "idle" => tx'[Name(d)] = tx[Name(d)]
      BY <2>2, <3>1 DEF CallSound, Name
    <3>3. Name(d)' = Name(d)
      BY <3>1 DEF Name
    <3> QED  BY <3>1, <3>2, <3>3 DEF CallSound, At
  <2> QED  BY <2>1, <2>2
<1> QED  BY <1>4, <1>5 DEF RelayerInv

\* An invocation at work, and the request it works on.
LEMMA AtWork ==
  ASSUME AInv, NEW c \in Submits, call[c].pc \in Running
  PROVE  \E r \in Requests :
           /\ call[c].of = r /\ Name(c) = <<c, r>> /\ <<c, r>> \in Names
           /\ RequestSound(r) /\ CallSound(c)
           /\ call \in [Submits -> Call] /\ tx \in [Names -> Tx]
           /\ request \in [Requests -> Request] /\ time \in Nat /\ sequence \in Nat
           /\ call[c].key \in Signers \cup {None}
<1>1. call[c].pc # "idle"
  BY DEF Running
<1>2. call[c].of \in Requests /\ CallSound(c)
  BY <1>1 DEF AInv, RelayerInv, CallSound
<1>3. call \in [Submits -> Call] /\ call[c].key \in Signers \cup {None}
  BY DEF AInv, TypeOK, Call
<1> QED  BY <1>2, <1>3, NameFacts DEF AInv, RelayerInv, TypeOK, Name

\* What is left to show of a step that changes a call and its transaction.
LEMMA OneCall ==
  ASSUME AInv, NEW c \in Submits, NEW r \in Requests, call[c].pc \in Running, call[c].of = r,
         call' \in [Submits -> Call], call'[c].of = r,
         \A d \in Submits : d # c => call'[d] = call[d],
         tx' \in [Names -> Tx], \A n \in Names : n # <<c, r>> => tx'[n] = tx[n],
         tx[<<c, r>>].state = "success" => tx'[<<c, r>>].state = "success",
         UNCHANGED <<cvars, request, receipts, listed, sequence, dvars>>,
         CallSound(c)'
  PROVE  AInv'
<1>1. TypeOK'
  BY DEF AInv, TypeOK, cvars, dvars
<1>2. \A d \in Submits, q \in Requests : d # c \/ q # r => tx'[<<d, q>>] = tx[<<d, q>>]
  BY NameFacts
<1>3. \A d \in Deploys : tx'[Deployment(d)] = tx[Deployment(d)]
  BY NameFacts
<1>4. RelayerInv'
  BY <1>2, CallStep DEF AInv, RelayerInv
<1>5. CeremonyInv'
  BY <1>3, CeremonyAside DEF AInv, dvars
<1> QED  BY <1>1, <1>4, <1>5 DEF AInv

LEMMA BuildPreserves ==
  ASSUME AInv, NEW c \in Submits, Build(c), UNCHANGED dvars
  PROVE  AInv'
<1>1. At(c, "build") /\ call[c].pc \in Running
  BY DEF Build, At, Running
<1>2. PICK r \in Requests :
        /\ call[c].of = r /\ Name(c) = <<c, r>> /\ <<c, r>> \in Names
        /\ CallSound(c) /\ call \in [Submits -> Call] /\ tx \in [Names -> Tx]
        /\ time \in Nat /\ sequence \in Nat /\ call[c].key \in Signers \cup {None}
  BY <1>1, AtWork
<1>3. tx[<<c, r>>].state = "none" /\ UNCHANGED <<cvars, request, receipts, listed, sequence>>
  BY <1>1, <1>2 DEF CallSound, Build
<1>4. CASE BuildTx(Name(c), call[c].key) /\ Goto(c, "send")
  <2>1. "send" \in Pc
    BY DEF Pc
  <2>2. /\ call' \in [Submits -> Call] /\ call'[c].pc = "send" /\ call'[c].of = r
        /\ \A d \in Submits : d # c => call'[d] = call[d]
    BY <1>2, <1>4, <2>1, GotoFacts
  <2>3. PICK key \in Signers \cup {None} : key = call[c].key
    BY <1>2
  <2>4. BuildTx(<<c, r>>, key)
    BY <1>2, <1>4, <2>3
  <2>5. /\ tx' \in [Names -> Tx] /\ tx'[<<c, r>>].state = "built"
        /\ \A n \in Names : n # <<c, r>> => tx'[n] = tx[n]
    BY <1>2, <2>4, BuildFacts
  <2>6. CallSound(c)'
    BY <2>2, <2>5 DEF CallSound, At, Name
  <2> QED  BY <1>1, <1>2, <1>3, <2>2, <2>5, <2>6, OneCall
<1>5. CASE Goto(c, "failRead") /\ UNCHANGED tx
  <2>1. "failRead" \in Pc
    BY DEF Pc
  <2>2. /\ call' \in [Submits -> Call] /\ call'[c].pc = "failRead" /\ call'[c].of = r
        /\ \A d \in Submits : d # c => call'[d] = call[d]
    BY <1>2, <1>5, <2>1, GotoFacts
  <2>3. CallSound(c)'
    BY <2>2 DEF CallSound, At
  <2> QED  BY <1>1, <1>2, <1>3, <1>5, <2>2, <2>3, OneCall
<1> QED  BY <1>4, <1>5 DEF Build

\* An invocation that fails has its request to mark, or nothing more to do.
LEMMA GivesUp ==
  ASSUME AInv, NEW c \in Submits, call[c].pc \in Running, NEW pc \in {"failRead", "failWrite", "error"},
         Goto(c, pc), UNCHANGED <<cvars, request, receipts, listed, tx, sequence, dvars>>
  PROVE  AInv'
<1>1. PICK r \in Requests :
        call[c].of = r /\ <<c, r>> \in Names /\ call \in [Submits -> Call] /\ tx \in [Names -> Tx]
  BY AtWork
<1>2. pc \in Pc
  BY DEF Pc
<1>3. /\ call' \in [Submits -> Call] /\ call'[c].pc = pc /\ call'[c].of = r
      /\ \A d \in Submits : d # c => call'[d] = call[d]
  BY <1>1, <1>2, GotoFacts
<1>4. CallSound(c)'
  BY <1>3 DEF CallSound, At
<1> QED  BY <1>1, <1>3, <1>4, OneCall

LEMMA SendPreserves ==
  ASSUME AInv, NEW c \in Submits, Send(c), UNCHANGED dvars
  PROVE  AInv'
<1>1. At(c, "send") /\ call[c].pc \in Running
  BY DEF Send, At, Running
<1>2. PICK r \in Requests :
        /\ call[c].of = r /\ Name(c) = <<c, r>> /\ <<c, r>> \in Names
        /\ CallSound(c) /\ call \in [Submits -> Call] /\ tx \in [Names -> Tx]
  BY <1>1, AtWork
<1>3. tx[<<c, r>>].state = "built" /\ UNCHANGED <<cvars, request, receipts, listed, sequence>>
  BY <1>1, <1>2 DEF CallSound, Send
<1>4. ASSUME SendTx(Name(c)), NEW pc \in {"poll", "failRead"}, Goto(c, pc)  PROVE AInv'
  <2>1. pc \in Pc
    BY DEF Pc
  <2>2. /\ call' \in [Submits -> Call] /\ call'[c].pc = pc /\ call'[c].of = r
        /\ \A d \in Submits : d # c => call'[d] = call[d]
    BY <1>2, <1>4, <2>1, GotoFacts
  <2>3. SendTx(<<c, r>>)
    BY <1>2, <1>4
  <2>4. tx' \in [Names -> Tx] /\ \A n \in Names : n # <<c, r>> => tx'[n] = tx[n]
    BY <1>2, <2>3, SendFacts
  <2>5. CallSound(c)'
    BY <2>2 DEF CallSound, At
  <2> QED  BY <1>1, <1>2, <1>3, <2>2, <2>4, <2>5, OneCall
<1>5. CASE Goto(c, "failRead") /\ UNCHANGED tx
  BY <1>1, <1>3, <1>5, GivesUp
<1> QED  BY <1>4, <1>5 DEF Send

LEMMA PollPreserves ==
  ASSUME AInv, NEW c \in Submits, Poll(c), UNCHANGED dvars
  PROVE  AInv'
<1>1. call[c].pc \in Running /\ UNCHANGED <<cvars, request, receipts, listed, tx, sequence>>
  BY DEF Poll, At, Running
<1>2. CASE Settled(c) /\ Goto(c, "record")
  <2>1. PICK r \in Requests :
          /\ call[c].of = r /\ Name(c) = <<c, r>> /\ <<c, r>> \in Names
          /\ call \in [Submits -> Call] /\ tx \in [Names -> Tx]
    BY <1>1, AtWork
  <2>2. "record" \in Pc
    BY DEF Pc
  <2>3. /\ call' \in [Submits -> Call] /\ call'[c].pc = "record" /\ call'[c].of = r
        /\ \A d \in Submits : d # c => call'[d] = call[d]
    BY <1>2, <2>1, <2>2, GotoFacts
  <2>4. CallSound(c)'
    BY <1>1, <1>2, <2>1, <2>3 DEF CallSound, At, Name, Settled
  <2> QED  BY <1>1, <2>1, <2>3, <2>4, OneCall
<1>3. CASE Goto(c, "failRead")
  BY <1>1, <1>3, GivesUp
<1> QED  BY <1>2, <1>3 DEF Poll

LEMMA SaveReceiptPreserves ==
  ASSUME AInv, NEW c \in Submits, SaveReceipt(c), UNCHANGED dvars
  PROVE  AInv'
<1>1. /\ At(c, "record") /\ call[c].pc \in Running
      /\ UNCHANGED <<cvars, request, listed, tx, sequence>>
  BY DEF SaveReceipt, At, Running
<1>2. CASE receipts' = receipts \cup {call[c].of} /\ Goto(c, "list")
  <2>1. PICK r \in Requests :
          /\ call[c].of = r /\ Name(c) = <<c, r>> /\ <<c, r>> \in Names
          /\ CallSound(c) /\ call \in [Submits -> Call]
    BY <1>1, AtWork
  <2>2. tx[<<c, r>>].state = "success" /\ receipts' = receipts \cup {r} /\ "list" \in Pc
    BY <1>1, <1>2, <2>1 DEF CallSound, Pc
  <2>3. /\ call' \in [Submits -> Call] /\ call'[c].pc = "list" /\ call'[c].of = r
        /\ \A d \in Submits : d # c => call'[d] = call[d]
    BY <1>2, <2>1, <2>2, GotoFacts
  <2>4. CallSound(c)'
    BY <1>1, <2>2, <2>3 DEF CallSound, At, Name
  <2>5. RelayerInv'
    BY <1>1, <2>1, <2>2, <2>3, <2>4, CallStep DEF AInv, RelayerInv
  <2>6. TypeOK' /\ CeremonyInv'
    BY <1>1, <2>2, <2>3, CeremonyAside DEF AInv, TypeOK, cvars, dvars
  <2> QED  BY <2>5, <2>6 DEF AInv
<1>3. CASE Goto(c, "failRead") /\ UNCHANGED receipts
  BY <1>1, <1>3, GivesUp
<1> QED  BY <1>2, <1>3 DEF SaveReceipt

LEMMA ListReceiptPreserves ==
  ASSUME AInv, NEW c \in Submits, ListReceipt(c), UNCHANGED dvars
  PROVE  AInv'
<1>1. /\ At(c, "list") /\ call[c].pc \in Running
      /\ UNCHANGED <<cvars, request, receipts, tx, sequence>>
  BY DEF ListReceipt, At, Running
<1>2. ASSUME listed' = listed \cup {call[c].of}, NEW pc \in {"ok", "failRead"}, Goto(c, pc)
      PROVE  AInv'
  <2>1. PICK r \in Requests :
          /\ call[c].of = r /\ CallSound(c) /\ call \in [Submits -> Call]
    BY <1>1, AtWork
  <2>2. r \in receipts /\ listed' = listed \cup {r} /\ pc \in Pc
    BY <1>1, <1>2, <2>1 DEF CallSound, Pc
  <2>3. /\ call' \in [Submits -> Call] /\ call'[c].pc = pc /\ call'[c].of = r
        /\ \A d \in Submits : d # c => call'[d] = call[d]
    BY <1>2, <2>1, <2>2, GotoFacts
  <2>4. CallSound(c)'
    BY <2>2, <2>3 DEF CallSound, At
  <2>5. RelayerInv'
    BY <1>1, <2>1, <2>2, <2>3, <2>4, CallStep DEF AInv, RelayerInv
  <2>6. TypeOK' /\ CeremonyInv'
    BY <1>1, <2>2, <2>3, CeremonyAside DEF AInv, TypeOK, cvars, dvars
  <2> QED  BY <2>5, <2>6 DEF AInv
<1>3. CASE Goto(c, "failRead") /\ UNCHANGED listed
  BY <1>1, <1>3, GivesUp
<1> QED  BY <1>2, <1>3 DEF ListReceipt

LEMMA FailReadPreserves ==
  ASSUME AInv, NEW c \in Submits, FailRead(c), UNCHANGED dvars
  PROVE  AInv'
<1>1. call[c].pc \in Running /\ UNCHANGED <<cvars, request, receipts, listed, tx, sequence>>
  BY DEF FailRead, At, Running
<1>2. PICK pc \in {"failWrite", "error"} : Goto(c, pc)
  BY DEF FailRead
<1> QED  BY <1>1, <1>2, GivesUp

\* The record of a request is changed in its status and how long it is kept.
LEMMA MarkedFacts ==
  ASSUME NEW rec \in Request, NEW status \in {"absent", "prepared", "submitting", "failed"}, NEW until \in Nat
  PROVE  /\ [rec EXCEPT !.status = status, !.until = until] \in Request
         /\ [rec EXCEPT !.status = status, !.until = until].status = status
BY DEF Request

LEMMA FailWritePreserves ==
  ASSUME AInv, NEW c \in Submits, FailWrite(c), UNCHANGED dvars
  PROVE  AInv'
<1>1. call[c].pc \in Running /\ UNCHANGED <<cvars, receipts, listed, tx, sequence>> /\ Goto(c, "error")
  BY DEF FailWrite, At, Running
<1>2. CASE request' = [request EXCEPT ![call[c].of] = Failed(call[c].of)]
  <2>1. PICK r \in Requests :
          /\ call[c].of = r /\ CallSound(c) /\ call \in [Submits -> Call]
          /\ request \in [Requests -> Request] /\ time \in Nat
    BY <1>1, AtWork
  <2>2. Failed(r) \in Request /\ Failed(r).status = "failed"
    <3>1. request[r] \in Request /\ time + RequestTTL \in Nat
      BY <2>1, ConstantFacts
    <3> QED  BY <3>1, MarkedFacts DEF Failed
  <2>3. /\ request' \in [Requests -> Request] /\ request'[r].status = "failed"
        /\ \A q \in Requests : q # r => request'[q] = request[q]
    BY <1>2, <2>1, <2>2
  <2>4. "error" \in Pc /\ "error" \notin Running
    BY DEF Pc, Running
  <2>5. /\ call' \in [Submits -> Call] /\ call'[c].pc = "error" /\ call'[c].of = r
        /\ \A d \in Submits : d # c => call'[d] = call[d]
    BY <1>1, <2>1, <2>4, GotoFacts
  <2>6. CallSound(c)'
    BY <2>5 DEF CallSound, At
  <2>7. RelayerInv'
    BY <1>1, <2>1, <2>3, <2>4, <2>5, <2>6, CallStep DEF AInv, RelayerInv
  <2>8. TypeOK' /\ CeremonyInv'
    BY <1>1, <2>3, <2>5, CeremonyAside DEF AInv, TypeOK, cvars, dvars
  <2> QED  BY <2>7, <2>8 DEF AInv
<1>3. CASE UNCHANGED request
  BY <1>1, <1>3, GivesUp
<1> QED  BY <1>2, <1>3 DEF FailWrite

LEMMA CrashPreserves ==
  ASSUME AInv, NEW c \in Submits, Crash(c), UNCHANGED dvars
  PROVE  AInv'
BY GivesUp DEF Crash

-----------------------------------------------------------------------------
(* The contract *)

LEMMA ChargeFacts ==
  ASSUME NEW contexts \in Contexts
  PROVE  /\ Charge(contexts) \in Nat
         /\ (\A i \in DOMAIN contexts : contexts[i].amount > 0) => Charge(contexts) > 0
<1>1. CASE \E x \in Context : contexts = <<x>>
  <2>1. PICK x \in Context : contexts = <<x>>
    BY <1>1
  <2>2. Charge(contexts) = x.amount /\ x.amount \in Nat /\ DOMAIN contexts = {1} /\ contexts[1] = x
    BY <2>1, ConstantFacts DEF Charge, Context
  <2> QED  BY <2>2
<1>2. CASE \E x, y \in Context : contexts = <<x, y>>
  <2>1. PICK x \in Context, y \in Context : contexts = <<x, y>>
    BY <1>2
  <2>2. /\ Charge(contexts) = x.amount + y.amount /\ x.amount \in Nat /\ y.amount \in Nat
        /\ DOMAIN contexts = {1, 2} /\ contexts[1] = x /\ contexts[2] = y
    BY <2>1, ConstantFacts DEF Charge, Context
  <2> QED  BY <2>2
<1> QED  BY <1>1, <1>2 DEF Contexts

LEMMA PaymentFacts ==
  ASSUME NEW canonical \in Canonical
  PROVE  Payment(canonical) \in Contexts
<1>1. [asset |-> USDC, to |-> Merchant, amount |-> canonical.amount] \in Context
  BY RelayerAssumption DEF Canonical, Context
<1> QED  BY <1>1 DEF Payment, Contexts

ContractTyped == time \in Nat /\ session \in SessionPolicy /\ balance \in Nat /\ paid \in Nat

LEMMA GrantTyped ==
  ASSUME ContractTyped, NEW s \in Signers \cup {None}, NEW per \in Nat, NEW total \in Nat, NEW ends \in Nat,
         Grant(s, {Merchant}, {USDC}, per, total, ends)
  PROVE  ContractTyped'
<1>1. Fresh(s, {Merchant}, {USDC}, per, total, ends) \in SessionPolicy
  BY RelayerAssumption DEF Fresh, SessionPolicy
<1> QED  BY <1>1 DEF Grant, ContractTyped

LEMMA RevokeTyped ==
  ASSUME ContractTyped, Revoke
  PROVE  ContractTyped'
<1>1. [session EXCEPT !.revoked = TRUE] \in SessionPolicy
  BY DEF ContractTyped, SessionPolicy
<1> QED  BY <1>1 DEF Revoke, ContractTyped

LEMMA TransferTyped ==
  ASSUME ContractTyped, NEW s, NEW contexts \in Contexts, Transfer(s, contexts)
  PROVE  ContractTyped'
<1> DEFINE charge == Charge(contexts)
<1>1. charge \in Nat
  BY ChargeFacts
<1>2. /\ charge <= balance /\ session' = [session EXCEPT !.spent = session.spent + charge]
      /\ balance' = balance - charge /\ paid' = paid + charge /\ UNCHANGED time
  BY DEF Transfer
<1> HIDE DEF charge
<1>3. session.spent + charge \in Nat
  BY <1>1 DEF ContractTyped, SessionPolicy
<1>4. session' \in SessionPolicy
  <2> DEFINE spent == session.spent + charge
  <2>1. session' = [session EXCEPT !.spent = spent] /\ spent \in Nat /\ session \in SessionPolicy
    BY <1>2, <1>3 DEF ContractTyped
  <2> HIDE DEF spent
  <2> QED  BY <2>1 DEF SessionPolicy
<1> QED  BY <1>1, <1>2, <1>4 DEF ContractTyped

\* A step of the contract alone.
LEMMA ContractAside ==
  ASSUME AInv, ContractTyped', UNCHANGED <<rvars, dvars>>
  PROVE  AInv'
<1>1. UNCHANGED <<request, receipts, listed, call, tx, sequence, ceremony, job, inUse>>
  BY DEF rvars, dvars
<1>2. TypeOK'
  BY <1>1 DEF AInv, TypeOK, ContractTyped
<1>3. RelayerInv' /\ CeremonyInv'
  BY <1>1, RelayerAside, CeremonyAside DEF AInv
<1> QED  BY <1>2, <1>3 DEF AInv

\* The ledger runs a transaction once it is on the way, whatever its
\* invocation does by then.
LEMMA LandPreserves ==
  ASSUME AInv, NEW c \in Submits, NEW r \in Requests, Land(c, r), UNCHANGED dvars
  PROVE  AInv'
<1> DEFINE canonical == request[r].canonical
           key == tx[<<c, r>>].key
<1>1. /\ tx[<<c, r>>].state = "pending" /\ <<c, r>> \in Names
      /\ UNCHANGED <<request, receipts, listed, call>>
  BY NameFacts DEF Land, Includable
<1>2. tx \in [Names -> Tx] /\ sequence \in Nat /\ ContractTyped /\ canonical \in Canonical
  BY DEF AInv, TypeOK, ContractTyped, Request
<1>3. PICK state \in {"success", "failed"} : Include(<<c, r>>, state)
  BY DEF Land, Execute
<1>4. /\ tx' \in [Names -> Tx] /\ tx'[<<c, r>>].state = state /\ sequence' \in Nat
      /\ \A n \in Names : n # <<c, r>> => tx'[n] = tx[n]
  <2>1. state \in TxState
    BY DEF TxState
  <2> QED  BY <1>1, <1>2, <1>3, <2>1, IncludeFacts
<1>5. ContractTyped'
  <2>1. canonical.signer \in Signers \cup {None} /\ canonical.ends \in Nat
    BY <1>2 DEF Canonical
  <2>2. CASE Grant(canonical.signer, {Merchant}, {USDC}, PerPayment, TotalLimit, canonical.ends)
    <3>1. PICK s \in Signers \cup {None}, ends \in Nat : s = canonical.signer /\ ends = canonical.ends
      BY <2>1
    <3> QED  BY <1>2, <2>2, <3>1, ConstantFacts, GrantTyped
  <2>3. CASE Revoke
    BY <1>2, <2>3, RevokeTyped
  <2>4. CASE Transfer(key, Payment(canonical))
    <3>1. PICK contexts \in Contexts : contexts = Payment(canonical)
      BY <1>2, PaymentFacts
    <3>2. PICK s : s = key
      OBVIOUS
    <3> QED  BY <1>2, <2>4, <3>1, <3>2, TransferTyped
  <2>5. CASE UNCHANGED cvars
    BY <1>2, <2>5 DEF cvars, ContractTyped
  <2>6. CASE OwnerTransfer(canonical.amount)
    BY <1>2, <2>6 DEF OwnerTransfer, ContractTyped, Canonical
  <2> QED  BY <2>2, <2>3, <2>4, <2>5, <2>6 DEF Land, Execute
<1>6. TypeOK'
  BY <1>1, <1>4, <1>5 DEF AInv, TypeOK, ContractTyped, dvars
<1>7. \A d \in Submits, q \in Requests : d # c \/ q # r => tx'[<<d, q>>] = tx[<<d, q>>]
  BY <1>4, NameFacts
<1>8. \A q \in Requests : RequestSound(q)'
  <2>1. ASSUME NEW q \in Requests  PROVE RequestSound(q)'
    <3>1. RequestSound(q)
      BY DEF AInv, RelayerInv
    <3>2. \A d \in Submits : Touched(d, q)' <=> Touched(d, q)
      BY <1>1, <1>4, <1>7 DEF Touched
    <3>3. Landed(q) => Landed(q)'
      BY <1>1, <1>7 DEF Landed
    <3> HIDE DEF Touched, Landed
    <3> QED  BY <1>1, <3>1, <3>2, <3>3, Zenon DEF RequestSound
  <2> QED  BY <2>1
<1>9. \A d \in Submits : CallSound(d)'
  <2>1. ASSUME NEW d \in Submits  PROVE CallSound(d)'
    <3>1. CallSound(d)
      BY DEF AInv, RelayerInv
    <3>2. Name(d)' = Name(d)
      BY <1>1 DEF Name
    <3>3. CASE Name(d) = <<c, r>>
      BY <1>1, <3>1, <3>2, <3>3 DEF CallSound, At
    <3>4. CASE Name(d) # <<c, r>>
      <4>1. call[d].pc # "idle" => tx'[Name(d)] = tx[Name(d)]
        BY <1>7, <3>1, <3>4 DEF CallSound, Name
      <4> QED  BY <1>1, <3>1, <3>2, <4>1 DEF CallSound, At
    <3> QED  BY <3>3, <3>4
  <2> QED  BY <2>1
<1>10. CeremonyInv'
  BY <1>4, NameFacts, CeremonyAside DEF AInv, dvars
<1> QED  BY <1>1, <1>6, <1>8, <1>9, <1>10 DEF AInv, RelayerInv

-----------------------------------------------------------------------------
(* The clients *)

\* An invocation that works on nothing takes up a request, and works on it
\* only if it is the one that consumes it.
LEMMA TakesUp ==
  ASSUME AInv, NEW c \in Submits, NEW r0 \in Requests,
         call[c].pc \notin Running, call'[c].of = r0,
         call' \in [Submits -> Call], request' \in [Requests -> Request],
         \A d \in Submits : d # c => call'[d] = call[d],
         \A r \in Requests : r # r0 => request'[r] = request[r],
         \/ call'[c].pc \notin Running /\ request'[r0] = request[r0]
         \/ call'[c].pc \notin Running /\ request[r0].status = "absent" /\ request'[r0].status = "prepared"
         \/ /\ call'[c].pc \in Running
            /\ request[r0].status = "prepared" /\ request'[r0].status = "submitting",
         UNCHANGED <<cvars, receipts, listed, tx, sequence, dvars>>,
         CallSound(c)'
  PROVE  AInv'
<1>1. ASSUME NEW d \in Submits, NEW r \in Requests, Touched(d, r)', ~Touched(d, r)
      PROVE  d = c /\ r = r0 /\ call'[c].pc \in Running
  BY <1>1 DEF Touched
<1>2. ASSUME NEW r \in Requests  PROVE RequestSound(r)'
  <2>1. RequestSound(r) /\ (r \in receipts' => Landed(r)')
    BY DEF AInv, RelayerInv, RequestSound, Landed
  <2>2. CASE r # r0 \/ call'[c].pc \notin Running
    <3>1. \A d \in Submits : Touched(d, r)' => Touched(d, r)
      BY <1>1, <2>2
    <3>2. \/ request'[r].status = request[r].status
          \/ request[r].status = "absent" /\ request'[r].status = "prepared"
      BY <2>2
    <3>3. \A d \in Submits : call'[d].of = r /\ call'[d].pc \in Running => call[d].of = r /\ call[d].pc \in Running
      BY <2>2
    <3> HIDE DEF Touched, Landed
    <3> QED  BY <2>1, <3>1, <3>2, <3>3, Zenon DEF RequestSound
  <2>3. CASE r = r0 /\ call'[c].pc \in Running
    <3>1. request[r].status = "prepared" /\ request'[r].status = "submitting"
      BY <2>3
    <3>2. \A d \in Submits : ~Touched(d, r)
      BY <2>1, <3>1 DEF RequestSound
    <3>3. \A d \in Submits : Touched(d, r)' => d = c
      BY <1>1, <3>2
    <3> HIDE DEF Touched, Landed
    <3> QED  BY <2>1, <3>1, <3>3 DEF RequestSound
  <2> QED  BY <2>2, <2>3
<1>3. ASSUME NEW d \in Submits  PROVE CallSound(d)'
  <2>1. CASE d = c
    BY <2>1
  <2>2. CASE d # c
    BY <2>2 DEF AInv, RelayerInv, CallSound, At, Name
  <2> QED  BY <2>1, <2>2
<1>4. TypeOK'
  BY DEF AInv, TypeOK, cvars, dvars
<1>5. CeremonyInv'
  BY CeremonyAside DEF AInv, dvars
<1> QED  BY <1>2, <1>3, <1>4, <1>5 DEF AInv, RelayerInv

LEMMA CanonicalFacts ==
  ASSUME time \in Nat
  PROVE  Canonicals \subseteq Canonical
<1>1. \A s \in Signers : CanonicalGrant(s) \in Canonical
  BY ConstantFacts DEF CanonicalGrant, Canonical, Action
<1>2. CanonicalRevoke \in Canonical
  BY ConstantFacts DEF CanonicalRevoke, NoCanonical, Canonical, Action
<1>3. \A amount \in 1 .. PerPayment : CanonicalTransfer(amount) \in Canonical
  BY ConstantFacts DEF CanonicalTransfer, Canonical, Action
<1> HIDE DEF CanonicalGrant, CanonicalRevoke, CanonicalTransfer
<1> QED  BY <1>1, <1>2, <1>3 DEF Canonicals

LEMMA AskPreserves ==
  ASSUME AInv, NEW c \in Clients, Ask(c)
  PROVE  AInv'
<1>1. PICK canonical \in Canonicals : Wants(c, canonical) /\ Prepare(c, canonical)
  BY DEF Ask
<1>2. /\ c \in Submits /\ call \in [Submits -> Call] /\ request \in [Requests -> Request]
      /\ time \in Nat /\ UNCHANGED <<cvars, receipts, listed, tx, sequence, dvars>>
  BY <1>1, ClientsAssumption DEF Clients, AInv, TypeOK, Ask, Prepare
<1>3. PICK r \in Requests : /\ request[r] = NoRequest
                            /\ request' = [request EXCEPT ![r] = Prepared(canonical)]
                            /\ call' = [call EXCEPT ![c] = [pc |-> "sign", of |-> r, key |-> None]]
  BY <1>1 DEF Prepare
<1>4. Prepared(canonical) \in Request /\ Prepared(canonical).status = "prepared"
  <2>1. canonical \in Canonical
    BY <1>2, CanonicalFacts
  <2>2. time + RequestTTL \in Nat /\ time + SignatureTTL \in Nat
    BY <1>2, ConstantFacts
  <2> QED  BY <2>1, <2>2 DEF Prepared, Request
<1>5. /\ request' \in [Requests -> Request] /\ request'[r].status = "prepared"
      /\ \A q \in Requests : q # r => request'[q] = request[q]
      /\ request[r].status = "absent"
  <2> HIDE DEF Prepared
  <2> QED  BY <1>2, <1>3, <1>4 DEF NoRequest
<1>6. [pc |-> "sign", of |-> r, key |-> None] \in Call
  BY DEF Call, Pc
<1>7. /\ call' \in [Submits -> Call] /\ call'[c].of = r /\ call'[c].pc = "sign"
      /\ \A d \in Submits : d # c => call'[d] = call[d]
  BY <1>2, <1>3, <1>6
<1>8. call[c].pc \notin Running /\ call'[c].pc \notin Running
  BY <1>1, <1>7 DEF Wants, FixtureWants, WalletWants, AgentWants, At, Running
<1>9. CallSound(c)'
  BY <1>7 DEF CallSound, At
<1> QED  BY <1>2, <1>5, <1>7, <1>8, <1>9, TakesUp

\* Of all deliveries of a submit call only the first finds the request
\* prepared.
LEMMA ConsumePreserves ==
  ASSUME AInv, NEW c \in Submits, call[c].pc \in {"idle", "sign"}, NEW r \in Requests,
         NEW key \in Signers \cup {None}, Consume(c, r, key), UNCHANGED dvars
  PROVE  AInv'
<1>1. /\ call \in [Submits -> Call] /\ request \in [Requests -> Request] /\ time \in Nat
      /\ UNCHANGED <<cvars, receipts, listed, tx, sequence, dvars>> /\ call[c].pc \notin Running
  BY DEF AInv, TypeOK, Consume, Running
<1>2. CASE /\ Consumable(r)
           /\ request' = [request EXCEPT ![r] = Consumed(r)]
           /\ call' = [call EXCEPT ![c] = [pc |-> "build", of |-> r, key |-> key]]
  <2>1. Consumed(r) \in Request /\ Consumed(r).status = "submitting"
    <3>1. request[r] \in Request /\ time + RequestTTL \in Nat
      BY <1>1, ConstantFacts
    <3> QED  BY <3>1, MarkedFacts DEF Consumed
  <2>2. /\ request' \in [Requests -> Request] /\ request'[r].status = "submitting"
        /\ \A q \in Requests : q # r => request'[q] = request[q]
    BY <1>1, <1>2, <2>1
  <2>3. [pc |-> "build", of |-> r, key |-> key] \in Call
    BY DEF Call, Pc
  <2>4. /\ call' \in [Submits -> Call] /\ call'[c].of = r /\ call'[c].pc = "build"
        /\ \A d \in Submits : d # c => call'[d] = call[d]
    BY <1>1, <1>2, <2>3
  <2>5. request[r].status = "prepared" /\ "build" \in Running
    BY <1>2 DEF Consumable, Running
  <2>6. CallSound(c)'
    <3>1. tx[<<c, r>>].state = "none"
      BY <2>5 DEF AInv, RelayerInv, RequestSound, Touched
    <3> QED  BY <1>1, <2>4, <3>1 DEF CallSound, At, Name
  <2> QED  BY <1>1, <2>2, <2>4, <2>5, <2>6, TakesUp
<1>3. CASE /\ call' = [call EXCEPT ![c] = [pc |-> "error", of |-> r, key |-> key]]
           /\ UNCHANGED request
  <2>1. [pc |-> "error", of |-> r, key |-> key] \in Call /\ "error" \notin Running
    BY DEF Call, Pc, Running
  <2>2. /\ call' \in [Submits -> Call] /\ call'[c].of = r /\ call'[c].pc = "error"
        /\ \A d \in Submits : d # c => call'[d] = call[d]
    BY <1>1, <1>3, <2>1
  <2>3. CallSound(c)'
    BY <2>2 DEF CallSound, At
  <2> QED  BY <1>1, <1>3, <2>1, <2>2, <2>3, TakesUp
<1> QED  BY <1>2, <1>3 DEF Consume

LEMMA SubmitPreserves ==
  ASSUME AInv, NEW c \in Clients, Submit(c)
  PROVE  AInv'
<1>1. c \in Submits /\ call[c].pc = "sign" /\ UNCHANGED dvars
  BY ClientsAssumption DEF Clients, Submit, At
<1>2. PICK r \in Requests : r = call[c].of
  BY <1>1 DEF AInv, RelayerInv, CallSound
<1>3. PICK key \in Signers \cup {None} : Consume(c, r, key)
  BY <1>2 DEF Submit, SignedBy
<1> QED  BY <1>1, <1>2, <1>3, ConsumePreserves

LEMMA RepeatPreserves ==
  ASSUME AInv, NEW c \in Repeats, Repeat(c)
  PROVE  AInv'
<1>1. c \in Submits /\ call[c].pc = "idle" /\ UNCHANGED dvars
  BY ClientsAssumption DEF Repeat, At
<1>2. PICK k \in Clients : call[k].pc \notin {"idle", "sign"} /\ Consume(c, call[k].of, call[k].key)
  BY DEF Repeat
<1>3. k \in Submits
  BY ClientsAssumption DEF Clients
<1>4. PICK r \in Requests, key \in Signers \cup {None} : r = call[k].of /\ key = call[k].key
  BY <1>2, <1>3 DEF AInv, RelayerInv, CallSound, TypeOK, Call
<1>5. Consume(c, r, key)
  BY <1>2, <1>4
<1> QED  BY <1>1, <1>4, <1>5, ConsumePreserves

LEMMA DirectPreserves ==
  ASSUME AInv, Direct
  PROVE  AInv'
<1>1. ContractTyped
  BY DEF AInv, TypeOK, ContractTyped
<1>2. CASE SessionActs
  BY <1>1, <1>2, TransferTyped, ContractAside DEF SessionActs, Direct
<1>3. CASE OwnerTransfer(balance)
  <2>1. ContractTyped'
    BY <1>1, <1>3 DEF OwnerTransfer, ContractTyped
  <2> QED  BY <2>1, ContractAside DEF Direct
<1> QED  BY <1>2, <1>3 DEF Direct

LEMMA TickPreserves ==
  ASSUME AInv, Tick
  PROVE  AInv'
<1>1. ContractTyped'
  BY DEF AInv, TypeOK, ContractTyped, Tick, Pass
<1> QED  BY <1>1, ContractAside DEF Tick

-----------------------------------------------------------------------------
(* The ceremony and its deployment *)

\* A step of the ceremony's part leaves the relayer's part alone.
LEMMA DeployAside ==
  ASSUME AInv, NEW d \in Deploys, UNCHANGED <<Others, inUse>>, sequence' \in Nat,
         tx' \in [Names -> Tx], \A n \in Names : n # Deployment(d) => tx'[n] = tx[n],
         job' \in [Deploys -> Job], ceremony' \in [Ceremonies -> Ceremony]
  PROVE  TypeOK' /\ RelayerInv'
<1>1. TypeOK'
  BY DEF AInv, TypeOK, Others, cvars
<1>2. \A c \in Submits, r \in Requests : tx'[<<c, r>>] = tx[<<c, r>>]
  BY NameFacts
<1>3. RelayerInv'
  BY <1>2, RelayerAside DEF AInv, Others
<1> QED  BY <1>1, <1>3

\* The other deploy calls are as far as they were.
LEMMA OtherJobs ==
  ASSUME AInv, NEW d \in Deploys, \A e \in Deploys : e # d => job'[e] = job[e],
         \A n \in Names : n # Deployment(d) => tx'[n] = tx[n]
  PROVE  \A e \in Deploys : e # d =>
           /\ tx'[Deployment(e)] = tx[Deployment(e)]
           /\ JobSound(e)' /\ (Owns(e)' <=> Owns(e))
<1>1. ASSUME NEW e \in Deploys, e # d
      PROVE  /\ tx'[Deployment(e)] = tx[Deployment(e)]
             /\ JobSound(e)' /\ (Owns(e)' <=> Owns(e))
  <2>1. tx'[Deployment(e)] = tx[Deployment(e)] /\ job'[e] = job[e]
    BY <1>1, NameFacts
  <2>2. JobSound(e)
    BY DEF AInv, CeremonyInv
  <2> QED  BY <2>1, <2>2 DEF JobSound, Owns, Doing, Deployment
<1> QED  BY <1>1

\* A step of a deploy call that owns its ceremony, if it has one.
LEMMA JobStep ==
  ASSUME AInv, NEW d \in Deploys, Owns(d), NEW k0 \in Ceremonies \cup {None},
         job[d].of = k0, job'[d].of = k0, job' \in [Deploys -> Job],
         \A e \in Deploys : e # d => job'[e] = job[e],
         tx' \in [Names -> Tx], \A n \in Names : n # Deployment(d) => tx'[n] = tx[n],
         tx[Deployment(d)].state = "success" => tx'[Deployment(d)].state = "success",
         ceremony' \in [Ceremonies -> Ceremony],
         \A k \in Ceremonies : k # k0 => ceremony'[k] = ceremony[k],
         k0 \in Ceremonies =>
           \/ ceremony'[k0] = ceremony[k0]
           \/ ceremony'[k0].status = "failed"
           \/ /\ ceremony'[k0].status = "deployed" /\ ceremony'[k0].contract = d
              /\ tx[Deployment(d)].state = "success",
         sequence' \in Nat, UNCHANGED <<Others, inUse>>,
         JobSound(d)'
  PROVE  AInv'
<1>1. \A e \in Deploys : e # d =>
        tx'[Deployment(e)] = tx[Deployment(e)] /\ JobSound(e)' /\ (Owns(e)' <=> Owns(e))
  BY OtherJobs
<1>2. \A e \in Deploys : (Owns(e)' => Owns(e)) /\ job'[e].of = job[e].of
  BY <1>1
<1>3. ASSUME NEW k \in Ceremonies  PROVE CeremonySound(k)'
  <2>1. CeremonySound(k)
    BY DEF AInv, CeremonyInv
  <2>2. ceremony'[k].status \in {"absent", "pending"} => \A e \in Deploys : job'[e].of = k => ~Owns(e)'
    <3>1. ceremony'[k].status \in {"absent", "pending"} => ceremony'[k] = ceremony[k]
      <4>1. CASE k = k0
        BY <4>1
      <4>2. CASE k # k0
        BY <4>2
      <4> QED  BY <4>1, <4>2
    <3> HIDE DEF Owns
    <3> QED  BY <1>2, <2>1, <3>1 DEF CeremonySound
  <2>3. \A e, f \in Deploys : job'[e].of = k /\ job'[f].of = k /\ Owns(e)' /\ Owns(f)' => e = f
    BY <1>2, <2>1 DEF CeremonySound
  <2>4. ASSUME ceremony'[k].status = "deployed"
        PROVE  /\ ceremony'[k].contract \in Deploys /\ job'[ceremony'[k].contract].of = k
               /\ tx'[Deployment(ceremony'[k].contract)].state = "success"
    <3>1. CASE ceremony'[k] = ceremony[k]
      <4>1. PICK e \in Deploys : e = ceremony[k].contract /\ job[e].of = k /\ tx[Deployment(e)].state = "success"
        BY <2>1, <2>4, <3>1 DEF CeremonySound
      <4>2. tx'[Deployment(e)].state = "success"
        BY <1>1, <4>1
      <4> QED  BY <1>2, <3>1, <4>1, <4>2 DEF Deployment
    <3>2. CASE ceremony'[k] # ceremony[k]
      <4>1. k = k0 /\ ceremony'[k].contract = d /\ tx'[Deployment(d)].state = "success"
        BY <2>4, <3>2
      <4> QED  BY <4>1 DEF Deployment
    <3> QED  BY <3>1, <3>2
  <2> HIDE DEF Owns
  <2> QED  BY <2>2, <2>3, <2>4 DEF CeremonySound, Deployment
<1>4. TypeOK' /\ RelayerInv'
  BY DeployAside
<1> QED  BY <1>1, <1>3, <1>4 DEF AInv, CeremonyInv

\* A deploy call at work, once it has claimed.
LEMMA Deploying ==
  ASSUME AInv, NEW d \in Deploys, job[d].pc \in JobRunning \ {"claim"}
  PROVE  /\ Owns(d) /\ JobSound(d) /\ Deployment(d) \in Names
         /\ job \in [Deploys -> Job] /\ job[d].of \in Ceremonies \cup {None}
         /\ tx \in [Names -> Tx] /\ ceremony \in [Ceremonies -> Ceremony]
         /\ time \in Nat /\ sequence \in Nat
BY NameFacts DEF AInv, CeremonyInv, TypeOK, Owns, Job

\* It goes on, and only what it knows of its transaction is to be shown.
LEMMA GoesOn ==
  ASSUME AInv, NEW d \in Deploys, job[d].pc \in JobRunning \ {"claim"}, NEW pc \in JobPc, Then(d, pc),
         tx' \in [Names -> Tx], \A n \in Names : n # Deployment(d) => tx'[n] = tx[n],
         tx[Deployment(d)].state = "success" => tx'[Deployment(d)].state = "success",
         pc \notin {"idle", "claim", "deploy"},
         pc = "sendDeploy" => tx'[Deployment(d)].state = "built",
         pc \in {"completeRead", "completeWrite"} => tx'[Deployment(d)].state = "success",
         pc \in {"completeRead", "completeWrite", "failRead", "failWrite"} => job[d].of # None,
         UNCHANGED <<Others, sequence, ceremony, inUse>>
  PROVE  AInv'
<1>1. /\ job' \in [Deploys -> Job] /\ job'[d].pc = pc /\ job'[d].of = job[d].of
      /\ \A e \in Deploys : e # d => job'[e] = job[e]
  BY Deploying, ThenFacts
<1>2. JobSound(d)'
  BY <1>1 DEF JobSound, Doing, Deployment
<1>3. PICK k0 \in Ceremonies \cup {None} : k0 = job[d].of
  BY Deploying
<1>4. Owns(d) /\ ceremony' \in [Ceremonies -> Ceremony] /\ sequence' \in Nat
  BY Deploying
<1> HIDE DEF Owns
<1> QED  BY <1>1, <1>2, <1>3, <1>4, JobStep

LEMMA FailsToDeploy ==
  ASSUME AInv, NEW d \in Deploys, job[d].pc \in JobRunning \ {"claim"}, DeployFails(d),
         tx' \in [Names -> Tx], \A n \in Names : n # Deployment(d) => tx'[n] = tx[n],
         tx[Deployment(d)].state = "success" => tx'[Deployment(d)].state = "success",
         UNCHANGED <<Others, sequence, ceremony, inUse>>
  PROVE  AInv'
<1>1. PICK pc \in {"error", "failRead"} : Then(d, pc) /\ (pc = "failRead" => job[d].of # None)
  BY DEF DeployFails
<1>2. pc \in JobPc
  BY DEF JobPc
<1> QED  BY <1>1, <1>2, GoesOn

LEMMA AssemblePreserves ==
  ASSUME AInv, NEW d \in Deploys, Assemble(d)
  PROVE  AInv'
<1>1. Doing(d, "deploy") /\ job[d].pc \in JobRunning \ {"claim"} /\ UNCHANGED <<Others, sequence, ceremony, inUse>>
  BY DEF Assemble, Doing, JobRunning
<1>2. tx[Deployment(d)].state = "none" /\ tx \in [Names -> Tx] /\ Deployment(d) \in Names
  BY <1>1, Deploying DEF JobSound, Doing
<1>3. CASE BuildTx(Deployment(d), None) /\ Then(d, "sendDeploy")
  <2>1. /\ tx' \in [Names -> Tx] /\ tx'[Deployment(d)].state = "built"
        /\ \A n \in Names : n # Deployment(d) => tx'[n] = tx[n]
    BY <1>1, <1>2, <1>3, Deploying, BuildFacts
  <2>2. "sendDeploy" \in JobPc
    BY DEF JobPc
  <2> QED  BY <1>1, <1>2, <1>3, <2>1, <2>2, GoesOn
<1>4. CASE DeployFails(d) /\ UNCHANGED tx
  BY <1>1, <1>2, <1>4, FailsToDeploy
<1> QED  BY <1>3, <1>4 DEF Assemble

LEMMA SendDeploymentPreserves ==
  ASSUME AInv, NEW d \in Deploys, SendDeployment(d)
  PROVE  AInv'
<1>1. /\ Doing(d, "sendDeploy") /\ job[d].pc \in JobRunning \ {"claim"}
      /\ UNCHANGED <<Others, sequence, ceremony, inUse>>
  BY DEF SendDeployment, Doing, JobRunning
<1>2. tx[Deployment(d)].state = "built" /\ tx \in [Names -> Tx] /\ Deployment(d) \in Names
  BY <1>1, Deploying DEF JobSound, Doing
<1>3. SendTx(Deployment(d)) =>
        tx' \in [Names -> Tx] /\ \A n \in Names : n # Deployment(d) => tx'[n] = tx[n]
  BY <1>2, SendFacts
<1>4. CASE SendTx(Deployment(d)) /\ Then(d, "pollDeploy")
  <2>1. "pollDeploy" \in JobPc
    BY DEF JobPc
  <2> QED  BY <1>1, <1>2, <1>3, <1>4, <2>1, GoesOn
<1>5. CASE DeployFails(d) /\ (SendTx(Deployment(d)) \/ UNCHANGED tx)
  BY <1>1, <1>2, <1>3, <1>5, FailsToDeploy
<1> QED  BY <1>4, <1>5 DEF SendDeployment

LEMMA PollDeploymentPreserves ==
  ASSUME AInv, NEW d \in Deploys, PollDeployment(d)
  PROVE  AInv'
<1>1. job[d].pc \in JobRunning \ {"claim"} /\ UNCHANGED <<Others, tx, sequence, ceremony, inUse>>
  BY DEF PollDeployment, Doing, JobRunning
<1>2. tx \in [Names -> Tx]
  BY <1>1, Deploying
<1>3. CASE DeploymentSettled(d) /\ Then(d, IF job[d].of = None THEN "ok" ELSE "completeRead")
  <2>1. PICK pc \in {"ok", "completeRead"} : Then(d, pc) /\ (pc = "completeRead" => job[d].of # None)
    BY <1>3
  <2>2. pc \in JobPc /\ tx[Deployment(d)].state = "success"
    BY <1>3 DEF JobPc, DeploymentSettled
  <2> QED  BY <1>1, <1>2, <2>1, <2>2, GoesOn
<1>4. CASE DeployFails(d)
  BY <1>1, <1>2, <1>4, FailsToDeploy
<1> QED  BY <1>3, <1>4 DEF PollDeployment

LEMMA CompleteReadPreserves ==
  ASSUME AInv, NEW d \in Deploys, CompleteRead(d)
  PROVE  AInv'
<1>1. /\ Doing(d, "completeRead") /\ job[d].pc \in JobRunning \ {"claim"}
      /\ UNCHANGED <<Others, tx, sequence, ceremony, inUse>>
  BY DEF CompleteRead, Doing, JobRunning
<1>2. tx \in [Names -> Tx] /\ tx[Deployment(d)].state = "success" /\ job[d].of # None
  BY <1>1, Deploying DEF JobSound, Doing
<1>3. PICK pc \in {"completeWrite", "ok"} : Then(d, pc)
  BY DEF CompleteRead
<1>4. pc \in JobPc
  BY DEF JobPc
<1> QED  BY <1>1, <1>2, <1>3, <1>4, GoesOn

LEMMA FailReadCeremonyPreserves ==
  ASSUME AInv, NEW d \in Deploys, FailReadCeremony(d)
  PROVE  AInv'
<1>1. /\ Doing(d, "failRead") /\ job[d].pc \in JobRunning \ {"claim"}
      /\ UNCHANGED <<Others, tx, sequence, ceremony, inUse>>
  BY DEF FailReadCeremony, Doing, JobRunning
<1>2. tx \in [Names -> Tx] /\ job[d].of # None
  BY <1>1, Deploying DEF JobSound, Doing
<1>3. PICK pc \in {"failWrite", "error"} : Then(d, pc)
  BY DEF FailReadCeremony
<1>4. pc \in JobPc
  BY DEF JobPc
<1> QED  BY <1>1, <1>2, <1>3, <1>4, GoesOn

\* The outcome is written to the ceremony the deploy call has claimed.
LEMMA Writes ==
  ASSUME AInv, NEW d \in Deploys, job[d].pc \in {"completeWrite", "failWrite"},
         NEW pc \in {"ok", "error"}, Then(d, pc),
         \/ ceremony' = [ceremony EXCEPT ![job[d].of] = Deployed(job[d].of, d)] /\ job[d].pc = "completeWrite"
         \/ ceremony' = [ceremony EXCEPT ![job[d].of] = CeremonyFailed(job[d].of)]
         \/ UNCHANGED ceremony,
         UNCHANGED <<Others, tx, sequence, inUse>>
  PROVE  AInv'
<1>1. job[d].pc \in JobRunning \ {"claim"} /\ pc \in JobPc
  BY DEF JobRunning, JobPc
<1>2. /\ tx \in [Names -> Tx] /\ job[d].of \in Ceremonies /\ Owns(d) /\ sequence \in Nat
      /\ job[d].pc = "completeWrite" => tx[Deployment(d)].state = "success"
      /\ ceremony \in [Ceremonies -> Ceremony] /\ time + CeremonyTTL \in Nat
  BY <1>1, Deploying, ConstantFacts DEF JobSound, Doing
<1>3. /\ job' \in [Deploys -> Job] /\ job'[d].pc = pc /\ job'[d].of = job[d].of
      /\ \A e \in Deploys : e # d => job'[e] = job[e]
  BY <1>1, Deploying, ThenFacts
<1>4. PICK k0 \in Ceremonies : k0 = job[d].of
  BY <1>2
<1>5. /\ ceremony' \in [Ceremonies -> Ceremony]
      /\ \A k \in Ceremonies : k # k0 => ceremony'[k] = ceremony[k]
      /\ \/ ceremony'[k0] = ceremony[k0]
         \/ ceremony'[k0].status = "failed"
         \/ /\ ceremony'[k0].status = "deployed" /\ ceremony'[k0].contract = d
            /\ tx[Deployment(d)].state = "success"
  <2>1. /\ Deployed(k0, d) \in Ceremony /\ Deployed(k0, d).status = "deployed" /\ Deployed(k0, d).contract = d
        /\ CeremonyFailed(k0) \in Ceremony /\ CeremonyFailed(k0).status = "failed"
    <3>1. PICK rec \in Ceremony, until \in Nat : rec = ceremony[k0] /\ until = time + CeremonyTTL
      BY <1>2
    <3>2. /\ Deployed(k0, d) = [rec EXCEPT !.status = "deployed", !.until = until, !.contract = d]
          /\ CeremonyFailed(k0) = [rec EXCEPT !.status = "failed", !.until = until]
      BY <3>1, Zenon DEF Deployed, CeremonyFailed
    <3>3. /\ [rec EXCEPT !.status = "deployed", !.until = until, !.contract = d] \in Ceremony
          /\ [rec EXCEPT !.status = "deployed", !.until = until, !.contract = d].status = "deployed"
          /\ [rec EXCEPT !.status = "deployed", !.until = until, !.contract = d].contract = d
          /\ [rec EXCEPT !.status = "failed", !.until = until] \in Ceremony
          /\ [rec EXCEPT !.status = "failed", !.until = until].status = "failed"
      BY DEF Ceremony
    <3> QED  BY <3>2, <3>3
  <2> HIDE DEF Deployed, CeremonyFailed
  <2>2. CASE ceremony' = [ceremony EXCEPT ![k0] = Deployed(k0, d)] /\ job[d].pc = "completeWrite"
    BY <1>2, <2>1, <2>2
  <2>3. CASE ceremony' = [ceremony EXCEPT ![k0] = CeremonyFailed(k0)]
    BY <1>2, <2>1, <2>3
  <2>4. CASE UNCHANGED ceremony
    BY <1>2, <2>4
  <2> QED  BY <1>4, <2>2, <2>3, <2>4
<1>6. JobSound(d)'
  <2>1. pc \notin {"idle", "claim", "deploy", "sendDeploy", "completeRead", "completeWrite", "failRead", "failWrite"}
    OBVIOUS
  <2> QED  BY <1>3, <2>1 DEF JobSound, Doing
<1> HIDE DEF Owns
<1> QED  BY <1>2, <1>3, <1>4, <1>5, <1>6, JobStep

LEMMA CompleteWritePreserves ==
  ASSUME AInv, NEW d \in Deploys, CompleteWrite(d) \/ FailWriteCeremony(d)
  PROVE  AInv'
<1>1. CASE CompleteWrite(d)
  BY <1>1, Writes DEF CompleteWrite, Doing
<1>2. CASE FailWriteCeremony(d)
  BY <1>2, Writes DEF FailWriteCeremony, Doing
<1> QED  BY <1>1, <1>2

\* A deploy call that has not claimed yet: it becomes the owner of its
\* ceremony only if it finds it pending.
LEMMA Claims ==
  ASSUME AInv, NEW d \in Deploys, job[d].pc \in {"idle", "claim"},
         NEW k0 \in Ceremonies \cup {None}, NEW pc \in {"claim", "deploy", "error"},
         job' \in [Deploys -> Job], job'[d].pc = pc, job'[d].of = k0, pc = "claim" => k0 # None,
         \A e \in Deploys : e # d => job'[e] = job[e],
         ceremony' \in [Ceremonies -> Ceremony],
         \A k \in Ceremonies : k # k0 => ceremony'[k] = ceremony[k],
         k0 \in Ceremonies =>
           \/ pc # "deploy" /\ ceremony'[k0] = ceremony[k0]
           \/ ceremony[k0].status = "pending" /\ ceremony'[k0].status = "claimed",
         UNCHANGED <<Others, tx, sequence, inUse>>
  PROVE  AInv'
<1>1. tx \in [Names -> Tx] /\ sequence \in Nat
  BY DEF AInv, TypeOK
<1>2. tx[Deployment(d)].state = "none" /\ ~Owns(d)
  BY DEF AInv, CeremonyInv, JobSound, Owns, Doing, JobRunning
<1>3. \A e \in Deploys : e # d => JobSound(e)' /\ (Owns(e)' <=> Owns(e))
  BY OtherJobs
<1>4. JobSound(d)'
  BY <1>2 DEF JobSound, Doing, Deployment
<1>5. pc # "deploy" => ~Owns(d)'
  BY <1>2 DEF Owns, Deployment, JobRunning
<1>6. ASSUME NEW k \in Ceremonies  PROVE CeremonySound(k)'
  <2>1. CeremonySound(k)
    BY DEF AInv, CeremonyInv
  <2>2. CASE k = k0 /\ pc = "deploy"
    <3>1. ceremony[k].status = "pending" /\ ceremony'[k].status = "claimed"
      BY <2>2
    <3>2. \A e \in Deploys : e # d /\ job'[e].of = k => ~Owns(e)'
      BY <1>3, <2>1, <3>1 DEF CeremonySound
    <3> HIDE DEF Owns
    <3> QED  BY <3>1, <3>2 DEF CeremonySound
  <2>3. CASE k # k0 \/ pc # "deploy"
    <3>1. /\ ceremony'[k].status \in {"absent", "pending"} => ceremony[k].status \in {"absent", "pending"}
          /\ ceremony'[k].status = "deployed" => ceremony'[k] = ceremony[k]
      <4>1. CASE k = k0
        BY <2>3, <4>1
      <4>2. CASE k # k0
        BY <4>2
      <4> QED  BY <4>1, <4>2
    <3>2. \A e \in Deploys : job'[e].of = k /\ Owns(e)' => job[e].of = k /\ Owns(e)
      <4>1. ASSUME NEW e \in Deploys, job'[e].of = k, Owns(e)'  PROVE job[e].of = k /\ Owns(e)
        <5>1. CASE e = d
          BY <1>5, <2>3, <4>1, <5>1
        <5>2. CASE e # d
          BY <1>3, <4>1, <5>2
        <5> QED  BY <5>1, <5>2
      <4> QED  BY <4>1
    <3>3. ASSUME ceremony'[k].status = "deployed"
          PROVE  /\ ceremony'[k].contract \in Deploys /\ job'[ceremony'[k].contract].of = k
                 /\ tx[Deployment(ceremony'[k].contract)].state = "success"
      <4>1. ceremony'[k] = ceremony[k]
        BY <3>1, <3>3
      <4>2. PICK e \in Deploys : e = ceremony[k].contract /\ job[e].of = k /\ tx[Deployment(e)].state = "success"
        BY <2>1, <3>3, <4>1 DEF CeremonySound
      <4>3. e # d
        BY <1>2, <4>2
      <4> QED  BY <4>1, <4>2, <4>3
    <3> HIDE DEF Owns
    <3> QED  BY <2>1, <3>1, <3>2, <3>3 DEF CeremonySound, Deployment
  <2> QED  BY <2>2, <2>3
<1>7. TypeOK' /\ RelayerInv'
  BY <1>1, DeployAside
<1> QED  BY <1>3, <1>4, <1>6, <1>7 DEF AInv, CeremonyInv

LEMMA StartDeployPreserves ==
  ASSUME AInv, NEW d \in Deploys, NEW k \in Ceremonies \cup {None}, StartDeploy(d, k)
  PROVE  AInv'
<1>1. /\ job[d].pc = "idle" /\ job \in [Deploys -> Job] /\ ceremony \in [Ceremonies -> Ceremony]
      /\ UNCHANGED <<Others, tx, sequence, ceremony, inUse>>
  BY DEF StartDeploy, IdleJob, AInv, TypeOK
<1>2. PICK pc \in {"claim", "deploy"} : /\ pc = "deploy" <=> k = None
                                        /\ job' = [job EXCEPT ![d] = [pc |-> pc, of |-> k]]
  BY DEF StartDeploy
<1>3. [pc |-> pc, of |-> k] \in Job
  BY DEF Job, JobPc
<1>4. /\ job' \in [Deploys -> Job] /\ job'[d].pc = pc /\ job'[d].of = k
      /\ \A e \in Deploys : e # d => job'[e] = job[e]
  BY <1>1, <1>2, <1>3
<1>5. k \in Ceremonies => pc # "deploy"
  BY <1>2, CeremonyAssumption
<1> QED  BY <1>1, <1>2, <1>4, <1>5, Claims

LEMMA ClaimPreserves ==
  ASSUME AInv, NEW d \in Deploys, Claim(d)
  PROVE  AInv'
<1>1. /\ job[d].pc = "claim" /\ job \in [Deploys -> Job] /\ ceremony \in [Ceremonies -> Ceremony]
      /\ UNCHANGED <<Others, tx, sequence, inUse>> /\ time + CeremonyTTL \in Nat
  BY ConstantFacts DEF Claim, Doing, AInv, TypeOK
<1>2. PICK k \in Ceremonies : k = job[d].of
  BY <1>1 DEF AInv, CeremonyInv, JobSound, TypeOK, Job
<1>3. CASE Claimable(k) /\ ceremony' = [ceremony EXCEPT ![k] = Claimed(k)] /\ Then(d, "deploy")
  <2>1. Claimed(k) \in Ceremony /\ Claimed(k).status = "claimed"
    <3>1. PICK rec \in Ceremony, until \in Nat : rec = ceremony[k] /\ until = time + CeremonyTTL
      BY <1>1
    <3>2. Claimed(k) = [rec EXCEPT !.status = "claimed", !.until = until]
      BY <3>1, Zenon DEF Claimed
    <3>3. /\ [rec EXCEPT !.status = "claimed", !.until = until] \in Ceremony
          /\ [rec EXCEPT !.status = "claimed", !.until = until].status = "claimed"
      BY DEF Ceremony
    <3> QED  BY <3>2, <3>3
  <2>2. /\ ceremony' \in [Ceremonies -> Ceremony] /\ ceremony'[k].status = "claimed"
        /\ \A j \in Ceremonies : j # k => ceremony'[j] = ceremony[j]
    <3> HIDE DEF Claimed
    <3> QED  BY <1>1, <1>3, <2>1
  <2>3. "deploy" \in JobPc
    BY DEF JobPc
  <2>4. /\ job' \in [Deploys -> Job] /\ job'[d].pc = "deploy" /\ job'[d].of = k
        /\ \A e \in Deploys : e # d => job'[e] = job[e]
    BY <1>1, <1>2, <1>3, <2>3, ThenFacts
  <2>5. ceremony[k].status = "pending"
    BY <1>3 DEF Claimable
  <2> QED  BY <1>1, <2>2, <2>4, <2>5, Claims
<1>4. CASE Then(d, "error") /\ UNCHANGED ceremony
  <2>1. "error" \in JobPc
    BY DEF JobPc
  <2>2. /\ job' \in [Deploys -> Job] /\ job'[d].pc = "error" /\ job'[d].of = k
        /\ \A e \in Deploys : e # d => job'[e] = job[e]
    BY <1>1, <1>2, <1>4, <2>1, ThenFacts
  <2> QED  BY <1>1, <1>4, <2>2, Claims
<1> QED  BY <1>2, <1>3, <1>4 DEF Claim

LEMMA CrashDeployPreserves ==
  ASSUME AInv, NEW d \in Deploys, CrashDeploy(d)
  PROVE  AInv'
<1>1. job[d].pc \in JobRunning /\ Then(d, "error") /\ UNCHANGED <<Others, tx, sequence, ceremony, inUse>>
  BY DEF CrashDeploy
<1>2. "error" \in JobPc /\ tx \in [Names -> Tx] /\ job \in [Deploys -> Job] /\ ceremony \in [Ceremonies -> Ceremony]
  BY DEF JobPc, AInv, TypeOK
<1>3. CASE job[d].pc # "claim"
  BY <1>1, <1>2, <1>3, GoesOn
<1>4. CASE job[d].pc = "claim"
  <2>1. PICK k \in Ceremonies \cup {None} : k = job[d].of
    BY <1>2 DEF Job
  <2>2. /\ job' \in [Deploys -> Job] /\ job'[d].pc = "error" /\ job'[d].of = k
        /\ \A e \in Deploys : e # d => job'[e] = job[e]
    BY <1>1, <1>2, <2>1, ThenFacts
  <2> QED  BY <1>1, <1>2, <1>4, <2>2, Claims
<1> QED  BY <1>3, <1>4

LEMMA RegisterPreserves ==
  ASSUME AInv, NEW k \in Ceremonies, Register(k)
  PROVE  AInv'
<1>1. /\ ceremony[k].status = "absent" /\ ceremony \in [Ceremonies -> Ceremony] /\ time + CeremonyTTL \in Nat
      /\ UNCHANGED <<Others, tx, sequence, job, inUse>> /\ ceremony' = [ceremony EXCEPT ![k] = Pending]
  BY ConstantFacts DEF Register, NoCeremony, AInv, TypeOK
<1>2. Pending \in Ceremony /\ Pending.status = "pending"
  BY <1>1 DEF Pending, Ceremony
<1>3. /\ ceremony' \in [Ceremonies -> Ceremony] /\ ceremony'[k].status = "pending"
      /\ \A j \in Ceremonies : j # k => ceremony'[j] = ceremony[j]
  <2> HIDE DEF Pending
  <2> QED  BY <1>1, <1>2
<1>4. \A d \in Deploys : JobSound(d)' /\ (Owns(d)' <=> Owns(d))
  <2>1. ASSUME NEW d \in Deploys  PROVE JobSound(d)' /\ (Owns(d)' <=> Owns(d))
    <3>1. JobSound(d)
      BY DEF AInv, CeremonyInv
    <3> QED  BY <1>1, <3>1 DEF JobSound, Owns, Doing, Deployment
  <2> QED  BY <2>1
<1>5. ASSUME NEW j \in Ceremonies  PROVE CeremonySound(j)'
  <2>1. CeremonySound(j)
    BY DEF AInv, CeremonyInv
  <2>2. /\ ceremony'[j].status \in {"absent", "pending"} => ceremony[j].status \in {"absent", "pending"}
        /\ ceremony'[j].status = "deployed" => ceremony'[j] = ceremony[j]
    <3>1. CASE j = k
      BY <1>1, <1>3, <3>1
    <3>2. CASE j # k
      BY <1>3, <3>2
    <3> QED  BY <3>1, <3>2
  <2> HIDE DEF Owns
  <2> QED  BY <1>1, <1>4, <2>1, <2>2 DEF CeremonySound, Deployment
<1>6. TypeOK'
  BY <1>1, <1>3 DEF AInv, TypeOK, Others, cvars
<1>7. RelayerInv'
  BY <1>1, RelayerAside DEF AInv, Others
<1> QED  BY <1>4, <1>5, <1>6, <1>7 DEF AInv, CeremonyInv

LEMMA LandDeploymentPreserves ==
  ASSUME AInv, NEW d \in Deploys, LandDeployment(d)
  PROVE  AInv'
<1>1. /\ tx[Deployment(d)].state = "pending" /\ Deployment(d) \in Names /\ tx \in [Names -> Tx]
      /\ sequence \in Nat /\ UNCHANGED <<Others, ceremony, job, inUse>>
      /\ job \in [Deploys -> Job] /\ ceremony \in [Ceremonies -> Ceremony]
  BY NameFacts DEF LandDeployment, Includable, AInv, TypeOK
<1>2. PICK state \in {"success", "failed"} : Include(Deployment(d), state)
  BY DEF LandDeployment
<1>3. /\ tx' \in [Names -> Tx] /\ tx'[Deployment(d)].state = state /\ sequence' \in Nat
      /\ \A n \in Names : n # Deployment(d) => tx'[n] = tx[n]
  <2>1. state \in TxState
    BY DEF TxState
  <2> QED  BY <1>1, <1>2, <2>1, IncludeFacts
<1>4. JobSound(d) /\ Owns(d)
  BY <1>1 DEF AInv, CeremonyInv, Owns
<1>5. JobSound(d)'
  BY <1>1, <1>3, <1>4 DEF JobSound, Doing, Deployment
<1>6. PICK k0 \in Ceremonies \cup {None} : k0 = job[d].of
  BY <1>1 DEF Job
<1> HIDE DEF Owns
<1> QED  BY <1>1, <1>3, <1>4, <1>5, <1>6, JobStep

-----------------------------------------------------------------------------
(* The invariant holds *)

LEMMA InitSound == Init => AInv
<1> SUFFICES ASSUME Init  PROVE AInv
  OBVIOUS
<1>1. /\ NoRequest \in Request /\ NoRequest.status = "absent" /\ IdleCall \in Call /\ IdleCall.pc = "idle"
      /\ IdleCall.of = None /\ NoTx \in Tx /\ NoTx.state = "none"
  BY ConstantFacts DEF NoRequest, NoCanonical, Request, Canonical, Action, IdleCall, Call, Pc, NoTx, Tx, TxState
<1>2. /\ NoCeremony \in Ceremony /\ NoCeremony.status = "absent" /\ IdleJob \in Job /\ IdleJob.pc = "idle"
      /\ NoSession \in SessionPolicy
  BY DEF NoCeremony, Ceremony, IdleJob, Job, JobPc, NoSession, SessionPolicy
<1> HIDE DEF NoRequest, IdleCall, NoTx, NoCeremony, IdleJob, NoSession
<1>3. TypeOK
  <2>1. balance \in Nat
    BY ConstantFacts DEF Init, CInit
  <2>2. /\ request \in [Requests -> Request] /\ call \in [Submits -> Call] /\ tx \in [Names -> Tx]
        /\ ceremony \in [Ceremonies -> Ceremony] /\ job \in [Deploys -> Job]
    BY <1>1, <1>2 DEF Init, RInit, DInit
  <2> QED  BY <1>2, <2>1, <2>2 DEF Init, CInit, RInit, DInit, TypeOK
<1>4. /\ \A c \in Submits : call[c] = IdleCall
      /\ \A r \in Requests : request[r] = NoRequest
      /\ \A n \in Names : tx[n] = NoTx
      /\ \A d \in Deploys : job[d] = IdleJob
      /\ \A k \in Ceremonies : ceremony[k] = NoCeremony
      /\ receipts = {} /\ listed = {}
  BY DEF Init, RInit, DInit
<1>5. \A c \in Submits, r \in Requests : ~Touched(c, r)
  BY <1>1, <1>4, NameFacts DEF Touched, Running
<1>6. \A r \in Requests : RequestSound(r)
  <2> HIDE DEF Touched
  <2> QED  BY <1>1, <1>4, <1>5 DEF RequestSound
<1>7. \A c \in Submits : CallSound(c)
  BY <1>1, <1>4 DEF CallSound, At
<1>8. \A d \in Deploys : JobSound(d) /\ ~Owns(d)
  BY <1>1, <1>2, <1>4, NameFacts DEF JobSound, Owns, Doing, JobRunning
<1>9. \A k \in Ceremonies : CeremonySound(k)
  <2> HIDE DEF Owns
  <2> QED  BY <1>2, <1>4, <1>8 DEF CeremonySound
<1> QED  BY <1>3, <1>4, <1>6, <1>7, <1>8, <1>9 DEF AInv, RelayerInv, CeremonyInv

LEMMA InvariantNext ==
  ASSUME AInv, [Next]_vars
  PROVE  AInv'
<1>1. ASSUME NEW k \in Ceremonies, Register(k)  PROVE AInv'
  BY <1>1, RegisterPreserves
<1>2. ASSUME NEW d \in Deploys, NEW k \in Ceremonies \cup {None}, StartDeploy(d, k)  PROVE AInv'
  BY <1>2, StartDeployPreserves
<1>3. ASSUME NEW d \in Deploys, DeployStep(d) \/ LandDeployment(d) \/ CrashDeploy(d)  PROVE AInv'
  BY <1>3, ClaimPreserves, AssemblePreserves, SendDeploymentPreserves, PollDeploymentPreserves,
     CompleteReadPreserves, CompleteWritePreserves, FailReadCeremonyPreserves,
     LandDeploymentPreserves, CrashDeployPreserves DEF DeployStep
<1>4. ASSUME NEW c \in Clients, Ask(c) \/ Submit(c)  PROVE AInv'
  BY <1>4, AskPreserves, SubmitPreserves
<1>5. ASSUME NEW c \in Repeats, Repeat(c)  PROVE AInv'
  BY <1>5, RepeatPreserves
<1>6. ASSUME NEW c \in Submits, SubmitStep(c) \/ Crash(c) \/ \E r \in Requests : Land(c, r), UNCHANGED dvars
      PROVE  AInv'
  BY <1>6, BuildPreserves, SendPreserves, PollPreserves, SaveReceiptPreserves, ListReceiptPreserves,
     FailReadPreserves, FailWritePreserves, CrashPreserves, LandPreserves DEF SubmitStep
<1>7. CASE Direct
  BY <1>7, DirectPreserves
<1>8. CASE Tick
  BY <1>8, TickPreserves
<1>9. CASE UNCHANGED vars
  <2>1. ContractTyped' /\ UNCHANGED <<rvars, dvars>>
    BY <1>9 DEF vars, cvars, ContractTyped, AInv, TypeOK
  <2> QED  BY <2>1, ContractAside
<1> QED  BY <1>1, <1>2, <1>3, <1>4, <1>5, <1>6, <1>7, <1>8, <1>9, Zenon DEF Next

THEOREM InvariantHolds == Spec => []AInv
BY InitSound, InvariantNext, PTL DEF Spec

-----------------------------------------------------------------------------
(* What it says of the contract account *)

LEMMA AtMostOne ==
  ASSUME NEW S, \A x, y \in S : x = y
  PROVE  Cardinality(S) <= 1
<1>1. CASE S = {}
  BY <1>1, FS_EmptySet
<1>2. CASE S # {}
  <2>1. PICK x : S = {x}
    BY <1>2
  <2> QED  BY <2>1, FS_Singleton
<1> QED  BY <1>1, <1>2

\* Stores, invocations, transactions and the contract keep their types.
THEOREM TypeCorrect == Spec => []TypeOK
BY InvariantHolds, PTL DEF AInv

\* A request is sent to the network in one transaction at most, however
\* often its submit call is delivered.
THEOREM OneTransactionHolds == Spec => []OneTransactionPerRequest
<1>1. AInv => OneTransactionPerRequest
  <2> SUFFICES ASSUME AInv, NEW r \in Requests  PROVE Cardinality(Carriers(r)) <= 1
    BY DEF OneTransactionPerRequest
  <2>1. \A c \in Carriers(r) : c \in Submits /\ Touched(c, r)
    BY DEF Carriers, OnTheWay, Touched
  <2>2. \A c, d \in Submits : Touched(c, r) /\ Touched(d, r) => c = d
    BY DEF AInv, RelayerInv, RequestSound
  <2> HIDE DEF Touched, Carriers
  <2> QED  BY <2>1, <2>2, AtMostOne
<1> QED  BY InvariantHolds, <1>1, PTL

\* A receipt, and a successful answer, stand for an executed operation.
THEOREM ReceiptsAreSettledHolds == Spec => []ReceiptsAreSettled
<1>1. AInv => ReceiptsAreSettled
  BY DEF AInv, TypeOK, RelayerInv, RequestSound, CallSound, ReceiptsAreSettled
<1> QED  BY InvariantHolds, <1>1, PTL

\* The deploy calls for one ceremony send one deployment at most.
THEOREM OneDeploymentHolds == Spec => []OneDeploymentPerCeremony
<1>1. AInv => OneDeploymentPerCeremony
  <2> SUFFICES ASSUME AInv, NEW k \in Ceremonies
               PROVE  Cardinality({d \in Deploys : job[d].of = k /\ tx[Deployment(d)].state \in OnTheWay}) <= 1
    BY DEF OneDeploymentPerCeremony
  <2> DEFINE Sent == {d \in Deploys : job[d].of = k /\ tx[Deployment(d)].state \in OnTheWay}
  <2>1. \A d \in Sent : d \in Deploys /\ job[d].of = k /\ Owns(d)
    BY DEF OnTheWay, Owns
  <2>2. \A d, e \in Deploys : job[d].of = k /\ job[e].of = k /\ Owns(d) /\ Owns(e) => d = e
    BY DEF AInv, CeremonyInv, CeremonySound
  <2> HIDE DEF Sent, Owns
  <2>3. Cardinality(Sent) <= 1
    BY <2>1, <2>2, AtMostOne
  <2> QED  BY <2>3 DEF Sent
<1> QED  BY InvariantHolds, <1>1, PTL

\* A ceremony recorded as deployed names its contract on the ledger.
THEOREM DeployedIsRealHolds == Spec => []DeployedIsReal
<1>1. AInv => DeployedIsReal
  BY DEF AInv, CeremonyInv, CeremonySound, DeployedIsReal
<1> QED  BY InvariantHolds, <1>1, PTL

\* What a step leaves of a failed request: its status, and what is on the
\* way for it.
StaysFailed(r) ==
  /\ request'[r].status = "failed"
  /\ \A c \in Submits : tx'[<<c, r>>].state \in OnTheWay <=> tx[<<c, r>>].state \in OnTheWay

LEMMA CallStaysFailed ==
  ASSUME AInv, NEW c \in Submits, SubmitStep(c) \/ Crash(c),
         NEW r \in Requests, request[r].status = "failed"
  PROVE  StaysFailed(r)
<1>1. call[c].pc \in Running
  BY DEF SubmitStep, Crash, Build, Send, Poll, SaveReceipt, ListReceipt, FailRead, FailWrite, At, Running
<1>2. PICK q \in Requests :
        /\ call[c].of = q /\ Name(c) = <<c, q>> /\ <<c, q>> \in Names /\ RequestSound(q)
        /\ tx \in [Names -> Tx] /\ request \in [Requests -> Request]
        /\ time \in Nat /\ sequence \in Nat /\ call[c].key \in Signers \cup {None}
  BY <1>1, AtWork
<1>3. q # r
  BY <1>1, <1>2 DEF RequestSound
<1>4. \A d \in Submits : <<d, r>> \in Names /\ <<d, r>> # <<c, q>>
  BY <1>3, NameFacts
<1>5. CASE UNCHANGED tx /\ UNCHANGED request
  BY <1>5 DEF StaysFailed
<1>6. CASE (BuildTx(Name(c), call[c].key) \/ SendTx(Name(c))) /\ UNCHANGED request
  <2>1. \A n \in Names : n # <<c, q>> => tx'[n] = tx[n]
    BY <1>2, <1>6 DEF BuildTx, SendTx
  <2> QED  BY <1>4, <1>6, <2>1 DEF StaysFailed
<1>7. CASE FailWrite(c)
  <2>1. request'[r] = request[r] /\ UNCHANGED tx
    BY <1>2, <1>3, <1>7 DEF FailWrite
  <2> QED  BY <2>1 DEF StaysFailed
<1> QED  BY <1>5, <1>6, <1>7 DEF SubmitStep, Crash, Build, Send, Poll, SaveReceipt, ListReceipt, FailRead

LEMMA DeployStaysFailed ==
  ASSUME AInv, NEW d \in Deploys, DeployStep(d) \/ LandDeployment(d) \/ CrashDeploy(d),
         NEW r \in Requests, request[r].status = "failed"
  PROVE  StaysFailed(r)
<1>1. UNCHANGED request
  BY DEF DeployStep, Claim, Assemble, SendDeployment, PollDeployment, CompleteRead, CompleteWrite,
         FailReadCeremony, FailWriteCeremony, LandDeployment, CrashDeploy, Others
<1>2. \A c \in Submits : <<c, r>> \in Names /\ <<c, r>> # Deployment(d)
  BY NameFacts
<1>3. CASE UNCHANGED tx
  BY <1>1, <1>3 DEF StaysFailed
<1>4. CASE BuildTx(Deployment(d), None) \/ SendTx(Deployment(d)) \/ \E state \in {"success", "failed"} : Include(Deployment(d), state)
  <2>1. \A n \in Names : n # Deployment(d) => tx'[n] = tx[n]
    BY <1>4 DEF BuildTx, SendTx, Include, AInv, TypeOK
  <2> QED  BY <1>1, <1>2, <2>1 DEF StaysFailed
<1> QED  BY <1>3, <1>4
         DEF DeployStep, Claim, Assemble, SendDeployment, PollDeployment, CompleteRead, CompleteWrite,
             FailReadCeremony, FailWriteCeremony, LandDeployment, CrashDeploy

LEMMA ClientStaysFailed ==
  ASSUME AInv, NEW r \in Requests, request[r].status = "failed",
         \/ \E c \in Clients : Ask(c) \/ Submit(c)
         \/ \E c \in Repeats : Repeat(c)
  PROVE  StaysFailed(r)
<1>1. request \in [Requests -> Request]
  BY DEF AInv, TypeOK
<1>2. ASSUME NEW c, NEW canonical, Prepare(c, canonical)  PROVE StaysFailed(r)
  <2>1. PICK q \in Requests : request[q] = NoRequest /\ request' = [request EXCEPT ![q] = Prepared(canonical)]
    BY <1>2 DEF Prepare
  <2>2. q # r
    BY <2>1 DEF NoRequest
  <2>3. request'[r] = request[r] /\ UNCHANGED tx
    BY <1>1, <1>2, <2>1, <2>2 DEF Prepare
  <2> QED  BY <2>3 DEF StaysFailed
<1>3. ASSUME NEW c, NEW q, NEW key, Consume(c, q, key)  PROVE StaysFailed(r)
  <2>1. UNCHANGED tx
    BY <1>3 DEF Consume
  <2>2. request'[r] = request[r]
    BY <1>1, <1>3 DEF Consume, Consumable
  <2> QED  BY <2>1, <2>2 DEF StaysFailed
<1>4. ASSUME NEW c, Ask(c) \/ Submit(c) \/ Repeat(c)  PROVE StaysFailed(r)
  <2>1. CASE Ask(c)
    BY <1>2, <2>1 DEF Ask
  <2>2. CASE Submit(c)
    <3>1. PICK q, key : q = call[c].of /\ Consume(c, call[c].of, key)
      BY <2>2 DEF Submit
    <3>2. Consume(c, q, key)
      BY <3>1
    <3> QED  BY <1>3, <3>2
  <2>3. CASE Repeat(c)
    <3>1. PICK k : Consume(c, call[k].of, call[k].key)
      BY <2>3 DEF Repeat
    <3>2. PICK q, key : q = call[k].of /\ key = call[k].key
      OBVIOUS
    <3>3. Consume(c, q, key)
      BY <3>1, <3>2
    <3> QED  BY <1>3, <3>3
  <2> QED  BY <1>4, <2>1, <2>2, <2>3
<1> QED  BY <1>4

\* What is recorded as failed stays so, and nothing more is sent for it.
THEOREM FailedIsFinalHolds == Spec => FailedIsFinal
<1> DEFINE Step == \A r \in Requests : request[r].status = "failed" => StaysFailed(r)
<1>1. AInv /\ [Next]_vars => [Step]_vars
  <2> SUFFICES ASSUME AInv, Next, NEW r \in Requests, request[r].status = "failed"  PROVE StaysFailed(r)
    OBVIOUS
  <2>1. ASSUME UNCHANGED <<request, tx>>  PROVE StaysFailed(r)
    BY <2>1 DEF StaysFailed
  <2>2. ASSUME NEW k \in Ceremonies, Register(k)  PROVE StaysFailed(r)
    BY <2>1, <2>2 DEF Register, Others
  <2>3. ASSUME NEW d \in Deploys, NEW k \in Ceremonies \cup {None}, StartDeploy(d, k)  PROVE StaysFailed(r)
    BY <2>1, <2>3 DEF StartDeploy, Others
  <2>4. ASSUME NEW c \in Submits, NEW q \in Requests, Land(c, q)  PROVE StaysFailed(r)
    <3>1. <<c, q>> \in Names /\ tx[<<c, q>>].state = "pending" /\ UNCHANGED request
      BY <2>4, NameFacts DEF Land, Includable
    <3>2. PICK state \in {"success", "failed"} : Include(<<c, q>>, state)
      BY <2>4 DEF Land, Execute
    <3>3. state \in TxState /\ tx \in [Names -> Tx] /\ sequence \in Nat
      BY DEF TxState, AInv, TypeOK
    <3>4. tx'[<<c, q>>].state = state /\ \A n \in Names : n # <<c, q>> => tx'[n] = tx[n]
      BY <3>1, <3>2, <3>3, IncludeFacts
    <3> QED  BY <3>1, <3>4, NameFacts DEF StaysFailed, OnTheWay
  <2>5. CASE Direct \/ Tick
    BY <2>1, <2>5 DEF Direct, Tick, rvars
  <2> QED  BY <2>2, <2>3, <2>4, <2>5, CallStaysFailed, DeployStaysFailed, ClientStaysFailed, Zenon DEF Next
<1>2. [Step]_vars => [\A r \in Requests : request[r].status = "failed" =>
                        Carriers(r)' = Carriers(r) /\ (request[r].status)' = "failed"]_vars
  BY DEF StaysFailed, Carriers
<1> HIDE DEF Step
<1> QED  BY InvariantHolds, <1>1, <1>2, PTL DEF Spec, FailedIsFinal

-----------------------------------------------------------------------------
(* The contract is an allowance *)

LEMMA GrantOpens ==
  ASSUME ContractTyped, NEW s \in Signers \cup {None}, NEW ends \in Nat,
         Grant(s, {Merchant}, {USDC}, PerPayment, TotalLimit, ends)
  PROVE  Allowance!Open(Slot)
<1> DEFINE fresh == Fresh(s, {Merchant}, {USDC}, PerPayment, TotalLimit, ends)
<1>1. /\ session' = fresh /\ fresh.total = TotalLimit /\ fresh.spent = 0 /\ fresh.ends = ends
      /\ fresh.revoked = FALSE /\ ends > time /\ UNCHANGED <<time, paid>>
  BY DEF Grant, ValidPolicy, Fresh
<1>2. fresh # NoSession
  BY <1>1, ConstantFacts DEF NoSession
<1> HIDE DEF fresh
<1>3. IsOpen'
  BY <1>1, <1>2 DEF IsOpen
<1>4. session'.total - session'.spent = TotalLimit /\ TotalLimit \in Nat \ {0} /\ session'.ends = ends
  BY <1>1, ConstantFacts
<1>5. (IF IsOpen THEN {Slot} ELSE {})' = (IF IsOpen THEN {Slot} ELSE {}) \cup {Slot}
  BY <1>3
<1>6. UNCHANGED <<time, [x \in {Slot} |-> paid]>>
  BY <1>1
<1>7. /\ [x \in {Slot} |-> session'.total - session'.spent][Slot] \in Nat \ {0}
      /\ [x \in {Slot} |-> session'.total - session'.spent]
           = [[x \in {Slot} |-> session.total - session.spent] EXCEPT
                ![Slot] = [x \in {Slot} |-> session'.total - session'.spent][Slot]]
  BY <1>4
<1>8. /\ [x \in {Slot} |-> session'.ends][Slot] \in Nat
      /\ [x \in {Slot} |-> session'.ends][Slot] > time
      /\ [x \in {Slot} |-> session'.ends]
           = [[x \in {Slot} |-> session.ends] EXCEPT ![Slot] = [x \in {Slot} |-> session'.ends][Slot]]
  BY <1>1, <1>4
<1> QED  BY <1>5, <1>6, <1>7, <1>8 DEF Allowance!Open

LEMMA RevokeCloses ==
  ASSUME ContractTyped, Revoke
  PROVE  Allowance!Close(Slot)
<1>1. /\ session'.revoked = TRUE /\ session'.ends = session.ends /\ session'.total = session.total
      /\ session'.spent = session.spent /\ UNCHANGED <<time, paid>>
  BY DEF Revoke, ContractTyped, SessionPolicy
<1>2. ~IsOpen'
  BY <1>1 DEF IsOpen
<1> QED  BY <1>1, <1>2 DEF Allowance!Close

LEMMA TransferSpends ==
  ASSUME ContractTyped, NEW s, NEW contexts \in Contexts, Transfer(s, contexts)
  PROVE  Allowance!Spend(Slot)
<1> DEFINE charge == Charge(contexts)
           left == session.total - session.spent
<1>1. charge \in Nat /\ charge > 0
  <2>1. \A i \in DOMAIN contexts : contexts[i].amount > 0
    BY DEF Transfer, Authorizes, Allowed
  <2> QED  BY <2>1, ChargeFacts
<1>2. IsOpen /\ time <= session.ends /\ session.spent + charge <= session.total
  BY DEF Transfer, Authorizes, SessionSigns, WithinBudget, IsOpen
<1>3. /\ session' = [session EXCEPT !.spent = session.spent + charge]
      /\ paid' = paid + charge /\ UNCHANGED time
  BY DEF Transfer
<1> HIDE DEF charge
<1>4. /\ session.total \in Nat /\ session.spent \in Nat
      /\ session'.total = session.total /\ session'.spent = session.spent + charge
      /\ session'.ends = session.ends /\ session'.revoked = session.revoked
  BY <1>3 DEF ContractTyped, SessionPolicy
<1>5. charge \in 1 .. left
  BY <1>1, <1>2, <1>4
<1>6. IsOpen'
  <2>1. session' # NoSession
    BY <1>1, <1>4 DEF NoSession
  <2> QED  BY <1>2, <1>4, <2>1 DEF IsOpen
<1>7. session'.total - session'.spent = left - charge
  BY <1>1, <1>4
<1>8. /\ [x \in {Slot} |-> session'.total - session'.spent]
           = [[x \in {Slot} |-> left] EXCEPT ![Slot] = [x \in {Slot} |-> left][Slot] - charge]
      /\ [x \in {Slot} |-> paid'] = [[x \in {Slot} |-> paid] EXCEPT ![Slot] = [x \in {Slot} |-> paid][Slot] + charge]
  BY <1>3, <1>7
<1>9. charge \in 1 .. [x \in {Slot} |-> left][Slot]
  BY <1>5
<1>10. /\ Slot \in (IF IsOpen THEN {Slot} ELSE {}) /\ time <= [x \in {Slot} |-> session.ends][Slot]
       /\ UNCHANGED <<time, IF IsOpen THEN {Slot} ELSE {}, [x \in {Slot} |-> session.ends]>>
  BY <1>2, <1>3, <1>4, <1>6
<1> QED  BY <1>8, <1>9, <1>10 DEF Allowance!Spend

LEMMA AllowanceAside ==
  ASSUME UNCHANGED <<time, session, paid>>
  PROVE  UNCHANGED Allowance!avars
BY DEF Allowance!avars, IsOpen

LEMMA LandIsAllowed ==
  ASSUME AInv, NEW c \in Submits, NEW r \in Requests, Land(c, r)
  PROVE  [Allowance!Next]_(Allowance!avars)
<1> DEFINE canonical == request[r].canonical
<1>1. ContractTyped /\ canonical \in Canonical
  BY DEF AInv, TypeOK, ContractTyped, Request
<1>2. ASSUME Grant(canonical.signer, {Merchant}, {USDC}, PerPayment, TotalLimit, canonical.ends)
      PROVE  Allowance!Open(Slot)
  <2>1. PICK s \in Signers \cup {None}, ends \in Nat : s = canonical.signer /\ ends = canonical.ends
    BY <1>1 DEF Canonical
  <2> QED  BY <1>1, <1>2, <2>1, GrantOpens
<1>3. ASSUME NEW key, Transfer(key, Payment(canonical))  PROVE Allowance!Spend(Slot)
  <2>1. PICK contexts \in Contexts : contexts = Payment(canonical)
    BY <1>1, PaymentFacts
  <2> QED  BY <1>1, <1>3, <2>1, TransferSpends
<1>4. Revoke => Allowance!Close(Slot)
  BY <1>1, RevokeCloses
<1>5. \/ Grant(canonical.signer, {Merchant}, {USDC}, PerPayment, TotalLimit, canonical.ends)
      \/ Revoke
      \/ Transfer(tx[<<c, r>>].key, Payment(canonical))
      \/ OwnerTransfer(canonical.amount)
      \/ UNCHANGED cvars
  BY DEF Land, Execute
<1>6. UNCHANGED cvars => UNCHANGED Allowance!avars
  BY AllowanceAside DEF cvars
<1>7. OwnerTransfer(canonical.amount) => UNCHANGED Allowance!avars
  BY AllowanceAside DEF OwnerTransfer
<1> HIDE DEF canonical
<1> QED  BY <1>2, <1>3, <1>4, <1>5, <1>6, <1>7, Zenon DEF Allowance!Next

LEMMA AllowanceInit == Init => Allowance!Init
BY DEF Init, CInit, Allowance!Init, IsOpen, NoSession

LEMMA StepIsAllowed ==
  ASSUME AInv, [Next]_vars
  PROVE  [Allowance!Next]_(Allowance!avars)
<1>1. ASSUME UNCHANGED cvars  PROVE [Allowance!Next]_(Allowance!avars)
  BY <1>1, AllowanceAside DEF cvars
<1>2. ASSUME NEW k \in Ceremonies, Register(k)  PROVE [Allowance!Next]_(Allowance!avars)
  BY <1>1, <1>2 DEF Register, Others
<1>3. ASSUME NEW d \in Deploys, NEW k \in Ceremonies \cup {None}, StartDeploy(d, k)
      PROVE  [Allowance!Next]_(Allowance!avars)
  BY <1>1, <1>3 DEF StartDeploy, Others
<1>4. ASSUME NEW d \in Deploys, DeployStep(d) \/ LandDeployment(d) \/ CrashDeploy(d)
      PROVE  [Allowance!Next]_(Allowance!avars)
  BY <1>1, <1>4 DEF DeployStep, Claim, Assemble, SendDeployment, PollDeployment, CompleteRead, CompleteWrite,
                    FailReadCeremony, FailWriteCeremony, LandDeployment, CrashDeploy, Others
<1>5. ASSUME NEW c, Ask(c) \/ Submit(c) \/ Repeat(c)  PROVE [Allowance!Next]_(Allowance!avars)
  BY <1>1, <1>5 DEF Ask, Prepare, Submit, Repeat, Consume
<1>6. ASSUME NEW c \in Submits, SubmitStep(c) \/ Crash(c)  PROVE [Allowance!Next]_(Allowance!avars)
  BY <1>1, <1>6 DEF SubmitStep, Crash, Build, Send, Poll, SaveReceipt, ListReceipt, FailRead, FailWrite
<1>7. ASSUME Direct  PROVE [Allowance!Next]_(Allowance!avars)
  <2>1. ContractTyped
    BY DEF AInv, TypeOK, ContractTyped
  <2>2. CASE SessionActs
    <3>1. Allowance!Spend(Slot)
      BY <2>1, <2>2, TransferSpends DEF SessionActs
    <3> QED  BY <3>1 DEF Allowance!Next
  <2>3. CASE OwnerTransfer(balance)
    BY <2>3, AllowanceAside DEF OwnerTransfer
  <2> QED  BY <1>7, <2>2, <2>3 DEF Direct
<1>8. ASSUME Tick  PROVE [Allowance!Next]_(Allowance!avars)
  <2>1. Allowance!Pass
    BY <1>8 DEF Tick, Pass, Allowance!Pass, IsOpen
  <2> QED  BY <2>1 DEF Allowance!Next
<1>9. CASE UNCHANGED vars
  BY <1>1, <1>9 DEF vars
<1> QED  BY <1>2, <1>3, <1>4, <1>5, <1>6, <1>7, <1>8, <1>9, LandIsAllowed, Zenon DEF Next

\* Through whatever relayer, repeated delivery or direct transaction it is
\* reached, the contract account is an allowance: payments come out of the
\* budget of the last grant, while it is neither revoked nor ended.
THEOREM ContractIsAnAllowance == Spec => AllowanceSpec
<1>1. AInv /\ [Next]_vars => [Allowance!Next]_(Allowance!avars)
  BY StepIsAllowed
<1> QED  BY AllowanceInit, InvariantHolds, <1>1, PTL DEF Spec, AllowanceSpec, Allowance!Spec
=============================================================================
