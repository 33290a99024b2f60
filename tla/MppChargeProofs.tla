--------------------------- MODULE MppChargeProofs ---------------------------
(***************************************************************************)
(* Proofs about the paid report over MPP Charge, for every set of          *)
(* resources, challenges and requests under way at a time and every length *)
(* of the public list: a credential buys one report of its resource, and   *)
(* what is saved, listed or handed out was paid for; and the list lasts as *)
(* long as what it names.                                                  *)
(***************************************************************************)
EXTENDS MppCharge, TLAPS

-----------------------------------------------------------------------------
(* The inductive invariant *)

Signature == [resource : Resources, offer : Offers, confirmed : Offers]

Places == {"idle", "report", "charge", "read", "cas", "pay", "wait", "handle",
           "save", "push", "trim", "renew", "answer"}

Codes == {0, 200, 402}

RequestRecord == [pc : Places, kind : {"none", "risk", "kit"}, resource : Resources \cup {None},
                  paying : Challenges \cup {None}, status : Codes]

Shapes ==
  /\ buyer \in Offers \cup {NoOffer}
  /\ buyer # NoOffer => Acceptable(buyer)
  /\ signed \in [Challenges -> Signature \cup {Unsigned}]
  /\ chain \in [Challenges -> {"none", "sent", "done", "failed"}]
  /\ claimed \in [Challenges -> BOOLEAN]
  /\ receipts \in [Challenges -> 0 .. Lifetime] /\ listLife \in 0 .. Lifetime
  /\ saving \in [Challenges -> {"none", "record", "done"}]
  /\ listed \in Seq(Challenges)
  /\ request \in [Requests -> RequestRecord]
  /\ delivered \in [Challenges -> Seq(Resources)]

\* A request that has claimed its challenge and may still answer with 200.
WorksAt(pc, status) == \/ pc \in {"pay", "wait", "save", "push", "trim", "renew", "answer"}
                       \/ pc = "handle" /\ status = 200

Working(k) == WorksAt(k.pc, k.status)

Listed(c) == \E i \in 1 .. Len(listed) : listed[i] = c

\* What a request has gone through holds of its challenge: it is signed for
\* the resource of the request, then claimed with nothing delivered yet,
\* then paid; its receipt is saved and listed by this request alone.
RequestTruthful(k) ==
  /\ k.pc # "idle" => k.resource \in Resources
  /\ k.pc \in {"read", "cas"} \/ Working(k) => /\ k.paying \in Challenges
                                               /\ signed[k.paying].resource = k.resource
  /\ k.pc = "handle" => k.status # 0
  /\ k.pc \in {"save", "push", "trim", "renew"} => k.kind = "risk"
  /\ Working(k) => claimed[k.paying] /\ delivered[k.paying] = <<>>
  /\ Working(k) /\ k.pc \notin {"pay", "wait"} => chain[k.paying] = "done"
  /\ Working(k) /\ k.pc \in {"pay", "wait", "handle", "save"} => saving[k.paying] = "none"
  /\ k.pc = "push" => saving[k.paying] = "record" /\ ~Listed(k.paying)

\* One request at most works on a challenge.
OneWorker ==
  \A q, s \in Requests :
    Working(request[q]) /\ Working(request[s]) /\ request[q].paying = request[s].paying => q = s

\* What is saved or delivered is paid, and delivered for what was signed.
Books ==
  \A c \in Challenges :
    /\ delivered[c] \in {<<>>, <<signed[c].resource>>}
    /\ delivered[c] # <<>> => signed[c] # Unsigned
    /\ saving[c] # "none" \/ delivered[c] # <<>> => chain[c] = "done" /\ claimed[c]

MInv ==
  /\ Shapes
  /\ SignedAsConfirmed
  /\ Books
  /\ ListOutlivesRecords
  /\ OneWorker
  /\ \A q \in Requests : RequestTruthful(request[q])

LEMMA UnsignedIsNone == Unsigned \notin Signature /\ Unsigned.resource = None
BY NoneAssumption DEF Unsigned, Signature

LEMMA SignatureResource ==
  ASSUME MInv, NEW c \in Challenges
  PROVE  /\ signed[c] = Unsigned => signed[c].resource = None
         /\ signed[c] # Unsigned => signed[c] \in Signature /\ signed[c].resource \in Resources
BY UnsignedIsNone DEF MInv, Shapes, Signature

LEMMA EmptyList == <<>> \in Seq(Challenges) /\ 1 .. Len(<<>>) = {}
OBVIOUS

LEMMA MInvInit == Init => MInv
<1> SUFFICES ASSUME Init  PROVE MInv
  OBVIOUS
<1>1. IdleRequest \in RequestRecord /\ ~Working(IdleRequest) /\ RequestTruthful(IdleRequest)
  BY DEF IdleRequest, RequestRecord, Places, Codes, Working, WorksAt, RequestTruthful
<1>2. Shapes
  BY <1>1, LifetimeAssumption, EmptyList DEF Init, Shapes
<1>3. Books /\ ListOutlivesRecords /\ SignedAsConfirmed
  BY EmptyList DEF Init, Books, ListOutlivesRecords, SignedAsConfirmed
<1>4. OneWorker /\ \A q \in Requests : RequestTruthful(request[q])
  BY <1>1 DEF Init, OneWorker
<1> QED  BY <1>2, <1>3, <1>4 DEF MInv

-----------------------------------------------------------------------------
(* Steps of a request that leave the books alone *)

\* A request moves on, still true of its challenge, and works on it only if
\* it did before.
LEMMA RequestStep ==
  ASSUME MInv, NEW q \in Requests, NEW k \in RequestRecord,
         request' = [request EXCEPT ![q] = k],
         RequestTruthful(k),
         Working(k) => Working(request[q]) /\ k.paying = request[q].paying,
         UNCHANGED <<buyer, signed, chain, claimed, receipts, listed, listLife, saving, delivered>>
  PROVE  MInv'
<1>1. \A d \in Requests : request'[d] = IF d = q THEN k ELSE request[d]
  BY DEF MInv, Shapes
<1>2. Shapes'
  BY DEF MInv, Shapes
<1>3. Books' /\ ListOutlivesRecords' /\ SignedAsConfirmed'
  BY DEF MInv, Books, ListOutlivesRecords, SignedAsConfirmed
<1>4. OneWorker'
  BY <1>1 DEF MInv, OneWorker, Working
<1>5. \A d \in Requests : RequestTruthful(request[d])'
  BY <1>1 DEF MInv, RequestTruthful, Working, Listed
<1> QED  BY <1>2, <1>3, <1>4, <1>5 DEF MInv

LEMMA EndPreserves ==
  ASSUME MInv, NEW q \in Requests, End(q),
         UNCHANGED <<buyer, signed, chain, claimed, receipts, listed, listLife, saving, delivered>>
  PROVE  MInv'
<1>1. IdleRequest \in RequestRecord /\ ~Working(IdleRequest) /\ RequestTruthful(IdleRequest)
  BY DEF IdleRequest, RequestRecord, Places, Codes, Working, WorksAt, RequestTruthful
<1> QED  BY <1>1, RequestStep DEF End

LEMMA StartPreserves ==
  ASSUME MInv, NEW q \in Requests, NEW kind \in {"risk", "kit"}, NEW r \in Resources,
         NEW c \in Challenges \cup {None}, Start(q, kind, r, c)
  PROVE  MInv'
<1> DEFINE k == [pc |-> IF kind = "risk" THEN "report" ELSE "charge", kind |-> kind,
                 resource |-> r, paying |-> c, status |-> 0]
<1>1. k \in RequestRecord /\ ~Working(k) /\ RequestTruthful(k)
  BY DEF RequestRecord, Places, Codes, Working, WorksAt, RequestTruthful
<1>2. request' = [request EXCEPT ![q] = k]
  BY DEF Start
<1>3. UNCHANGED <<buyer, signed, chain, claimed, receipts, listed, listLife, saving, delivered>>
  BY DEF Start
<1> HIDE DEF k
<1> QED  BY <1>1, <1>2, <1>3, RequestStep

\* The request goes on, its other fields as they are.
LEMMA GotoPreserves ==
  ASSUME MInv, NEW q \in Requests,
         NEW pc \in {"charge", "read", "cas", "wait", "handle", "save", "push", "trim", "renew", "answer"},
         NEW status \in Codes,
         request' = [request EXCEPT ![q] = [request[q] EXCEPT !.pc = pc, !.status = status]],
         request[q].pc # "idle",
         pc \in {"read", "cas"} => /\ request[q].paying \in Challenges
                                   /\ signed[request[q].paying].resource = request[q].resource,
         pc = "handle" => status # 0,
         pc \in {"save", "push", "trim", "renew"} => request[q].kind = "risk",
         WorksAt(pc, status) =>
           /\ Working(request[q])
           /\ pc # "wait" => chain[request[q].paying] = "done"
           /\ pc \in {"wait", "handle", "save"} => saving[request[q].paying] = "none"
           /\ pc = "push" => saving[request[q].paying] = "record" /\ ~Listed(request[q].paying),
         UNCHANGED <<buyer, signed, chain, claimed, receipts, listed, listLife, saving, delivered>>
  PROVE  MInv'
<1> DEFINE k == [request[q] EXCEPT !.pc = pc, !.status = status]
<1>1. request[q] \in RequestRecord /\ RequestTruthful(request[q])
  BY DEF MInv, Shapes
<1>2. /\ k \in RequestRecord /\ k.pc = pc /\ k.status = status /\ k.paying = request[q].paying
      /\ k.resource = request[q].resource /\ k.kind = request[q].kind
  <2>1. pc \in Places
    BY DEF Places
  <2> QED  BY <1>1, <2>1 DEF RequestRecord
<1>3. request' = [request EXCEPT ![q] = k]
  OBVIOUS
<1> HIDE DEF k
<1>4. Working(k) <=> WorksAt(pc, status)
  BY <1>2 DEF Working
<1>5. RequestTruthful(k)
  <2>1. WorksAt(pc, status) => /\ k.paying \in Challenges /\ signed[k.paying].resource = k.resource
                               /\ claimed[k.paying] /\ delivered[k.paying] = <<>>
    BY <1>1, <1>2 DEF RequestTruthful
  <2>2. k.resource \in Resources
    BY <1>1, <1>2 DEF RequestTruthful
  <2>3. pc \in {"save", "push", "trim", "renew"} => k.kind = "risk"
    BY <1>2
  <2>4. WorksAt(pc, status) => /\ pc # "wait" => chain[k.paying] = "done"
                               /\ pc \in {"wait", "handle", "save"} => saving[k.paying] = "none"
    BY <1>2
  <2>5. pc = "push" => saving[k.paying] = "record" /\ ~Listed(k.paying)
    BY <1>2 DEF WorksAt
  <2>6. pc \in {"read", "cas"} => k.paying \in Challenges /\ signed[k.paying].resource = k.resource
    BY <1>2
  <2> QED  BY <1>2, <1>4, <2>1, <2>2, <2>3, <2>4, <2>5, <2>6 DEF RequestTruthful
<1>6. Working(k) => Working(request[q]) /\ k.paying = request[q].paying
  BY <1>2, <1>4
<1> QED  BY <1>2, <1>3, <1>5, <1>6, RequestStep

LEMMA TwoFields ==
  ASSUME NEW Q, NEW R, NEW f \in [Q -> R], NEW q \in Q, NEW pc, NEW status
  PROVE  [f EXCEPT ![q].pc = pc, ![q].status = status]
           = [f EXCEPT ![q] = [f[q] EXCEPT !.pc = pc, !.status = status]]
OBVIOUS

\* The library answers: with 200 only on a challenge that is paid.
LEMMA AnsweredPreserves ==
  ASSUME MInv, NEW q \in Requests, NEW status \in Codes, status # 0, Answered(q, status),
         request[q].pc # "idle",
         status = 200 => /\ Working(request[q])
                         /\ chain[request[q].paying] = "done" /\ saving[request[q].paying] = "none",
         UNCHANGED <<buyer, signed, chain, claimed, receipts, listed, listLife, saving, delivered>>
  PROVE  MInv'
<1>1. request \in [Requests -> RequestRecord]
  BY DEF MInv, Shapes
<1>2. request' = [request EXCEPT ![q] = [request[q] EXCEPT !.pc = "handle", !.status = status]]
  BY <1>1, TwoFields, Zenon DEF Answered
<1>3. WorksAt("handle", status) <=> status = 200
  BY DEF WorksAt
<1>4. "handle" \notin {"read", "cas", "save", "push", "trim", "renew"}
  OBVIOUS
<1>5. "handle" \in {"charge", "read", "cas", "wait", "handle", "save", "push", "trim", "renew", "answer"}
  OBVIOUS
<1> QED  BY <1>2, <1>3, <1>4, <1>5, GotoPreserves

LEMMA QuietRequestsPreserve ==
  ASSUME MInv, NEW q \in Requests,
         Report(q) \/ Charge(q) \/ Read(q) \/ Wait(q) \/ Handle(q) \/ Degrade(q) \/ Fail(q)
  PROVE  MInv'
<1> DEFINE k == request[q]
<1>0. k \in RequestRecord /\ RequestTruthful(k)
  BY DEF MInv, Shapes
<1>1. ASSUME NEW pc \in {"charge", "read", "cas", "wait", "handle", "save", "push", "trim", "renew", "answer"},
             Goto(q, pc)
      PROVE  request' = [request EXCEPT ![q] = [request[q] EXCEPT !.pc = pc, !.status = k.status]]
  <2>1. [k EXCEPT !.pc = pc] = [k EXCEPT !.pc = pc, !.status = k.status]
    BY <1>0 DEF RequestRecord
  <2> QED  BY <1>1, <2>1 DEF Goto
<1>2. k.status \in Codes
  BY <1>0 DEF RequestRecord
<1>a. 200 \in Codes \ {0} /\ 402 \in Codes \ {0}
  BY DEF Codes
<1>3. CASE Report(q)
  BY <1>1, <1>2, <1>3, GotoPreserves DEF Report, Working, WorksAt
<1>4. CASE Charge(q)
  <2>1. CASE InScope(q)
    <3>1. k.paying \in Challenges /\ signed[k.paying].resource = k.resource
      BY <1>0, <2>1 DEF InScope, RequestRecord
    <3> QED  BY <1>1, <1>2, <1>4, <2>1, <3>1, GotoPreserves DEF Charge, Working, WorksAt
  <2>2. CASE ~InScope(q)
    BY <1>4, <2>2, <1>a, AnsweredPreserves DEF Charge
  <2> QED  BY <2>1, <2>2
<1>5. CASE Read(q)
  <2>0. k.paying \in Challenges /\ signed[k.paying].resource = k.resource
    BY <1>0, <1>5 DEF Read, MInv, Shapes, RequestTruthful
  <2>1. CASE claimed[k.paying]
    BY <1>5, <2>0, <2>1, <1>a, AnsweredPreserves DEF Read
  <2>2. CASE ~claimed[k.paying]
    BY <1>1, <1>2, <1>5, <2>0, <2>2, GotoPreserves DEF Read, Working, WorksAt
  <2> QED  BY <2>1, <2>2
<1>6. CASE Wait(q)
  <2>0. Working(k) /\ saving[k.paying] = "none"
    BY <1>0, <1>6 DEF Wait, MInv, Shapes, RequestTruthful, Working, WorksAt
  <2>1. CASE chain[k.paying] = "done" /\ Answered(q, 200)
    BY <1>6, <2>0, <2>1, <1>a, AnsweredPreserves DEF Wait
  <2>2. CASE Answered(q, 402)
    BY <1>6, <2>0, <2>2, <1>a, AnsweredPreserves DEF Wait
  <2> QED  BY <1>6, <2>1, <2>2 DEF Wait
<1>7. CASE Handle(q)
  <2>0. UNCHANGED <<buyer, signed, chain, claimed, receipts, listed, listLife, saving, delivered>>
    BY <1>7 DEF Handle, MInv, Shapes
  <2>1. CASE k.status = 402
    BY <1>7, <2>0, <2>1, EndPreserves DEF Handle, Unpaid
  <2>2. CASE k.status # 402
    <3>1. Working(k) /\ chain[k.paying] = "done" /\ saving[k.paying] = "none"
      <4>1. k.status = 200
        BY <1>0, <1>2, <1>7, <2>2 DEF Handle, RequestTruthful, Codes
      <4> QED  BY <1>0, <1>7, <4>1 DEF Handle, RequestTruthful, Working, WorksAt
    <3>2. CASE k.kind = "risk"
      <4>1. Goto(q, "save") /\ k.pc # "idle"
        BY <1>7, <2>2, <3>2 DEF Handle, Unpaid, SavesReceipt
      <4> QED  BY <1>1, <1>2, <2>0, <3>1, <3>2, <4>1, GotoPreserves
    <3>3. CASE k.kind # "risk"
      BY <1>1, <1>2, <1>7, <2>0, <2>2, <3>1, <3>3, GotoPreserves DEF Handle, Unpaid, SavesReceipt
    <3> QED  BY <3>2, <3>3
  <2> QED  BY <2>1, <2>2
<1>8. CASE Degrade(q)
  <2>1. Working(k) /\ chain[k.paying] = "done" /\ k.pc # "idle"
    BY <1>0, <1>8 DEF Degrade, MInv, Shapes, RequestTruthful, Working, WorksAt
  <2> QED  BY <1>1, <1>2, <1>8, <2>1, GotoPreserves DEF Degrade
<1>9. CASE Fail(q)
  BY <1>9, EndPreserves DEF Fail
<1> QED  BY <1>3, <1>4, <1>5, <1>6, <1>7, <1>8, <1>9

-----------------------------------------------------------------------------
(* Steps that change the books *)

\* What the other requests have found out is about other challenges, when a
\* step changes the books of a challenge none of them works on.
LEMMA OthersTruthful ==
  ASSUME MInv, NEW q \in Requests, NEW c \in Challenges,
         \A d \in Requests \ {q} : Working(request[d]) => request[d].paying # c,
         \A d \in Requests \ {q} : request'[d] = request[d],
         \A e \in Challenges \ {c} : /\ claimed'[e] = claimed[e] /\ chain'[e] = chain[e]
                                     /\ delivered'[e] = delivered[e]
                                     /\ saving'[e] = saving[e]
                                     /\ Listed(e)' => Listed(e),
         UNCHANGED signed
  PROVE  \A d \in Requests \ {q} : RequestTruthful(request[d])'
<1> SUFFICES ASSUME NEW d \in Requests \ {q}  PROVE RequestTruthful(request[d])'
  OBVIOUS
<1>1. request'[d] = request[d] /\ RequestTruthful(request[d]) /\ (Working(request[d]) => request[d].paying # c)
  BY DEF MInv
<1>2. request[d].pc = "push" => Working(request[d])
  BY DEF Working, WorksAt
<1> HIDE DEF Listed
<1> QED  BY <1>1, <1>2 DEF RequestTruthful, Working

\* What the fields of a request are after a Goto.
LEMMA GotoFields ==
  ASSUME MInv, NEW q \in Requests, NEW pc \in Places, Goto(q, pc)
  PROVE  /\ request' \in [Requests -> RequestRecord]
         /\ \A d \in Requests \ {q} : request'[d] = request[d]
         /\ request'[q].pc = pc /\ request'[q].kind = request[q].kind
         /\ request'[q].resource = request[q].resource /\ request'[q].paying = request[q].paying
         /\ request'[q].status = request[q].status
<1>1. request \in [Requests -> RequestRecord]
  BY DEF MInv, Shapes
<1>2. request' = [request EXCEPT ![q] = [request[q] EXCEPT !.pc = pc]]
  BY DEF Goto
<1>3. [request[q] EXCEPT !.pc = pc] \in RequestRecord
  BY <1>1 DEF RequestRecord
<1> QED  BY <1>1, <1>2, <1>3 DEF RequestRecord

LEMMA EndFields ==
  ASSUME MInv, NEW q \in Requests, End(q)
  PROVE  /\ request' \in [Requests -> RequestRecord]
         /\ \A d \in Requests \ {q} : request'[d] = request[d]
         /\ request'[q] = IdleRequest
         /\ ~Working(IdleRequest) /\ IdleRequest.pc = "idle"
<1>1. IdleRequest \in RequestRecord /\ ~Working(IdleRequest) /\ IdleRequest.pc = "idle"
  BY DEF IdleRequest, RequestRecord, Places, Codes, Working, WorksAt
<1> QED  BY <1>1 DEF End, MInv, Shapes

\* The one who works on a challenge, and nobody else.
LEMMA WorkerFacts ==
  ASSUME MInv, NEW q \in Requests, Working(request[q])
  PROVE  /\ request[q].paying \in Challenges /\ request[q].resource \in Resources
         /\ signed[request[q].paying].resource = request[q].resource
         /\ claimed[request[q].paying] /\ delivered[request[q].paying] = <<>>
         /\ \A d \in Requests \ {q} : Working(request[d]) => request[d].paying # request[q].paying
BY DEF MInv, OneWorker, RequestTruthful, Working, WorksAt

\* The challenge is claimed by one request, before anything was bought with it.
LEMMA CasPreserves ==
  ASSUME MInv, NEW q \in Requests, Cas(q)
  PROVE  MInv'
<1> DEFINE c == request[q].paying
<1>0. /\ request[q] \in RequestRecord /\ request[q].pc = "cas"
      /\ c \in Challenges /\ request[q].resource \in Resources
      /\ signed[c].resource = request[q].resource
  BY DEF Cas, MInv, Shapes, RequestTruthful
<1>1. UNCHANGED <<buyer, signed, chain, receipts, listed, listLife, saving, delivered>>
  BY DEF Cas
<1>2. CASE ~AsRead(q)
  <2>1. Goto(q, "read") /\ UNCHANGED claimed
    BY <1>2 DEF Cas
  <2>2. request' = [request EXCEPT ![q] = [request[q] EXCEPT !.pc = "read", !.status = request[q].status]]
    <3>1. [request[q] EXCEPT !.pc = "read"] = [request[q] EXCEPT !.pc = "read", !.status = request[q].status]
      BY <1>0 DEF RequestRecord
    <3> QED  BY <2>1, <3>1 DEF Goto
  <2>3. request[q].status \in Codes
    BY <1>0 DEF RequestRecord
  <2> QED  BY <1>0, <1>1, <2>1, <2>2, <2>3, GotoPreserves DEF WorksAt
<1>3. CASE AsRead(q)
  <2>1. ~claimed[c] /\ claimed' = [claimed EXCEPT ![c] = TRUE] /\ (Goto(q, "pay") \/ End(q))
    BY <1>3 DEF Cas, AsRead, Claim
  <2>2. /\ request' \in [Requests -> RequestRecord]
        /\ \A d \in Requests \ {q} : request'[d] = request[d]
        /\ \/ request'[q] = IdleRequest
           \/ /\ request'[q].pc = "pay" /\ request'[q].paying = c
              /\ request'[q].resource = request[q].resource
    BY <2>1, GotoFields, EndFields DEF Places
  <2>3. /\ \A d \in Requests : Working(request[d]) => request[d].paying # c
        /\ saving[c] = "none" /\ delivered[c] = <<>>
    BY <1>0, <2>1 DEF MInv, RequestTruthful, Books
  <2>4. ~Working(IdleRequest) /\ IdleRequest.pc = "idle"
    BY DEF IdleRequest, Working, WorksAt
  <2>5. claimed' \in [Challenges -> BOOLEAN] /\ claimed'[c] /\ \A e \in Challenges \ {c} : claimed'[e] = claimed[e]
    BY <1>0, <2>1 DEF MInv, Shapes
  <2>6. Shapes'
    BY <1>1, <2>2, <2>5 DEF MInv, Shapes
  <2>7. Books' /\ ListOutlivesRecords' /\ SignedAsConfirmed'
    BY <1>1, <2>5 DEF MInv, Books, ListOutlivesRecords, SignedAsConfirmed
  <2>8. OneWorker'
    BY <2>2, <2>3, <2>4 DEF MInv, OneWorker, Working
  <2>9. RequestTruthful(request[q])'
    <3>1. CASE request'[q] = IdleRequest
      BY <2>4, <3>1 DEF RequestTruthful, Working
    <3>2. CASE request'[q].pc = "pay" /\ request'[q].paying = c /\ request'[q].resource = request[q].resource
      BY <1>0, <1>1, <2>3, <2>5, <3>2 DEF RequestTruthful, Working, WorksAt
    <3> QED  BY <2>2, <3>1, <3>2
  <2>10. \A d \in Requests \ {q} : RequestTruthful(request[d])'
    BY <1>0, <1>1, <2>2, <2>3, <2>5, OthersTruthful DEF Listed
  <2> QED  BY <2>6, <2>7, <2>8, <2>9, <2>10 DEF MInv
<1> QED  BY <1>2, <1>3

\* A transaction goes out for the challenge of the request that claimed it.
LEMMA SendPreserves ==
  ASSUME MInv, NEW q \in Requests, Send(q)
  PROVE  MInv'
<1> DEFINE c == request[q].paying
<1>0. request[q].pc = "pay" /\ Working(request[q]) /\ saving[c] = "none"
  BY DEF Send, MInv, RequestTruthful, Working, WorksAt
<1>1. /\ c \in Challenges /\ request[q].resource \in Resources
      /\ signed[c].resource = request[q].resource /\ claimed[c] /\ delivered[c] = <<>>
      /\ \A d \in Requests \ {q} : Working(request[d]) => request[d].paying # c
  BY <1>0, WorkerFacts
<1>2. UNCHANGED <<buyer, signed, claimed, receipts, listed, listLife, saving, delivered>>
  BY DEF Send
<1>3. /\ request' \in [Requests -> RequestRecord]
      /\ \A d \in Requests \ {q} : request'[d] = request[d]
      /\ request'[q].pc = "wait" /\ request'[q].paying = c /\ request'[q].resource = request[q].resource
  BY GotoFields DEF Send, Places
<1>4. /\ chain' \in [Challenges -> {"none", "sent", "done", "failed"}]
      /\ \A e \in Challenges \ {c} : chain'[e] = chain[e]
      /\ \A e \in Challenges : chain[e] = "done" => chain'[e] = "done"
  BY <1>1 DEF Send, MInv, Shapes
<1>5. Shapes'
  BY <1>2, <1>3, <1>4 DEF MInv, Shapes
<1>6. Books' /\ ListOutlivesRecords' /\ SignedAsConfirmed'
  BY <1>2, <1>4 DEF MInv, Books, ListOutlivesRecords, SignedAsConfirmed
<1>7. OneWorker'
  BY <1>0, <1>3 DEF MInv, OneWorker, Working
<1>8. RequestTruthful(request[q])'
  BY <1>0, <1>1, <1>2, <1>3 DEF RequestTruthful, Working, WorksAt
<1>9. \A d \in Requests \ {q} : RequestTruthful(request[d])'
  BY <1>1, <1>2, <1>3, <1>4, OthersTruthful DEF Listed
<1> QED  BY <1>5, <1>6, <1>7, <1>8, <1>9 DEF MInv

\* The record is saved by the one who works on its challenge, once.
LEMMA SavePreserves ==
  ASSUME MInv, NEW q \in Requests, Save(q)
  PROVE  MInv'
<1> DEFINE c == request[q].paying
<1>0. /\ request[q].pc = "save" /\ Working(request[q]) /\ saving[c] = "none" /\ chain[c] = "done"
      /\ request[q].kind = "risk"
  BY DEF Save, MInv, RequestTruthful, Working, WorksAt
<1>1. /\ c \in Challenges /\ request[q].resource \in Resources
      /\ signed[c].resource = request[q].resource /\ claimed[c] /\ delivered[c] = <<>>
      /\ \A d \in Requests \ {q} : Working(request[d]) => request[d].paying # c
  BY <1>0, WorkerFacts
<1>2. /\ UNCHANGED <<buyer, signed, chain, claimed, listed, listLife, delivered>>
      /\ receipts' \in [Challenges -> 0 .. Lifetime] /\ saving' \in [Challenges -> {"none", "record", "done"}]
      /\ saving'[c] = "record"
      /\ \A e \in Challenges \ {c} : receipts'[e] = receipts[e] /\ saving'[e] = saving[e]
  BY <1>1, LifetimeAssumption DEF Save, MInv, Shapes
<1>3. /\ request' \in [Requests -> RequestRecord]
      /\ \A d \in Requests \ {q} : request'[d] = request[d]
      /\ request'[q].pc = "push" /\ request'[q].paying = c /\ request'[q].resource = request[q].resource
      /\ request'[q].kind = request[q].kind
  BY GotoFields DEF Save, Places
<1>4. Shapes'
  BY <1>1, <1>2, <1>3 DEF MInv, Shapes
<1>5. Books' /\ SignedAsConfirmed'
  BY <1>0, <1>1, <1>2 DEF MInv, Books, SignedAsConfirmed
<1>a. ListOutlivesRecords'
  <2>1. ASSUME NEW i \in 1 .. Len(listed)
        PROVE  /\ saving'[listed[i]] # "none"
               /\ saving'[listed[i]] = "done" => receipts'[listed[i]] <= listLife
    <3>1. listed[i] \in Challenges \ {c}
      <4>1. listed[i] \in Challenges
        BY DEF MInv, Shapes
      <4>2. saving[listed[i]] # "none" /\ saving[c] = "none"
        BY <1>0 DEF MInv, ListOutlivesRecords
      <4> QED  BY <4>1, <4>2
    <3>2. saving'[listed[i]] = saving[listed[i]] /\ receipts'[listed[i]] = receipts[listed[i]]
      BY <1>2, <3>1
    <3> QED  BY <3>2 DEF MInv, ListOutlivesRecords
  <2> QED  BY <1>2, <2>1 DEF MInv, ListOutlivesRecords
<1>6. OneWorker'
  BY <1>0, <1>3 DEF MInv, OneWorker, Working
<1>7. ~Listed(c)
  BY <1>0 DEF MInv, ListOutlivesRecords, Listed
<1>8. RequestTruthful(request[q])'
  BY <1>0, <1>1, <1>2, <1>3, <1>7 DEF RequestTruthful, Working, WorksAt, Listed
<1>9. \A d \in Requests \ {q} : RequestTruthful(request[d])'
  BY <1>1, <1>2, <1>3, OthersTruthful DEF Listed
<1> QED  BY <1>4, <1>5, <1>6, <1>8, <1>9, <1>a DEF MInv

LEMMA InFront ==
  ASSUME NEW S, NEW s \in Seq(S), NEW c \in S, NEW t, t = <<c>> \o s
  PROVE  /\ t \in Seq(S) /\ Len(t) = Len(s) + 1 /\ t[1] = c
         /\ \A j \in 2 .. Len(t) : j - 1 \in 1 .. Len(s) /\ t[j] = s[j - 1]
OBVIOUS

LEMMA PushPreserves ==
  ASSUME MInv, NEW q \in Requests, Push(q)
  PROVE  MInv'
<1> DEFINE c == request[q].paying
<1>0. /\ request[q].pc = "push" /\ Working(request[q]) /\ saving[c] = "record" /\ chain[c] = "done"
      /\ request[q].kind = "risk" /\ ~Listed(c)
  BY DEF Push, MayPush, MInv, RequestTruthful, Working, WorksAt
<1>1. /\ c \in Challenges /\ request[q].resource \in Resources
      /\ signed[c].resource = request[q].resource /\ claimed[c] /\ delivered[c] = <<>>
      /\ \A d \in Requests \ {q} : Working(request[d]) => request[d].paying # c
  BY <1>0, WorkerFacts
<1>2. UNCHANGED <<buyer, signed, chain, claimed, receipts, listLife, saving, delivered>> /\ listed' = <<c>> \o listed
  BY DEF Push
<1>3. /\ request' \in [Requests -> RequestRecord]
      /\ \A d \in Requests \ {q} : request'[d] = request[d]
      /\ request'[q].pc = "trim" /\ request'[q].paying = c /\ request'[q].resource = request[q].resource
      /\ request'[q].kind = request[q].kind
  BY GotoFields DEF Push, Places
<1>a. listed \in Seq(Challenges) /\ Len(listed) \in Nat
  BY DEF MInv, Shapes
<1>b. /\ listed' \in Seq(Challenges) /\ Len(listed') = Len(listed) + 1 /\ listed'[1] = c
      /\ \A j \in 2 .. Len(listed') : j - 1 \in 1 .. Len(listed) /\ listed'[j] = listed[j - 1]
  BY <1>1, <1>2, <1>a, InFront
<1>4. Shapes'
  BY <1>2, <1>3, <1>b DEF MInv, Shapes
<1>5. Books' /\ SignedAsConfirmed'
  BY <1>2 DEF MInv, Books, SignedAsConfirmed
<1>6. ListOutlivesRecords'
  <2>0. \A j \in 1 .. Len(listed') : j = 1 \/ j \in 2 .. Len(listed')
    BY <1>a, <1>b
  <2>1. \A i \in 1 .. Len(listed') :
          /\ saving'[listed'[i]] # "none"
          /\ saving'[listed'[i]] = "done" => receipts'[listed'[i]] <= listLife'
    BY <1>0, <1>2, <1>b, <2>0 DEF MInv, ListOutlivesRecords
  <2>2. \A i \in 2 .. Len(listed') : listed'[i] # c
    BY <1>0, <1>b DEF Listed
  <2>3. \A i, j \in 2 .. Len(listed') : listed'[i] = listed'[j] => i = j
    <3>1. ASSUME NEW i \in 2 .. Len(listed'), NEW j \in 2 .. Len(listed'), listed'[i] = listed'[j]  PROVE i = j
      <4>1. i - 1 \in 1 .. Len(listed) /\ j - 1 \in 1 .. Len(listed) /\ listed[i - 1] = listed[j - 1]
        BY <1>b, <3>1
      <4>2. i - 1 = j - 1
        BY <4>1 DEF MInv, ListOutlivesRecords
      <4> QED  BY <1>a, <1>b, <4>2
    <3> QED  BY <3>1
  <2>4. \A i, j \in 1 .. Len(listed') : listed'[i] = listed'[j] => i = j
    BY <1>b, <2>0, <2>2, <2>3
  <2> QED  BY <2>1, <2>4 DEF ListOutlivesRecords
<1>7. OneWorker'
  BY <1>0, <1>3 DEF MInv, OneWorker, Working
<1>8. RequestTruthful(request[q])'
  BY <1>0, <1>1, <1>2, <1>3 DEF RequestTruthful, Working, WorksAt
<1>9. \A d \in Requests \ {q} : RequestTruthful(request[d])'
  <2>1. ASSUME NEW e \in Challenges \ {c}, Listed(e)'  PROVE Listed(e)
    <3>1. PICK i \in 1 .. Len(listed') : listed'[i] = e
      BY <2>1 DEF Listed
    <3>2. i # 1 /\ i \in 2 .. Len(listed')
      BY <1>a, <1>b, <3>1
    <3> QED  BY <1>b, <3>1, <3>2 DEF Listed
  <2> QED  BY <1>1, <1>2, <1>3, <2>1, OthersTruthful
<1> QED  BY <1>4, <1>5, <1>6, <1>7, <1>8, <1>9 DEF MInv

LEMMA FrontOf ==
  ASSUME NEW S, NEW s \in Seq(S), NEW n \in Nat, Len(s) > n
  PROVE  /\ SubSeq(s, 1, n) \in Seq(S) /\ Len(SubSeq(s, 1, n)) = n
         /\ \A i \in 1 .. n : SubSeq(s, 1, n)[i] = s[i]
OBVIOUS

LEMMA TrimPreserves ==
  ASSUME MInv, NEW q \in Requests, Trim(q)
  PROVE  MInv'
<1> DEFINE c == request[q].paying
<1>0. /\ request[q].pc = "trim" /\ Working(request[q]) /\ chain[c] = "done" /\ request[q].kind = "risk"
  BY DEF Trim, MInv, RequestTruthful, Working, WorksAt
<1>1. /\ c \in Challenges /\ request[q].resource \in Resources
      /\ signed[c].resource = request[q].resource /\ claimed[c] /\ delivered[c] = <<>>
      /\ \A d \in Requests \ {q} : Working(request[d]) => request[d].paying # c
  BY <1>0, WorkerFacts
<1>2. UNCHANGED <<buyer, signed, chain, claimed, receipts, listLife, saving, delivered>>
  BY DEF Trim
<1>3. /\ request' \in [Requests -> RequestRecord]
      /\ \A d \in Requests \ {q} : request'[d] = request[d]
      /\ request'[q].pc = "renew" /\ request'[q].paying = c /\ request'[q].resource = request[q].resource
      /\ request'[q].kind = request[q].kind
  BY GotoFields DEF Trim, Places
<1>a. /\ listed' \in Seq(Challenges) /\ Len(listed') \in 0 .. Len(listed) /\ Len(listed) \in Nat
      /\ \A i \in 1 .. Len(listed') : i \in 1 .. Len(listed) /\ listed'[i] = listed[i]
  <2>1. listed \in Seq(Challenges) /\ Keep \in Nat
    BY KeepAssumption DEF MInv, Shapes
  <2>2. CASE Len(listed) > Keep
    <3>1. listed' = SubSeq(listed, 1, Keep)
      BY <2>2 DEF Trim
    <3> QED  BY <2>1, <2>2, <3>1, FrontOf
  <2>3. CASE ~(Len(listed) > Keep)
    <3>1. listed' = listed
      BY <2>3 DEF Trim
    <3> QED  BY <2>1, <3>1
  <2> QED  BY <2>2, <2>3
<1>4. Shapes'
  BY <1>2, <1>3, <1>a DEF MInv, Shapes
<1>5. Books' /\ SignedAsConfirmed'
  BY <1>2 DEF MInv, Books, SignedAsConfirmed
<1>6. ListOutlivesRecords'
  BY <1>2, <1>a DEF MInv, ListOutlivesRecords
<1>7. OneWorker'
  BY <1>0, <1>3 DEF MInv, OneWorker, Working
<1>8. RequestTruthful(request[q])'
  BY <1>0, <1>1, <1>2, <1>3 DEF RequestTruthful, Working, WorksAt
<1>9. \A d \in Requests \ {q} : RequestTruthful(request[d])'
  <2>1. ASSUME NEW e \in Challenges, Listed(e)'  PROVE Listed(e)
    BY <1>a, <2>1 DEF Listed
  <2> QED  BY <1>1, <1>2, <1>3, <2>1, OthersTruthful
<1> QED  BY <1>4, <1>5, <1>6, <1>7, <1>8, <1>9 DEF MInv

\* The list is given a whole lifetime, and no record has more.
LEMMA RenewPreserves ==
  ASSUME MInv, NEW q \in Requests, Renew(q)
  PROVE  MInv'
<1> DEFINE c == request[q].paying
<1>0. request[q].pc = "renew" /\ Working(request[q]) /\ chain[c] = "done"
  BY DEF Renew, MInv, RequestTruthful, Working, WorksAt
<1>1. /\ c \in Challenges /\ request[q].resource \in Resources
      /\ signed[c].resource = request[q].resource /\ claimed[c] /\ delivered[c] = <<>>
      /\ \A d \in Requests \ {q} : Working(request[d]) => request[d].paying # c
  BY <1>0, WorkerFacts
<1>2. /\ UNCHANGED <<buyer, signed, chain, claimed, receipts, listed, delivered>>
      /\ listLife' \in 0 .. Lifetime /\ (listed # <<>> => listLife' = Lifetime)
      /\ saving' \in [Challenges -> {"none", "record", "done"}]
      /\ saving'[c] = "done" /\ \A e \in Challenges \ {c} : saving'[e] = saving[e]
  BY <1>1, LifetimeAssumption DEF Renew, Renewed, MInv, Shapes
<1>3. /\ request' \in [Requests -> RequestRecord]
      /\ \A d \in Requests \ {q} : request'[d] = request[d]
      /\ request'[q].pc = "answer" /\ request'[q].paying = c /\ request'[q].resource = request[q].resource
  BY GotoFields DEF Renew, Places
<1>4. Shapes'
  BY <1>2, <1>3 DEF MInv, Shapes
<1>5. Books' /\ SignedAsConfirmed'
  BY <1>0, <1>1, <1>2 DEF MInv, Books, SignedAsConfirmed
<1>6. ListOutlivesRecords'
  <2>1. ASSUME NEW i \in 1 .. Len(listed)
        PROVE  /\ saving'[listed[i]] # "none"
               /\ receipts[listed[i]] <= listLife'
    <3>1. listed \in Seq(Challenges) /\ listed[i] \in Challenges /\ listed # <<>>
      BY DEF MInv, Shapes
    <3>2. receipts[listed[i]] \in 0 .. Lifetime
      BY <3>1 DEF MInv, Shapes
    <3>3. receipts[listed[i]] <= listLife'
      BY <1>2, <3>1, <3>2, LifetimeAssumption
    <3> QED  BY <1>2, <3>1, <3>3 DEF MInv, ListOutlivesRecords
  <2> QED  BY <1>2, <2>1 DEF MInv, ListOutlivesRecords
<1>7. OneWorker'
  BY <1>0, <1>3 DEF MInv, OneWorker, Working
<1>8. RequestTruthful(request[q])'
  BY <1>0, <1>1, <1>2, <1>3 DEF RequestTruthful, Working, WorksAt
<1>9. \A d \in Requests \ {q} : RequestTruthful(request[d])'
  BY <1>1, <1>2, <1>3, OthersTruthful DEF Listed
<1> QED  BY <1>4, <1>5, <1>6, <1>7, <1>8, <1>9 DEF MInv

LEMMA DeliverPreserves ==
  ASSUME MInv, NEW q \in Requests, Deliver(q)
  PROVE  MInv'
<1> DEFINE c == request[q].paying
<1>0. /\ request[q].pc = "answer" /\ Working(request[q]) /\ chain[c] = "done"
  BY DEF Deliver, MInv, RequestTruthful, Working, WorksAt
<1>1. /\ c \in Challenges /\ request[q].resource \in Resources
      /\ signed[c].resource = request[q].resource /\ claimed[c] /\ delivered[c] = <<>>
      /\ \A d \in Requests \ {q} : Working(request[d]) => request[d].paying # c
  BY <1>0, WorkerFacts
<1>2. UNCHANGED <<buyer, signed, chain, claimed, receipts, listed, listLife, saving>>
  BY DEF Deliver
<1>3. /\ request' \in [Requests -> RequestRecord]
      /\ \A d \in Requests \ {q} : request'[d] = request[d]
      /\ request'[q] = IdleRequest /\ ~Working(IdleRequest) /\ IdleRequest.pc = "idle"
  BY EndFields DEF Deliver
<1>4. /\ delivered' \in [Challenges -> Seq(Resources)]
      /\ delivered'[c] = <<signed[c].resource>>
      /\ \A e \in Challenges \ {c} : delivered'[e] = delivered[e]
  <2>1. delivered' = [delivered EXCEPT ![c] = Append(delivered[c], request[q].resource)]
    BY DEF Deliver
  <2>2. Append(delivered[c], request[q].resource) = <<signed[c].resource>>
    BY <1>1
  <2>3. <<signed[c].resource>> \in Seq(Resources)
    BY <1>1
  <2> QED  BY <1>1, <2>1, <2>2, <2>3 DEF MInv, Shapes
<1>5. Shapes'
  BY <1>2, <1>3, <1>4 DEF MInv, Shapes
<1>6. Books' /\ ListOutlivesRecords' /\ SignedAsConfirmed'
  <2>1. signed[c] # Unsigned
    BY <1>1, UnsignedIsNone, NoneAssumption
  <2>2. Books'
    BY <1>0, <1>1, <1>2, <1>4, <2>1 DEF MInv, Books
  <2> QED  BY <1>2, <2>2 DEF MInv, ListOutlivesRecords, SignedAsConfirmed
<1>7. OneWorker'
  BY <1>3 DEF MInv, OneWorker, Working
<1>8. RequestTruthful(request[q])'
  BY <1>3 DEF RequestTruthful, Working
<1>9. \A d \in Requests \ {q} : RequestTruthful(request[d])'
  <2>1. \A e \in Challenges : Listed(e)' <=> Listed(e)
    BY <1>2 DEF Listed
  <2> HIDE DEF c
  <2> QED  BY <1>1, <1>2, <1>3, <1>4, <2>1, OthersTruthful
<1> QED  BY <1>5, <1>6, <1>7, <1>8, <1>9 DEF MInv

-----------------------------------------------------------------------------
(* Steps of the buyer, and of the chain *)

LEMMA LandPreserves ==
  ASSUME MInv, NEW c \in Challenges, Land(c)
  PROVE  MInv'
<1>1. /\ UNCHANGED <<buyer, signed, claimed, request, receipts, listed, listLife, saving, delivered>>
      /\ chain' \in [Challenges -> {"none", "sent", "done", "failed"}]
      /\ \A e \in Challenges : chain[e] = "done" => chain'[e] = "done"
  BY DEF Land, MInv, Shapes
<1>2. Shapes' /\ Books' /\ ListOutlivesRecords' /\ SignedAsConfirmed' /\ OneWorker'
  BY <1>1 DEF MInv, Shapes, Books, ListOutlivesRecords, SignedAsConfirmed, OneWorker
<1>3. \A q \in Requests : RequestTruthful(request[q])'
  BY <1>1 DEF MInv, RequestTruthful, Listed
<1> QED  BY <1>2, <1>3 DEF MInv

\* What is signed is what was confirmed, or less of it.
LEMMA SignPreserves ==
  ASSUME MInv, NEW c \in Challenges, NEW r \in Resources, Sign(c, r)
  PROVE  MInv'
<1>1. PICK offer \in Offers :
        /\ AsConfirmed(offer)
        /\ signed' = [signed EXCEPT ![c] = [resource |-> r, offer |-> offer, confirmed |-> buyer]]
  BY DEF Sign
<1>2. /\ buyer \in Offers /\ Acceptable(buyer) /\ buyer' = NoOffer /\ signed[c] = Unsigned
      /\ UNCHANGED <<chain, claimed, request, receipts, listed, listLife, saving, delivered>>
  BY DEF Sign, MInv, Shapes
<1> DEFINE s == [resource |-> r, offer |-> offer, confirmed |-> buyer]
<1>3. s \in Signature /\ s # Unsigned /\ s.offer = offer /\ s.confirmed = buyer /\ s.resource = r
  BY <1>2, UnsignedIsNone DEF Signature
<1>4. signed' = [signed EXCEPT ![c] = s]
  BY <1>1
<1> HIDE DEF s
<1>5. \A e \in Challenges : signed'[e] = IF e = c THEN s ELSE signed[e]
  BY <1>4 DEF MInv, Shapes
<1>6. Shapes'
  BY <1>2, <1>3, <1>4 DEF MInv, Shapes
<1>7. Books'
  BY <1>2, <1>5 DEF MInv, Books
<1>8. SignedAsConfirmed'
  <2>1. /\ s.offer.to = "merchant" /\ s.offer.amount <= s.confirmed.amount
        /\ s.confirmed.amount <= MaxAmount
    BY <1>1, <1>2, <1>3 DEF AsConfirmed, Acceptable
  <2> QED  BY <1>5, <2>1 DEF MInv, SignedAsConfirmed
<1>9. \A q \in Requests : RequestTruthful(request[q])'
  <2>1. ASSUME NEW q \in Requests, request[q].paying \in Challenges,
               signed[request[q].paying].resource = request[q].resource, request[q].resource \in Resources
        PROVE  signed'[request[q].paying] = signed[request[q].paying]
    BY <1>2, <1>5, <2>1, UnsignedIsNone, NoneAssumption
  <2>2. ASSUME NEW q \in Requests  PROVE RequestTruthful(request[q])'
    <3>1. RequestTruthful(request[q])
      BY DEF MInv
    <3>2. request[q].pc \in {"read", "cas"} \/ Working(request[q]) => request[q].resource \in Resources
      BY <3>1 DEF RequestTruthful, Working, WorksAt
    <3> HIDE DEF Listed
    <3>3. request[q].pc \in {"read", "cas"} \/ Working(request[q]) =>
            signed'[request[q].paying].resource = request[q].resource
      BY <2>1, <3>1, <3>2 DEF RequestTruthful
    <3> QED  BY <1>2, <3>1, <3>3 DEF RequestTruthful, Working, Listed
  <2> QED  BY <2>2
<1> QED  BY <1>2, <1>6, <1>7, <1>8, <1>9 DEF MInv, ListOutlivesRecords, OneWorker

\* The buyer confirms or cancels, or nothing happens.
LEMMA QuietPreserves ==
  ASSUME MInv, buyer' \in Offers \cup {NoOffer}, buyer' # NoOffer => Acceptable(buyer'),
         UNCHANGED <<signed, chain, claimed, request, receipts, listed, listLife, saving, delivered>>
  PROVE  MInv'
<1>1. Shapes' /\ Books' /\ ListOutlivesRecords' /\ SignedAsConfirmed' /\ OneWorker'
  BY DEF MInv, Shapes, Books, ListOutlivesRecords, SignedAsConfirmed, OneWorker, Acceptable
<1>2. \A q \in Requests : RequestTruthful(request[q])'
  BY DEF MInv, RequestTruthful, Listed
<1> QED  BY <1>1, <1>2 DEF MInv

\* A record that had no more days than the list still has no more, or the
\* list is gone.
LEMMA DayPreserves ==
  ASSUME MInv, Day
  PROVE  MInv'
<1>1. /\ UNCHANGED <<buyer, signed, chain, claimed, request, saving, delivered>>
      /\ receipts' = [c \in Challenges |-> OneLess(receipts[c])]
      /\ listLife' = OneLess(listLife)
      /\ listed' = <<>> \/ listed' = listed
  BY DEF Day
<1>2. \A n \in 0 .. Lifetime : OneLess(n) \in 0 .. Lifetime
  BY LifetimeAssumption DEF OneLess
<1>3. \A m, n \in 0 .. Lifetime : m <= n => OneLess(m) <= OneLess(n)
  BY LifetimeAssumption DEF OneLess
<1>4. /\ receipts' \in [Challenges -> 0 .. Lifetime] /\ listLife' \in 0 .. Lifetime
      /\ listed' \in Seq(Challenges)
  BY <1>1, <1>2, EmptyList DEF MInv, Shapes
<1>5. Shapes' /\ Books' /\ SignedAsConfirmed' /\ OneWorker'
  BY <1>1, <1>4 DEF MInv, Shapes, Books, SignedAsConfirmed, OneWorker
<1>6. ListOutlivesRecords'
  <2>1. CASE listed' = <<>>
    BY <2>1, EmptyList DEF ListOutlivesRecords
  <2>2. CASE listed' = listed
    <3>1. ASSUME NEW i \in 1 .. Len(listed)
          PROVE  /\ saving[listed[i]] # "none"
                 /\ saving[listed[i]] = "done" => receipts'[listed[i]] <= listLife'
      <4>1. listed[i] \in Challenges /\ receipts[listed[i]] \in 0 .. Lifetime /\ listLife \in 0 .. Lifetime
        BY DEF MInv, Shapes
      <4>2. receipts'[listed[i]] = OneLess(receipts[listed[i]])
        BY <1>1, <4>1
      <4>3. saving[listed[i]] = "done" => receipts'[listed[i]] <= listLife'
        BY <1>1, <1>3, <4>1, <4>2 DEF MInv, ListOutlivesRecords
      <4> QED  BY <4>3 DEF MInv, ListOutlivesRecords
    <3> QED  BY <1>1, <2>2, <3>1 DEF MInv, ListOutlivesRecords
  <2> QED  BY <1>1, <2>1, <2>2
<1>7. \A q \in Requests : RequestTruthful(request[q])'
  <2>1. \A c \in Challenges : Listed(c)' => Listed(c)
    BY <1>1, EmptyList DEF Listed
  <2>2. ASSUME NEW q \in Requests  PROVE RequestTruthful(request[q])'
    <3>1. RequestTruthful(request[q]) /\ (request[q].pc = "push" => Working(request[q]))
      BY DEF MInv, Working, WorksAt
    <3> HIDE DEF Listed
    <3> QED  BY <1>1, <2>1, <3>1 DEF RequestTruthful, Working
  <2> QED  BY <2>2
<1> QED  BY <1>5, <1>6, <1>7 DEF MInv

LEMMA MInvStep == MInv /\ [Next]_vars => MInv'
<1> SUFFICES ASSUME MInv, [Next]_vars  PROVE MInv'
  OBVIOUS
<1>0. buyer \in Offers \cup {NoOffer} /\ (buyer # NoOffer => Acceptable(buyer))
  BY DEF MInv, Shapes
<1>1. CASE Confirm
  <2>1. PICK offer \in Offers : Acceptable(offer) /\ buyer' = offer
    BY <1>1 DEF Confirm
  <2>2. UNCHANGED <<signed, chain, claimed, request, receipts, listed, listLife, saving, delivered>>
    BY <1>0, <1>1 DEF Confirm
  <2> QED  BY <2>1, <2>2, QuietPreserves
<1>2. CASE Cancel
  BY <1>0, <1>2, QuietPreserves DEF Cancel
<1>3. CASE UNCHANGED vars
  <2>1. buyer' \in Offers \cup {NoOffer} /\ (buyer' # NoOffer => Acceptable(buyer'))
    BY <1>0, <1>3 DEF vars, Acceptable
  <2> QED  BY <1>3, <2>1, QuietPreserves DEF vars
<1> QED
  BY <1>1, <1>2, <1>3, LandPreserves, SignPreserves, StartPreserves, QuietRequestsPreserve, CasPreserves,
     SendPreserves, SavePreserves, PushPreserves, TrimPreserves, RenewPreserves, DayPreserves,
     DeliverPreserves DEF Next

LEMMA SpecMInv == Spec => []MInv
BY MInvInit, MInvStep, PTL DEF Spec

-----------------------------------------------------------------------------
(* The properties *)

\* Types, and that only the risk endpoint goes through the steps of
\* saveReceipt.
THEOREM TypeCorrect == Spec => []TypeOK
<1>1. MInv => TypeOK
  <2> SUFFICES ASSUME MInv  PROVE TypeOK
    OBVIOUS
  <2>1. ASSUME NEW c \in Challenges, signed[c] # Unsigned
        PROVE  signed[c].resource \in Resources /\ signed[c].offer \in Offers
    BY <2>1 DEF MInv, Shapes, Signature
  <2>2. ASSUME NEW q \in Requests
        PROVE  /\ request[q].status \in {0, 200, 402}
               /\ request[q].pc \in {"save", "push", "trim", "renew"} => request[q].kind = "risk"
    BY DEF MInv, Shapes, RequestRecord, Codes, RequestTruthful
  <2> QED  BY <2>1, <2>2 DEF TypeOK, MInv, Shapes
<1> QED  BY <1>1, SpecMInv, PTL

\* What the buyer's script signs pays the merchant, no more than was
\* confirmed and than the limit (createClient, onProgress).
THEOREM SignedAsConfirmedHolds == Spec => []SignedAsConfirmed
<1>1. MInv => SignedAsConfirmed
  BY DEF MInv
<1> QED  BY <1>1, SpecMInv, PTL

\* A credential buys one report at most, of the resource it was signed for,
\* however many requests carry it at the same time
\* (createAtomicRedisAdapter, handleRiskRequest).
THEOREM ChargeBuysOneReportHolds == Spec => []ChargeBuysOneReport
<1>1. MInv => ChargeBuysOneReport
  BY DEF MInv, Books, ChargeBuysOneReport
<1> QED  BY <1>1, SpecMInv, PTL

\* What is saved, shown as verified or handed out was paid, on a challenge
\* that is used.
THEOREM ReceiptsArePaidHolds == Spec => []ReceiptsArePaid
<1>1. MInv => ReceiptsArePaid
  BY DEF MInv, Books, ListOutlivesRecords, ReceiptsArePaid, Verified, Shown
<1> QED  BY <1>1, SpecMInv, PTL

\* The public list names each receipt once, only after its record was
\* written, and lasts as long as the records that went through all of
\* saveReceipt, whatever the interleaving of its four writes and of the days
\* that pass between them (RECEIPT_TTL_SECONDS).
THEOREM ListOutlivesRecordsHolds == Spec => []ListOutlivesRecords
<1>1. MInv => ListOutlivesRecords
  BY DEF MInv
<1> QED  BY <1>1, SpecMInv, PTL
=============================================================================
