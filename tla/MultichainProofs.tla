-------------------------- MODULE MultichainProofs --------------------------
(***************************************************************************)
(* Proofs about the bridge and the paid Base report, for any number of     *)
(* bridges, burns, payments and requests and any number of rounds of       *)
(* update: that a payment buys one report, that what is shown as settled   *)
(* is on the chains, and that the bridge implements its life as one        *)
(* transfer.                                                               *)
(***************************************************************************)
EXTENDS Multichain, TLAPS

-----------------------------------------------------------------------------
(* The paid Base report *)

AskRecord == [pc : {"idle", "verify", "settle", "confirm", "record", "answer"},
              payment : SUBSET Payments, id : SUBSET Payments, report : BOOLEAN]

\* A request carries one payment and one id; the endpoint's own requests
\* make the id of the payment.
OnePayment(a) ==
  ask[a].pc # "idle" =>
    \E p, i \in Payments : ask[a].payment = {p} /\ ask[a].id = {i} /\ (ask[a].report => i = p)

\* What a request has found out about its payment stays true.
AskTruthful(a) ==
  /\ ask[a].pc \in {"record", "answer"} => \A p \in ask[a].payment : transfer[p] = "mined"
  /\ ask[a].pc = "answer" =>
       /\ ask[a].report
       /\ \A p \in ask[a].payment : <<p, p>> \in settlement /\ delivered[p] = 0

\* One request at most is about to answer with the report of a payment.
OneAnswer ==
  \A a, b \in Asks : ask[a].pc = "answer" /\ ask[b].pc = "answer" /\ ask[a].payment = ask[b].payment => a = b

XInv ==
  /\ PaymentTypes
  /\ ask \in [Asks -> AskRecord]
  /\ delivered \in [Payments -> {0, 1}]
  /\ \A a \in Asks : OnePayment(a) /\ AskTruthful(a)
  /\ OneAnswer
  /\ SettlementsArePaid

LEMMA XInvInit == XInit /\ enabled \in BOOLEAN => XInv
BY DEF XInit, XInv, PaymentTypes, AskRecord, OnePayment, AskTruthful, OneAnswer, SettlementsArePaid, IdleAsk

\* A step that leaves the records of settlements and deliveries alone, after
\* which mined transfers are mined, and which changes one request to one that
\* is not about to answer.
LEMMA QuietAsk ==
  ASSUME XInv, NEW a \in Asks, NEW r \in AskRecord,
         ask' = [ask EXCEPT ![a] = r],
         r.pc # "answer",
         r.pc # "idle" => \E p, i \in Payments : r.payment = {p} /\ r.id = {i} /\ (r.report => i = p),
         r.pc = "record" => \A p \in r.payment : transfer'[p] = "mined",
         transfer' \in [Payments -> {"none", "pending", "mined", "failed"}],
         \A p \in Payments : transfer[p] = "mined" => transfer'[p] = "mined",
         UNCHANGED <<enabled, settlement, delivered>>
  PROVE  XInv'
<1>1. PaymentTypes' /\ ask' \in [Asks -> AskRecord] /\ delivered' \in [Payments -> {0, 1}]
  BY DEF XInv, PaymentTypes, AskRecord
<1>2. ASSUME NEW b \in Asks  PROVE OnePayment(b)' /\ AskTruthful(b)'
  <2>1. CASE b = a
    BY <2>1 DEF XInv, OnePayment, AskTruthful
  <2>2. CASE b # a
    <3>1. ask'[b] = ask[b] /\ ask[b].payment \subseteq Payments
      BY <2>2 DEF XInv, AskRecord
    <3> QED  BY <3>1 DEF XInv, OnePayment, AskTruthful
  <2> QED  BY <2>1, <2>2
<1>3. OneAnswer'
  BY DEF XInv, OneAnswer
<1>4. SettlementsArePaid'
  BY DEF XInv, SettlementsArePaid, PaymentTypes
<1> QED  BY <1>1, <1>2, <1>3, <1>4 DEF XInv

\* Mine, CloseRail and stuttering: no request changes.
LEMMA QuietChain ==
  ASSUME XInv,
         enabled' \in BOOLEAN,
         transfer' \in [Payments -> {"none", "pending", "mined", "failed"}],
         \A p \in Payments : transfer[p] = "mined" => transfer'[p] = "mined",
         UNCHANGED <<settlement, ask, delivered>>
  PROVE  XInv'
<1>1. ASSUME NEW a \in Asks  PROVE OnePayment(a)' /\ AskTruthful(a)'
  <2>1. ask[a].payment \subseteq Payments
    BY DEF XInv, AskRecord
  <2> QED  BY <2>1 DEF XInv, OnePayment, AskTruthful
<1> QED  BY <1>1 DEF XInv, PaymentTypes, OneAnswer, SettlementsArePaid

\* The record is written for an id without one: nobody can have answered for
\* the payment yet, or be about to.
LEMMA RecordSettlementPreserves ==
  ASSUME XInv, NEW a \in Asks, RecordSettlement(a)
  PROVE  XInv'
<1>1. PICK p \in Payments, i \in Payments :
        ask[a].payment = {p} /\ ask[a].id = {i} /\ (ask[a].report => i = p)
  BY DEF XInv, OnePayment, RecordSettlement
<1>2. /\ settlement' = settlement \cup {<<i, p>>}
      /\ transfer[p] = "mined"
      /\ UNCHANGED <<enabled, transfer, delivered>>
      /\ \A s \in settlement : s[1] # i
  BY <1>1 DEF RecordSettlement, Recordable, XInv, AskTruthful
<1>3. PaymentTypes' /\ delivered' \in [Payments -> {0, 1}] /\ SettlementsArePaid'
  BY <1>2 DEF XInv, PaymentTypes, SettlementsArePaid, RecordSettlement, Go, Leave, AskRecord, IdleAsk
<1>4. CASE ask[a].report
  <2>1. ask' = [ask EXCEPT ![a].pc = "answer"] /\ i = p
    BY <1>1, <1>4 DEF RecordSettlement, Go
  <2>2. delivered[p] = 0 /\ \A b \in Asks : ask[b].pc = "answer" => ask[b].payment # {p}
    <3>1. <<p, p>> \notin settlement
      BY <1>2, <2>1
    <3> QED  BY <3>1 DEF XInv, SettlementsArePaid, AskTruthful
  <2>3. ask' \in [Asks -> AskRecord]
    BY <2>1 DEF XInv, AskRecord
  <2>4. ASSUME NEW b \in Asks  PROVE OnePayment(b)' /\ AskTruthful(b)'
    BY <1>1, <1>2, <1>4, <2>1, <2>2 DEF XInv, OnePayment, AskTruthful, AskRecord
  <2>5. OneAnswer'
    BY <1>1, <2>1, <2>2 DEF XInv, OneAnswer, AskRecord
  <2> QED  BY <1>3, <2>3, <2>4, <2>5 DEF XInv
<1>5. CASE ~ask[a].report
  <2>1. ask' = [ask EXCEPT ![a] = IdleAsk]
    BY <1>5 DEF RecordSettlement, Leave
  <2>2. ASSUME NEW b \in Asks  PROVE OnePayment(b)' /\ AskTruthful(b)'
    BY <1>2, <2>1 DEF XInv, OnePayment, AskTruthful, AskRecord, IdleAsk
  <2>3. ask' \in [Asks -> AskRecord] /\ OneAnswer'
    BY <2>1 DEF XInv, OneAnswer, AskRecord, IdleAsk
  <2> QED  BY <1>3, <2>2, <2>3 DEF XInv
<1> QED  BY <1>4, <1>5

LEMMA DeliverPreserves ==
  ASSUME XInv, NEW a \in Asks, Deliver(a)
  PROVE  XInv'
<1>1. PICK p \in Payments : ask[a].payment = {p}
  BY DEF XInv, OnePayment, Deliver
<1>2. /\ delivered[p] = 0 /\ <<p, p>> \in settlement
      /\ delivered' = [delivered EXCEPT ![p] = 1]
      /\ ask' = [ask EXCEPT ![a] = IdleAsk]
      /\ UNCHANGED <<enabled, transfer, settlement>>
  <2>1. delivered[p] = 0 /\ <<p, p>> \in settlement
    BY <1>1 DEF Deliver, XInv, AskTruthful
  <2>2. delivered' = [delivered EXCEPT ![p] = 1]
    <3>1. delivered' = [q \in Payments |-> IF q \in {p} THEN delivered[q] + 1 ELSE delivered[q]]
      BY <1>1 DEF Deliver
    <3>2. \A q \in Payments : (IF q \in {p} THEN delivered[q] + 1 ELSE delivered[q]) = IF q = p THEN 1 ELSE delivered[q]
      BY <2>1
    <3>3. DOMAIN delivered = Payments /\ delivered = [q \in Payments |-> delivered[q]]
      BY DEF XInv
    <3>4. delivered' = [q \in Payments |-> IF q = p THEN 1 ELSE delivered[q]]
      BY <3>1, <3>2
    <3> QED  BY <3>3, <3>4
  <2> QED  BY <2>1, <2>2 DEF Deliver, Leave
<1>3. ASSUME NEW b \in Asks  PROVE OnePayment(b)' /\ AskTruthful(b)'
  <2>1. CASE b = a
    BY <1>2, <2>1 DEF OnePayment, AskTruthful, IdleAsk, XInv
  <2>2. CASE b # a
    <3>1. ask'[b] = ask[b]
      BY <1>2, <2>2 DEF XInv
    <3>2. ask[b].pc = "answer" => p \notin ask[b].payment
      BY <1>1, <2>2 DEF Deliver, XInv, OneAnswer, OnePayment
    <3> QED  BY <1>2, <3>1, <3>2 DEF XInv, OnePayment, AskTruthful, AskRecord
  <2> QED  BY <2>1, <2>2
<1> QED  BY <1>2, <1>3 DEF XInv, PaymentTypes, OneAnswer, SettlementsArePaid, AskRecord, IdleAsk

\* A request ends: answered, refused or abandoned.
LEMMA LeavePreserves ==
  ASSUME XInv, NEW a \in Asks, Leave(a),
         transfer' \in [Payments -> {"none", "pending", "mined", "failed"}],
         \A p \in Payments : transfer[p] = "mined" => transfer'[p] = "mined",
         UNCHANGED <<enabled, settlement, delivered>>
  PROVE  XInv'
<1>1. IdleAsk \in AskRecord /\ IdleAsk.pc = "idle"
  BY DEF IdleAsk, AskRecord
<1>2. ask' = [ask EXCEPT ![a] = IdleAsk]
  BY DEF Leave
<1> QED  BY <1>1, <1>2, QuietAsk

LEMMA PaymentStepPreserves ==
  ASSUME XInv, PaymentStep
  PROVE  XInv'
<1> USE DEF XInv, PaymentTypes
<1>1. ASSUME NEW a \in Asks, NEW p \in Payments, Pay(a, p)  PROVE XInv'
  <2> DEFINE r == [pc |-> "verify", payment |-> {p}, id |-> {p}, report |-> TRUE]
  <2>1. r \in AskRecord /\ r.pc = "verify" /\ r.payment = {p} /\ r.id = {p}
    BY DEF AskRecord
  <2>2. ask' = [ask EXCEPT ![a] = r]
    BY <1>1 DEF Pay
  <2>3. transfer' = transfer /\ UNCHANGED <<enabled, settlement, delivered>>
    BY <1>1 DEF Pay
  <2> HIDE DEF r
  <2> QED  BY <2>1, <2>2, <2>3, QuietAsk
<1>2. ASSUME NEW a \in Asks, NEW p \in Payments, NEW i \in Payments, Report(a, p, i)  PROVE XInv'
  <2> DEFINE r == [pc |-> "confirm", payment |-> {p}, id |-> {i}, report |-> FALSE]
  <2>1. r \in AskRecord /\ r.pc = "confirm" /\ r.payment = {p} /\ r.id = {i} /\ r.report = FALSE
    BY DEF AskRecord
  <2>2. ask' = [ask EXCEPT ![a] = r]
    BY <1>2 DEF Report
  <2>3. transfer' = transfer /\ UNCHANGED <<enabled, settlement, delivered>>
    BY <1>2 DEF Report
  <2> HIDE DEF r
  <2> QED  BY <2>1, <2>2, <2>3, QuietAsk
<1>3. ASSUME NEW a \in Asks, NEW pc \in {"settle", "confirm", "record"},
             ask[a].pc # "idle", Go(a, pc),
             pc = "record" => \A p \in ask[a].payment : transfer'[p] = "mined",
             transfer' \in [Payments -> {"none", "pending", "mined", "failed"}],
             \A p \in Payments : transfer[p] = "mined" => transfer'[p] = "mined",
             UNCHANGED <<enabled, settlement, delivered>>
      PROVE  XInv'
  <2> DEFINE r == [ask[a] EXCEPT !.pc = pc]
  <2>1. r \in AskRecord /\ r.pc = pc /\ r.payment = ask[a].payment /\ r.id = ask[a].id /\ r.report = ask[a].report
    BY DEF AskRecord
  <2>2. ask' = [ask EXCEPT ![a] = r]
    BY <1>3 DEF Go
  <2>3. \E p, i \in Payments : ask[a].payment = {p} /\ ask[a].id = {i} /\ (ask[a].report => i = p)
    BY <1>3 DEF OnePayment
  <2> HIDE DEF r
  <2>4. r.pc # "answer" /\ \E p, i \in Payments : r.payment = {p} /\ r.id = {i} /\ (r.report => i = p)
    BY <2>1, <2>3
  <2> QED  BY <1>3, <2>1, <2>2, <2>4, QuietAsk
<1>4. ASSUME NEW a \in Asks, VerifyPayment(a)  PROVE XInv'
  BY <1>3, <1>4 DEF VerifyPayment
<1>5. ASSUME NEW a \in Asks, Settle(a)  PROVE XInv'
  <2>1. /\ transfer' \in [Payments -> {"none", "pending", "mined", "failed"}]
        /\ \A p \in Payments : transfer[p] = "mined" => transfer'[p] = "mined"
    BY <1>5 DEF Settle
  <2> QED  BY <1>3, <1>5, <2>1 DEF Settle
<1>6. ASSUME NEW a \in Asks, SettleLost(a)  PROVE XInv'
  <2>1. /\ transfer' \in [Payments -> {"none", "pending", "mined", "failed"}]
        /\ \A p \in Payments : transfer[p] = "mined" => transfer'[p] = "mined"
    BY <1>6 DEF SettleLost
  <2> QED  BY <1>6, <2>1, LeavePreserves DEF SettleLost
<1>7. ASSUME NEW a \in Asks, ConfirmTransfer(a)  PROVE XInv'
  BY <1>3, <1>7 DEF ConfirmTransfer, Confirmed
<1>8. ASSUME NEW a \in Asks, GiveUp(a)  PROVE XInv'
  BY <1>8, LeavePreserves DEF GiveUp
<1>9. ASSUME NEW p \in Payments, Mine(p)  PROVE XInv'
  <2>1. /\ transfer' \in [Payments -> {"none", "pending", "mined", "failed"}]
        /\ \A q \in Payments : transfer[q] = "mined" => transfer'[q] = "mined"
    BY <1>9 DEF Mine
  <2> QED  BY <1>9, <2>1, QuietChain DEF Mine
<1>10. CASE CloseRail
  BY <1>10, QuietChain DEF CloseRail
<1> QED
  BY <1>1, <1>2, <1>4, <1>5, <1>6, <1>7, <1>8, <1>9, <1>10, RecordSettlementPreserves, DeliverPreserves
     DEF PaymentStep
-----------------------------------------------------------------------------
(* The bridge: the records, the chains and the calls *)

Hashes == Burns \cup Approvals

BridgeRecord == [status : Statuses, burn : Hashes \cup {None}, verified : BOOLEAN]

CallRecord == [op : {"none", "prepare", "record", "status"}, pc : {"idle", "verify", "circle", "read", "cas"},
               bridge : Bridges \cup {None}, hash : Hashes \cup {None}, message : Messages \cup {"none"},
               verified : BOOLEAN, seen : BridgeRecord, fresh : BOOLEAN, tries : 0 .. MaxAttempts - 1]

BridgeShapes ==
  /\ gate \in {"closed", "preview", "submit"}
  /\ bridge \in [Bridges -> BridgeRecord]
  /\ burn \in [Burns -> {"none", "sent", "mined"}]
  /\ circle \in [Burns -> Messages \cup {"none"}]
  /\ mint \in [Burns -> {"none", "done", "failed"}]
  /\ call \in [Calls -> CallRecord]

\* Circle speaks, and Stellar mints, of burns that are on Base.
ChainsInOrder ==
  \A h \in Burns : /\ circle[h] # "none" => burn[h] = "mined"
                   /\ mint[h] # "none" => burn[h] = "mined"

\* A record has a burn from the moment it says so, one that is on Base.
Sound(r) ==
  /\ r.status \in {"none", "created", "prepared"} <=> r.burn = None
  /\ r.burn # None => r.burn \in Burns /\ burn[r.burn] = "mined"
  /\ r.status = "settled" => r.verified
  /\ r.verified => r.burn # None /\ mint[r.burn] = "done"

\* What a call holds of the chains is true for good: the burn it has checked,
\* or what Circle and Stellar have said of the burn of its bridge.
CallTruthful(k) ==
  IF k.pc = "idle" THEN k.op = "none"
  ELSE
    /\ k.bridge \in Bridges /\ bridge[k.bridge].status # "none"
    /\ k.op # "none"
    /\ k.op = "prepare" => k.pc \in {"read", "cas"}
    /\ k.op = "record" =>
         /\ k.pc \in {"verify", "read", "cas"}
         /\ k.pc # "verify" => k.hash \in Burns /\ burn[k.hash] = "mined"
    /\ k.op = "status" =>
         /\ k.pc \in {"circle", "read", "cas"}
         /\ k.hash \in Burns /\ k.hash = bridge[k.bridge].burn
         /\ k.pc # "circle" =>
              /\ k.message \in Messages
              /\ k.verified => mint[k.hash] = "done"
              /\ k.message = "failed" => circle[k.hash] = "failed"

\* A read that nothing has outdated is what is stored, and what it was
\* checked for.
ReadIsCurrent(k) ==
  k.pc = "cas" /\ k.fresh =>
    /\ k.seen = bridge[k.bridge]
    /\ k.op = "prepare" => Preparable(k.seen)
    /\ k.op = "record" => Burnable(k.seen)

BInv ==
  /\ BridgeShapes
  /\ ChainsInOrder
  /\ \A b \in Bridges : Sound(bridge[b])
  /\ \A c \in Calls : CallTruthful(call[c]) /\ ReadIsCurrent(call[c])

LEMMA BInvInit == BInit /\ gate \in {"closed", "preview", "submit"} => BInv
<1> SUFFICES ASSUME BInit, gate \in {"closed", "preview", "submit"}  PROVE BInv
  OBVIOUS
<1>1. NoBridge \in BridgeRecord /\ Sound(NoBridge)
  BY DEF NoBridge, BridgeRecord, Statuses, Sound
<1>2. IdleCall \in CallRecord /\ CallTruthful(IdleCall) /\ ReadIsCurrent(IdleCall)
  BY <1>1, AttemptsAssumption DEF IdleCall, CallRecord, CallTruthful, ReadIsCurrent
<1> QED  BY <1>1, <1>2 DEF BInit, BInv, BridgeShapes, ChainsInOrder

\* A step of one call, to a record that is truthful and current, leaves the
\* rest alone.
LEMMA CallStep ==
  ASSUME BInv, NEW c \in Calls, NEW r \in CallRecord,
         call' = [call EXCEPT ![c] = r],
         CallTruthful(r), ReadIsCurrent(r),
         UNCHANGED <<gate, bridge, burn, circle, mint>>
  PROVE  BInv'
<1>1. BridgeShapes' /\ ChainsInOrder'
  BY DEF BInv, BridgeShapes, ChainsInOrder
<1>2. \A b \in Bridges : Sound(bridge[b])'
  BY DEF BInv, Sound
<1>3. ASSUME NEW d \in Calls  PROVE CallTruthful(call[d])' /\ ReadIsCurrent(call[d])'
  <2>1. call'[d] = IF d = c THEN r ELSE call[d]
    BY DEF BInv, BridgeShapes
  <2> QED  BY <2>1 DEF BInv, CallTruthful, ReadIsCurrent
<1> QED  BY <1>1, <1>2, <1>3 DEF BInv

LEMMA IdleCallTruthful == IdleCall \in CallRecord /\ CallTruthful(IdleCall) /\ ReadIsCurrent(IdleCall)
BY AttemptsAssumption DEF IdleCall, CallRecord, CallTruthful, ReadIsCurrent, NoBridge, BridgeRecord, Statuses

LEMMA EndPreserves ==
  ASSUME BInv, NEW c \in Calls, End(c), UNCHANGED <<gate, bridge, burn, circle, mint>>
  PROVE  BInv'
BY IdleCallTruthful, CallStep DEF End

\* A step of the chains or the gate keeps what was mined, minted or given up.
LEMMA ChainStep ==
  ASSUME BInv, BridgeShapes', ChainsInOrder',
         \A h \in Burns : /\ burn[h] = "mined" => burn'[h] = "mined"
                          /\ mint[h] = "done" => mint'[h] = "done"
                          /\ circle[h] = "failed" => circle'[h] = "failed",
         UNCHANGED <<bridge, call>>
  PROVE  BInv'
<1>1. ASSUME NEW b \in Bridges  PROVE Sound(bridge[b])'
  BY DEF BInv, Sound
<1>2. ASSUME NEW c \in Calls  PROVE CallTruthful(call[c])' /\ ReadIsCurrent(call[c])'
  BY DEF BInv, CallTruthful, ReadIsCurrent, Preparable, Burnable
<1> QED  BY <1>1, <1>2 DEF BInv

-----------------------------------------------------------------------------
(* What a write makes of a record *)

\* Prepared or prepared anew, given its burn, or told of it.
Advance(r, w) ==
  \/ /\ r.status \in {"created", "prepared"} /\ w.status = "prepared"
     /\ w.burn = r.burn /\ w.verified = r.verified
  \/ /\ r.status = "prepared" /\ w.status = "burn_submitted"
     /\ w.burn \in Burns /\ burn[w.burn] = "mined" /\ w.verified = r.verified
  \/ /\ r.burn \in Burns /\ w.burn = r.burn
     /\ w.status \in {"attesting", "forwarding", "settled", "manual_review"}
     /\ w.status = "settled" => w.verified
     /\ w.status = "manual_review" => circle[w.burn] = "failed"
     /\ w.verified => mint[w.burn] = "done"

\* What Circle's answer makes of a record whose burn it is about.
LEMMA HeardFacts ==
  ASSUME NEW r \in BridgeRecord, Sound(r), NEW message \in Messages, NEW verified \in BOOLEAN,
         r.burn \in Burns,
         verified => mint[r.burn] = "done",
         message = "failed" => circle[r.burn] = "failed"
  PROVE  Heard(r, message, verified) \in BridgeRecord /\ Advance(r, Heard(r, message, verified))
<1> DEFINE w == Heard(r, message, verified)
<1>1. CASE message = "forwarded"
  <2>1. w = [r EXCEPT !.status = IF verified THEN "settled" ELSE "forwarding", !.verified = verified]
    BY <1>1 DEF Heard
  <2> QED  BY <2>1 DEF BridgeRecord, Statuses, Advance
<1>2. CASE message = "failed"
  <2>1. w = [r EXCEPT !.status = "manual_review"]
    BY <1>2 DEF Heard
  <2> QED  BY <1>2, <2>1 DEF BridgeRecord, Statuses, Advance, Sound
<1>3. CASE message \notin {"forwarded", "failed"}
  <2>1. \E s \in {"attesting", "forwarding"} : w = [r EXCEPT !.status = s]
    BY <1>3 DEF Heard
  <2> QED  BY <2>1 DEF BridgeRecord, Statuses, Advance, Sound
<1> QED  BY <1>1, <1>2, <1>3

LEMMA MutatedFacts ==
  ASSUME BInv, NEW c \in Calls, call[c].pc = "cas", call[c].fresh
  PROVE  /\ call[c].bridge \in Bridges
         /\ Mutated(c) \in BridgeRecord
         /\ Advance(bridge[call[c].bridge], Mutated(c))
<1> DEFINE k == call[c]
           r == bridge[k.bridge]
<1>1. /\ k \in CallRecord /\ k.bridge \in Bridges /\ r \in BridgeRecord /\ Sound(r)
      /\ CallTruthful(k) /\ ReadIsCurrent(k)
  BY DEF BInv, BridgeShapes, CallTruthful
<1>2. k.seen = r /\ k.op \in {"prepare", "record", "status"}
  BY <1>1 DEF ReadIsCurrent, CallTruthful, CallRecord
<1>3. CASE k.op = "prepare"
  <2>1. Mutated(c) = [r EXCEPT !.status = "prepared"] /\ r.status \in {"created", "prepared"}
    BY <1>1, <1>2, <1>3 DEF Mutated, ReadIsCurrent, Preparable
  <2> QED  BY <1>1, <2>1 DEF BridgeRecord, Statuses, Advance
<1>4. CASE k.op = "record"
  <2>1. Mutated(c) = [r EXCEPT !.status = "burn_submitted", !.burn = k.hash] /\ r.status = "prepared"
    BY <1>1, <1>2, <1>4 DEF Mutated, ReadIsCurrent, Burnable
  <2>2. k.hash \in Burns /\ burn[k.hash] = "mined"
    BY <1>1, <1>4 DEF CallTruthful
  <2> QED  BY <1>1, <2>1, <2>2 DEF BridgeRecord, Hashes, Statuses, Advance
<1>5. CASE k.op = "status"
  <2>1. Mutated(c) = Heard(r, k.message, k.verified)
    BY <1>2, <1>5 DEF Mutated
  <2>2. /\ k.message \in Messages /\ k.verified \in BOOLEAN /\ r.burn = k.hash /\ r.burn \in Burns
        /\ k.verified => mint[r.burn] = "done"
        /\ k.message = "failed" => circle[r.burn] = "failed"
    BY <1>1, <1>5 DEF CallTruthful, CallRecord
  <2> QED  BY <1>1, <2>1, <2>2, HeardFacts
<1> QED  BY <1>1, <1>2, <1>3, <1>4, <1>5

\* An advance keeps a record sound, and its burn.
LEMMA AdvanceFacts ==
  ASSUME NEW r \in BridgeRecord, NEW w \in BridgeRecord, Sound(r), Advance(r, w)
  PROVE  Sound(w) /\ w.status # "none" /\ (r.burn # None => w.burn = r.burn)
BY NoHashAssumption DEF Sound, Advance, BridgeRecord, Statuses

LEMMA CasPreserves ==
  ASSUME BInv, NEW c \in Calls, Cas(c)
  PROVE  BInv'
<1> DEFINE k == call[c]
           b == k.bridge
           w == Mutated(c)
<1>0. k \in CallRecord /\ k.pc = "cas" /\ CallTruthful(k) /\ ReadIsCurrent(k)
  BY DEF Cas, BInv, BridgeShapes
<1>1. CASE k.fresh
  <2>1. /\ b \in Bridges /\ w \in BridgeRecord /\ bridge[b] \in BridgeRecord
        /\ Sound(w) /\ w.status # "none" /\ (bridge[b].burn # None => w.burn = bridge[b].burn)
    <3>1. b \in Bridges /\ w \in BridgeRecord /\ Advance(bridge[b], w)
      BY <1>0, <1>1, MutatedFacts
    <3>2. bridge[b] \in BridgeRecord /\ Sound(bridge[b])
      BY <3>1 DEF BInv, BridgeShapes
    <3> QED  BY <3>1, <3>2, AdvanceFacts
  <2>2. /\ bridge' = [bridge EXCEPT ![b] = w]
        /\ call' = [d \in Calls |-> IF d = c THEN IdleCall ELSE Outdated(d, b)]
        /\ UNCHANGED <<gate, burn, circle, mint>>
    BY <1>1 DEF Cas, VersionUnchanged
  <2> HIDE DEF w
  <2>3. \A a \in Bridges : bridge'[a] = IF a = b THEN w ELSE bridge[a]
    BY <2>1, <2>2 DEF BInv, BridgeShapes
  <2>4. \A a \in Bridges : Sound(bridge[a])'
    BY <2>1, <2>2, <2>3 DEF BInv, Sound
  <2>5. ASSUME NEW d \in Calls
        PROVE  call'[d] \in CallRecord /\ CallTruthful(call[d])' /\ ReadIsCurrent(call[d])'
    <3>1. CASE d = c
      <4>1. call'[d] = IdleCall
        BY <2>2, <3>1
      <4> QED  BY <4>1, IdleCallTruthful DEF CallTruthful, ReadIsCurrent, IdleCall
    <3>2. CASE d # c
      <4>1. call'[d] = Outdated(d, b) /\ call[d] \in CallRecord /\ CallTruthful(call[d]) /\ ReadIsCurrent(call[d])
        BY <2>2, <3>2 DEF BInv, BridgeShapes
      <4>2. CASE call[d].bridge = b
        <5>1. call'[d] = [call[d] EXCEPT !.fresh = FALSE]
          BY <4>1, <4>2 DEF Outdated
        <5>2. /\ call'[d] \in CallRecord /\ call'[d].fresh = FALSE
              /\ \A f \in {"op", "pc", "bridge", "hash", "message", "verified", "seen", "tries"} :
                   call'[d][f] = call[d][f]
          BY <4>1, <5>1 DEF CallRecord
        <5>3. call[d].op = "status" /\ call[d].pc # "idle" => bridge[b].burn # None
          BY <4>1, <4>2, NoHashAssumption DEF CallTruthful
        <5>4. ReadIsCurrent(call[d])'
          BY <5>2 DEF ReadIsCurrent
        <5>5. /\ call'[d].op = call[d].op /\ call'[d].pc = call[d].pc /\ call'[d].bridge = b
              /\ call'[d].hash = call[d].hash /\ call'[d].message = call[d].message
              /\ call'[d].verified = call[d].verified
          BY <4>2, <5>2
        <5>6. CallTruthful(call[d])'
          BY <2>1, <2>2, <2>3, <4>1, <4>2, <5>3, <5>5 DEF CallTruthful
        <5> QED  BY <5>2, <5>4, <5>6
      <4>3. CASE call[d].bridge # b
        <5>1. call'[d] = call[d] /\ (call[d].bridge \in Bridges => bridge'[call[d].bridge] = bridge[call[d].bridge])
          BY <2>3, <4>1, <4>3 DEF Outdated
        <5> QED  BY <2>2, <4>1, <5>1 DEF CallTruthful, ReadIsCurrent, Preparable, Burnable
      <4> QED  BY <4>2, <4>3
    <3> QED  BY <3>1, <3>2
  <2>6. BridgeShapes' /\ ChainsInOrder'
    <3>1. call' \in [Calls -> CallRecord]
      BY <2>2, <2>5
    <3>2. bridge' \in [Bridges -> BridgeRecord]
      BY <2>1, <2>2 DEF BInv, BridgeShapes
    <3> QED  BY <2>2, <3>1, <3>2 DEF BInv, BridgeShapes, ChainsInOrder
  <2> QED  BY <2>4, <2>5, <2>6 DEF BInv
<1>2. CASE ~k.fresh /\ MayRetry(c)
  <2> DEFINE r == [k EXCEPT !.pc = "read", !.tries = @ + 1, !.seen = NoBridge]
  <2>1. call' = [call EXCEPT ![c] = r] /\ UNCHANGED <<gate, bridge, burn, circle, mint>>
    BY <1>2 DEF Cas, VersionUnchanged
  <2>2. r \in CallRecord
    <3>1. NoBridge \in BridgeRecord /\ "read" \in {"idle", "verify", "circle", "read", "cas"}
      BY DEF NoBridge, BridgeRecord, Statuses
    <3>2. k.tries + 1 \in 0 .. MaxAttempts - 1
      BY <1>0, <1>2, AttemptsAssumption DEF MayRetry, CallRecord
    <3> QED  BY <1>0, <3>1, <3>2, Zenon DEF CallRecord
  <2>3. CallTruthful(r) /\ ReadIsCurrent(r)
    BY <1>0 DEF CallTruthful, ReadIsCurrent, CallRecord
  <2> HIDE DEF r
  <2> QED  BY <2>1, <2>2, <2>3, CallStep
<1>3. CASE ~k.fresh /\ ~MayRetry(c)
  BY <1>3, EndPreserves DEF Cas, VersionUnchanged
<1> QED  BY <1>1, <1>2, <1>3

-----------------------------------------------------------------------------
(* The other steps of the bridge *)

LEMMA ReadPreserves ==
  ASSUME BInv, NEW c \in Calls, Read(c)
  PROVE  BInv'
<1> DEFINE k == call[c]
           r == [k EXCEPT !.pc = "cas", !.seen = bridge[k.bridge], !.fresh = TRUE]
<1>0. k \in CallRecord /\ k.pc = "read" /\ CallTruthful(k) /\ UNCHANGED <<gate, bridge, burn, circle, mint>>
  BY DEF Read, BInv, BridgeShapes
<1>1. CASE Mutable(c)
  <2>1. CASE call' = [call EXCEPT ![c] = r]
    <3>1. bridge[k.bridge] \in BridgeRecord
      BY <1>0 DEF BInv, BridgeShapes, CallTruthful
    <3>2. r \in CallRecord
      BY <1>0, <3>1 DEF CallRecord
    <3>3. CallTruthful(r)
      BY <1>0 DEF CallTruthful, CallRecord
    <3>4. ReadIsCurrent(r)
      BY <1>0, <1>1 DEF ReadIsCurrent, CallRecord, Mutable
    <3> HIDE DEF r
    <3> QED  BY <1>0, <2>1, <3>2, <3>3, <3>4, CallStep
  <2> QED  BY <1>1, <2>1 DEF Read
<1>2. CASE ~Mutable(c)
  BY <1>0, <1>2, EndPreserves DEF Read
<1> QED  BY <1>1, <1>2

LEMMA VerifyPreserves ==
  ASSUME BInv, NEW c \in Calls, Verify(c)
  PROVE  BInv'
<1> DEFINE k == call[c]
           r == [k EXCEPT !.pc = "read"]
<1>0. k \in CallRecord /\ k.pc = "verify" /\ CallTruthful(k) /\ UNCHANGED <<gate, bridge, burn, circle, mint>>
  BY DEF Verify, BInv, BridgeShapes
<1>1. k.hash \in Burns /\ burn[k.hash] = "mined"
  BY DEF Verify, OnBase, IsPreparedBurn
<1>2. r \in CallRecord /\ CallTruthful(r) /\ ReadIsCurrent(r)
  BY <1>0, <1>1 DEF CallRecord, CallTruthful, ReadIsCurrent
<1>3. call' = [call EXCEPT ![c] = r]
  BY DEF Verify
<1> HIDE DEF r
<1> QED  BY <1>0, <1>2, <1>3, CallStep

LEMMA AskCirclePreserves ==
  ASSUME BInv, NEW c \in Calls, AskCircle(c)
  PROVE  BInv'
<1> DEFINE k == call[c]
           m == circle[k.hash]
<1>0. k \in CallRecord /\ k.pc = "circle" /\ CallTruthful(k) /\ UNCHANGED <<gate, bridge, burn, circle, mint>>
  BY DEF AskCircle, BInv, BridgeShapes
<1>1. k.hash \in Burns /\ m \in Messages
  BY DEF AskCircle
<1>2. PICK v \in {FALSE, m = "forwarded" /\ mint[k.hash] = "done"} :
        call' = [call EXCEPT ![c].pc = "read", ![c].message = m, ![c].verified = v]
  BY DEF AskCircle
<1> DEFINE r == [k EXCEPT !.pc = "read", !.message = m, !.verified = v]
<1>3. call' = [call EXCEPT ![c] = r]
  BY <1>2
<1>4. v \in BOOLEAN /\ (v => mint[k.hash] = "done")
  BY Zenon
<1>5. r \in CallRecord
  BY <1>0, <1>1, <1>4 DEF CallRecord
<1>6. CallTruthful(r) /\ ReadIsCurrent(r)
  BY <1>0, <1>1, <1>4 DEF CallRecord, CallTruthful, ReadIsCurrent
<1> HIDE DEF r
<1> QED  BY <1>0, <1>3, <1>5, <1>6, CallStep

\* The three requests begin.
LEMMA StartPreserves ==
  ASSUME BInv, NEW c \in Calls, NEW b \in Bridges,
         \/ StartPrepare(c, b)
         \/ StartStatus(c, b)
         \/ \E h \in Burns \cup Approvals : StartRecordBurn(c, b, h)
  PROVE  BInv'
<1> DEFINE k == call[c]
<1>0. k \in CallRecord /\ bridge[b] \in BridgeRecord /\ Sound(bridge[b])
  BY DEF BInv, BridgeShapes
<1>1. CASE StartPrepare(c, b)
  <2> DEFINE r == [k EXCEPT !.op = "prepare", !.bridge = b, !.pc = "read"]
  <2>1. call' = [call EXCEPT ![c] = r] /\ UNCHANGED <<gate, bridge, burn, circle, mint>>
    BY <1>1 DEF StartPrepare, Begin
  <2>2. r \in CallRecord
    BY <1>0 DEF CallRecord
  <2>3. CallTruthful(r) /\ ReadIsCurrent(r)
    BY <1>0, <1>1 DEF CallRecord, CallTruthful, ReadIsCurrent, StartPrepare, Preparable
  <2> HIDE DEF r
  <2> QED  BY <2>1, <2>2, <2>3, CallStep
<1>2. CASE StartStatus(c, b)
  <2> DEFINE r == [k EXCEPT !.op = "status", !.bridge = b, !.hash = bridge[b].burn, !.pc = "circle"]
  <2>1. call' = [call EXCEPT ![c] = r] /\ UNCHANGED <<gate, bridge, burn, circle, mint>>
    BY <1>2 DEF StartStatus
  <2>2. bridge[b].burn \in Burns /\ bridge[b].status # "none"
    BY <1>0, <1>2 DEF StartStatus, Sound
  <2>3. r \in CallRecord
    BY <1>0, <2>2 DEF CallRecord, Hashes
  <2>4. CallTruthful(r) /\ ReadIsCurrent(r)
    BY <1>0, <2>2 DEF CallRecord, CallTruthful, ReadIsCurrent
  <2> HIDE DEF r
  <2> QED  BY <2>1, <2>3, <2>4, CallStep
<1>3. ASSUME NEW h \in Burns \cup Approvals, StartRecordBurn(c, b, h)  PROVE BInv'
  <2> DEFINE r == [k EXCEPT !.op = "record", !.bridge = b, !.hash = h, !.pc = "verify"]
  <2>1. call' = [call EXCEPT ![c] = r] /\ UNCHANGED <<gate, bridge, burn, circle, mint>>
    BY <1>3 DEF StartRecordBurn
  <2>2. r \in CallRecord
    BY <1>0 DEF CallRecord, Hashes
  <2>3. CallTruthful(r) /\ ReadIsCurrent(r)
    BY <1>0, <1>3 DEF CallRecord, CallTruthful, ReadIsCurrent, StartRecordBurn, Burnable
  <2> HIDE DEF r
  <2> QED  BY <2>1, <2>2, <2>3, CallStep
<1> QED  BY <1>1, <1>2, <1>3

\* No call is about a bridge that is created now.
LEMMA CreatePreserves ==
  ASSUME BInv, NEW b \in Bridges, Create(b)
  PROVE  BInv'
<1> DEFINE w == [bridge[b] EXCEPT !.status = "created"]
<1>1. bridge' = [bridge EXCEPT ![b] = w] /\ UNCHANGED <<gate, burn, circle, mint, call>>
  BY DEF Create
<1>2. bridge[b] \in BridgeRecord /\ Sound(bridge[b]) /\ bridge[b].status = "none"
  BY DEF Create, BInv, BridgeShapes
<1>3. w \in BridgeRecord /\ Sound(w)
  BY <1>2 DEF BridgeRecord, Statuses, Sound
<1> HIDE DEF w
<1>4. \A a \in Bridges : bridge'[a] = IF a = b THEN w ELSE bridge[a]
  BY <1>1 DEF BInv, BridgeShapes
<1>5. BridgeShapes' /\ ChainsInOrder'
  BY <1>1, <1>3 DEF BInv, BridgeShapes, ChainsInOrder
<1>6. \A a \in Bridges : Sound(bridge[a])'
  BY <1>1, <1>3, <1>4 DEF BInv, Sound
<1>7. ASSUME NEW c \in Calls  PROVE CallTruthful(call[c])' /\ ReadIsCurrent(call[c])'
  <2>1. CallTruthful(call[c]) /\ ReadIsCurrent(call[c])
    BY DEF BInv
  <2>2. call[c].pc # "idle" => bridge'[call[c].bridge] = bridge[call[c].bridge]
    BY <1>2, <1>4, <2>1 DEF CallTruthful
  <2> QED  BY <1>1, <2>1, <2>2 DEF CallTruthful, ReadIsCurrent, Preparable, Burnable
<1> QED  BY <1>5, <1>6, <1>7 DEF BInv

LEMMA ChainsPreserve ==
  ASSUME BInv, CloseGate \/ \E h \in Burns : SendBurn(h) \/ MineBurn(h) \/ Attest(h) \/ Mint(h)
  PROVE  BInv'
<1> USE DEF BInv, BridgeShapes, ChainsInOrder
<1>1. CASE CloseGate
  BY <1>1, ChainStep DEF CloseGate
<1>2. ASSUME NEW h \in Burns, SendBurn(h)  PROVE BInv'
  BY <1>2, ChainStep DEF SendBurn
<1>3. ASSUME NEW h \in Burns, MineBurn(h)  PROVE BInv'
  BY <1>3, ChainStep DEF MineBurn
<1>4. ASSUME NEW h \in Burns, Attest(h)  PROVE BInv'
  <2>1. PICK m \in Progress(circle[h]) : circle' = [circle EXCEPT ![h] = m]
    BY <1>4 DEF Attest
  <2>2. m \in Messages /\ circle[h] # "failed"
    BY DEF Progress, Messages
  <2> QED  BY <1>4, <2>1, <2>2, ChainStep DEF Attest
<1>5. ASSUME NEW h \in Burns, Mint(h)  PROVE BInv'
  BY <1>5, ChainStep DEF Mint
<1> QED  BY <1>1, <1>2, <1>3, <1>4, <1>5

LEMMA BridgeStepPreserves ==
  ASSUME BInv, BridgeStep
  PROVE  BInv'
<1>1. ASSUME NEW c \in Calls, Fail(c)  PROVE BInv'
  BY <1>1, EndPreserves DEF Fail
<1> QED
  BY <1>1, CreatePreserves, StartPreserves, VerifyPreserves, AskCirclePreserves, ReadPreserves,
     CasPreserves, ChainsPreserve DEF BridgeStep

-----------------------------------------------------------------------------
(* Both sides of the hub *)

Inv == BInv /\ XInv

LEMMA InvInit == Init => Inv
BY BInvInit, XInvInit DEF Init, Inv

LEMMA InvStep == Inv /\ [Next]_vars => Inv'
<1> SUFFICES ASSUME Inv, [Next]_vars  PROVE Inv'
  OBVIOUS
<1>1. UNCHANGED bvars => BInv'
  BY ChainStep DEF Inv, BInv, bvars, BridgeShapes, ChainsInOrder
<1>2. UNCHANGED xvars => XInv'
  BY QuietChain DEF Inv, XInv, xvars, PaymentTypes
<1>3. BridgeStep => BInv'
  BY BridgeStepPreserves DEF Inv
<1>4. PaymentStep => XInv'
  BY PaymentStepPreserves DEF Inv
<1> QED  BY <1>1, <1>2, <1>3, <1>4, Zenon DEF Inv, Next, vars

LEMMA SpecInv == Spec => []Inv
BY InvInit, InvStep, PTL DEF Spec

\* Bridge records and calls, payments, settlements and requests keep their
\* types, whatever the numbers of each.
THEOREM TypeCorrect == Spec => []TypeOK
<1>1. BInv => BridgeTypes
  <2> SUFFICES ASSUME BInv  PROVE BridgeTypes
    OBVIOUS
  <2>1. \A c \in Calls : call[c] \in CallRecord /\ CallTruthful(call[c])
    BY DEF BInv, BridgeShapes
  <2>2. ASSUME NEW c \in Calls
        PROVE  /\ call[c].pc \in {"idle", "verify", "circle", "read", "cas"}
               /\ call[c].tries \in 0 .. MaxAttempts - 1
    BY <2>1 DEF CallRecord
  <2>3. ASSUME NEW c \in Calls, call[c].op = "status", call[c].pc # "circle"  PROVE call[c].message \in Messages
    BY <2>1, <2>3 DEF CallTruthful
  <2> QED  BY <2>2, <2>3, Zenon DEF BInv, BridgeShapes, BridgeTypes, BridgeRecord, Hashes
<1>2. Inv => TypeOK
  BY <1>1 DEF Inv, XInv, TypeOK
<1> QED  BY <1>2, SpecInv, PTL

\* A bridge that has taken on a burn has taken on the prepared one, on Base,
\* and one that says settled has its money on Stellar, however many calls
\* read it, ask Circle and write at the same time (recordBurn,
\* applyCircleStatus).
THEOREM SettledIsVerifiedHolds == Spec => []SettledIsVerified
<1>1. Inv => SettledIsVerified
  BY DEF Inv, BInv, Sound, SettledIsVerified, Evidence
<1> QED  BY <1>1, SpecInv, PTL

\* A payment buys one report at most, however often its header is sent and
\* however the facilitator answers (BaseX402Service.handle).
THEOREM OneReportHolds == Spec => []OneReportPerPayment
<1>1. Inv => OneReportPerPayment
  BY DEF Inv, XInv, OneReportPerPayment
<1> QED  BY <1>1, SpecInv, PTL

\* Every settlement on record is a transfer on Base, and every report that
\* was delivered is on record under its own payment.
THEOREM SettlementsArePaidHolds == Spec => []SettlementsArePaid
<1>1. Inv => SettlementsArePaid
  BY DEF Inv, XInv
<1> QED  BY <1>1, SpecInv, PTL

-----------------------------------------------------------------------------
(* The bridge implements the life of one transfer *)

\* The stage of a bridge, from its record alone.
StageOf(r) ==
  CASE r.status = "none" -> "absent"
    [] r.status \in {"burn_submitted", "attesting", "forwarding"} -> "moving"
    [] r.status = "manual_review" -> "review"
    [] OTHER -> r.status

LEMMA StageFacts ==
  /\ \A b \in Bridges : Stage(b) = StageOf(bridge[b])
  /\ \A b \in Bridges : Stage(b)' = StageOf(bridge'[b])
BY DEF Stage, StageOf

\* What a record is advanced to is a step of the transfer's life, or none.
LEMMA AdvanceStage ==
  ASSUME NEW r \in BridgeRecord, NEW w \in BridgeRecord, Sound(r), Advance(r, w)
  PROVE  \/ /\ StageOf(r) = "created" /\ StageOf(w) = "prepared" /\ w.burn = r.burn
         \/ StageOf(r) = StageOf(w) /\ w.burn = r.burn
         \/ /\ StageOf(r) = "prepared" /\ StageOf(w) = "moving"
            /\ w.burn \in Burns /\ burn[w.burn] = "mined"
         \/ /\ r.burn # None /\ w.burn = r.burn /\ r.burn \in Burns
            /\ \/ StageOf(w) = "moving"
               \/ StageOf(w) = "settled" /\ mint[w.burn] = "done"
               \/ StageOf(w) = "review" /\ circle[w.burn] = "failed"
BY NoHashAssumption DEF StageOf, Advance, Sound, BridgeRecord, Statuses

LEMMA LifecycleInit == BInit => Lifecycle!Init
<1> SUFFICES ASSUME BInit  PROVE Lifecycle!Init
  OBVIOUS
<1>1. \A b \in Bridges : Stage(b) = "absent" /\ bridge[b].burn = None
  BY DEF BInit, NoBridge, Stage
<1> QED  BY <1>1 DEF BInit, Lifecycle!Init

LEMMA LifeStep ==
  ASSUME NEW b \in Bridges, Lifecycle!Prepare(b) \/ Lifecycle!TakeBurn(b) \/ Lifecycle!Hear(b)
  PROVE  Lifecycle!Next
BY DEF Lifecycle!Next

LEMMA CasRefines ==
  ASSUME BInv, NEW c \in Calls, Cas(c)
  PROVE  [Lifecycle!Next]_(Lifecycle!lvars)
<1> DEFINE w == Mutated(c)
<1>1. CASE ~call[c].fresh
  BY <1>1 DEF Cas, VersionUnchanged, Lifecycle!lvars, Stage
<1>2. CASE call[c].fresh
  <2>0. /\ call[c].bridge \in Bridges /\ w \in BridgeRecord /\ Advance(bridge[call[c].bridge], w)
    BY <1>2, MutatedFacts DEF Cas
  <2> PICK b \in Bridges : b = call[c].bridge
    BY <2>0
  <2>1. /\ bridge' = [bridge EXCEPT ![b] = w]
        /\ UNCHANGED <<burn, circle, mint>>
    BY <1>2 DEF Cas, VersionUnchanged
  <2>2. /\ b \in Bridges /\ w \in BridgeRecord /\ Advance(bridge[b], w)
        /\ bridge[b] \in BridgeRecord /\ Sound(bridge[b])
    BY <2>0 DEF BInv, BridgeShapes
  <2> DEFINE r == bridge[b]
             stage == [a \in Bridges |-> Stage(a)]
             burned == [a \in Bridges |-> bridge[a].burn]
  <2> HIDE DEF w
  <2>3. /\ stage' = [stage EXCEPT ![b] = StageOf(w)]
        /\ burned' = [burned EXCEPT ![b] = w.burn]
        /\ stage[b] = StageOf(r) /\ burned[b] = r.burn
    <3>1. \A a \in Bridges : bridge'[a] = IF a = b THEN w ELSE bridge[a]
      BY <2>1, <2>2 DEF BInv, BridgeShapes
    <3>2. \A a \in Bridges : Stage(a)' = IF a = b THEN StageOf(w) ELSE Stage(a)
      BY <3>1, StageFacts
    <3>3. Stage(b) = StageOf(r)
      BY StageFacts
    <3>4. stage' = [stage EXCEPT ![b] = StageOf(w)]
      BY <3>2
    <3>5. burned' = [burned EXCEPT ![b] = w.burn]
      BY <3>1
    <3> QED  BY <3>3, <3>4, <3>5
  <2>4. stage = [stage EXCEPT ![b] = stage[b]] /\ burned = [burned EXCEPT ![b] = burned[b]]
    OBVIOUS
  <2>5. UNCHANGED <<{h \in Burns : burn[h] = "mined"}, {h \in Burns : mint[h] = "done"},
                    {h \in Burns : circle[h] = "failed"}>>
    BY <2>1
  <2>6. \/ /\ StageOf(r) = "created" /\ StageOf(w) = "prepared" /\ w.burn = r.burn
        \/ StageOf(r) = StageOf(w) /\ w.burn = r.burn
        \/ /\ StageOf(r) = "prepared" /\ StageOf(w) = "moving"
           /\ w.burn \in Burns /\ burn[w.burn] = "mined"
        \/ /\ r.burn # None /\ w.burn = r.burn /\ r.burn \in Burns
           /\ \/ StageOf(w) = "moving"
              \/ StageOf(w) = "settled" /\ mint[w.burn] = "done"
              \/ StageOf(w) = "review" /\ circle[w.burn] = "failed"
    BY <2>2, AdvanceStage
  <2> HIDE DEF r
  <2>7. CASE StageOf(r) = "created" /\ StageOf(w) = "prepared" /\ w.burn = r.burn
    <3>1. Lifecycle!Prepare(b)
      BY <2>3, <2>4, <2>5, <2>7 DEF Lifecycle!Prepare
    <3> QED  BY <3>1, LifeStep, Zenon
  <2>8. CASE StageOf(r) = StageOf(w) /\ w.burn = r.burn
    BY <2>3, <2>4, <2>5, <2>8 DEF Lifecycle!lvars
  <2>9. CASE StageOf(r) = "prepared" /\ StageOf(w) = "moving" /\ w.burn \in Burns /\ burn[w.burn] = "mined"
    <3>1. Lifecycle!TakeBurn(b)
      BY <2>3, <2>5, <2>9 DEF Lifecycle!TakeBurn
    <3> QED  BY <3>1, LifeStep, Zenon
  <2>10. CASE /\ r.burn # None /\ w.burn = r.burn /\ r.burn \in Burns
              /\ \/ StageOf(w) = "moving"
                 \/ StageOf(w) = "settled" /\ mint[w.burn] = "done"
                 \/ StageOf(w) = "review" /\ circle[w.burn] = "failed"
    <3>1. StageOf(w) \in Lifecycle!Ending(burned[b])
      BY <2>3, <2>10 DEF Lifecycle!Ending
    <3>2. UNCHANGED burned /\ burned[b] # None
      BY <2>3, <2>4, <2>10
    <3>3. Lifecycle!Hear(b)
      BY <2>3, <2>5, <3>1, <3>2, Zenon DEF Lifecycle!Hear
    <3> QED  BY <3>3, LifeStep, Zenon
  <2> QED  BY <2>6, <2>7, <2>8, <2>9, <2>10
<1> QED  BY <1>1, <1>2

LEMMA CreateRefines ==
  ASSUME BInv, NEW b \in Bridges, Create(b)
  PROVE  Lifecycle!Create(b)
<1>1. \A a \in Bridges : /\ bridge'[a].burn = bridge[a].burn
                         /\ Stage(a)' = IF a = b THEN "created" ELSE Stage(a)
  BY DEF Create, BInv, BridgeShapes, BridgeRecord, Stage
<1>2. Stage(b) = "absent"
  BY DEF Create, Stage
<1> QED  BY <1>1, <1>2 DEF Create, Lifecycle!Create

LEMMA ChainsRefine ==
  ASSUME BInv, NEW h \in Burns, SendBurn(h) \/ MineBurn(h) \/ Attest(h) \/ Mint(h)
  PROVE  [Lifecycle!World]_(Lifecycle!lvars)
<1> DEFINE base == {g \in Burns : burn[g] = "mined"}
           minted == {g \in Burns : mint[g] = "done"}
           given == {g \in Burns : circle[g] = "failed"}
<1>0. [a \in Bridges |-> Stage(a)]' = [a \in Bridges |-> Stage(a)] /\ UNCHANGED [a \in Bridges |-> bridge[a].burn]
  BY DEF SendBurn, MineBurn, Attest, Mint, Stage
<1>1. CASE SendBurn(h)
  <2>1. UNCHANGED <<base, minted, given>>
    BY <1>1 DEF SendBurn, BInv, BridgeShapes
  <2> QED  BY <1>0, <2>1 DEF Lifecycle!lvars
<1>2. CASE MineBurn(h)
  <2>1. base' = base \cup {h} /\ UNCHANGED <<minted, given>>
    BY <1>2 DEF MineBurn, BInv, BridgeShapes
  <2> QED  BY <1>0, <2>1 DEF Lifecycle!World
<1>3. CASE Attest(h)
  <2>1. h \in base /\ UNCHANGED <<base, minted>>
    BY <1>3 DEF Attest
  <2>2. given' = given \cup {h} \/ given' = given
    <3>1. PICK m \in Progress(circle[h]) : circle' = [circle EXCEPT ![h] = m]
      BY <1>3 DEF Attest
    <3>2. circle[h] # "failed"
      BY DEF Progress
    <3>3. CASE m = "failed"
      BY <3>1, <3>3 DEF BInv, BridgeShapes
    <3>4. CASE m # "failed"
      BY <3>1, <3>2, <3>4 DEF BInv, BridgeShapes
    <3> QED  BY <3>3, <3>4
  <2> QED  BY <1>0, <2>1, <2>2 DEF Lifecycle!World, Lifecycle!lvars
<1>4. CASE Mint(h)
  <2>1. h \in base /\ UNCHANGED <<base, given>>
    BY <1>4 DEF Mint, BInv, ChainsInOrder
  <2>2. minted' = minted \cup {h} \/ minted' = minted
    <3>1. PICK result \in {"done", "failed"} : mint' = [mint EXCEPT ![h] = result]
      BY <1>4 DEF Mint
    <3>2. mint[h] = "none"
      BY <1>4 DEF Mint
    <3>3. CASE result = "done"
      BY <3>1, <3>3 DEF BInv, BridgeShapes
    <3>4. CASE result # "done"
      BY <3>1, <3>2, <3>4 DEF BInv, BridgeShapes
    <3> QED  BY <3>3, <3>4
  <2> QED  BY <1>0, <2>1, <2>2 DEF Lifecycle!World, Lifecycle!lvars
<1> QED  BY <1>1, <1>2, <1>3, <1>4

LEMMA StepRefines ==
  ASSUME BInv, BridgeStep
  PROVE  [Lifecycle!Next]_(Lifecycle!lvars)
<1>1. ASSUME UNCHANGED <<bridge, burn, circle, mint>>  PROVE [Lifecycle!Next]_(Lifecycle!lvars)
  BY <1>1 DEF Lifecycle!lvars, Stage
<1>2. ASSUME NEW b \in Bridges, Create(b)  PROVE [Lifecycle!Next]_(Lifecycle!lvars)
  BY <1>2, CreateRefines DEF Lifecycle!Next
<1>3. ASSUME NEW c \in Calls, NEW b \in Bridges,
             \/ StartPrepare(c, b) \/ StartStatus(c, b)
             \/ \E h \in Burns \cup Approvals : StartRecordBurn(c, b, h)
      PROVE  [Lifecycle!Next]_(Lifecycle!lvars)
  BY <1>1, <1>3 DEF StartPrepare, Begin, StartStatus, StartRecordBurn
<1>4. ASSUME NEW c \in Calls, Verify(c) \/ AskCircle(c) \/ Read(c) \/ Fail(c)
      PROVE  [Lifecycle!Next]_(Lifecycle!lvars)
  BY <1>1, <1>4 DEF Verify, AskCircle, Read, Fail
<1>5. ASSUME NEW h \in Burns, SendBurn(h) \/ MineBurn(h) \/ Attest(h) \/ Mint(h)
      PROVE  [Lifecycle!Next]_(Lifecycle!lvars)
  BY <1>5, ChainsRefine DEF Lifecycle!Next
<1>6. CloseGate => [Lifecycle!Next]_(Lifecycle!lvars)
  BY <1>1 DEF CloseGate
<1> QED  BY <1>2, <1>3, <1>4, <1>5, <1>6, CasRefines DEF BridgeStep

\* The handlers of the bridge, with the races of their reads and writes, go
\* through the life of a transfer: prepared, one burn that is on Base, then
\* moving, in review or settled as its burn allows.
THEOREM BridgeImplementsLifecycle == Spec => BridgeLifecycleSpec
<1>1. Init => Lifecycle!Init
  BY LifecycleInit DEF Init
<1>2. Inv /\ [Next]_vars => [Lifecycle!Next]_(Lifecycle!lvars)
  <2>1. UNCHANGED bvars => [Lifecycle!Next]_(Lifecycle!lvars)
    BY DEF bvars, Lifecycle!lvars, Stage
  <2> QED  BY <2>1, StepRefines, Zenon DEF Next, vars, Inv
<1> QED  BY <1>1, <1>2, SpecInv, PTL DEF Spec, BridgeLifecycleSpec, Lifecycle!Spec
=============================================================================
