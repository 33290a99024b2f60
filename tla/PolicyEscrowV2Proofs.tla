------------------------ MODULE PolicyEscrowV2Proofs ------------------------
(***************************************************************************)
(* Proofs about the escrow, for every set of signers, places, assets and   *)
(* limits and every width of its integers: the inductive invariant, the    *)
(* two properties it implies, and that the contract implements an          *)
(* allowance.                                                              *)
(***************************************************************************)
EXTENDS PolicyEscrowV2, TLAPS

\* What a transfer leaves of a policy.
LEMMA ChargedPolicy ==
  ASSUME NEW policy \in SessionPolicy, NEW amount \in Amounts, amount > 0, WithinBudget(policy, amount)
  PROVE  /\ Charged(policy, amount) \in SessionPolicy
         /\ Charged(policy, amount).spent = policy.spent + amount
         /\ Charged(policy, amount).next_nonce = policy.next_nonce + 1
         /\ Charged(policy, amount).total_limit = policy.total_limit
         /\ Charged(policy, amount).expires_at = policy.expires_at
         /\ Charged(policy, amount).revoked = policy.revoked
<1>1. /\ policy.spent + amount \in 0 .. MaxI128 /\ policy.next_nonce + 1 \in 1 .. MaxU64
  BY WidthAssumption DEF SessionPolicy, WithinBudget
<1>2. Charged(policy, amount) \in SessionPolicy
  BY <1>1, Zenon DEF Charged, SessionPolicy
<1> QED  BY <1>2 DEF Charged, SessionPolicy

LEMMA RevokedPolicy ==
  ASSUME NEW policy \in SessionPolicy
  PROVE  /\ [policy EXCEPT !.revoked = TRUE] \in SessionPolicy
         /\ [policy EXCEPT !.revoked = TRUE].spent = policy.spent
         /\ [policy EXCEPT !.revoked = TRUE].next_nonce = policy.next_nonce
         /\ [policy EXCEPT !.revoked = TRUE].total_limit = policy.total_limit
         /\ [policy EXCEPT !.revoked = TRUE].expires_at = policy.expires_at
         /\ [policy EXCEPT !.revoked = TRUE].revoked = TRUE
BY DEF SessionPolicy

-----------------------------------------------------------------------------
(* What each call does, in the terms the proofs use *)

GrantEffect(s, total, expires_at) ==
  /\ session' \in [Signers -> SessionPolicy \cup {None}]
  /\ \A t \in Signers : t # s => session'[t] = session[t]
  /\ session'[s] \in SessionPolicy /\ session'[s].spent = 0 /\ session'[s].next_nonce = 1
  /\ session'[s].total_limit = total /\ session'[s].expires_at = expires_at
  /\ session'[s].revoked = FALSE
  /\ total \in Nat \ {0} /\ expires_at \in Nat /\ expires_at > now
  /\ grants' \in [Signers -> Nat] /\ granted' \in [Signers -> Nat]
  /\ \A t \in Signers : /\ grants'[t] = IF t = s THEN grants[t] + 1 ELSE grants[t]
                        /\ granted'[t] = IF t = s THEN granted[t] + total ELSE granted[t]
  /\ UNCHANGED <<now, balance, receipts, paid>>

LEMMA GrantFacts ==
  ASSUME TypeOK, NEW caller, NEW s \in Signers, NEW destinations \in SUBSET Places,
         NEW assets \in SUBSET Assets, NEW per \in Limits, NEW total \in Limits,
         NEW expires_at \in 0 .. Horizon + 1,
         GrantSession(caller, s, destinations, assets, per, total, expires_at)
  PROVE  GrantEffect(s, total, expires_at)
<1> DEFINE new == Fresh(s, destinations, assets, per, total, expires_at)
<1>1. ValidPolicy(destinations, assets, per, total, expires_at) /\ expires_at \in Nat
  BY BoundsAssumption DEF GrantSession
<1>2. /\ new \in SessionPolicy /\ new.spent = 0 /\ new.next_nonce = 1
      /\ new.total_limit = total /\ new.expires_at = expires_at /\ new.revoked = FALSE
      /\ total \in Nat \ {0} /\ expires_at > now
  <2>1. /\ per \in 1 .. MaxI128 /\ total \in 1 .. MaxI128 /\ 0 \in 0 .. MaxI128 /\ 1 \in 1 .. MaxU64
        /\ expires_at > now
    BY <1>1, WidthAssumption DEF ValidPolicy
  <2>2. new \in SessionPolicy
    BY <1>1, <2>1 DEF Fresh, SessionPolicy
  <2> QED  BY <2>1, <2>2, WidthAssumption DEF Fresh
<1>3. session' = [session EXCEPT ![s] = new]
  BY DEF GrantSession
<1> HIDE DEF new
<1>4. /\ grants' = [grants EXCEPT ![s] = @ + 1] /\ granted' = [granted EXCEPT ![s] = @ + total]
      /\ UNCHANGED <<now, balance, receipts, paid>>
  BY DEF GrantSession
<1>5. /\ grants' \in [Signers -> Nat] /\ granted' \in [Signers -> Nat]
      /\ \A t \in Signers : /\ grants'[t] = IF t = s THEN grants[t] + 1 ELSE grants[t]
                            /\ granted'[t] = IF t = s THEN granted[t] + total ELSE granted[t]
  BY <1>2, <1>4 DEF TypeOK
<1> QED  BY <1>1, <1>2, <1>3, <1>4, <1>5 DEF TypeOK, GrantEffect

LEMMA RevokeFacts ==
  ASSUME TypeOK, NEW caller, NEW s \in Signers, RevokeSession(caller, s)
  PROVE  /\ session' \in [Signers -> SessionPolicy \cup {None}]
         /\ \A t \in Signers : t # s => session'[t] = session[t]
         /\ session[s] \in SessionPolicy /\ session'[s] \in SessionPolicy
         /\ session'[s].spent = session[s].spent /\ session'[s].next_nonce = session[s].next_nonce
         /\ session'[s].total_limit = session[s].total_limit
         /\ session'[s].expires_at = session[s].expires_at /\ session'[s].revoked = TRUE
         /\ UNCHANGED <<now, balance, receipts, grants, granted, paid>>
<1> DEFINE new == [session[s] EXCEPT !.revoked = TRUE]
<1>1. session[s] \in SessionPolicy
  BY DEF RevokeSession, TypeOK
<1>2. /\ new \in SessionPolicy /\ new.spent = session[s].spent
      /\ new.next_nonce = session[s].next_nonce /\ new.total_limit = session[s].total_limit
      /\ new.expires_at = session[s].expires_at /\ new.revoked = TRUE
  BY <1>1, RevokedPolicy
<1>3. session' = [session EXCEPT ![s] = new]
  BY DEF RevokeSession
<1> HIDE DEF new
<1> QED  BY <1>1, <1>2, <1>3 DEF TypeOK, RevokeSession

LEMMA TransferFacts ==
  ASSUME TypeOK, NEW s \in Signers, NEW destination \in Places, NEW asset \in Assets,
         NEW amount \in Amounts, NEW nonce \in 0 .. MaxU64,
         ExecuteAllowedTransfer(s, destination, asset, amount, nonce)
  PROVE  /\ session' \in [Signers -> SessionPolicy \cup {None}]
         /\ \A t \in Signers : t # s => session'[t] = session[t]
         /\ session[s] \in SessionPolicy /\ session'[s] \in SessionPolicy
         /\ ~session[s].revoked /\ now <= session[s].expires_at
         /\ amount \in Nat \ {0} /\ nonce = session[s].next_nonce
         /\ session[s].spent + amount <= session[s].total_limit
         /\ session'[s].spent = session[s].spent + amount
         /\ session'[s].next_nonce = session[s].next_nonce + 1
         /\ session'[s].total_limit = session[s].total_limit
         /\ session'[s].expires_at = session[s].expires_at
         /\ session'[s].revoked = session[s].revoked
         /\ balance' \in [Assets -> Nat]
         /\ receipts' = receipts \cup {Receipt(s, destination, asset, amount, nonce)}
         /\ paid' \in [Signers -> Nat]
         /\ \A t \in Signers : paid'[t] = IF t = s THEN paid[t] + amount ELSE paid[t]
         /\ UNCHANGED <<now, grants, granted>>
<1>1. session[s] \in SessionPolicy /\ ValidTransfer(session[s], destination, asset, amount, nonce)
  BY DEF ExecuteAllowedTransfer, TypeOK
<1>2. amount \in Nat \ {0}
  BY <1>1, WidthAssumption DEF ValidTransfer
<1> DEFINE new == Charged(session[s], amount)
<1>3. /\ new \in SessionPolicy /\ new.spent = session[s].spent + amount
      /\ new.next_nonce = session[s].next_nonce + 1 /\ new.total_limit = session[s].total_limit
      /\ new.expires_at = session[s].expires_at /\ new.revoked = session[s].revoked
  BY <1>1, <1>2, ChargedPolicy DEF ExecuteAllowedTransfer
<1>4. session' = [session EXCEPT ![s] = new]
  BY DEF ExecuteAllowedTransfer
<1> HIDE DEF new
<1>5. balance' \in [Assets -> Nat]
  BY <1>2 DEF ExecuteAllowedTransfer, TypeOK
<1>6. /\ paid' \in [Signers -> Nat]
      /\ \A t \in Signers : paid'[t] = IF t = s THEN paid[t] + amount ELSE paid[t]
  BY <1>2 DEF ExecuteAllowedTransfer, TypeOK
<1>7. session[s].spent + amount <= session[s].total_limit
  BY DEF ExecuteAllowedTransfer, WithinBudget
<1>8. /\ session' \in [Signers -> SessionPolicy \cup {None}]
      /\ session'[s] = new /\ \A t \in Signers : t # s => session'[t] = session[t]
  BY <1>3, <1>4 DEF TypeOK
<1> QED  BY <1>1, <1>2, <1>3, <1>5, <1>6, <1>7, <1>8 DEF ExecuteAllowedTransfer, ValidTransfer

\* The event of a transfer.
LEMMA ReceiptFields ==
  ASSUME TypeOK, NEW s \in Signers, NEW destination \in Places, NEW asset \in Assets,
         NEW amount \in Amounts, NEW nonce \in 0 .. MaxU64, session[s] \in SessionPolicy
  PROVE  /\ Receipt(s, destination, asset, amount, nonce) \in TransferReceipt
         /\ Receipt(s, destination, asset, amount, nonce).session_signer = s
         /\ Receipt(s, destination, asset, amount, nonce).grant = grants[s]
         /\ Receipt(s, destination, asset, amount, nonce).amount = amount
         /\ Receipt(s, destination, asset, amount, nonce).nonce = nonce
         /\ Receipt(s, destination, asset, amount, nonce).spent = session[s].spent + amount
         /\ Receipt(s, destination, asset, amount, nonce).remaining_budget
              = session[s].total_limit - (session[s].spent + amount)
         /\ Receipt(s, destination, asset, amount, nonce).executed_at = now
<1>1. /\ session[s].spent \in Int /\ session[s].total_limit \in Int /\ amount \in Int /\ nonce \in Nat
      /\ grants[s] \in Nat /\ now \in Nat
  BY WidthAssumption DEF SessionPolicy, TypeOK
<1>2. session[s].spent + amount \in Int /\ session[s].total_limit - (session[s].spent + amount) \in Int
  BY <1>1
<1>3. Receipt(s, destination, asset, amount, nonce) \in TransferReceipt
  BY <1>1, <1>2, Zenon DEF Receipt, TransferReceipt
<1> QED  BY <1>3 DEF Receipt

\* Withdrawals, deposits and time leave sessions and events alone.
LEMMA QuietFacts ==
  ASSUME TypeOK,
         \/ \E caller \in Accounts, asset \in Assets, amount \in Amounts : OwnerWithdraw(caller, asset, amount)
         \/ \E asset \in Assets : Deposit(asset)
         \/ Tick
         \/ UNCHANGED vars
  PROVE  /\ UNCHANGED <<session, receipts, grants, granted, paid>>
         /\ balance' \in [Assets -> Nat] /\ now' \in Nat /\ (now' = now \/ now' = now + 1)
<1>1. ASSUME NEW caller \in Accounts, NEW asset \in Assets, NEW amount \in Amounts,
             OwnerWithdraw(caller, asset, amount)
      PROVE  /\ UNCHANGED <<session, receipts, grants, granted, paid, now>>
             /\ balance' \in [Assets -> Nat]
  <2>1. balance[asset] - amount \in Nat
    BY <1>1, WidthAssumption DEF OwnerWithdraw, TypeOK
  <2> QED  BY <1>1, <2>1 DEF OwnerWithdraw, TypeOK
<1>2. ASSUME NEW asset \in Assets, Deposit(asset)
      PROVE  /\ UNCHANGED <<session, receipts, grants, granted, paid, now>>
             /\ balance' \in [Assets -> Nat]
  BY <1>2 DEF Deposit, TypeOK
<1> QED  BY <1>1, <1>2 DEF Tick, vars, TypeOK

\* The kinds of steps.
LEMMA StepKinds ==
  ASSUME TypeOK, [Next]_vars
  PROVE  \/ \E s \in Signers : \E total, expires_at : GrantEffect(s, total, expires_at)
         \/ \E caller \in Accounts, s \in Signers : RevokeSession(caller, s)
         \/ SignerCall
         \/ \E caller \in Accounts, asset \in Assets, amount \in Amounts : OwnerWithdraw(caller, asset, amount)
         \/ \E asset \in Assets : Deposit(asset)
         \/ Tick
         \/ UNCHANGED vars
<1>1. ASSUME NEW caller \in Accounts, NEW s \in Signers, NEW destinations \in SUBSET Places,
             NEW assets \in SUBSET Assets, NEW per \in Limits, NEW total \in Limits,
             NEW expires_at \in 0 .. Horizon + 1,
             GrantSession(caller, s, destinations, assets, per, total, expires_at)
      PROVE  GrantEffect(s, total, expires_at)
  BY <1>1, GrantFacts
<1> QED  BY <1>1 DEF Next, OwnerCall

-----------------------------------------------------------------------------
(* The inductive invariant *)

LEMMA TypeStep ==
  ASSUME TypeOK, [Next]_vars
  PROVE  TypeOK'
<1>1. ASSUME NEW s \in Signers, NEW total, NEW expires_at, GrantEffect(s, total, expires_at)
      PROVE  TypeOK'
  BY <1>1 DEF TypeOK, GrantEffect
<1>2. ASSUME NEW caller \in Accounts, NEW s \in Signers, RevokeSession(caller, s)
      PROVE  TypeOK'
  BY <1>2, RevokeFacts DEF TypeOK
<1>3. ASSUME NEW s \in Signers, NEW destination \in Places, NEW asset \in Assets,
             NEW amount \in Amounts, NEW nonce \in 0 .. MaxU64,
             ExecuteAllowedTransfer(s, destination, asset, amount, nonce)
      PROVE  TypeOK'
  BY <1>3, TransferFacts, ReceiptFields DEF TypeOK
<1>4. ASSUME \/ \E caller \in Accounts, asset \in Assets, amount \in Amounts : OwnerWithdraw(caller, asset, amount)
             \/ \E asset \in Assets : Deposit(asset)
             \/ Tick
             \/ UNCHANGED vars
      PROVE  TypeOK'
  BY <1>4, QuietFacts DEF TypeOK
<1> QED  BY <1>1, <1>2, <1>3, <1>4, StepKinds DEF SignerCall

\* No event speaks of a grant still to be made, of a nonce still to be used or
\* of a moment still to come.
LEMMA PastStep ==
  ASSUME TypeOK, EventsArePast, [Next]_vars
  PROVE  EventsArePast'
<1>1. /\ now \in Nat /\ session \in [Signers -> SessionPolicy \cup {None}] /\ grants \in [Signers -> Nat]
      /\ \A r \in receipts : r.session_signer \in Signers /\ r.grant \in Nat /\ r.nonce \in Nat /\ r.executed_at \in Nat
      /\ \A s \in Signers : session[s] # None => session[s].next_nonce \in Nat
  BY DEF TypeOK, TransferReceipt, SessionPolicy
<1>2. ASSUME NEW s \in Signers, NEW total, NEW expires_at, GrantEffect(s, total, expires_at)
      PROVE  EventsArePast'
  <2>1. /\ \A t \in Signers : t # s => session'[t] = session[t]
        /\ \A t \in Signers : grants'[t] = IF t = s THEN grants[t] + 1 ELSE grants[t]
        /\ receipts' = receipts /\ now' = now
    BY <1>2 DEF GrantEffect
  <2> QED  BY <1>1, <2>1 DEF EventsArePast
<1>3. ASSUME NEW caller \in Accounts, NEW s \in Signers, RevokeSession(caller, s)
      PROVE  EventsArePast'
  <2>1. /\ \A t \in Signers : t # s => session'[t] = session[t]
        /\ session'[s] \in SessionPolicy /\ session'[s].next_nonce = session[s].next_nonce
        /\ UNCHANGED <<now, receipts, grants>>
    BY <1>3, RevokeFacts
  <2> QED  BY <1>1, <2>1, NoneAssumption DEF EventsArePast
<1>4. ASSUME NEW s \in Signers, NEW destination \in Places, NEW asset \in Assets,
             NEW amount \in Amounts, NEW nonce \in 0 .. MaxU64,
             ExecuteAllowedTransfer(s, destination, asset, amount, nonce)
      PROVE  EventsArePast'
  <2> DEFINE new == Receipt(s, destination, asset, amount, nonce)
  <2>1. /\ \A t \in Signers : t # s => session'[t] = session[t]
        /\ session[s] \in SessionPolicy /\ session'[s] \in SessionPolicy
        /\ session'[s].next_nonce = session[s].next_nonce + 1
        /\ nonce = session[s].next_nonce
        /\ receipts' = receipts \cup {new}
        /\ UNCHANGED <<now, grants>>
    BY <1>4, TransferFacts
  <2>2. /\ new.session_signer = s /\ new.grant = grants[s] /\ new.nonce = nonce /\ new.executed_at = now
    BY <2>1, ReceiptFields
  <2>3. session[s].next_nonce \in Nat /\ session[s] # None /\ session'[s] # None
    BY <2>1, NoneAssumption DEF SessionPolicy
  <2> HIDE DEF new
  <2>4. ASSUME NEW r \in receipts
        PROVE  /\ r.grant <= grants'[r.session_signer] /\ r.executed_at <= now'
               /\ r.grant = grants'[r.session_signer] =>
                    /\ session'[r.session_signer] # None
                    /\ r.nonce < session'[r.session_signer].next_nonce
    BY <1>1, <2>1, <2>3 DEF EventsArePast
  <2>5. /\ new.grant <= grants'[new.session_signer] /\ new.executed_at <= now'
        /\ session'[new.session_signer] # None
        /\ new.nonce < session'[new.session_signer].next_nonce
    BY <1>1, <2>1, <2>2, <2>3
  <2> QED  BY <2>1, <2>4, <2>5 DEF EventsArePast
<1>5. ASSUME UNCHANGED <<session, receipts, grants>>, now' \in Nat, now' = now \/ now' = now + 1
      PROVE  EventsArePast'
  BY <1>1, <1>5 DEF EventsArePast
<1> QED  BY <1>2, <1>3, <1>4, <1>5, StepKinds, QuietFacts DEF SignerCall

\* The running totals of the events chain up to the stored session.
LEMMA AddUpStep ==
  ASSUME TypeOK, EventsArePast, ReceiptsAddUp, [Next]_vars
  PROVE  ReceiptsAddUp'
<1>1. /\ now \in Nat /\ session \in [Signers -> SessionPolicy \cup {None}] /\ grants \in [Signers -> Nat]
      /\ \A r \in receipts : r.session_signer \in Signers /\ r.grant \in Nat /\ r.nonce \in Nat /\ r.executed_at \in Nat
      /\ \A s \in Signers : session[s] # None => session[s].next_nonce \in Nat \ {0} /\ session[s].spent \in Nat
  BY DEF TypeOK, TransferReceipt, SessionPolicy
<1>2. ASSUME NEW s \in Signers, NEW total, NEW expires_at, GrantEffect(s, total, expires_at)
      PROVE  ReceiptsAddUp'
  <2>1. /\ \A t \in Signers : t # s => session'[t] = session[t] /\ grants'[t] = grants[t]
        /\ session'[s].next_nonce = 1 /\ session'[s].spent = 0
        /\ receipts' = receipts
    BY <1>2 DEF GrantEffect
  <2> QED  BY <2>1 DEF ReceiptsAddUp
<1>3. ASSUME NEW caller \in Accounts, NEW s \in Signers, RevokeSession(caller, s)
      PROVE  ReceiptsAddUp'
  <2>1. /\ \A t \in Signers : t # s => session'[t] = session[t]
        /\ session[s] \in SessionPolicy
        /\ session'[s].next_nonce = session[s].next_nonce /\ session'[s].spent = session[s].spent
        /\ UNCHANGED <<receipts, grants>>
    BY <1>3, RevokeFacts
  <2> QED  BY <2>1, NoneAssumption DEF ReceiptsAddUp
<1>4. ASSUME NEW s \in Signers, NEW destination \in Places, NEW asset \in Assets,
             NEW amount \in Amounts, NEW nonce \in 0 .. MaxU64,
             ExecuteAllowedTransfer(s, destination, asset, amount, nonce)
      PROVE  ReceiptsAddUp'
  <2> DEFINE new == Receipt(s, destination, asset, amount, nonce)
  <2>1. /\ \A t \in Signers : t # s => session'[t] = session[t]
        /\ session[s] \in SessionPolicy /\ session'[s] \in SessionPolicy
        /\ session'[s].next_nonce = session[s].next_nonce + 1
        /\ session'[s].spent = session[s].spent + amount
        /\ nonce = session[s].next_nonce /\ amount \in Nat
        /\ session[s].spent + amount <= session[s].total_limit
        /\ receipts' = receipts \cup {new}
        /\ UNCHANGED <<now, grants>>
    BY <1>4, TransferFacts
  <2>2. /\ new.session_signer = s /\ new.grant = grants[s] /\ new.nonce = nonce /\ new.executed_at = now
        /\ new.amount = amount /\ new.spent = session[s].spent + amount
        /\ new.remaining_budget = session[s].total_limit - (session[s].spent + amount)
    BY <2>1, ReceiptFields
  <2>3. /\ session[s].next_nonce \in Nat \ {0} /\ session[s] # None
        /\ session[s].spent \in Nat /\ session[s].total_limit \in Nat
    BY <2>1, NoneAssumption DEF SessionPolicy
  <2> HIDE DEF new
  \* The new event continues the chain of its grant.
  <2>4. /\ new.remaining_budget >= 0
        /\ IF new.nonce = 1 THEN new.spent = new.amount
           ELSE \E p \in receipts' : /\ p.session_signer = new.session_signer /\ p.grant = new.grant
                                    /\ p.nonce = new.nonce - 1 /\ p.spent = new.spent - new.amount
                                    /\ p.executed_at <= new.executed_at
    <3>1. CASE session[s].next_nonce = 1
      <4>1. session[s].spent = 0
        BY <2>3, <3>1 DEF ReceiptsAddUp
      <4> QED  BY <2>1, <2>2, <2>3, <3>1, <4>1
    <3>2. CASE session[s].next_nonce # 1
      <4>1. PICK p \in receipts : /\ p.session_signer = s /\ p.grant = grants[s]
                                  /\ p.nonce = session[s].next_nonce - 1 /\ p.spent = session[s].spent
        BY <2>3, <3>2 DEF ReceiptsAddUp
      <4>2. p.executed_at <= now
        BY <4>1 DEF EventsArePast
      <4> QED  BY <2>1, <2>2, <2>3, <3>2, <4>1, <4>2
    <3> QED  BY <3>1, <3>2
  <2>5. \A r \in receipts' :
          /\ r.remaining_budget >= 0
          /\ IF r.nonce = 1 THEN r.spent = r.amount
             ELSE \E p \in receipts' : /\ p.session_signer = r.session_signer /\ p.grant = r.grant
                                      /\ p.nonce = r.nonce - 1 /\ p.spent = r.spent - r.amount
                                      /\ p.executed_at <= r.executed_at
    <3>1. ASSUME NEW r \in receipts
          PROVE  /\ r.remaining_budget >= 0
                 /\ IF r.nonce = 1 THEN r.spent = r.amount
                    ELSE \E p \in receipts' : /\ p.session_signer = r.session_signer /\ p.grant = r.grant
                                             /\ p.nonce = r.nonce - 1 /\ p.spent = r.spent - r.amount
                                             /\ p.executed_at <= r.executed_at
      BY <2>1 DEF ReceiptsAddUp
    <3> QED  BY <2>1, <2>4, <3>1
  \* Its nonce is the one nobody used.
  <2>6. \A r, p \in receipts' :
          (r.session_signer = p.session_signer /\ r.grant = p.grant /\ r.nonce = p.nonce) => r = p
    <3>1. \A r \in receipts : ~(r.session_signer = s /\ r.grant = grants[s] /\ r.nonce = nonce)
      BY <1>1, <2>1, <2>3 DEF EventsArePast
    <3>2. \A r, p \in receipts :
            (r.session_signer = p.session_signer /\ r.grant = p.grant /\ r.nonce = p.nonce) => r = p
      BY DEF ReceiptsAddUp
    <3> QED  BY <2>1, <2>2, <3>1, <3>2
  <2>7. \A t \in Signers : session'[t] # None =>
          IF session'[t].next_nonce = 1 THEN session'[t].spent = 0
          ELSE \E r \in receipts' : /\ r.session_signer = t /\ r.grant = grants'[t]
                                   /\ r.nonce = session'[t].next_nonce - 1
                                   /\ r.spent = session'[t].spent
    <3>1. ASSUME NEW t \in Signers, t # s, session'[t] # None
          PROVE  IF session'[t].next_nonce = 1 THEN session'[t].spent = 0
                 ELSE \E r \in receipts' : /\ r.session_signer = t /\ r.grant = grants'[t]
                                          /\ r.nonce = session'[t].next_nonce - 1
                                          /\ r.spent = session'[t].spent
      BY <2>1, <3>1 DEF ReceiptsAddUp
    <3>2. /\ new \in receipts' /\ new.session_signer = s /\ new.grant = grants'[s]
          /\ new.nonce = session'[s].next_nonce - 1 /\ new.spent = session'[s].spent
          /\ session'[s].next_nonce # 1
      BY <2>1, <2>2, <2>3
    <3> QED  BY <3>1, <3>2
  <2> QED  BY <2>5, <2>6, <2>7 DEF ReceiptsAddUp
<1>5. ASSUME UNCHANGED <<session, receipts, grants>>
      PROVE  ReceiptsAddUp'
  BY <1>5 DEF ReceiptsAddUp
<1> QED  BY <1>2, <1>3, <1>4, <1>5, StepKinds, QuietFacts DEF SignerCall

\* What a session may still pay was granted and has not been paid.
LEMMA BudgetStep ==
  ASSUME TypeOK, BudgetCovered, [Next]_vars
  PROVE  BudgetCovered'
<1>1. /\ granted \in [Signers -> Nat] /\ paid \in [Signers -> Nat]
      /\ \A s \in Signers : session[s] # None =>
           session[s] \in SessionPolicy /\ session[s].spent \in Nat /\ session[s].total_limit \in Nat
  BY DEF TypeOK, SessionPolicy
<1>2. ASSUME NEW s \in Signers, NEW total, NEW expires_at, GrantEffect(s, total, expires_at)
      PROVE  BudgetCovered'
  <2>1. /\ \A t \in Signers : t # s => session'[t] = session[t]
        /\ session'[s].spent = 0 /\ session'[s].total_limit = total /\ total \in Nat
        /\ \A t \in Signers : granted'[t] = IF t = s THEN granted[t] + total ELSE granted[t]
        /\ paid' = paid /\ session'[s] \in SessionPolicy
    BY <1>2 DEF GrantEffect
  <2>2. paid[s] <= granted[s]
    BY <1>1 DEF BudgetCovered
  <2> QED  BY <1>1, <2>1, <2>2, NoneAssumption DEF BudgetCovered
<1>3. ASSUME NEW caller \in Accounts, NEW s \in Signers, RevokeSession(caller, s)
      PROVE  BudgetCovered'
  <2>1. /\ \A t \in Signers : t # s => session'[t] = session[t]
        /\ session[s] \in SessionPolicy /\ session'[s] \in SessionPolicy
        /\ session'[s].total_limit = session[s].total_limit /\ session'[s].spent = session[s].spent
        /\ UNCHANGED <<granted, paid>>
    BY <1>3, RevokeFacts
  <2> QED  BY <2>1, NoneAssumption DEF BudgetCovered
<1>4. ASSUME NEW s \in Signers, NEW destination \in Places, NEW asset \in Assets,
             NEW amount \in Amounts, NEW nonce \in 0 .. MaxU64,
             ExecuteAllowedTransfer(s, destination, asset, amount, nonce)
      PROVE  BudgetCovered'
  <2>1. /\ \A t \in Signers : t # s => session'[t] = session[t]
        /\ session[s] \in SessionPolicy /\ session'[s] \in SessionPolicy
        /\ session'[s].spent = session[s].spent + amount /\ amount \in Nat
        /\ session'[s].total_limit = session[s].total_limit
        /\ session[s].spent + amount <= session[s].total_limit
        /\ \A t \in Signers : paid'[t] = IF t = s THEN paid[t] + amount ELSE paid[t]
        /\ granted' = granted
    BY <1>4, TransferFacts
  <2> QED  BY <1>1, <2>1, NoneAssumption DEF BudgetCovered
<1>5. ASSUME UNCHANGED <<session, granted, paid>>
      PROVE  BudgetCovered'
  BY <1>5 DEF BudgetCovered
<1> QED  BY <1>2, <1>3, <1>4, <1>5, StepKinds, QuietFacts DEF SignerCall

LEMMA InitEscrow == Init => EscrowInv
<1>1. SUFFICES ASSUME Init PROVE EscrowInv
  OBVIOUS
<1>2. TypeOK
  BY <1>1 DEF Init, TypeOK
<1> QED  BY <1>1, <1>2 DEF Init, EscrowInv, ReceiptsAddUp, EventsArePast, BudgetCovered

\* The inductive invariant of the escrow holds throughout.
THEOREM EscrowInvariant == Spec => []EscrowInv
<1>1. EscrowInv /\ [Next]_vars => EscrowInv'
  BY TypeStep, AddUpStep, PastStep, BudgetStep DEF EscrowInv
<1> QED  BY <1>1, InitEscrow, PTL DEF Spec

\* Every stored session is a policy within the widths of its integers, and
\* every event is well formed: the checked additions never leave the types.
THEOREM EscrowTypes == Spec => []TypeOK
<1>1. EscrowInv => TypeOK
  BY DEF EscrowInv
<1> QED  BY <1>1, EscrowInvariant, PTL

\* The events of a grant use each nonce once and in order, and their running
\* totals add up to what the stored session says was spent.
THEOREM EventsAddUp == Spec => []ReceiptsAddUp
<1>1. EscrowInv => ReceiptsAddUp
  BY DEF EscrowInv
<1> QED  BY <1>1, EscrowInvariant, PTL

\* However often its session is granted again, a signer never pays more than
\* the sum of the budgets it was granted.
THEOREM LifetimeBudget == Spec => []PaidWithinGrants
<1>1. EscrowInv => PaidWithinGrants
  <2>1. SUFFICES ASSUME EscrowInv, NEW s \in Signers
                 PROVE  paid[s] <= granted[s]
    BY DEF PaidWithinGrants
  <2>2. /\ paid[s] \in Nat /\ granted[s] \in Nat
        /\ session[s] # None => session[s].spent \in Nat /\ session[s].total_limit \in Nat
    BY <2>1 DEF EscrowInv, TypeOK, SessionPolicy
  <2> QED  BY <2>1, <2>2 DEF EscrowInv, BudgetCovered
<1> QED  BY <1>1, EscrowInvariant, PTL

-----------------------------------------------------------------------------
(* The escrow implements an allowance *)

LEMMA AllowanceInit == Init => Allowance!Init
BY DEF Init, Allowance!Init, OpenSigners, EndOf, LeftOf

LEMMA AllowanceStep ==
  ASSUME TypeOK, [Next]_vars
  PROVE  [Allowance!Next]_(Allowance!avars)
<1>1. /\ session \in [Signers -> SessionPolicy \cup {None}] /\ now \in Nat /\ paid \in [Signers -> Nat]
      /\ \A s \in Signers : session[s] \in SessionPolicy => session[s] # None
      /\ \A s \in Signers : session'[s] \in SessionPolicy => session'[s] # None
  BY NoneAssumption DEF TypeOK
<1> DEFINE EndsOf == [s \in Signers |-> EndOf(s)]
           LeftsOf == [s \in Signers |-> LeftOf(s)]
<1>2. ASSUME NEW s \in Signers, NEW total, NEW expires_at, GrantEffect(s, total, expires_at)
      PROVE  Allowance!Open(s)
  <2>1. /\ \A t \in Signers : t # s => session'[t] = session[t]
        /\ session'[s] # None /\ session'[s].spent = 0 /\ ~session'[s].revoked
        /\ session'[s].total_limit = total /\ session'[s].expires_at = expires_at
        /\ total \in Nat \ {0} /\ expires_at \in Nat /\ expires_at > now
        /\ UNCHANGED <<now, paid>>
    BY <1>1, <1>2 DEF GrantEffect
  <2>2. OpenSigners' = OpenSigners \cup {s}
    BY <2>1 DEF OpenSigners
  <2>3. LeftsOf'[s] \in Nat \ {0} /\ LeftsOf' = [LeftsOf EXCEPT ![s] = LeftsOf'[s]]
    <3>1. LeftOf(s)' \in Nat \ {0} /\ \A t \in Signers : t # s => LeftOf(t)' = LeftOf(t)
      BY <2>1 DEF LeftOf
    <3> QED  BY <3>1
  <2>4. /\ EndsOf'[s] \in Nat /\ EndsOf'[s] > now
        /\ EndsOf' = [EndsOf EXCEPT ![s] = EndsOf'[s]]
    BY <2>1 DEF EndOf
  <2> QED  BY <2>1, <2>2, <2>3, <2>4 DEF Allowance!Open
<1>3. ASSUME NEW caller \in Accounts, NEW s \in Signers, RevokeSession(caller, s)
      PROVE  Allowance!Close(s)
  <2>1. /\ \A t \in Signers : t # s => session'[t] = session[t]
        /\ session[s] # None /\ session'[s] # None
        /\ session'[s].spent = session[s].spent /\ session'[s].total_limit = session[s].total_limit
        /\ session'[s].expires_at = session[s].expires_at /\ session'[s].revoked = TRUE
        /\ UNCHANGED <<now, paid>>
    BY <1>1, <1>3, RevokeFacts
  <2>2. OpenSigners' = OpenSigners \ {s}
    BY <2>1 DEF OpenSigners
  <2>3. LeftsOf' = LeftsOf /\ EndsOf' = EndsOf
    BY <2>1 DEF LeftOf, EndOf
  <2> QED  BY <2>1, <2>2, <2>3 DEF Allowance!Close
<1>4. ASSUME NEW s \in Signers, NEW destination \in Places, NEW asset \in Assets,
             NEW amount \in Amounts, NEW nonce \in 0 .. MaxU64,
             ExecuteAllowedTransfer(s, destination, asset, amount, nonce)
      PROVE  Allowance!Spend(s)
  <2>1. /\ \A t \in Signers : t # s => session'[t] = session[t]
        /\ session[s] # None /\ session'[s] # None
        /\ session[s].spent \in Nat /\ session[s].total_limit \in Nat
        /\ ~session[s].revoked /\ now <= session[s].expires_at
        /\ amount \in Nat \ {0} /\ session[s].spent + amount <= session[s].total_limit
        /\ session'[s].spent = session[s].spent + amount
        /\ session'[s].total_limit = session[s].total_limit
        /\ session'[s].expires_at = session[s].expires_at
        /\ session'[s].revoked = session[s].revoked
        /\ now' = now
    BY <1>1, <1>4, TransferFacts DEF SessionPolicy
  <2>2. OpenSigners' = OpenSigners /\ s \in OpenSigners
    BY <2>1 DEF OpenSigners
  <2>3. amount \in 1 .. LeftsOf[s] /\ LeftsOf' = [LeftsOf EXCEPT ![s] = @ - amount]
    <3>1. /\ amount \in 1 .. LeftOf(s) /\ LeftOf(s)' = LeftOf(s) - amount
          /\ \A t \in Signers : t # s => LeftOf(t)' = LeftOf(t)
      BY <2>1 DEF LeftOf
    <3> QED  BY <3>1
  <2>4. EndsOf' = EndsOf /\ now <= EndsOf[s]
    BY <2>1 DEF EndOf
  <2>5. paid' = [paid EXCEPT ![s] = @ + amount]
    BY <1>4 DEF ExecuteAllowedTransfer
  <2> HIDE DEF LeftsOf, EndsOf
  <2> QED  BY <2>1, <2>2, <2>3, <2>4, <2>5 DEF Allowance!Spend, LeftsOf, EndsOf
<1>5. ASSUME UNCHANGED <<session, paid>>, now' = now \/ now' = now + 1
      PROVE  Allowance!Pass \/ UNCHANGED Allowance!avars
  <2>1. OpenSigners' = OpenSigners /\ LeftsOf' = LeftsOf /\ EndsOf' = EndsOf
    BY <1>5 DEF OpenSigners, LeftOf, EndOf
  <2> QED  BY <1>5, <2>1 DEF Allowance!Pass, Allowance!avars
<1> QED
  BY <1>2, <1>3, <1>4, <1>5, StepKinds, QuietFacts DEF SignerCall, Allowance!Next

\* The escrow contract implements the allowance, step for step.
THEOREM ImplementsAllowance == Spec => AllowanceSpec
<1>1. TypeOK /\ [Next]_vars => [Allowance!Next]_(Allowance!avars)
  BY AllowanceStep
<1> QED  BY <1>1, AllowanceInit, EscrowTypes, PTL DEF Spec, AllowanceSpec, Allowance!Spec
=============================================================================
