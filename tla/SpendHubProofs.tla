--------------------------- MODULE SpendHubProofs ---------------------------
(***************************************************************************)
(* Proofs about the spend hub, for any number of intents, providers, keys  *)
(* and callers and for all limits.                                         *)
(*                                                                         *)
(* HubInv is inductive.  SafeInv, its part about records, says what a      *)
(* request may carry while it waits; without it nothing is known of an     *)
(* approval when it comes back from an await.  BudgetInv, its part about   *)
(* money, says that what is spent and what waits for the network leave the *)
(* limit kept: DailyLimitHolds alone is not inductive, for it says nothing *)
(* of the payments under way.  A sum that is no number knows no limit, and *)
(* only amounts above 0 are waited for.  The steps are first reduced to    *)
(* five kinds (Steps), and only these are looked at for the money.         *)
(***************************************************************************)
EXTENDS SpendHubClients, FiniteSetTheorems, WellFoundedInduction, TLAPS

-----------------------------------------------------------------------------
(* Sums.  SumOver folds a finite set in an order of its own.  The sum is   *)
(* the number of coins gained, less those lost, when every element comes   *)
(* with as many as its amount, and so does not depend on the order.        *)

\* What SumOver folds with.
Eqn(amt, S, g) == g = [s \in SUBSET S |-> IF s = {} THEN 0 ELSE amt[CHOOSE x \in s : TRUE] + g[s \ {CHOOSE x \in s : TRUE}]]

\* SumOver unfolded to the recursive function it is.
LEMMA Unfold ==
  ASSUME NEW amt, NEW S
  PROVE SumOver(amt, S) = (CHOOSE g : Eqn(amt, S, g))[S]
BY DEF SumOver, MapThenSumSet, MapThenFoldSet, Eqn

\* A set of naturals has a least element.
LEMMA Least ==
  ASSUME NEW T, T \subseteq Nat, T # {}
  PROVE  \E n \in T : \A m \in T : n <= m
<1>1. PICK n \in T : \A m \in T : ~(<<m, n>> \in OpToRel(<, Nat))
  BY NatLessThanWellFounded, WFMin
<1>2. \A m \in T : ~(m < n)
  BY <1>1 DEF OpToRel
<1> QED BY <1>2

\* The coins of the elements of S.
Coins(amt, S) == {p \in S \X Nat : 1 <= p[2] /\ p[2] <= amt[p[1]]}

\* One element's coins are as many as its amount.
LEMMA OneElement ==
  ASSUME NEW D, NEW amt \in [D -> Nat], NEW x \in D
  PROVE  IsFiniteSet(Coins(amt, {x})) /\ Cardinality(Coins(amt, {x})) = amt[x]
<1> DEFINE n == amt[x]
           b == [j \in 1..n |-> <<x, j>>]
<1>0. n \in Nat
  OBVIOUS
<1>1. b \in Bijection(1..n, Coins(amt, {x}))
  <2>1. b \in [1..n -> Coins(amt, {x})]
    BY <1>0 DEF Coins
  <2>2. \A i, j \in 1..n : b[i] = b[j] => i = j
    OBVIOUS
  <2>3. \A p \in Coins(amt, {x}) : \E j \in 1..n : b[j] = p
    <3> TAKE p \in Coins(amt, {x})
    <3>1. p = <<x, p[2]>> /\ p[2] \in 1..n
      BY <1>0 DEF Coins
    <3> QED BY <3>1
  <2> QED BY <2>1, <2>2, <2>3 DEF Bijection, Injection, Surjection, IsInjective
<1>2. ExistsBijection(1..n, Coins(amt, {x}))
  BY <1>1 DEF ExistsBijection
<1>3. IsFiniteSet(1..n) /\ Cardinality(1..n) = n
  BY <1>0, FS_Interval
<1> QED BY <1>2, <1>3, FS_Bijection

\* One more element brings as many more coins.
LEMMA AddCoins ==
  ASSUME NEW D, NEW amt \in [D -> Nat], NEW S \in SUBSET D, NEW x \in D \ S,
         IsFiniteSet(Coins(amt, S))
  PROVE  /\ IsFiniteSet(Coins(amt, S \cup {x}))
         /\ Cardinality(Coins(amt, S \cup {x})) = Cardinality(Coins(amt, S)) + amt[x]
<1> DEFINE A == Coins(amt, S)
           B == Coins(amt, {x})
<1>1. Coins(amt, S \cup {x}) = A \cup B /\ A \cap B = {}
  BY DEF Coins
<1>2. IsFiniteSet(A) /\ IsFiniteSet(B) /\ Cardinality(B) = amt[x] /\ amt[x] \in Nat
  BY OneElement
<1> HIDE DEF A, B
<1>3. Cardinality(A) \in Nat /\ Cardinality(A \cap B) = 0
  BY <1>1, <1>2, FS_CardinalityType, FS_EmptySet
<1>4. IsFiniteSet(A \cup B) /\ Cardinality(A \cup B) = Cardinality(A) + Cardinality(B) - Cardinality(A \cap B)
  BY <1>2, FS_Union
<1>5. IsFiniteSet(A \cup B) /\ Cardinality(A \cup B) = Cardinality(A) + amt[x]
  BY <1>2, <1>3, <1>4
<1> QED  BY <1>1, <1>5 DEF A

\* Induction over the subsets of a finite set: if there is a bad one, there is
\* one that is not bad any more without whichever of its elements.
LEMMA SmallestSubset ==
  ASSUME NEW S, IsFiniteSet(S), NEW Bad \in SUBSET SUBSET S, Bad # {}
  PROVE  \E T \in Bad : \A x \in T : T \ {x} \notin Bad
<1> DEFINE N == {Cardinality(T) : T \in Bad}
<1>1. \A T \in SUBSET S : IsFiniteSet(T) /\ Cardinality(T) \in Nat
  BY FS_Subset, FS_CardinalityType
<1>2. N \subseteq Nat /\ N # {}
  BY <1>1
<1>3. PICK n \in N : \A m \in N : n <= m
  <2> HIDE DEF N
  <2> QED  BY <1>2, Least
<1>4. PICK T \in Bad : n = Cardinality(T)
  BY <1>3
<1>5. ASSUME NEW x \in T, T \ {x} \in Bad
      PROVE  FALSE
  <2>1. Cardinality(T \ {x}) = Cardinality(T) - 1
    BY <1>1, <1>4, FS_RemoveElement
  <2>2. n <= Cardinality(T \ {x})
    BY <1>3, <1>5
  <2>3. Cardinality(T) \in Nat
    BY <1>1, <1>4
  <2> QED  BY <1>4, <2>1, <2>2, <2>3
<1> QED  BY <1>4, <1>5

\* Finitely many elements have finitely many coins.
LEMMA CoinsFinite ==
  ASSUME NEW D, NEW amt \in [D -> Nat], NEW S \in SUBSET D, IsFiniteSet(S)
  PROVE  \A T \in SUBSET S : IsFiniteSet(Coins(amt, T))
<1> DEFINE Bad == {T \in SUBSET S : ~IsFiniteSet(Coins(amt, T))}
<1>1. SUFFICES ASSUME Bad # {} PROVE FALSE
  OBVIOUS
<1>2. PICK T \in Bad : \A x \in T : T \ {x} \notin Bad
  <2>1. Bad \in SUBSET SUBSET S
    OBVIOUS
  <2> HIDE DEF Bad
  <2> QED  BY <1>1, <2>1, SmallestSubset
<1>3. Coins(amt, {}) = {}
  BY DEF Coins
<1>4. PICK x \in T : TRUE
  BY <1>2, <1>3, FS_EmptySet
<1>5. IsFiniteSet(Coins(amt, T \ {x}))
  BY <1>2, <1>4
<1>6. x \in D \ (T \ {x}) /\ T \ {x} \in SUBSET D /\ (T \ {x}) \cup {x} = T
  BY <1>2, <1>4
<1>7. IsFiniteSet(Coins(amt, (T \ {x}) \cup {x}))
  BY <1>5, <1>6, AddCoins
<1> QED  BY <1>2, <1>6, <1>7

\* What an amount adds, and what it takes away.
Gains(amt) == [x \in DOMAIN amt |-> IF amt[x] > 0 THEN amt[x] ELSE 0]
Losses(amt) == [x \in DOMAIN amt |-> IF amt[x] > 0 THEN 0 ELSE -amt[x]]

\* The coins gained, less those lost.
Worth(amt, S) == Cardinality(Coins(Gains(amt), S)) - Cardinality(Coins(Losses(amt), S))

\* An amount is what it adds less what it takes away, one of them 0.
LEMMA GainsAndLosses ==
  ASSUME NEW D, NEW amt \in [D -> Int]
  PROVE  /\ Gains(amt) \in [D -> Nat] /\ Losses(amt) \in [D -> Nat]
         /\ \A x \in D : amt[x] = Gains(amt)[x] - Losses(amt)[x]
BY DEF Gains, Losses

\* One more element is worth its amount more.
LEMMA AddWorth ==
  ASSUME NEW D, NEW amt \in [D -> Int], NEW S \in SUBSET D, IsFiniteSet(S), NEW x \in D \ S
  PROVE  Worth(amt, S \cup {x}) = Worth(amt, S) + amt[x] /\ Worth(amt, S) \in Int
<1>1. PICK up \in [D -> Nat], down \in [D -> Nat] :
        up = Gains(amt) /\ down = Losses(amt) /\ amt[x] = up[x] - down[x]
  BY GainsAndLosses
<1>2. IsFiniteSet(Coins(up, S)) /\ IsFiniteSet(Coins(down, S))
  BY CoinsFinite
<1>3. /\ Cardinality(Coins(up, S \cup {x})) = Cardinality(Coins(up, S)) + up[x]
      /\ Cardinality(Coins(down, S \cup {x})) = Cardinality(Coins(down, S)) + down[x]
  BY <1>2, AddCoins
<1>4. Cardinality(Coins(up, S)) \in Nat /\ Cardinality(Coins(down, S)) \in Nat /\ up[x] \in Nat /\ down[x] \in Nat
  BY <1>2, FS_CardinalityType
<1> QED  BY <1>1, <1>3, <1>4 DEF Worth

\* Nothing is worth nothing.
LEMMA NoWorth ==
  ASSUME NEW amt
  PROVE  Worth(amt, {}) = 0
<1>1. Coins(Gains(amt), {}) = {} /\ Coins(Losses(amt), {}) = {}
  BY DEF Coins
<1> QED  BY <1>1, FS_EmptySet DEF Worth

\* A sum over a finite set is what its coins are worth.
LEMMA SumIsWorth ==
  ASSUME NEW D, NEW amt \in [D -> Int], NEW S \in SUBSET D, IsFiniteSet(S)
  PROVE  SumOver(amt, S) = Worth(amt, S)
<1> DEFINE Pick(s) == CHOOSE x \in s : TRUE
           Body(g, s) == IF s = {} THEN 0 ELSE amt[Pick(s)] + g[s \ {Pick(s)}]
           g0 == [s \in SUBSET S |-> Worth(amt, s)]
           it == CHOOSE g : Eqn(amt, S, g)
<1>1. \A s \in SUBSET S : s # {} => Pick(s) \in s
  OBVIOUS
<1>2. ASSUME NEW s \in SUBSET S, s # {}
      PROVE  /\ s \ {Pick(s)} \in SUBSET S
             /\ Worth(amt, s) = amt[Pick(s)] + Worth(amt, s \ {Pick(s)})
  <2>1. PICK x \in s : x = Pick(s)
    BY <1>1, <1>2
  <2> HIDE DEF Pick
  <2>2. /\ x \in D \ (s \ {x}) /\ s \ {x} \in SUBSET D /\ (s \ {x}) \cup {x} = s /\ s \ {x} \in SUBSET S
        /\ IsFiniteSet(s \ {x})
    BY <2>1, FS_Subset
  <2>3. PICK rest : rest = s \ {x}
    OBVIOUS
  <2>4. x \in D \ rest /\ rest \in SUBSET D /\ rest \cup {x} = s /\ rest \in SUBSET S /\ IsFiniteSet(rest)
    BY <2>2, <2>3
  <2>5. Worth(amt, rest \cup {x}) = Worth(amt, rest) + amt[x] /\ Worth(amt, rest) \in Int
    BY <2>4, AddWorth
  <2>6. Worth(amt, s) = Worth(amt, rest) + amt[x]
    BY <2>4, <2>5, Zenon
  <2>7. amt[x] \in Int
    BY <2>4
  <2>8. Worth(amt, s) = amt[x] + Worth(amt, rest)
    BY <2>5, <2>6, <2>7
  <2> QED  BY <2>1, <2>3, <2>4, <2>8
<1>3. Worth(amt, {}) = 0
  BY NoWorth
<1>4. \A s \in SUBSET S : g0[s] = Body(g0, s)
  <2> SUFFICES ASSUME NEW s \in SUBSET S PROVE g0[s] = Body(g0, s)
    OBVIOUS
  <2> HIDE DEF Pick
  <2>1. CASE s = {}
    BY <2>1, <1>3
  <2>2. CASE s # {}
    BY <2>2, <1>2
  <2> QED  BY <2>1, <2>2
<1>5. Eqn(amt, S, g0)
  BY <1>4 DEF Eqn
<1>6. Eqn(amt, S, it)
  <2> HIDE DEF g0
  <2> QED  BY <1>5
<1>7. \A s \in SUBSET S : it[s] = Body(it, s)
  <2> HIDE DEF it
  <2> QED  BY <1>6 DEF Eqn
<1> HIDE DEF g0, it, Pick
<1> DEFINE Bad == {s \in SUBSET S : it[s] # Worth(amt, s)}
<1>8. Bad = {}
  <2>1. SUFFICES ASSUME Bad # {} PROVE FALSE
    OBVIOUS
  <2>2. PICK T \in Bad : \A x \in T : T \ {x} \notin Bad
    <3>1. Bad \in SUBSET SUBSET S
      OBVIOUS
    <3> HIDE DEF Bad
    <3> QED  BY <2>1, <3>1, SmallestSubset
  <2>3. T # {}
    BY <1>3, <1>7, <2>2
  <2>4. T \ {Pick(T)} \in SUBSET S /\ T \ {Pick(T)} \notin Bad
    BY <1>1, <2>2, <2>3
  <2>5. it[T] = amt[Pick(T)] + it[T \ {Pick(T)}]
    BY <1>7, <2>2, <2>3
  <2> QED  BY <1>2, <2>2, <2>3, <2>4, <2>5
<1>9. SumOver(amt, S) = it[S]
  BY Unfold DEF it
<1> QED  BY <1>8, <1>9

\* A sum over nothing is 0.
LEMMA SumOfNone ==
  ASSUME NEW D, NEW amt \in [D -> Int]
  PROVE  SumOver(amt, {}) = 0
BY FS_EmptySet, SumIsWorth, NoWorth

\* A sum only depends on the amounts of its elements.
LEMMA SumAgrees ==
  ASSUME NEW D, NEW amt \in [D -> Int], NEW E, NEW amt2 \in [E -> Int],
         NEW S \in SUBSET D, S \subseteq E, IsFiniteSet(S), \A k \in S : amt2[k] = amt[k]
  PROVE  SumOver(amt2, S) = SumOver(amt, S) /\ SumOver(amt, S) \in Int
<1>1. Coins(Gains(amt2), S) = Coins(Gains(amt), S)
  BY DEF Coins, Gains
<1>2. Coins(Losses(amt2), S) = Coins(Losses(amt), S)
  BY DEF Coins, Losses
<1>3. Cardinality(Coins(Gains(amt), S)) \in Nat /\ Cardinality(Coins(Losses(amt), S)) \in Nat
  BY GainsAndLosses, CoinsFinite, FS_CardinalityType
<1>4. SumOver(amt, S) = Worth(amt, S) /\ SumOver(amt2, S) = Worth(amt2, S)
  BY SumIsWorth
<1> QED  BY <1>1, <1>2, <1>3, <1>4 DEF Worth

\* One more element adds its amount.
LEMMA SumAdds ==
  ASSUME NEW D, NEW amt \in [D -> Int], NEW S \in SUBSET D, IsFiniteSet(S), NEW x \in D \ S
  PROVE  SumOver(amt, S \cup {x}) = SumOver(amt, S) + amt[x]
<1>1. IsFiniteSet(S \cup {x}) /\ S \cup {x} \in SUBSET D
  BY FS_AddElement
<1>2. SumOver(amt, S) = Worth(amt, S) /\ SumOver(amt, S \cup {x}) = Worth(amt, S \cup {x})
  BY <1>1, SumIsWorth
<1> QED  BY <1>2, AddWorth

\* The largest of finitely many numbers is one of them.
LEMMA MaxIsThere ==
  ASSUME NEW n \in Nat, NEW S \in SUBSET (1..n), S # {}
  PROVE  Max(S) \in S
<1> DEFINE U == {m \in Nat : \A y \in S : y <= m}
<1>1. U \subseteq Nat /\ U # {}
  BY DEF U
<1>2. PICK m \in U : \A u \in U : m <= u
  <2> HIDE DEF U
  <2> QED  BY <1>1, Least
<1>3. m \in S
  <2> SUFFICES ASSUME m \notin S PROVE FALSE
    OBVIOUS
  <2>1. \A y \in S : y \in Nat /\ y <= m - 1
    BY <1>2
  <2>2. PICK y \in S : y \in Nat /\ y <= m - 1
    BY <2>1
  <2>3. m \in Nat /\ m - 1 \in Nat
    BY <1>2, <2>2
  <2>4. m - 1 \in U
    BY <2>1, <2>3
  <2>5. m <= m - 1
    BY <1>2, <2>4
  <2> QED  BY <2>3, <2>5
<1>4. \A y \in S : m >= y
  BY <1>2
<1> QED  BY <1>3, <1>4 DEF Max

-----------------------------------------------------------------------------
(* The inductive invariant.  Its parts name the state they speak of, so    *)
(* that a part can be taken from one state to the next as a whole.         *)

KnownIn(ints) == {i \in Intents : ints[i] # NoIntent}

\* What a request of c may carry: an intent there is; an approval that waits
\* for the network did not exceed the limit of a payment, and one under way
\* has seen no receipt that counts; the answer of an approval is a receipt of
\* its intent; a machine client was given what this receipt has paid.
CallSound(c, r, md, ints, recs) ==
  /\ r \in Call
  /\ r.of \in KnownIn(ints) \cup {None}
  /\ r.pc \in {"evaluate", "prove", "rail", "ok"} => r.of # None
  /\ r.op = "approve" /\ r.pc = "rail" => md = "direct" /\ ~Exceeds(ints[r.of].amount, PerPayment)
  /\ r.op = "approve" /\ r.pc \in {"evaluate", "rail"} =>
       r.looked <= Len(recs) /\ \A j \in 1..r.looked : recs[j].of = r.of => recs[j].status = "blocked"
  /\ r.op = "approve" /\ r.pc = "ok" => r.receipt \in 1..Len(recs) /\ recs[r.receipt].of = r.of
  /\ c \in Machines /\ r.op = "resource" /\ r.pc = "ok" /\ r.receipt # 0 =>
       /\ r.receipt \in 1..Len(recs) /\ recs[r.receipt].of = r.of /\ recs[r.receipt].status = "settled"
       /\ ints[r.of].provider = MachineProvider[c]

CallsSound == \A c \in Callers : CallSound(c, call[c], mode, intents, receipts)

\* A key leads to an intent, of whichever provider.
KeysSound == \A key \in Keys : idempotencyKeys[key] \in KnownIn(intents) \cup {None}

ReceiptsSound == \A k \in DOMAIN receipts : receipts[k].of \in Known /\ receipts[k].day <= today

\* The approvals at the network, what each may add to a sum, and those that
\* may add something.  The others lower it, or make it no number.
AtRail == {c \in Callers : call[c].op = "approve" /\ call[c].pc = "rail"}
Adds(amount) == IF amount # NaN /\ amount > 0 THEN amount ELSE 0
Asked == [c \in Callers |-> IF call[c].of \in Intents THEN Adds(intents[call[c].of].amount) ELSE 0]
Awaiting == {c \in AtRail : Asked[c] > 0}

\* What is spent and what waits leaves the limit kept: of n approvals that
\* wait, one has been judged with what is spent now, and the others pay
\* PerPayment at most.
Room(spent, limit, waiting, asked) ==
  IF waiting = {} THEN spent <= limit
  ELSE \E c \in waiting : spent + asked[c] + (Cardinality(waiting) - 1) * PerPayment <= limit

\* A sum that is no number knows no limit.
Fits(spent, limit, waiting, asked) == spent # NaN => Room(spent, limit, waiting, asked)

Present == {c \in Callers : call[c].pc # "away"}

BudgetInv ==
  /\ Fits(SpentToday, DailyLimit + Slack, Awaiting, Asked)
  /\ Fits(SpentThisMonth, MonthlyLimit + Slack, Awaiting, Asked)

StoreInv == TypeOK /\ CallsSound /\ KeysSound /\ ReceiptsSound /\ Cardinality(Present) = AtOnce

SafeInv == StoreInv /\ SettledHasReceipt /\ NoLateSecondReceipt

HubInv == SafeInv /\ BudgetInv

-----------------------------------------------------------------------------
(* What there is stays: intents keep their provider and amount, receipts   *)
(* are only added.                                                         *)

Kept(ints, ints2) ==
  \A i \in KnownIn(ints) :
    i \in KnownIn(ints2) /\ ints2[i].provider = ints[i].provider /\ ints2[i].amount = ints[i].amount

Extended(recs, recs2) ==
  Len(recs) <= Len(recs2) /\ \A k \in 1..Len(recs) : recs2[k] = recs[k]

\* A sound request stays sound when what there is stays.
LEMMA CallGrows ==
  ASSUME NEW c, NEW r, NEW md, NEW ints, NEW ints2, NEW recs \in Seq(Receipt), NEW recs2 \in Seq(Receipt),
         Kept(ints, ints2), Extended(recs, recs2), CallSound(c, r, md, ints, recs)
  PROVE  CallSound(c, r, md, ints2, recs2)
<1>1. r \in Call /\ r.looked \in Nat /\ Len(recs) \in Nat /\ Len(recs2) \in Nat
  BY DEF CallSound, Call
<1>2. r.of \in KnownIn(ints2) \cup {None}
  BY DEF CallSound, Kept
<1>3. r.pc \in {"evaluate", "prove", "rail", "ok"} => r.of # None
  BY DEF CallSound
<1>4. r.of # None => ints2[r.of].provider = ints[r.of].provider /\ ints2[r.of].amount = ints[r.of].amount
  BY DEF CallSound, Kept
<1>5. \A k \in 1..Len(recs) : k \in 1..Len(recs2) /\ recs2[k] = recs[k]
  BY <1>1 DEF Extended
<1>6. r.op = "approve" /\ r.pc = "rail" => md = "direct" /\ ~Exceeds(ints2[r.of].amount, PerPayment)
  BY <1>3, <1>4 DEF CallSound
<1>7. ASSUME r.op = "approve", r.pc \in {"evaluate", "rail"}
      PROVE  r.looked <= Len(recs2) /\ \A j \in 1..r.looked : recs2[j].of = r.of => recs2[j].status = "blocked"
  BY <1>1, <1>5, <1>7 DEF CallSound, Extended
<1>8. r.op = "approve" /\ r.pc = "ok" => r.receipt \in 1..Len(recs2) /\ recs2[r.receipt].of = r.of
  BY <1>5 DEF CallSound
<1>9. c \in Machines /\ r.op = "resource" /\ r.pc = "ok" /\ r.receipt # 0 =>
        /\ r.receipt \in 1..Len(recs2) /\ recs2[r.receipt].of = r.of /\ recs2[r.receipt].status = "settled"
        /\ ints2[r.of].provider = MachineProvider[c]
  BY <1>3, <1>4, <1>5 DEF CallSound
<1> QED  BY <1>1, <1>2, <1>3, <1>6, <1>7, <1>8, <1>9 DEF CallSound

\* A change of status keeps everything else.
LEMMA StatusChange ==
  ASSUME NEW ints \in [Intents -> Intent], NEW i \in KnownIn(ints), NEW st \in Status \ {"absent"}
  PROVE  /\ [ints EXCEPT ![i].status = st] \in [Intents -> Intent]
         /\ KnownIn([ints EXCEPT ![i].status = st]) = KnownIn(ints)
         /\ Kept(ints, [ints EXCEPT ![i].status = st])
<1> DEFINE b == [ints[i] EXCEPT !.status = st]
           ints2 == [ints EXCEPT ![i].status = st]
<1>1. i \in Intents /\ ints[i] \in Intent
  BY DEF KnownIn
<1>2. /\ b \in Intent /\ b.status = st /\ b # NoIntent
      /\ b.provider = ints[i].provider /\ b.amount = ints[i].amount
  BY <1>1 DEF Intent, NoIntent
<1>3. ints2 = [ints EXCEPT ![i] = b]
  BY <1>1
<1> HIDE DEF b, ints2
<1>4. /\ ints2 \in [Intents -> Intent] /\ ints2[i] = b
      /\ \A j \in Intents : j # i => ints2[j] = ints[j]
  BY <1>1, <1>2, <1>3
<1>5. KnownIn(ints2) = KnownIn(ints)
  BY <1>2, <1>4 DEF KnownIn
<1>6. Kept(ints, ints2)
  BY <1>2, <1>4, <1>5 DEF Kept, KnownIn
<1> QED  BY <1>4, <1>5, <1>6 DEF ints2

\* So does a new intent.
LEMMA IntentAdded ==
  ASSUME NEW ints \in [Intents -> Intent], NEW i \in Intents \ KnownIn(ints),
         NEW b \in Intent, b.status = "open"
  PROVE  /\ [ints EXCEPT ![i] = b] \in [Intents -> Intent]
         /\ KnownIn([ints EXCEPT ![i] = b]) = KnownIn(ints) \cup {i}
         /\ Kept(ints, [ints EXCEPT ![i] = b])
BY DEF KnownIn, Kept, NoIntent

\* What the callers' requests may become.
Begun(op, i, pc, n) == [IdleCall EXCEPT !.op = op, !.of = i, !.pc = pc, !.looked = n]
AnsweredWith(op, i, k) == [IdleCall EXCEPT !.op = op, !.of = i, !.pc = "ok", !.receipt = k]

\* The three ways a caller's request is set.
LEMMA RequestForms ==
  ASSUME NEW c, NEW op, NEW i
  PROVE  /\ \A pc : Begin(c, op, i, pc) =>
               call' = [call EXCEPT ![c] = Begun(op, i, pc, IF op = "approve" THEN Len(receipts) ELSE 0)]
         /\ \A k : Answer(c, op, i, k) =>
               \/ call' = [call EXCEPT ![c] = AnsweredWith(op, i, k)]
               \/ call' = [call EXCEPT ![c] = IdleCall]
         /\ Error(c) => call' = [call EXCEPT ![c] = IdleCall]
BY Zenon DEF Begin, Answer, Error, Begun, AnsweredWith

\* What such requests carry.
LEMMA RequestFields ==
  /\ IdleCall \in Call
  /\ \A op \in Op, i \in Intents, pc \in Pc, n \in Nat :
       LET r == Begun(op, i, pc, n) IN
       r \in Call /\ r.op = op /\ r.of = i /\ r.pc = pc /\ r.looked = n /\ r.receipt = 0
  /\ \A op \in Op, i \in Intents, k \in Nat :
       LET r == AnsweredWith(op, i, k) IN
       r \in Call /\ r.op = op /\ r.of = i /\ r.pc = "ok" /\ r.looked = 0 /\ r.receipt = k
<1>1. IdleCall \in Call
  BY DEF IdleCall, Call, Op, Pc
<1>2. PICK b \in Call : b = IdleCall /\ b.looked = 0 /\ b.receipt = 0
  BY <1>1 DEF IdleCall
<1>3. ASSUME NEW op \in Op, NEW i \in Intents, NEW pc \in Pc, NEW n \in Nat
      PROVE  LET r == Begun(op, i, pc, n) IN
             r \in Call /\ r.op = op /\ r.of = i /\ r.pc = pc /\ r.looked = n /\ r.receipt = 0
  BY <1>2 DEF Begun, Call
<1>4. ASSUME NEW op \in Op, NEW i \in Intents, NEW k \in Nat
      PROVE  LET r == AnsweredWith(op, i, k) IN
             r \in Call /\ r.op = op /\ r.of = i /\ r.pc = "ok" /\ r.looked = 0 /\ r.receipt = k
  BY <1>2 DEF AnsweredWith, Call, Pc
<1> QED  BY <1>1, <1>3, <1>4

-----------------------------------------------------------------------------
(* What a step does, and that it preserves SafeInv                         *)

\* Known as an operator of the intents, to speak of another state's.
LEMMA KnownIs == Known = KnownIn(intents)
BY DEF Known, KnownIn

\* What the proofs use of HubAssumption.
LEMMA Limits ==
  /\ PerPayment \in Nat /\ DailyLimit \in Nat /\ MonthlyLimit \in Nat
  /\ PerPayment <= DailyLimit /\ DailyLimit <= MonthlyLimit
  /\ None \notin Intents /\ None \notin Keys /\ IsFiniteSet(Callers)
BY HubAssumption

\* One caller's request changes, and everything else that calls carry stays
\* sound.
LEMMA CallsMove ==
  ASSUME StoreInv, NEW c \in Callers, NEW r, call' = [call EXCEPT ![c] = r],
         call[c].pc # "away", r.pc # "away", UNCHANGED mode,
         receipts' \in Seq(Receipt), Kept(intents, intents'), Extended(receipts, receipts'),
         CallSound(c, r, mode, intents', receipts')
  PROVE  call' \in [Callers -> Call] /\ CallsSound' /\ Cardinality(Present)' = AtOnce
<1>1. /\ call \in [Callers -> Call] /\ receipts \in Seq(Receipt)
      /\ \A d \in Callers : CallSound(d, call[d], mode, intents, receipts)
  BY DEF StoreInv, TypeOK, CallsSound
<1>2. r \in Call
  BY DEF CallSound
<1>3. call'[c] = r /\ \A d \in Callers : d # c => call'[d] = call[d]
  BY <1>1
<1>4. ASSUME NEW d \in Callers
      PROVE  CallSound(d, call'[d], mode', intents', receipts')
  <2>1. PICK k, md, ints, ints2 : k = call[d] /\ md = mode /\ ints = intents /\ ints2 = intents'
    OBVIOUS
  <2>2. PICK recs \in Seq(Receipt), recs2 \in Seq(Receipt) : recs = receipts /\ recs2 = receipts'
    BY <1>1
  <2>3. CallSound(d, k, md, ints, recs)
    BY <1>1, <2>1, <2>2
  <2>4. CallSound(d, k, md, ints2, recs2)
    BY <2>1, <2>2, <2>3, CallGrows
  <2> QED  BY <1>3, <2>1, <2>2, <2>4
<1>5. Present' = Present
  BY <1>3 DEF Present
<1>6. Cardinality(Present)' = AtOnce
  BY <1>5 DEF StoreInv
<1> QED  BY <1>1, <1>2, <1>4, <1>6 DEF CallsSound

\* The keys stay sound when none is added.
LEMMA KeysKept ==
  ASSUME StoreInv, Kept(intents, intents'), UNCHANGED idempotencyKeys
  PROVE  KeysSound'
BY DEF StoreInv, KeysSound, Kept

\* A step that records no receipt and makes no intent.
LEMMA QuietStep ==
  ASSUME SafeInv, NEW c \in Callers, NEW r, call' = [call EXCEPT ![c] = r],
         call[c].pc # "away", r.pc # "away", CallSound(c, r, mode, intents, receipts),
         \/ intents' = intents
         \/ \E i \in Known, st \in {"open", "closed"} : intents' = [intents EXCEPT ![i].status = st],
         proofs' \subseteq proofs \cup Known, spendRequests' \subseteq spendRequests \cup Known,
         UNCHANGED <<mode, today, receipts, idempotencyKeys>>
  PROVE  SafeInv' /\ Kept(intents, intents')
<1>1. /\ StoreInv /\ TypeOK /\ SettledHasReceipt /\ NoLateSecondReceipt /\ ReceiptsSound
      /\ intents \in [Intents -> Intent] /\ receipts \in Seq(Receipt)
      /\ proofs \subseteq Known /\ spendRequests \subseteq Known
  BY DEF SafeInv, StoreInv, TypeOK
<1>2. /\ intents' \in [Intents -> Intent] /\ Known' = Known /\ Kept(intents, intents')
      /\ \A j \in Intents : intents'[j].status \in {"settled", "approved_preview"} => intents[j] = intents'[j]
  <2>1. CASE intents' = intents
    BY <1>1, <2>1 DEF Kept, Known, KnownIn
  <2>2. CASE \E i \in Known, st \in {"open", "closed"} : intents' = [intents EXCEPT ![i].status = st]
    <3>1. PICK ints \in [Intents -> Intent] : ints = intents
      BY <1>1
    <3>2. PICK i \in KnownIn(ints), st \in {"open", "closed"} : intents' = [ints EXCEPT ![i].status = st]
      BY <2>2, <3>1, KnownIs
    <3>3. st \in Status \ {"absent"}
      BY DEF Status
    <3>4. /\ intents' \in [Intents -> Intent] /\ KnownIn(intents') = KnownIn(ints) /\ Kept(ints, intents')
      BY <3>2, <3>3, StatusChange
    <3>5. \A j \in Intents : intents'[j].status \in {"settled", "approved_preview"} => ints[j] = intents'[j]
      BY <3>2 DEF KnownIn, Intent
    <3>6. Known' = KnownIn(intents')
      BY DEF Known, KnownIn
    <3> QED  BY <3>1, <3>4, <3>5, <3>6, KnownIs
  <2> QED  BY <2>1, <2>2
<1>3. Extended(receipts, receipts')
  BY <1>1 DEF Extended
<1>4. CallSound(c, r, mode, intents', receipts')
  <2>1. PICK md, ints, ints2 : md = mode /\ ints = intents /\ ints2 = intents'
    OBVIOUS
  <2>2. PICK recs \in Seq(Receipt) : recs = receipts
    BY <1>1
  <2> QED  BY <1>2, <1>3, <2>1, <2>2, CallGrows
<1>5. call' \in [Callers -> Call] /\ CallsSound' /\ Cardinality(Present)' = AtOnce
  BY <1>1, <1>2, <1>3, <1>4, CallsMove
<1>6. TypeOK'
  BY <1>1, <1>2, <1>5 DEF TypeOK
<1>7. KeysSound'
  BY <1>1, <1>2, KeysKept
<1>8. ReceiptsSound'
  BY <1>1, <1>2 DEF ReceiptsSound
<1>9. SettledHasReceipt'
  BY <1>1, <1>2 DEF SettledHasReceipt
<1>10. NoLateSecondReceipt'
  BY <1>1 DEF NoLateSecondReceipt
<1> QED  BY <1>2, <1>5, <1>6, <1>7, <1>8, <1>9, <1>10 DEF SafeInv, StoreInv

\* What a receipt has paid for.
Delivered(c, i, k) ==
  /\ k \in 1..Len(receipts) /\ receipts[k].of = i /\ receipts[k].status = "settled"
  /\ c \in Machines => intents[i].provider = MachineProvider[c]

\* The requests a caller makes, or the answers it gets, are sound.
LEMMA IdleSound ==
  ASSUME NEW c
  PROVE  CallSound(c, IdleCall, mode, intents, receipts)
BY RequestFields DEF CallSound, IdleCall

\* A request that begins with an intent there is; an approval has looked.
LEMMA BegunSound ==
  ASSUME StoreInv, NEW c \in Callers, NEW i \in Known, NEW op \in Op, NEW pc \in {"evaluate", "prove"},
         NEW n \in Nat, op = "approve" => n = Len(receipts) /\ Existing(i) = {}
  PROVE  /\ CallSound(c, Begun(op, i, pc, n), mode, intents, receipts)
         /\ Begun(op, i, pc, n).pc = pc
<1> DEFINE r == Begun(op, i, pc, n)
<1>1. i \in Intents /\ i \in KnownIn(intents) /\ pc \in Pc
  BY KnownIs DEF Known, Pc
<1>2. r \in Call /\ r.op = op /\ r.of = i /\ r.pc = pc /\ r.looked = n /\ r.receipt = 0
  BY <1>1, RequestFields
<1> HIDE DEF r
<1>3. op = "approve" => \A j \in 1..n : receipts[j].of = i => receipts[j].status = "blocked"
  BY DEF StoreInv, TypeOK, Existing
<1>4. i # None
  BY <1>1, Limits
<1>5. CallSound(c, r, mode, intents, receipts)
  BY <1>1, <1>2, <1>3, <1>4 DEF CallSound, StoreInv, TypeOK
<1> QED  BY <1>2, <1>5 DEF r

\* An answer about an intent there is.
LEMMA AnswerSound ==
  ASSUME StoreInv, NEW c \in Callers, NEW i \in Known, NEW op \in Op, NEW k \in Nat,
         op = "approve" => k \in 1..Len(receipts) /\ receipts[k].of = i,
         op = "resource" /\ k # 0 => Delivered(c, i, k)
  PROVE  /\ CallSound(c, AnsweredWith(op, i, k), mode, intents, receipts)
         /\ AnsweredWith(op, i, k).pc = "ok"
<1> DEFINE r == AnsweredWith(op, i, k)
<1>1. i \in Intents /\ i \in KnownIn(intents) /\ i # None
  BY KnownIs, Limits DEF Known
<1>2. r \in Call /\ r.op = op /\ r.of = i /\ r.pc = "ok" /\ r.looked = 0 /\ r.receipt = k
  BY <1>1, RequestFields
<1> HIDE DEF r
<1>3. CallSound(c, r, mode, intents, receipts)
  BY <1>1, <1>2 DEF CallSound, Delivered
<1> QED  BY <1>2, <1>3 DEF r

\* What a call becomes when it begins, is answered or fails.
SoundMove(c, pcs) ==
  \E r : call' = [call EXCEPT ![c] = r] /\ CallSound(c, r, mode, intents, receipts) /\ r.pc \in pcs

\* The same for the actions' forms.
LEMMA BeginMoves ==
  ASSUME StoreInv, NEW c \in Callers, NEW i \in Known, NEW op \in Op, NEW pc \in {"evaluate", "prove"},
         op = "approve" => Existing(i) = {}, Begin(c, op, i, pc)
  PROVE  SoundMove(c, {"evaluate", "prove"})
<1>1. PICK n \in Nat : n = IF op = "approve" THEN Len(receipts) ELSE 0
  BY DEF StoreInv, TypeOK
<1>2. PICK r : r = Begun(op, i, pc, n)
  OBVIOUS
<1>3. op = "approve" => n = Len(receipts) /\ Existing(i) = {}
  BY <1>1
<1>4. CallSound(c, r, mode, intents, receipts) /\ r.pc = pc
  BY <1>2, <1>3, BegunSound
<1>5. call' = [call EXCEPT ![c] = r]
  <2>1. call' = [call EXCEPT ![c] = Begun(op, i, pc, IF op = "approve" THEN Len(receipts) ELSE 0)]
    BY RequestForms, Zenon
  <2>2. r = Begun(op, i, pc, IF op = "approve" THEN Len(receipts) ELSE 0)
    BY <1>1, <1>2, Zenon
  <2> QED  BY <2>1, <2>2, Zenon
<1>6. r.pc \in {"evaluate", "prove"}
  BY <1>4
<1> QED  BY <1>4, <1>5, <1>6, Zenon DEF SoundMove

\* An error, too, is a sound move.
LEMMA ErrorMoves ==
  ASSUME NEW c, Error(c)
  PROVE  SoundMove(c, {"idle"})
<1>1. IdleCall.pc = "idle" /\ CallSound(c, IdleCall, mode, intents, receipts)
  BY IdleSound DEF IdleCall
<1>2. call' = [call EXCEPT ![c] = IdleCall]
  BY RequestForms
<1>3. IdleCall.pc \in {"idle"}
  BY <1>1
<1> QED  BY <1>1, <1>2, <1>3, Zenon DEF SoundMove

\* And so is an answer, or the idleness of a caller without a script.
LEMMA AnswerMoves ==
  ASSUME StoreInv, NEW c \in Callers, NEW i \in Known, NEW op \in Op, NEW k \in Nat,
         op = "approve" => k \in 1..Len(receipts) /\ receipts[k].of = i,
         op = "resource" /\ k # 0 => Delivered(c, i, k),
         Answer(c, op, i, k)
  PROVE  SoundMove(c, {"ok", "idle"})
<1>1. CASE call' = [call EXCEPT ![c] = IdleCall]
  <2>1. CallSound(c, IdleCall, mode, intents, receipts) /\ IdleCall.pc \in {"ok", "idle"}
    BY IdleSound DEF IdleCall
  <2> QED  BY <1>1, <2>1, Zenon DEF SoundMove
<1>2. CASE call' = [call EXCEPT ![c] = AnsweredWith(op, i, k)]
  <2>1. PICK r : r = AnsweredWith(op, i, k)
    OBVIOUS
  <2>2. CallSound(c, r, mode, intents, receipts) /\ r.pc \in {"ok", "idle"}
    BY <2>1, AnswerSound
  <2> QED  BY <1>2, <2>1, <2>2, Zenon DEF SoundMove
<1> QED  BY <1>1, <1>2, RequestForms

\* A new intent, or the one its key leads to.
LEMMA CreateStep ==
  ASSUME SafeInv, NEW c \in Callers, call[c].pc # "away", NEW op \in {"create", "resource"},
         NEW key \in Keys \cup {None}, NEW p \in Providers, NEW type \in Type, NEW amount \in Amounts,
         CreateIntent(c, op, key, p, type, amount)
  PROVE  /\ SafeInv' /\ Kept(intents, intents') /\ UNCHANGED <<mode, today, receipts>>
         /\ \E r : call' = [call EXCEPT ![c] = r] /\ r.pc # "rail"
<1>1. /\ StoreInv /\ TypeOK /\ SettledHasReceipt /\ NoLateSecondReceipt /\ ReceiptsSound /\ KeysSound
      /\ intents \in [Intents -> Intent] /\ receipts \in Seq(Receipt)
      /\ proofs \subseteq Known /\ spendRequests \subseteq Known
      /\ idempotencyKeys \in [Keys -> Intents \cup {None}]
  BY DEF SafeInv, StoreInv, TypeOK
<1>2. op \in Op /\ IdleCall.pc = "idle"
  BY DEF Op, IdleCall
<1>3. CASE key # None /\ idempotencyKeys[key] # None
  <2>1. PICK i : i = idempotencyKeys[key]
    OBVIOUS
  <2>2. key \in Keys /\ i \in KnownIn(intents) \cup {None}
    BY <1>1, <1>3, <2>1 DEF KeysSound
  <2>3. i \in Known
    BY <1>3, <2>1, <2>2, KnownIs
  <2>4. Answer(c, op, i, 0) /\ UNCHANGED <<mode, today, store>>
    BY <1>3, <2>1, Zenon DEF CreateIntent
  <2>5. PICK r : /\ call' = [call EXCEPT ![c] = r]
                 /\ CallSound(c, r, mode, intents, receipts)
                 /\ r.pc \in {"ok", "idle"}
    <3>1. op # "approve"
      OBVIOUS
    <3> QED  BY <1>1, <1>2, <2>3, <2>4, <3>1, AnswerMoves DEF SoundMove
  <2>6. SafeInv' /\ Kept(intents, intents')
    <3>1. UNCHANGED <<mode, today, receipts, idempotencyKeys, intents, proofs, spendRequests>>
      BY <2>4 DEF store
    <3>2. r.pc # "away"
      BY <2>5
    <3>3. proofs' \subseteq proofs \cup Known /\ spendRequests' \subseteq spendRequests \cup Known
      BY <3>1
    <3> QED  BY <2>5, <3>1, <3>2, <3>3, QuietStep
  <2>7. r.pc # "rail"
    BY <2>5
  <2>8. UNCHANGED <<mode, today, receipts>>
    BY <2>4 DEF store
  <2> QED  BY <2>5, <2>6, <2>7, <2>8
<1>4. CASE ~(key # None /\ idempotencyKeys[key] # None)
  <2>1. PICK i \in Intents \ Known :
          /\ intents' = [intents EXCEPT ![i] = Built(p, type, amount)]
          /\ idempotencyKeys' = IF key = None THEN idempotencyKeys
                                ELSE [idempotencyKeys EXCEPT ![key] = i]
          /\ Answer(c, op, i, 0)
    BY <1>4, Zenon DEF CreateIntent
  <2>2. UNCHANGED <<mode, today, receipts, proofs, spendRequests>>
    BY <1>4 DEF CreateIntent
  <2>3. PICK b : b = Built(p, type, amount)
    OBVIOUS
  <2>4. /\ b \in Intent /\ b.status = "open"
    BY <2>3, HubAssumption DEF Built, Intent, Status
  <2>5. PICK ints \in [Intents -> Intent] : ints = intents
    BY <1>1
  <2>6. i \in Intents \ KnownIn(ints) /\ intents' = [ints EXCEPT ![i] = b]
    BY <2>1, <2>3, <2>5, KnownIs
  <2>7. /\ intents' \in [Intents -> Intent] /\ KnownIn(intents') = KnownIn(ints) \cup {i} /\ Kept(ints, intents')
    BY <2>4, <2>6, IntentAdded
  <2>8. Known' = Known \cup {i} /\ Kept(intents, intents')
    BY <2>5, <2>7, KnownIs DEF Known, KnownIn
  <2>9. intents'[i] = b /\ \A j \in Intents : j # i => intents'[j] = intents[j]
    BY <2>5, <2>6
  <2>10. Extended(receipts, receipts')
    BY <1>1, <2>2 DEF Extended
  <2>11. PICK r : /\ call' = [call EXCEPT ![c] = r] /\ r.pc \in {"ok", "idle"}
                  /\ CallSound(c, r, mode, intents', receipts')
    <3>1. CASE call' = [call EXCEPT ![c] = IdleCall]
      <4>1. CallSound(c, IdleCall, mode, intents', receipts')
        BY RequestFields DEF CallSound, IdleCall
      <4> QED  BY <1>2, <3>1, <4>1
    <3>2. CASE call' = [call EXCEPT ![c] = AnsweredWith(op, i, 0)]
      <4>1. PICK r : r = AnsweredWith(op, i, 0)
        OBVIOUS
      <4>2. r \in Call /\ r.op = op /\ r.of = i /\ r.pc = "ok" /\ r.looked = 0 /\ r.receipt = 0
        BY <1>2, <2>1, <4>1, RequestFields
      <4>3. i \in KnownIn(intents') /\ i # None
        BY <2>7, Limits
      <4>4. CallSound(c, r, mode, intents', receipts')
        BY <4>2, <4>3 DEF CallSound
      <4> QED  BY <3>2, <4>1, <4>2, <4>4
    <3> QED  BY <2>1, <3>1, <3>2, RequestForms
  <2>12. call' \in [Callers -> Call] /\ CallsSound' /\ Cardinality(Present)' = AtOnce
    BY <1>1, <2>2, <2>8, <2>10, <2>11, CallsMove
  <2>13. /\ idempotencyKeys' \in [Keys -> Intents \cup {None}]
         /\ \A k \in Keys : idempotencyKeys'[k] = IF k = key THEN i ELSE idempotencyKeys[k]
    BY <1>1, <2>1, Limits
  <2>14. KeysSound'
    <3> SUFFICES ASSUME NEW k \in Keys
                 PROVE  idempotencyKeys'[k] \in KnownIn(intents') \cup {None}
      BY DEF KeysSound
    <3>1. idempotencyKeys[k] \in KnownIn(ints) \cup {None}
      BY <1>1, <2>5 DEF KeysSound
    <3> QED  BY <2>7, <2>13, <3>1
  <2>15. TypeOK'
    BY <1>1, <2>2, <2>7, <2>8, <2>12, <2>13 DEF TypeOK
  <2>16. ReceiptsSound'
    BY <1>1, <2>2, <2>8 DEF ReceiptsSound
  <2>17. SettledHasReceipt'
    BY <1>1, <2>2, <2>4, <2>9 DEF SettledHasReceipt
  <2>18. NoLateSecondReceipt'
    BY <1>1, <2>2 DEF NoLateSecondReceipt
  <2>19. SafeInv'
    BY <2>12, <2>14, <2>15, <2>16, <2>17, <2>18 DEF SafeInv, StoreInv
  <2>20. r.pc # "rail"
    BY <2>11
  <2> QED  BY <2>2, <2>8, <2>11, <2>19, <2>20
<1> QED  BY <1>3, <1>4

\* An approval ends in a receipt.
LEMMA RecordStep ==
  ASSUME SafeInv, NEW c \in Callers, NEW status \in ReceiptStatus, RecordReceipt(c, status),
         call[c].op \in Route, call[c].pc \in {"evaluate", "rail"},
         UNCHANGED <<mode, today, proofs, idempotencyKeys>>,
         spendRequests' \subseteq spendRequests \cup Known
  PROVE  /\ SafeInv' /\ Kept(intents, intents')
         /\ \E rec \in Receipt : /\ receipts' = Append(receipts, rec)
                                 /\ rec.of = call[c].of /\ rec.status = status /\ rec.day = today
         /\ \E r : call' = [call EXCEPT ![c] = r] /\ r.pc # "rail"
<1>1. /\ StoreInv /\ TypeOK /\ SettledHasReceipt /\ NoLateSecondReceipt /\ ReceiptsSound /\ KeysSound
      /\ CallSound(c, call[c], mode, intents, receipts)
      /\ intents \in [Intents -> Intent] /\ receipts \in Seq(Receipt) /\ today \in Nat
      /\ proofs \subseteq Known /\ spendRequests \subseteq Known
      /\ call[c] \in Call
  BY DEF SafeInv, StoreInv, TypeOK, CallsSound
<1>2. PICK i \in Intents \cup {None}, route \in Route, n \in Nat :
        i = call[c].of /\ route = call[c].op /\ n = Len(receipts)
  <2>1. call[c].of \in Intents \cup {None} /\ Len(receipts) \in Nat
    BY <1>1 DEF Call
  <2> QED  BY <2>1
<1>3. i \in Known /\ i \in Intents /\ i # None
  BY <1>1, <1>2, KnownIs DEF CallSound, Known
<1>4. PICK rec : rec = [of |-> i, status |-> status, day |-> today, route |-> route, looked |-> call[c].looked]
  OBVIOUS
<1>5. /\ rec \in Receipt /\ rec.of = i /\ rec.status = status /\ rec.day = today
      /\ rec.route = route /\ rec.looked = call[c].looked
  BY <1>1, <1>3, <1>4 DEF Receipt, Call
<1>6. PICK st \in {"settled", "approved_preview"} :
        st = (IF status = "settled" THEN "settled" ELSE "approved_preview")
  OBVIOUS
<1>7. /\ receipts' = Append(receipts, rec)
      /\ intents' = [intents EXCEPT ![i].status = st]
      /\ Answer(c, route, i, n + 1)
  BY <1>2, <1>4, <1>6, Zenon DEF RecordReceipt, SetStatus
<1>8. /\ receipts' \in Seq(Receipt) /\ Len(receipts') = n + 1 /\ receipts'[n + 1] = rec
      /\ \A k \in 1..n : receipts'[k] = receipts[k]
  BY <1>1, <1>2, <1>5, <1>7
<1>9. Extended(receipts, receipts')
  BY <1>2, <1>8 DEF Extended
<1>10. /\ intents' \in [Intents -> Intent] /\ Known' = Known /\ Kept(intents, intents')
       /\ intents'[i].status = st
       /\ \A j \in Intents : j # i => intents'[j] = intents[j]
  <2>1. PICK ints \in [Intents -> Intent] : ints = intents
    BY <1>1
  <2>2. st \in Status \ {"absent"} /\ i \in KnownIn(ints) /\ intents' = [ints EXCEPT ![i].status = st]
    BY <1>3, <1>7, <2>1, KnownIs DEF Status
  <2>3. /\ intents' \in [Intents -> Intent] /\ KnownIn(intents') = KnownIn(ints) /\ Kept(ints, intents')
    BY <2>2, StatusChange
  <2>4. intents'[i].status = st /\ \A j \in Intents : j # i => intents'[j] = ints[j]
    BY <1>3, <2>2 DEF Intent
  <2>5. Known' = KnownIn(intents')
    BY DEF Known, KnownIn
  <2> QED  BY <2>1, <2>3, <2>4, <2>5, KnownIs
<1>11. PICK r : /\ call' = [call EXCEPT ![c] = r] /\ r.pc \in {"ok", "idle"}
                /\ CallSound(c, r, mode, intents', receipts')
  <2>1. CASE call' = [call EXCEPT ![c] = IdleCall]
    <3>1. CallSound(c, IdleCall, mode, intents', receipts') /\ IdleCall.pc \in {"ok", "idle"}
      BY RequestFields DEF CallSound, IdleCall
    <3> QED  BY <2>1, <3>1, Zenon
  <2>2. CASE call' = [call EXCEPT ![c] = AnsweredWith(route, i, n + 1)]
    <3>1. PICK r : r = AnsweredWith(route, i, n + 1)
      OBVIOUS
    <3>2. r \in Call /\ r.op = route /\ r.of = i /\ r.pc = "ok" /\ r.looked = 0 /\ r.receipt = n + 1
      BY <1>2, <1>3, <3>1, RequestFields DEF Route, Op
    <3>3. i \in KnownIn(intents')
      BY <1>3, <1>10, KnownIs DEF Kept, Known, KnownIn
    <3>4. route # "resource"
      BY DEF Route
    <3>5. r.receipt \in 1..Len(receipts') /\ receipts'[r.receipt].of = i
      BY <1>5, <1>8, <3>2
    <3>6. CallSound(c, r, mode, intents', receipts')
      BY <1>3, <3>2, <3>3, <3>4, <3>5 DEF CallSound
    <3>7. r.pc \in {"ok", "idle"}
      BY <3>2
    <3> QED  BY <2>2, <3>1, <3>6, <3>7, Zenon
  <2> QED  BY <1>7, <2>1, <2>2, RequestForms
<1>12. call' \in [Callers -> Call] /\ CallsSound' /\ Cardinality(Present)' = AtOnce
  <2>1. r.pc # "away" /\ call[c].pc # "away"
    BY <1>11
  <2> QED  BY <1>1, <1>8, <1>9, <1>10, <1>11, <2>1, CallsMove
<1>13. TypeOK'
  BY <1>1, <1>8, <1>10, <1>12 DEF TypeOK
<1>14. KeysSound'
  BY <1>1, <1>10, KeysKept
<1>15. ReceiptsSound'
  <2> SUFFICES ASSUME NEW k \in 1..(n + 1)
               PROVE  receipts'[k].of \in Known /\ receipts'[k].day <= today
    BY <1>8, <1>10 DEF ReceiptsSound
  <2>1. CASE k = n + 1
    BY <1>1, <1>3, <1>5, <1>8, <2>1
  <2>2. CASE k \in 1..n
    BY <1>1, <1>2, <1>8, <2>2 DEF ReceiptsSound
  <2> QED  BY <1>2, <2>1, <2>2
<1>16. SettledHasReceipt'
  <2> SUFFICES ASSUME NEW j \in Intents
               PROVE  /\ intents'[j].status = "settled" =>
                           \E k \in 1..(n + 1) : receipts'[k].of = j /\ receipts'[k].status = "settled"
                      /\ intents'[j].status = "approved_preview" =>
                           \E k \in 1..(n + 1) : receipts'[k].of = j /\ receipts'[k].status # "settled"
    BY <1>8 DEF SettledHasReceipt
  <2>1. CASE j = i
    <3>1. n + 1 \in 1..(n + 1)
      BY <1>2
    <3> QED  BY <1>5, <1>6, <1>8, <1>10, <2>1, <3>1
  <2>2. CASE j # i
    <3>1. \A k \in 1..n : k \in 1..(n + 1)
      BY <1>2
    <3> QED  BY <1>1, <1>2, <1>8, <1>10, <2>2, <3>1 DEF SettledHasReceipt
  <2> QED  BY <2>1, <2>2
<1>17. NoLateSecondReceipt'
  <2> SUFFICES ASSUME NEW j \in 1..(n + 1), NEW k \in 1..(n + 1), j < k,
                      receipts'[j].of = receipts'[k].of, receipts'[j].status # "blocked",
                      receipts'[k].route = "approve"
               PROVE  receipts'[k].looked < j
    BY <1>8 DEF NoLateSecondReceipt
  <2>1. j \in 1..n
    BY <1>2
  <2>2. CASE k = n + 1
    <3>1. /\ receipts[j].of = i /\ receipts[j].status # "blocked" /\ route = "approve"
          /\ receipts'[k].looked = call[c].looked
      BY <1>5, <1>8, <2>1, <2>2
    <3>2. \A l \in 1..call[c].looked : receipts[l].of = i => receipts[l].status = "blocked"
      BY <1>1, <1>2, <3>1 DEF CallSound
    <3>3. j \notin 1..call[c].looked /\ call[c].looked \in Nat
      BY <1>1, <3>1, <3>2 DEF Call
    <3> QED  BY <2>1, <3>1, <3>3
  <2>3. CASE k \in 1..n
    BY <1>1, <1>2, <1>8, <2>1, <2>3 DEF NoLateSecondReceipt
  <2> QED  BY <1>2, <2>2, <2>3
<1>18. SafeInv'
  BY <1>12, <1>13, <1>14, <1>15, <1>16, <1>17 DEF SafeInv, StoreInv
<1>19. r.pc # "rail"
  BY <1>11
<1> QED  BY <1>2, <1>5, <1>7, <1>10, <1>11, <1>18, <1>19

\* A call goes on to wait for the network.
LEMMA RailMoves ==
  ASSUME StoreInv, NEW c \in Callers, call[c].pc = "evaluate", call' = [call EXCEPT ![c].pc = "rail"],
         call[c].op = "approve" => mode = "direct" /\ ~Exceeds(intents[call[c].of].amount, PerPayment)
  PROVE  SoundMove(c, {"rail"}) /\ call'[c].op = call[c].op
<1>1. call \in [Callers -> Call] /\ CallSound(c, call[c], mode, intents, receipts)
  BY DEF StoreInv, TypeOK, CallsSound
<1>2. PICK b \in Call : b = call[c]
  BY <1>1
<1>3. PICK r : r = [b EXCEPT !.pc = "rail"]
  OBVIOUS
<1>4. /\ r \in Call /\ r.pc = "rail" /\ r.op = b.op /\ r.of = b.of
      /\ r.looked = b.looked /\ r.receipt = b.receipt
  BY <1>3 DEF Call, Pc
<1>5. call' = [call EXCEPT ![c] = r] /\ r.pc \in {"rail"}
  <2>1. call' = [call EXCEPT ![c] = [call[c] EXCEPT !.pc = "rail"]]
    BY <1>1
  <2> QED  BY <1>2, <1>3, <1>4, <2>1
<1>6. CallSound(c, r, mode, intents, receipts)
  BY <1>1, <1>2, <1>4 DEF CallSound
<1>7. call'[c].op = call[c].op
  BY <1>1, <1>2, <1>4, <1>5
<1> QED  BY <1>5, <1>6, <1>7, Zenon DEF SoundMove

\* What a call under way is about.
LEMMA AtWork ==
  ASSUME SafeInv, NEW c \in Callers, call[c].pc \in {"evaluate", "prove", "rail", "ok"}
  PROVE  /\ StoreInv /\ call[c].of \in Known
         /\ call[c].op \in Op /\ call[c].of \in Intents /\ call[c].pc # "away"
BY KnownIs DEF SafeInv, StoreInv, TypeOK, CallsSound, CallSound, Known, Call

\* A step that leaves what is spent and what waits as it is.
Quiet(c) ==
  /\ Kept(intents, intents') /\ UNCHANGED <<mode, today, receipts>> /\ c \notin AtRail
  /\ \E r : call' = [call EXCEPT ![c] = r] /\ ~(r.op = "approve" /\ r.pc = "rail")

\* The quiet steps of a handler.
LEMMA HandleQuiet ==
  ASSUME SafeInv, NEW c \in Callers,
         GenerateProof(c) \/ PrepareIntent(c) \/ PrepareDirect(c) \/ CreateLinkSpendRequest(c)
  PROVE  SafeInv' /\ Quiet(c)
<1>1. /\ call[c].pc \in {"prove", "evaluate", "rail"}
      /\ call[c].op \in {"proof", "prepare", "link_request"}
  BY DEF GenerateProof, PrepareIntent, PrepareDirect, CreateLinkSpendRequest, Waits
<1>2. PICK i : i = call[c].of
  OBVIOUS
<1>3. StoreInv /\ i \in Known /\ call[c].op \in Op /\ call[c].pc # "away"
  BY <1>1, <1>2, AtWork
<1>4. UNCHANGED <<mode, today, receipts, idempotencyKeys>>
  BY DEF GenerateProof, PrepareIntent, PrepareDirect, CreateLinkSpendRequest
<1>5. proofs' \subseteq proofs \cup Known /\ spendRequests' \subseteq spendRequests \cup Known
  BY <1>2, <1>3 DEF GenerateProof, PrepareIntent, PrepareDirect, CreateLinkSpendRequest
<1>6. \/ intents' = intents
      \/ \E j \in Known, st \in {"open", "closed"} : intents' = [intents EXCEPT ![j].status = st]
  BY <1>2, <1>3 DEF GenerateProof, PrepareIntent, PrepareDirect, CreateLinkSpendRequest, SetStatus
<1>7. \/ Done(c)
      \/ call[c].op = "prepare" /\ call[c].pc = "evaluate" /\ call' = [call EXCEPT ![c].pc = "rail"]
  BY DEF GenerateProof, PrepareIntent, PrepareDirect, CreateLinkSpendRequest, Waits
<1>8. PICK r : /\ call' = [call EXCEPT ![c] = r] /\ CallSound(c, r, mode, intents, receipts)
               /\ r.pc # "away" /\ ~(r.op = "approve" /\ r.pc = "rail")
  <2>1. CASE Done(c)
    <3>1. PICK op \in Op : op = call[c].op /\ op \notin {"approve", "resource"}
      BY <1>1, <1>3
    <3>2. Answer(c, op, i, 0)
      BY <1>2, <2>1, <3>1 DEF Done
    <3>3. SoundMove(c, {"ok", "idle"})
      BY <1>3, <3>1, <3>2, AnswerMoves
    <3> QED  BY <3>3 DEF SoundMove
  <2>2. CASE call[c].op = "prepare" /\ call[c].pc = "evaluate" /\ call' = [call EXCEPT ![c].pc = "rail"]
    <3>1. SoundMove(c, {"rail"}) /\ call'[c].op = call[c].op
      BY <1>3, <2>2, RailMoves
    <3>2. PICK r : /\ call' = [call EXCEPT ![c] = r] /\ CallSound(c, r, mode, intents, receipts) /\ r.pc \in {"rail"}
      BY <3>1 DEF SoundMove
    <3>3. call'[c] = r
      BY <1>3, <3>2 DEF StoreInv, TypeOK
    <3> QED  BY <2>2, <3>1, <3>2, <3>3
  <2> QED  BY <1>7, <2>1, <2>2
<1>9. SafeInv' /\ Kept(intents, intents')
  BY <1>3, <1>4, <1>5, <1>6, <1>8, QuietStep
<1>10. c \notin AtRail
  BY <1>1 DEF AtRail
<1> QED  BY <1>4, <1>8, <1>9, <1>10 DEF Quiet

\* The receipts that make an approval a replay.
LEMMA LatestExisting ==
  ASSUME StoreInv, NEW i, Existing(i) # {}
  PROVE  Max(Existing(i)) \in 1..Len(receipts) /\ receipts[Max(Existing(i))].of = i
<1>1. receipts \in Seq(Receipt)
  BY DEF StoreInv, TypeOK
<1>2. PICK n \in Nat : n = Len(receipts)
  BY <1>1
<1>3. PICK S \in SUBSET (1..n) : S = Existing(i)
  <2>1. DOMAIN receipts = 1..n
    BY <1>1, <1>2
  <2>2. Existing(i) \in SUBSET (1..n)
    BY <2>1 DEF Existing
  <2> QED  BY <2>2, Zenon
<1>4. S # {} /\ \A k \in S : k \in 1..n /\ receipts[k].of = i
  BY <1>2, <1>3 DEF Existing
<1>5. Max(S) \in S
  BY <1>4, MaxIsThere
<1> QED  BY <1>2, <1>3, <1>4, <1>5

\* The steps a client begins or ends with at once.
LEMMA StartQuiet ==
  ASSUME SafeInv, NEW c \in Callers, call[c].pc \in {"idle", "ok"}, NEW i \in Known,
         \/ StartPrepare(c, i) \/ StartProof(c, i) \/ StartApprove(c, i) \/ Dismiss(c, i)
         \/ StartLinkRequest(c, i) \/ StartLinkApprove(c, i) \/ DenyLinkSpendRequest(c, i)
  PROVE  SafeInv' /\ Quiet(c)
<1>1. StoreInv /\ c \notin AtRail /\ call[c].pc # "away"
  BY DEF SafeInv, AtRail
<1>2. UNCHANGED <<mode, today, receipts, idempotencyKeys, proofs, spendRequests>>
  BY DEF StartPrepare, StartProof, StartApprove, Dismiss, StartLinkRequest, StartLinkApprove,
         DenyLinkSpendRequest, store
<1>3. \/ intents' = intents
      \/ \E j \in Known, st \in {"open", "closed"} : intents' = [intents EXCEPT ![j].status = st]
  BY DEF StartPrepare, StartProof, StartApprove, Dismiss, StartLinkRequest, StartLinkApprove,
         DenyLinkSpendRequest, store, SetStatus
<1>4. SoundMove(c, {"evaluate", "prove"}) \/ SoundMove(c, {"ok", "idle"}) \/ SoundMove(c, {"idle"})
  <2>1. CASE StartPrepare(c, i)
    <3>1. "prepare" \in Op /\ "evaluate" \in {"evaluate", "prove"} /\ Begin(c, "prepare", i, "evaluate")
      BY <2>1 DEF StartPrepare, Op
    <3> QED  BY <1>1, <3>1, BeginMoves
  <2>2. CASE StartProof(c, i)
    <3>1. "proof" \in Op
      BY DEF Op
    <3>2. CASE Begin(c, "proof", i, "prove")
      BY <1>1, <3>1, <3>2, BeginMoves
    <3>3. CASE Error(c)
      BY <3>3, ErrorMoves
    <3> QED  BY <2>2, <3>2, <3>3 DEF StartProof
  <2>3. CASE StartApprove(c, i)
    <3>1. "approve" \in Op
      BY DEF Op
    <3>2. CASE Existing(i) # {} /\ Answer(c, "approve", i, Max(Existing(i)))
      <4>1. PICK k \in Nat : k = Max(Existing(i)) /\ k \in 1..Len(receipts) /\ receipts[k].of = i
        BY <1>1, <3>2, LatestExisting
      <4>2. Answer(c, "approve", i, k)
        BY <3>2, <4>1
      <4> QED  BY <1>1, <3>1, <4>1, <4>2, AnswerMoves
    <3>3. CASE Existing(i) = {} /\ Begin(c, "approve", i, "evaluate")
      BY <1>1, <3>1, <3>3, BeginMoves
    <3> QED  BY <2>3, <3>2, <3>3 DEF StartApprove
  <2>4. CASE Dismiss(c, i)
    <3>1. "dismiss" \in Op
      BY DEF Op
    <3>2. CASE Answer(c, "dismiss", i, 0)
      BY <1>1, <3>1, <3>2, AnswerMoves
    <3>3. CASE Error(c)
      BY <3>3, ErrorMoves
    <3> QED  BY <2>4, <3>2, <3>3 DEF Dismiss
  <2>5. CASE StartLinkRequest(c, i)
    <3>1. "link_request" \in Op /\ Begin(c, "link_request", i, "evaluate")
      BY <2>5 DEF StartLinkRequest, Op
    <3> QED  BY <1>1, <3>1, BeginMoves
  <2>6. CASE StartLinkApprove(c, i)
    <3>1. "link_approve" \in Op /\ Begin(c, "link_approve", i, "evaluate")
      BY <2>6 DEF StartLinkApprove, Op
    <3> QED  BY <1>1, <3>1, BeginMoves
  <2>7. CASE DenyLinkSpendRequest(c, i)
    <3>1. "link_deny" \in Op
      BY DEF Op
    <3>2. CASE Answer(c, "link_deny", i, 0)
      BY <1>1, <3>1, <3>2, AnswerMoves
    <3>3. CASE Error(c)
      BY <3>3, ErrorMoves
    <3> QED  BY <2>7, <3>2, <3>3 DEF DenyLinkSpendRequest
  <2> QED  BY <2>1, <2>2, <2>3, <2>4, <2>5, <2>6, <2>7
<1>5. PICK r : /\ call' = [call EXCEPT ![c] = r] /\ CallSound(c, r, mode, intents, receipts)
               /\ r.pc # "away" /\ r.pc # "rail"
  BY <1>4 DEF SoundMove
<1>6. proofs' \subseteq proofs \cup Known /\ spendRequests' \subseteq spendRequests \cup Known
  BY <1>2
<1>7. SafeInv' /\ Kept(intents, intents')
  BY <1>1, <1>2, <1>3, <1>5, <1>6, QuietStep
<1> QED  BY <1>1, <1>2, <1>5, <1>7 DEF Quiet

\* The steps of an approval: it goes to the direct rail once it has been
\* judged, it gives up waiting there, or it ends in a receipt, which settles
\* only what has been judged against what is spent now, or has waited.
GoesDirect(c) ==
  /\ UNCHANGED <<mode, today, intents, receipts>> /\ mode = "direct" /\ c \notin AtRail /\ call[c].pc # "away"
  /\ call[c].of \in Known /\ WithinDailyLimit(call[c].of) /\ WithinMonthlyLimit(call[c].of)
  /\ \E r : call' = [call EXCEPT ![c] = r] /\ r.op = "approve" /\ r.pc = "rail" /\ r.of = call[c].of

GivesUp(c) ==
  /\ UNCHANGED <<mode, today, intents, receipts>>
  /\ \E r : call' = [call EXCEPT ![c] = r] /\ r.pc # "rail"

Records(c) ==
  /\ UNCHANGED <<mode, today>> /\ Kept(intents, intents') /\ call[c].of \in Known /\ call[c].pc # "away"
  /\ \E rec \in Receipt :
       /\ receipts' = Append(receipts, rec) /\ rec.of = call[c].of /\ rec.day = today
       /\ rec.status = "settled" /\ c \notin AtRail =>
            WithinDailyLimit(call[c].of) /\ WithinMonthlyLimit(call[c].of)
  /\ \E r : call' = [call EXCEPT ![c] = r] /\ r.pc # "rail"

\* What is allowed is within the limits.
LEMMA AllowedIs ==
  ASSUME NEW i, NEW allowed \in EvaluateIntent(i), allowed
  PROVE  WithinPaymentLimit(i) /\ WithinDailyLimit(i) /\ WithinMonthlyLimit(i)
BY DEF EvaluateIntent, Evaluation

\* The receipt of an approval that has been judged.
LEMMA JudgedRecords ==
  ASSUME SafeInv, NEW c \in Callers, NEW status \in ReceiptStatus, RecordReceipt(c, status),
         call[c].op \in Route, call[c].pc = "evaluate",
         WithinDailyLimit(call[c].of), WithinMonthlyLimit(call[c].of),
         UNCHANGED <<mode, today, proofs, idempotencyKeys>>,
         spendRequests' \subseteq spendRequests \cup Known
  PROVE  SafeInv' /\ Records(c)
<1>1. call[c].of \in Known
  BY AtWork
<1>2. call[c].pc \in {"evaluate", "rail"}
  OBVIOUS
<1>3. /\ SafeInv' /\ Kept(intents, intents')
      /\ \E rec \in Receipt : /\ receipts' = Append(receipts, rec)
                              /\ rec.of = call[c].of /\ rec.status = status /\ rec.day = today
      /\ \E r : call' = [call EXCEPT ![c] = r] /\ r.pc # "rail"
  BY <1>2, RecordStep
<1> QED  BY <1>1, <1>3 DEF Records

\* A refused or failed approval.
LEMMA RefusedQuiet ==
  ASSUME SafeInv, NEW c \in Callers, call[c].pc # "away", Error(c),
         UNCHANGED <<mode, today, intents, receipts, proofs, spendRequests, idempotencyKeys>>
  PROVE  /\ SafeInv' /\ Kept(intents, intents')
         /\ \E r : call' = [call EXCEPT ![c] = r] /\ r.pc # "rail"
<1>1. PICK r : call' = [call EXCEPT ![c] = r] /\ CallSound(c, r, mode, intents, receipts) /\ r.pc \in {"idle"}
  BY ErrorMoves DEF SoundMove
<1>2. r.pc # "away" /\ r.pc # "rail"
  BY <1>1
<1>3. proofs' \subseteq proofs \cup Known /\ spendRequests' \subseteq spendRequests \cup Known
  OBVIOUS
<1>4. SafeInv' /\ Kept(intents, intents')
  BY <1>1, <1>2, <1>3, QuietStep
<1> QED  BY <1>1, <1>2, <1>4

\* approveIntent up to the payment, or up to the network.
LEMMA ApproveSteps ==
  ASSUME SafeInv, NEW c \in Callers, ApproveIntent(c)
  PROVE  SafeInv' /\ (Quiet(c) \/ GoesDirect(c) \/ Records(c))
<1>1. /\ call[c].op = "approve" /\ call[c].pc = "evaluate" /\ call[c].op \in Route
      /\ UNCHANGED <<mode, today, proofs, idempotencyKeys>>
  BY DEF ApproveIntent, Waits, Route
<1>2. PICK i : i = call[c].of
  OBVIOUS
<1>3. StoreInv /\ i \in Known /\ c \notin AtRail /\ call[c].pc # "away"
  BY <1>1, <1>2, AtWork DEF AtRail
<1>4. PICK allowed \in EvaluateIntent(i) :
        \/ ~allowed /\ Error(c) /\ UNCHANGED <<intents, receipts, spendRequests>>
        \/ allowed /\ IsLink(i) /\ SettleLink(c)
        \/ allowed /\ SettleRail(c) /\ UNCHANGED spendRequests
  BY <1>2 DEF ApproveIntent
<1>5. CASE Error(c) /\ UNCHANGED <<intents, receipts, spendRequests>>
  <2>1. UNCHANGED <<mode, today, intents, receipts, proofs, spendRequests, idempotencyKeys>>
    BY <1>1, <1>5
  <2>2. /\ SafeInv' /\ Kept(intents, intents')
        /\ \E r : call' = [call EXCEPT ![c] = r] /\ r.pc # "rail"
    BY <1>3, <1>5, <2>1, RefusedQuiet
  <2> QED  BY <1>3, <2>1, <2>2 DEF Quiet
<1>6. CASE allowed /\ SettleLink(c)
  <2>1. WithinDailyLimit(call[c].of) /\ WithinMonthlyLimit(call[c].of)
    BY <1>2, <1>6, AllowedIs
  <2>2. RecordReceipt(c, "settled") /\ "settled" \in ReceiptStatus
    BY <1>6 DEF SettleLink, ReceiptStatus
  <2>3. spendRequests' \subseteq spendRequests \cup Known
    BY <1>2, <1>3, <1>6 DEF SettleLink
  <2> QED  BY <1>1, <2>1, <2>2, <2>3, JudgedRecords
<1>7. CASE allowed /\ SettleRail(c) /\ UNCHANGED spendRequests
  <2>1. /\ WithinDailyLimit(call[c].of) /\ WithinMonthlyLimit(call[c].of) /\ WithinPaymentLimit(i)
        /\ spendRequests' \subseteq spendRequests \cup Known
    BY <1>2, <1>7, AllowedIs
  <2>2. ASSUME NEW status \in ReceiptStatus, RecordReceipt(c, status)
        PROVE  SafeInv' /\ Records(c)
    BY <1>1, <2>1, <2>2, JudgedRecords
  <2>3. CASE PaymentAdapter(i) = "direct" /\ GoDirect(c)
    <3>1. mode = "direct"
      BY <2>3 DEF PaymentAdapter
    <3>2. UNCHANGED <<intents, receipts>> /\ call' = [call EXCEPT ![c].pc = "rail"]
      BY <2>3 DEF GoDirect
    <3>3. ~Exceeds(intents[call[c].of].amount, PerPayment)
      BY <1>2, <2>1 DEF WithinPaymentLimit
    <3>4. SoundMove(c, {"rail"}) /\ call'[c].op = call[c].op
      BY <1>1, <1>3, <3>1, <3>2, <3>3, RailMoves
    <3>5. PICK r : /\ call' = [call EXCEPT ![c] = r] /\ CallSound(c, r, mode, intents, receipts) /\ r.pc \in {"rail"}
      BY <3>4 DEF SoundMove
    <3>6. r.pc # "away" /\ proofs' \subseteq proofs \cup Known
      BY <1>1, <3>5
    <3>7. SafeInv'
      BY <1>1, <1>3, <2>1, <3>2, <3>5, <3>6, QuietStep
    <3>8. call \in [Callers -> Call]
      BY <1>3 DEF StoreInv, TypeOK
    <3>9. r.of = call[c].of /\ r.op = "approve"
      BY <1>1, <3>2, <3>5, <3>8 DEF Call
    <3>10. GoesDirect(c)
      BY <1>1, <1>2, <1>3, <2>1, <3>1, <3>2, <3>5, <3>9 DEF GoesDirect
    <3> QED  BY <3>7, <3>10
  <2>4. CASE RecordReceipt(c, "settled")
    BY <2>2, <2>4 DEF ReceiptStatus
  <2>5. CASE RecordReceipt(c, IF SessionAllows(i) THEN "pending" ELSE "blocked")
    BY <2>2, <2>5 DEF ReceiptStatus
  <2> QED  BY <1>2, <1>7, <2>3, <2>4, <2>5 DEF SettleRail
<1> QED  BY <1>4, <1>5, <1>6, <1>7

\* approveIntent after the network.
LEMMA DirectSteps ==
  ASSUME SafeInv, NEW c \in Callers, SettleDirect(c)
  PROVE  SafeInv' /\ (GivesUp(c) \/ Records(c))
<1>1. /\ call[c].op = "approve" /\ call[c].pc = "rail" /\ call[c].op \in Route
      /\ UNCHANGED <<mode, today, proofs, spendRequests, idempotencyKeys>>
  BY DEF SettleDirect, Waits, Route
<1>2. call[c].of \in Known /\ c \in AtRail /\ call[c].pc # "away"
  BY <1>1, AtWork DEF AtRail
<1>3. CASE Error(c) /\ UNCHANGED <<intents, receipts>>
  <2>1. UNCHANGED <<mode, today, intents, receipts, proofs, spendRequests, idempotencyKeys>>
    BY <1>1, <1>3
  <2>2. /\ SafeInv' /\ Kept(intents, intents')
        /\ \E r : call' = [call EXCEPT ![c] = r] /\ r.pc # "rail"
    BY <1>2, <1>3, <2>1, RefusedQuiet
  <2> QED  BY <1>2, <2>1, <2>2 DEF GivesUp
<1>4. CASE RecordReceipt(c, "settled")
  <2>1. /\ "settled" \in ReceiptStatus /\ call[c].pc \in {"evaluate", "rail"}
        /\ spendRequests' \subseteq spendRequests \cup Known
    BY <1>1 DEF ReceiptStatus
  <2>2. /\ SafeInv' /\ Kept(intents, intents')
        /\ \E rec \in Receipt : /\ receipts' = Append(receipts, rec)
                                /\ rec.of = call[c].of /\ rec.status = "settled" /\ rec.day = today
        /\ \E r : call' = [call EXCEPT ![c] = r] /\ r.pc # "rail"
    BY <1>1, <1>4, <2>1, RecordStep
  <2> QED  BY <1>1, <1>2, <2>2 DEF Records
<1> QED  BY <1>3, <1>4 DEF SettleDirect

\* approveLinkSpendRequest.
LEMMA LinkSteps ==
  ASSUME SafeInv, NEW c \in Callers, ApproveLinkSpendRequest(c)
  PROVE  SafeInv' /\ (Quiet(c) \/ Records(c))
<1>1. /\ call[c].op = "link_approve" /\ call[c].pc = "evaluate" /\ call[c].op \in Route
      /\ UNCHANGED <<mode, today, proofs, idempotencyKeys>>
  BY DEF ApproveLinkSpendRequest, Waits, Route
<1>2. PICK i : i = call[c].of
  OBVIOUS
<1>3. i \in Known /\ c \notin AtRail /\ call[c].pc # "away"
  BY <1>1, <1>2, AtWork DEF AtRail
<1>4. PICK allowed \in EvaluateIntent(i) :
        \/ allowed /\ SettleLink(c)
        \/ Error(c) /\ UNCHANGED <<intents, receipts, spendRequests>>
  BY <1>2 DEF ApproveLinkSpendRequest
<1>5. CASE Error(c) /\ UNCHANGED <<intents, receipts, spendRequests>>
  <2>1. UNCHANGED <<mode, today, intents, receipts, proofs, spendRequests, idempotencyKeys>>
    BY <1>1, <1>5
  <2>2. /\ SafeInv' /\ Kept(intents, intents')
        /\ \E r : call' = [call EXCEPT ![c] = r] /\ r.pc # "rail"
    BY <1>3, <1>5, <2>1, RefusedQuiet
  <2> QED  BY <1>3, <2>1, <2>2 DEF Quiet
<1>6. CASE allowed /\ SettleLink(c)
  <2>1. WithinDailyLimit(call[c].of) /\ WithinMonthlyLimit(call[c].of)
    BY <1>2, <1>6, AllowedIs
  <2>2. RecordReceipt(c, "settled") /\ "settled" \in ReceiptStatus
    BY <1>6 DEF SettleLink, ReceiptStatus
  <2>3. spendRequests' \subseteq spendRequests \cup Known
    BY <1>2, <1>3, <1>6 DEF SettleLink
  <2> QED  BY <1>1, <2>1, <2>2, <2>3, JudgedRecords
<1> QED  BY <1>4, <1>5, <1>6

\* Every step of the service.
LEMMA HandleSteps ==
  ASSUME SafeInv, NEW c \in Callers, Handle(c)
  PROVE  SafeInv' /\ (Quiet(c) \/ GoesDirect(c) \/ GivesUp(c) \/ Records(c))
BY HandleQuiet, ApproveSteps, DirectSteps, LinkSteps DEF Handle

-----------------------------------------------------------------------------
(* The clients' steps are quiet. *)

\* An intent that is asked for.
LEMMA CreateQuiet ==
  ASSUME SafeInv, NEW c \in Callers, call[c].pc \in {"idle", "ok"}, NEW op \in {"create", "resource"},
         NEW key \in Keys \cup {None}, NEW p \in Providers, NEW type \in Type, NEW amount \in Amounts,
         CreateIntent(c, op, key, p, type, amount)
  PROVE  SafeInv' /\ Quiet(c)
<1>1. call[c].pc # "away" /\ c \notin AtRail
  BY DEF AtRail
<1>2. /\ SafeInv' /\ Kept(intents, intents') /\ UNCHANGED <<mode, today, receipts>>
      /\ \E r : call' = [call EXCEPT ![c] = r] /\ r.pc # "rail"
  BY <1>1, CreateStep
<1> QED  BY <1>1, <1>2 DEF Quiet

\* A request that is refused.
LEMMA ErrorQuiet ==
  ASSUME SafeInv, NEW c \in Callers, call[c].pc \in {"idle", "ok"}, Error(c), UNCHANGED <<mode, today, store>>
  PROVE  SafeInv' /\ Quiet(c)
<1>1. call[c].pc # "away" /\ c \notin AtRail
  BY DEF AtRail
<1>2. UNCHANGED <<mode, today, intents, receipts, proofs, spendRequests, idempotencyKeys>>
  BY DEF store
<1>3. /\ SafeInv' /\ Kept(intents, intents')
      /\ \E r : call' = [call EXCEPT ![c] = r] /\ r.pc # "rail"
  BY <1>1, <1>2, RefusedQuiet
<1> QED  BY <1>1, <1>2, <1>3 DEF Quiet

\* A click on the review page.
LEMMA PageQuiet ==
  ASSUME SafeInv, NEW c \in Pages, PageStep(c)
  PROVE  SafeInv' /\ Quiet(c)
<1>1. c \in Callers
  BY HubClientsAssumption
<1>2. call[c].pc \in {"idle", "ok"}
  BY DEF PageStep, ClickApprove, GoOnToProof, GoOnToApprove, ClickDismiss, Free, Has
<1>3. PICK i \in Known : StartPrepare(c, i) \/ StartProof(c, i) \/ StartApprove(c, i) \/ Dismiss(c, i)
  <2>1. CASE ClickApprove(c) \/ ClickDismiss(c)
    BY <2>1 DEF ClickApprove, ClickDismiss
  <2>2. CASE GoOnToProof(c) \/ GoOnToApprove(c)
    <3>1. call[c].of \in Known
      BY <1>1, <2>2, AtWork DEF GoOnToProof, GoOnToApprove, Has
    <3> QED  BY <2>2, <3>1 DEF GoOnToProof, GoOnToApprove
  <2> QED  BY <2>1, <2>2 DEF PageStep
<1> QED  BY <1>1, <1>2, <1>3, StartQuiet

\* A machine client that retries is given what its approval's receipt paid.
LEMMA DeliverQuiet ==
  ASSUME SafeInv, NEW c \in Callers, Has(c, "approve"),
         DeliverResource(c, MachineProvider[c], call[c].of, call[c].receipt)
  PROVE  SafeInv' /\ Quiet(c)
<1>1. /\ call[c].pc = "ok" /\ call[c].op = "approve" /\ call[c].pc \in {"evaluate", "prove", "rail", "ok"}
  BY DEF Has
<1>2. PICK i, k : i = call[c].of /\ k = call[c].receipt
  OBVIOUS
<1>3. /\ StoreInv /\ i \in Known /\ call[c].pc # "away" /\ c \notin AtRail
  BY <1>1, <1>2, AtWork DEF AtRail
<1>4. k \in 1..Len(receipts) /\ receipts[k].of = i /\ k \in Nat
  BY <1>1, <1>2, <1>3 DEF StoreInv, TypeOK, CallsSound, CallSound
<1>5. Delivered(c, i, k) /\ Answer(c, "resource", i, k) /\ UNCHANGED <<mode, today, store>>
  BY <1>2, <1>4 DEF DeliverResource, VerifyCredential, Delivered
<1>6. "resource" \in Op
  BY DEF Op
<1>7. SoundMove(c, {"ok", "idle"})
  BY <1>3, <1>4, <1>5, <1>6, AnswerMoves
<1>8. PICK r : call' = [call EXCEPT ![c] = r] /\ CallSound(c, r, mode, intents, receipts) /\ r.pc \in {"ok", "idle"}
  BY <1>7 DEF SoundMove
<1>9. /\ r.pc # "away" /\ r.pc # "rail" /\ UNCHANGED <<mode, today, receipts, idempotencyKeys, intents>>
      /\ proofs' \subseteq proofs \cup Known /\ spendRequests' \subseteq spendRequests \cup Known
  BY <1>5, <1>8 DEF store
<1>10. SafeInv' /\ Kept(intents, intents')
  BY <1>3, <1>8, <1>9, QuietStep
<1> QED  BY <1>3, <1>8, <1>9, <1>10 DEF Quiet

\* A step of the machine client.
LEMMA MachineQuiet ==
  ASSUME SafeInv, NEW c \in Machines, MachineStep(c)
  PROVE  SafeInv' /\ Quiet(c)
<1>1. c \in Callers /\ MachineKey[c] \in Keys /\ MachineProvider[c] \in Providers
  BY HubClientsAssumption
<1>2. call[c].pc \in {"idle", "ok"}
  BY DEF MachineStep, AskForResource, PrepareChallenge, ApproveChallenge, RetryWithReceipt, Free, Has
<1>3. CASE AskForResource(c)
  <2>1. PICK amount \in Amounts : Challenge(c, MachineKey[c], MachineProvider[c], amount)
    BY <1>3 DEF AskForResource
  <2>2. PICK key \in Keys \cup {None}, p \in Providers, type \in Type :
          key = MachineKey[c] /\ p = MachineProvider[c] /\ type = Category[p]
    BY <1>1, HubAssumption
  <2>3. CreateIntent(c, "resource", key, p, type, amount)
    BY <2>1, <2>2 DEF Challenge
  <2> QED  BY <1>1, <1>2, <2>3, CreateQuiet
<1>4. CASE PrepareChallenge(c) \/ ApproveChallenge(c)
  <2>1. call[c].of \in Known
    BY <1>1, <1>4, AtWork DEF PrepareChallenge, ApproveChallenge, Has
  <2>2. StartPrepare(c, call[c].of) \/ StartApprove(c, call[c].of)
    BY <1>4 DEF PrepareChallenge, ApproveChallenge
  <2> QED  BY <1>1, <1>2, <2>1, <2>2, StartQuiet
<1>5. CASE RetryWithReceipt(c)
  BY <1>1, <1>2, <1>5, DeliverQuiet, ErrorQuiet DEF RetryWithReceipt
<1> QED  BY <1>3, <1>4, <1>5 DEF MachineStep

\* A call of an MCP tool.
LEMMA McpQuiet ==
  ASSUME SafeInv, NEW c \in McpAgents, McpStep(c)
  PROVE  SafeInv' /\ Quiet(c)
<1>1. c \in Callers
  BY HubClientsAssumption
<1>2. call[c].pc \in {"idle", "ok"}
  BY DEF McpStep, CreatePaymentIntent, PreparePayment, Free
<1>3. CASE CreatePaymentIntent(c)
  <2>1. PICK key \in McpKeys, p \in Providers, amount \in McpAmounts :
          \/ Error(c) /\ UNCHANGED <<mode, today, store>>
          \/ CreateIntent(c, "create", key, p, "pay_service", amount)
    BY <1>3 DEF CreatePaymentIntent
  <2>2. key \in Keys \cup {None} /\ amount \in Amounts /\ "pay_service" \in Type
    BY HubClientsAssumption DEF Type, McpAmounts, Positive
  <2> QED  BY <1>1, <1>2, <2>1, <2>2, CreateQuiet, ErrorQuiet
<1>4. CASE PreparePayment(c)
  <2>1. PICK key \in McpKeys :
          /\ idempotencyKeys[key] # None
          /\ \/ StartPrepare(c, idempotencyKeys[key])
             \/ Error(c) /\ UNCHANGED <<mode, today, store>>
    BY <1>4 DEF PreparePayment
  <2>2. PICK i : i = idempotencyKeys[key]
    OBVIOUS
  <2>3. i \in Known
    BY <2>1, <2>2, HubClientsAssumption, KnownIs DEF SafeInv, StoreInv, KeysSound
  <2> QED  BY <1>1, <1>2, <2>1, <2>2, <2>3, StartQuiet, ErrorQuiet
<1> QED  BY <1>3, <1>4 DEF McpStep

\* A call of the plain routes.
LEMMA RouteQuiet ==
  ASSUME SafeInv, NEW c \in Others, RouteCall(c)
  PROVE  SafeInv' /\ Quiet(c)
<1>1. c \in Callers
  BY HubClientsAssumption
<1>2. call[c].pc \in {"idle", "ok"}
  BY DEF RouteCall, Free
<1>3. ASSUME NEW key \in Keys \cup {None}, NEW p \in Providers, NEW type \in AskedTypes, NEW amount \in Amounts,
             CreateIntent(c, "create", key, p, type, amount)
      PROVE  SafeInv' /\ Quiet(c)
  <2>1. type \in Type
    BY HubAssumption
  <2> QED  BY <1>1, <1>2, <1>3, <2>1, CreateQuiet
<1>4. ASSUME NEW i \in Known,
             StartApprove(c, i) \/ StartLinkRequest(c, i) \/ StartLinkApprove(c, i) \/ DenyLinkSpendRequest(c, i)
      PROVE  SafeInv' /\ Quiet(c)
  BY <1>1, <1>2, <1>4, StartQuiet
<1> QED  BY <1>3, <1>4 DEF RouteCall

\* At midnight only the day changes.
LEMMA MidnightSafe ==
  ASSUME SafeInv, today' \in Nat, today <= today', UNCHANGED <<mode, intents, receipts, proofs, spendRequests, idempotencyKeys, call>>
  PROVE  SafeInv'
<1>1. TypeOK' /\ SettledHasReceipt' /\ NoLateSecondReceipt'
  <2>1. Known' = Known
    BY DEF Known
  <2> QED  BY <2>1 DEF SafeInv, StoreInv, TypeOK, SettledHasReceipt, NoLateSecondReceipt
<1>2. CallsSound' /\ KeysSound' /\ Cardinality(Present)' = AtOnce
  BY DEF SafeInv, StoreInv, CallsSound, KeysSound, Present
<1>3. ReceiptsSound'
  <2> SUFFICES ASSUME NEW k \in DOMAIN receipts
               PROVE  receipts[k].of \in Known /\ receipts[k].day <= today'
    BY DEF ReceiptsSound, Known
  <2>0. receipts[k] \in Receipt /\ today \in Nat
    BY DEF SafeInv, StoreInv, TypeOK
  <2>1. receipts[k].day \in Nat /\ today \in Nat
    BY <2>0 DEF Receipt
  <2>2. receipts[k].of \in Known /\ receipts[k].day <= today
    BY DEF SafeInv, StoreInv, ReceiptsSound
  <2> QED  BY <2>1, <2>2
<1> QED  BY <1>1, <1>2, <1>3 DEF SafeInv, StoreInv

\* Every step keeps SafeInv, and is of one of five kinds for the money.
LEMMA Steps ==
  ASSUME SafeInv, [Next]_hvars
  PROVE  /\ SafeInv'
         /\ \/ \E c \in Callers : Quiet(c) \/ GoesDirect(c) \/ GivesUp(c) \/ Records(c)
            \/ /\ UNCHANGED <<mode, intents, receipts, call>>
               /\ today' = today \/ today' = today + 1
<1>1. CASE UNCHANGED hvars
  <2>1. today \in Nat
    BY DEF SafeInv, StoreInv, TypeOK
  <2>2. /\ today' \in Nat /\ today <= today' /\ today' = today
        /\ UNCHANGED <<mode, intents, receipts, proofs, spendRequests, idempotencyKeys, call>>
    BY <1>1, <2>1 DEF hvars
  <2> QED  BY <2>2, MidnightSafe
<1>2. CASE Midnight(LastDay)
  <2>1. today \in Nat
    BY DEF SafeInv, StoreInv, TypeOK
  <2>2. /\ today' \in Nat /\ today <= today' /\ today' = today + 1
        /\ UNCHANGED <<mode, intents, receipts, proofs, spendRequests, idempotencyKeys, call>>
    BY <1>2, <2>1 DEF Midnight, store
  <2> QED  BY <2>2, MidnightSafe
<1>3. CASE \E c \in Callers : Handle(c)
  BY <1>3, HandleSteps
<1>4. Pages \subseteq Callers /\ Machines \subseteq Callers /\ McpAgents \subseteq Callers /\ Others \subseteq Callers
  BY HubClientsAssumption
<1>5. CASE \E c \in Pages : PageStep(c)
  BY <1>4, <1>5, PageQuiet
<1>6. CASE \E c \in Machines : MachineStep(c)
  BY <1>4, <1>6, MachineQuiet
<1>7. CASE \E c \in McpAgents : McpStep(c)
  BY <1>4, <1>7, McpQuiet
<1>8. CASE \E c \in Others : RouteCall(c)
  BY <1>4, <1>8, RouteQuiet
<1> QED  BY <1>1, <1>2, <1>3, <1>5, <1>6, <1>7, <1>8 DEF Next

-----------------------------------------------------------------------------
(* What is spent.                                                          *)

\* An amount, or what Number makes of no number.
Amount == Int \cup {NaN}
NumberOf(amount) == IF amount = NaN THEN 0 ELSE amount

PaidOf(ints, recs) == [k \in DOMAIN recs |-> NumberOf(ints[recs[k].of].amount)]
Void(ints, recs, ks) == \E k \in ks : ints[recs[k].of].amount = NaN
SpentOf(ints, recs, ks) == IF Void(ints, recs, ks) THEN NaN ELSE SumOver(PaidOf(ints, recs), ks)
SettledOf(recs) == {k \in DOMAIN recs : recs[k].status = "settled"}
SettledOn(recs, day) == {k \in SettledOf(recs) : recs[k].day = day}

\* What is spent, and what will be, as sums of what a state's receipts pay.
LEMMA SpentIs ==
  /\ SpentToday = SpentOf(intents, receipts, SettledOn(receipts, today))
  /\ SpentThisMonth = SpentOf(intents, receipts, SettledOf(receipts))
BY DEF SpentToday, SpentThisMonth, Spent, Paid, AmountOf, Settled, PaidOf, NumberOf, Void, SpentOf, SettledOf, SettledOn

\* The same for the state after a step.
LEMMA SpentIsNext ==
  /\ SpentToday' = SpentOf(intents', receipts', SettledOn(receipts', today'))
  /\ SpentThisMonth' = SpentOf(intents', receipts', SettledOf(receipts'))
BY DEF SpentToday, SpentThisMonth, Spent, Paid, AmountOf, Settled, PaidOf, NumberOf, Void, SpentOf, SettledOf, SettledOn

\* Receipts of intents there are.
OfKnown(ints, recs) == \A k \in DOMAIN recs : recs[k].of \in KnownIn(ints)

\* The places of receipts.
Places(recs) == 1..Len(recs)

\* Every intent has an amount, be it NaN.
LEMMA AmountType ==
  /\ NaN \notin Int
  /\ \A intent \in Intent : intent.amount \in Amount /\ NumberOf(intent.amount) \in Int
<1>1. NaN \notin Int /\ Amounts \cup {0} \subseteq Amount
  BY HubAssumption DEF Amount
<1>2. \A amount \in Amount : NumberOf(amount) \in Int
  BY DEF Amount, NumberOf
<1>3. \A intent \in Intent : intent.amount \in Amounts \cup {0}
  BY DEF Intent
<1> QED  BY <1>1, <1>2, <1>3

\* The amounts are integers, and what counts is finite.
LEMMA PaidType ==
  ASSUME NEW ints \in [Intents -> Intent], NEW recs \in Seq(Receipt), OfKnown(ints, recs)
  PROVE  /\ PaidOf(ints, recs) \in [Places(recs) -> Int]
         /\ SettledOf(recs) \in SUBSET Places(recs) /\ IsFiniteSet(SettledOf(recs))
         /\ \A day : SettledOn(recs, day) \in SUBSET Places(recs) /\ IsFiniteSet(SettledOn(recs, day))
<1>1. DOMAIN recs = Places(recs) /\ Len(recs) \in Nat
  BY DEF Places
<1>2. \A i \in KnownIn(ints) : NumberOf(ints[i].amount) \in Int
  BY AmountType DEF KnownIn
<1>3. PaidOf(ints, recs) \in [Places(recs) -> Int]
  BY <1>1, <1>2 DEF OfKnown, PaidOf
<1>4. IsFiniteSet(Places(recs))
  BY <1>1, FS_Interval DEF Places
<1>5. SettledOf(recs) \in SUBSET Places(recs) /\ \A day : SettledOn(recs, day) \in SUBSET Places(recs)
  BY <1>1 DEF SettledOf, SettledOn
<1> QED  BY <1>3, <1>4, <1>5, FS_Subset

Priced(amt, D) == amt \in [D -> Int]
Chosen(ks, D) == ks \in SUBSET D /\ IsFiniteSet(ks)
Agree(amt, amt2, ks) == \A k \in ks : amt2[k] = amt[k]

\* The lemmas on sums, with their hypotheses named.
LEMMA SumsAgree ==
  ASSUME NEW amt, NEW D, NEW amt2, NEW E, NEW ks, Priced(amt, D), Priced(amt2, E),
         Chosen(ks, D), Chosen(ks, E), Agree(amt, amt2, ks)
  PROVE  SumOver(amt2, ks) = SumOver(amt, ks) /\ SumOver(amt, ks) \in Int
BY SumAgrees DEF Priced, Chosen, Agree

\* And the other one.
LEMMA SumsAdd ==
  ASSUME NEW amt, NEW D, NEW ks, NEW x \in D \ ks, Priced(amt, D), Chosen(ks, D)
  PROVE  SumOver(amt, ks \cup {x}) = SumOver(amt, ks) + amt[x]
BY SumAdds DEF Priced, Chosen

\* What has been paid keeps its amount.
LEMMA AmountsKept ==
  ASSUME NEW ints \in [Intents -> Intent], NEW ints2 \in [Intents -> Intent], NEW recs \in Seq(Receipt),
         OfKnown(ints, recs), Kept(ints, ints2), NEW ks \in SUBSET Places(recs), IsFiniteSet(ks)
  PROVE  /\ SpentOf(ints2, recs, ks) = SpentOf(ints, recs, ks)
         /\ SpentOf(ints, recs, ks) \in Amount
<1>1. OfKnown(ints2, recs)
  BY DEF OfKnown, Kept
<1>2. PICK amt \in [Places(recs) -> Int], amt2 \in [Places(recs) -> Int] :
        amt = PaidOf(ints, recs) /\ amt2 = PaidOf(ints2, recs)
  BY <1>1, PaidType
<1>3. DOMAIN recs = Places(recs)
  BY DEF Places
<1>4. \A k \in Places(recs) : ints2[recs[k].of].amount = ints[recs[k].of].amount
  BY <1>3 DEF OfKnown, Kept
<1>5. \A k \in ks : amt2[k] = amt[k]
  BY <1>2, <1>3, <1>4 DEF PaidOf
<1>6. SumOver(amt2, ks) = SumOver(amt, ks) /\ SumOver(amt, ks) \in Int
  <2>1. Priced(amt, Places(recs)) /\ Priced(amt2, Places(recs)) /\ Chosen(ks, Places(recs))
    BY DEF Priced, Chosen
  <2>2. Agree(amt, amt2, ks)
    BY <1>5 DEF Agree
  <2> QED  BY <2>1, <2>2, SumsAgree
<1>7. Void(ints2, recs, ks) <=> Void(ints, recs, ks)
  BY <1>4 DEF Void
<1> QED  BY <1>2, <1>6, <1>7 DEF SpentOf, Amount

\* rec is a new receipt, of an intent there is.
AddsTo(ints, ints2, recs, rec, recs2) ==
  /\ ints \in [Intents -> Intent] /\ ints2 \in [Intents -> Intent] /\ Kept(ints, ints2)
  /\ recs \in Seq(Receipt) /\ OfKnown(ints, recs)
  /\ rec \in Receipt /\ rec.of \in KnownIn(ints) /\ recs2 = Append(recs, rec)

\* A receipt that counts adds the amount of its intent, any other nothing.
LEMMA ReceiptAdds ==
  ASSUME NEW ints, NEW ints2, NEW recs, NEW rec, NEW recs2, AddsTo(ints, ints2, recs, rec, recs2),
         NEW ks, Chosen(ks, Places(recs))
  PROVE  /\ SpentOf(ints2, recs2, ks) = SpentOf(ints, recs, ks)
         /\ SpentOf(ints2, recs2, ks \cup {Len(recs) + 1}) = Plus(SpentOf(ints, recs, ks), ints[rec.of].amount)
<1> USE DEF AddsTo
<1>1. PICK n \in Nat, last \in Nat : n = Len(recs) /\ last = n + 1
  OBVIOUS
<1>2. /\ recs2 \in Seq(Receipt) /\ Len(recs2) = last /\ recs2[last] = rec
      /\ \A k \in 1..n : recs2[k] = recs[k]
  BY <1>1
<1>3. /\ DOMAIN recs = Places(recs) /\ DOMAIN recs2 = Places(recs2)
      /\ Places(recs) \subseteq Places(recs2) /\ last \in Places(recs2) \ Places(recs)
      /\ \A k \in Places(recs2) : k = last \/ k \in Places(recs)
      /\ \A k \in Places(recs) : recs2[k] = recs[k]
  BY <1>1, <1>2 DEF Places
<1>4. OfKnown(ints2, recs2)
  BY <1>2, <1>3 DEF OfKnown, Kept
<1>5. PICK amt \in [Places(recs) -> Int], amt2 \in [Places(recs2) -> Int] :
        amt = PaidOf(ints, recs) /\ amt2 = PaidOf(ints2, recs2)
  BY <1>2, <1>4, PaidType
<1>6. /\ \A k \in Places(recs) : ints2[recs2[k].of].amount = ints[recs[k].of].amount
      /\ ints2[recs2[last].of].amount = ints[rec.of].amount
  BY <1>2, <1>3 DEF OfKnown, Kept
<1>7. (\A k \in Places(recs) : amt2[k] = amt[k]) /\ amt2[last] = NumberOf(ints[rec.of].amount)
  BY <1>3, <1>5, <1>6 DEF PaidOf
<1>8. ks \in SUBSET Places(recs2) /\ ks \subseteq Places(recs) /\ last \in Places(recs2) \ ks
  BY <1>3 DEF Chosen
<1>9. /\ Priced(amt, Places(recs)) /\ Priced(amt2, Places(recs2))
      /\ Chosen(ks, Places(recs)) /\ Chosen(ks, Places(recs2))
  BY <1>8 DEF Priced, Chosen
<1>10. SumOver(amt2, ks) = SumOver(amt, ks) /\ SumOver(amt, ks) \in Int
  <2>1. Agree(amt, amt2, ks)
    BY <1>7 DEF Agree, Chosen
  <2> QED  BY <1>9, <2>1, SumsAgree
<1>11. SumOver(amt2, ks \cup {last}) = SumOver(amt2, ks) + amt2[last]
  BY <1>8, <1>9, SumsAdd
<1>12. /\ Void(ints2, recs2, ks) <=> Void(ints, recs, ks)
       /\ Void(ints2, recs2, ks \cup {last}) <=> (Void(ints, recs, ks) \/ ints[rec.of].amount = NaN)
  BY <1>6, <1>8 DEF Void
<1>13. SpentOf(ints2, recs2, ks) = SpentOf(ints, recs, ks)
  BY <1>5, <1>10, <1>12 DEF SpentOf
<1>14. SpentOf(ints2, recs2, ks \cup {last}) = Plus(SpentOf(ints, recs, ks), ints[rec.of].amount)
  <2>1. PICK amount : amount = ints[rec.of].amount
    OBVIOUS
  <2>2. CASE Void(ints, recs, ks) \/ amount = NaN
    BY <1>12, <2>1, <2>2 DEF SpentOf, Plus
  <2>3. CASE ~Void(ints, recs, ks) /\ amount # NaN
    <3>1. /\ SpentOf(ints2, recs2, ks \cup {last}) = SumOver(amt2, ks \cup {last})
          /\ SpentOf(ints, recs, ks) = SumOver(amt, ks)
      BY <1>5, <1>12, <2>1, <2>3 DEF SpentOf
    <3>2. SumOver(amt2, ks \cup {last}) = SumOver(amt, ks) + amount
      BY <1>7, <1>10, <1>11, <2>1, <2>3 DEF NumberOf
    <3>3. SumOver(amt, ks) # NaN
      BY <1>10, AmountType
    <3> QED  BY <2>1, <2>3, <3>1, <3>2, <3>3 DEF Plus
  <2> QED  BY <2>2, <2>3
<1> QED  BY <1>1, <1>13, <1>14

-----------------------------------------------------------------------------
(* Room, for any set of approvals that wait.                               *)

\* Multiples of a natural grow.
LEMMA Times ==
  ASSUME NEW m \in Nat, NEW n \in Nat, NEW p \in Nat
  PROVE  /\ m * p \in Nat /\ (m + 1) * p = m * p + p
         /\ m <= n => m * p <= n * p
OBVIOUS

\* Those that wait, and what they ask for.
Waiters(R, asked) == IsFiniteSet(R) /\ \A d \in R : asked[d] \in Nat /\ asked[d] <= PerPayment

\* Less spent and the same waiting leave the room there is.
LEMMA RoomKept ==
  ASSUME NEW spent \in Int, NEW spent2 \in Int, spent2 <= spent, NEW limit \in Nat, NEW R, NEW asked, NEW asked2,
         Waiters(R, asked), \A d \in R : asked2[d] = asked[d], Room(spent, limit, R, asked)
  PROVE  Room(spent2, limit, R, asked2)
<1>1. CASE R = {}
  BY <1>1 DEF Room
<1>2. CASE R # {}
  <2>1. PICK n \in Nat : n = Cardinality(R)
    BY FS_CardinalityType DEF Waiters
  <2>2. PICK d \in R : spent + asked[d] + (n - 1) * PerPayment <= limit
    BY <1>2, <2>1 DEF Room
  <2>3. n # 0
    BY <1>2, <2>1, FS_EmptySet DEF Waiters
  <2>4. PICK m \in Nat : n - 1 = m
    BY <2>1, <2>3
  <2>5. PICK rest \in Nat : rest = m * PerPayment
    BY <2>4, Limits, Times
  <2>6. asked[d] \in Nat /\ asked2[d] = asked[d] /\ spent + asked[d] + rest <= limit
    BY <2>2, <2>4, <2>5 DEF Waiters
  <2>7. spent2 + asked2[d] + rest <= limit
    BY <2>6
  <2>8. spent2 + asked2[d] + (Cardinality(R) - 1) * PerPayment <= limit
    BY <2>1, <2>4, <2>5, <2>7
  <2> QED  BY <1>2, <2>8 DEF Room
<1> QED  BY <1>1, <1>2

\* One of those that wait has its answer, and has paid at most what it asked
\* for.
LEMMA RoomPays ==
  ASSUME NEW spent \in Int, NEW spent2 \in Int, NEW limit \in Nat, NEW R, NEW asked, NEW asked2, NEW c \in R,
         Waiters(R, asked), spent2 <= spent + asked[c], \A d \in R \ {c} : asked2[d] = asked[d],
         Room(spent, limit, R, asked)
  PROVE  Room(spent2, limit, R \ {c}, asked2)
<1>1. PICK n \in Nat : n = Cardinality(R)
  BY FS_CardinalityType DEF Waiters
<1>2. PICK w \in R : spent + asked[w] + (n - 1) * PerPayment <= limit
  BY <1>1 DEF Room
<1>3. Cardinality(R \ {c}) = n - 1 /\ IsFiniteSet(R \ {c})
  BY <1>1, FS_RemoveElement DEF Waiters
<1>4. \A d \in R : asked[d] \in Nat /\ asked[d] <= PerPayment
  BY DEF Waiters
<1>5. PerPayment \in Nat
  BY Limits
<1>6. CASE R \ {c} = {}
  <2>1. n - 1 = 0 /\ w = c
    BY <1>3, <1>6, FS_EmptySet
  <2>2. spent + asked[c] <= limit
    BY <1>2, <1>4, <1>5, <2>1
  <2> QED  BY <1>4, <1>6, <2>2 DEF Room
<1>7. CASE R \ {c} # {}
  <2>1. n - 1 \in Nat /\ n - 1 # 0
    BY <1>3, <1>7, FS_EmptySet, FS_CardinalityType
  <2>2. PICK m \in Nat : n = m + 2
    BY <2>1
  <2>3. PICK rest \in Nat : rest = m * PerPayment /\ (m + 1) * PerPayment = rest + PerPayment
    BY <1>5, Times
  <2>4. spent + asked[w] + (rest + PerPayment) <= limit
    <3>1. n - 1 = m + 1
      BY <2>2
    <3> QED  BY <1>2, <2>3, <3>1
  <2>5. PICK d \in R \ {c} : w # c => d = w
    BY <1>7
  <2>6. asked2[d] = asked[d] /\ spent2 + asked[d] + rest <= limit
    <3>1. CASE w = c
      BY <1>4, <1>5, <2>4, <3>1
    <3>2. CASE w # c
      BY <1>4, <1>5, <2>4, <2>5, <3>2
    <3> QED  BY <3>1, <3>2
  <2>7. Cardinality(R \ {c}) - 1 = m
    BY <1>3, <2>2
  <2>8. spent2 + asked2[d] + (Cardinality(R \ {c}) - 1) * PerPayment <= limit
    BY <2>3, <2>6, <2>7
  <2> QED  BY <1>7, <2>8 DEF Room
<1> QED  BY <1>6, <1>7

\* One that has just been judged pays at once: the others that wait are fewer
\* than the callers there are.
LEMMA RoomJudged ==
  ASSUME NEW spent \in Int, NEW limit \in Nat, spent <= limit, NEW R, NEW asked, Waiters(R, asked),
         NEW slack \in Nat, Cardinality(R) * PerPayment <= slack
  PROVE  Room(spent, limit + slack, R, asked)
<1>1. CASE R = {}
  BY <1>1 DEF Room
<1>2. CASE R # {}
  <2>1. PICK n \in Nat : n = Cardinality(R)
    BY FS_CardinalityType DEF Waiters
  <2>2. n # 0
    BY <1>2, <2>1, FS_EmptySet DEF Waiters
  <2>3. PICK m \in Nat : n = m + 1
    BY <2>1, <2>2
  <2>4. PerPayment \in Nat
    BY Limits
  <2>5. PICK rest \in Nat : rest = m * PerPayment /\ (m + 1) * PerPayment = rest + PerPayment
    BY <2>4, Times
  <2>6. PICK d \in R : asked[d] \in Nat /\ asked[d] <= PerPayment
    BY <1>2 DEF Waiters
  <2>7. rest + PerPayment <= slack
    BY <2>1, <2>3, <2>5
  <2>8. spent + asked[d] + rest <= limit + slack
    BY <2>4, <2>6, <2>7
  <2>9. Cardinality(R) - 1 = m
    BY <2>1, <2>3
  <2>10. spent + asked[d] + (Cardinality(R) - 1) * PerPayment <= limit + slack
    BY <2>5, <2>8, <2>9
  <2> QED  BY <1>2, <2>10 DEF Room
<1> QED  BY <1>1, <1>2

\* One that has just been judged joins those that wait.
LEMMA RoomJoins ==
  ASSUME NEW spent \in Int, NEW limit \in Nat, NEW R, NEW asked, NEW c \in R, IsFiniteSet(R),
         asked[c] \in Nat, spent + asked[c] <= limit,
         NEW slack \in Nat, (Cardinality(R) - 1) * PerPayment <= slack
  PROVE  Room(spent, limit + slack, R, asked)
<1>1. PICK n \in Nat : n = Cardinality(R)
  BY FS_CardinalityType
<1>2. n # 0
  BY <1>1, FS_EmptySet
<1>3. PICK m \in Nat : n - 1 = m
  BY <1>1, <1>2
<1>4. PICK rest \in Nat : rest = m * PerPayment
  BY <1>3, Limits, Times
<1>5. spent + asked[c] + rest <= limit + slack
  BY <1>1, <1>3, <1>4
<1>6. spent + asked[c] + (Cardinality(R) - 1) * PerPayment <= limit + slack
  BY <1>1, <1>3, <1>4, <1>5
<1> QED  BY <1>6 DEF Room

\* With room, the limit is kept.
LEMMA RoomIsWithin ==
  ASSUME NEW spent \in Int, NEW limit \in Nat, NEW R, NEW asked, Waiters(R, asked), Room(spent, limit, R, asked)
  PROVE  spent <= limit
<1>1. CASE R = {}
  BY <1>1 DEF Room
<1>2. CASE R # {}
  <2>1. PICK n \in Nat : n = Cardinality(R)
    BY FS_CardinalityType DEF Waiters
  <2>2. n # 0
    BY <1>2, <2>1, FS_EmptySet DEF Waiters
  <2>3. PICK m \in Nat : n - 1 = m
    BY <2>1, <2>2
  <2>4. PICK rest \in Nat : rest = m * PerPayment
    BY <2>3, Limits, Times
  <2>5. PICK d \in R : spent + asked[d] + (n - 1) * PerPayment <= limit
    BY <1>2, <2>1 DEF Room
  <2>6. spent + asked[d] + rest <= limit /\ asked[d] \in Nat
    BY <2>3, <2>4, <2>5 DEF Waiters
  <2> QED  BY <2>6
<1> QED  BY <1>1, <1>2

-----------------------------------------------------------------------------
(* What a step does to what is spent, and to those that wait.              *)

\* A sum of what is settled is an amount.
LEMMA SumsType ==
  ASSUME NEW ints \in [Intents -> Intent], NEW recs \in Seq(Receipt), OfKnown(ints, recs)
  PROVE  /\ SpentOf(ints, recs, SettledOf(recs)) \in Amount
         /\ \A day : SpentOf(ints, recs, SettledOn(recs, day)) \in Amount
<1>1. Kept(ints, ints)
  BY DEF Kept
<1> QED  BY <1>1, PaidType, AmountsKept

\* What is spent is an amount.
LEMMA Money ==
  ASSUME SafeInv
  PROVE  /\ OfKnown(intents, receipts) /\ intents \in [Intents -> Intent] /\ receipts \in Seq(Receipt)
         /\ today \in Nat /\ SpentToday \in Amount /\ SpentThisMonth \in Amount
<1>1. /\ intents \in [Intents -> Intent] /\ receipts \in Seq(Receipt) /\ today \in Nat
      /\ OfKnown(intents, receipts)
  BY KnownIs DEF SafeInv, StoreInv, TypeOK, ReceiptsSound, OfKnown
<1>2. PICK ints \in [Intents -> Intent], recs \in Seq(Receipt) : ints = intents /\ recs = receipts
  BY <1>1
<1>3. SpentOf(ints, recs, SettledOf(recs)) \in Amount /\ \A day : SpentOf(ints, recs, SettledOn(recs, day)) \in Amount
  BY <1>1, <1>2, SumsType
<1> QED  BY <1>1, <1>2, <1>3, SpentIs

\* It still is after a step.
LEMMA MoneyNext ==
  ASSUME SafeInv'
  PROVE  SpentToday' \in Amount /\ SpentThisMonth' \in Amount
<1>1. intents' \in [Intents -> Intent] /\ receipts' \in Seq(Receipt) /\ OfKnown(intents', receipts')
  BY DEF SafeInv, StoreInv, TypeOK, ReceiptsSound, OfKnown, Known, KnownIn
<1>2. PICK ints \in [Intents -> Intent], recs \in Seq(Receipt) : ints = intents' /\ recs = receipts'
  BY <1>1
<1>3. SpentOf(ints, recs, SettledOf(recs)) \in Amount /\ \A day : SpentOf(ints, recs, SettledOn(recs, day)) \in Amount
  BY <1>1, <1>2, SumsType
<1> QED  BY <1>2, <1>3, SpentIsNext

\* Without a new receipt nothing more is spent.
LEMMA SameReceipts ==
  ASSUME SafeInv, SafeInv', Kept(intents, intents'), UNCHANGED <<today, receipts>>
  PROVE  SpentToday' = SpentToday /\ SpentThisMonth' = SpentThisMonth
<1>1. PICK ints \in [Intents -> Intent], ints2 \in [Intents -> Intent], recs \in Seq(Receipt), day \in Nat :
        ints = intents /\ ints2 = intents' /\ recs = receipts /\ day = today
  BY Money DEF SafeInv, StoreInv, TypeOK
<1>2. OfKnown(ints, recs) /\ Kept(ints, ints2)
  BY <1>1, Money
<1>3. /\ SettledOf(recs) \in SUBSET Places(recs) /\ IsFiniteSet(SettledOf(recs))
      /\ SettledOn(recs, day) \in SUBSET Places(recs) /\ IsFiniteSet(SettledOn(recs, day))
  BY <1>2, PaidType
<1>4. /\ SpentOf(ints2, recs, SettledOf(recs)) = SpentOf(ints, recs, SettledOf(recs))
      /\ SpentOf(ints2, recs, SettledOn(recs, day)) = SpentOf(ints, recs, SettledOn(recs, day))
  BY <1>2, <1>3, AmountsKept
<1>5. receipts' = recs /\ today' = day
  BY <1>1
<1> QED  BY <1>1, <1>4, <1>5, SpentIs, SpentIsNext

\* A settled receipt of today adds its amount to both sums.
LEMMA NewReceipt ==
  ASSUME SafeInv, SafeInv', Kept(intents, intents'), UNCHANGED today,
         NEW rec \in Receipt, receipts' = Append(receipts, rec), rec.of \in Known, rec.day = today
  PROVE  IF rec.status = "settled"
         THEN /\ SpentToday' = Plus(SpentToday, intents[rec.of].amount)
              /\ SpentThisMonth' = Plus(SpentThisMonth, intents[rec.of].amount)
         ELSE SpentToday' = SpentToday /\ SpentThisMonth' = SpentThisMonth
<1>1. PICK ints \in [Intents -> Intent], ints2 \in [Intents -> Intent], recs \in Seq(Receipt), day \in Nat :
        ints = intents /\ ints2 = intents' /\ recs = receipts /\ day = today
  BY Money DEF SafeInv, StoreInv, TypeOK
<1>2. PICK recs2 : recs2 = Append(recs, rec)
  OBVIOUS
<1>3. OfKnown(ints, recs) /\ Kept(ints, ints2) /\ rec.of \in KnownIn(ints)
  BY <1>1, Money, KnownIs
<1>4. Chosen(SettledOf(recs), Places(recs)) /\ Chosen(SettledOn(recs, day), Places(recs))
  BY <1>3, PaidType DEF Chosen
<1>5. PICK amount : amount = ints[rec.of].amount
  OBVIOUS
<1>6. \A ks : Chosen(ks, Places(recs)) =>
        /\ SpentOf(ints2, recs2, ks) = SpentOf(ints, recs, ks)
        /\ SpentOf(ints2, recs2, ks \cup {Len(recs) + 1}) = Plus(SpentOf(ints, recs, ks), amount)
  <2> SUFFICES ASSUME NEW ks, Chosen(ks, Places(recs))
               PROVE  /\ SpentOf(ints2, recs2, ks) = SpentOf(ints, recs, ks)
                      /\ SpentOf(ints2, recs2, ks \cup {Len(recs) + 1}) = Plus(SpentOf(ints, recs, ks), amount)
    OBVIOUS
  <2>0. AddsTo(ints, ints2, recs, rec, recs2)
    BY <1>2, <1>3 DEF AddsTo
  <2>1. /\ SpentOf(ints2, recs2, ks) = SpentOf(ints, recs, ks)
        /\ SpentOf(ints2, recs2, ks \cup {Len(recs) + 1}) = Plus(SpentOf(ints, recs, ks), ints[rec.of].amount)
    BY <2>0, ReceiptAdds
  <2> QED  BY <1>5, <2>1
<1>7. /\ SettledOf(recs2) = IF rec.status = "settled" THEN SettledOf(recs) \cup {Len(recs) + 1} ELSE SettledOf(recs)
      /\ SettledOn(recs2, day) = IF rec.status = "settled" THEN SettledOn(recs, day) \cup {Len(recs) + 1}
                                 ELSE SettledOn(recs, day)
  <2>1. PICK n \in Nat, last \in Nat : n = Len(recs) /\ last = n + 1
    OBVIOUS
  <2>2. /\ DOMAIN recs = 1..n /\ DOMAIN recs2 = 1..n \cup {last} /\ last \notin 1..n
        /\ recs2[last] = rec /\ \A k \in 1..n : recs2[k] = recs[k]
    BY <1>2, <2>1
  <2>3. rec.day = day
    BY <1>1
  <2> QED  BY <2>1, <2>2, <2>3 DEF SettledOf, SettledOn
<1>8. receipts' = recs2 /\ today' = day
  BY <1>1, <1>2
<1>9. CASE rec.status = "settled"
  BY <1>1, <1>4, <1>5, <1>6, <1>7, <1>8, <1>9, SpentIs, SpentIsNext
<1>10. CASE rec.status # "settled"
  BY <1>1, <1>4, <1>5, <1>6, <1>7, <1>8, <1>10, SpentIs, SpentIsNext
<1> QED  BY <1>9, <1>10

\* Nothing is spent without receipts.
LEMMA NothingSpent ==
  ASSUME NEW ints \in [Intents -> Intent], NEW recs \in Seq(Receipt), OfKnown(ints, recs)
  PROVE  SpentOf(ints, recs, {}) = 0
<1>1. PICK amt \in [Places(recs) -> Int] : amt = PaidOf(ints, recs)
  BY PaidType
<1>2. SumOver(amt, {}) = 0
  BY SumOfNone
<1> QED  BY <1>1, <1>2 DEF SpentOf, Void

\* No receipt is of the day that begins.
LEMMA NewDay ==
  ASSUME SafeInv, UNCHANGED <<intents, receipts>>, today' = today + 1
  PROVE  SpentToday' = 0 /\ SpentThisMonth' = SpentThisMonth
<1>1. PICK ints \in [Intents -> Intent], recs \in Seq(Receipt), day \in Nat :
        ints = intents /\ recs = receipts /\ day = today
  BY Money
<1>2. OfKnown(ints, recs)
  BY <1>1, Money
<1>3. SettledOn(recs, day + 1) = {}
  <2>1. \A k \in DOMAIN recs : recs[k].day <= day
    BY <1>1 DEF SafeInv, StoreInv, ReceiptsSound
  <2> QED  BY <2>1 DEF SettledOn, SettledOf
<1>4. SpentOf(ints, recs, {}) = 0
  BY <1>2, NothingSpent
<1>5. intents' = ints /\ receipts' = recs /\ today' = day + 1
  BY <1>1
<1> QED  BY <1>1, <1>3, <1>4, <1>5, SpentIs, SpentIsNext

\* What an approval asks for is the amount of its intent where that adds
\* something.
LEMMA AskedIs ==
  ASSUME SafeInv, NEW d \in Callers
  PROVE  /\ Asked[d] \in Nat
         /\ call[d].of \in Known =>
              /\ intents[call[d].of].amount \in Amount
              /\ Asked[d] = Adds(intents[call[d].of].amount)
<1>1. /\ intents \in [Intents -> Intent] /\ NaN \notin Int
      /\ \A i \in Intents : intents[i].amount \in Amount
  BY AmountType DEF SafeInv, StoreInv, TypeOK
<1>2. \A amount \in Amount : Adds(amount) \in Nat
  BY DEF Adds, Amount
<1> QED  BY <1>1, <1>2 DEF Asked, Known

\* Those that wait are there, on the direct rail, and ask for PerPayment at
\* most.
LEMMA Waiting ==
  ASSUME SafeInv
  PROVE  /\ Waiters(Awaiting, Asked) /\ (Awaiting # {} => mode = "direct")
         /\ Awaiting \subseteq AtRail /\ AtRail \subseteq Present /\ Present \subseteq Callers
         /\ IsFiniteSet(Present)
         /\ \A d \in AtRail : call[d].of \in Known
<1>1. Awaiting \subseteq AtRail /\ AtRail \subseteq Present /\ Present \subseteq Callers
  BY DEF Awaiting, AtRail, Present
<1>2. IsFiniteSet(Awaiting) /\ IsFiniteSet(Present)
  BY <1>1, Limits, FS_Subset
<1>3. \A d \in AtRail : call[d].of \in Known
  BY AtWork DEF AtRail
<1>4. ASSUME NEW d \in Awaiting
      PROVE  mode = "direct" /\ Asked[d] \in Nat /\ Asked[d] <= PerPayment
  <2>1. PICK amount \in Amount : amount = intents[call[d].of].amount /\ Asked[d] = Adds(amount) /\ Asked[d] \in Nat
    BY <1>1, <1>3, AskedIs
  <2>2. mode = "direct" /\ ~Exceeds(amount, PerPayment)
    BY <1>1, <2>1 DEF AtRail, SafeInv, StoreInv, CallsSound, CallSound
  <2>3. Asked[d] > 0
    BY DEF Awaiting
  <2>4. amount # NaN /\ amount \in Int /\ Asked[d] = amount
    BY <2>1, <2>3 DEF Adds, Amount
  <2> QED  BY <2>1, <2>2, <2>4, Limits DEF Exceeds
<1> QED  BY <1>1, <1>2, <1>3, <1>4 DEF Waiters

\* How one caller's step changes who waits.
LEMMA WaitingNext ==
  ASSUME SafeInv, SafeInv', NEW c \in Callers, NEW r, call' = [call EXCEPT ![c] = r], Kept(intents, intents')
  PROVE  /\ ~(r.op = "approve" /\ r.pc = "rail") => Awaiting' = Awaiting \ {c}
         /\ r.op = "approve" /\ r.pc = "rail" =>
              Awaiting' = IF Asked'[c] > 0 THEN Awaiting \cup {c} ELSE Awaiting \ {c}
         /\ \A d \in Awaiting \ {c} : Asked'[d] = Asked[d]
<1>1. call \in [Callers -> Call]
  BY DEF SafeInv, StoreInv, TypeOK
<1>2. call'[c] = r /\ \A d \in Callers : d # c => call'[d] = call[d]
  BY <1>1
<1>3. ASSUME NEW d \in AtRail \ {c}
      PROVE  Asked'[d] = Asked[d]
  <2>1. PICK i \in Intents : i = call[d].of /\ i \in KnownIn(intents)
    BY <1>3, Waiting, KnownIs DEF Known
  <2>2. d \in Callers /\ call'[d] = call[d] /\ intents'[i].amount = intents[i].amount
    BY <1>2, <2>1 DEF AtRail, Kept
  <2> QED  BY <2>1, <2>2 DEF Asked
<1>4. AtRail' = IF r.op = "approve" /\ r.pc = "rail" THEN AtRail \cup {c} ELSE AtRail \ {c}
  BY <1>2 DEF AtRail
<1>5. \A d : d \in Awaiting <=> d \in AtRail /\ Asked[d] > 0
  BY DEF Awaiting
<1>6. \A d : d \in Awaiting' <=> d \in AtRail' /\ Asked'[d] > 0
  BY DEF Awaiting
<1> QED  BY <1>3, <1>4, <1>5, <1>6

\* The slack is PerPayment for each client but one, so it covers all those
\* that wait beside a client that is being served.
LEMMA SlackFits ==
  ASSUME SafeInv
  PROVE  /\ DailyLimit + Slack \in Nat /\ MonthlyLimit + Slack \in Nat
         /\ Slack \in Int /\ 0 <= PerPayment + Slack
         /\ \A c \in Present : /\ Slack \in Nat
                               /\ c \notin Awaiting => Cardinality(Awaiting) * PerPayment <= Slack
                               /\ mode = "direct" => (Cardinality(Awaiting \cup {c}) - 1) * PerPayment <= Slack
<1>1. PICK n \in Nat : n = AtOnce /\ n = Cardinality(Present)
  BY Waiting, FS_CardinalityType DEF SafeInv, StoreInv
<1>2. PerPayment \in Nat /\ DailyLimit \in Nat /\ MonthlyLimit \in Nat
      /\ PerPayment <= DailyLimit /\ DailyLimit <= MonthlyLimit
  BY Limits
<1>3. CASE n = 0
  <2>1. Present = {}
    BY <1>1, <1>3, Waiting, FS_EmptySet
  <2>2. Slack = 0 \/ Slack = -PerPayment
    <3>1. (0 - 1) * PerPayment = -PerPayment
      BY <1>2
    <3> QED  BY <1>1, <1>3, <3>1 DEF Slack
  <2> QED  BY <1>2, <2>1, <2>2
<1>4. CASE n # 0
  <2>1. PICK m \in Nat : n - 1 = m
    BY <1>4
  <2>2. PICK rest \in Nat : rest = m * PerPayment
    BY <1>2, Times
  <2>3. Slack = IF mode = "direct" THEN rest ELSE 0
    BY <1>1, <2>1, <2>2 DEF Slack
  <2>4. \A R : R \subseteq Present /\ R # Present => IsFiniteSet(R) /\ Cardinality(R) \in Nat /\ Cardinality(R) <= m
    <3> SUFFICES ASSUME NEW R, R \subseteq Present, R # Present
                 PROVE  IsFiniteSet(R) /\ Cardinality(R) \in Nat /\ Cardinality(R) <= m
      OBVIOUS
    <3>1. /\ IsFiniteSet(R) /\ Cardinality(R) <= Cardinality(Present)
          /\ Cardinality(R) # Cardinality(Present)
      BY Waiting, FS_Subset
    <3>2. Cardinality(R) \in Nat
      BY <3>1, FS_CardinalityType
    <3> QED  BY <1>1, <2>1, <3>1, <3>2
  <2>5. ASSUME NEW c \in Present, c \notin Awaiting
        PROVE  Cardinality(Awaiting) * PerPayment <= Slack
    <3>1. PICK k \in Nat : k = Cardinality(Awaiting) /\ k <= m
      BY <2>4, <2>5, Waiting
    <3>2. CASE mode = "direct"
      BY <1>2, <2>2, <2>3, <3>1, <3>2, Times
    <3>3. CASE mode # "direct"
      <4>1. k = 0
        BY <3>1, <3>3, Waiting, FS_EmptySet
      <4> QED  BY <1>2, <2>3, <3>1, <3>3, <4>1
    <3> QED  BY <3>2, <3>3
  <2>6. ASSUME NEW c \in Present, mode = "direct"
        PROVE  (Cardinality(Awaiting \cup {c}) - 1) * PerPayment <= Slack
    <3>1. PICK R : R = Awaiting \cup {c}
      OBVIOUS
    <3>2. R \subseteq Present /\ IsFiniteSet(R) /\ R # {}
      BY <3>1, Waiting, FS_Subset
    <3>3. PICK k \in Nat : k = Cardinality(R) /\ k <= n /\ k # 0
      BY <1>1, <3>2, Waiting, FS_Subset, FS_CardinalityType, FS_EmptySet
    <3>4. PICK j \in Nat : k - 1 = j /\ j <= m
      BY <2>1, <3>3
    <3>5. j * PerPayment <= m * PerPayment
      BY <1>2, <3>4, Times
    <3> QED  BY <2>2, <2>3, <2>6, <3>1, <3>3, <3>4, <3>5
  <2> QED  BY <1>2, <2>2, <2>3, <2>5, <2>6
<1> QED  BY <1>3, <1>4

-----------------------------------------------------------------------------
(* Every step leaves room under both limits.  Each lemma is about one sum  *)
(* and its limit, before and after.                                        *)

\* What the lemmas take from the state: the sums are amounts, and the limits
\* naturals.
Bounds(spent, spent2, limit) == spent \in Amount /\ spent2 \in Amount /\ limit \in Nat

\* No more is spent, or nobody knows how much, and the same clients wait.
LEMMA FitsKept ==
  ASSUME NEW spent, NEW spent2, NEW limit, Bounds(spent, spent2, limit), NEW R, NEW asked, NEW asked2,
         spent2 # NaN => spent # NaN /\ spent2 <= spent,
         Waiters(R, asked), \A d \in R : asked2[d] = asked[d], Fits(spent, limit, R, asked)
  PROVE  Fits(spent2, limit, R, asked2)
BY RoomKept DEF Bounds, Fits, Amount

\* One that waits has its answer.
LEMMA FitsPays ==
  ASSUME NEW spent, NEW spent2, NEW limit, Bounds(spent, spent2, limit), NEW R, NEW asked, NEW asked2, NEW c \in R,
         spent2 # NaN => spent # NaN /\ spent2 <= spent + asked[c],
         Waiters(R, asked), \A d \in R \ {c} : asked2[d] = asked[d], Fits(spent, limit, R, asked)
  PROVE  Fits(spent2, limit, R \ {c}, asked2)
BY RoomPays DEF Bounds, Fits, Amount

\* A limit of the policy, which a payment does not exceed.
Limit == {limit \in Nat : PerPayment <= limit}

\* The limits are such.
LEMMA TheLimits == DailyLimit \in Limit /\ MonthlyLimit \in Limit
BY Limits DEF Limit

\* A judgement is about what is spent when it is made: who was judged pays at
\* once.
LEMMA FitsJudged ==
  ASSUME SafeInv, NEW c \in Present, c \notin AtRail, NEW limit \in Limit, NEW spent2 \in Amount,
         spent2 # NaN => spent2 <= limit, NEW asked2, \A d \in Awaiting : asked2[d] = Asked[d]
  PROVE  Fits(spent2, limit + Slack, Awaiting, asked2)
<1>1. PICK R : R = Awaiting
  OBVIOUS
<1>2. Waiters(R, asked2)
  BY <1>1, Waiting DEF Waiters
<1>3. PICK slack \in Nat : slack = Slack /\ Cardinality(R) * PerPayment <= slack
  BY <1>1, SlackFits, Waiting
<1>4. spent2 # NaN => Room(spent2, limit + slack, R, asked2)
  BY <1>2, <1>3, RoomJudged DEF Amount, Limit
<1> QED  BY <1>1, <1>3, <1>4 DEF Fits

\* Or waits for the network.
LEMMA FitsJoins ==
  ASSUME SafeInv, mode = "direct", NEW c \in Present, NEW limit \in Limit, NEW spent \in Amount, NEW asked2,
         asked2[c] \in Nat, spent # NaN => spent + asked2[c] <= limit
  PROVE  Fits(spent, limit + Slack, Awaiting \cup {c}, asked2)
<1>1. PICK R : R = Awaiting \cup {c}
  OBVIOUS
<1>2. c \in R /\ IsFiniteSet(R)
  BY <1>1, Waiting, FS_AddElement DEF Waiters
<1>3. PICK slack \in Nat : slack = Slack /\ (Cardinality(R) - 1) * PerPayment <= slack
  BY <1>1, SlackFits
<1>4. spent # NaN => Room(spent, limit + slack, R, asked2)
  BY <1>2, <1>3, RoomJoins DEF Amount, Limit
<1> QED  BY <1>1, <1>3, <1>4 DEF Fits

\* Nothing is spent yet: whoever waits asks for PerPayment at most.
LEMMA FitsAnew ==
  ASSUME SafeInv, NEW limit \in Limit
  PROVE  Fits(0, limit + Slack, Awaiting, Asked)
<1>1. CASE Awaiting = {}
  <2>1. Slack \in Int /\ 0 <= limit + Slack
    BY SlackFits, Limits DEF Limit
  <2> QED  BY <1>1, <2>1 DEF Fits, Room
<1>2. CASE Awaiting # {}
  <2>1. PICK c \in Awaiting : TRUE
    BY <1>2
  <2>2. c \in Present /\ mode = "direct" /\ Asked[c] \in Nat /\ Asked[c] <= PerPayment /\ Awaiting \cup {c} = Awaiting
    BY <2>1, Waiting DEF Waiters
  <2>3. 0 \in Amount /\ 0 + Asked[c] <= limit
    BY <2>2, Limits DEF Amount, Limit
  <2>4. Fits(0, limit + Slack, Awaiting \cup {c}, Asked)
    BY <2>2, <2>3, FitsJoins
  <2> QED  BY <2>2, <2>4
<1> QED  BY <1>1, <1>2

\* The sums before and after a step, with room under their limits.
LEMMA BudgetIs ==
  ASSUME SafeInv, SafeInv', UNCHANGED mode
  PROVE  /\ Slack' = Slack
         /\ Bounds(SpentToday, SpentToday', DailyLimit + Slack)
         /\ Bounds(SpentThisMonth, SpentThisMonth', MonthlyLimit + Slack)
<1>1. SpentToday \in Amount /\ SpentThisMonth \in Amount
  BY Money
<1>2. SpentToday' \in Amount /\ SpentThisMonth' \in Amount
  BY MoneyNext
<1> QED  BY <1>1, <1>2, SlackFits DEF Slack, Bounds

\* No more is spent, in neither period, and the same clients wait.
LEMMA SameWaiting ==
  ASSUME SafeInv, SafeInv', BudgetInv, UNCHANGED mode,
         SpentToday' # NaN => SpentToday # NaN /\ SpentToday' <= SpentToday,
         SpentThisMonth' # NaN => SpentThisMonth # NaN /\ SpentThisMonth' <= SpentThisMonth,
         Awaiting' = Awaiting, \A d \in Awaiting : Asked'[d] = Asked[d]
  PROVE  BudgetInv'
<1>1. PICK spent, spent2, spentM, spentM2 :
        spent = SpentToday /\ spent2 = SpentToday' /\ spentM = SpentThisMonth /\ spentM2 = SpentThisMonth'
  OBVIOUS
<1>2. PICK daily, monthly : daily = DailyLimit + Slack /\ monthly = MonthlyLimit + Slack
  OBVIOUS
<1>3. PICK R, asked, asked2 : R = Awaiting /\ asked = Asked /\ asked2 = Asked'
  OBVIOUS
<1>4. Waiters(R, asked) /\ \A d \in R : asked2[d] = asked[d]
  BY <1>3, Waiting
<1>5. Fits(spent, daily, R, asked) /\ Fits(spentM, monthly, R, asked)
  BY <1>1, <1>2, <1>3 DEF BudgetInv
<1>6. Slack' = Slack /\ Bounds(spent, spent2, daily) /\ Bounds(spentM, spentM2, monthly)
  BY <1>1, <1>2, BudgetIs
<1>7. Fits(spent2, daily, R, asked2) /\ Fits(spentM2, monthly, R, asked2)
  BY <1>1, <1>4, <1>5, <1>6, FitsKept
<1> QED  BY <1>1, <1>2, <1>3, <1>6, <1>7 DEF BudgetInv

\* One that waits has its answer, and has paid what it asked for, or less.
LEMMA OneAnswered ==
  ASSUME SafeInv, SafeInv', BudgetInv, UNCHANGED mode, NEW c \in Awaiting,
         SpentToday' # NaN => SpentToday # NaN /\ SpentToday' <= SpentToday + Asked[c],
         SpentThisMonth' # NaN => SpentThisMonth # NaN /\ SpentThisMonth' <= SpentThisMonth + Asked[c],
         Awaiting' = Awaiting \ {c}, \A d \in Awaiting \ {c} : Asked'[d] = Asked[d]
  PROVE  BudgetInv'
<1>1. PICK spent, spent2, spentM, spentM2 :
        spent = SpentToday /\ spent2 = SpentToday' /\ spentM = SpentThisMonth /\ spentM2 = SpentThisMonth'
  OBVIOUS
<1>2. PICK daily, monthly : daily = DailyLimit + Slack /\ monthly = MonthlyLimit + Slack
  OBVIOUS
<1>3. PICK R, asked, asked2 : R = Awaiting /\ asked = Asked /\ asked2 = Asked'
  OBVIOUS
<1>4. c \in R /\ Waiters(R, asked) /\ \A d \in R \ {c} : asked2[d] = asked[d]
  BY <1>3, Waiting
<1>5. Fits(spent, daily, R, asked) /\ Fits(spentM, monthly, R, asked)
  BY <1>1, <1>2, <1>3 DEF BudgetInv
<1>6. Slack' = Slack /\ Bounds(spent, spent2, daily) /\ Bounds(spentM, spentM2, monthly)
  BY <1>1, <1>2, BudgetIs
<1>7. /\ spent2 # NaN => spent # NaN /\ spent2 <= spent + asked[c]
      /\ spentM2 # NaN => spentM # NaN /\ spentM2 <= spentM + asked[c]
  BY <1>1, <1>3
<1>8. Fits(spent2, daily, R \ {c}, asked2) /\ Fits(spentM2, monthly, R \ {c}, asked2)
  BY <1>4, <1>5, <1>6, <1>7, FitsPays
<1> QED  BY <1>1, <1>2, <1>3, <1>6, <1>8 DEF BudgetInv

\* The five kinds of steps, one by one.
LEMMA QuietBudget ==
  ASSUME SafeInv, SafeInv', BudgetInv, NEW c \in Callers, Quiet(c)
  PROVE  BudgetInv'
<1>1. PICK r : call' = [call EXCEPT ![c] = r] /\ ~(r.op = "approve" /\ r.pc = "rail")
  BY DEF Quiet
<1>2. Kept(intents, intents') /\ UNCHANGED <<mode, today, receipts>> /\ c \notin Awaiting
  BY DEF Quiet, Awaiting
<1>3. Awaiting' = Awaiting /\ \A d \in Awaiting : Asked'[d] = Asked[d]
  BY <1>1, <1>2, WaitingNext
<1>4. SpentToday' = SpentToday /\ SpentThisMonth' = SpentThisMonth
  BY <1>2, SameReceipts
<1>5. SpentToday \in Int \cup {NaN} /\ SpentThisMonth \in Int \cup {NaN}
  BY Money DEF Amount
<1> QED  BY <1>2, <1>3, <1>4, <1>5, SameWaiting

\* What a judgement says of a sum and the amount of an approval.
LEMMA Judged ==
  ASSUME NEW spent \in Amount, NEW amount \in Amount, NEW limit \in Limit, ~Exceeds(Plus(spent, amount), limit)
  PROVE  /\ Plus(spent, amount) \in Amount
         /\ Plus(spent, amount) # NaN =>
              /\ spent # NaN /\ amount # NaN /\ Plus(spent, amount) <= limit
              /\ Plus(spent, amount) = spent + amount
         /\ spent # NaN /\ Adds(amount) > 0 => spent + Adds(amount) <= limit
BY AmountType DEF Amount, Plus, Exceeds, Adds, Limit

\* An approval goes to the network.
LEMMA DirectBudget ==
  ASSUME SafeInv, SafeInv', BudgetInv, NEW c \in Callers, GoesDirect(c)
  PROVE  BudgetInv'
<1>1. PICK r : call' = [call EXCEPT ![c] = r] /\ r.op = "approve" /\ r.pc = "rail" /\ r.of = call[c].of
  BY DEF GoesDirect
<1>2. /\ UNCHANGED <<mode, today, intents, receipts>> /\ mode = "direct" /\ c \notin AtRail
      /\ call[c].of \in Known /\ WithinDailyLimit(call[c].of) /\ WithinMonthlyLimit(call[c].of)
      /\ c \in Present
  BY DEF GoesDirect, Present
<1>3. Kept(intents, intents') /\ c \notin Awaiting
  BY <1>2 DEF Kept, Awaiting
<1>4. SpentToday' = SpentToday /\ SpentThisMonth' = SpentThisMonth
  BY <1>2, <1>3, SameReceipts
<1>5. PICK amount \in Amount : amount = intents[call[c].of].amount /\ Asked[c] = Adds(amount) /\ Asked[c] \in Nat
  BY <1>2, AskedIs
<1>6. Asked'[c] = Asked[c]
  <2>1. call'[c].of = call[c].of
    BY <1>1 DEF SafeInv, StoreInv, TypeOK
  <2> QED  BY <1>2, <2>1 DEF Asked
<1>7. /\ SpentToday \in Amount /\ SpentThisMonth \in Amount
      /\ ~Exceeds(Plus(SpentToday, amount), DailyLimit) /\ ~Exceeds(Plus(SpentThisMonth, amount), MonthlyLimit)
  BY <1>2, <1>5, Money DEF WithinDailyLimit, WithinMonthlyLimit
<1>8. CASE Asked[c] > 0
  <2>1. Awaiting' = Awaiting \cup {c}
    BY <1>1, <1>3, <1>6, <1>8, WaitingNext
  <2>2. PICK spent \in Amount, spentM \in Amount, asked2 \in {Asked'} : spent = SpentToday /\ spentM = SpentThisMonth
    BY <1>7
  <2>3. asked2[c] = Adds(amount) /\ asked2[c] \in Nat /\ Adds(amount) > 0
    BY <1>5, <1>6, <1>8, <2>2
  <2>4. /\ spent # NaN => spent + Adds(amount) <= DailyLimit
        /\ spentM # NaN => spentM + Adds(amount) <= MonthlyLimit
    BY <1>7, <2>2, <2>3, TheLimits, Judged
  <2>5. Fits(spent, DailyLimit + Slack, Awaiting \cup {c}, asked2) /\ Fits(spentM, MonthlyLimit + Slack, Awaiting \cup {c}, asked2)
    BY <1>2, <2>3, <2>4, TheLimits, FitsJoins
  <2>6. Slack' = Slack
    BY <1>2, BudgetIs
  <2> QED  BY <1>4, <2>1, <2>2, <2>5, <2>6 DEF BudgetInv
<1>9. CASE ~(Asked[c] > 0)
  <2>1. Awaiting' = Awaiting /\ \A d \in Awaiting : Asked'[d] = Asked[d]
    BY <1>1, <1>3, <1>6, <1>9, WaitingNext
  <2>2. SpentToday \in Int \cup {NaN} /\ SpentThisMonth \in Int \cup {NaN}
    BY <1>7 DEF Amount
  <2> QED  BY <1>2, <1>4, <2>1, <2>2, SameWaiting
<1> QED  BY <1>8, <1>9

\* The network fails.
LEMMA GivesUpBudget ==
  ASSUME SafeInv, SafeInv', BudgetInv, NEW c \in Callers, GivesUp(c)
  PROVE  BudgetInv'
<1>1. PICK r : call' = [call EXCEPT ![c] = r] /\ r.pc # "rail"
  BY DEF GivesUp
<1>2. UNCHANGED <<mode, today, intents, receipts>>
  BY DEF GivesUp
<1>3. Kept(intents, intents')
  BY <1>2 DEF Kept
<1>4. Awaiting' = Awaiting \ {c} /\ \A d \in Awaiting \ {c} : Asked'[d] = Asked[d]
  BY <1>1, <1>3, WaitingNext
<1>5. SpentToday' = SpentToday /\ SpentThisMonth' = SpentThisMonth
  BY <1>2, <1>3, SameReceipts
<1>6. SpentToday \in Int \cup {NaN} /\ SpentThisMonth \in Int \cup {NaN} /\ Asked[c] \in Nat
  BY Money, AskedIs DEF Amount
<1>7. CASE c \in Awaiting
  <2>1. /\ SpentToday' # NaN => SpentToday # NaN /\ SpentToday' <= SpentToday + Asked[c]
        /\ SpentThisMonth' # NaN => SpentThisMonth # NaN /\ SpentThisMonth' <= SpentThisMonth + Asked[c]
    BY <1>5, <1>6
  <2> QED  BY <1>2, <1>4, <1>7, <2>1, OneAnswered
<1>8. CASE c \notin Awaiting
  <2>1. Awaiting' = Awaiting /\ \A d \in Awaiting : Asked'[d] = Asked[d]
    BY <1>4, <1>8
  <2> QED  BY <1>2, <1>5, <1>6, <2>1, SameWaiting
<1> QED  BY <1>7, <1>8

\* A settled receipt changes a sum by its amount, or makes it no number.
LEMMA SumGrows ==
  ASSUME NEW spent \in Amount, NEW amount \in Amount, Plus(spent, amount) # NaN
  PROVE  /\ spent # NaN /\ spent \in Int /\ Plus(spent, amount) \in Int
         /\ Plus(spent, amount) <= spent + Adds(amount)
BY AmountType DEF Amount, Plus, Adds

\* A receipt is recorded.
LEMMA RecordsBudget ==
  ASSUME SafeInv, SafeInv', BudgetInv, NEW c \in Callers, Records(c)
  PROVE  BudgetInv'
<1>1. PICK r : call' = [call EXCEPT ![c] = r] /\ r.pc # "rail"
  BY DEF Records
<1>2. /\ UNCHANGED <<mode, today>> /\ Kept(intents, intents') /\ call[c].of \in Known
      /\ c \in Present
  BY DEF Records, Present
<1>3. PICK rec \in Receipt :
        /\ receipts' = Append(receipts, rec) /\ rec.of = call[c].of /\ rec.day = today
        /\ rec.status = "settled" /\ c \notin AtRail =>
             WithinDailyLimit(call[c].of) /\ WithinMonthlyLimit(call[c].of)
  BY DEF Records
<1>4. Awaiting' = Awaiting \ {c} /\ \A d \in Awaiting \ {c} : Asked'[d] = Asked[d]
  BY <1>1, <1>2, WaitingNext
<1>5. PICK amount \in Amount : amount = intents[call[c].of].amount /\ Asked[c] = Adds(amount) /\ Asked[c] \in Nat
  BY <1>2, AskedIs
<1>6. SpentToday \in Amount /\ SpentThisMonth \in Amount
  BY Money
<1>7. IF rec.status = "settled"
      THEN SpentToday' = Plus(SpentToday, amount) /\ SpentThisMonth' = Plus(SpentThisMonth, amount)
      ELSE SpentToday' = SpentToday /\ SpentThisMonth' = SpentThisMonth
  BY <1>2, <1>3, <1>5, NewReceipt
<1>8. /\ SpentToday' # NaN => SpentToday # NaN /\ SpentToday' <= SpentToday + Asked[c]
      /\ SpentThisMonth' # NaN => SpentThisMonth # NaN /\ SpentThisMonth' <= SpentThisMonth + Asked[c]
  <2>1. CASE rec.status = "settled"
    BY <1>5, <1>6, <1>7, <2>1, SumGrows
  <2>2. CASE rec.status # "settled"
    BY <1>5, <1>6, <1>7, <2>2 DEF Amount
  <2> QED  BY <2>1, <2>2
<1>9. CASE c \in Awaiting
  BY <1>2, <1>4, <1>8, <1>9, OneAnswered
<1>10. CASE c \notin Awaiting /\ (rec.status # "settled" \/ Asked[c] = 0)
  <2>1. Awaiting' = Awaiting /\ \A d \in Awaiting : Asked'[d] = Asked[d]
    BY <1>4, <1>10
  <2>2. /\ SpentToday' # NaN => SpentToday # NaN /\ SpentToday' <= SpentToday
        /\ SpentThisMonth' # NaN => SpentThisMonth # NaN /\ SpentThisMonth' <= SpentThisMonth
    <3>1. CASE Asked[c] = 0
      BY <1>6, <1>8, <3>1 DEF Amount
    <3>2. CASE rec.status # "settled"
      BY <1>6, <1>7, <3>2 DEF Amount
    <3> QED  BY <1>10, <3>1, <3>2
  <2> QED  BY <1>2, <2>1, <2>2, SameWaiting
<1>11. CASE c \notin Awaiting /\ rec.status = "settled" /\ Asked[c] # 0
  <2>1. c \notin AtRail
    BY <1>5, <1>11 DEF Awaiting
  <2>2. Awaiting' = Awaiting
    BY <1>4, <1>11
  <2>3. PICK spent2, spentM2, asked2 : spent2 = SpentToday' /\ spentM2 = SpentThisMonth' /\ asked2 = Asked'
    OBVIOUS
  <2>4. \A d \in Awaiting : asked2[d] = Asked[d]
    BY <1>4, <1>11, <2>3
  <2>5. /\ ~Exceeds(Plus(SpentToday, amount), DailyLimit) /\ ~Exceeds(Plus(SpentThisMonth, amount), MonthlyLimit)
        /\ spent2 = Plus(SpentToday, amount) /\ spentM2 = Plus(SpentThisMonth, amount)
    BY <1>3, <1>5, <1>7, <1>11, <2>1, <2>3 DEF WithinDailyLimit, WithinMonthlyLimit
  <2>6. /\ spent2 \in Amount /\ (spent2 # NaN => spent2 <= DailyLimit)
        /\ spentM2 \in Amount /\ (spentM2 # NaN => spentM2 <= MonthlyLimit)
    BY <1>5, <1>6, <2>5, TheLimits, Judged
  <2>7. Fits(spent2, DailyLimit + Slack, Awaiting, asked2) /\ Fits(spentM2, MonthlyLimit + Slack, Awaiting, asked2)
    BY <1>2, <2>1, <2>4, <2>6, TheLimits, FitsJudged
  <2>8. Slack' = Slack
    BY <1>2, BudgetIs
  <2> QED  BY <2>2, <2>3, <2>7, <2>8 DEF BudgetInv
<1> QED  BY <1>9, <1>10, <1>11

\* At midnight the day's sum is empty, and a step of nobody changes nothing.
LEMMA DayBudget ==
  ASSUME SafeInv, SafeInv', BudgetInv, UNCHANGED <<mode, intents, receipts, call>>,
         today' = today \/ today' = today + 1
  PROVE  BudgetInv'
<1>1. Awaiting' = Awaiting /\ Asked' = Asked /\ Slack' = Slack
  BY DEF Awaiting, AtRail, Asked, Slack
<1>2. CASE today' = today
  <2>1. Kept(intents, intents')
    BY DEF Kept
  <2>2. SpentToday' = SpentToday /\ SpentThisMonth' = SpentThisMonth
    BY <1>2, <2>1, SameReceipts
  <2> QED  BY <1>1, <2>2 DEF BudgetInv
<1>3. CASE today' = today + 1
  <2>1. SpentToday' = 0 /\ SpentThisMonth' = SpentThisMonth
    BY <1>3, NewDay
  <2>2. Fits(0, DailyLimit + Slack, Awaiting, Asked)
    BY TheLimits, FitsAnew
  <2> QED  BY <1>1, <2>1, <2>2 DEF BudgetInv
<1> QED  BY <1>2, <1>3

-----------------------------------------------------------------------------
(* The theorems                                                            *)

\* With no receipt and nobody waiting there is room.
LEMMA InitHolds ==
  ASSUME Init
  PROVE  HubInv
<1>1. PICK away \in SUBSET Callers : Cardinality(Callers \ away) = AtOnce /\ HubInit(Seeds, away)
  BY DEF Init
<1>2. /\ mode \in Mode /\ today = 0 /\ receipts = << >> /\ proofs = {} /\ spendRequests = {}
      /\ idempotencyKeys = [k \in Keys |-> None]
      /\ call = [c \in Callers |-> [IdleCall EXCEPT !.pc = IF c \in away THEN "away" ELSE "idle"]]
  BY <1>1 DEF HubInit
<1>3. intents \in [Intents -> Intent]
  <2>1. PICK f \in Seeds : intents = [i \in Intents |-> IF i \in DOMAIN f THEN f[i] ELSE NoIntent]
    BY <1>1 DEF HubInit
  <2>2. NoIntent \in Intent
    BY DEF NoIntent, Intent, Status, Type
  <2>3. \A i \in DOMAIN f : f[i] \in Intent
    <3>1. PICK p \in Providers, amount \in Amounts : f = Seed(p, amount)
      BY DEF Seeds, Positive
    <3>2. Category[p] \in Type
      BY HubAssumption
    <3>3. [status |-> "open", provider |-> p, type |-> Category[p], amount |-> amount] \in Intent
      BY <3>2 DEF Intent, Status
    <3> QED  BY <3>1, <3>3 DEF Seed
  <2> QED  BY <2>1, <2>2, <2>3
<1>4. \A c \in Callers : /\ call[c] \in Call /\ call[c].op = "none" /\ call[c].of = None
                         /\ call[c].pc = IF c \in away THEN "away" ELSE "idle"
  <2>1. PICK b \in Call : b = IdleCall /\ b.op = "none" /\ b.of = None
    BY RequestFields DEF IdleCall
  <2>2. "away" \in Pc /\ "idle" \in Pc
    BY DEF Pc
  <2> QED  BY <1>2, <2>1, <2>2 DEF Call
<1>5. TypeOK
  <2>1. call \in [Callers -> Call]
    BY <1>2, <1>4
  <2>2. idempotencyKeys \in [Keys -> Intents \cup {None}]
    BY <1>2
  <2> QED  BY <1>2, <1>3, <2>1, <2>2 DEF TypeOK
<1>6. CallsSound
  BY <1>4 DEF CallsSound, CallSound
<1>7. KeysSound /\ ReceiptsSound /\ SettledHasReceipt /\ NoLateSecondReceipt
  <2>1. KeysSound
    BY <1>2 DEF KeysSound
  <2>2. ReceiptsSound /\ NoLateSecondReceipt
    BY <1>2 DEF ReceiptsSound, NoLateSecondReceipt
  <2>3. SettledHasReceipt
    <3>1. PICK f \in Seeds : intents = [i \in Intents |-> IF i \in DOMAIN f THEN f[i] ELSE NoIntent]
      BY <1>1 DEF HubInit
    <3>2. PICK p \in Providers, amount \in Amounts : f = Seed(p, amount)
      BY DEF Seeds, Positive
    <3>3. \A i \in Intents : intents[i].status \in {"open", "absent"}
      BY <3>1, <3>2 DEF NoIntent, Seed
    <3> QED  BY <3>3 DEF SettledHasReceipt
  <2> QED  BY <2>1, <2>2, <2>3
<1>8. Cardinality(Present) = AtOnce
  <2>1. Present = Callers \ away
    BY <1>4 DEF Present
  <2> QED  BY <1>1, <2>1
<1>9. SafeInv
  BY <1>5, <1>6, <1>7, <1>8 DEF SafeInv, StoreInv
<1>10. BudgetInv
  <2>1. SpentToday = 0 /\ SpentThisMonth = 0
    <3>1. PICK ints \in [Intents -> Intent], recs \in Seq(Receipt) : ints = intents /\ recs = receipts
      BY <1>3, <1>5 DEF TypeOK
    <3>2. OfKnown(ints, recs) /\ recs = << >>
      BY <1>2, <3>1 DEF OfKnown
    <3>3. SettledOf(recs) = {} /\ SettledOn(recs, today) = {}
      BY <3>2 DEF SettledOf, SettledOn
    <3>4. SpentOf(ints, recs, {}) = 0
      BY <3>2, NothingSpent
    <3> QED  BY <3>1, <3>3, <3>4, SpentIs
  <2> QED  BY <1>9, <2>1, TheLimits, FitsAnew DEF BudgetInv
<1> QED  BY <1>9, <1>10 DEF HubInv

\* HubInv is inductive.
LEMMA StepHolds ==
  ASSUME HubInv, [Next]_hvars
  PROVE  HubInv'
<1>1. SafeInv /\ BudgetInv
  BY DEF HubInv
<1>2. /\ SafeInv'
      /\ \/ \E c \in Callers : Quiet(c) \/ GoesDirect(c) \/ GivesUp(c) \/ Records(c)
         \/ /\ UNCHANGED <<mode, intents, receipts, call>>
            /\ today' = today \/ today' = today + 1
  BY <1>1, Steps
<1>3. CASE \E c \in Callers : Quiet(c) \/ GoesDirect(c) \/ GivesUp(c) \/ Records(c)
  BY <1>1, <1>2, <1>3, QuietBudget, DirectBudget, GivesUpBudget, RecordsBudget DEF HubInv
<1>4. CASE UNCHANGED <<mode, intents, receipts, call>> /\ (today' = today \/ today' = today + 1)
  BY <1>1, <1>2, <1>4, DayBudget DEF HubInv
<1> QED  BY <1>2, <1>3, <1>4

\* The inductive invariant holds always.
THEOREM HubInvHolds == Spec => []HubInv
<1>1. Init => HubInv
  BY InitHolds
<1>2. HubInv /\ [Next]_hvars => HubInv'
  BY StepHolds
<1> QED  BY <1>1, <1>2, PTL DEF Spec

\* The state of the hub and the requests of its callers keep their types.
THEOREM TypeCorrect == Spec => []TypeOK
<1>1. HubInv => TypeOK
  BY DEF HubInv, SafeInv, StoreInv
<1> QED  BY <1>1, HubInvHolds, PTL

\* A settled intent has a settled receipt, an approved preview one that is
\* not settled (spendHubService.mjs approveIntent, approveLinkSpendRequest).
THEOREM SettledHasReceiptHolds == Spec => []SettledHasReceipt
<1>1. HubInv => SettledHasReceipt
  BY DEF HubInv, SafeInv
<1> QED  BY <1>1, HubInvHolds, PTL

\* An approval adds no receipt to an intent that had one when it began
\* (spendHubService.mjs approveIntent).
THEOREM NoLateSecondReceiptHolds == Spec => []NoLateSecondReceipt
<1>1. HubInv => NoLateSecondReceipt
  BY DEF HubInv, SafeInv
<1> QED  BY <1>1, HubInvHolds, PTL

\* A machine client that got its resource has a settled receipt of the intent
\* it was challenged with, for the provider it asked, whoever made the intent
\* under its key (machinePaymentAdapter.mjs).
THEOREM DeliveryIsPaidHolds == Spec => []DeliveryIsPaid
<1>1. ASSUME HubInv
      PROVE  DeliveryIsPaid
  <2> SUFFICES ASSUME NEW c \in Machines, Has(c, "resource"), call[c].receipt # 0
               PROVE  /\ receipts[call[c].receipt].of = call[c].of
                      /\ receipts[call[c].receipt].status = "settled"
                      /\ intents[call[c].of].provider = MachineProvider[c]
    BY DEF DeliveryIsPaid
  <2>1. c \in Callers
    BY HubClientsAssumption
  <2>2. CallSound(c, call[c], mode, intents, receipts)
    BY <1>1, <2>1 DEF HubInv, SafeInv, StoreInv, CallsSound
  <2> QED  BY <2>2 DEF CallSound, Has
<1> QED  BY <1>1, HubInvHolds, PTL

\* What a day's or the month's payments add up to, if it is a number, stays
\* within the limit, but for one payment of each other client on the direct
\* rail (domain.mjs evaluatePaymentIntent).
THEOREM LimitsHold == Spec => []DailyLimitHolds
<1>1. ASSUME HubInv
      PROVE  DailyLimitHolds
  <2>1. SafeInv /\ BudgetInv
    BY <1>1 DEF HubInv
  <2>2. PICK spent \in Amount, spentM \in Amount : spent = SpentToday /\ spentM = SpentThisMonth
    BY <2>1, Money
  <2>3. PICK daily \in Nat, monthly \in Nat : daily = DailyLimit + Slack /\ monthly = MonthlyLimit + Slack
    BY <2>1, SlackFits
  <2>4. Waiters(Awaiting, Asked) /\ Fits(spent, daily, Awaiting, Asked) /\ Fits(spentM, monthly, Awaiting, Asked)
    BY <2>1, <2>2, <2>3, Waiting DEF BudgetInv
  <2>5. (spent # NaN => spent <= daily) /\ (spentM # NaN => spentM <= monthly)
    BY <2>4, RoomIsWithin DEF Fits, Amount
  <2> QED  BY <2>2, <2>3, <2>5 DEF DailyLimitHolds
<1> QED  BY <1>1, HubInvHolds, PTL
=============================================================================
