---------------------------- MODULE RailRegistry ----------------------------
(***************************************************************************)
(* The choice of a payment rail (src/railRegistry.mjs) for the options of  *)
(* a provider (src/providerDefinitionV2.mjs) on the chains the environment *)
(* opens (src/chainRegistry.mjs).                                          *)
(*                                                                         *)
(* Abstractions: an option is its protocol and network; every option costs *)
(* one unit of USDC of its network.                                        *)
(***************************************************************************)
EXTENDS Integers, TLAPS

Stellar == "stellar:testnet"
Base == "eip155:84532"
Avalanche == "eip155:43113"
Networks == {Stellar, Base, Avalanche}

Rail == [protocol : {"stellar-mpp", "stellar-contract-account", "x402"}, network : Networks]

\* The rails of the table, with their fee ranks.
FeeRank(rail) ==
  CASE rail.protocol = "stellar-mpp" -> 3
    [] rail.protocol = "stellar-contract-account" -> 2
    [] rail.network = Base -> 3
    [] OTHER -> 2

\* normalizePaymentOption: x402 is for EVM chains, the others for Stellar.
Options == {rail \in Rail : (rail.protocol = "x402") <=> (rail.network # Stellar)}

\* What a quote is asked with: the provider's options and those of them it
\* has not disabled, what the caller has on each network, the networks its
\* policy allows and the one it prefers, and whether Base may be used.
Asked == [options : SUBSET Options \ {{}}, disabled : SUBSET Options, balance : [Networks -> {0, 1}],
          allowed : SUBSET Networks, preferred : Networks \cup {"none"}, base : BOOLEAN]

ChainOpen(q, network) == network = Stellar \/ (network = Base /\ q.base)

Executable(q, rail) ==
  /\ rail.network \in q.allowed
  /\ rail \notin q.disabled
  /\ ChainOpen(q, rail.network)
  /\ q.balance[rail.network] >= 1

One(condition) == IF condition THEN 1 ELSE 0

Score(q, rail) ==
  100 + FeeRank(rail) + 2 * One(rail.network = Stellar) + One(rail.network = q.preferred)

\* compareCandidates, among the executable ones.
Precedes(q, left, right) ==
  \/ Score(q, left) > Score(q, right)
  \/ Score(q, left) = Score(q, right) /\ left.network = Stellar

Candidates(q) == {rail \in q.options : Executable(q, rail)}

\* The first candidate of the sorted list, if there is one.
Recommendation(q) ==
  {rail \in Candidates(q) : \A other \in Candidates(q) \ {rail} : Precedes(q, rail, other)}

Mpp == [protocol |-> "stellar-mpp", network |-> Stellar]
ContractAccount == [protocol |-> "stellar-contract-account", network |-> Stellar]
X402OnBase == [protocol |-> "x402", network |-> Base]

\* POST /api/intents/:id/quote: the hub's provider takes one protocol on
\* Stellar and, when a merchant is configured for it, x402 on Base.
HubOptions(smartWallet, merchant) ==
  {IF smartWallet THEN ContractAccount ELSE Mpp} \cup (IF merchant THEN {X402OnBase} ELSE {})

-----------------------------------------------------------------------------
(* Theorems *)

\* Whatever the environment opens, only three rails can be paid on.
LEMMA OpenRails ==
  ASSUME NEW q \in Asked, NEW rail \in Candidates(q)
  PROVE  rail \in {Mpp, ContractAccount, X402OnBase}
<1>1. rail \in Rail
  BY DEF Candidates, Asked, Options
<1>2. rail = [protocol |-> rail.protocol, network |-> rail.network]
  BY <1>1 DEF Rail
<1>3. \/ rail.network = Stellar /\ rail.protocol \in {"stellar-mpp", "stellar-contract-account"}
      \/ rail.network = Base /\ rail.protocol = "x402"
  BY DEF Candidates, Executable, ChainOpen, Asked, Options, Rail, Networks, Stellar, Base, Avalanche
<1> QED
  BY <1>2, <1>3 DEF Mpp, ContractAccount, X402OnBase

\* The preference of a caller decides nothing between chains: by its score or,
\* against a preferred Base, by the tie rule, every option on Stellar comes
\* before the one on Base (quote, compareCandidates).
LEMMA Order ==
  ASSUME NEW q \in Asked
  PROVE  /\ Precedes(q, Mpp, ContractAccount) /\ ~Precedes(q, ContractAccount, Mpp)
         /\ Precedes(q, Mpp, X402OnBase) /\ ~Precedes(q, X402OnBase, Mpp)
         /\ Precedes(q, ContractAccount, X402OnBase) /\ ~Precedes(q, X402OnBase, ContractAccount)
<1>1. Mpp.network = Stellar /\ ContractAccount.network = Stellar /\ X402OnBase.network = Base /\ Base # Stellar
  BY DEF Mpp, ContractAccount, X402OnBase, Stellar, Base
<1>2. FeeRank(Mpp) = 3 /\ FeeRank(ContractAccount) = 2 /\ FeeRank(X402OnBase) = 3
  BY DEF FeeRank, Mpp, ContractAccount, X402OnBase, Stellar, Base
<1>3. Score(q, Mpp) = Score(q, ContractAccount) + 1
  BY <1>1, <1>2 DEF Score, One
<1>4. Score(q, ContractAccount) \in Int /\ Score(q, X402OnBase) \in Int
  BY <1>1, <1>2 DEF Score, One
<1>5. Score(q, ContractAccount) >= Score(q, X402OnBase)
  BY <1>1, <1>2 DEF Score, One
<1> QED
  BY <1>1, <1>3, <1>4, <1>5 DEF Precedes

\* An option on Stellar that can be paid is the one recommended, whatever
\* network the caller prefers and has money on: Base is never recommended
\* instead of it ("stellar-first-multichain-execution", src/multichainService.mjs:33).
THEOREM StellarFirst ==
  ASSUME NEW q \in Asked, \E rail \in Candidates(q) : rail.network = Stellar
  PROVE  \A rail \in Recommendation(q) : rail.network = Stellar
<1>1. SUFFICES ASSUME NEW rail \in Recommendation(q), rail.network # Stellar
               PROVE  FALSE
  OBVIOUS
<1>2. rail \in Candidates(q) /\ rail = X402OnBase
  BY <1>1, OpenRails DEF Recommendation, Mpp, ContractAccount
<1>3. PICK other \in Candidates(q) : other.network = Stellar
  OBVIOUS
<1>4. other \in {Mpp, ContractAccount} /\ other # rail
  BY <1>1, <1>3, OpenRails DEF X402OnBase, Base, Stellar
<1>5. Precedes(q, X402OnBase, other)
  BY <1>2, <1>4, <1>3 DEF Recommendation
<1> QED
  BY <1>4, <1>5, Order

\* The comparison orders the executable options: there is a recommendation
\* exactly when some option can be paid, and never more than one.
THEOREM RecommendationExists ==
  ASSUME NEW q \in Asked
  PROVE  /\ Recommendation(q) = {} <=> Candidates(q) = {}
         /\ \A left, right \in Recommendation(q) : left = right
<1>1. Candidates(q) \subseteq {Mpp, ContractAccount, X402OnBase}
  BY OpenRails
<1>2. Mpp \in Candidates(q) => Mpp \in Recommendation(q)
  BY <1>1, Order DEF Recommendation
<1>3. Mpp \notin Candidates(q) /\ ContractAccount \in Candidates(q) => ContractAccount \in Recommendation(q)
  BY <1>1, Order DEF Recommendation
<1>4. Candidates(q) \subseteq {X402OnBase} => Recommendation(q) = Candidates(q)
  BY DEF Recommendation
<1>5. Recommendation(q) = {} <=> Candidates(q) = {}
  BY <1>1, <1>2, <1>3, <1>4 DEF Recommendation
<1>6. ASSUME NEW left \in Recommendation(q), NEW right \in Recommendation(q), left # right
      PROVE  FALSE
  <2>1. left \in Candidates(q) /\ right \in Candidates(q)
    BY DEF Recommendation
  <2>2. Precedes(q, left, right) /\ Precedes(q, right, left)
    BY <1>6, <2>1 DEF Recommendation
  <2> QED
    BY <1>1, <1>6, <2>1, <2>2, Order
<1> QED
  BY <1>5, <1>6

\* A quote for an intent of the hub recommends Base only to a caller who does
\* not allow Stellar or has too little there (src/routes/spendIntentRoutes.mjs
\* quote, RailRegistry.quote).
THEOREM HubQuotesBaseLast ==
  ASSUME NEW q \in Asked, NEW smartWallet \in BOOLEAN, NEW merchant \in BOOLEAN,
         q.options = HubOptions(smartWallet, merchant), q.disabled = {},
         X402OnBase \in Recommendation(q)
  PROVE  Stellar \notin q.allowed \/ q.balance[Stellar] = 0
<1>1. SUFFICES ASSUME Stellar \in q.allowed, q.balance[Stellar] # 0
               PROVE  FALSE
  OBVIOUS
<1>2. PICK rail \in q.options : rail.network = Stellar
  <2>1. CASE smartWallet
    <3>1. ContractAccount \in q.options
      BY <2>1 DEF HubOptions
    <3> QED
      BY <3>1 DEF ContractAccount
  <2>2. CASE ~smartWallet
    <3>1. Mpp \in q.options
      BY <2>2 DEF HubOptions
    <3> QED
      BY <3>1 DEF Mpp
  <2> QED
    BY <2>1, <2>2
<1>3. q.balance[Stellar] >= 1
  <2>1. q.balance[Stellar] \in {0, 1}
    BY DEF Asked, Networks
  <2> QED
    BY <1>1, <2>1
<1>4. rail \in Candidates(q)
  BY <1>1, <1>2, <1>3 DEF Candidates, Executable, ChainOpen
<1>5. X402OnBase.network = Stellar
  BY <1>2, <1>4, StellarFirst
<1> QED
  BY <1>5 DEF X402OnBase, Base, Stellar
=============================================================================
