# Stellar Agent Spend Hub: TLA+ models, model checking and proofs

This directory holds a verification project for the repository: TLA+ modules
translated from its source, TLC configurations that check them on small
instances, and theorems that TLAPS proves for every value of the constants.
`PROJECT.json` is the machine-readable index (components, runs, mutants, map
from definitions to source lines, findings, hazards, theorems). Paths below are
relative to the repository unless they name a module.

## 1. Inventory of the system

The Spend Hub lets an agent ask for a payment, a person approve it, and a wallet
or contract pay it, on Stellar testnet (and Base Sepolia). It is a set of
serverless HTTP handlers and MCP tools in JavaScript over Redis (Upstash),
three Soroban contracts in Rust, and command-line scripts. Handlers of one
request run concurrently on many instances; they share only Redis, the ledgers,
and (for the demo service) one in-memory state per process.

| Component | State it keeps | Operations | What is hard | What makes it correct |
|---|---|---|---|---|
| **Provider pilot** `src/pilotService.mjs`, `src/pilotRepository.mjs` | request records with a version, idempotency index | createDraft, prepare, approve, claim, complete, getReceipt, evidence | every handler reads, decides, then re-reads and compares versions; leases and links expire meanwhile | one approval per request; no payment before it; one holder of a lease; a settlement is backed by a payment and never replaced |
| **Buyer script** `scripts/pilot-buyer.mjs` | one run's claim and payment | claim, confirm, pay, complete with retries | person takes any time, process dies, answers get lost, payment lands late | pays once per approval; completes only what it paid |
| Pilot MCP/HTTP edge `src/mcp/createPilotMcpServer.mjs`, `src/routes/pilotRoutes.mjs`, `pilotAuth`, `pilotValidation` | none | dispatch, auth, validation, views | - | who may call what |
| Pilot rate limiter `src/pilotRateLimit.mjs` | two fixed windows per tenant/IP | enforce | both windows consumed on refusal | limits hold, windows reset |
| **PolicyEscrowV2** `contracts/policy-escrow-v2` | a policy per session signer, the escrow's balances | grant_session, revoke_session, execute_allowed_transfer, owner_withdraw | calls reach the ledger late and in any order; re-grants reset counters; integer widths; a failing transfer | budget, expiry and revocation hold; events add up |
| **SpendAccountV1** `contracts/spend-account-v1` | one session policy, owner passkey | grant, revoke, `__check_auth` | one slot; a batch is charged when it is authorized | the same allowance as the escrow |
| **Contract account relayer** `src/contractAccountRelayer.mjs`, `contractAccountRepository.mjs` | requests prepared/submitting/failed, receipts | prepare, submit, status | transaction outlives its polling; crash in submitting; receipt lost; one relayer account for all | a request is sent once; a receipt stands for an executed operation |
| **Passkey ceremony and deployment** `src/contractAccountCeremony.mjs`, `src/adminContractAccountDeploy.mjs` | ceremony pending/claimed/deployed/failed | register, claim, complete, fail | non-atomic updates after an atomic claim | one contract per ceremony |
| **SorobanSmartWallet and supervised transfer** `contracts/soroban-smart-wallet`, `src/adminSorobanTransfer.mjs` | used nonces; execution reports by idempotency key, in memory and in a file | grant, revoke, execute_allowed_transfer; submit and dry-run | on-chain and off-chain idempotency disagree after a failure; file older than memory | one run per key, one payment per nonce |
| **SpendHubService** `src/spendHubService.mjs`, `src/domain.mjs` and its rails | intents, proofs, spend requests, receipts, challenges | createIntent, generateProof, prepareIntent, approveIntent, dismissIntent, deny, requestMachineResource | approvals, dismissals and denials interleave at every wait | no second receipt but by overlap; limits; a status has its receipt |
| **MPP charge** `src/mppChargeService.mjs`, `mppStore.mjs`, `mppReceiptRepository.mjs` | replay marks, receipts, cached reports | charge, save receipt | compare-and-set with lost answers; degraded audit | a credential buys one report |
| **CCTP bridge** `src/multichainService.mjs`, `multichainRepository.mjs`, `cctpBridgeAdapter.mjs` | bridge intents | createBridge, prepareBridge, recordBurn, bridgeStatus | concurrent polling with old messages | a burn is recorded once; settled means minted |
| **Base x402** `src/baseX402Service.mjs`, `railRegistry.mjs`, `chainRegistry.mjs` | settlement records | quote, pay, settle, record-settlement | facilitator answers twice or not at all | a payment buys one report |
| Feedback, evidence, adapters, router, remaining client and scripts | lists and views | I/O | - | - |

How the modelled parts interact: an MCP agent calls createDraft and prepare and
shows the link to a person; the person's browser calls approve with the token
of the link; the buyer script calls claim, pays the Merchant Lab over HTTP 402
(the lab submits the signed transaction to Stellar), and calls complete, which
asks Stellar RPC and Horizon whether the transaction is there. Nothing but the
Redis record and the ledger connects the calls.

The other parts meet in the same way. The wallet page, the agent script and the
fixture script ask the relayer to prepare an operation, sign it with a passkey
or a session key, and submit it; the relayer sends it from its own Stellar
account, which the deployment of new accounts shares, and the contract judges
it. The review page, the machine client and the MCP tools drive the hub's
intents, which one process keeps in memory. The supervised transfer keeps its
reports in the state of that hub and runs the stellar CLI, whose transactions
the smart wallet contract judges. The bridge and the Base report share one
repository and one set of gates, and a quote chooses between the rails. A buyer
of a report over MPP Charge pays Stellar through the seller's charge library,
whose replay store is the seller's.

## 2. Plan

Most important behaviour first. The models of items 1 to 7 are done.

1. **Provider pilot**: `PilotService` (handlers and repository), `Pilot`
   (composition with agents, people, buyer scripts, ledger), abstract
   `PilotLifecycle`, `PilotInvariant`, proofs in `PilotProofs`.
2. **PolicyEscrowV2**: `PolicyEscrowV2`, abstract `SessionAllowance`, proofs
   in `PolicyEscrowV2Proofs`.
3. **Contract account**: `SpendAccountV1` (implements `SessionAllowance` too),
   `ContractAccountRelayer`, `ContractAccountCeremony`, and their composition
   with the clients, `ContractAccount`.
4. **Spend hub**: `SpendHub` and its clients, `SpendHubClients`.
5. **Supervised transfer**: `SorobanSmartWallet`, `SorobanTransfer`.
6. **Multichain**: `CctpBridge` with the abstract `BridgeLifecycle`, `BaseX402`,
   their composition `Multichain`; `RailRegistry`, operators with theorems.
7. **MPP Charge**: `MppCharge`.

Each item has its proofs beside it: `PilotProofs`, `PolicyEscrowV2Proofs`,
`ContractAccountProofs`, `SpendHubProofs`, `SorobanTransferProofs`,
`MultichainProofs`, `MppChargeProofs`, and the theorems in `RailRegistry`. Every
invariant, every action property and every refinement that a run checks is now a
theorem too. What may still be added are abstract specifications for the parts that
have none (the hub, the transfer and the charge), with their refinements, and
models of the parts of section 9.

## 3. The pilot modules

`PilotService` has the record store and every handler invocation. A caller has
at most one invocation in flight (`call[a]`); more callers make more concurrency.
An invocation goes through the steps the code goes through:

| Step | Code | Action |
|---|---|---|
| first read (`requireRequest`) | pilotService 91, 123, 164 | `StartPrepare`, `StartApprove`, `StartComplete`; `StartClaim` has no read of its own: it draws claim id and lease end (143-144) and enters update |
| decision | 92-97, 124-131, 165-169 | `PrepareCheck`, `ApproveCheck`, `CompleteCheck` |
| RPC and Horizon | 170, 227-278 | `VerifySettlement` |
| update: re-read, mutate callback, CAS_SCRIPT | pilotRepository 60-82 | `Store*` when the callback accepts and the version is unchanged, `MutateThrows`, `RetryUpdate` |

The `May*` operators are the guards of the mutate callbacks and `Prepared`,
`Approved`, `Expired`, `Claimed`, `Completed` the records they return. The
callback of the expiry write has no guard in the code, and `MayExpire` is TRUE.
A decision and the first read of update that follows it are one step: the
module header says why nothing is lost. Data is abstracted to what the code compares: a
token is HMAC(requestId, expiresAt), so it is named by its expiry; a claim id is
an ordinal; a transaction is named by the claim under which the buyer script
submitted it. `createDraft`'s payload conflict cannot happen with one
allowlisted provider, resource and amount, and is left out.

`Pilot` adds the buyer script (`RunClaim`, `ClaimAnswered`, `Pay`, `RunComplete`,
`CompleteAnswered`, `Abort` for a cancelled, killed or failed run) and the ledger. A 503 of the
platform may take the place of any answer to complete, so that a completion that was stored is
repeated too. A submitted
payment lands at any later time or never (`Land`). Time passes at any point
(`Tick`), so leases and links expire between any two steps. `approvals` and
`leases` are history variables: no guard reads them.

`PilotLifecycle` is the abstract specification: Create, Offer, Approve, Lease,
Fund, Settle and Void, each one atomic step on a request, with a lease only
granted on a request nobody holds and a settlement only by the holder with a payment of
its own that is on the ledger. `Void` is possible from every stage after the offer
because of the unguarded expiry write (finding 2).

`PilotInvariant` has the inductive invariant `Inv` and `OriginInv`; `MCPilot`
instantiates the model for TLC.

## 4. The escrow modules

`PolicyEscrowV2` has one action per entry point of the contract; a contract call
is atomic on the ledger, and one that panics or whose token transfer fails
changes nothing, so the guards are the checks of the code and the balance of the
token. Any account calls with any argument at any time: delay and reordering of
transactions are the absence of any order between calls. Integer widths are the
constants `MaxI128` and `MaxU64`. `Deposit` is external. `receipts` are the events;
`grants`, `granted` and `paid` are history, and each event is tagged with the
grant it was paid under, which the real event does not carry. `extend_ttl` and
`bump_ttl` (storage time-to-live) are left out: expiry of storage is not modelled.

`SessionAllowance` is the abstract specification, meant for SpendAccountV1 as
well: Open replaces or creates an allowance, Close ends it, Spend pays out of
what is left while it is open and has not ended.

## 5. The other modules

**Contract account.** `SpendAccountV1` has the contract: the owner's grant,
revoke and transfer, and the session key's transfers in batches of one or two,
which `__check_auth` judges one by one and in sum; allowlists have 1 to `MaxEntries` (16) entries. Authorization and the
transfers it allows are one step, since the host undoes both if one fails. `submit` takes an entry
that is signed already as it is, so any key may have signed it (`SignedBy`): what a key may do is for
the contract to say (`Accepts`).
`ContractAccountRelayer` has one action per call of `submit` to the store or the
network: `Consume` (the script that turns prepared into submitting), the build
with its enforcing simulation, sending, polling, `saveReceipt` with its record
and its list, and the read and the write of `markFailed`. A process may stop at
any of them (`Crash`), records expire, and a sent transaction lands until its time
bound has passed. The relayer's account has one sequence number: of two transactions built on one
of its values only one lands. `ContractAccountCeremony` has registration and
the deploy call the same way. `ContractAccount` puts the wallet page, the agent
script and the fixture script before them, repeats deliveries, and lets whoever
holds a key act without the relayer (`Direct`).

| Code | Action |
|---|---|
| `submit`, contractAccountRelayer 61-93 | `Consume`, `SubmitStep` |
| `createTestnetContractAccountExecutor` | the build, send and poll steps of `SubmitStep`; `Land` is external |
| `deployContractAccount`, adminContractAccountDeploy | `StartDeploy`, `DeployStep` |
| `claim`, `complete`, `fail`, contractAccountCeremony | the steps of a job |

**Spend hub.** A handler of `SpendHubService` runs alone until it awaits something that
really waits; `SpendHub` cuts each handler there and nowhere else: `StartApprove`,
`ApproveIntent` after the legal digest, `SettleDirect` after the network. Statuses
nothing in the service tells apart are one value. `SpendHubClients` has the order
in which the review page, the machine client and the MCP tools call, with any
other caller of the plain routes. What was paid is summed as the code sums it,
over the receipts with the amounts of their intents (`Spent`). An amount is what
`Number` makes of the request, so it may be negative or NaN: `Exceeds` and `Plus` are the
comparison and the sum as JavaScript has them, and a sum with NaN is NaN. Nothing is assumed of
idempotency keys. A machine client is challenged under `machine:<provider>:<resource>`
(spendHubService 260) and the MCP tools prefix theirs with `mcp:` (mcpSpendHubTools 40),
but the plain route takes any key (spendIntentRoutes 27), so `RouteCall` may make the intent that
either will find there, for any provider and amount. `VerifyCredential` judges a receipt by the
provider of the URL, as the code does, and `McpIntent` is the check of the MCP tools on what they find.

**Supervised transfer.** `SorobanSmartWallet` is the contract with its used
nonces, which no grant resets. `SorobanTransfer` has the admin endpoint: `Enter`
checks the key and records in memory in one step; `save` waits twice
(`Snapshot` after mkdir, `Write`), so that files overlap, tear and are older than
memory; `Run` starts the CLI; `Land` may come long after `Finish` gave up;
`Restart` loads whatever the file holds.

**Multichain.** `CctpBridge` has the four handlers with `update` as `Read` and
`Cas`. Versions only grow, so a call keeps one bit, `fresh`: nobody has written
since it read. `BridgeLifecycle` is the abstract life of a bridge, in which a
recorded burn is never replaced and settled means that the money is on Stellar.
`BaseX402` has the paid endpoint, the facilitator and `record-settlement`.
`RailRegistry` gives `quote` as operators on sets of options.

**MPP Charge.** `MppCharge` has the buyer script, the two sellers (the risk
endpoint, and the provider kit's handler, which saves no receipt), the store's
`update` as `Read` and `Cas`, one of whose answers may get lost, and the four writes of
`saveReceipt`: record, push, trim, and the expiry of the list (`Save`, `Push`, `Trim`, `Renew`).
Each record has an expiry of its own, and every save renews that of the list; `Day` lets
both run down, and what expired is gone. What is assumed of the charge library is in the module header.

## 6. Runs

| Run | Instance | Shows |
|---|---|---|
| `pilot` | 1 request, 1 agent, 1 approver, 2 buyers (symmetric), 2 claims, clock 0..2, both lifetimes 1 tick, 2 CAS attempts; about 882,000 states | `TypeOK`, `ApprovedOnceBeforePayment`, `LiveLeaseHolds`, `SettledIsPaid`, `ReceiptFrozen`, and the refinement `LifecycleSpec` |
| `pilot_live` | 1 agent, 2 approvers, 1 buyer, 1 claim, clock 0..1, with fairness; about 10,000 states | `CallsReturn`, `LifecycleSpec` with two people racing for one approval, and the inductive invariant `Inv` of the proofs |
| `escrow` | 1 signer, 2 destinations, 1 asset, i128 max 3, u64 max 3, 2 grants, deposits up to 2, clock 0..1; about 47,000 states | `TypeOK`, `ReceiptsAddUp`, `PaidWithinGrants`, refinement `AllowanceSpec` |
| `account` | 1 person with wallet page and fixture script, 1 agent, 1 repeated delivery, 2 requests, 2 session keys (symmetric); or 2 deploy calls on 1 ceremony; limits 1 and 2, allowlists of 1, clock 0..2; about 975,000 states | `TypeOK`, `OneTransactionPerRequest`, `ReceiptsAreSettled`, `OneDeploymentPerCeremony`, `DeployedIsReal`, `FailedIsFinal`, refinement `AllowanceSpec` |
| `hub` | 2 intents, payment, daily and monthly limit 2, 3, 4, each of the 3 rails. Two of a page, a machine client and 2 agents (symmetric) with 3 providers (Stellar, Link, proof required), every key, amount 2, 2 receipts, 1 day; or both agents with 1 provider, no keys, amounts -2, 2 and NaN, the simulated and the direct rail, 4 receipts on the first day, 3 by the second (`MCBound`); about 2,010,000 states | `TypeOK`, `SettledHasReceipt`, `NoLateSecondReceipt`, `DailyLimitHolds`, `DeliveryIsPaid` |
| `transfer` | 2 calls, 2 keys, 2 nonces (all symmetric), 1 policy, 1 restart, clock 0..1; about 348,000 states | `TypeOK`, `SettledIsPaid`, `OneRunPerKey`, `RetriesPayOnce`, `ReportsAreFinal` |
| `multichain` | 1 bridge, 2 burns, 1 other transaction, 2 calls, 2 CAS attempts; or 2 payments and 3 requests; about 210,000 states | `TypeOK`, `SettledIsVerified`, `OneReportPerPayment`, `SettlementsArePaid`, refinement `BridgeLifecycleSpec` |
| `mpp` | 2 challenges, 2 resources, 2 requests (all symmetric), a public list of 1, records and list that last 2 days; about 1,730,000 states | `TypeOK`, `SignedAsConfirmed`, `ChargeBuysOneReport`, `ReceiptsArePaid`, `ListOutlivesRecords` |
| `pilot_retry_pays` | as `pilot` | finding 1 |
| `pilot_receipt` | 2 approvers, 1 buyer | finding 2 |
| `pilot_link` | 2 agents, link lifetime 2 | finding 3 |
| `hub_paid_limit` | 2 agents, 1 provider, amounts 2 and NaN, 3 receipts | finding 4 |

Why the bounds are enough to be interesting. One request: handlers of different
requests share nothing but the clock. (A claim id belonging to one request only
is where several requests matter; the proofs cover every number of them.) Two
buyers and two claims: a lease ends, is granted again, and the first buyer pays
and completes late. Two people with one agent: expiry write against a fresh
offer, double approval. Two attempts of the eight of update reach both a retry and
the end of the loop; the number of attempts only decides how often a lost race is
repeated. `MaxVersion` stops agents from preparing for ever; everything else is
unbounded by it. For the escrow, the budget at the top of i128, the last
nonce of u64, a revoked, an expired and a replaced session, a withdrawal that
empties the escrow, and a refused zero or negative amount all occur.

For the account, two requests and a repeated delivery reach every race on the
one session slot, on the sequence number and on a record that expires while its
transaction is on the way; deployments close the gate before an account is in
use, so a behaviour has either them or requests. For the hub, the second payment
of a day is the one that meets the daily limit, the second of two days the
monthly one, and two clients at once are what an overlap takes. A settled negative amount makes
room for one payment more, and on the direct rail for two that overlap, which takes four receipts;
a key is taken by an agent before the machine client asks under it. `MCBound` keeps the two halves
apart because amounts do not change who meets whom, nor keys what a limit says. For the transfer, two calls share a key, a nonce, both or neither, and
one restart between them loads any file the two have written. For the bridge, two
calls overlap on one record, and a second burn and a stray transaction compete
for it; the second attempt of `update` meets a record changed under it, as all
eight do. Two payments and three requests let a payment be repeated while a
third request uses its settlement's id for another. For the charge, two requests carry one credential or
two, each for either resource, the second receipt trims the first off the list, and with two
days a record and the list may be a day apart either way when they are renewed or expire.

`CHECK_DEADLOCK FALSE` everywhere: the clock stops at `Horizon`, claims, grants,
receipts, burns and challenges run out, and a settled or expired request is the end of its life.

**Fairness.** `FairSpec` assumes weak fairness of the handler steps of each
caller: the event loop serves a started invocation, and each call it makes to
Redis, RPC or Horizon answers or times out (eight seconds for the latter two). Nothing is
assumed of agents, people, buyer scripts, the ledger or time: a person may
never approve. `CallsReturn` then says that every invocation ends, which holds
because a lost compare-and-set counts an attempt. The other modules are checked for
safety only: nothing there promises an end. A contract account request whose
process stops stays in submitting until it expires, nothing polls a bridge
(although the page says that forwarding "is being monitored"), and a challenge claimed
with a lost answer stays unpaid.

Every property of a passing run has a mutant in `PROJECT.json`: an operator
defined next to the real one, marked "variant", that makes a plausible mistake and breaks it.

## 7. Findings and observations

1. `RetryPaysOnce`. `docs/sprint-20-provider-pilot.md:102` says the lease expires
   "so the supervised buyer can retry safely". The script pays however late the
   person confirms (`scripts/pilot-buyer.mjs:68`), without looking at its lease again, and a second run pays
   again for the same approval.
2. `ReceiptAvailableOnceSettled`. An approve call that found an approval expired
   writes `status: "expired"` over whatever it re-reads (`src/pilotService.mjs:126`), a settled request included;
   `get_receipt`, described as returning the receipt "after verified settlement", then answers 404.
3. `LinkLastsUntilExpiry`. Two prepare calls at once each draw an expiry, and the
   second write kills the link of the first (`src/pilotService.mjs:105`), which was described as a
   "ten-minute" link.
4. `PaymentsWithinDailyLimit`. `docs/privacy-security.md:65` says a payment over the limit "por pago,
   diario o mensual" is blocked. `buildSpendIntent` takes `Number(amount || ...)` of whatever the request says
   (`src/spendHubIntentFactory.mjs:5`) and the policy only asks whether something is greater than a limit
   (`src/domain.mjs:69-85`). A settled receipt over NaN makes both totals NaN, and from then on only
   the limit of a single payment binds. A settled negative amount lowers the totals by as much.

Met while modelling, and part of the models, but not runs of their own:

* *Hub.* A settled intent can be dismissed once a prepare has reset its status
  (`docs/demo-walkthrough-product.md:48`: "settled intents cannot be dismissed").
  A direct rail that is not ready gives a receipt marked settled without a
  transaction; a blocked Soroban receipt makes an intent approved_preview; the
  Link route adds a receipt without looking for one. `SettledHasReceipt` and
  `NoLateSecondReceipt` say what remains true. The daily limit is overrun on the
  direct rail by as many payments as are under way together, which
  `DailyLimitHolds` states as slack; it speaks of totals that are numbers (finding 4).
* *Machine payments.* Who uses the key `machine:<provider>:<resource>` on the plain route before the
  client asks (`src/routes/spendIntentRoutes.mjs:27`) decides what the client is challenged with. If it is an intent
  of another provider, the client pays it and its credential is refused
  (`src/machinePaymentAdapter.mjs:44`), although `docs/pitch.md:51` has the agent receive the service:
  `DeliveryIsPaid` holds, and that who has paid is served does not.
* *Escrow.* The contract's README lists an "Exact monotonic nonce"; a second grant sets a signer's
  back to 1 (`contracts/policy-escrow-v2/src/lib.rs:122`), so its events repeat nonces.
  `ReceiptsAddUp` tells them apart by grant.
* *Supervised transfer.* A report "failed" may have paid: the save of the settled
  report failed, the CLI was given up on, or printed no hash. Only the same
  nonce makes a retry safe; a fresh one, as the recovery section of
  `docs/sprint-08-soroban-runtime.md` advises, pays again. A stale or lost state file forgets a key.
* *Bridge.* The page sends approve and burn again when record-burn failed, as it does
  when the burn is not mined yet. One burn may be recorded on two bridges of one wallet. A
  slow status call may take a settled bridge back to attesting.
* *x402.* A payment that settled but could not be confirmed or recorded buys
  nothing. Callers of record-settlement choose the record's id: one under the
  endpoint's id makes the endpoint answer 409 after the payment.
* *MPP.* The provider kit's handler charges before `loadResource`, which may fail.
  A buyer who runs the script again after a lost answer pays a new challenge.
  Without Redis the endpoint, the receipts route and the public evidence hold a repository each, so a
  saved receipt never shows (`src/apiDependencies.mjs:24`). A receipt whose save stops between push and
  expire is listed, but may outlive the list if nobody saves another.
* *Rails.* The preference of a caller for Base (one point) never decides: it ties
  with the contract account, and ties go to Stellar (theorem `StellarFirst`).

## 8. What is proved

With TLAPS, for every value of the constants that meets their assumptions, that is
for every number of requests, callers, claims, signers, bridges, keys, clients and
ticks, and for all limits and amounts:

* `PilotProofs`: `TypeCorrect`, `InvariantHolds`, `OneApproval`, `LeaseExclusion`,
  `SettlementBacked`, `ReceiptsFrozen`, `OriginsHold`, `ImplementsLifecycle`.
* `PolicyEscrowV2Proofs`: `EscrowInvariant`, `EscrowTypes`, `EventsAddUp`,
  `LifetimeBudget`, `ImplementsAllowance`.
* `ContractAccountProofs`: `InvariantHolds`, `TypeCorrect`, `OneTransactionHolds`,
  `ReceiptsAreSettledHolds`, `OneDeploymentHolds`, `DeployedIsRealHolds`,
  `FailedIsFinalHolds`, `ContractIsAnAllowance`.
* `SpendHubProofs`: `HubInvHolds`, `TypeCorrect`, `SettledHasReceiptHolds`,
  `NoLateSecondReceiptHolds`, `DeliveryIsPaidHolds`, `LimitsHold`.
* `SorobanTransferProofs`: `InvariantHolds`, `TypeCorrect`, `SettledIsPaidHolds`,
  `OneRunHolds`, `RetriesPayOnceHolds`, `ReportsAreFinalHolds`.
* `MultichainProofs`: `TypeCorrect`, `SettledIsVerifiedHolds`, `OneReportHolds`,
  `SettlementsArePaidHolds`, `BridgeImplementsLifecycle`.
* `MppChargeProofs`: `TypeCorrect`, `SignedAsConfirmedHolds`,
  `ChargeBuysOneReportHolds`, `ReceiptsArePaidHolds`, `ListOutlivesRecordsHolds`.
* `RailRegistry`, with no assumption: `StellarFirst`, `RecommendationExists` and
  `HubQuotesBaseLast`, for every set of options, balances, allowed networks and
  preference.

**Assumptions.** All are about constants, named, and stated in the module that
declares them; TLC evaluates each of them in a run. They fall into four kinds.
*A placeholder is not a value*: `NoneAssumption` (three modules),
`NoHashAssumption`, `NoPolicyAssumption`, `NoSignerAssumption`. *Numbers are numbers
of the right sign*: `TimesAssumption`, `HorizonAssumption`, `AttemptsAssumption`,
`CompleteAttemptsAssumption`, `KeepAssumption`, `LifetimeAssumption`,
`MaxEntriesAssumption`, `WidthAssumption`,
`MaxAmountAssumption`, `MaxLimitAssumption`, `BoundsAssumption`. *Who is who and
what values range over*: `RolesAssumption`, `PartiesAssumption`,
`PoliciesAssumption`, `EnvAssumption`, `ClientsAssumption`, `RelayerAssumption`,
`CeremonyAssumption`, `HubClientsAssumption`. *What the configuration
guarantees*: `HubAssumption` (the limit of a payment is within the day's and that
within the month's, as in `src/mockPolicy.mjs`; of amounts it says that they are integers or NaN,
and of keys nothing).

**Why an inductive invariant is needed** is the same everywhere: the properties
relate what is stored, and the code decides on what it read before it waited.
Each strengthening says what a request under way still knows, so that its next
step can be judged.

*Pilot.* A write is decided on a record read earlier, so the first strengthening is
`SnapshotInv`: versions only grow, and a record read by an invocation that still has the
version read is that very record. It makes the compare-and-set an atomic step
(lemma `Stored`), and `StepKinds` lists the few steps that change a record. `LifeInv` ties the
number of approvals to the status: a prepared request has none, and only an
approval leaves prepared. `LeaseInv` says a lease that still runs is the one its
record names, because a claim is only written over an approved request or one
whose lease is past. `ClaimInv` says a claim id is drawn once and granted for one request,
`ScriptInv` that a script pays and completes only under a claim it was granted,
`PaidInv` that what is completed was submitted and what was settled is on the
ledger. For the refinement, `OriginInv` adds that the claim a record names was
granted, so a new claim differs from the holder, that a lease is never longer
than `ClaimTTL`, and that an expiry in flight is about a request that was
already offered. Each step of the pilot is then one step of the
lifecycle or a stutter.

*Escrow.* `ReceiptsAddUp` needs that events only speak of
grants already made and of nonces already used (`EventsArePast`);
`PaidWithinGrants` needs that what a session may still pay is money its signer was
granted and never paid (`BudgetCovered`). `EscrowInv` is their conjunction with the types.

*Contract account.* `Touched(c, r)` says that submission `c` has consumed request
`r`: it works on it, or has left a transaction of it. `RelayerInv` has it that a
request nobody consumed is untouched, that one submission at most touches a
request, and that how far a submission is tells what became of its
transaction; the script that turns prepared into submitting is what makes the
first of these pass into the second. `Owns(d)` plays the same part for a ceremony and its deploy
calls in `CeremonyInv`. `FailedIsFinal` follows because nobody works on a failed
request. That the contract is an allowance needs only the types of the contract.

*Hub.* `SafeInv` says what a request may carry across its awaits: an approval that is under
way has seen no receipt that counts among the `looked` first ones, the answer of an approval is a receipt of its
intent, and a machine client that was delivered to was judged by the provider it asks, for the
intent it was challenged with. A key leads to some intent there is (`KeysSound`), of whichever provider. The limits need more. A payment that
waits for the network has been judged and is not yet a receipt, so
`DailyLimitHolds` does not survive its arrival. `BudgetInv` counts it in advance: of
the *n* approvals that wait, there is one with which what is spent, what that one
asks for, and *n* - 1 times `PerPayment` stay within the limit and its slack (`Room`).
Only approvals of amounts above 0 count as waiting, since the others lower the sum or make it
NaN, and a sum that is NaN fits everything (`Fits`), which is what the property leaves open. When an
approval joins, it is the one, since it was judged with what is spent now; when one is
answered, it is either the one, and any other takes its place, or its payment is
covered by a `PerPayment`. The slack is enough because who waits is there, and `AtOnce`
clients are. The steps are first sorted into five kinds (lemma `Steps`), and only
`Quiet`, `GoesDirect`, `GivesUp`, `Records` and midnight are looked at for the money. The sums themselves
fold a set in an order of their own; that a sum does not depend on the order, and
grows by the amount of a new element, is proved by showing that it counts the
coins the elements of the set gain, less those they lose (lemmas `SumIsWorth`, `SumAgrees`, `SumAdds`), with a smallest
counterexample in place of induction.

*Supervised transfer.* `WalletInv` has it that a nonce not used has not gone
through, which `RetriesPayOnce` follows from. `EndpointInv` has it that one call
at a time works on a key, that a call about to run the CLI finds no run of its key
since the file last forgot it, and that every report in memory, in the file
or in a snapshot on its way there is empty or names a transfer that landed. A file older
than memory is then harmless for `SettledIsPaid`, and forgets a key only as
`OneRunPerKey` says.

*Bridge.* A call whose bit `fresh` is set has seen the record as it is, and what it
checked of it still holds (`ReadIsCurrent`); what it learnt of the chains is true for
good (`CallTruthful`), so that a write changes a record by one step of the
lifecycle (`Advance`) however late it comes. *x402*: what a request has found
out about its payment stays true (`AskTruthful`), and one request at most is
about to answer with its report (`OneAnswer`), because the settlement's record is
created once.

*MPP.* One request at most works on a challenge (`OneWorker`), because a claim goes
from absent to claimed once, lost answers included; what a request has gone through
holds of its challenge (`RequestTruthful`), and `Books` has it that what is saved or delivered
is paid, claimed and signed for. `ListOutlivesRecords` is inductive with these: no id is pushed
twice, because its one worker pushes once; a renewed list has all of its lifetime, which no record
exceeds (`RenewPreserves`); and a day takes as much from the list as from a record (`DayPreserves`).

*Rails.* Only three rails can be executable (`OpenRails`),
and the comparison orders them Mpp, ContractAccount, X402OnBase whatever the
preference (`Order`), so the first of them that is a candidate precedes all others.

**Only model-checked**: `CallsReturn`, a liveness property under fairness, which is
out of reach of TLAPS as ENABLED is; and the four violations, which are
counterexamples. `RailRegistry` is only proved about, since it has no state.

## 9. What is not modelled, and why

* Redis time-to-live beyond the requests and ceremonies of the contract account and
  the receipts and list of MPP: the pilot's records (30 days, against links and leases of
  minutes) and the replay marks of MPP (30 days, against challenges of ten minutes) are taken
  not to expire. The pilot's list of the last 100 requests, rate limits and
  authentication: they refuse or forget, and never write a record.
* Two intents of one provider made in the same millisecond have one id (`spendHubIntentFactory.mjs:9`); ids
  are distinct in the model. An intent type the code does not list is judged like `pay_service`.
* A client that completes a pilot request with somebody else's transaction: `complete`
  accepts any matching USDC transfer to the merchant (`pilotService.mjs:268`). The
  model's only client of complete is the repository's own script.
* The hub's state file as far as intents and receipts go: a process keeps its
  memory, and a restart begins another behaviour. Only the supervised transfer's
  reports are followed into the file.
* The content of receipts, evidence, reports and views; validation of formats;
  money conversion.
* Cryptography: tokens, claim ids, passkeys, signatures and proofs are names.
* The charge library, the x402 facilitator, Circle, the stellar CLI and the
  ledgers are external, modelled from how the code uses them.
* Feedback, the supervised direct payment, the pilot's rate limiter, the router,
  the remaining client pages and scripts (reasons in `PROJECT.json`).
