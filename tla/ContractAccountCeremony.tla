----------------------- MODULE ContractAccountCeremony ----------------------
(***************************************************************************)
(* How a contract account comes to be: a browser registers a passkey       *)
(* (src/contractAccountCeremony.mjs), and an administrator's deploy call   *)
(* claims that ceremony, deploys the contract from the relayer's account   *)
(* and records the outcome (src/adminContractAccountDeploy.mjs).           *)
(* A deploy call may also bring a registration of its own, as the fixture  *)
(* script does, and then has no ceremony.                                  *)
(***************************************************************************)
EXTENDS ContractAccountRelayer

CONSTANTS
  Ceremonies,    \* ceremony ids (UUIDs)
  CeremonyTTL,   \* CONTRACT_ACCOUNT_CEREMONY_TTL_SECONDS, in ticks
  Funding        \* bound: what an account in use may hold at first

ASSUME CeremonyAssumption ==
  /\ CeremonyTTL \in Nat \ {0} /\ Funding \subseteq 1 .. MaxLimit
  /\ Ceremonies \cap Requests = {} /\ None \notin Ceremonies \cup Deploys

VARIABLES
  ceremony,   \* the stored ceremonies, until they expire
  job,        \* deploy invocations
  inUse       \* is CONTRACT_ACCOUNT_ID set?

dvars == <<ceremony, job, inUse>>

Ceremony == [status : {"absent", "pending", "claimed", "deployed", "failed"},
             expires : Nat, until : Nat, contract : Deploys \cup {None}]
NoCeremony == [status |-> "absent", expires |-> 0, until |-> 0, contract |-> None]

CeremonyPresent(k) == ceremony[k].status # "absent" /\ time < ceremony[k].until

JobPc == {"idle", "claim", "deploy", "sendDeploy", "pollDeploy", "completeRead", "completeWrite",
          "failRead", "failWrite", "ok", "error"}
JobRunning == {"claim", "deploy", "sendDeploy", "pollDeploy",
               "completeRead", "completeWrite", "failRead", "failWrite"}
Job == [pc : JobPc, of : Ceremonies \cup {None}]
IdleJob == [pc |-> "idle", of |-> None]

Doing(d, pc) == job[d].pc = pc
Then(d, pc) == job' = [job EXCEPT ![d].pc = pc]

Deployment(d) == <<d, None>>
Others == <<cvars, request, receipts, listed, call>>

-----------------------------------------------------------------------------
(* The wallet page registers a passkey, as often as its owner likes *)

\* CONTRACT_ACCOUNT_DEPLOY_ENABLED is closed once an account is in use.
DeployEnabled == ~inUse

Pending == [status |-> "pending", expires |-> time + CeremonyTTL,
            until |-> time + CeremonyTTL, contract |-> None]

Register(k) ==
  /\ DeployEnabled /\ ceremony[k] = NoCeremony
  /\ ceremony' = [ceremony EXCEPT ![k] = Pending]
  /\ UNCHANGED <<Others, tx, sequence, job, inUse>>

-----------------------------------------------------------------------------
(* The deploy call *)

\* The administrator's script names the ceremony, or the body a registration.
StartDeploy(d, k) ==
  /\ DeployEnabled /\ job[d] = IdleJob
  /\ job' = [job EXCEPT ![d] = [pc |-> IF k = None THEN "deploy" ELSE "claim", of |-> k]]
  /\ UNCHANGED <<Others, tx, sequence, ceremony, inUse>>

\* variant: the status is not part of the atomic script
ClaimableUnchecked(k) == CeremonyPresent(k) /\ ceremony[k].expires > time

Claimable(k) == CeremonyPresent(k) /\ ceremony[k].status = "pending" /\ ceremony[k].expires > time

Claimed(k) == [ceremony[k] EXCEPT !.status = "claimed", !.until = time + CeremonyTTL]

Claim(d) ==
  /\ Doing(d, "claim")
  /\ LET k == job[d].of IN
     \/ Claimable(k) /\ ceremony' = [ceremony EXCEPT ![k] = Claimed(k)] /\ Then(d, "deploy")
     \/ ~Claimable(k) /\ Then(d, "error") /\ UNCHANGED ceremony
  /\ UNCHANGED <<Others, tx, sequence, inUse>>

\* An error marks the ceremony failed, if there is one.
DeployFails(d) == Then(d, IF job[d].of = None THEN "error" ELSE "failRead")

Assemble(d) ==
  /\ Doing(d, "deploy")
  /\ \/ BuildTx(Deployment(d), None) /\ Then(d, "sendDeploy")
     \/ DeployFails(d) /\ UNCHANGED tx
  /\ UNCHANGED <<Others, sequence, ceremony, inUse>>

SendDeployment(d) ==
  /\ Doing(d, "sendDeploy")
  /\ \/ SendTx(Deployment(d)) /\ Then(d, "pollDeploy")
     \/ SendTx(Deployment(d)) /\ DeployFails(d)
     \/ DeployFails(d) /\ UNCHANGED tx
  /\ UNCHANGED <<Others, sequence, ceremony, inUse>>

LandDeployment(d) ==
  /\ Includable(Deployment(d))
  /\ \E state \in {"success", "failed"} : Include(Deployment(d), state)
  /\ UNCHANGED <<Others, ceremony, job, inUse>>

\* variant: any status other than NOT_FOUND counts as deployed
DeploymentSettledUnchecked(d) == tx[Deployment(d)].state \in {"success", "failed"}

DeploymentSettled(d) == tx[Deployment(d)].state = "success"

PollDeployment(d) ==
  /\ Doing(d, "pollDeploy")
  /\ \/ DeploymentSettled(d) /\ Then(d, IF job[d].of = None THEN "ok" ELSE "completeRead")
     \/ DeployFails(d)
  /\ UNCHANGED <<Others, tx, sequence, ceremony, inUse>>

-----------------------------------------------------------------------------
(* ceremonies.complete and ceremonies.fail: read, then write what was read *)
(* with the outcome; an expired record is left alone.                      *)

\* An error of the store on completion is answered "deployed-record-pending",
\* with the contract id: the answer is a success all the same.
CompleteRead(d) ==
  /\ Doing(d, "completeRead")
  /\ \/ CeremonyPresent(job[d].of) /\ Then(d, "completeWrite")
     \/ Then(d, "ok")
  /\ UNCHANGED <<Others, tx, sequence, ceremony, inUse>>

\* variant: the ceremony is stored in the place of the contract
DeployedSwapped(k, d) ==
  [ceremony[k] EXCEPT !.status = "deployed", !.until = time + CeremonyTTL, !.contract = k]

Deployed(k, d) ==
  [ceremony[k] EXCEPT !.status = "deployed", !.until = time + CeremonyTTL, !.contract = d]

CompleteWrite(d) ==
  /\ Doing(d, "completeWrite")
  /\ \/ ceremony' = [ceremony EXCEPT ![job[d].of] = Deployed(job[d].of, d)] /\ Then(d, "ok")
     \/ Then(d, "ok") /\ UNCHANGED ceremony
  /\ UNCHANGED <<Others, tx, sequence, inUse>>

FailReadCeremony(d) ==
  /\ Doing(d, "failRead")
  /\ Then(d, IF CeremonyPresent(job[d].of) THEN "failWrite" ELSE "error")
  /\ UNCHANGED <<Others, tx, sequence, ceremony, inUse>>

CeremonyFailed(k) == [ceremony[k] EXCEPT !.status = "failed", !.until = time + CeremonyTTL]

FailWriteCeremony(d) ==
  /\ Doing(d, "failWrite")
  /\ \/ ceremony' = [ceremony EXCEPT ![job[d].of] = CeremonyFailed(job[d].of)]
     \/ UNCHANGED ceremony
  /\ Then(d, "error")
  /\ UNCHANGED <<Others, tx, sequence, inUse>>

CrashDeploy(d) ==
  /\ job[d].pc \in JobRunning
  /\ Then(d, "error")
  /\ UNCHANGED <<Others, tx, sequence, ceremony, inUse>>

DeployStep(d) ==
  \/ Claim(d) \/ Assemble(d) \/ SendDeployment(d) \/ PollDeployment(d)
  \/ CompleteRead(d) \/ CompleteWrite(d) \/ FailReadCeremony(d) \/ FailWriteCeremony(d)

-----------------------------------------------------------------------------
(* The steps that follow a deployment, in the order the ceremony script    *)
(* prints them: close the deploy gate, set CONTRACT_ACCOUNT_ID, fund the   *)
(* account.  They restart the service, so a behaviour begins either before *)
(* any deployment or with an account in use, funded and the gate closed;   *)
(* registrations are of no consequence then.                               *)

DInit ==
  /\ ceremony = [k \in Ceremonies |-> NoCeremony]
  /\ job = [d \in Deploys |-> IdleJob]
  /\ \/ inUse = FALSE /\ balance = 0
     \/ inUse = TRUE /\ balance \in Funding
=============================================================================
