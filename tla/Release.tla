------------------------------ MODULE Release ------------------------------
(***************************************************************************)
(* A release of the umbrella chart.  Each install or upgrade deletes and   *)
(* makes again, in the order of their weights, the hook resources: the     *)
(* bootstrap Job's ServiceAccount, Role and RoleBinding, its network       *)
(* policy, the trusted-ca ConfigMap, the agents' ConfigMaps, and the Job   *)
(* itself, which seeds the Secrets.  Only when the Job has completed are   *)
(* the app pods' workloads applied.  On an upgrade all this happens next   *)
(* to running pods, whose agents use the same ConfigMaps.                  *)
(***************************************************************************)
EXTENDS PodLifecycle, Integers

CONSTANTS
  HookWeight,    \* helm.sh/hook-weight of each hook resource but the Job
  Job,           \* the agent that runs in the Job's pod
  BackoffLimit,  \* backoffLimit of the Job
  InjectDelay,   \* retries of the Job the CA bundle may be late by
  MaxUpgrades,   \* bound on the number of completed upgrades
  ReleaseFaults  \* "deadline" and "abort": what may go wrong besides

ASSUME ReleaseAssumption ==
  /\ HookWeight \in [DOMAIN HookWeight -> Int]
  /\ {"trustedCa", "env"} \subseteq DOMAIN HookWeight
  /\ Job \in Agent \ Pod
  /\ BackoffLimit \in Nat
  /\ InjectDelay \in Nat
  /\ MaxUpgrades \in Nat
  /\ ReleaseFaults \subseteq {"deadline", "abort"}

Hook == DOMAIN HookWeight

\* helm.sh/hook-weight of the Job.
JobWeight == 0

\* The chart gives every other hook resource a lower one.
ASSUME WeightAssumption == \A h \in Hook : HookWeight[h] < JobWeight

VARIABLES
  op,         \* the release's operation: "none", "hooks", "waiting", "deployed", "failed"
  made,       \* hook resources this operation has made, until the Job's turn
  live,       \* hook resources that exist
  bundle,     \* the CA bundle is in the trusted-ca ConfigMap
  job,        \* "none", "running", "complete" or "failed"
  retries,    \* failed pods of the Job replaced so far; 0 without a Job
  installed,  \* the release's workloads have been applied
  upgrades    \* number of completed upgrades

hookVars == <<op, made, live, bundle>>

releaseVars == <<hookVars, job, retries, installed, upgrades>>

relVars == <<allVars, releaseVars>>

\* An install, or an upgrade, begins, the first time or after a failure.
StartOperation ==
  /\ op \notin {"hooks", "waiting"}
  /\ installed => upgrades < MaxUpgrades
  /\ op' = "hooks"
  /\ UNCHANGED <<allVars, made, live, bundle, job, retries, installed, upgrades>>

\* Variation: no order.
TurnOfAny(w) == op = "hooks"

\* Everything of a lower weight than w has been made.
TurnOf(w) == op = "hooks" /\ \A g \in Hook \ made : HookWeight[g] >= w

\* hook-delete-policy before-hook-creation: the old resource goes first; with
\* trusted-ca goes the bundle in it.
DeleteHook(h) ==
  /\ TurnOf(HookWeight[h])
  /\ h \in live \ made
  /\ live' = live \ {h}
  /\ bundle' = (bundle /\ h # "trustedCa")
  /\ UNCHANGED <<allVars, op, made, job, retries, installed, upgrades>>

MakeHook(h) ==
  /\ TurnOf(HookWeight[h])
  /\ h \notin live
  /\ live' = live \cup {h}
  /\ made' = made \cup {h}
  /\ UNCHANGED <<allVars, op, bundle, job, retries, installed, upgrades>>

\* The service-ca operator puts the bundle into the empty ConfigMap.
InjectBundle ==
  /\ "trustedCa" \in live
  /\ ~bundle
  /\ bundle' = TRUE
  /\ UNCHANGED <<allVars, op, made, live, job, retries, installed, upgrades>>

\* The Job of an earlier operation is deleted, running or not.
DeleteJob ==
  /\ TurnOf(JobWeight)
  /\ job # "none"
  /\ job' = "none"
  /\ retries' = 0
  /\ StopAgent(Job)
  /\ UNCHANGED <<podVars, hookVars, installed, upgrades>>

\* The Job is made and its first pod starts.
MakeJob ==
  /\ TurnOf(JobWeight)
  /\ job = "none"
  /\ op' = "waiting"
  /\ made' = {}
  /\ job' = "running"
  /\ StartAgent(Job, "fetch")
  /\ UNCHANGED <<podVars, live, bundle, retries, installed, upgrades>>

\* A new pod of the Job.  InjectDelay is the assumption that the bundle is
\* there by then.
NewJobPod ==
  /\ job = "running"
  /\ pc[Job] = "died"
  /\ "env" \in live
  /\ retries >= InjectDelay => bundle
  /\ retries' = retries + 1
  /\ StartAgent(Job, "fetch")
  /\ UNCHANGED <<podVars, hookVars, job, installed, upgrades>>

\* Variations: one try too many; one too few.
RetryJobOnceMore == retries <= BackoffLimit /\ NewJobPod
RetryJobOnceLess == retries + 1 < BackoffLimit /\ NewJobPod

\* restartPolicy is Never: the Job makes a new pod for a failed one.
RetryJob == retries < BackoffLimit /\ NewJobPod

\* The Job gives up.
FailJob ==
  /\ job = "running"
  /\ pc[Job] = "died"
  /\ retries >= BackoffLimit
  /\ job' = "failed"
  /\ UNCHANGED <<allVars, hookVars, retries, installed, upgrades>>

\* activeDeadlineSeconds: the running pod is stopped wherever it is.
JobDeadline ==
  /\ "deadline" \in ReleaseFaults
  /\ job = "running"
  /\ job' = "failed"
  /\ StopAgent(Job)
  /\ UNCHANGED <<podVars, hookVars, retries, installed, upgrades>>

CompleteJob ==
  /\ job = "running"
  /\ pc[Job] = "exited"
  /\ job' = "complete"
  /\ UNCHANGED <<allVars, hookVars, retries, installed, upgrades>>

\* ttlSecondsAfterFinished.
ExpireJob ==
  /\ job \in {"complete", "failed"}
  /\ op # "waiting"
  /\ job' = "none"
  /\ retries' = 0
  /\ StopAgent(Job)
  /\ UNCHANGED <<podVars, hookVars, installed, upgrades>>

\* Variation: the workloads are applied whatever became of the Job.
ApplyReleaseAnyhow ==
  /\ op = "waiting"
  /\ job \in {"complete", "failed"}
  /\ op' = "deployed"
  /\ installed' = TRUE
  /\ upgrades' = IF installed THEN upgrades + 1 ELSE upgrades
  /\ UNCHANGED <<allVars, made, live, bundle, job, retries>>

\* The Job is complete: the release's workloads are applied.
ApplyRelease ==
  /\ op = "waiting"
  /\ job = "complete"
  /\ op' = "deployed"
  /\ installed' = TRUE
  /\ upgrades' = IF installed THEN upgrades + 1 ELSE upgrades
  /\ UNCHANGED <<allVars, made, live, bundle, job, retries>>

\* The Job has failed, and with it the operation.
FailOperation ==
  /\ op = "waiting"
  /\ job = "failed"
  /\ op' = "failed"
  /\ UNCHANGED <<allVars, made, live, bundle, job, retries, installed, upgrades>>

\* The operation is broken off at any point: what it has made and deleted so
\* far stays so, and a running Job runs on.
AbortOperation ==
  /\ "abort" \in ReleaseFaults
  /\ op \in {"hooks", "waiting"}
  /\ op' = "failed"
  /\ made' = {}
  /\ UNCHANGED <<allVars, live, bundle, job, retries, installed, upgrades>>

(***************************************************************************)
(* What agents need of the hook resources.  No container of an agent is    *)
(* made while camunda-vault-agent-env is missing, which its envFrom does   *)
(* not allow; trusted-ca is optional, but without the bundle in it curl    *)
(* does not trust Vault and the login fails.                               *)
(***************************************************************************)
StartsAgent(a) == pc[a] \in {"off", "exited", "died"} /\ pc'[a] = "start"

LogsIn(a) == pc[a] = "login" /\ pc'[a] = "loop"

Supplied ==
  /\ \A a \in Agent : StartsAgent(a) => "env" \in live
  /\ \A a \in Agent : LogsIn(a) => bundle

\* The login fails because Vault's certificate cannot be verified.
LoginUntrusted(a) ==
  /\ ~bundle
  /\ pc[a] = "login"
  /\ Goto(a, AfterFetch(a, FALSE, changed[a]))
  /\ UNCHANGED <<vaultVars, secrets, rollout, cmd, i, cur, desired, patch, changed>>
  /\ UNCHANGED <<podVars, releaseVars>>

ReleaseInit ==
  /\ PodInit
  /\ op = "none"
  /\ made = {}
  /\ live = {}
  /\ bundle = FALSE
  /\ job = "none"
  /\ retries = 0
  /\ installed = FALSE
  /\ upgrades = 0

HookStep ==
  \/ \E h \in Hook : DeleteHook(h) \/ MakeHook(h)
  \/ DeleteJob
  \/ MakeJob
  \/ ApplyRelease
  \/ FailOperation

JobStep == RetryJob \/ FailJob \/ CompleteJob

ReleaseNext ==
  \/ StartOperation
  \/ HookStep
  \/ InjectBundle
  \/ JobStep
  \/ JobDeadline
  \/ ExpireJob
  \/ AbortOperation
  \/ \E a \in Agent : LoginUntrusted(a)
  \/ /\ installed
     /\ \E p \in Pod : CreatePod(p)
     /\ Supplied
     /\ UNCHANGED releaseVars
  \/ /\ RunningNext
     /\ Supplied
     /\ UNCHANGED releaseVars

ReleaseSpec == ReleaseInit /\ [][ReleaseNext]_relVars

\* Whoever runs the release repeats an operation that has failed; the rest is
\* done by controllers and processes that do not stop.
ReleaseFairSpec ==
  /\ ReleaseSpec
  /\ \A p \in Pod :
       /\ WF_relVars(CreatePod(p) /\ installed /\ Supplied /\ UNCHANGED releaseVars)
       /\ WF_relVars((RetryInit(p) \/ FinishInit(p) \/ RestartSidecar(p))
                     /\ Supplied /\ UNCHANGED releaseVars)
       /\ WF_relVars(StartApp(p) /\ UNCHANGED releaseVars)
       /\ SF_relVars(ReplacePod(p) /\ UNCHANGED releaseVars)
  /\ \A w \in Workload : WF_relVars(ObserveRollout(w) /\ UNCHANGED releaseVars)
  /\ \A a \in Agent :
       WF_relVars(\/ AgentStep(a) /\ Supplied /\ UNCHANGED <<podVars, releaseVars>>
                  \/ LoginUntrusted(a))
  /\ WF_relVars(StartOperation)
  /\ WF_relVars(HookStep)
  /\ WF_relVars(JobStep)
  /\ WF_relVars(InjectBundle)

\* From some point on no operation is broken off and no deadline passes.
OperationsCalm == <>[][~AbortOperation /\ ~JobDeadline]_relVars

-----------------------------------------------------------------------------
ReleaseTypeOK ==
  /\ PodTypeOK
  /\ op \in {"none", "hooks", "waiting", "deployed", "failed"}
  /\ made \subseteq Hook
  /\ live \subseteq Hook
  /\ bundle \in BOOLEAN
  /\ job \in {"none", "running", "complete", "failed"}
  /\ retries \in 0 .. BackoffLimit
  /\ installed \in BOOLEAN
  /\ upgrades \in 0 .. MaxUpgrades

\* The release's workloads are applied only after every Secret the Job lists
\* exists with all its keys, however often the Job's pods failed before and
\* whatever an earlier, failed or broken off operation left behind.
SeededBeforeApps ==
  installed =>
    \A n \in 0 .. SecretsN(Job) - 1 : \A k \in MappedKeys(Job, n) :
      secrets[SecretName(Job, n)][k] # Absent

\* While an operation waits for its Job, everything the Job's pods need is
\* there: their ServiceAccount and its rights, both ConfigMaps and trusted-ca,
\* "so it exists ... before the bootstrap Job runs", and their network policy.
JobEquipped == op = "waiting" => live = Hook

\* "The Job retries (backoffLimit) to absorb the brief window before the
\* service-ca operator injects the bundle": although every operation empties
\* trusted-ca, one that is repeated when it fails gets deployed in the end,
\* provided that calls stop failing and operations stop being broken off.
OperationsSucceed ==
  FaultsCease /\ OperationsCalm => (op = "hooks" ~> op = "deployed")
=============================================================================
