---------------------------- MODULE PodLifecycle ----------------------------
(***************************************************************************)
(* The pods the agent is built into.  An app pod runs agent.sh twice: once *)
(* as an init container (`fetch`) and then as a sidecar (`watch`) next to  *)
(* the app container, which takes the credentials from its Secret into its *)
(* environment when it starts and never looks at the Secret again.         *)
(*                                                                         *)
(* Kubernetes itself (Deployment and StatefulSet controllers, kubelet) is  *)
(* modelled by what the chart's values rely on: an init container that     *)
(* fails is run again, containers start when the init container is done,   *)
(* and a change of the pod template replaces all pods.                     *)
(***************************************************************************)
EXTENDS VaultAgent, FiniteSets

CONSTANTS
  Pod,             \* pod slots; a pod's agent has the pod's name
  Consumes,        \* the Secret each workload's app container reads
  Replicas,        \* replicas of each workload
  MaxSurge,        \* pods a workload may have above its replicas
  MaxUnavailable,  \* pods that may be missing during a rollout
  NoEnv            \* "the app container is not running"

ASSUME PodAssumption ==
  /\ Pod \subseteq Agent
  /\ IsFiniteSet(Pod)
  /\ Consumes \in [Workload -> Secret]
  /\ Replicas \in Nat \ {0}
  /\ MaxSurge \in Nat
  /\ MaxUnavailable \in Nat

ASSUME NoEnvAssumption == NoEnv \notin Data

VARIABLES
  phase,     \* "absent", "init" or "up"
  outdated,  \* pods made from an earlier pod template
  env        \* the Secret data in the app container's environment, or NoEnv

podVars == <<phase, outdated, env>>

allVars == <<vars, podVars>>

SecretOf(p) == secrets[Consumes[Target[p]]]

PodsOf(w) == {p \in Pod : Target[p] = w /\ phase[p] # "absent"}

Available(w) == {p \in PodsOf(w) : phase[p] = "up" /\ env[p] # NoEnv}

\* The workload's controller makes a pod; its init container starts.
CreatePod(p) ==
  /\ phase[p] = "absent"
  /\ Cardinality(PodsOf(Target[p]) \ outdated) < Replicas
  /\ Cardinality(PodsOf(Target[p])) < Replicas + MaxSurge
  /\ phase' = [phase EXCEPT ![p] = "init"]
  /\ StartAgent(p, "fetch")
  /\ UNCHANGED <<outdated, env>>

\* The kubelet runs a failed init container again.
RetryInit(p) ==
  /\ phase[p] = "init"
  /\ pc[p] = "died"
  /\ StartAgent(p, "fetch")
  /\ UNCHANGED podVars

\* The init container is done: the pod's containers are started.
FinishInit(p) ==
  /\ phase[p] = "init"
  /\ pc[p] = "exited"
  /\ phase' = [phase EXCEPT ![p] = "up"]
  /\ StartAgent(p, "watch")
  /\ UNCHANGED <<outdated, env>>

\* The app container starts with the values its Secret holds now; without
\* the Secret it cannot be created.
StartApp(p) ==
  /\ phase[p] = "up"
  /\ env[p] = NoEnv
  /\ Exists(Consumes[Target[p]])
  /\ env' = [env EXCEPT ![p] = SecretOf(p)]
  /\ UNCHANGED <<vars, phase, outdated>>

\* The app container ends; its pod stays.
StopApp(p) ==
  /\ "app" \in Faults
  /\ env[p] # NoEnv
  /\ env' = [env EXCEPT ![p] = NoEnv]
  /\ UNCHANGED <<vars, phase, outdated>>

\* The controller sees the new pod template: all its pods are now old.
ObserveRollout(w) ==
  /\ w \in rollout
  /\ rollout' = rollout \ {w}
  /\ outdated' = outdated \cup PodsOf(w)
  /\ UNCHANGED <<vaultVars, secrets, agentVars, phase, env>>

RemovePod(p) ==
  /\ phase[p] # "absent"
  /\ phase' = [phase EXCEPT ![p] = "absent"]
  /\ outdated' = outdated \ {p}
  /\ env' = [env EXCEPT ![p] = NoEnv]
  /\ StopAgent(p)

\* The controller replaces an old pod once enough others are available.  The
\* agent gets 30 seconds to end its round; "kill" is the case it does not.
ReplacePod(p) ==
  /\ p \in outdated
  /\ \/ p \notin Available(Target[p])
     \/ Cardinality(Available(Target[p]) \ {p}) >= Replicas - MaxUnavailable
  /\ pc[p] \in {"sleep", "exited", "died"} \/ "kill" \in Faults
  /\ RemovePod(p)

\* The pod is evicted from its node.
EvictPod(p) ==
  /\ "kill" \in Faults
  /\ RemovePod(p)

\* Agent q has changed a Secret in this round and will restart its workload.
AboutToRestart(q) ==
  /\ cmd[q] = "watch"
  /\ changed[q]
  /\ pc[q] \in {"loop", "restart"}

\* The sidecar's container ends, and the kubelet starts it again.
CrashSidecar(p) ==
  /\ "crash" \in Faults
  /\ AboutToRestart(p) => "gap" \in Faults
  /\ phase[p] = "up"
  /\ pc[p] # "off"
  /\ StopAgent(p)
  /\ UNCHANGED podVars

RestartSidecar(p) ==
  /\ phase[p] = "up"
  /\ pc[p] = "off"
  /\ StartAgent(p, "watch")
  /\ UNCHANGED podVars

PodInit ==
  /\ Init
  /\ phase = [p \in Pod |-> "absent"]
  /\ outdated = {}
  /\ env = [p \in Pod |-> NoEnv]

PodStep(p) ==
  \/ RetryInit(p)
  \/ FinishInit(p)
  \/ StartApp(p)
  \/ StopApp(p)
  \/ ReplacePod(p)
  \/ EvictPod(p)
  \/ CrashSidecar(p)
  \/ RestartSidecar(p)

\* Everything but the creation of pods.
RunningNext ==
  \/ \E p \in Pod : PodStep(p)
  \/ \E w \in Workload : ObserveRollout(w)
  \/ /\ \/ \E a \in Agent : AgentStep(a)
        \/ \E p \in Path : VaultPut(p)
        \/ \E s \in Secret : DeleteSecret(s)
     /\ UNCHANGED podVars

PodNext ==
  \/ \E p \in Pod : CreatePod(p)
  \/ RunningNext

PodSpec == PodInit /\ [][PodNext]_allVars

(***************************************************************************)
(* Controllers and kubelet do their work in the end.                       *)
(***************************************************************************)
PodFairness(p) ==
  /\ WF_allVars(AgentStep(p) /\ UNCHANGED podVars)
  /\ WF_allVars(CreatePod(p))
  /\ WF_allVars(RetryInit(p) \/ FinishInit(p) \/ RestartSidecar(p))
  /\ WF_allVars(StartApp(p))
  /\ SF_allVars(ReplacePod(p))

ClusterFairness ==
  /\ \A p \in Pod : PodFairness(p)
  /\ \A w \in Workload : WF_allVars(ObserveRollout(w))

PodFairSpec == PodSpec /\ ClusterFairness

-----------------------------------------------------------------------------
PodTypeOK ==
  /\ TypeOK
  /\ phase \in [Pod -> {"absent", "init", "up"}]
  /\ outdated \subseteq Pod
  /\ env \in [Pod -> Data \cup {NoEnv}]

\* The app container of p runs on other values than its Secret now holds.
Stale(p) ==
  /\ env[p] # NoEnv
  /\ Exists(Consumes[Target[p]])
  /\ env[p] # SecretOf(p)

\* No pod is silently left with old credentials: while one runs on values
\* its Secret no longer holds, it is due for replacement, or a restart of its
\* workload has been asked for, or a sidecar of the workload is on its way to
\* ask for it.  The next round of the sidecar will not see any difference.
NoSilentStaleness ==
  \A p \in Pod : Stale(p) =>
    \/ p \in outdated
    \/ Target[p] \in rollout
    \/ \E q \in Pod : Target[q] = Target[p] /\ AboutToRestart(q)

\* From some point on no container ends by itself, and no pod goes that is not
\* to be replaced.
PodsCalm ==
  <>[][\A p \in Pod : /\ ~StopApp(p) /\ ~CrashSidecar(p)
                      /\ EvictPod(p) => ReplacePod(p)]_allVars

\* Changes in Vault reach the running app containers once calls, containers and
\* nodes no longer fail, and then restarts stop: "the ... sidecars patch their
\* own secret and rollout-restart their own workload".
RotationReachesPods ==
  FaultsCease /\ PodsCalm =>
    <>[](/\ rollout = {}
         /\ \A p \in Pod : env[p] # NoEnv => ~Stale(p) /\ Reconciled(p))
=============================================================================
