------------------------- MODULE PodLifecycleProofs -------------------------
(***************************************************************************)
(* Proofs about PodLifecycle, for any pods and workloads.  What is proved  *)
(* of agents in VaultAgentProofs holds of agents in pods, because every    *)
(* step of PodLifecycle is an AnyStep.                                     *)
(***************************************************************************)
EXTENDS PodLifecycle, SecretCopyProofs

-----------------------------------------------------------------------------
(* Pods as surroundings of agents.                                         *)

LEMMA PodsAreAgents == ASSUME NEW p \in Pod PROVE p \in Agent
BY PodAssumption

\* What a step of a pod is for the pod's agent.
LEMMA PodStepIsAnyStep ==
  ASSUME TypeOK, NEW p \in Pod, CreatePod(p) \/ PodStep(p)
  PROVE  Process(p) \/ UNCHANGED vars
<1>1. CASE CreatePod(p) \/ RetryInit(p) \/ FinishInit(p) \/ RestartSidecar(p)
  BY <1>1 DEF CreatePod, RetryInit, FinishInit, RestartSidecar, Process
<1>2. CASE StartApp(p) \/ StopApp(p)
  BY <1>2 DEF StartApp, StopApp
<1>3. CASE ReplacePod(p) \/ EvictPod(p) \/ CrashSidecar(p)
  BY <1>3 DEF ReplacePod, EvictPod, CrashSidecar, RemovePod, Process
<1> QED
  BY <1>1, <1>2, <1>3 DEF PodStep

LEMMA PodNextIsAnyStep ==
  ASSUME TypeOK, [PodNext]_allVars
  PROVE  AnyStep
<1>1. ASSUME UNCHANGED vars PROVE AnyStep
  BY <1>1, NextIsAnyStep
<1>2. ASSUME NEW p \in Pod, CreatePod(p) \/ PodStep(p) PROVE AnyStep
  BY <1>1, <1>2, PodStepIsAnyStep, PodsAreAgents DEF AnyStep, StepOf
<1>3. ASSUME NEW w \in Workload, ObserveRollout(w) PROVE AnyStep
  BY <1>3 DEF ObserveRollout, vaultVars, AnyStep, Elsewhere, TypeOK
<1>4. ASSUME NEW a \in Agent, AgentStep(a) PROVE AnyStep
  BY <1>4 DEF AnyStep, StepOf
<1>5. ASSUME (\E p \in Path : VaultPut(p)) \/ (\E s \in Secret : DeleteSecret(s))
      PROVE  AnyStep
  BY <1>5, NextIsAnyStep DEF Next
<1> QED
  BY <1>1, <1>2, <1>3, <1>4, <1>5 DEF PodNext, RunningNext, allVars

-----------------------------------------------------------------------------
(* Types.                                                                  *)

LEMMA PodInitType == PodInit => PodTypeOK
BY InitType DEF PodInit, PodTypeOK

LEMMA PodTypeStep ==
  ASSUME PodTypeOK, TypeOK', [PodNext]_allVars
  PROVE  PodTypeOK'
<1> USE DEF PodTypeOK
<1>1. CASE UNCHANGED podVars
  BY <1>1 DEF podVars
<1>2. ASSUME NEW p \in Pod, CreatePod(p) \/ PodStep(p) PROVE PodTypeOK'
  <2>1. CASE CreatePod(p) \/ FinishInit(p)
    BY <2>1 DEF CreatePod, FinishInit
  <2>2. CASE RetryInit(p) \/ CrashSidecar(p) \/ RestartSidecar(p)
    BY <1>1, <2>2 DEF RetryInit, CrashSidecar, RestartSidecar
  <2>3. CASE StartApp(p)
    <3>1. SecretOf(p) \in Data
      BY ConfigAssumption, PodAssumption DEF SecretOf, TypeOK
    <3> QED
      BY <2>3, <3>1 DEF StartApp
  <2>4. CASE StopApp(p)
    BY <2>4 DEF StopApp
  <2>5. CASE ReplacePod(p) \/ EvictPod(p)
    BY <2>5 DEF ReplacePod, EvictPod, RemovePod
  <2> QED
    BY <1>2, <2>1, <2>2, <2>3, <2>4, <2>5 DEF PodStep
<1>3. ASSUME NEW w \in Workload, ObserveRollout(w) PROVE PodTypeOK'
  BY <1>3 DEF ObserveRollout, PodsOf
<1> QED
  BY <1>1, <1>2, <1>3 DEF PodNext, RunningNext, allVars

\* The invariant of the agents, in pods.
PodAgentInv == PodTypeOK /\ AgentInv /\ HandInv

LEMMA PodAgentInit == PodInit => PodAgentInv
BY PodInitType, AgentInvInit, HandInit DEF PodInit, PodAgentInv

LEMMA PodAgentStep == PodAgentInv /\ [PodNext]_allVars => PodAgentInv'
<1> SUFFICES ASSUME PodAgentInv, [PodNext]_allVars PROVE PodAgentInv'
  OBVIOUS
<1>1. AnyStep
  BY PodNextIsAnyStep DEF PodAgentInv, PodTypeOK
<1>2. AgentInv' /\ HandInv'
  BY <1>1, AgentInvStep, HandStep DEF PodAgentInv
<1>3. PodTypeOK'
  BY <1>2, PodTypeStep DEF PodAgentInv, AgentInv
<1> QED
  BY <1>2, <1>3 DEF PodAgentInv

\* Every variable of pods and agents keeps its type; in particular an app
\* container's environment is always the data of a Secret.
THEOREM PodTypeCorrect == PodSpec => []PodTypeOK
<1>1. PodAgentInv => PodTypeOK
  BY DEF PodAgentInv
<1> QED
  BY <1>1, PodAgentInit, PodAgentStep, PTL DEF PodSpec

\* Pods, whatever is started, replaced, evicted or crashes, never find a
\* Secret of which only some keys have been written.
THEOREM PodCreatedCompleteHolds == PodSpec => []CreatedComplete
<1>1. PodAgentInv => CreatedComplete
  BY DEF PodAgentInv, AgentInv
<1> QED
  BY <1>1, PodAgentInit, PodAgentStep, PTL DEF PodSpec

\* Agents in pods implement SecretCopy.
THEOREM PodCopiesFaithfully == PodSpec => CopiesFaithfully
<1>1. PodInit => Copy!Init
  BY CopyInit DEF PodInit
<1>2. PodAgentInv /\ [PodNext]_allVars => [Copy!Next]_(Copy!vars)
  BY PodNextIsAnyStep, CopyStep DEF PodAgentInv, PodTypeOK
<1> QED
  BY <1>1, <1>2, PodAgentInit, PodAgentStep, PTL DEF PodSpec, CopiesFaithfully, Copy!Spec

-----------------------------------------------------------------------------
(* Stale environments.                                                     *)

\* An app container runs only in a pod that is up, next to a sidecar.
PlaceOK(p) ==
  /\ env[p] # NoEnv => phase[p] = "up"
  /\ phase[p] = "up" => cmd[p] = "watch"

PlaceInv == \A p \in Pod : PlaceOK(p)

\* CHANGED is not 1 before the first Secret of a round has been reconciled.
ChangedOK(a) ==
  changed[a] => pc[a] # "login" /\ (pc[a] = "loop" => i[a] > 0)

ChangedInv == \A a \in Agent : ChangedOK(a)

\* A pod on old values has its restart coming, from its own sidecar at the
\* latest: another sidecar of the workload might be gone before it asks.
StaleInv ==
  \A p \in Pod : Stale(p) =>
    p \in outdated \/ Target[p] \in rollout \/ AboutToRestart(p)

\* Nobody but pod p writes the Secret its app container reads: one pod at a
\* time, as in a StatefulSet of one replica, and no Job next to it.
SoleWriter ==
  \A p \in Pod, a \in Agent : \A n \in 0 .. SecretsN(a) - 1 :
    SecretName(a, n) = Consumes[Target[p]] => a = p

LEMMA ChangedStep ==
  ASSUME AgentInv, ChangedInv, AnyStep
  PROVE  ChangedInv'
<1> USE DEF AgentInv
<1> SUFFICES ASSUME NEW b \in Agent PROVE ChangedOK(b)'
  BY DEF ChangedInv
<1>0. ChangedOK(b)
  BY DEF ChangedInv
<1>1. CASE UNCHANGED <<pc, i, changed>>
  BY <1>0, <1>1 DEF ChangedOK
<1>2. ASSUME NEW a \in Agent, a # b, StepOf(a) PROVE ChangedOK(b)'
  BY <1>0, <1>2, Frame DEF ChangedOK
<1>3. ASSUME pc'[b] \notin {"login", "loop"} PROVE ChangedOK(b)'
  BY <1>3 DEF ChangedOK
<1>4. ASSUME AgentStep(b) PROVE ChangedOK(b)'
  <2> USE DEF TypeOK, Goto
  <2>1. CASE FetchStart(b)
    <3>1. changed'[b] = FALSE
      BY <2>1 DEF FetchStart
    <3> QED
      BY <3>1 DEF ChangedOK
  <2>2. CASE Login(b)
    BY <1>0, <2>2 DEF Login, ChangedOK
  <2>3. CASE FetchLoop(b)
    <3>1. pc'[b] \notin {"login", "loop"} \/ (pc'[b] = "loop" /\ i'[b] = i[b] + 1)
      BY <2>3 DEF FetchLoop, SecretLoop, AfterFetch
    <3> QED
      BY <1>3, <3>1 DEF ChangedOK
  <2>4. CASE ReadEntry(b)
    BY <1>3, <2>4 DEF ReadEntry, Collect
  <2>5. CASE GetSecret(b) \/ WriteSecret(b)
    <3>1. pc'[b] \notin {"login", "loop"} \/ (pc'[b] = "loop" /\ i'[b] = i[b] + 1)
      BY <2>5 DEF GetSecret, WriteSecret
    <3> QED
      BY <1>3, <3>1 DEF ChangedOK
  <2>6. CASE FieldMissing(b) \/ AnswerLost(b) \/ WriteRefused(b) \/ CallFails(b)
    <3>1. pc'[b] = AfterFetch(b, FALSE, changed[b])
      BY <2>6 DEF FieldMissing, AnswerLost, WriteRefused, CallFails
    <3>2. pc'[b] \in {"exited", "died", "restart", "sleep"}
      BY <3>1, AfterFetchType
    <3> QED
      BY <1>3, <3>2
  <2>7. CASE Restart(b) \/ RestartFails(b) \/ Wake(b)
    BY <1>3, <2>7 DEF Restart, RestartFails, Wake
  <2> QED
    BY <1>4, <2>1, <2>2, <2>3, <2>4, <2>5, <2>6, <2>7 DEF AgentStep
<1>5. ASSUME Process(b) \/ GivesUp(b) PROVE ChangedOK(b)'
  <2>1. CASE Process(b)
    BY <1>3, <2>1 DEF Process, StartAgent, StopAgent, Goto, TypeOK
  <2>2. CASE GivesUp(b)
    BY <1>3, <2>2, GivesUpTo
  <2> QED
    BY <1>5, <2>1, <2>2
<1>6. ASSUME Elsewhere \/ \E s \in Secret : DeleteSecret(s)
      PROVE  UNCHANGED <<pc, i, changed>>
  BY <1>6 DEF Elsewhere, DeleteSecret, agentVars
<1> QED
  BY <1>1, <1>2, <1>4, <1>5, <1>6 DEF AnyStep, StepOf

LEMMA PlaceStep ==
  ASSUME PodTypeOK, PlaceInv, [PodNext]_allVars
  PROVE  PlaceInv'
<1> USE DEF PodTypeOK, TypeOK
<1> SUFFICES ASSUME NEW p \in Pod PROVE PlaceOK(p)'
  BY DEF PlaceInv
<1>0. PlaceOK(p) /\ p \in Agent
  BY PodsAreAgents DEF PlaceInv
<1>1. CASE UNCHANGED <<phase, env, cmd>>
  BY <1>0, <1>1 DEF PlaceOK
<1>2. ASSUME NEW q \in Pod, CreatePod(q) \/ PodStep(q) PROVE PlaceOK(p)'
  <2>0. q \in Agent
    BY PodsAreAgents
  <2>1. CASE CreatePod(q) \/ RetryInit(q)
    BY <1>0, <2>0, <2>1 DEF CreatePod, RetryInit, StartAgent, podVars, PlaceOK
  <2>2. CASE FinishInit(q) \/ RestartSidecar(q)
    BY <1>0, <2>0, <2>2 DEF FinishInit, RestartSidecar, StartAgent, podVars, PlaceOK
  <2>3. CASE StartApp(q) \/ StopApp(q)
    BY <1>0, <2>3 DEF StartApp, StopApp, vars, agentVars, PlaceOK
  <2>4. CASE ReplacePod(q) \/ EvictPod(q) \/ CrashSidecar(q)
    BY <1>0, <2>4 DEF ReplacePod, EvictPod, CrashSidecar, RemovePod, StopAgent, podVars, PlaceOK
  <2> QED
    BY <1>2, <2>1, <2>2, <2>3, <2>4 DEF PodStep
<1>3. ASSUME NEW w \in Workload, ObserveRollout(w) PROVE UNCHANGED <<phase, env, cmd>>
  BY <1>3 DEF ObserveRollout, agentVars
<1>4. ASSUME NEW a \in Agent, AgentStep(a), UNCHANGED podVars
      PROVE  UNCHANGED <<phase, env, cmd>>
  BY <1>4, CommandKept DEF podVars
<1>5. ASSUME (\E q \in Path : VaultPut(q)) \/ (\E s \in Secret : DeleteSecret(s)),
             UNCHANGED podVars
      PROVE  UNCHANGED <<phase, env, cmd>>
  BY <1>5 DEF VaultPut, DeleteSecret, agentVars, podVars
<1>6. ASSUME UNCHANGED allVars PROVE UNCHANGED <<phase, env, cmd>>
  BY <1>6 DEF allVars, vars, agentVars, podVars
<1> QED
  BY <1>1, <1>2, <1>3, <1>4, <1>5, <1>6 DEF PodNext, RunningNext

\* No agent takes back a restart that was asked for.
LEMMA RolloutGrows ==
  ASSUME NEW a \in Agent, AgentStep(a)
  PROVE  rollout \subseteq rollout'
<1>1. CASE FetchStart(a) \/ Login(a) \/ FetchLoop(a)
  BY <1>1 DEF FetchStart, Login, FetchLoop, SecretLoop
<1>2. CASE ReadEntry(a) \/ FieldMissing(a) \/ GetSecret(a)
  BY <1>2 DEF ReadEntry, Collect, FieldMissing, GetSecret
<1>3. CASE WriteSecret(a) \/ AnswerLost(a) \/ WriteRefused(a) \/ CallFails(a)
  BY <1>3 DEF WriteSecret, AnswerLost, WriteRefused, CallFails
<1>4. CASE Restart(a) \/ RestartFails(a) \/ Wake(a)
  BY <1>4 DEF Restart, RestartFails, Wake
<1> QED
  BY <1>1, <1>2, <1>3, <1>4 DEF AgentStep

\* A sidecar about to restart its workload does so, or goes on being about to,
\* whatever the other agents do.
LEMMA RestartComes ==
  ASSUME AgentInv, ChangedInv, NEW p \in Agent, AboutToRestart(p), SecretsN(p) <= 1,
         NEW a \in Agent, AgentStep(a),
         RestartMode = "rollout", "restart" \notin Faults
  PROVE  AboutToRestart(p)' \/ Target[p] \in rollout'
<1> USE DEF AgentInv, AboutToRestart
<1>1. CASE a # p
  BY <1>1, Frame DEF StepOf
<1>2. CASE a = p
  <2> USE DEF TypeOK, Goto
  <2>1. FetchLoop(p) \/ Restart(p)
    BY <1>2 DEF AgentStep, FetchStart, Login, ReadEntry, FieldMissing, GetSecret, WriteSecret,
       AnswerLost, WriteRefused, CallFails, CallSite, RestartFails, Wake, Posted, Patched
  <2>2. CASE FetchLoop(p)
    <3>1. pc[p] = "loop" /\ i[p] > 0
      BY <2>2 DEF FetchLoop, SecretLoop, ChangedInv, ChangedOK
    <3>2. ~(i[p] < SecretsN(p))
      BY <3>1, LookupType
    <3>3. /\ pc' = [pc EXCEPT ![p] = AfterFetch(p, TRUE, changed[p])]
          /\ UNCHANGED <<cmd, changed>>
      BY <2>2, <3>2, Zenon DEF FetchLoop, SecretLoop
    <3>4. AfterFetch(p, TRUE, changed[p]) = "restart"
      BY DEF AfterFetch
    <3> QED
      BY <3>3, <3>4
  <2>3. CASE Restart(p)
    BY <2>3 DEF Restart
  <2> QED
    BY <2>1, <2>2, <2>3
<1> QED
  BY <1>1, <1>2

\* A write of a pod's Secret is one of its own sidecar, which then restarts.
LEMMA OwnWrite ==
  ASSUME AgentInv, PlaceInv, SoleWriter, NEW p \in Pod, env[p] # NoEnv,
         NEW a \in Agent, AgentStep(a), "lost" \notin Faults,
         secrets'[Consumes[Target[p]]] # secrets[Consumes[Target[p]]]
  PROVE  AboutToRestart(p)'
<1> USE DEF AgentInv
<1>0. Consumes[Target[p]] \in Secret
  BY PodsAreAgents, ConfigAssumption, PodAssumption
<1>1. Posted(a) \/ Patched(a)
  <2>1. ~FetchStart(a) /\ ~Login(a) /\ ~FetchLoop(a)
    BY DEF FetchStart, Login, FetchLoop, SecretLoop
  <2>2. ~ReadEntry(a) /\ ~FieldMissing(a) /\ ~GetSecret(a)
    BY DEF ReadEntry, Collect, FieldMissing, GetSecret
  <2>3. ~WriteRefused(a) /\ ~CallFails(a)
    BY DEF WriteRefused, CallFails
  <2>4. ~Restart(a) /\ ~RestartFails(a) /\ ~Wake(a)
    BY DEF Restart, RestartFails, Wake
  <2> QED
    BY <2>1, <2>2, <2>3, <2>4 DEF AgentStep, WriteSecret, AnswerLost
<1>2. CurSecret(a) = Consumes[Target[p]]
  BY <1>0, <1>1, WriteEffect
<1>3. cur[a] \in 0 .. SecretsN(a) - 1
  <2>1. cur[a] \in Nat /\ cur[a] < SecretsN(a)
    BY <1>1 DEF Posted, Patched, TypeOK, CursorInv, CursorOK, InSecret
  <2> QED
    BY <2>1, LookupType
<1>4. a = p
  BY <1>2, <1>3 DEF SoleWriter, CurSecret
<1>5. WriteSecret(a)
  <2>1. pc[a] \in {"post", "patch"}
    BY <1>1 DEF Posted, Patched
  <2>2. ~WriteRefused(a)
    BY <1>1 DEF Posted, Patched, WriteRefused
  <2>3. secrets' # secrets
    OBVIOUS
  <2> QED
    BY <2>1, <2>2, <2>3 DEF AgentStep, FetchStart, Login, FetchLoop, SecretLoop, ReadEntry,
       FieldMissing, GetSecret, AnswerLost, CallFails, Restart, RestartFails, Wake
<1>6. cmd[p] = "watch"
  BY DEF PlaceInv, PlaceOK
<1> QED
  BY <1>4, <1>5, <1>6 DEF WriteSecret, Goto, TypeOK, AboutToRestart

LEMMA StaleStep ==
  ASSUME PodTypeOK, AgentInv, PlaceInv, ChangedInv, StaleInv, [PodNext]_allVars,
         SoleWriter, \A p \in Pod : SecretsN(p) <= 1,
         RestartMode = "rollout", Faults \cap {"lost", "restart", "gap"} = {}
  PROVE  StaleInv'
<1> USE DEF PodTypeOK, TypeOK
<1> SUFFICES ASSUME NEW p \in Pod, Stale(p)'
             PROVE  p \in outdated' \/ Target[p] \in rollout' \/ AboutToRestart(p)'
  BY DEF StaleInv
<1> DEFINE s0 == Consumes[Target[p]]
<1>0. p \in Agent /\ s0 \in Secret /\ env'[p] # NoEnv /\ PlaceOK(p) /\ Target[p] \in Workload
  BY PodsAreAgents, ConfigAssumption, PodAssumption DEF Stale, PlaceInv
<1>1. ASSUME env'[p] = env[p], secrets'[s0] = secrets[s0]
      PROVE  /\ phase[p] = "up" /\ cmd[p] = "watch"
             /\ p \in outdated \/ Target[p] \in rollout \/ AboutToRestart(p)
  <2>1. Stale(p)
    BY <1>1 DEF Stale, Exists, SecretOf
  <2> QED
    BY <1>0, <1>1, <2>1 DEF StaleInv, PlaceOK
<1>2. ASSUME NEW a \in Agent, AgentStep(a), UNCHANGED podVars
      PROVE  p \in outdated' \/ Target[p] \in rollout' \/ AboutToRestart(p)'
  <2>1. env' = env /\ outdated' = outdated
    BY <1>2 DEF podVars
  <2>2. CASE secrets'[s0] # secrets[s0]
    BY <1>0, <1>2, <2>1, <2>2, OwnWrite
  <2>3. CASE secrets'[s0] = secrets[s0]
    <3>1. p \in outdated \/ Target[p] \in rollout \/ AboutToRestart(p)
      BY <1>1, <2>1, <2>3
    <3>2. rollout \subseteq rollout'
      BY <1>2, RolloutGrows
    <3> QED
      BY <1>0, <1>2, <2>1, <3>1, <3>2, RestartComes
  <2> QED
    BY <2>2, <2>3
<1>3. ASSUME NEW q \in Pod, CreatePod(q) \/ PodStep(q)
      PROVE  p \in outdated' \/ Target[p] \in rollout' \/ AboutToRestart(p)'
  <2>0. q \in Agent
    BY PodsAreAgents
  <2>1. UNCHANGED <<secrets, rollout>>
    BY <1>3, PodStepIsAnyStep DEF Process, StartAgent, StopAgent, vars
  <2>2. env'[p] = env[p]
    <3>1. ~(q = p /\ (StopApp(q) \/ ReplacePod(q) \/ EvictPod(q)))
      BY <1>0 DEF StopApp, ReplacePod, EvictPod, RemovePod
    <3>2. ~(q = p /\ StartApp(q))
      <4>1. ASSUME StartApp(p) PROVE env'[p] = secrets[s0]
        BY <4>1 DEF StartApp, SecretOf
      <4> QED
        BY <2>1, <4>1 DEF Stale, SecretOf
    <3> QED
      BY <1>3, <3>1, <3>2 DEF PodStep, CreatePod, RetryInit, FinishInit, StartApp, StopApp,
         ReplacePod, EvictPod, RemovePod, CrashSidecar, RestartSidecar, podVars
  <2>3. /\ phase[p] = "up"
        /\ p \in outdated \/ Target[p] \in rollout \/ AboutToRestart(p)
    BY <1>1, <2>1, <2>2
  <2>4. p \in outdated => p \in outdated'
    <3>1. ~(q = p /\ (ReplacePod(q) \/ EvictPod(q)))
      BY <1>0 DEF ReplacePod, EvictPod, RemovePod
    <3> QED
      BY <1>3, <3>1 DEF PodStep, CreatePod, RetryInit, FinishInit, StartApp, StopApp,
         ReplacePod, EvictPod, RemovePod, CrashSidecar, RestartSidecar, podVars
  <2>5. ASSUME AboutToRestart(p) PROVE AboutToRestart(p)'
    <3>1. CASE UNCHANGED vars
      BY <2>5, <3>1 DEF vars, agentVars, AboutToRestart
    <3>2. CASE Process(q) /\ q # p
      BY <1>0, <2>0, <2>5, <3>2, Frame DEF StepOf, AboutToRestart
    <3>3. CASE Process(q) /\ q = p
      <4>1. pc[p] \in {"loop", "restart"}
        BY <2>5 DEF AboutToRestart
      <4>2. ~CreatePod(p) /\ ~RetryInit(p) /\ ~FinishInit(p) /\ ~RestartSidecar(p)
        BY <4>1 DEF CreatePod, RetryInit, FinishInit, RestartSidecar, StartAgent
      <4>3. ~ReplacePod(p) /\ ~EvictPod(p)
        BY <1>0 DEF ReplacePod, EvictPod, RemovePod
      <4>4. ~CrashSidecar(p)
        BY <2>5 DEF CrashSidecar
      <4>5. UNCHANGED vars
        BY <1>3, <3>3, <4>2, <4>3, <4>4 DEF PodStep, StartApp, StopApp
      <4> QED
        BY <3>1, <4>5
    <3> QED
      BY <1>3, <3>1, <3>2, <3>3, PodStepIsAnyStep
  <2> QED
    BY <2>1, <2>3, <2>4, <2>5
<1>4. ASSUME NEW w \in Workload, ObserveRollout(w)
      PROVE  p \in outdated' \/ Target[p] \in rollout' \/ AboutToRestart(p)'
  <2>1. /\ rollout' = rollout \ {w} /\ outdated' = outdated \cup PodsOf(w)
        /\ UNCHANGED <<secrets, env, agentVars>>
    BY <1>4 DEF ObserveRollout
  <2>2. /\ phase[p] = "up"
        /\ p \in outdated \/ Target[p] \in rollout \/ AboutToRestart(p)
    BY <1>1, <2>1
  <2>3. p \in PodsOf(Target[p])
    BY <2>2 DEF PodsOf
  <2> QED
    BY <2>1, <2>2, <2>3 DEF AboutToRestart, agentVars
<1>5. ASSUME NEW q \in Path, VaultPut(q), UNCHANGED podVars
      PROVE  p \in outdated' \/ Target[p] \in rollout' \/ AboutToRestart(p)'
  BY <1>1, <1>5 DEF VaultPut, podVars, agentVars, AboutToRestart
<1>6. ASSUME NEW s \in Secret, DeleteSecret(s), UNCHANGED podVars
      PROVE  p \in outdated' \/ Target[p] \in rollout' \/ AboutToRestart(p)'
  <2>1. s # s0
    BY <1>0, <1>6 DEF DeleteSecret, Stale, Exists
  <2>2. secrets'[s0] = secrets[s0] /\ UNCHANGED <<rollout, agentVars, env, outdated>>
    BY <1>0, <1>6, <2>1 DEF DeleteSecret, podVars
  <2> QED
    BY <1>1, <2>2 DEF agentVars, AboutToRestart
<1>7. ASSUME UNCHANGED allVars
      PROVE  p \in outdated' \/ Target[p] \in rollout' \/ AboutToRestart(p)'
  BY <1>1, <1>7 DEF allVars, vars, podVars, agentVars, AboutToRestart
<1> QED
  BY <1>2, <1>3, <1>4, <1>5, <1>6, <1>7 DEF PodNext, RunningNext

\* While a pod runs on values its Secret no longer holds, its replacement is
\* under way or its sidecar is about to ask for it: for any number of
\* workloads of one pod each with mapping files of one Secret, with any
\* rotations, deletions, evictions, ends of containers and failing calls,
\* provided that the PATCH of the workload does not fail, no answer is lost
\* and no sidecar ends between its two PATCHes.
THEOREM NoSilentStalenessHolds ==
  ASSUME SoleWriter, \A p \in Pod : SecretsN(p) <= 1,
         RestartMode = "rollout", Faults \cap {"lost", "restart", "gap"} = {}
  PROVE  PodSpec => []NoSilentStaleness
<1> DEFINE Inv == PodAgentInv /\ PlaceInv /\ ChangedInv /\ StaleInv
<1>1. PodInit => Inv
  <2>1. PodInit => PlaceInv /\ ChangedInv /\ StaleInv
    BY DEF PodInit, Init, PlaceInv, PlaceOK, ChangedInv, ChangedOK, StaleInv, Stale
  <2> QED
    BY <2>1, PodAgentInit
<1>2. Inv /\ [PodNext]_allVars => Inv'
  <2> SUFFICES ASSUME Inv, [PodNext]_allVars PROVE Inv'
    OBVIOUS
  <2> USE DEF PodAgentInv
  <2>1. PodAgentInv'
    BY PodAgentStep
  <2>2. PlaceInv'
    BY PlaceStep
  <2>3. ChangedInv'
    BY ChangedStep, PodNextIsAnyStep DEF PodTypeOK
  <2>4. StaleInv'
    BY StaleStep
  <2> QED
    BY <2>1, <2>2, <2>3, <2>4
<1>3. Inv => NoSilentStaleness
  BY DEF StaleInv, NoSilentStaleness
<1> QED
  BY <1>1, <1>2, <1>3, PTL DEF PodSpec
=============================================================================
