--------------------------- MODULE ReleaseProofs ---------------------------
(***************************************************************************)
(* Proofs about Release, for any hook resources, pods and agents, any      *)
(* number of retries and upgrades, and any faults.                         *)
(***************************************************************************)
EXTENDS Release, PodLifecycleProofs

-----------------------------------------------------------------------------
(* A release as the surroundings of pods and agents.                       *)

\* A step of the release itself: of the pods' agents it touches at most the
\* Job's.
OperationStep ==
  \/ StartOperation
  \/ HookStep
  \/ InjectBundle
  \/ JobStep
  \/ JobDeadline
  \/ ExpireJob
  \/ AbortOperation

LEMMA OperationIsAnyStep ==
  ASSUME TypeOK, OperationStep
  PROVE  AnyStep /\ UNCHANGED podVars
<1>1. CASE UNCHANGED allVars
  BY <1>1, NextIsAnyStep DEF allVars
<1>2. ASSUME StopAgent(Job) \/ StartAgent(Job, "fetch"), UNCHANGED podVars
      PROVE  AnyStep /\ UNCHANGED podVars
  BY <1>2, ReleaseAssumption DEF AnyStep, StepOf, Process
<1>3. CASE StartOperation \/ InjectBundle \/ AbortOperation \/ (\E h \in Hook : DeleteHook(h) \/ MakeHook(h))
  BY <1>1, <1>3 DEF StartOperation, InjectBundle, AbortOperation, DeleteHook, MakeHook
<1>4. CASE ApplyRelease \/ FailOperation \/ FailJob \/ CompleteJob
  BY <1>1, <1>4 DEF ApplyRelease, FailOperation, FailJob, CompleteJob
<1>5. CASE DeleteJob \/ JobDeadline \/ ExpireJob
  BY <1>2, <1>5 DEF DeleteJob, JobDeadline, ExpireJob
<1>6. CASE MakeJob \/ RetryJob
  BY <1>2, <1>6 DEF MakeJob, RetryJob, NewJobPod
<1> QED
  BY <1>3, <1>4, <1>5, <1>6 DEF OperationStep, HookStep, JobStep

LEMMA UntrustedIsAnyStep ==
  ASSUME NEW a \in Agent, LoginUntrusted(a)
  PROVE  AnyStep /\ UNCHANGED <<podVars, releaseVars>>
<1>1. GivesUp(a)
  BY DEF LoginUntrusted, GivesUp, CallSite
<1> QED
  BY <1>1 DEF LoginUntrusted, AnyStep, StepOf

\* A step is one of the release, a refused login, or one of the pods.
LEMMA ReleaseCases ==
  ASSUME [ReleaseNext]_relVars
  PROVE  \/ OperationStep
         \/ \E a \in Agent : LoginUntrusted(a)
         \/ [PodNext]_allVars /\ UNCHANGED releaseVars
<1>1. ASSUME UNCHANGED relVars PROVE UNCHANGED allVars /\ UNCHANGED releaseVars
  BY <1>1 DEF relVars
<1> QED
  BY <1>1 DEF ReleaseNext, OperationStep, PodNext

LEMMA ReleaseNextIsAnyStep ==
  ASSUME TypeOK, [ReleaseNext]_relVars
  PROVE  AnyStep
BY ReleaseCases, OperationIsAnyStep, UntrustedIsAnyStep, PodNextIsAnyStep

-----------------------------------------------------------------------------
(* Types and hooks.                                                        *)

\* The hook resources an operation has made exist; when it has made them all,
\* it turns to the Job, and none is deleted before it ends.
HookInv ==
  /\ made \subseteq live
  /\ op # "hooks" => made = {}
  /\ op = "waiting" => live = Hook

\* An upgrade that has begun is not one too many.
UpgradeInv ==
  op \in {"hooks", "waiting"} /\ installed => upgrades < MaxUpgrades

ReleaseVarsOK ==
  /\ op \in {"none", "hooks", "waiting", "deployed", "failed"}
  /\ made \subseteq Hook
  /\ live \subseteq Hook
  /\ bundle \in BOOLEAN
  /\ job \in {"none", "running", "complete", "failed"}
  /\ retries \in 0 .. BackoffLimit
  /\ installed \in BOOLEAN
  /\ upgrades \in 0 .. MaxUpgrades

LEMMA OperationType ==
  ASSUME ReleaseVarsOK, UpgradeInv, OperationStep
  PROVE  ReleaseVarsOK'
<1> USE ReleaseAssumption DEF ReleaseVarsOK, hookVars, Hook
<1>1. CASE StartOperation \/ InjectBundle \/ AbortOperation
  BY <1>1 DEF StartOperation, InjectBundle, AbortOperation
<1>2. ASSUME NEW h \in Hook, DeleteHook(h) \/ MakeHook(h) PROVE ReleaseVarsOK'
  BY <1>2 DEF DeleteHook, MakeHook
<1>3. CASE ApplyRelease
  <2>1. upgrades' \in 0 .. MaxUpgrades
    BY <1>3 DEF ApplyRelease, UpgradeInv
  <2> QED
    BY <1>3, <2>1 DEF ApplyRelease
<1>4. CASE FailOperation \/ FailJob \/ CompleteJob
  BY <1>4 DEF FailOperation, FailJob, CompleteJob
<1>5. CASE DeleteJob \/ JobDeadline \/ ExpireJob
  BY <1>5 DEF DeleteJob, JobDeadline, ExpireJob
<1>6. CASE MakeJob \/ RetryJob
  BY <1>6 DEF MakeJob, RetryJob, NewJobPod
<1> QED
  BY <1>1, <1>2, <1>3, <1>4, <1>5, <1>6 DEF OperationStep, HookStep, JobStep

LEMMA OperationHooks ==
  ASSUME ReleaseVarsOK, HookInv, UpgradeInv, OperationStep
  PROVE  HookInv' /\ UpgradeInv'
<1> USE DEF ReleaseVarsOK, HookInv, UpgradeInv, hookVars
<1>1. CASE StartOperation
  BY <1>1 DEF StartOperation
<1>2. CASE InjectBundle \/ AbortOperation
  BY <1>2 DEF InjectBundle, AbortOperation
<1>3. ASSUME NEW h \in Hook, DeleteHook(h) \/ MakeHook(h) PROVE HookInv' /\ UpgradeInv'
  BY <1>3 DEF DeleteHook, MakeHook, TurnOf
<1>4. CASE ApplyRelease \/ FailOperation
  BY <1>4 DEF ApplyRelease, FailOperation
<1>5. CASE FailJob \/ CompleteJob \/ DeleteJob \/ JobDeadline \/ ExpireJob \/ RetryJob
  BY <1>5 DEF FailJob, CompleteJob, DeleteJob, JobDeadline, ExpireJob, RetryJob, NewJobPod
<1>6. CASE MakeJob
  <2>1. Hook \subseteq made
    <3>1. ASSUME NEW g \in Hook \ made PROVE FALSE
      <4>1. HookWeight[g] >= JobWeight /\ HookWeight[g] < JobWeight
        BY <1>6, WeightAssumption DEF MakeJob, TurnOf
      <4>2. HookWeight[g] \in Int /\ JobWeight \in Int
        BY ReleaseAssumption DEF Hook, JobWeight
      <4> QED
        BY <4>1, <4>2
    <3> QED
      BY <3>1
  <2>2. live = Hook
    BY <2>1
  <2> QED
    BY <1>6, <2>2 DEF MakeJob, TurnOf
<1> QED
  BY <1>1, <1>2, <1>3, <1>4, <1>5, <1>6 DEF OperationStep, HookStep, JobStep

\* The inductive invariant of the release.
ReleaseInv == PodAgentInv /\ ReleaseVarsOK /\ HookInv /\ UpgradeInv

LEMMA ReleaseInvInit == ReleaseInit => ReleaseInv
<1>1. ReleaseInit => PodAgentInv
  BY PodAgentInit DEF ReleaseInit
<1>2. ReleaseInit => ReleaseVarsOK
  <2>1. 0 \in 0 .. BackoffLimit /\ 0 \in 0 .. MaxUpgrades
    BY ReleaseAssumption
  <2> QED
    BY <2>1, Zenon DEF ReleaseInit, ReleaseVarsOK
<1>3. ReleaseInit => HookInv
  BY DEF ReleaseInit, HookInv
<1>4. ReleaseInit => UpgradeInv
  BY DEF ReleaseInit, UpgradeInv
<1> QED
  BY <1>1, <1>2, <1>3, <1>4 DEF ReleaseInv

LEMMA ReleaseInvStep == ReleaseInv /\ [ReleaseNext]_relVars => ReleaseInv'
<1> SUFFICES ASSUME ReleaseInv, [ReleaseNext]_relVars PROVE ReleaseInv'
  OBVIOUS
<1> USE DEF ReleaseInv
<1>0. TypeOK /\ AnyStep
  BY ReleaseNextIsAnyStep DEF PodAgentInv, PodTypeOK
<1>1. AgentInv' /\ HandInv'
  BY <1>0, AgentInvStep, HandStep DEF PodAgentInv
<1>2. ASSUME UNCHANGED podVars PROVE PodAgentInv'
  <2>1. PodTypeOK'
    BY <1>1, <1>2 DEF PodAgentInv, PodTypeOK, AgentInv, podVars
  <2> QED
    BY <1>1, <2>1 DEF PodAgentInv
<1>3. ASSUME UNCHANGED releaseVars PROVE ReleaseVarsOK' /\ HookInv' /\ UpgradeInv'
  BY <1>3 DEF releaseVars, hookVars, ReleaseVarsOK, HookInv, UpgradeInv
<1>4. CASE OperationStep
  BY <1>0, <1>2, <1>4, OperationIsAnyStep, OperationType, OperationHooks
<1>5. CASE \E a \in Agent : LoginUntrusted(a)
  BY <1>2, <1>3, <1>5, UntrustedIsAnyStep
<1>6. CASE [PodNext]_allVars /\ UNCHANGED releaseVars
  BY <1>3, <1>6, PodAgentStep
<1> QED
  BY <1>4, <1>5, <1>6, ReleaseCases

\* Every variable of the release keeps its type: in particular the Job has
\* never more retries than backoffLimit allows.
THEOREM ReleaseTypeCorrect == ReleaseSpec => []ReleaseTypeOK
<1>1. ReleaseInv => ReleaseTypeOK
  BY DEF ReleaseInv, PodAgentInv, ReleaseVarsOK, ReleaseTypeOK
<1> QED
  BY <1>1, ReleaseInvInit, ReleaseInvStep, PTL DEF ReleaseSpec

\* While an operation waits for its Job, every hook resource exists, whatever
\* the weights below the Job's are, however many resources there are, and
\* wherever earlier operations were broken off.
THEOREM JobEquippedHolds == ReleaseSpec => []JobEquipped
<1>1. ReleaseInv => JobEquipped
  BY DEF ReleaseInv, HookInv, JobEquipped
<1> QED
  BY <1>1, ReleaseInvInit, ReleaseInvStep, PTL DEF ReleaseSpec

\* Agents in a release, the Job's among them, implement SecretCopy.
THEOREM ReleaseCopiesFaithfully == ReleaseSpec => CopiesFaithfully
<1>1. ReleaseInit => Copy!Init
  BY CopyInit DEF ReleaseInit, PodInit
<1>2. ReleaseInv /\ [ReleaseNext]_relVars => [Copy!Next]_(Copy!vars)
  BY ReleaseNextIsAnyStep, CopyStep DEF ReleaseInv, PodAgentInv, PodTypeOK
<1> QED
  BY <1>1, <1>2, ReleaseInvInit, ReleaseInvStep, PTL DEF ReleaseSpec, CopiesFaithfully, Copy!Spec

-----------------------------------------------------------------------------
(* The Job and the workloads.                                              *)

\* A Job that has completed, now or in an earlier operation, has seeded its
\* Secrets, and so has the one whose completion let the workloads be applied.
JobInv == job = "complete" \/ installed => Seeded(Job)

LEMMA JobSeeds ==
  ASSUME ReleaseInv, SeededOK(Job), JobInv, [ReleaseNext]_relVars,
         Seeded(Job) => Seeded(Job)'
  PROVE  JobInv'
<1> USE DEF JobInv
<1>1. ASSUME job' = job, installed' = installed PROVE JobInv'
  BY <1>1
<1>2. CASE StartOperation \/ InjectBundle \/ AbortOperation \/ (\E h \in Hook : DeleteHook(h) \/ MakeHook(h))
  BY <1>1, <1>2 DEF StartOperation, InjectBundle, AbortOperation, DeleteHook, MakeHook
<1>3. CASE FailOperation \/ RetryJob
  BY <1>1, <1>3 DEF FailOperation, RetryJob, NewJobPod
<1>4. CASE FailJob \/ DeleteJob \/ JobDeadline \/ ExpireJob \/ MakeJob
  BY <1>4 DEF FailJob, DeleteJob, JobDeadline, ExpireJob, MakeJob
<1>5. CASE CompleteJob
  <2>1. Seeded(Job)
    BY <1>5 DEF CompleteJob, SeededOK
  <2> QED
    BY <2>1
<1>6. CASE ApplyRelease
  BY <1>6 DEF ApplyRelease
<1>7. CASE \E a \in Agent : LoginUntrusted(a)
  BY <1>1, <1>7, UntrustedIsAnyStep DEF releaseVars
<1>8. CASE UNCHANGED releaseVars
  BY <1>1, <1>8 DEF releaseVars
<1> QED
  BY <1>2, <1>3, <1>4, <1>5, <1>6, <1>7, <1>8, ReleaseCases DEF OperationStep, HookStep, JobStep

\* The workloads are applied only over complete Secrets, however often the
\* Job failed, was stopped or left over before, next to any pods and upgrades:
\* if nobody deletes Secrets, and the Job's file does not make fetch_once skip
\* a Secret with entries, as the shipped one does (finding 1).
THEOREM SeededBeforeAppsHolds ==
  ASSUME "delete" \notin Faults, NothingSkipped(Job)
  PROVE  ReleaseSpec => []SeededBeforeApps
<1> DEFINE Inv == ReleaseInv /\ PatchInv /\ SeededOK(Job) /\ JobInv
<1>0. Job \in Agent
  BY ReleaseAssumption
<1>1. ReleaseInit => Inv
  <2>1. ReleaseInit => PatchInv /\ SeededOK(Job) /\ JobInv
    BY <1>0 DEF ReleaseInit, PodInit, Init, PatchInv, SeededOK, InSecret, JobInv
  <2> QED
    BY <2>1, ReleaseInvInit
<1>2. Inv /\ [ReleaseNext]_relVars => Inv'
  <2> SUFFICES ASSUME Inv, [ReleaseNext]_relVars PROVE Inv'
    OBVIOUS
  <2>1. AgentInv /\ AnyStep
    BY ReleaseNextIsAnyStep DEF ReleaseInv, PodAgentInv, PodTypeOK
  <2>2. ReleaseInv' /\ PatchInv' /\ SeededOK(Job)'
    BY <1>0, <2>1, ReleaseInvStep, PatchStep, SeededStep
  <2>3. Seeded(Job) => Seeded(Job)'
    BY <1>0, <2>1, SeededStable
  <2>4. JobInv'
    BY <2>3, JobSeeds
  <2> QED
    BY <2>2, <2>4
<1>3. Inv => SeededBeforeApps
  BY DEF JobInv, Seeded, SeededBeforeApps
<1> QED
  BY <1>1, <1>2, <1>3, PTL DEF ReleaseSpec
=============================================================================
