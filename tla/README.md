# Verification of the Vault integration of the Camunda 8.9 deployment

The repository holds a vendored Go distribution (`go/`), a copy of the upstream
Helm chart (`camunda-platform-14.0.1/`) and, under `deliverables/`, its own
work: a small shell program that copies credentials from HashiCorp Vault into
Kubernetes Secrets, the script that prepares Vault for it, the Helm templates
and values that build it into a release, and an HAProxy that is the platform's
only entry point. This project is about `deliverables/`. All paths below are
relative to it.

## 1. Inventory

| Part | State | Operations | Hard because |
|---|---|---|---|
| Vault agent, `vault-sidecar/agent.sh` | shell variables (`i`, `desired`, `CHANGED`, ...) per copy; the Secrets it writes | `fetch`: login, read each field, GET/POST/PATCH each Secret, exit; `watch`: the same in a loop, then PATCH of the workload, sleep | many copies write the same Secret without a resource version; each HTTP call can fail, or take effect and lose its answer; one global loop variable |
| Mapping files, `umbrella/templates/vault-configmaps.yaml` | none (rendered once) | one file for the Job with all targets, one per sidecar | order and entry counts of targets decide what the loop does |
| App pods, `umbrella/values.yaml` | init container, sidecar, app container with its environment | start, retry of init, app start, rolling update, eviction | the environment is a snapshot of the Secret; a rolling update runs old and new pods side by side |
| Bootstrap Job, `umbrella/templates/vault-bootstrap-job.yaml` | retries, deadline | a hook before install and upgrade, `fetch` over all targets | runs next to live pods on an upgrade; stopped anywhere by its deadline |
| Hook resources, the other templates named `vault-*` | which of them exist | deleted and made again, by weight, by every install and upgrade | an operation broken off in between leaves running pods without what they need to start |
| Trusted CA, `umbrella/templates/vault-trusted-ca-configmap.yaml` | the injected bundle | emptied by every operation, filled by a cluster operator some time later | races with the Job's retries |
| Vault setup, `vault/setup-vault.sh` | Vault's mounts, policies, roles and values | enable, write policies and roles, seed missing values | checks and writes are separate calls; any failure reads as "already enabled" or "absent" |
| RBAC, `umbrella/templates/vault-rbac.yaml`; policy `vault/policy-camunda.hcl` | static | - | must allow exactly what the agents do, which is written in three other files |
| HAProxy, `umbrella/templates/haproxy.yaml` and `haproxy/haproxy-standalone.yaml` | none between requests | http-request rules, then use_backend rules | the first rule that applies decides; rules rewrite the path later rules test |
| Network policy, image build, chart metadata | static | - | - |

How they interact: somebody runs the setup script against Vault. Helm makes the
hook resources and runs the Job (an agent); the Job writes Secrets; Helm then
applies the workloads; each pod's init container (an agent) writes its Secret
again and exits, then the app container reads the Secret into its environment
and the sidecar (an agent) starts to watch. Agents never talk to each other.
They meet in Vault (which they only read), in the Secrets and in the workloads'
pod templates.

What makes it correct, by part:

* agent: what it puts into a Secret is what the mapping's fields held; it never
  writes an empty credential, never leaves half a Secret, never removes a key; a
  `fetch` that exits 0 has put everything in place; every `fetch` ends; a
  placeholder agent stays idle; after the last write to Vault the Secrets agree
  with Vault;
* pods: no running app is left on old values with nobody about to restart it; a
  rotation reaches the running apps, and then restarts stop;
* release: the Job has all it needs; workloads are applied only over complete
  Secrets; an operation that is repeated succeeds in the end;
* setup: when the script has ended well, every agent can do its work; at no
  time can an app read another's credentials; what exists is left alone;
* HAProxy: each documented prefix reaches its backend; strangers do not get
  through to the monitoring backends.

`PROJECT.json` lists every component, and the hazards line by line.

## 2. Modules

| Module | Models | Extends |
|---|---|---|
| `AgentConfig` | mapping files, their rendering from the chart's targets, value conversions | - |
| `SecretCopy` | what agents promise, without how they do it | `AgentConfig` |
| `VaultAgent` | any number of agents, Vault, the Secrets; shown to implement `SecretCopy` | `AgentConfig` |
| `PodLifecycle` | pods around the agents, workload controllers | `VaultAgent` |
| `Release` | install and upgrade: hook resources, the Job, the CA bundle | `PodLifecycle` |
| `AccessControl` | the Roles of the chart, as relations | `AgentConfig` |
| `SetupVault` | the setup script next to running agents, and what Vault and the API server let them do | `VaultAgent`, `AccessControl` |
| `HAProxy` | the three HTTP frontends, rule by rule | - |
| `VaultAgentProofs` | theorems about `VaultAgent` | `VaultAgent` |
| `SecretCopyProofs` | the refinement, proved | `VaultAgentProofs` |
| `PodLifecycleProofs` | theorems about `PodLifecycle` | `PodLifecycle`, `SecretCopyProofs` |
| `ReleaseProofs` | theorems about `Release` | `Release`, `PodLifecycleProofs` |
| `SetupVaultProofs` | theorems about `SetupVault` | `SetupVault`, `SecretCopyProofs` |
| `HAProxyProofs` | theorems about `HAProxy` | `HAProxy` |
| `MC...` | constants for TLC | the module named |

Operators called "Variation: ..." are plausible wrong forms of the definition
below them. No specification uses them; put in its place, each makes some
property fail, which shows that the property depends on the code being right.

### The agent

`VaultAgent` keeps the shell variables of each copy under their names: `i`,
`desired`, `patch`, `changed` (`CHANGED`); `cur` is the loop value that
`fetch_once` passes to `reconcile_secret`; `pc` is the place in the script. A
step is one HTTP call with the shell code around it. Since shell variables of a
function are global unless declared `local`, the model has one `i` for both
loops: `reconcile_secret` resets and counts the same `i` that `fetch_once`
counts its Secrets with.

| Action | Code |
|---|---|
| `FetchStart` | `fetch_once` up to the login; no Secrets: failure; no entries at all: success without a call |
| `Login` | `vault_login`, `resolve_namespace`, `i=0` |
| `FetchLoop` | the head of the secret loop, the skip of a Secret without entries |
| `ReadEntry`, `FieldMissing` | one turn of the entry loop: `vault_read`, the check for a value |
| `GetSecret` | GET, 404 or 200, the jq difference |
| `WriteSecret`, `WriteRefused`, `AnswerLost` | POST or PATCH: done, refused (409, 404), or done with the answer lost |
| `CallFails` | any call failing without effect |
| `Restart`, `RestartFails`, `Wake` | the `watch` loop |
| `VaultPut`, `DeleteSecret`, `StartAgent`, `StopAgent` | the surroundings |

Data are abstracted: a Secret is a function from keys to encoded values or
`Absent`; a Vault field holds a model value or JSON null; `Render` is what
`jq -r '.[$f] // empty'` in a command substitution makes of it, so null becomes
the empty text. `Commands` says with which arguments each copy is run: an app's
agent runs `fetch` as an init container and `watch` as a sidecar, the Job's only
`fetch`. Namespaces, tokens, TLS options and log lines are left out.

`SecretCopy` is the promise. An agent turns to a mapping with empty hands,
takes the values of its entries one at a time, and puts what it took into the
mapping's Secret: everything at once if the Secret does not exist, any part of
it otherwise. The refinement maps the hands to the shell variable `desired` and
the mapping to `cur`. It forbids what the code's global variables invite: values
left over from another Secret or an earlier round.

### Pods

`PodLifecycle` models Kubernetes by what the chart relies on. A pod's phase is
absent, init or up; `env` is what its app container took from the Secret. A
pod being replaced ends its agent's round unless `"kill"` is in `Faults`: a
shell that is `sleep`ing as PID 1 without a trap does not react to SIGTERM and
has 30 seconds, several times what a round takes.

### Release

| Action | Code |
|---|---|
| `StartOperation` | an install or upgrade of the release by Helm |
| `DeleteHook`, `MakeHook` | `hook-delete-policy: before-hook-creation` and `hook-weight` of the hook resources |
| `InjectBundle` | the annotation of the trusted-ca ConfigMap, answered by the cluster |
| `DeleteJob`, `MakeJob`, `RetryJob`, `FailJob`, `JobDeadline`, `CompleteJob`, `ExpireJob` | the Job: `restartPolicy`, `backoffLimit`, `activeDeadlineSeconds`, `ttlSecondsAfterFinished` |
| `ApplyRelease`, `FailOperation`, `AbortOperation` | the end of the operation: workloads applied, Job failed, broken off |
| `LoginUntrusted`, `Supplied` | agents without the bundle, without their `envFrom` ConfigMap |

### Setup and access

`SetupVault` turns the script into the list of its calls, `Script`, built from
the tables in the script, and a place `at` in it for each person who runs it.
`set -e` is `ScriptFails`; the two places where a failure is taken for an answer
are `EnableFails` and `SeedAbsent`. Rotations of seeded paths (`Rotate`) and the
agents of `VaultAgent` run next to it; an agent's step is taken only if it is
`Permitted`, and fails otherwise (`Denied`). What Vault permits follows from the
mounts, roles and policies the script has made so far; what the API server
permits from `AccessControl`, whose `Rules` are rendered from the same targets
as the mapping files. `vault policy write` and `vault write .../role/` replace
what has the same name (`WritePolicy`, `WriteRole`).

What a sidecar restarts is not rendered: `RESTART_TARGET_KIND` and
`RESTART_TARGET_NAME` are written into `umbrella/values.yaml` by hand
(lines 274, 401, 528). `RestartResource` keeps the three cases of
`agent.sh:227-231`: either spelling of each kind, and no call at all for any
other. `Rules` has two, as `vault-rbac.yaml:76` has. That the two agree is
`RestartTargetsAgree`, which no module assumes: `provisioning` checks it through
`NeverForbidden` for the one shipped row it has, and the theorem has it as its
hypothesis. `statefulset` in both places breaks it: the agent patches
statefulsets, and the Role allows deployments.

### HAProxy

A path is a sequence of pieces so that `path_beg`, a comparison of strings, can
be told from one of segments: `/modeler-ws` is `<<"/modeler", "-ws">>`.
`CutAssumption` says that paths are cut at the prefixes of the rules, so that a
comparison of pieces is one of the text; TLC evaluates it on the text.

`req.conf` tells the chart's template from the standalone manifest. The manifest
calls itself "Identical to what the umbrella chart renders"
(`haproxy-standalone.yaml:2`), and its frontends are, but for one order: on the
monitoring port it answers `/healthz` (line 140) before the place of the allow
list (lines 141-143, commented out), the template after it. `DenyRule` and
`HealthRule` follow each, and `StrangersDenied` exempts `/healthz` of the
manifest and nothing else.

`MainRouting` follows the table of `docs/HAPROXY.md`. `haproxy/README.md:27`
gives the WebSocket backend "(or `Upgrade: websocket`)", which is looser than the
rules: the header counts only under `/modeler`.

### Faults

`Faults` says what may go wrong in an instance. So one specification serves the
runs with all faults and those with fewer, and the theorems hold for every
subset.

## 3. Runs

| Run | Shows |
|---|---|
| `agents_shared` | An app's agent, with either command, and the Job's on one Secret of two keys, next to one with an empty file; stopped anywhere, calls that fail and answers that get lost: `NeverBlank`, `CreatedComplete`, `FetchSeeds`, `KeysNeverLost`, and the refinement `CopiesFaithfully`. |
| `agents_mixed` | A sidecar that watches, a Job that fetches the same Secret and an agent with a placeholder file, calls that fail, answers that get lost and Secrets deleted by hand: `PlaceholderIdle`, every `fetch` ends (`FetchTerminates`), and the Secrets that some sidecar watches settle on Vault's values (`SecretsFollowVault`). |
| `bootstrap_loops` (violation) | The shipped targets: `fetch` never ends. |
| `stateful_set` | One pod at a time: `CreatedComplete`, `NoSilentStaleness` and `RotationReachesPods` with three writes of two keys, evictions, app restarts, deleted Secrets, failing calls, and crashes of the sidecar anywhere but between the write of a Secret and the restart (`"gap"`), where it is lost. |
| `deployment` (violation) | Surge of one, three rotations and no fault: the last one may never reach the pod (`RotationReachesPods`). |
| `restart_lost` (violation) | One failed PATCH of the workload and the rotation never reaches the pod. |
| `release` | Install and upgrade hook by hook next to a running pod, broken off anywhere, with failing calls, the deadline and a late CA bundle: `SeededBeforeApps`, `JobEquipped`, `OperationsSucceed`. |
| `upgrade_race` (violation) | The upgrade's Job takes the change away from the sidecar. |
| `provisioning` | The setup script from an empty Vault, failing anywhere and run again, next to the agents and a rotation: `SetupServes`, `LeastPrivilege`, `NeverForbidden`, `SecretsFollowVault`. |
| `setup_overwrites` (violation) | Seeding replaces credentials in use. |
| `haproxy_routing` | `MainRouting` and `StrangersDenied` for every path and both configurations. |
| `haproxy_monitoring` (violation) | No documented monitoring URL reaches its backend. |

The first run of each specification also checks its type invariant.

### Bounds

* Two writers of one Secret: a race for it (POST after POST, PATCH after a newer
  PATCH) needs two. The theorems lift this bound. All mapping files of passing
  runs satisfy `NothingSkipped` (see the proofs); `bootstrap_loops` has the
  other case.
* `MaxPuts` writes to Vault: one write while two agents read gives all pairs of
  old and new values, two let an agent hold a value that was replaced, and with
  two values let one return.
* Two keys give a torn pair of fields and a difference of a part of a Secret.
* `agents_mixed` has one write to Vault, before, between or after the reads of
  sidecar and Job; what matters is who wrote last.
* `stateful_set` is one pod, the only writer of its Secret, and leaves out the
  faults `"restart"`, `"lost"` and `"gap"`, each of which loses a restart.
  `restart_lost` has the first.
* `deployment` is finding 6: with one replica it takes two more rotations while
  the rollout of the first is under way, so three; with `MaxPuts = 2`
  `RotationReachesPods` holds. With two replicas one rotation
  violates it. `NoSilentStaleness` is false for a Deployment with fewer, until
  the next round of a sidecar repairs it.
* `release`: one retry, one upgrade, one value and no rotation (a rotation
  during an upgrade is `upgrade_race`). Four of the seven hook resources: the
  two that running agents depend on, and one of lower weight than both and one
  between them. `InjectDelay = BackoffLimit = 1` is an assumption: the bundle
  arrives before the retries run out, for which the chart allows six retries
  with growing pauses.
* `provisioning`: the rows of the script's tables for the Job and for two apps,
  one a placeholder, chosen such that the loop of the Job ends (finding 1); one
  failing call, which can be any, and reruns without bound. It starts from an
  empty Vault, and of the hand-written restart targets has only that of
  orchestration.
  `setup_overwrites` has two people run the script.
* HAProxy paths of three pieces: a prefix with a suffix and a further segment,
  a prefix repeated, and everything shorter. The theorems lift this bound.

`agents_shared`, which checks no liveness, identifies states that differ by
exchanging the two Vault values; nothing in the code compares a value with a
fixed one.

`CHECK_DEADLOCK FALSE` stands only in the HAProxy runs: a behaviour is one
request, and ends with its verdict.

### Fairness

* A process that can go on does (weak fairness). In `VaultAgent` and
  `SetupVault` nothing makes a process start: `SecretsFollowVault` speaks of the
  Secrets that an agent keeps watching, and a `fetch` that has exited 0 is over.
  In `PodLifecycle` and `Release` kubelet starts an init container or a Job's pod
  again only if it failed, and a sidecar whenever it has ended. A step that is a failure counts as going on:
  fairness alone makes no call succeed.
* That calls succeed in the end is instead said in the properties that need it:
  `FaultsCease` (from some point on no call fails), `PodsCalm` (nor does a
  container end by itself or a pod get evicted) and `OperationsCalm` (nor is an
  operation broken off, or the deadline passed). What is left behind by the
  failures before that point must then be repaired, which is what the loop of
  `watch` and the retries of init containers and Job are for.
* Controllers do pending work (weak fairness). The replacement of a pod gets
  strong fairness, since its condition comes and goes with the agent's rounds.
* Whoever runs the setup script runs it until it has ended well, and whoever
  installs a release repeats an operation that has failed.
* Nothing forces a write to Vault, a deletion or a fault.

## 4. Proofs

### Agents

`VaultAgentProofs` and `SecretCopyProofs` prove, for any sets of agents,
Secrets, keys and paths, any mapping files, any faults and any number of
writes, from the assumptions named in `AgentConfig` and `VaultAgent` (mapping
files are well formed, `Render` maps values to texts, `Absent` is no encoded
value):

* `TypeCorrect`, `NeverBlankHolds`, `CreatedCompleteHolds`,
  `PlaceholderIdleHolds`: the invariants;
* `KeysNeverLostHolds`: the action property;
* `FetchSeedsHolds`: `FetchSeeds`, if nobody deletes Secrets and no mapping file
  makes the shared loop variable skip a Secret (`NothingSkipped`: after a mapping
  with m entries the loop goes on at number m + 1, and those it jumps over have
  no entries). Files of one Secret, and all files of the runs but
  `bootstrap_loops`, are such; the shipped file of the Job is not;
* `CopiesFaithfullyHolds`: `VaultAgent` implements `SecretCopy`.

None of them is inductive by itself. `AgentInv` adds two facts. `CursorInv`:
from the start of an entry loop to the write, `cur` names a mapping with
entries and `i` is inside it, and exactly at its end once all are read; without
it lookups have no type. `CollectedInv`: `desired` has a value for each entry
before `i`, and no value in `desired` or `patch` is blank; with it a POST
creates a complete Secret, and neither POST nor PATCH writes a blank. A PATCH
keeps a Secret complete because a merge patch never removes a key. Each part
has a lemma with one case per action (`TypeStep`, `CursorStep`,
`CollectedStep`, `NeverBlankStep`, `CreatedCompleteStep`); `SecretStep` and
`WriteEffect` reduce the parts about Secrets to the two writes.

`FetchSeeds` needs more. `PatchInv`: an agent about to PATCH has each of its
keys in the patch or already in the Secret, which stays so because keys are
never lost. `SeededOK`: the mappings before the one an agent is at, wherever the
loop variable has taken it, have their keys in place.

The refinement needs the converse of `CollectedInv`. `HandInv`: whatever is in
`desired` belongs to an entry of the current mapping that has been read, and a
patch about to be sent carries nothing but values of `desired`. With both, a
POST creates exactly the keys of the mapping (`HandComplete`), and `CopyStep`
maps each action: the start of a mapping to `Begin`, a read to `Take`, a POST to
`Create`, a PATCH (also one whose answer is lost) to `Update`, and everything
else to a stutter.

### From agents to what surrounds them

`PodLifecycle`, `Release` and `SetupVault` start and stop agents on conditions of
their own, refuse their calls, and change Vault and the pending rollouts. The
lemmas about agents therefore do not speak of `Next` but of `AnyStep`: a step of
an agent, the start or end of its process, a call refused (`GivesUp`), a change
that touches neither agents nor Secrets (`Elsewhere`), or the deletion of a
Secret. One lemma per specification (`NextIsAnyStep`, `PodNextIsAnyStep`,
`ReleaseNextIsAnyStep`, `SetupNextIsAnyStep`) shows that its steps are such, and
`AgentInv`, `HandInv` and the refinement of `SecretCopy` hold in each of them
(`PodCreatedCompleteHolds`, `PodCopiesFaithfully`, `ReleaseCopiesFaithfully`,
`SetupCopiesFaithfully`).

### Pods

`NoSilentStalenessHolds` is for any number of workloads, with these hypotheses:

* `SoleWriter`: nobody but the pod writes the Secret its app reads. With two
  pods of a Deployment, or the Job of an upgrade, it is false (findings 6
  and 3);
* a sidecar's file has one Secret, as the chart renders it;
* `RestartMode = "rollout"`, and none of the faults `"restart"` (finding 2),
  `"lost"` and `"gap"`, each of which loses the restart.

All other faults, rotations, deletions and evictions are allowed. The property
is not inductive: it would accept a restart promised by any sidecar of the
workload, also one that is about to be stopped. `StaleInv` asks for that of the
pod itself; it needs `PlaceInv` (an app runs only next to its own sidecar, in
`watch`) and `ChangedInv` (`CHANGED` is not 1 before the first Secret of a round
is reconciled: an agent that has written its Secret has only the end of its loop
ahead of it, and no further call whose failure would lose the restart).

### Release

`JobEquippedHolds` rests on `HookInv` (what an operation has made exists, and
while it waits for its Job all of it does) and on `WeightAssumption`, that the
Job has the greatest hook weight, which the templates say. `ReleaseTypeCorrect`
needs `UpgradeInv`: an upgrade under way is within the bound.
`SeededBeforeAppsHolds` combines `SeededOK` of the Job's agent with `JobInv`: a
Job that has completed, in whichever operation, has seeded its Secrets. Its
hypotheses are those of `FetchSeedsHolds`, for the Job alone.

### Setup

`SetupVaultProofs` is for any number of targets, table rows, operators at once,
failures and rotations, from an empty Vault and from these assumptions of
`SetupVault`, which TLC evaluates on every run of it:

* `TableAssumption`: no two rows of a table have the same name, each role's
  policy is in the table of policies, and each seed call writes some field of a
  path;
* `ChartAssumption`: each agent has the mapping file that the chart renders for
  its ServiceAccount, and the Job runs `fetch`;
* `NarrowAssumption` and `CoverAssumption`: the tables, kept in line with the
  targets by hand, give no app a path that it does not need, and cover and seed
  what the mapping files ask for.

`ScriptCalls` shows that the calls of the script are exactly the rows of its
tables. `EffectInv` is the core: every call a script has behind it has its
effect, whoever else runs it, because nothing that is set up is ever undone
(`SetupGrows`): a policy or role written again replaces the one of its name, and
as names are distinct that is the same row (`TablesGrow`). `SeedInv` says what a path can hold, `RoleInv` where roles come
from. `SetupServesHolds` and `LeastPrivilegeHolds` then follow from the
assumptions on the tables. `NeverForbiddenHolds` has `RestartTargetsAgree` as its
hypothesis: what the hand-written restart targets and the three cases of the
agent must give so that the rendered Roles suffice. The rest is proved. The
Secret an agent calls about is one of its mapping file's by `CursorInv`
(`SecretCallsAllowed`), and by `CommandInv` only an agent run with `watch`
restarts anything, so that the Job, whose Role has no rule for workloads, never
tries.

`SeedKeepsExistingUndisturbed` is the other side of finding 5: with one
operator, no failing call and no rotation, `SeedKeepsExisting` holds, by
`AbsentInv` (a path about to be written is still absent). TLC violates it as soon
as any one of the three is dropped.

### HAProxy

`HAProxyProofs` proves `TypeCorrect`, `StrangersDeniedHolds` and
`MainRoutingHolds` for both configurations and paths of any length over any
pieces, from `HAProxyAssumption` and `PieceAssumption` (no piece both begins a
segment and continues one, and `-ws` continues one). `CutAssumption`, which ties
pieces to text, is not needed in the proofs. `StrangerInv` says that a stranger's
request never gets past the deny rule, which stands first or, in the manifest,
second.
`RoutingInv` says that every rule that was passed does not apply to the request
as received, that the path is unchanged, and that a verdict is that of the first
rule that applies; from it `MainRouting` follows by comparing the first rule
that applies with the table, prefix by prefix.

### Only model-checked

The liveness properties `FetchTerminates`, `SecretsFollowVault`,
`RotationReachesPods` and `OperationsSucceed`: they rest on fairness, which the
proof system does not handle. Every invariant and every action property of the
passing runs is proved, `NeverForbidden`, `NoSilentStaleness`, `FetchSeeds` and
`SeededBeforeApps` under the hypotheses named above.

## 5. Findings

1. `agent.sh:153`: `reconcile_secret` uses the same global `i` as the loop that
   calls it. With the shipped targets (1, 1, 2, 2, 1, 1, 0, 0, 0 entries) the
   Job reconciles Secrets 0, 2, 3, 3, 3, ... until its deadline; Secret 1
   and those after 3 are never written. With other counts it skips Secrets and
   exits 0. Files with one Secret, as sidecars have, are not affected.
2. `agent.sh:253`: a failed restart is logged and forgotten.
3. `vault-bootstrap-job.yaml:19`: the Job of an upgrade patches the apps'
   Secrets without a restart; sidecars that wake up later see no difference.
4. `haproxy.yaml:143`: set-path takes off the prefix that use_backend then
   looks for.
5. `setup-vault.sh:88`: any failure of `vault kv get` counts as absent, and the
   `kv put` after it replaces credentials in use; two runs at a time do the same
   through the window between the two calls.
6. `values.yaml:511`: every init container patches the Secret too, without a
   restart. While a Deployment goes through two rollouts, the init container of
   a pod that is already to be replaced can write a third value after the app of
   the pod that stays has started. That pod's sidecar then sees no difference,
   and the app keeps the value before. With two replicas one rotation is enough:
   a pod that starts writes the new value before the sidecar of the other pod
   looks.

Because of finding 1, `release` and `provisioning` use Jobs whose mapping file
has at most one Secret with entries.

## 6. Not modelled

* The Go distribution and the upstream chart. They are third-party code that
  the code of `deliverables/` neither builds nor changes, and hold nearly all
  lines of the repository, so that the definitions here stand for a very small
  share of those. What the upstream chart does with the values is part of the
  external behaviour in `PodLifecycle`.
* The Deployment and Service around HAProxy's configuration, which have no
  behaviour of their own.
* The TCP listener for gRPC (one server, no rule), health checks, name
  resolution and the assembly of the PEM file in HAProxy.
* The egress rules of the network policy, image build and chart metadata, which
  have neither state nor order.
* What Vault answers to the empty policy that `setup-vault.sh:72` writes for a
  placeholder; the model takes the comment at line 44 at its word.
* A Vault that is not empty when the script first runs. `secret/` mounted as KV
  version 1 reads as "already enabled" (`setup-vault.sh:32`), and the script can
  then end with 0 over a mount without the paths the agents read.
* A lost answer to the PATCH of a Secret in the pod runs, and a crash of the
  sidecar between its two PATCHes: both lose the restart exactly as
  `restart_lost` does.

## 7. Plan

Done, in this order: `AgentConfig`, `VaultAgent`, `PodLifecycle`, `Release`,
`HAProxy`, `VaultAgentProofs`; then `SecretCopy` and its refinement, hooks and
trusted CA in `Release`, `AccessControl`, `SetupVault`, `SecretCopyProofs`,
`HAProxyProofs`; then `PodLifecycleProofs`, `ReleaseProofs` and
`SetupVaultProofs`. What is left:

1. The steps that liveness rests on, as far as they are safety: that the loop of
   `fetch` makes progress for files in which no mapping has fewer entries than
   its number (a variant that never increases), and that a sidecar's round
   leaves the Secret equal to what it read.
2. `NoSilentStaleness` next to the Job, for the operations that do not run it.
