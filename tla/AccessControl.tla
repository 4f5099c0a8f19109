--------------------------- MODULE AccessControl ---------------------------
(***************************************************************************)
(* Who may call what in the cluster: the Roles the chart renders from      *)
(* vaultAgent.targets and binds to the apps' own ServiceAccounts and to    *)
(* the bootstrap Job's.  A target's `sidecar` is the set of its sidecar    *)
(* blocks, empty for the Secrets of datastores.                            *)
(***************************************************************************)
EXTENDS AgentConfig

CONSTANTS
  Targets,    \* vaultAgent.targets
  Bootstrap,  \* vaultAgent.bootstrap.serviceAccountName
  AnyName     \* a rule without resourceNames

TargetSet == {Targets[n] : n \in DOMAIN Targets}

\* `create` cannot be restricted by name.
CreateSecrets == [verb |-> "create", resource |-> "secrets", name |-> AnyName]

ReadAndRotate(t) ==
  {[verb |-> v, resource |-> "secrets", name |-> t.secretName] :
     v \in {"get", "update", "patch"}}

\* The template's ternary over the kind of the sidecar's workload.
WorkloadResource(kind) ==
  IF kind = "StatefulSet" THEN "statefulsets" ELSE "deployments"

RestartOwn(car) ==
  {[verb |-> v, resource |-> WorkloadResource(car.kind), name |-> car.workload] :
     v \in {"get", "patch"}}

\* The Role of the bootstrap ServiceAccount, and the one of a target's app.
BootstrapRules == {CreateSecrets} \cup UNION {ReadAndRotate(t) : t \in TargetSet}

AppRules(t, car) == {CreateSecrets} \cup ReadAndRotate(t) \cup RestartOwn(car)

\* What ServiceAccount sa may do: the rules of all Roles bound to it.
Rules(sa) ==
  (IF sa = Bootstrap THEN BootstrapRules ELSE {}) \cup
  UNION {UNION {AppRules(t, car) : car \in {c \in t.sidecar : c.serviceAccountName = sa}} :
           t \in TargetSet}

Allows(sa, call) ==
  \/ call \in Rules(sa)
  \/ [call EXCEPT !.name = AnyName] \in Rules(sa)

\* The Vault paths that the targets of ServiceAccount sa are filled from.
PathsOf(t) == {t.mappings[m].vaultPath : m \in DOMAIN t.mappings}

NeededPaths(sa) ==
  UNION {PathsOf(t) : t \in {x \in TargetSet :
           sa = Bootstrap \/ \E car \in x.sidecar : car.serviceAccountName = sa}}
=============================================================================
