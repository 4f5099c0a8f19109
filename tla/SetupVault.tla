----------------------------- MODULE SetupVault -----------------------------
(***************************************************************************)
(* setup-vault.sh, run against the Vault the agents log in to.  The script *)
(* is a fixed list of calls under `set -e`: the first that fails ends it,  *)
(* except where it takes a failure for an answer: `enable`, whose failure  *)
(* means "already enabled", and the `vault kv get` of seed, whose failure  *)
(* means "absent".  Somebody then runs it again, or two people run it at   *)
(* the same time, while credentials are rotated and agents are at work.    *)
(***************************************************************************)
EXTENDS VaultAgent, AccessControl

CONSTANTS
  Operator,     \* those who run the script
  PolicyCalls,  \* the write_policy calls: policy and the paths it covers
  RoleCalls,    \* the write_role calls: role, ServiceAccount and policy
  SeedCalls,    \* the seed calls: path and the fields it writes
  Null,         \* what a field of a path that does not exist reads as
  Fresh,        \* values a new password may have
  MaxFails,     \* bound on the number of failing calls of the script
  Account,      \* ServiceAccount of each agent
  VaultRole,    \* vaultRole in the mapping file of each agent
  RestartKind   \* RESTART_TARGET_KIND of each agent

ASSUME SetupAssumption ==
  /\ Null \in VaultVal
  /\ Fresh \subseteq VaultVal \ {Null}
  /\ \A x \in Fresh : Render[x] # Blank
  /\ MaxFails \in Nat

\* The rows of the script's three tables: no two have the same name, every
\* role's policy is written, and a seed call writes some field.
PolicyRows == {PolicyCalls[n] : n \in DOMAIN PolicyCalls}

RoleRows == {RoleCalls[n] : n \in DOMAIN RoleCalls}

SeedRows == {SeedCalls[n] : n \in DOMAIN SeedCalls}

ASSUME TableAssumption ==
  /\ PolicyCalls \in Seq([policy : STRING, paths : SUBSET Path])
  /\ RoleCalls \in Seq([role : STRING, sa : STRING, policy : STRING])
  /\ SeedCalls \in Seq([path : Path, fields : (SUBSET Field) \ {{}}])
  /\ \A c, d \in PolicyRows : c.policy = d.policy => c = d
  /\ \A r, s \in RoleRows : r.role = s.role => r = s
  /\ \A r \in RoleRows : \E c \in PolicyRows : c.policy = r.policy

\* The chart renders the mapping file of each agent: the bootstrap Job's, which
\* only fetches, from all targets, any other from the target with the sidecar
\* block of its ServiceAccount.
ASSUME ChartAssumption ==
  \A a \in Agent :
    \/ /\ Config[a] = JobFile(Targets)
       /\ Account[a] = Bootstrap
       /\ Commands[a] = {"fetch"}
    \/ \E t \in TargetSet : \E car \in t.sidecar :
         /\ Config[a] = SidecarFile(t)
         /\ Account[a] = car.serviceAccountName

(***************************************************************************)
(* The script's tables are kept in line with the chart's targets by hand.  *)
(* No policy of an app's role covers a path that the app does not need;    *)
(* what an agent maps is covered by a policy of its role, and is seeded    *)
(* with the field it asks for.                                             *)
(***************************************************************************)
ASSUME NarrowAssumption ==
  \A r \in RoleRows, c \in PolicyRows :
    r.sa # Bootstrap /\ c.policy = r.policy => c.paths \subseteq NeededPaths(r.sa)

ASSUME CoverAssumption ==
  \A a \in Agent : \A n \in 0 .. SecretsN(a) - 1 : \A m \in 0 .. EntriesN(a, n) - 1 :
    LET e == EntryAt(a, n, m) IN
    /\ \E r \in RoleRows, c \in PolicyRows :
         /\ r.sa = Account[a] /\ r.role = VaultRole[a]
         /\ c.policy = r.policy /\ e.vaultPath \in c.paths
    /\ \E c \in SeedRows : c.path = e.vaultPath
    /\ \A c \in SeedRows : c.path = e.vaultPath => e.field \in c.fields

VARIABLES
  mounts,    \* mounted in Vault: "kv" and "auth"
  authConf,  \* the auth method has been configured
  policies,  \* policies that exist
  roles,     \* roles that exist
  at,        \* number of the call each operator's script is at; 0: not running
  absent,    \* the script's `kv get` has failed and `kv put` comes next
  fails      \* number of failed calls so far

setupVars == <<mounts, authConf, policies, roles, at, absent, fails>>

svars == <<vars, setupVars>>

(***************************************************************************)
(* The script.                                                             *)
(***************************************************************************)
Calls(op, args) == [n \in DOMAIN args |-> [op |-> op, arg |-> args[n]]]

Script ==
  Calls("enable", <<"kv", "auth">>) \o Calls("config", <<"auth">>)
    \o Calls("policy", PolicyCalls) \o Calls("role", RoleCalls)
    \o Calls("seed", SeedCalls)

Done == Len(Script) + 1

At(o, op) == at[o] \in DOMAIN Script /\ Script[at[o]].op = op

Arg(o) == Script[at[o]].arg

Goes(o, n) == at' = [at EXCEPT ![o] = n]

NoContent == [f \in Field |-> Null]

Present(p) == vault[p] # NoContent

\* What `kv put` with new values for the given fields leaves at a path.
Content(fields, val) == [f \in Field |-> IF f \in fields THEN val ELSE Null]

\* Somebody runs the script, for the first time or again.
RunScript(o) ==
  /\ at[o] \notin DOMAIN Script
  /\ Goes(o, 1)
  /\ UNCHANGED <<vars, mounts, authConf, policies, roles, absent, fails>>

\* `vault secrets enable` or `vault auth enable`: it is mounted, now or already.
Enable(o) ==
  /\ At(o, "enable")
  /\ mounts' = mounts \cup {Arg(o)}
  /\ Goes(o, at[o] + 1)
  /\ UNCHANGED <<vars, authConf, policies, roles, absent, fails>>

\* It fails for whatever reason: `|| echo "   already enabled"`.
EnableFails(o) ==
  /\ At(o, "enable")
  /\ fails < MaxFails
  /\ fails' = fails + 1
  /\ Goes(o, at[o] + 1)
  /\ UNCHANGED <<vars, mounts, authConf, policies, roles, absent>>

\* `vault write auth/.../config`.
ConfigureAuth(o) ==
  /\ At(o, "config")
  /\ "auth" \in mounts
  /\ authConf' = TRUE
  /\ Goes(o, at[o] + 1)
  /\ UNCHANGED <<vars, mounts, policies, roles, absent, fails>>

\* write_policy: read access to the given paths, none for a placeholder, in
\* place of what has that name.
WritePolicy(o) ==
  /\ At(o, "policy")
  /\ policies' = {c \in policies : c.policy # Arg(o).policy} \cup {Arg(o)}
  /\ Goes(o, at[o] + 1)
  /\ UNCHANGED <<vars, mounts, authConf, roles, absent, fails>>

\* Variation: every role gets the first policy, the bootstrap Job's.
WriteRoleBroad(o) ==
  /\ At(o, "role")
  /\ "auth" \in mounts
  /\ roles' = {r \in roles : r.role # Arg(o).role}
                \cup {[Arg(o) EXCEPT !.policy = PolicyCalls[1].policy]}
  /\ Goes(o, at[o] + 1)
  /\ UNCHANGED <<vars, mounts, authConf, policies, absent, fails>>

\* write_role: the role of one ServiceAccount, with one policy, in place of
\* what has that name.
WriteRole(o) ==
  /\ At(o, "role")
  /\ "auth" \in mounts
  /\ roles' = {r \in roles : r.role # Arg(o).role} \cup {Arg(o)}
  /\ Goes(o, at[o] + 1)
  /\ UNCHANGED <<vars, mounts, authConf, policies, absent, fails>>

\* `vault kv get` in seed: the path is there and is skipped.
SeedSkip(o) ==
  /\ At(o, "seed") /\ ~absent[o]
  /\ "kv" \in mounts /\ Present(Arg(o).path)
  /\ Goes(o, at[o] + 1)
  /\ UNCHANGED <<vars, mounts, authConf, policies, roles, absent, fails>>

\* `vault kv get` fails: no such path, no such mount, or any other reason.
SeedAbsent(o) ==
  /\ At(o, "seed") /\ ~absent[o]
  /\ \/ /\ "kv" \notin mounts \/ ~Present(Arg(o).path)
        /\ UNCHANGED fails
     \/ /\ fails < MaxFails
        /\ fails' = fails + 1
  /\ absent' = [absent EXCEPT ![o] = TRUE]
  /\ UNCHANGED <<vars, mounts, authConf, policies, roles, at>>

\* `vault kv put` in seed, with random passwords.
SeedWrite(o) ==
  /\ At(o, "seed") /\ absent[o]
  /\ "kv" \in mounts
  /\ \E val \in Fresh :
       vault' = [vault EXCEPT ![Arg(o).path] = Content(Arg(o).fields, val)]
  /\ absent' = [absent EXCEPT ![o] = FALSE]
  /\ Goes(o, at[o] + 1)
  /\ UNCHANGED <<puts, secrets, rollout, agentVars, mounts, authConf, policies, roles, fails>>

\* Variation: no `set -e`.
ScriptFailsOn(o) ==
  /\ At(o, "config") \/ At(o, "policy") \/ At(o, "role") \/ (At(o, "seed") /\ absent[o])
  /\ fails < MaxFails
  /\ fails' = fails + 1
  /\ Goes(o, at[o] + 1)
  /\ absent' = [absent EXCEPT ![o] = FALSE]
  /\ UNCHANGED <<vars, mounts, authConf, policies, roles>>

\* Any other call fails, of necessity or by chance: `set -e` ends the script.
ScriptFails(o) ==
  /\ \/ /\ At(o, "config") \/ At(o, "role")
        /\ "auth" \notin mounts
        /\ UNCHANGED fails
     \/ /\ At(o, "seed") /\ absent[o]
        /\ "kv" \notin mounts
        /\ UNCHANGED fails
     \/ /\ At(o, "config") \/ At(o, "policy") \/ At(o, "role") \/ (At(o, "seed") /\ absent[o])
        /\ fails < MaxFails
        /\ fails' = fails + 1
  /\ Goes(o, 0)
  /\ absent' = [absent EXCEPT ![o] = FALSE]
  /\ UNCHANGED <<vars, mounts, authConf, policies, roles>>

ScriptStep(o) ==
  \/ Enable(o)
  \/ EnableFails(o)
  \/ ConfigureAuth(o)
  \/ WritePolicy(o)
  \/ WriteRole(o)
  \/ SeedSkip(o)
  \/ SeedAbsent(o)
  \/ SeedWrite(o)
  \/ ScriptFails(o)

\* Somebody rotates the credentials of a seeded path by `vault kv put`.
Rotate(n) ==
  LET c == SeedCalls[n] IN
  /\ "kv" \in mounts
  /\ puts < MaxPuts
  /\ \E val \in Fresh :
       /\ vault[c.path] # Content(c.fields, val)
       /\ vault' = [vault EXCEPT ![c.path] = Content(c.fields, val)]
  /\ puts' = puts + 1
  /\ UNCHANGED <<secrets, rollout, agentVars, setupVars>>

(***************************************************************************)
(* What Vault and the API server let an agent do.  A login needs a role    *)
(* bound to the agent's ServiceAccount; a read needs a policy of that role *)
(* that covers the path.                                                   *)
(***************************************************************************)
RolesOf(sa) == {r \in roles : r.sa = sa}

Readable(r) ==
  UNION {c.paths : c \in {x \in policies : x.policy = r.policy}}

MayLogin(a) ==
  /\ authConf
  /\ \E r \in RolesOf(Account[a]) : r.role = VaultRole[a]

MayRead(a) ==
  /\ "kv" \in mounts
  /\ \E r \in RolesOf(Account[a]) :
       /\ r.role = VaultRole[a]
       /\ EntryAt(a, cur[a], i[a]).vaultPath \in Readable(r)

\* Variation: the kinds are known by their lower-case names only.
RestartResourceLower(kind) ==
  CASE kind = "deployment"  -> "deployments"
    [] kind = "statefulset" -> "statefulsets"
    [] OTHER                -> "unsupported"

\* restart_module's resource for RESTART_TARGET_KIND.  Of any other kind it
\* makes no call and returns 1, as it does when the call is refused.
RestartResource(kind) ==
  CASE kind \in {"Deployment", "deployment"}   -> "deployments"
    [] kind \in {"StatefulSet", "statefulset"} -> "statefulsets"
    [] OTHER                                   -> "unsupported"

SecretCall(a, verb) == [verb |-> verb, resource |-> "secrets", name |-> CurSecret(a)]

\* The call of the API server that agent a is about to make.
ApiCall(a) ==
  CASE pc[a] = "get"     -> SecretCall(a, "get")
    [] pc[a] = "post"    -> SecretCall(a, "create")
    [] pc[a] = "patch"   -> SecretCall(a, "patch")
    [] pc[a] = "restart" -> [verb |-> "patch", name |-> Target[a],
                             resource |-> RestartResource(RestartKind[a])]

AtApi(a) ==
  \/ pc[a] \in {"get", "post", "patch"}
  \/ pc[a] = "restart" /\ RestartMode = "rollout"

Permitted(a) ==
  /\ pc[a] = "login" => MayLogin(a)
  /\ pc[a] = "read" => MayRead(a)
  /\ AtApi(a) => Allows(Account[a], ApiCall(a))

\* 403 for a login, a read or a call of the API server, or no call for want of
\* a resource.
Denied(a) ==
  /\ ~Permitted(a)
  /\ Goto(a, IF pc[a] = "restart" THEN "sleep" ELSE AfterFetch(a, FALSE, changed[a]))
  /\ UNCHANGED <<vaultVars, secrets, rollout, cmd, i, cur, desired, patch, changed>>
  /\ UNCHANGED setupVars

PermittedStep(a) == Permitted(a) /\ AgentStep(a) /\ UNCHANGED setupVars

Begin(a) == (\E c \in Commands[a] : StartAgent(a, c)) /\ UNCHANGED setupVars

SetupInit ==
  /\ Init
  /\ vault = [p \in Path |-> NoContent]
  /\ mounts = {}
  /\ authConf = FALSE
  /\ policies = {}
  /\ roles = {}
  /\ at = [o \in Operator |-> 0]
  /\ absent = [o \in Operator |-> FALSE]
  /\ fails = 0

SetupNext ==
  \/ \E o \in Operator : RunScript(o) \/ ScriptStep(o)
  \/ \E n \in DOMAIN SeedCalls : Rotate(n)
  \/ \E a \in Agent : PermittedStep(a) \/ Denied(a) \/ Begin(a)

SetupSpec == SetupInit /\ [][SetupNext]_svars

\* A script that has been started goes on, one that has failed is run again
\* until it is done, and agents that run go on, as in VaultAgent.
SetupFairness ==
  /\ \A o \in Operator : WF_svars(ScriptStep(o) \/ (at[o] # Done /\ RunScript(o)))
  /\ \A a \in Agent : WF_svars(PermittedStep(a) \/ Denied(a))

SetupFairSpec == SetupSpec /\ SetupFairness

-----------------------------------------------------------------------------
SetupTypeOK ==
  /\ TypeOK
  /\ mounts \subseteq {"kv", "auth"}
  /\ authConf \in BOOLEAN
  /\ policies \subseteq PolicyRows
  /\ roles \subseteq [role : {r.role : r \in RoleRows},
                      sa : {r.sa : r \in RoleRows},
                      policy : {c.policy : c \in PolicyRows}]
  /\ at \in [Operator -> 0 .. Done]
  /\ absent \in [Operator -> BOOLEAN]
  /\ fails \in 0 .. MaxFails

\* When the script has ended with status 0, every agent can log in, and every
\* field of every entry of its mapping file can be read and has a value: no
\* call that failed on the way, in this run of the script or an earlier one,
\* is passed over.
SetupServes ==
  \A o \in Operator, a \in Agent : at[o] = Done /\ HasMappings(a) =>
    /\ "kv" \in mounts /\ MayLogin(a)
    /\ \A n \in 0 .. SecretsN(a) - 1 : \A m \in 0 .. EntriesN(a, n) - 1 :
         LET e == EntryAt(a, n, m) IN
         /\ \E r \in RolesOf(Account[a]) :
              r.role = VaultRole[a] /\ e.vaultPath \in Readable(r)
         /\ Render[vault[e.vaultPath][e.field]] # Blank

\* "Each app role can read only its own secret paths using its own SA": at no
\* point of the script does a ServiceAccount get at a path that no mapping of
\* its target needs.
LeastPrivilege ==
  \A r \in roles : r.sa # Bootstrap => Readable(r) \subseteq NeededPaths(r.sa)

\* No agent is ever about to make a call of the API server that the chart's
\* Roles forbid, or to restart a workload of a kind it does not know: the
\* Roles and the mapping files rendered from the targets, and the restart
\* targets written by hand next to the sidecars, agree, so that no write and
\* no restart is lost to a 403.
NeverForbidden ==
  \A a \in Agent : AtApi(a) => Allows(Account[a], ApiCall(a))

(***************************************************************************)
(* What NeverForbidden rests on.  RESTART_TARGET_NAME and _KIND are        *)
(* written by hand next to each sidecar, and the workload's name and kind  *)
(* again in its target: they name the same workload, and restart_module    *)
(* and the template of the Role, which read the kind each in its own way,  *)
(* make the same resource of it.                                           *)
(***************************************************************************)
RestartTargetsAgree ==
  \A a \in Agent : "watch" \in Commands[a] =>
    \E t \in TargetSet : \E car \in t.sidecar :
      /\ Account[a] = car.serviceAccountName
      /\ Target[a] = car.workload
      /\ RestartResource(RestartKind[a]) = WorkloadResource(car.kind)

\* "only writes a key if it does not already exist": no step of the script
\* changes a path that is present.
SeedKeepsExisting ==
  [][at' # at => \A p \in Path : Present(p) => vault'[p] = vault[p]]_svars
=============================================================================
