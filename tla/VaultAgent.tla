----------------------------- MODULE VaultAgent -----------------------------
(***************************************************************************)
(* agent.sh: any number of copies of the Vault agent, running `fetch`      *)
(* (init containers and the bootstrap Job) or `watch` (sidecars), against  *)
(* one Vault and one Kubernetes API server.                                *)
(*                                                                         *)
(* A step is one HTTP call together with the shell code around it, so that *)
(* the steps of different agents, and changes in Vault, interleave exactly *)
(* where the real ones can.  The variable i is the shell variable `i`: it  *)
(* is global, so the entry loop of reconcile_secret and the secret loop of *)
(* fetch_once count with the same variable.                                *)
(***************************************************************************)
EXTENDS AgentConfig

CONSTANTS
  RestartMode,  \* RESTART_MODE: "rollout" or "none"
  Commands,     \* the commands each agent is started with
  Faults,       \* what may go wrong
  MaxPuts       \* bound on the number of changes others make

(***************************************************************************)
(* Where an agent can be.  "login" ... "patch" and "restart" are the calls *)
(* it is about to make.                                                    *)
(***************************************************************************)
CallSite == {"login", "read", "get", "post", "patch"}

Location == CallSite \cup
            {"off", "start", "loop", "restart", "sleep", "exited", "died"}

(***************************************************************************)
(* A call site in Faults may fail without effect; "lost" lets a POST or    *)
(* PATCH of a Secret take effect and its answer get lost; "restart" lets   *)
(* the PATCH of the workload fail; "kill" lets an agent be stopped at any  *)
(* point; "delete" lets somebody delete a Secret; "app" and "crash" are    *)
(* ends of a pod's app container and of its sidecar, the latter between    *)
(* the write of a Secret and the restart only with "gap".                  *)
(***************************************************************************)
ASSUME AgentAssumption ==
  /\ RestartMode \in {"rollout", "none"}
  /\ Commands \in [Agent -> SUBSET {"fetch", "watch"}]
  /\ Faults \subseteq CallSite \cup {"lost", "restart", "kill",
                                    "delete", "app", "crash", "gap"}
  /\ MaxPuts \in Nat

VARIABLES
  vault,    \* content of each Vault path
  puts,     \* number of writes to Vault and of deleted Secrets so far
  secrets,  \* data of each Kubernetes Secret; NoData if it does not exist
  rollout,  \* workloads whose pod template was patched, not yet acted upon
  pc,       \* where each agent is
  cmd,      \* the agent's first argument
  i,        \* the shell variable i
  cur,      \* number of the Secret being reconciled
  desired,  \* the shell variable desired
  patch,    \* the shell variable patch
  changed   \* the shell variable CHANGED

vaultVars == <<vault, puts>>
agentVars == <<pc, cmd, i, cur, desired, patch, changed>>
vars == <<vaultVars, secrets, rollout, agentVars>>

Exists(s) == secrets[s] # NoData

\* Variation: a failed fetch exits with status 0.
AfterFetchAlwaysOk(a, ok, chg) ==
  IF cmd[a] = "fetch" THEN "exited" ELSE IF ok /\ chg THEN "restart" ELSE "sleep"

(***************************************************************************)
(* The entrypoint's reaction to the end of fetch_once: `fetch` exits 0 or  *)
(* dies, `watch` restarts its workload if CHANGED=1 and sleeps otherwise.  *)
(***************************************************************************)
AfterFetch(a, ok, chg) ==
  IF cmd[a] = "fetch"
  THEN IF ok THEN "exited" ELSE "died"
  ELSE IF ok /\ chg THEN "restart" ELSE "sleep"

Goto(a, l) == pc' = [pc EXCEPT ![a] = l]

\* Variation: no check for placeholder files.
FetchStartEager(a) ==
  /\ pc[a] = "start"
  /\ changed' = [changed EXCEPT ![a] = FALSE]
  /\ Goto(a, IF SecretsN(a) = 0 THEN AfterFetch(a, FALSE, FALSE) ELSE "login")
  /\ UNCHANGED <<vaultVars, secrets, rollout, cmd, i, cur, desired, patch>>

\* fetch_once up to the login: CHANGED=0 and the checks of the mapping file.
FetchStart(a) ==
  /\ pc[a] = "start"
  /\ changed' = [changed EXCEPT ![a] = FALSE]
  /\ \/ /\ SecretsN(a) = 0
        /\ Goto(a, AfterFetch(a, FALSE, FALSE))
     \/ /\ SecretsN(a) > 0
        /\ ~HasMappings(a)
        /\ Goto(a, AfterFetch(a, TRUE, FALSE))
     \/ /\ HasMappings(a)
        /\ Goto(a, "login")
  /\ UNCHANGED <<vaultVars, secrets, rollout, cmd, i, cur, desired, patch>>

\* vault_login and resolve_namespace succeed; the secret loop starts at 0.
Login(a) ==
  /\ pc[a] = "login"
  /\ i' = [i EXCEPT ![a] = 0]
  /\ Goto(a, "loop")
  /\ UNCHANGED <<vaultVars, secrets, rollout, cmd, cur, desired, patch, changed>>

\* The secret loop: it ends at `last`; a Secret without entries is skipped
\* before reconcile_secret touches i, which then becomes `next`; for any other
\* reconcile_secret starts its entry loop with `desired='{}'; i=0`.
SecretLoop(a, last, next) ==
  /\ pc[a] = "loop"
  /\ \/ /\ i[a] >= last
        /\ Goto(a, AfterFetch(a, TRUE, changed[a]))
        /\ UNCHANGED <<i, cur, desired>>
     \/ /\ i[a] < last
        /\ EntriesN(a, i[a]) = 0
        /\ i' = [i EXCEPT ![a] = next]
        /\ UNCHANGED <<pc, cur, desired>>
     \/ /\ i[a] < last
        /\ EntriesN(a, i[a]) > 0
        /\ cur' = [cur EXCEPT ![a] = i[a]]
        /\ i' = [i EXCEPT ![a] = 0]
        /\ desired' = [desired EXCEPT ![a] = NoData]
        /\ Goto(a, "read")
  /\ UNCHANGED <<vaultVars, secrets, rollout, cmd, patch, changed>>

\* Variation: skipping does not count.
FetchLoopStuck(a) == SecretLoop(a, SecretsN(a), i[a])

\* `while [ "$i" -lt "$secrets_n" ]`, with `i=$((i+1))` at its end.
FetchLoop(a) == SecretLoop(a, SecretsN(a), i[a] + 1)

\* Variation: always the first entry's field.
FieldTextFirst(a) ==
  LET e == EntryAt(a, cur[a], 0) IN Render[vault[e.vaultPath][e.field]]

\* The text of the field that entry i of the current mapping names.
FieldText(a) ==
  LET e == EntryAt(a, cur[a], i[a]) IN Render[vault[e.vaultPath][e.field]]

\* One turn of the entry loop with a value, going on to l.
Collect(a, l) ==
  /\ desired' = [desired EXCEPT ![a] =
       [@ EXCEPT ![EntryAt(a, cur[a], i[a]).secretKey] = Base64(FieldText(a))]]
  /\ i' = [i EXCEPT ![a] = @ + 1]
  /\ Goto(a, l)
  /\ UNCHANGED <<vaultVars, secrets, rollout, cmd, cur, patch, changed>>

\* Variations: no check for an empty value; the Secret is written after the
\* first entry.
ReadEntryUnchecked(a) ==
  /\ pc[a] = "read"
  /\ Collect(a, IF i[a] + 1 < EntriesN(a, cur[a]) THEN "read" ELSE "get")
ReadEntryFirst(a) ==
  /\ pc[a] = "read"
  /\ FieldText(a) # Blank
  /\ Collect(a, "get")

\* One turn of the entry loop: vault_read, the check for a value, `i=$((i+1))`.
ReadEntry(a) ==
  /\ pc[a] = "read"
  /\ FieldText(a) # Blank
  /\ Collect(a, IF i[a] + 1 < EntriesN(a, cur[a]) THEN "read" ELSE "get")

\* "field not found": reconcile_secret and fetch_once return 1.
FieldMissing(a) ==
  /\ pc[a] = "read"
  /\ FieldText(a) = Blank
  /\ Goto(a, AfterFetch(a, FALSE, changed[a]))
  /\ UNCHANGED <<vaultVars, secrets, rollout, cmd, i, cur, desired, patch, changed>>

(***************************************************************************)
(* The jq `reduce` that keeps the entries of d that differ in the current  *)
(* data, and the merge patch the API server applies with the result.       *)
(***************************************************************************)
Diff(d, data) == [k \in Key |-> IF data[k] = d[k] THEN Absent ELSE d[k]]

Merge(data, d) == [k \in Key |-> IF d[k] = Absent THEN data[k] ELSE d[k]]

CurSecret(a) == SecretName(a, cur[a])

\* Variation: a Secret that exists is left alone.
GetSecretCreateOnly(a) ==
  /\ pc[a] = "get"
  /\ Goto(a, IF Exists(CurSecret(a)) THEN "loop" ELSE "post")
  /\ i' = [i EXCEPT ![a] = IF Exists(CurSecret(a)) THEN @ + 1 ELSE @]
  /\ UNCHANGED <<vaultVars, secrets, rollout, cmd, cur, desired, patch, changed>>

\* GET of the Secret: 404 leads to the POST, 200 to the PATCH if data differ.
GetSecret(a) ==
  /\ pc[a] = "get"
  /\ \/ /\ ~Exists(CurSecret(a))
        /\ Goto(a, "post")
        /\ UNCHANGED <<i, patch>>
     \/ /\ Exists(CurSecret(a))
        /\ Diff(desired[a], secrets[CurSecret(a)]) # NoData
        /\ patch' = [patch EXCEPT ![a] = Diff(desired[a], secrets[CurSecret(a)])]
        /\ Goto(a, "patch")
        /\ UNCHANGED i
     \/ \* Nothing differs: reconcile_secret returns 0, fetch_once adds 1 to i.
        /\ Exists(CurSecret(a))
        /\ Diff(desired[a], secrets[CurSecret(a)]) = NoData
        /\ i' = [i EXCEPT ![a] = @ + 1]
        /\ Goto(a, "loop")
        /\ UNCHANGED patch
  /\ UNCHANGED <<vaultVars, secrets, rollout, cmd, cur, desired, changed>>

(***************************************************************************)
(* What a POST or PATCH does to the Secret.  Neither carries a resource    *)
(* version: the PATCH is applied to whatever the Secret holds by then.     *)
(***************************************************************************)
Posted(a) ==
  /\ pc[a] = "post"
  /\ ~Exists(CurSecret(a))
  /\ secrets' = [secrets EXCEPT ![CurSecret(a)] = desired[a]]

\* Variations: the PATCH replaces the data; it makes a Secret that is gone.
PatchedReplace(a) ==
  /\ pc[a] = "patch"
  /\ Exists(CurSecret(a))
  /\ secrets' = [secrets EXCEPT ![CurSecret(a)] = patch[a]]
PatchedUpsert(a) ==
  /\ pc[a] = "patch"
  /\ secrets' = [secrets EXCEPT ![CurSecret(a)] = Merge(@, patch[a])]

Patched(a) ==
  /\ pc[a] = "patch"
  /\ Exists(CurSecret(a))
  /\ secrets' = [secrets EXCEPT ![CurSecret(a)] = Merge(@, patch[a])]

\* Variation: only a created Secret sets CHANGED.
WriteSecretQuietPatch(a) ==
  /\ Posted(a) \/ Patched(a)
  /\ changed' = [changed EXCEPT ![a] = @ \/ pc[a] = "post"]
  /\ i' = [i EXCEPT ![a] = @ + 1]
  /\ Goto(a, "loop")
  /\ UNCHANGED <<vaultVars, rollout, cmd, cur, desired, patch>>

\* 201 or 200: CHANGED=1, reconcile_secret returns 0, fetch_once adds 1 to i.
WriteSecret(a) ==
  /\ Posted(a) \/ Patched(a)
  /\ changed' = [changed EXCEPT ![a] = TRUE]
  /\ i' = [i EXCEPT ![a] = @ + 1]
  /\ Goto(a, "loop")
  /\ UNCHANGED <<vaultVars, rollout, cmd, cur, desired, patch>>

\* The write took effect, its answer did not arrive: k_api returns 1.
AnswerLost(a) ==
  /\ "lost" \in Faults
  /\ Posted(a) \/ Patched(a)
  /\ Goto(a, AfterFetch(a, FALSE, changed[a]))
  /\ UNCHANGED <<vaultVars, rollout, cmd, i, cur, desired, patch, changed>>

\* 409 for a POST of a Secret another agent created since the GET, 404 for
\* a PATCH of one deleted since.
WriteRefused(a) ==
  /\ \/ pc[a] = "post" /\ Exists(CurSecret(a))
     \/ pc[a] = "patch" /\ ~Exists(CurSecret(a))
  /\ Goto(a, AfterFetch(a, FALSE, changed[a]))
  /\ UNCHANGED <<vaultVars, secrets, rollout, cmd, i, cur, desired, patch, changed>>

\* A call fails without effect: transport error, refused login, bad status.
CallFails(a) ==
  /\ pc[a] \in CallSite \cap Faults
  /\ Goto(a, AfterFetch(a, FALSE, changed[a]))
  /\ UNCHANGED <<vaultVars, secrets, rollout, cmd, i, cur, desired, patch, changed>>

\* restart_module: PATCH of the workload's pod template, unless switched off.
\* Its own use of the variable `patch` is left out: reconcile_secret sets that
\* again before it sends it.
Restart(a) ==
  /\ pc[a] = "restart"
  /\ rollout' = IF RestartMode = "rollout"
                THEN rollout \cup {Target[a]} ELSE rollout
  /\ Goto(a, "sleep")
  /\ UNCHANGED <<vaultVars, secrets, cmd, i, cur, desired, patch, changed>>

\* The PATCH of the workload fails: logged, and the loop goes on.
RestartFails(a) ==
  /\ pc[a] = "restart"
  /\ "restart" \in Faults
  /\ Goto(a, "sleep")
  /\ UNCHANGED <<vaultVars, secrets, rollout, cmd, i, cur, desired, patch, changed>>

\* `sleep "$INTERVAL_SECONDS"` ends.
Wake(a) ==
  /\ pc[a] = "sleep"
  /\ Goto(a, "start")
  /\ UNCHANGED <<vaultVars, secrets, rollout, cmd, i, cur, desired, patch, changed>>

\* `vault kv put` replaces the whole content of a path.
VaultPut(p) ==
  /\ puts < MaxPuts
  /\ \E content \in [Field -> VaultVal] \ {vault[p]} :
       vault' = [vault EXCEPT ![p] = content]
  /\ puts' = puts + 1
  /\ UNCHANGED <<secrets, rollout, agentVars>>

\* Somebody deletes a Secret by hand.
DeleteSecret(s) ==
  /\ "delete" \in Faults
  /\ puts < MaxPuts
  /\ Exists(s)
  /\ secrets' = [secrets EXCEPT ![s] = NoData]
  /\ puts' = puts + 1
  /\ UNCHANGED <<vault, rollout, agentVars>>

\* The shell variables of a process that has not begun, or is gone.
NoProcess(a) ==
  /\ i' = [i EXCEPT ![a] = 0]
  /\ cur' = [cur EXCEPT ![a] = 0]
  /\ desired' = [desired EXCEPT ![a] = NoData]
  /\ patch' = [patch EXCEPT ![a] = NoData]
  /\ changed' = [changed EXCEPT ![a] = FALSE]

\* The container runtime starts the agent, as a new process, with command c.
StartAgent(a, c) ==
  /\ pc[a] \in {"off", "exited", "died"}
  /\ Goto(a, "start")
  /\ cmd' = [cmd EXCEPT ![a] = c]
  /\ NoProcess(a)
  /\ UNCHANGED <<vaultVars, secrets, rollout>>

\* It stops the agent, wherever it is.
StopAgent(a) ==
  /\ Goto(a, "off")
  /\ NoProcess(a)
  /\ UNCHANGED <<vaultVars, secrets, rollout, cmd>>

AgentStep(a) ==
  \/ FetchStart(a)
  \/ Login(a)
  \/ FetchLoop(a)
  \/ ReadEntry(a)
  \/ FieldMissing(a)
  \/ GetSecret(a)
  \/ WriteSecret(a)
  \/ AnswerLost(a)
  \/ WriteRefused(a)
  \/ CallFails(a)
  \/ Restart(a)
  \/ RestartFails(a)
  \/ Wake(a)

\* Somebody else's failure: the agent does nothing wrong, but its call fails
\* or the answer is lost.
FaultStep(a) == AnswerLost(a) \/ CallFails(a) \/ RestartFails(a)

Init ==
  /\ vault \in [Path -> [Field -> VaultVal]]
  /\ puts = 0
  /\ secrets = [s \in Secret |-> NoData]
  /\ rollout = {}
  /\ pc = [a \in Agent |-> "off"]
  /\ cmd = [a \in Agent |-> "fetch"]
  /\ i = [a \in Agent |-> 0]
  /\ cur = [a \in Agent |-> 0]
  /\ desired = [a \in Agent |-> NoData]
  /\ patch = [a \in Agent |-> NoData]
  /\ changed = [a \in Agent |-> FALSE]

Next ==
  \/ \E a \in Agent :
       \/ AgentStep(a)
       \/ \E c \in Commands[a] : StartAgent(a, c)
       \/ "kill" \in Faults /\ StopAgent(a)
  \/ \E p \in Path : VaultPut(p)
  \/ \E s \in Secret : DeleteSecret(s)

Spec == Init /\ [][Next]_vars

\* An agent that runs goes on.  Nobody has to start one: a `fetch` that has
\* exited with 0 is not begun again.
FairSpec == Spec /\ \A a \in Agent : WF_vars(AgentStep(a))

\* From some point on no call fails and no answer is lost.
FaultsCease == <>[][\A a \in Agent : ~FaultStep(a)]_vars

-----------------------------------------------------------------------------
TypeOK ==
  /\ vault \in [Path -> [Field -> VaultVal]]
  /\ puts \in 0 .. MaxPuts
  /\ secrets \in [Secret -> Data]
  /\ rollout \subseteq Workload
  /\ pc \in [Agent -> Location]
  /\ cmd \in [Agent -> {"fetch", "watch"}]
  /\ i \in [Agent -> Nat]
  /\ cur \in [Agent -> Nat]
  /\ desired \in [Agent -> Data]
  /\ patch \in [Agent -> Data]
  /\ changed \in [Agent -> BOOLEAN]

\* No Secret ever holds an empty value, whatever a Vault path holds and
\* whatever fails: the check of `val` in reconcile_secret keeps null, false
\* and empty fields from overwriting a working credential.
NeverBlank ==
  \A s \in Secret, k \in Key : secrets[s][k] # Base64(Blank)

\* A Secret that exists holds every key of a mapping that writes it: a pod
\* never finds a Secret of which only some keys have been written, since
\* reconcile_secret collects all its entries before its first write.
CreatedComplete ==
  \A s \in Secret : Exists(s) =>
    \E a \in Agent : \E n \in 0 .. SecretsN(a) - 1 :
      /\ SecretName(a, n) = s
      /\ \A k \in MappedKeys(a, n) : secrets[s][k] # Absent

(***************************************************************************)
(* Why CreatedComplete holds: between the start of a Secret's entry loop   *)
(* and the write, cur names a mapping, i never runs past its entries, and  *)
(* desired has a value for every entry before i.                           *)
(***************************************************************************)
InSecret(a) == pc[a] \in {"read", "get", "post", "patch"}

CursorOK(a) ==
  InSecret(a) =>
    /\ cur[a] < SecretsN(a)
    /\ EntriesN(a, cur[a]) > 0
    /\ IF pc[a] = "read" THEN i[a] < EntriesN(a, cur[a])
                         ELSE i[a] = EntriesN(a, cur[a])

CursorInv == \A a \in Agent : CursorOK(a)

CollectedOK(a) ==
  /\ \A k \in Key : Base64(Blank) \notin {desired[a][k], patch[a][k]}
  /\ InSecret(a) => \A m \in 0 .. i[a] - 1 :
       desired[a][EntryAt(a, cur[a], m).secretKey] # Absent

CollectedInv == \A a \in Agent : CollectedOK(a)

(***************************************************************************)
(* The refinement: what an agent has in hand is its shell variable         *)
(* `desired`, and the mapping it is at work on is number cur.              *)
(***************************************************************************)
Copy == INSTANCE SecretCopy WITH hand <- desired, from <- cur

\* The agents implement SecretCopy: whatever fails and however their steps
\* interleave, a value gets into a Secret only under the key, and only from
\* the field, of one entry of the mapping being reconciled, a Secret is made
\* with all keys of its mapping at once, and nothing is left in `desired`
\* from one Secret to the next.
CopiesFaithfully == Copy!Spec

\* Every key of every Secret in the mapping file of agent a exists.
Seeded(a) ==
  \A n \in 0 .. SecretsN(a) - 1 : \A k \in MappedKeys(a, n) :
    secrets[SecretName(a, n)][k] # Absent

\* When `fetch` has exited with status 0, every key of every Secret its
\* mapping file lists exists: what init containers and the bootstrap Job are
\* run for.
FetchSeeds == \A a \in Agent : pc[a] = "exited" => Seeded(a)

\* An agent whose mapping file has no entries never gets to a call of Vault
\* or of the API server, and its `fetch` does not fail the pod's start.
PlaceholderIdle ==
  \A a \in Agent : SecretsN(a) > 0 /\ ~HasMappings(a) =>
    pc[a] \notin CallSite \cup {"loop", "restart", "died"}

\* No step of an agent takes a key away from a Secret: the merge patch
\* carries only keys to set, and a lost race for the POST changes nothing.
KeysNeverLost ==
  [][\A s \in Secret, k \in Key :
       /\ secrets[s][k] # Absent
       /\ secrets'[s] # NoData
       => secrets'[s][k] # Absent]_vars

\* The mapping of agent a is reconciled: every key holds the current value,
\* or some field has no value and the agent keeps its hands off.
Reconciled(a) ==
  \A n \in 0 .. SecretsN(a) - 1 :
    LET Entries == {EntryAt(a, n, m) : m \in 0 .. EntriesN(a, n) - 1}
        Now(e)  == Render[vault[e.vaultPath][e.field]]
    IN  \/ \E e \in Entries : Now(e) = Blank
        \/ \A e \in Entries :
             secrets[SecretName(a, n)][e.secretKey] = Base64(Now(e))

\* Agent a runs as a sidecar.
Watching(a) == cmd[a] = "watch" /\ pc[a] # "off"

\* Once Vault is no longer written and calls no longer fail, the Secrets of
\* every agent that runs `watch` come to agree with Vault and stay so, although
\* any agent with an old read in hand, also one that runs `fetch`, may still
\* write it, and whatever failed calls and lost answers left behind.
SecretsFollowVault ==
  FaultsCease => <>[](\A a \in Agent : Watching(a) => Reconciled(a))

\* Every `fetch` ends, with status 0 or 1: "reconcile ... once, then exit".
FetchTerminates ==
  \A a \in Agent :
    pc[a] = "start" /\ cmd[a] = "fetch" ~> pc[a] \in {"exited", "died"}
=============================================================================
