---------------------------- MODULE AgentConfig ----------------------------
(***************************************************************************)
(* The mapping files the Vault agent is driven by, and the conversions its *)
(* pipeline applies to a value on the way from Vault to a Secret.          *)
(*                                                                         *)
(* Every copy of agent.sh reads one CONFIG_FILE: a list of Secrets, each   *)
(* with a list of entries that say which field of which Vault path goes    *)
(* under which key.  The Helm chart renders these files: the bootstrap     *)
(* Job's file lists every target, a sidecar's file exactly one.            *)
(***************************************************************************)
EXTENDS Naturals, Sequences

CONSTANTS
  Agent,     \* running copies of agent.sh
  Secret,    \* names of Kubernetes Secrets
  Key,       \* keys inside a Secret
  Path,      \* Vault KV v2 paths
  Field,     \* fields of a Vault path
  Workload,  \* Deployments and StatefulSets
  Config,    \* CONFIG_FILE of each agent
  Target,    \* RESTART_TARGET_KIND/NAME of each agent
  VaultVal,  \* what a field of a Vault path may hold (JSON null included)
  Text,      \* the text a shell variable may hold
  Blank,     \* the empty text
  Render,    \* the text the shell makes of a Vault value
  Absent     \* "no such key", as opposed to any encoded value

Entry == [vaultPath : Path, field : Field, secretKey : Key]

Mapping == [secretName : Secret, entries : Seq(Entry)]

(***************************************************************************)
(* The files the chart renders from vaultAgent.targets: the Job's has the  *)
(* Secret of every target, in their order, a sidecar's that of its target. *)
(***************************************************************************)
TargetSecret(t) == [secretName |-> t.secretName, entries |-> t.mappings]

JobFile(targets) == [n \in DOMAIN targets |-> TargetSecret(targets[n])]

SidecarFile(t) == <<TargetSecret(t)>>

ASSUME ConfigAssumption ==
  /\ Config \in [Agent -> Seq(Mapping)]
  /\ Target \in [Agent -> Workload]

(***************************************************************************)
(* `jq -r '.[$f] // empty'` inside $(...): JSON null and false become the  *)
(* empty text, and the trailing newlines of a string are dropped, so       *)
(* several Vault values may render to the same text.                       *)
(***************************************************************************)
ASSUME RenderAssumption ==
  /\ Blank \in Text
  /\ Render \in [VaultVal -> Text]

\* Variation: the value is not encoded.
Base64Omitted(t) == t

(***************************************************************************)
(* `base64 | tr -d '\n'` is a bijection; the tag only keeps encoded values *)
(* apart from plain text.                                                  *)
(***************************************************************************)
Base64(t) == [b64 |-> t]

Encoded == [b64 : Text]

ASSUME AbsentAssumption == Absent \notin Encoded

Data == [Key -> Encoded \cup {Absent}]

NoData == [k \in Key |-> Absent]

(***************************************************************************)
(* Lookups in a mapping file.  Secrets and entries are numbered from 0, as *)
(* jq numbers them.                                                        *)
(***************************************************************************)
SecretsN(a) == Len(Config[a])

SecretName(a, n) == Config[a][n + 1].secretName

EntriesN(a, n) == Len(Config[a][n + 1].entries)

EntryAt(a, n, m) == Config[a][n + 1].entries[m + 1]

HasMappings(a) == \E n \in 0 .. SecretsN(a) - 1 : EntriesN(a, n) > 0

\* The keys the entries of mapping number n put into its Secret.
MappedKeys(a, n) ==
  {EntryAt(a, n, m).secretKey : m \in 0 .. EntriesN(a, n) - 1}
=============================================================================
