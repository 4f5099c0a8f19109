-------------------------- MODULE VaultAgentProofs --------------------------
(***************************************************************************)
(* Proofs about VaultAgent, for any number of agents, any mapping files,   *)
(* any set of faults and any number of writes to Vault.                    *)
(***************************************************************************)
EXTENDS VaultAgent, TLAPS

(***************************************************************************)
(* The specifications that build on VaultAgent start and stop agents on    *)
(* conditions of their own, let calls be refused, and change Vault and the *)
(* pending rollouts.  AnyStep covers all of that: what is proved of it     *)
(* holds of agents inside pods, a release, or next to the setup script.    *)
(***************************************************************************)
Process(a) == StopAgent(a) \/ \E c \in {"fetch", "watch"} : StartAgent(a, c)

\* A call is refused: the agent goes on as after any other failure.
GivesUp(a) ==
  /\ pc[a] \in CallSite \cup {"restart"}
  /\ Goto(a, IF pc[a] = "restart" THEN "sleep" ELSE AfterFetch(a, FALSE, changed[a]))
  /\ UNCHANGED <<vaultVars, secrets, rollout, cmd, i, cur, desired, patch, changed>>

StepOf(a) == AgentStep(a) \/ Process(a) \/ GivesUp(a)

\* Neither an agent nor a Secret is touched.
Elsewhere ==
  /\ UNCHANGED <<secrets, agentVars>>
  /\ puts' \in 0 .. MaxPuts
  /\ rollout' \subseteq Workload
  /\ \/ UNCHANGED vault
     \/ \E p \in Path, content \in [Field -> VaultVal] :
          vault' = [vault EXCEPT ![p] = content]

AnyStep ==
  \/ \E a \in Agent : StepOf(a)
  \/ Elsewhere
  \/ \E s \in Secret : DeleteSecret(s)

LEMMA NextIsAnyStep ==
  ASSUME TypeOK, [Next]_vars
  PROVE  AnyStep
<1>1. ASSUME NEW p \in Path, VaultPut(p) PROVE Elsewhere
  <2>1. puts' \in 0 .. MaxPuts
    BY <1>1, AgentAssumption DEF VaultPut, TypeOK
  <2>2. \E content \in [Field -> VaultVal] : vault' = [vault EXCEPT ![p] = content]
    BY <1>1, Zenon DEF VaultPut
  <2>3. UNCHANGED <<secrets, agentVars>> /\ rollout' \subseteq Workload
    BY <1>1 DEF VaultPut, TypeOK
  <2> QED
    BY <2>1, <2>2, <2>3, Zenon DEF Elsewhere
<1>2. ASSUME UNCHANGED vars PROVE Elsewhere
  BY <1>2 DEF vars, vaultVars, Elsewhere, TypeOK
<1>3. ASSUME NEW a \in Agent, NEW c \in Commands[a], StartAgent(a, c) PROVE Process(a)
  BY <1>3, AgentAssumption DEF Process
<1> QED
  BY <1>1, <1>2, <1>3 DEF Next, AnyStep, StepOf, Process

-----------------------------------------------------------------------------
(* Lookups and conversions.                                                *)

\* A mapping number inside the list names a mapping, and an entry number
\* inside the mapping names an entry.
LEMMA LookupType ==
  ASSUME NEW a \in Agent
  PROVE  /\ SecretsN(a) \in Nat
         /\ \A n \in Nat : n < SecretsN(a) =>
              /\ SecretName(a, n) \in Secret
              /\ EntriesN(a, n) \in Nat
              /\ \A m \in Nat : m < EntriesN(a, n) =>
                   EntryAt(a, n, m) \in Entry
<1>1. Config[a] \in Seq(Mapping)
  BY ConfigAssumption
<1>2. SecretsN(a) \in Nat
  BY <1>1 DEF SecretsN
<1>3. ASSUME NEW n \in Nat, n < SecretsN(a)
      PROVE  Config[a][n + 1] \in Mapping
  BY <1>1, <1>3 DEF SecretsN
<1>4. ASSUME NEW n \in Nat, n < SecretsN(a)
      PROVE  /\ SecretName(a, n) \in Secret
             /\ Config[a][n + 1].entries \in Seq(Entry)
  BY <1>3, <1>4 DEF SecretName, Mapping
<1>5. ASSUME NEW n \in Nat, n < SecretsN(a)
      PROVE  /\ EntriesN(a, n) \in Nat
             /\ \A m \in Nat : m < EntriesN(a, n) => EntryAt(a, n, m) \in Entry
  <2> DEFINE list == Config[a][n + 1].entries
  <2>1. list \in Seq(Entry)
    BY <1>4, <1>5
  <2>2. EntriesN(a, n) = Len(list) /\ \A m : EntryAt(a, n, m) = list[m + 1]
    BY DEF EntriesN, EntryAt
  <2> HIDE DEF list
  <2> QED
    BY <2>1, <2>2
<1> QED
  BY <1>2, <1>4, <1>5

\* The differences to a Secret, and the Secret after a merge patch, are data.
LEMMA DataType ==
  /\ NoData \in Data
  /\ \A d, e \in Data : Diff(d, e) \in Data /\ Merge(d, e) \in Data
BY DEF NoData, Data, Diff, Merge

LEMMA AfterFetchType ==
  ASSUME NEW a, NEW ok, NEW chg
  PROVE  AfterFetch(a, ok, chg) \in {"exited", "died", "restart", "sleep"}
BY DEF AfterFetch

\* The value an entry gives is an encoded text, never that of the empty one.
LEMMA FieldTextType ==
  ASSUME TypeOK, CursorInv, NEW a \in Agent, pc[a] = "read"
  PROVE  /\ EntryAt(a, cur[a], i[a]) \in Entry
         /\ FieldText(a) \in Text
<1>1. EntryAt(a, cur[a], i[a]) \in Entry
  BY LookupType DEF TypeOK, CursorInv, CursorOK, InSecret
<1>2. FieldText(a) \in Text
  BY <1>1, RenderAssumption DEF TypeOK, FieldText, Entry
<1> QED
  BY <1>1, <1>2

-----------------------------------------------------------------------------
(* Type correctness.                                                       *)

LEMMA InitType == Init => TypeOK
BY DataType, AgentAssumption DEF Init, TypeOK, Location, CallSite

LEMMA TypeStep ==
  ASSUME TypeOK, CursorInv, AnyStep
  PROVE  TypeOK'
<1> USE DEF TypeOK
<1>1. ASSUME NEW a \in Agent, AgentStep(a) PROVE TypeOK'
  <2> USE DEF Location, CallSite, Goto, vaultVars
  <2>1. CASE FetchStart(a)
    <3>1. /\ AfterFetch(a, FALSE, FALSE) \in Location
          /\ AfterFetch(a, TRUE, FALSE) \in Location
      BY DEF AfterFetch
    <3>2. pc' \in [Agent -> Location]
      BY <2>1, <3>1 DEF FetchStart
    <3> QED
      BY <2>1, <3>2 DEF FetchStart
  <2>2. CASE Login(a)
    BY <2>2 DEF Login
  <2>3. CASE FetchLoop(a)
    <3>1. AfterFetch(a, TRUE, changed[a]) \in Location
      BY DEF AfterFetch
    <3>2. pc' \in [Agent -> Location]
      BY <2>3, <3>1 DEF FetchLoop, SecretLoop
    <3>3. i' \in [Agent -> Nat]
      <4>1. \/ UNCHANGED i
            \/ i' = [i EXCEPT ![a] = i[a] + 1]
            \/ i' = [i EXCEPT ![a] = 0]
        BY <2>3, Zenon DEF FetchLoop, SecretLoop
      <4>2. i[a] + 1 \in Nat
        OBVIOUS
      <4> QED
        BY <4>1, <4>2
    <3>5. cur' \in [Agent -> Nat]
      <4>1. i[a] \in Nat
        OBVIOUS
      <4> QED
        BY <2>3, <4>1 DEF FetchLoop, SecretLoop
    <3>4. desired' \in [Agent -> Data]
      BY <2>3, DataType DEF FetchLoop, SecretLoop
    <3> QED
      BY <2>3, <3>2, <3>3, <3>4, <3>5 DEF FetchLoop, SecretLoop
  <2>4. CASE ReadEntry(a)
    <3>1. pc[a] = "read"
      BY <2>4 DEF ReadEntry, Collect
    <3>2. Base64(FieldText(a)) \in Encoded
      BY <3>1, FieldTextType DEF Base64, Encoded
    <3>3. [desired[a] EXCEPT ![EntryAt(a, cur[a], i[a]).secretKey]
             = Base64(FieldText(a))] \in Data
      BY <3>1, <3>2, FieldTextType DEF Data
    <3> QED
      BY <2>4, <3>3 DEF ReadEntry, Collect
  <2>5. CASE FieldMissing(a)
    <3>1. AfterFetch(a, FALSE, changed[a]) \in Location
      BY DEF AfterFetch
    <3> QED
      BY <2>5, <3>1 DEF FieldMissing
  <2>6. CASE GetSecret(a)
    <3>1. pc[a] = "get"
      BY <2>6 DEF GetSecret
    <3>2. secrets[CurSecret(a)] \in Data
      BY <3>1, LookupType DEF CursorInv, CursorOK, InSecret, CurSecret
    <3>3. Diff(desired[a], secrets[CurSecret(a)]) \in Data
      BY <3>2, DataType
    <3> QED
      BY <2>6, <3>3 DEF GetSecret
  <2>7. ASSUME Posted(a) \/ Patched(a) PROVE secrets' \in [Secret -> Data]
    <3>1. CurSecret(a) \in Secret
      BY <2>7, LookupType DEF CursorInv, CursorOK, InSecret, CurSecret, Posted, Patched
    <3>2. Merge(secrets[CurSecret(a)], patch[a]) \in Data
      BY <3>1, DataType
    <3> QED
      BY <2>7, <3>1, <3>2 DEF Posted, Patched
  <2>8. CASE WriteSecret(a)
    BY <2>8, <2>7 DEF WriteSecret
  <2>9. CASE AnswerLost(a)
    BY <2>9, <2>7, AfterFetchType DEF AnswerLost
  <2>10. CASE WriteRefused(a)
    <3>1. AfterFetch(a, FALSE, changed[a]) \in Location
      BY DEF AfterFetch
    <3> QED
      BY <2>10, <3>1 DEF WriteRefused
  <2>11. CASE CallFails(a)
    <3>1. AfterFetch(a, FALSE, changed[a]) \in Location
      BY DEF AfterFetch
    <3> QED
      BY <2>11, <3>1 DEF CallFails
  <2>12. CASE Restart(a)
    BY <2>12, ConfigAssumption DEF Restart
  <2>13. CASE RestartFails(a)
    BY <2>13 DEF RestartFails
  <2>14. CASE Wake(a)
    BY <2>14 DEF Wake
  <2> QED
    BY <1>1, <2>1, <2>2, <2>3, <2>4, <2>5, <2>6, <2>8, <2>9, <2>10, <2>11,
       <2>12, <2>13, <2>14 DEF AgentStep
<1>2. ASSUME NEW a \in Agent, NEW c \in {"fetch", "watch"}, StartAgent(a, c) PROVE TypeOK'
  BY <1>2, DataType DEF StartAgent, NoProcess, Goto, Location, vaultVars
<1>3. ASSUME NEW a \in Agent, StopAgent(a) PROVE TypeOK'
  BY <1>3, DataType DEF StopAgent, NoProcess, Goto, Location, vaultVars
<1>4. ASSUME NEW a \in Agent, GivesUp(a) PROVE TypeOK'
  <2>1. AfterFetch(a, FALSE, changed[a]) \in Location
    BY DEF AfterFetch, Location
  <2> QED
    BY <1>4, <2>1 DEF GivesUp, Goto, Location, vaultVars
<1>5. ASSUME NEW s \in Secret, DeleteSecret(s) PROVE TypeOK'
  BY <1>5, DataType, AgentAssumption DEF DeleteSecret, agentVars
<1>6. CASE Elsewhere
  BY <1>6 DEF Elsewhere, agentVars
<1> QED
  BY <1>1, <1>2, <1>3, <1>4, <1>5, <1>6 DEF AnyStep, StepOf, Process

-----------------------------------------------------------------------------
(* The position of an agent inside its mapping file.                       *)

\* A step of one agent leaves the variables of the others alone.
LEMMA Frame ==
  ASSUME TypeOK, NEW a \in Agent, NEW b \in Agent, a # b, StepOf(a)
  PROVE  /\ pc'[b] = pc[b] /\ cmd'[b] = cmd[b] /\ i'[b] = i[b] /\ cur'[b] = cur[b]
         /\ desired'[b] = desired[b] /\ patch'[b] = patch[b] /\ changed'[b] = changed[b]
<1> USE DEF TypeOK, Goto
<1>1. CASE AgentStep(a)
  <2>1. CASE FetchStart(a) \/ Login(a) \/ FetchLoop(a)
    BY <2>1 DEF FetchStart, Login, FetchLoop, SecretLoop
  <2>2. CASE ReadEntry(a) \/ FieldMissing(a) \/ GetSecret(a)
    BY <2>2 DEF ReadEntry, Collect, FieldMissing, GetSecret
  <2>3. CASE WriteSecret(a) \/ AnswerLost(a) \/ WriteRefused(a) \/ CallFails(a)
    BY <2>3 DEF WriteSecret, AnswerLost, WriteRefused, CallFails
  <2>4. CASE Restart(a) \/ RestartFails(a) \/ Wake(a)
    BY <2>4 DEF Restart, RestartFails, Wake
  <2> QED
    BY <1>1, <2>1, <2>2, <2>3, <2>4 DEF AgentStep
<1>2. CASE Process(a)
  BY <1>2 DEF Process, StartAgent, StopAgent, NoProcess
<1>3. CASE GivesUp(a)
  BY <1>3 DEF GivesUp
<1> QED
  BY <1>1, <1>2, <1>3 DEF StepOf

\* Agents keep the command they were started with.
LEMMA CommandKept ==
  ASSUME NEW a \in Agent, AgentStep(a)
  PROVE  cmd' = cmd
<1>1. CASE FetchStart(a) \/ Login(a) \/ FetchLoop(a)
  BY <1>1 DEF FetchStart, Login, FetchLoop, SecretLoop
<1>2. CASE ReadEntry(a) \/ FieldMissing(a) \/ GetSecret(a)
  BY <1>2 DEF ReadEntry, Collect, FieldMissing, GetSecret
<1>3. CASE WriteSecret(a) \/ AnswerLost(a) \/ WriteRefused(a) \/ CallFails(a)
  BY <1>3 DEF WriteSecret, AnswerLost, WriteRefused, CallFails
<1>4. CASE Restart(a) \/ RestartFails(a) \/ Wake(a)
  BY <1>4 DEF Restart, RestartFails, Wake
<1> QED
  BY <1>1, <1>2, <1>3, <1>4 DEF AgentStep

\* An agent whose call is refused dies or sleeps.
LEMMA GivesUpTo ==
  ASSUME TypeOK, NEW a \in Agent, GivesUp(a)
  PROVE  /\ pc'[a] \in {"died", "sleep"}
         /\ UNCHANGED <<secrets, cmd, i, cur, desired, patch, changed>>
BY DEF TypeOK, GivesUp, Goto, AfterFetch

\* What an agent is in for when it is not inside a Secret's entry loop.
LEMMA OutsideSecret ==
  ASSUME NEW b \in Agent,
         pc'[b] \in {"off", "start", "login", "loop", "restart", "sleep", "exited", "died"}
  PROVE  ~InSecret(b)'
BY DEF InSecret

LEMMA CursorStep ==
  ASSUME TypeOK, CursorInv, AnyStep
  PROVE  CursorInv'
<1> SUFFICES ASSUME NEW b \in Agent PROVE CursorOK(b)'
  BY DEF CursorInv
<1>0. CursorOK(b)
  BY DEF CursorInv
<1>1. CASE UNCHANGED <<pc, i, cur>>
  BY <1>0, <1>1 DEF CursorOK, InSecret
<1>2. ASSUME NEW a \in Agent, a # b, StepOf(a)
      PROVE  CursorOK(b)'
  BY <1>0, <1>2, Frame DEF CursorOK, InSecret
<1>3. ASSUME AgentStep(b) PROVE CursorOK(b)'
  <2> USE DEF TypeOK, Goto, CursorOK
  <2>1. CASE FetchStart(b)
    <3>1. pc'[b] \in {"exited", "died", "restart", "sleep", "login"}
      BY <2>1 DEF FetchStart, AfterFetch
    <3> QED
      BY <3>1, OutsideSecret
  <2>2. CASE Login(b)
    BY <2>2, OutsideSecret DEF Login
  <2>3. CASE FetchLoop(b)
    <3>1. CASE pc'[b] # "read"
      <4>1. pc'[b] \in {"exited", "died", "restart", "sleep", "loop"}
        BY <2>3, <3>1 DEF FetchLoop, SecretLoop, AfterFetch
      <4> QED
        BY <4>1, OutsideSecret
    <3>2. CASE pc'[b] = "read"
      <4>1. /\ i[b] < SecretsN(b)
            /\ EntriesN(b, i[b]) > 0
            /\ cur'[b] = i[b]
            /\ i'[b] = 0
        BY <2>3, <3>2 DEF FetchLoop, SecretLoop, AfterFetch
      <4> QED
        BY <3>2, <4>1 DEF InSecret
    <3> QED
      BY <3>1, <3>2
  <2>4. CASE ReadEntry(b)
    <3>1. /\ pc[b] = "read"
          /\ i'[b] = i[b] + 1
          /\ cur'[b] = cur[b]
          /\ pc'[b] = IF i[b] + 1 < EntriesN(b, cur[b]) THEN "read" ELSE "get"
      BY <2>4 DEF ReadEntry, Collect
    <3>2. /\ cur[b] \in Nat /\ i[b] \in Nat
          /\ cur[b] < SecretsN(b)
          /\ EntriesN(b, cur[b]) > 0
          /\ i[b] < EntriesN(b, cur[b])
      BY <1>0, <3>1 DEF InSecret
    <3>3. EntriesN(b, cur[b]) \in Nat
      BY <3>2, LookupType
    <3> QED
      BY <3>1, <3>2, <3>3 DEF InSecret
  <2>5. CASE GetSecret(b)
    <3>1. CASE pc'[b] = "loop"
      BY <3>1, OutsideSecret
    <3>2. CASE pc'[b] # "loop"
      BY <1>0, <2>5, <3>2 DEF GetSecret, InSecret
    <3> QED
      BY <3>1, <3>2
  <2>6. CASE WriteSecret(b)
    BY <2>6, OutsideSecret DEF WriteSecret
  <2>7. CASE FieldMissing(b) \/ AnswerLost(b) \/ WriteRefused(b) \/ CallFails(b)
    <3>1. pc'[b] = AfterFetch(b, FALSE, changed[b])
      BY <2>7 DEF FieldMissing, AnswerLost, WriteRefused, CallFails
    <3>2. pc'[b] \in {"exited", "died", "restart", "sleep"}
      BY <3>1, AfterFetchType
    <3> QED
      BY <3>2, OutsideSecret
  <2>8. CASE Restart(b) \/ RestartFails(b) \/ Wake(b)
    <3>1. pc'[b] \in {"sleep", "start"}
      BY <2>8 DEF Restart, RestartFails, Wake
    <3> QED
      BY <3>1, OutsideSecret
  <2> QED
    BY <1>3, <2>1, <2>2, <2>3, <2>4, <2>5, <2>6, <2>7, <2>8 DEF AgentStep
<1>4. ASSUME Process(b)
      PROVE  CursorOK(b)'
  <2>1. pc'[b] \in {"start", "off"}
    BY <1>4 DEF Process, StartAgent, StopAgent, NoProcess, Goto, TypeOK
  <2> QED
    BY <2>1, OutsideSecret DEF CursorOK
<1>6. ASSUME GivesUp(b) PROVE CursorOK(b)'
  BY <1>6, GivesUpTo, OutsideSecret DEF CursorOK
<1>5. ASSUME Elsewhere \/ \E s \in Secret : DeleteSecret(s)
      PROVE  UNCHANGED <<pc, i, cur>>
  BY <1>5 DEF Elsewhere, DeleteSecret, agentVars
<1> QED
  BY <1>1, <1>2, <1>3, <1>4, <1>5, <1>6 DEF AnyStep, StepOf

-----------------------------------------------------------------------------
(* What an agent has collected, and what it writes.                        *)

\* The empty text is never among the differences or in a merge of two data
\* without it, and a merge loses no key.
LEMMA DiffMerge ==
  ASSUME NEW d \in Data, NEW e \in Data,
         \A k \in Key : d[k] # Base64(Blank)
  PROVE  /\ \A k \in Key : Diff(d, e)[k] # Base64(Blank)
         /\ (\A k \in Key : e[k] # Base64(Blank)) =>
              \A k \in Key : Merge(e, d)[k] # Base64(Blank)
         /\ \A k \in Key : e[k] # Absent => Merge(e, d)[k] # Absent
         /\ \A k \in Key : d[k] # Absent => Merge(e, d)[k] # Absent
<1>1. Base64(Blank) # Absent
  BY RenderAssumption, AbsentAssumption DEF Base64, Encoded
<1> QED
  BY <1>1 DEF Diff, Merge, Data

LEMMA NoDataFacts ==
  /\ \A k \in Key : NoData[k] = Absent
  /\ \A k \in Key : NoData[k] # Base64(Blank)
<1>1. Base64(Blank) # Absent
  BY RenderAssumption, AbsentAssumption DEF Base64, Encoded
<1> QED
  BY <1>1 DEF NoData

LEMMA CollectedStep ==
  ASSUME TypeOK, CursorInv, CollectedInv, AnyStep
  PROVE  CollectedInv'
<1> SUFFICES ASSUME NEW b \in Agent PROVE CollectedOK(b)'
  BY DEF CollectedInv
<1>0. CollectedOK(b) /\ CursorOK(b)
  BY DEF CollectedInv, CursorInv
<1>1. CASE UNCHANGED <<pc, i, cur, desired, patch>>
  BY <1>0, <1>1 DEF CollectedOK, InSecret
<1>2. ASSUME NEW a \in Agent, a # b, StepOf(a)
      PROVE  CollectedOK(b)'
  BY <1>0, <1>2, Frame DEF CollectedOK, InSecret
<1>3. ASSUME UNCHANGED <<desired, patch>>, ~InSecret(b)'
      PROVE  CollectedOK(b)'
  BY <1>0, <1>3 DEF CollectedOK
<1>4. ASSUME AgentStep(b) PROVE CollectedOK(b)'
  <2> USE DEF TypeOK, Goto
  <2>1. CASE FetchStart(b)
    <3>1. pc'[b] \in {"exited", "died", "restart", "sleep", "login"}
      BY <2>1 DEF FetchStart, AfterFetch
    <3> QED
      BY <1>3, <2>1, <3>1, OutsideSecret DEF FetchStart
  <2>2. CASE Login(b)
    BY <1>3, <2>2, OutsideSecret DEF Login
  <2>3. CASE FetchLoop(b)
    <3>1. CASE UNCHANGED desired
      <4>1. pc'[b] # "read" => pc'[b] \in {"exited", "died", "restart", "sleep", "loop"}
        BY <2>3 DEF FetchLoop, SecretLoop, AfterFetch
      <4>2. pc'[b] = "read" => i'[b] = 0
        BY <2>3 DEF FetchLoop, SecretLoop, AfterFetch
      <4>3. patch' = patch
        BY <2>3 DEF FetchLoop, SecretLoop
      <4> QED
        BY <1>0, <3>1, <4>1, <4>2, <4>3, OutsideSecret DEF CollectedOK
    <3>2. CASE desired' = [desired EXCEPT ![b] = NoData] /\ i'[b] = 0
      <4>1. patch' = patch /\ desired'[b] = NoData
        BY <2>3, <3>2 DEF FetchLoop, SecretLoop
      <4> QED
        BY <1>0, <3>2, <4>1, NoDataFacts DEF CollectedOK
    <3> QED
      BY <2>3, <3>1, <3>2 DEF FetchLoop, SecretLoop
  <2>4. CASE ReadEntry(b)
    <3> DEFINE e == EntryAt(b, cur[b], i[b])
    <3>1. /\ pc[b] = "read" /\ FieldText(b) # Blank /\ i'[b] = i[b] + 1
          /\ cur' = cur /\ patch' = patch
          /\ desired'[b] = [desired[b] EXCEPT ![e.secretKey] = Base64(FieldText(b))]
      BY <2>4 DEF ReadEntry, Collect
    <3>2. e \in Entry /\ FieldText(b) \in Text
      BY <3>1, FieldTextType
    <3>3. e.secretKey \in Key /\ desired[b] \in Data /\ i[b] \in Nat
      BY <3>2 DEF Entry
    <3>4. Base64(FieldText(b)) \notin {Absent, Base64(Blank)}
      BY <3>1, <3>2, AbsentAssumption DEF Base64, Encoded
    <3>5. \A k \in Key : desired'[b][k] =
            IF k = e.secretKey THEN Base64(FieldText(b)) ELSE desired[b][k]
      BY <3>1, <3>3 DEF Data
    <3>6. \A k \in Key : Base64(Blank) \notin {desired'[b][k], patch'[b][k]}
      BY <1>0, <3>1, <3>4, <3>5 DEF CollectedOK
    <3>7. ASSUME NEW m \in 0 .. i'[b] - 1
          PROVE  desired'[b][EntryAt(b, cur'[b], m).secretKey] # Absent
      <4>1. m \in Nat /\ m <= i[b]
        BY <3>1, <3>3
      <4>2. cur[b] \in Nat /\ cur[b] < SecretsN(b) /\ i[b] < EntriesN(b, cur[b])
        BY <1>0, <3>1 DEF CursorOK, InSecret
      <4>3. EntryAt(b, cur[b], m) \in Entry
        BY <3>3, <4>1, <4>2, LookupType
      <4>4. EntryAt(b, cur[b], m).secretKey \in Key
        BY <4>3 DEF Entry
      <4>5. CASE m = i[b]
        BY <3>1, <3>4, <3>5, <4>4, <4>5
      <4>6. CASE m # i[b]
        <5>1. m \in 0 .. i[b] - 1
          BY <3>3, <4>1, <4>6
        <5>2. desired[b][EntryAt(b, cur[b], m).secretKey] # Absent
          BY <1>0, <3>1, <5>1 DEF CollectedOK, InSecret
        <5> QED
          BY <3>1, <3>4, <3>5, <4>4, <5>2
      <4> QED
        BY <4>5, <4>6
    <3> QED
      BY <3>6, <3>7 DEF CollectedOK
  <2>5. CASE GetSecret(b)
    <3>0. pc[b] = "get" /\ UNCHANGED <<cur, desired>>
      BY <2>5 DEF GetSecret
    <3>1. secrets[CurSecret(b)] \in Data
      BY <1>0, <3>0, LookupType DEF CursorOK, InSecret, CurSecret
    <3>2. \A k \in Key : Diff(desired[b], secrets[CurSecret(b)])[k] # Base64(Blank)
      BY <1>0, <3>1, DiffMerge DEF CollectedOK
    <3>3. patch'[b] \in {patch[b], Diff(desired[b], secrets[CurSecret(b)])}
      BY <2>5 DEF GetSecret
    <3>4. \A k \in Key : Base64(Blank) \notin {desired'[b][k], patch'[b][k]}
      BY <1>0, <3>0, <3>2, <3>3 DEF CollectedOK
    <3>5. pc'[b] = "loop" \/ (i'[b] = i[b] /\ cur'[b] = cur[b])
      BY <2>5 DEF GetSecret
    <3> QED
      BY <1>0, <3>0, <3>4, <3>5, OutsideSecret DEF CollectedOK, InSecret
  <2>6. CASE WriteSecret(b)
    BY <1>3, <2>6, OutsideSecret DEF WriteSecret
  <2>7. CASE FieldMissing(b) \/ AnswerLost(b) \/ WriteRefused(b) \/ CallFails(b)
    <3>1. pc'[b] = AfterFetch(b, FALSE, changed[b]) /\ UNCHANGED <<desired, patch>>
      BY <2>7 DEF FieldMissing, AnswerLost, WriteRefused, CallFails
    <3>2. pc'[b] \in {"exited", "died", "restart", "sleep"}
      BY <3>1, AfterFetchType
    <3> QED
      BY <1>3, <3>1, <3>2, OutsideSecret
  <2>8. CASE Restart(b) \/ RestartFails(b) \/ Wake(b)
    <3>1. pc'[b] \in {"sleep", "start"} /\ UNCHANGED <<desired, patch>>
      BY <2>8 DEF Restart, RestartFails, Wake
    <3> QED
      BY <1>3, <3>1, OutsideSecret
  <2> QED
    BY <1>4, <2>1, <2>2, <2>3, <2>4, <2>5, <2>6, <2>7, <2>8 DEF AgentStep
<1>5. ASSUME NEW c \in {"fetch", "watch"}, StartAgent(b, c) PROVE CollectedOK(b)'
  <2>1. pc'[b] = "start" /\ desired'[b] = NoData /\ patch'[b] = NoData
    BY <1>5 DEF StartAgent, NoProcess, Goto, TypeOK
  <2> QED
    BY <2>1, NoDataFacts, OutsideSecret DEF CollectedOK
<1>6. ASSUME StopAgent(b) PROVE CollectedOK(b)'
  <2>1. pc'[b] = "off" /\ desired'[b] = NoData /\ patch'[b] = NoData
    BY <1>6 DEF StopAgent, NoProcess, Goto, TypeOK
  <2> QED
    BY <2>1, NoDataFacts, OutsideSecret DEF CollectedOK
<1>8. ASSUME GivesUp(b) PROVE CollectedOK(b)'
  BY <1>3, <1>8, GivesUpTo, OutsideSecret
<1>7. ASSUME Elsewhere \/ \E s \in Secret : DeleteSecret(s)
      PROVE  UNCHANGED <<pc, i, cur, desired, patch>>
  BY <1>7 DEF Elsewhere, DeleteSecret, agentVars
<1> QED
  BY <1>1, <1>2, <1>4, <1>5, <1>6, <1>7, <1>8 DEF AnyStep, StepOf, Process

-----------------------------------------------------------------------------
(* The Secrets.                                                            *)

\* Secrets change by a POST or PATCH of an agent, or by being deleted.
LEMMA SecretStep ==
  ASSUME AnyStep
  PROVE  \/ secrets' = secrets
         \/ \E a \in Agent : Posted(a) \/ Patched(a)
         \/ \E s \in Secret : DeleteSecret(s)
<1>1. ASSUME NEW a \in Agent, AgentStep(a)
      PROVE  secrets' = secrets \/ Posted(a) \/ Patched(a)
  <2>1. CASE FetchStart(a) \/ Login(a) \/ FetchLoop(a)
    BY <2>1 DEF FetchStart, Login, FetchLoop, SecretLoop
  <2>2. CASE ReadEntry(a) \/ FieldMissing(a) \/ GetSecret(a)
    BY <2>2 DEF ReadEntry, Collect, FieldMissing, GetSecret
  <2>3. CASE WriteSecret(a) \/ AnswerLost(a) \/ WriteRefused(a) \/ CallFails(a)
    BY <2>3 DEF WriteSecret, AnswerLost, WriteRefused, CallFails
  <2>4. CASE Restart(a) \/ RestartFails(a) \/ Wake(a)
    BY <2>4 DEF Restart, RestartFails, Wake
  <2> QED
    BY <1>1, <2>1, <2>2, <2>3, <2>4 DEF AgentStep
<1>2. ASSUME NEW a \in Agent, Process(a) \/ GivesUp(a)
      PROVE  secrets' = secrets
  BY <1>2 DEF Process, StartAgent, StopAgent, NoProcess, GivesUp
<1>3. ASSUME Elsewhere PROVE secrets' = secrets
  BY <1>3 DEF Elsewhere
<1> QED
  BY <1>1, <1>2, <1>3 DEF AnyStep, StepOf

\* A POST writes what the agent has collected to a Secret that was not there;
\* a PATCH merges into one that was.
LEMMA WriteEffect ==
  ASSUME TypeOK, CursorInv, NEW a \in Agent, Posted(a) \/ Patched(a)
  PROVE  /\ CurSecret(a) \in Secret
         /\ \A s \in Secret : s # CurSecret(a) => secrets'[s] = secrets[s]
         /\ Posted(a) => /\ secrets[CurSecret(a)] = NoData
                         /\ secrets'[CurSecret(a)] = desired[a]
         /\ Patched(a) => secrets'[CurSecret(a)] = Merge(secrets[CurSecret(a)], patch[a])
<1>1. CurSecret(a) \in Secret
  BY LookupType DEF TypeOK, CursorInv, CursorOK, InSecret, CurSecret, Posted, Patched
<1> QED
  BY <1>1 DEF TypeOK, Posted, Patched, Exists

LEMMA NeverBlankStep ==
  ASSUME TypeOK, CursorInv, CollectedInv, NeverBlank, AnyStep
  PROVE  NeverBlank'
<1>1. CASE secrets' = secrets
  BY <1>1 DEF NeverBlank
<1>2. ASSUME NEW a \in Agent, Posted(a) \/ Patched(a) PROVE NeverBlank'
  <2>1. CurSecret(a) \in Secret /\ secrets[CurSecret(a)] \in Data
        /\ patch[a] \in Data
    BY <1>2, WriteEffect DEF TypeOK
  <2>2. \A k \in Key : Base64(Blank) \notin {desired[a][k], patch[a][k]}
    BY DEF CollectedInv, CollectedOK
  <2>3. \A k \in Key : Merge(secrets[CurSecret(a)], patch[a])[k] # Base64(Blank)
    BY <2>1, <2>2, DiffMerge DEF NeverBlank
  <2>4. \A k \in Key : secrets'[CurSecret(a)][k] # Base64(Blank)
    BY <1>2, <2>2, <2>3, WriteEffect
  <2> QED
    BY <1>2, <2>4, WriteEffect DEF NeverBlank
<1>3. ASSUME NEW s \in Secret, DeleteSecret(s) PROVE NeverBlank'
  BY <1>3, NoDataFacts DEF DeleteSecret, NeverBlank, TypeOK
<1> QED
  BY <1>1, <1>2, <1>3, SecretStep

LEMMA CreatedCompleteStep ==
  ASSUME TypeOK, CursorInv, CollectedInv, CreatedComplete, AnyStep
  PROVE  CreatedComplete'
<1>1. CASE secrets' = secrets
  BY <1>1 DEF CreatedComplete, Exists
<1>2. ASSUME NEW a \in Agent, Posted(a) PROVE CreatedComplete'
  <2>1. /\ pc[a] = "post" /\ cur[a] \in Nat /\ i[a] \in Nat
        /\ cur[a] < SecretsN(a) /\ i[a] = EntriesN(a, cur[a])
    BY <1>2 DEF Posted, TypeOK, CursorInv, CursorOK, InSecret
  <2>2. \A m \in 0 .. EntriesN(a, cur[a]) - 1 :
          desired[a][EntryAt(a, cur[a], m).secretKey] # Absent
    BY <2>1 DEF CollectedInv, CollectedOK, InSecret
  <2>3. \A k \in MappedKeys(a, cur[a]) : secrets'[CurSecret(a)][k] # Absent
    BY <1>2, <2>2, WriteEffect DEF MappedKeys
  <2>4. cur[a] \in 0 .. SecretsN(a) - 1
    BY <2>1, LookupType
  <2>5. ASSUME NEW s \in Secret, Exists(s)'
        PROVE  \E b \in Agent : \E n \in 0 .. SecretsN(b) - 1 :
                 /\ SecretName(b, n) = s
                 /\ \A k \in MappedKeys(b, n) : secrets'[s][k] # Absent
    <3>1. CASE s = CurSecret(a)
      BY <2>3, <2>4, <3>1 DEF CurSecret
    <3>2. CASE s # CurSecret(a)
      <4>1. secrets'[s] = secrets[s] /\ Exists(s)
        BY <1>2, <2>5, <3>2, WriteEffect DEF Exists
      <4> QED
        BY <4>1 DEF CreatedComplete
    <3> QED
      BY <3>1, <3>2
  <2> QED
    BY <2>5 DEF CreatedComplete
<1>3. ASSUME NEW a \in Agent, Patched(a) PROVE CreatedComplete'
  <2>1. /\ CurSecret(a) \in Secret
        /\ \A s \in Secret : s # CurSecret(a) => secrets'[s] = secrets[s]
        /\ secrets'[CurSecret(a)] = Merge(secrets[CurSecret(a)], patch[a])
    BY <1>3, WriteEffect
  <2>2. Exists(CurSecret(a))
    BY <1>3 DEF Patched
  <2>3. ASSUME NEW k \in Key, secrets[CurSecret(a)][k] # Absent
        PROVE  secrets'[CurSecret(a)][k] # Absent
    BY <2>1, <2>3, DiffMerge DEF TypeOK, CollectedInv, CollectedOK
  <2>4. \A s \in Secret, k \in Key : secrets[s][k] # Absent => secrets'[s][k] # Absent
    BY <2>1, <2>3
  <2>5. \A s \in Secret : Exists(s)' => Exists(s)
    BY <2>1, <2>2 DEF Exists
  <2>6. ASSUME NEW b \in Agent, NEW n \in 0 .. SecretsN(b) - 1
        PROVE  MappedKeys(b, n) \subseteq Key
    <3>1. n \in Nat /\ n < SecretsN(b) /\ EntriesN(b, n) \in Nat
      BY LookupType
    <3>2. \A m \in 0 .. EntriesN(b, n) - 1 : EntryAt(b, n, m) \in Entry
      BY <3>1, LookupType
    <3> QED
      BY <3>2 DEF MappedKeys, Entry
  <2> QED
    BY <2>4, <2>5, <2>6 DEF CreatedComplete
<1>4. ASSUME NEW s \in Secret, DeleteSecret(s) PROVE CreatedComplete'
  <2>1. /\ ~Exists(s)'
        /\ \A t \in Secret : t # s => secrets'[t] = secrets[t]
    BY <1>4 DEF DeleteSecret, Exists, TypeOK
  <2> QED
    BY <2>1 DEF CreatedComplete, Exists
<1> QED
  BY <1>1, <1>2, <1>3, <1>4, SecretStep

-----------------------------------------------------------------------------
(* The theorems.                                                           *)

AgentInv ==
  /\ TypeOK
  /\ CursorInv
  /\ CollectedInv
  /\ NeverBlank
  /\ CreatedComplete

LEMMA AgentInvInit == Init => AgentInv
<1> SUFFICES ASSUME Init PROVE AgentInv
  OBVIOUS
<1>1. TypeOK
  BY InitType
<1>2. CursorInv
  BY DEF Init, CursorInv, CursorOK, InSecret
<1>3. CollectedInv
  BY NoDataFacts DEF Init, CollectedInv, CollectedOK, InSecret
<1>4. NeverBlank
  BY NoDataFacts DEF Init, NeverBlank
<1>5. CreatedComplete
  BY DEF Init, CreatedComplete, Exists
<1> QED
  BY <1>1, <1>2, <1>3, <1>4, <1>5 DEF AgentInv

LEMMA AgentInvStep == AgentInv /\ AnyStep => AgentInv'
BY TypeStep, CursorStep, CollectedStep, NeverBlankStep, CreatedCompleteStep DEF AgentInv

\* The inductive invariant holds throughout.
THEOREM AgentInvariant == Spec => []AgentInv
<1>1. AgentInv /\ [Next]_vars => AgentInv'
  BY AgentInvStep, NextIsAnyStep DEF AgentInv
<1> QED
  BY <1>1, AgentInvInit, PTL DEF Spec

\* Every variable of agent.sh and of its surroundings keeps its type: in
\* particular no lookup in a mapping file goes past its end.
THEOREM TypeCorrect == Spec => []TypeOK
<1>1. AgentInv => TypeOK
  BY DEF AgentInv
<1> QED
  BY <1>1, AgentInvariant, PTL

\* No Secret ever holds an empty value, whatever Vault holds and whatever
\* fails, for any number of agents and any mapping files.
THEOREM NeverBlankHolds == Spec => []NeverBlank
<1>1. AgentInv => NeverBlank
  BY DEF AgentInv
<1> QED
  BY <1>1, AgentInvariant, PTL

\* A Secret that exists has all keys of a mapping that writes it: none is
\* ever seen half written.
THEOREM CreatedCompleteHolds == Spec => []CreatedComplete
<1>1. AgentInv => CreatedComplete
  BY DEF AgentInv
<1> QED
  BY <1>1, AgentInvariant, PTL

\* Agents never take a key away from a Secret.
THEOREM KeysNeverLostHolds == Spec => KeysNeverLost
<1> DEFINE Kept == \A s \in Secret, k \in Key :
             /\ secrets[s][k] # Absent
             /\ secrets'[s] # NoData
             => secrets'[s][k] # Absent
<1>1. AgentInv /\ [Next]_vars => Kept
  <2> SUFFICES ASSUME AgentInv, AnyStep PROVE Kept
    BY NextIsAnyStep DEF AgentInv
  <2> USE DEF AgentInv
  <2>1. CASE secrets' = secrets
    BY <2>1
  <2>2. ASSUME NEW a \in Agent, Posted(a) \/ Patched(a) PROVE Kept
    <3>1. CurSecret(a) \in Secret
      BY <2>2, WriteEffect
    <3>2. ASSUME NEW k \in Key, secrets[CurSecret(a)][k] # Absent
          PROVE  secrets'[CurSecret(a)][k] # Absent
      <4>1. Patched(a)
        BY <2>2, <3>2, WriteEffect, NoDataFacts
      <4>2. secrets'[CurSecret(a)] = Merge(secrets[CurSecret(a)], patch[a])
        BY <4>1, WriteEffect
      <4> QED
        BY <3>1, <3>2, <4>2, DiffMerge DEF TypeOK, CollectedInv, CollectedOK
    <3> QED
      BY <2>2, <3>2, WriteEffect
  <2>3. ASSUME NEW s \in Secret, DeleteSecret(s) PROVE Kept
    BY <2>3 DEF DeleteSecret, TypeOK
  <2> QED
    BY <2>1, <2>2, <2>3, SecretStep
<1> QED
  BY <1>1, AgentInvariant, PTL DEF Spec, KeysNeverLost

-----------------------------------------------------------------------------
(* Placeholder agents.                                                     *)

\* An agent with a placeholder file stays out of all that follows the login.
LEMMA PlaceholderStep ==
  ASSUME TypeOK, PlaceholderIdle, AnyStep
  PROVE  PlaceholderIdle'
<1> SUFFICES ASSUME NEW b \in Agent, SecretsN(b) > 0, ~HasMappings(b)
             PROVE  pc'[b] \notin CallSite \cup {"loop", "restart", "died"}
  BY DEF PlaceholderIdle
<1>0. pc[b] \notin CallSite \cup {"loop", "restart", "died"}
  BY DEF PlaceholderIdle
<1>1. CASE pc'[b] = pc[b]
  BY <1>0, <1>1
<1>2. ASSUME NEW a \in Agent, a # b, StepOf(a)
      PROVE  pc'[b] = pc[b]
  BY <1>2, Frame
<1>3. ASSUME AgentStep(b) PROVE pc'[b] \notin CallSite \cup {"loop", "restart", "died"}
  <2> USE DEF CallSite
  <2>1. FetchStart(b) \/ Wake(b)
    BY <1>0, <1>3 DEF AgentStep, Login, FetchLoop, SecretLoop, ReadEntry, FieldMissing,
       GetSecret, WriteSecret, AnswerLost, WriteRefused, CallFails, Restart, RestartFails,
       Posted, Patched
  <2>2. CASE FetchStart(b)
    <3>1. SecretsN(b) # 0
      BY LookupType
    <3>2. pc' = [pc EXCEPT ![b] = AfterFetch(b, TRUE, FALSE)]
      BY <2>2, <3>1, Zenon DEF FetchStart, Goto
    <3> QED
      BY <3>2 DEF AfterFetch, TypeOK
  <2>3. CASE Wake(b)
    BY <2>3 DEF Wake, Goto, TypeOK
  <2> QED
    BY <2>1, <2>2, <2>3
<1>4. ASSUME Process(b)
      PROVE  pc'[b] \notin CallSite \cup {"loop", "restart", "died"}
  BY <1>4 DEF Process, StartAgent, StopAgent, Goto, TypeOK, CallSite
<1>6. ~GivesUp(b)
  BY <1>0 DEF GivesUp
<1>5. ASSUME Elsewhere \/ \E s \in Secret : DeleteSecret(s)
      PROVE  pc'[b] = pc[b]
  BY <1>5 DEF Elsewhere, DeleteSecret, agentVars
<1> QED
  BY <1>1, <1>2, <1>3, <1>4, <1>5, <1>6 DEF AnyStep, StepOf

\* Placeholder sidecars and init containers never make a call, and never fail
\* their pod, however many other agents run next to them.
THEOREM PlaceholderIdleHolds == Spec => []PlaceholderIdle
<1>1. Init => PlaceholderIdle
  BY DEF Init, PlaceholderIdle, CallSite
<1>2. TypeOK /\ PlaceholderIdle /\ [Next]_vars => PlaceholderIdle'
  BY PlaceholderStep, NextIsAnyStep
<1> QED
  BY <1>1, <1>2, TypeCorrect, PTL DEF Spec

-----------------------------------------------------------------------------
(* `fetch` that exits with status 0.                                       *)

\* After reconcile_secret has gone through the entries of mapping n, the shared
\* i sends fetch_once on to mapping EntriesN(a, n) + 1: a mapping file is safe
\* if there is nothing to do in between.  One with one Secret always is.
NothingSkipped(a) ==
  \A n, k \in 0 .. SecretsN(a) - 1 :
    n < k /\ k <= EntriesN(a, n) => EntriesN(a, k) = 0

\* The keys of the mappings before number m exist.
SeededTo(a, m) ==
  \A n \in 0 .. SecretsN(a) - 1 : n < m =>
    \A k \in MappedKeys(a, n) : secrets[SecretName(a, n)][k] # Absent

\* What an agent has behind it, wherever the loop variable took it, is seeded.
SeededOK(a) ==
  /\ pc[a] = "loop" => SeededTo(a, i[a])
  /\ InSecret(a) => SeededTo(a, cur[a])
  /\ pc[a] = "exited" => Seeded(a)

\* An agent about to send a PATCH has each of its keys in the PATCH or has
\* seen it in the Secret.
PatchInv ==
  \A a \in Agent : pc[a] = "patch" =>
    \A k \in MappedKeys(a, cur[a]) :
      patch[a][k] # Absent \/ secrets[SecretName(a, cur[a])][k] # Absent

\* Without deletions, a key that exists goes on existing.
LEMMA KeysStay ==
  ASSUME AgentInv, AnyStep, "delete" \notin Faults
  PROVE  \A s \in Secret, k \in Key : secrets[s][k] # Absent => secrets'[s][k] # Absent
<1> USE DEF AgentInv
<1>1. ASSUME NEW s \in Secret, NEW k \in Key, secrets[s][k] # Absent
      PROVE  secrets'[s][k] # Absent
  <2>1. CASE secrets' = secrets
    BY <1>1, <2>1
  <2>2. ASSUME NEW a \in Agent, Posted(a) PROVE secrets'[s][k] # Absent
    BY <1>1, <2>2, WriteEffect, NoDataFacts
  <2>3. ASSUME NEW a \in Agent, Patched(a) PROVE secrets'[s][k] # Absent
    <3>1. /\ CurSecret(a) \in Secret
          /\ s # CurSecret(a) => secrets'[s] = secrets[s]
          /\ secrets'[CurSecret(a)] = Merge(secrets[CurSecret(a)], patch[a])
      BY <2>3, WriteEffect
    <3> QED
      BY <1>1, <3>1, DiffMerge DEF TypeOK, CollectedInv, CollectedOK
  <2>4. ~ \E t \in Secret : DeleteSecret(t)
    BY DEF DeleteSecret
  <2> QED
    BY <2>1, <2>2, <2>3, <2>4, SecretStep
<1> QED
  BY <1>1

\* Mapping numbers name Secrets, and their entries keys.
LEMMA MappedType ==
  ASSUME NEW b \in Agent, NEW n \in 0 .. SecretsN(b) - 1, NEW k \in MappedKeys(b, n)
  PROVE  SecretName(b, n) \in Secret /\ k \in Key
<1>1. n \in Nat /\ n < SecretsN(b) /\ EntriesN(b, n) \in Nat
  BY LookupType
<1>2. \A m \in 0 .. EntriesN(b, n) - 1 : EntryAt(b, n, m) \in Entry
  BY <1>1, LookupType
<1> QED
  BY <1>1, <1>2, LookupType DEF MappedKeys, Entry

LEMMA SeededStable ==
  ASSUME AgentInv, AnyStep, "delete" \notin Faults, NEW b \in Agent, Seeded(b)
  PROVE  Seeded(b)'
BY KeysStay, MappedType DEF Seeded

LEMMA SeededToStable ==
  ASSUME AgentInv, AnyStep, "delete" \notin Faults, NEW b \in Agent, NEW m, SeededTo(b, m)
  PROVE  SeededTo(b, m)'
BY KeysStay, MappedType DEF SeededTo

\* A mapping without entries has no keys to seed.
LEMMA NoKeys ==
  ASSUME NEW b \in Agent, NEW n \in 0 .. SecretsN(b) - 1, ~(EntriesN(b, n) > 0)
  PROVE  MappedKeys(b, n) = {}
<1>1. EntriesN(b, n) = 0
  BY LookupType
<1> QED
  BY <1>1 DEF MappedKeys

\* When reconcile_secret ends well, all keys of its mapping are in the Secret.
LEMMA ReconciledSecret ==
  ASSUME AgentInv, PatchInv, NEW b \in Agent,
         GetSecret(b) \/ WriteSecret(b), pc'[b] = "loop"
  PROVE  /\ cur[b] \in 0 .. SecretsN(b) - 1
         /\ \A k \in MappedKeys(b, cur[b]) : secrets'[SecretName(b, cur[b])][k] # Absent
<1> USE DEF AgentInv
<1>1. InSecret(b) /\ pc[b] # "read"
  BY DEF GetSecret, WriteSecret, Posted, Patched, InSecret
<1>2. /\ cur[b] \in Nat /\ i[b] \in Nat
      /\ cur[b] < SecretsN(b) /\ i[b] = EntriesN(b, cur[b])
  BY <1>1 DEF TypeOK, CursorInv, CursorOK
<1>3. cur[b] \in 0 .. SecretsN(b) - 1
  BY <1>2, LookupType
<1>4. CurSecret(b) \in Secret /\ secrets[CurSecret(b)] \in Data /\ desired[b] \in Data
  BY <1>2, LookupType DEF CurSecret, TypeOK
<1>5. \A k \in MappedKeys(b, cur[b]) : k \in Key /\ desired[b][k] # Absent
  <2>1. \A m \in 0 .. EntriesN(b, cur[b]) - 1 :
          /\ desired[b][EntryAt(b, cur[b], m).secretKey] # Absent
          /\ EntryAt(b, cur[b], m) \in Entry
    BY <1>1, <1>2, LookupType DEF CollectedInv, CollectedOK
  <2> QED
    BY <2>1 DEF MappedKeys, Entry
<1>6. CASE GetSecret(b)
  <2>1. secrets' = secrets /\ Diff(desired[b], secrets[CurSecret(b)]) = NoData
    BY <1>6 DEF GetSecret, Goto, TypeOK
  <2>2. ASSUME NEW k \in Key, desired[b][k] # Absent
        PROVE  secrets[CurSecret(b)][k] # Absent
    <3>1. Diff(desired[b], secrets[CurSecret(b)])[k] = Absent
      BY <2>1, NoDataFacts
    <3> QED
      BY <2>2, <3>1 DEF Diff
  <2> QED
    BY <1>3, <1>5, <2>1, <2>2 DEF CurSecret
<1>7. CASE WriteSecret(b) /\ Posted(b)
  BY <1>3, <1>5, <1>7, WriteEffect DEF CurSecret
<1>8. CASE WriteSecret(b) /\ Patched(b)
  <2>1. pc[b] = "patch" /\ patch[b] \in Data
    BY <1>8 DEF Patched, TypeOK
  <2>2. \A k \in Key : patch[b][k] # Absent \/ secrets[CurSecret(b)][k] # Absent =>
          secrets'[CurSecret(b)][k] # Absent
    BY <1>4, <1>8, <2>1, WriteEffect, DiffMerge DEF CollectedInv, CollectedOK
  <2> QED
    BY <1>3, <1>5, <2>1, <2>2 DEF PatchInv, CurSecret
<1> QED
  BY <1>6, <1>7, <1>8 DEF WriteSecret

LEMMA PatchStep ==
  ASSUME AgentInv, PatchInv, AnyStep, "delete" \notin Faults
  PROVE  PatchInv'
<1> USE DEF AgentInv
<1> SUFFICES ASSUME NEW b \in Agent, pc'[b] = "patch", NEW k \in MappedKeys(b, cur'[b])
             PROVE  patch'[b][k] # Absent \/ secrets'[SecretName(b, cur'[b])][k] # Absent
  BY DEF PatchInv, MappedKeys, EntryAt, EntriesN, SecretName
<1>0. CursorOK(b)'
  BY CursorStep DEF CursorInv
<1>1. cur'[b] \in 0 .. SecretsN(b) - 1
  <2>1. cur'[b] \in Nat /\ cur'[b] < SecretsN(b)
    BY <1>0, TypeStep DEF CursorOK, InSecret, TypeOK
  <2> QED
    BY <2>1, LookupType
<1>2. SecretName(b, cur'[b]) \in Secret /\ k \in Key
  BY <1>1, MappedType
<1>3. CASE pc[b] = "patch" /\ cur'[b] = cur[b] /\ patch'[b] = patch[b]
  BY <1>2, <1>3, KeysStay DEF PatchInv
<1>4. ASSUME NEW a \in Agent, a # b, StepOf(a)
      PROVE  pc[b] = "patch" /\ cur'[b] = cur[b] /\ patch'[b] = patch[b]
  BY <1>4, Frame
<1>5. ASSUME Elsewhere \/ \E s \in Secret : DeleteSecret(s)
      PROVE  pc[b] = "patch" /\ cur'[b] = cur[b] /\ patch'[b] = patch[b]
  BY <1>5 DEF Elsewhere, DeleteSecret, agentVars
<1>6. ASSUME Process(b) \/ GivesUp(b) PROVE FALSE
  <2>1. CASE Process(b)
    BY <2>1 DEF Process, StartAgent, StopAgent, NoProcess, Goto, TypeOK
  <2>2. CASE GivesUp(b)
    BY <2>2, GivesUpTo
  <2> QED
    BY <1>6, <2>1, <2>2
<1>7. ASSUME AgentStep(b) PROVE GetSecret(b)
  <2> USE DEF TypeOK, Goto, AfterFetch
  <2>1. ~FetchStart(b) /\ ~Login(b) /\ ~FetchLoop(b)
    BY DEF FetchStart, Login, FetchLoop, SecretLoop
  <2>2. ~ReadEntry(b) /\ ~FieldMissing(b)
    BY DEF ReadEntry, Collect, FieldMissing
  <2>3. ~WriteSecret(b) /\ ~AnswerLost(b) /\ ~WriteRefused(b) /\ ~CallFails(b)
    BY DEF WriteSecret, AnswerLost, WriteRefused, CallFails
  <2>4. ~Restart(b) /\ ~RestartFails(b) /\ ~Wake(b)
    BY DEF Restart, RestartFails, Wake
  <2> QED
    BY <1>7, <2>1, <2>2, <2>3, <2>4 DEF AgentStep
<1>8. CASE GetSecret(b)
  <2>1. /\ pc[b] = "get" /\ cur' = cur /\ secrets' = secrets
        /\ patch'[b] = Diff(desired[b], secrets[CurSecret(b)])
    BY <1>8 DEF GetSecret, Goto, TypeOK
  <2>2. desired[b][k] # Absent
    <3>1. i[b] = EntriesN(b, cur[b])
      BY <2>1 DEF CursorInv, CursorOK, InSecret
    <3>2. \A m \in 0 .. EntriesN(b, cur[b]) - 1 :
            desired[b][EntryAt(b, cur[b], m).secretKey] # Absent
      BY <2>1, <3>1 DEF CollectedInv, CollectedOK, InSecret
    <3> QED
      BY <2>1, <3>2 DEF MappedKeys
  <2> QED
    BY <1>2, <2>1, <2>2 DEF Diff, CurSecret
<1> QED
  BY <1>3, <1>4, <1>5, <1>6, <1>7, <1>8 DEF AnyStep, StepOf

LEMMA SeededStep ==
  ASSUME AgentInv, PatchInv, AnyStep, "delete" \notin Faults,
         NEW b \in Agent, NothingSkipped(b), SeededOK(b)
  PROVE  SeededOK(b)'
<1> USE DEF AgentInv
<1>0. cur[b] \in Nat /\ i[b] \in Nat /\ SecretsN(b) \in Nat
  BY LookupType DEF TypeOK
<1>9. \A m : SeededTo(b, m) => SeededTo(b, m)'
  BY SeededToStable
<1>1. CASE pc'[b] = pc[b] /\ i'[b] = i[b] /\ cur'[b] = cur[b]
  BY <1>1, <1>9, SeededStable DEF SeededOK, InSecret, SeededTo
<1>2. ASSUME NEW a \in Agent, a # b, StepOf(a)
      PROVE  pc'[b] = pc[b] /\ i'[b] = i[b] /\ cur'[b] = cur[b]
  BY <1>2, Frame
<1>3. ASSUME Elsewhere \/ \E s \in Secret : DeleteSecret(s)
      PROVE  pc'[b] = pc[b] /\ i'[b] = i[b] /\ cur'[b] = cur[b]
  BY <1>3 DEF Elsewhere, DeleteSecret, agentVars
<1>4. ASSUME pc'[b] \in {"off", "start", "login", "restart", "sleep", "died"}
      PROVE  SeededOK(b)'
  BY <1>4 DEF SeededOK, InSecret
<1>5. ASSUME Process(b) \/ GivesUp(b) PROVE SeededOK(b)'
  <2>1. CASE Process(b)
    BY <1>4, <2>1 DEF Process, StartAgent, StopAgent, Goto, TypeOK
  <2>2. CASE GivesUp(b)
    BY <1>4, <2>2, GivesUpTo
  <2> QED
    BY <1>5, <2>1, <2>2
<1>6. ASSUME pc'[b] = "loop", NEW m, i'[b] = m, SeededTo(b, m)' PROVE SeededOK(b)'
  BY <1>6 DEF SeededOK, InSecret, SeededTo
<1>7. ASSUME InSecret(b)', NEW m, cur'[b] = m, SeededTo(b, m)' PROVE SeededOK(b)'
  BY <1>7 DEF SeededOK, InSecret, SeededTo
<1>8. ASSUME AgentStep(b) PROVE SeededOK(b)'
  <2> USE DEF TypeOK, Goto
  <2>1. CASE FetchStart(b)
    <3>1. CASE pc'[b] = "exited"
      <4>1. ~HasMappings(b)
        BY <2>1, <3>1, LookupType DEF FetchStart, AfterFetch
      <4>2. Seeded(b)'
        BY <4>1, NoKeys DEF HasMappings, Seeded
      <4> QED
        BY <3>1, <4>2 DEF SeededOK, InSecret
    <3>2. CASE pc'[b] # "exited"
      BY <1>4, <2>1, <3>2 DEF FetchStart, AfterFetch
    <3> QED
      BY <3>1, <3>2
  <2>2. CASE Login(b)
    <3>1. pc'[b] = "loop" /\ i'[b] = 0
      BY <2>2 DEF Login
    <3>2. SeededTo(b, 0)'
      BY DEF SeededTo
    <3> QED
      BY <1>6, <3>1, <3>2
  <2>3. CASE FetchLoop(b)
    <3>0. pc[b] = "loop" /\ secrets' = secrets /\ SeededTo(b, i[b])
      BY <2>3 DEF FetchLoop, SecretLoop, SeededOK
    <3>4. i[b] < SecretsN(b) => EntriesN(b, i[b]) \in Nat
      BY <1>0, LookupType
    <3>1. CASE i[b] >= SecretsN(b)
      <4>1. Seeded(b)
        BY <1>0, <3>0, <3>1 DEF Seeded, SeededTo
      <4>2. pc'[b] \in {"exited", "restart", "sleep"}
        BY <1>0, <2>3, <3>1 DEF FetchLoop, SecretLoop, AfterFetch
      <4> QED
        BY <1>4, <4>1, <4>2, SeededStable DEF SeededOK, InSecret
    <3>2. CASE i[b] < SecretsN(b) /\ EntriesN(b, i[b]) = 0
      <4>1. pc'[b] = "loop" /\ i'[b] = i[b] + 1
        <5>1. ~(i[b] >= SecretsN(b)) /\ ~(EntriesN(b, i[b]) > 0)
          BY <1>0, <3>2
        <5>2. i' = [i EXCEPT ![b] = i[b] + 1] /\ pc' = pc
          BY <2>3, <5>1, Zenon DEF FetchLoop, SecretLoop
        <5> QED
          BY <3>0, <5>2
      <4>2. MappedKeys(b, i[b]) = {}
        BY <1>0, <3>2, NoKeys
      <4>3. SeededTo(b, i[b] + 1)
        <5>1. ASSUME NEW n \in 0 .. SecretsN(b) - 1, n < i[b] + 1, NEW k \in MappedKeys(b, n)
              PROVE  secrets[SecretName(b, n)][k] # Absent
          <6>1. n # i[b]
            BY <4>2, <5>1
          <6>2. n < i[b]
            BY <1>0, <5>1, <6>1
          <6> QED
            BY <3>0, <5>1, <6>2 DEF SeededTo
        <5> QED
          BY <5>1 DEF SeededTo
      <4>4. PICK m : m = i[b] + 1
        OBVIOUS
      <4> QED
        BY <1>6, <1>9, <4>1, <4>3, <4>4
    <3>3. CASE i[b] < SecretsN(b) /\ EntriesN(b, i[b]) > 0
      <4>0. PICK m : m = i[b]
        OBVIOUS
      <4>1. pc'[b] = "read" /\ cur'[b] = m
        <5>1. ~(i[b] >= SecretsN(b)) /\ EntriesN(b, i[b]) # 0
          BY <1>0, <3>3
        <5>2. cur' = [cur EXCEPT ![b] = i[b]] /\ pc' = [pc EXCEPT ![b] = "read"]
          BY <2>3, <5>1, Zenon DEF FetchLoop, SecretLoop, Goto
        <5> QED
          BY <4>0, <5>2
      <4>2. SeededTo(b, m)'
        BY <1>9, <3>0, <4>0
      <4> QED
        BY <1>7, <4>1, <4>2 DEF InSecret
    <3> QED
      BY <1>0, <3>1, <3>2, <3>3, <3>4
  <2>4. ASSUME InSecret(b), InSecret(b)', cur'[b] = cur[b] PROVE SeededOK(b)'
    <3>1. PICK m : m = cur[b]
      OBVIOUS
    <3>2. SeededTo(b, m)'
      BY <1>9, <2>4, <3>1 DEF SeededOK
    <3> QED
      BY <1>7, <2>4, <3>1, <3>2
  <2>5. CASE ReadEntry(b)
    BY <2>4, <2>5 DEF ReadEntry, Collect, InSecret
  <2>6. CASE (GetSecret(b) \/ WriteSecret(b)) /\ pc'[b] = "loop"
    <3>0. PICK c, m : c = cur[b] /\ m = EntriesN(b, cur[b]) + 1
      OBVIOUS
    <3>1. /\ c \in 0 .. SecretsN(b) - 1
          /\ \A k \in MappedKeys(b, c) : secrets'[SecretName(b, c)][k] # Absent
      BY <2>6, <3>0, ReconciledSecret
    <3>2. InSecret(b) /\ pc[b] # "read" /\ i'[b] = i[b] + 1
      BY <2>6 DEF GetSecret, WriteSecret, Posted, Patched, InSecret
    <3>3. i'[b] = m /\ EntriesN(b, c) \in Nat
      BY <3>0, <3>1, <3>2, LookupType DEF CursorInv, CursorOK
    <3>4. SeededTo(b, c)'
      BY <1>9, <3>0, <3>2 DEF SeededOK
    <3>5. ASSUME NEW n \in 0 .. SecretsN(b) - 1, n < m, NEW k \in MappedKeys(b, n)
          PROVE  secrets'[SecretName(b, n)][k] # Absent
      <4>1. CASE n < c
        BY <3>4, <3>5, <4>1 DEF SeededTo
      <4>2. CASE n = c
        BY <3>1, <3>5, <4>2
      <4>3. CASE n > c
        <5>1. n <= EntriesN(b, c)
          BY <3>0, <3>3, <3>5
        <5>2. EntriesN(b, n) = 0
          BY <1>0, <3>1, <4>3, <5>1 DEF NothingSkipped
        <5> QED
          BY <3>5, <5>2, NoKeys
      <4> QED
        BY <1>0, <3>1, <4>1, <4>2, <4>3
    <3>6. SeededTo(b, m)'
      BY <3>5 DEF SeededTo
    <3> QED
      BY <1>6, <2>6, <3>3, <3>6
  <2>7. CASE GetSecret(b) /\ pc'[b] # "loop"
    BY <2>4, <2>7 DEF GetSecret, InSecret
  <2>8. CASE WriteSecret(b)
    BY <2>6, <2>8 DEF WriteSecret
  <2>9. CASE FieldMissing(b) \/ AnswerLost(b) \/ WriteRefused(b) \/ CallFails(b)
    BY <1>4, <2>9 DEF FieldMissing, AnswerLost, WriteRefused, CallFails, AfterFetch
  <2>10. CASE Restart(b) \/ RestartFails(b) \/ Wake(b)
    BY <1>4, <2>10 DEF Restart, RestartFails, Wake
  <2> QED
    BY <1>8, <2>1, <2>2, <2>3, <2>5, <2>6, <2>7, <2>8, <2>9, <2>10 DEF AgentStep
<1> QED
  BY <1>1, <1>2, <1>3, <1>5, <1>8 DEF AnyStep, StepOf

\* `fetch` that exits with status 0 leaves every key it was configured for in
\* place, provided nobody deletes Secrets and no mapping file makes fetch_once
\* skip a Secret with entries, as those of the init containers, of one Secret
\* each, never do.  For other files it does not hold: fetch_once and
\* reconcile_secret share the variable i.
THEOREM FetchSeedsHolds ==
  ASSUME "delete" \notin Faults, \A a \in Agent : NothingSkipped(a)
  PROVE  Spec => []FetchSeeds
<1> DEFINE SeededInv == \A a \in Agent : SeededOK(a)
<1> DEFINE Inv == AgentInv /\ PatchInv /\ SeededInv
<1>1. Init => Inv
  BY AgentInvInit DEF Init, PatchInv, SeededOK, InSecret
<1>2. Inv /\ [Next]_vars => Inv'
  <2> SUFFICES ASSUME Inv, [Next]_vars PROVE Inv'
    OBVIOUS
  <2>1. AnyStep
    BY NextIsAnyStep DEF AgentInv
  <2>2. AgentInv' /\ PatchInv'
    BY <2>1, AgentInvStep, PatchStep
  <2>3. \A a \in Agent : SeededOK(a)'
    BY <2>1, SeededStep
  <2> QED
    BY <2>2, <2>3
<1>3. Inv => FetchSeeds
  BY DEF SeededOK, FetchSeeds
<1> QED
  BY <1>1, <1>2, <1>3, PTL DEF Spec
=============================================================================
