-------------------------- MODULE SecretCopyProofs --------------------------
(***************************************************************************)
(* VaultAgent implements SecretCopy: every step of an agent, and of what   *)
(* surrounds it, is a step of the abstract specification or leaves its     *)
(* variables alone.                                                        *)
(***************************************************************************)
EXTENDS VaultAgentProofs

(***************************************************************************)
(* What the refinement needs beyond AgentInv.  Everything in `desired`     *)
(* belongs to an entry of the current mapping that has been read, so that  *)
(* nothing is left over from another Secret; and a PATCH about to be sent  *)
(* carries nothing but values of `desired`.                                *)
(***************************************************************************)
HandOK(a) ==
  /\ InSecret(a) => \A k \in Key : desired[a][k] # Absent =>
       \E m \in 0 .. i[a] - 1 : EntryAt(a, cur[a], m).secretKey = k
  /\ pc[a] = "patch" => \A k \in Key : patch[a][k] \in {Absent, desired[a][k]}

HandInv == \A a \in Agent : HandOK(a)

-----------------------------------------------------------------------------
(* The strengthened invariant.                                             *)

LEMMA HandInit == Init => HandInv
BY DEF Init, HandInv, HandOK, InSecret

LEMMA HandStep ==
  ASSUME AgentInv, HandInv, AnyStep
  PROVE  HandInv'
<1> USE DEF AgentInv
<1> SUFFICES ASSUME NEW b \in Agent PROVE HandOK(b)'
  BY DEF HandInv
<1>0. HandOK(b) /\ CursorOK(b)
  BY DEF HandInv, CursorInv
<1>1. CASE UNCHANGED <<pc, i, cur, desired, patch>>
  BY <1>0, <1>1 DEF HandOK, InSecret
<1>2. ASSUME NEW a \in Agent, a # b, StepOf(a)
      PROVE  HandOK(b)'
  BY <1>0, <1>2, Frame DEF HandOK, InSecret
<1>3. ASSUME ~InSecret(b)' PROVE HandOK(b)'
  BY <1>3 DEF HandOK, InSecret
<1>4. ASSUME AgentStep(b) PROVE HandOK(b)'
  <2> USE DEF TypeOK, Goto
  <2>1. CASE FetchStart(b) \/ Login(b)
    <3>1. pc'[b] \in {"exited", "died", "restart", "sleep", "login", "loop"}
      BY <2>1 DEF FetchStart, Login, AfterFetch
    <3> QED
      BY <1>3, <3>1, OutsideSecret
  <2>2. CASE FetchLoop(b)
    <3>1. CASE pc'[b] # "read"
      <4>1. pc'[b] \in {"exited", "died", "restart", "sleep", "loop"}
        BY <2>2, <3>1 DEF FetchLoop, SecretLoop, AfterFetch
      <4> QED
        BY <1>3, <4>1, OutsideSecret
    <3>2. CASE pc'[b] = "read"
      <4>1. desired'[b] = NoData
        BY <2>2, <3>2 DEF FetchLoop, SecretLoop, AfterFetch
      <4> QED
        BY <3>2, <4>1, NoDataFacts DEF HandOK
    <3> QED
      BY <3>1, <3>2
  <2>3. CASE ReadEntry(b)
    <3> DEFINE e == EntryAt(b, cur[b], i[b])
    <3>1. /\ pc[b] = "read" /\ i'[b] = i[b] + 1 /\ cur' = cur /\ pc'[b] # "patch"
          /\ desired'[b] = [desired[b] EXCEPT ![e.secretKey] = Base64(FieldText(b))]
      BY <2>3 DEF ReadEntry, Collect
    <3>2. desired[b] \in Data /\ i[b] \in Nat
      OBVIOUS
    <3>3. \A k \in Key : desired'[b][k] # Absent => k = e.secretKey \/ desired[b][k] # Absent
      BY <3>1, <3>2 DEF Data
    <3>4. ASSUME NEW k \in Key, desired'[b][k] # Absent
          PROVE  \E m \in 0 .. i'[b] - 1 : EntryAt(b, cur'[b], m).secretKey = k
      <4>1. CASE k = e.secretKey
        BY <3>1, <3>2, <4>1
      <4>2. CASE desired[b][k] # Absent
        <5>1. PICK m \in 0 .. i[b] - 1 : EntryAt(b, cur[b], m).secretKey = k
          BY <1>0, <3>1, <4>2 DEF HandOK, InSecret
        <5>2. m \in 0 .. i'[b] - 1
          BY <3>1, <3>2, <5>1
        <5> QED
          BY <3>1, <5>1, <5>2
      <4> QED
        BY <3>3, <3>4, <4>1, <4>2
    <3> QED
      BY <3>1, <3>4 DEF HandOK
  <2>4. CASE GetSecret(b)
    <3>1. CASE pc'[b] = "loop"
      BY <1>3, <3>1, OutsideSecret
    <3>2. CASE pc'[b] # "loop"
      <4>1. /\ pc[b] = "get" /\ UNCHANGED <<i, cur, desired>>
            /\ pc'[b] = "patch" => patch'[b] = Diff(desired[b], secrets[CurSecret(b)])
        BY <2>4, <3>2 DEF GetSecret
      <4>2. \A k \in Key : Diff(desired[b], secrets[CurSecret(b)])[k] \in {Absent, desired[b][k]}
        BY DEF Diff
      <4> QED
        BY <1>0, <4>1, <4>2 DEF HandOK, InSecret
    <3> QED
      BY <3>1, <3>2
  <2>5. CASE WriteSecret(b)
    BY <1>3, <2>5, OutsideSecret DEF WriteSecret
  <2>6. CASE FieldMissing(b) \/ AnswerLost(b) \/ WriteRefused(b) \/ CallFails(b)
    <3>1. pc'[b] = AfterFetch(b, FALSE, changed[b])
      BY <2>6 DEF FieldMissing, AnswerLost, WriteRefused, CallFails
    <3>2. pc'[b] \in {"exited", "died", "restart", "sleep"}
      BY <3>1, AfterFetchType
    <3> QED
      BY <1>3, <3>2, OutsideSecret
  <2>7. CASE Restart(b) \/ RestartFails(b) \/ Wake(b)
    <3>1. pc'[b] \in {"sleep", "start"}
      BY <2>7 DEF Restart, RestartFails, Wake
    <3> QED
      BY <1>3, <3>1, OutsideSecret
  <2> QED
    BY <1>4, <2>1, <2>2, <2>3, <2>4, <2>5, <2>6, <2>7 DEF AgentStep
<1>5. ASSUME Process(b) PROVE HandOK(b)'
  <2>1. pc'[b] \in {"start", "off"}
    BY <1>5 DEF Process, StartAgent, StopAgent, Goto, TypeOK
  <2> QED
    BY <1>3, <2>1, OutsideSecret
<1>6. ASSUME Elsewhere \/ \E s \in Secret : DeleteSecret(s)
      PROVE  UNCHANGED <<pc, i, cur, desired, patch>>
  BY <1>6 DEF Elsewhere, DeleteSecret, agentVars
<1>7. ASSUME GivesUp(b) PROVE HandOK(b)'
  BY <1>3, <1>7, GivesUpTo, OutsideSecret
<1> QED
  BY <1>1, <1>2, <1>4, <1>5, <1>6, <1>7 DEF AnyStep, StepOf

-----------------------------------------------------------------------------
(* The refinement.                                                         *)

\* The abstract specification looks mappings up as agent.sh does.
LEMMA SameLookups ==
  /\ Copy!NoData = NoData
  /\ \A a, n : /\ Copy!SecretsN(a) = SecretsN(a)
               /\ Copy!MappingNumbers(a) = 0 .. SecretsN(a) - 1
               /\ Copy!SecretName(a, n) = SecretName(a, n)
               /\ Copy!EntriesN(a, n) = EntriesN(a, n)
               /\ Copy!MappedKeys(a, n) = MappedKeys(a, n)
  /\ \A a, n, m : Copy!EntryAt(a, n, m) = EntryAt(a, n, m)
  /\ \A t : Copy!Base64(t) = Base64(t)
BY DEF Copy!NoData, NoData, Copy!SecretsN, SecretsN, Copy!MappingNumbers, Copy!SecretName,
       SecretName, Copy!EntriesN, EntriesN, Copy!MappedKeys, MappedKeys, Copy!EntryAt, EntryAt,
       Copy!Base64, Base64

LEMMA CopyInit == Init => Copy!Init
BY SameLookups DEF Init, Copy!Init

\* When all entries have been read, exactly the keys of the mapping are in
\* the agent's hand.
LEMMA HandComplete ==
  ASSUME AgentInv, HandInv, NEW a \in Agent, pc[a] \in {"get", "post", "patch"}
  PROVE  /\ cur[a] \in 0 .. SecretsN(a) - 1
         /\ \A k \in Key : desired[a][k] # Absent <=> k \in MappedKeys(a, cur[a])
<1>1. /\ InSecret(a) /\ cur[a] \in Nat /\ i[a] \in Nat
      /\ cur[a] < SecretsN(a) /\ i[a] = EntriesN(a, cur[a])
  BY DEF AgentInv, TypeOK, CursorInv, CursorOK, InSecret
<1>2. cur[a] \in 0 .. SecretsN(a) - 1
  BY <1>1, LookupType
<1>3. \A k \in Key : desired[a][k] # Absent => k \in MappedKeys(a, cur[a])
  BY <1>1 DEF HandInv, HandOK, MappedKeys
<1>4. \A k \in MappedKeys(a, cur[a]) : desired[a][k] # Absent
  BY <1>1 DEF AgentInv, CollectedInv, CollectedOK, MappedKeys
<1> QED
  BY <1>2, <1>3, <1>4

\* A POST is a Create, a PATCH an Update.
LEMMA WriteCopies ==
  ASSUME AgentInv, HandInv, NEW a \in Agent, Posted(a) \/ Patched(a),
         UNCHANGED <<vault, desired, cur>>
  PROVE  Copy!Next
<1>1. /\ cur[a] \in Copy!MappingNumbers(a)
      /\ Copy!SecretName(a, cur[a]) = CurSecret(a)
      /\ pc[a] \in {"post", "patch"}
  BY HandComplete, SameLookups DEF CurSecret, Posted, Patched
<1>2. CurSecret(a) \in Secret /\ secrets \in [Secret -> Data]
  BY WriteEffect DEF AgentInv, TypeOK
<1>3. CASE Posted(a)
  <2>1. Copy!Create(a)
    BY <1>1, <1>3, HandComplete, SameLookups DEF Copy!Create, Posted, Exists
  <2> QED
    BY <1>1, <2>1 DEF Copy!Next
<1>4. CASE Patched(a)
  <2> DEFINE K == {k \in Key : patch[a][k] # Absent}
  <2>1. \A k \in Key : patch[a][k] \in {Absent, desired[a][k]}
    BY <1>4 DEF HandInv, HandOK, Patched
  <2>2. \A k \in K : desired[a][k] # Absent
    BY <2>1
  <2>3. Merge(secrets[CurSecret(a)], patch[a]) =
          [k \in Key |-> IF k \in K THEN desired[a][k] ELSE secrets[CurSecret(a)][k]]
    BY <2>1 DEF Merge
  <2>4. Copy!Update(a, K)
    BY <1>1, <1>2, <1>4, <2>2, <2>3, SameLookups DEF Copy!Update, Patched, Exists
  <2> QED
    BY <1>1, <2>4 DEF Copy!Next
<1> QED
  BY <1>3, <1>4

\* Every step is a step of SecretCopy or invisible to it.
LEMMA CopyStep ==
  ASSUME AgentInv, HandInv, AnyStep
  PROVE  [Copy!Next]_(Copy!vars)
<1> USE DEF vaultVars
<1>0. ASSUME UNCHANGED <<vault, secrets, desired, cur>>
      PROVE  UNCHANGED Copy!vars
  BY <1>0 DEF Copy!vars
<1>1. ASSUME NEW a \in Agent, NEW n \in (0 .. SecretsN(a) - 1) \cup {0},
             cur' = [cur EXCEPT ![a] = n], desired' = [desired EXCEPT ![a] = NoData],
             UNCHANGED <<vault, secrets>>
      PROVE  Copy!Next
  <2>1. Copy!Begin(a, n)
    BY <1>1, SameLookups DEF Copy!Begin
  <2>2. n \in Copy!MappingNumbers(a) \cup {0}
    BY SameLookups
  <2> QED
    BY <2>1, <2>2 DEF Copy!Next
<1>2. ASSUME NEW a \in Agent, AgentStep(a)
      PROVE  [Copy!Next]_(Copy!vars)
  <2>1. CASE FetchLoop(a)
    <3>1. CASE UNCHANGED <<cur, desired>>
      BY <1>0, <2>1, <3>1 DEF FetchLoop, SecretLoop
    <3>2. CASE ~ UNCHANGED <<cur, desired>>
      <4>1. /\ i[a] < SecretsN(a)
            /\ cur' = [cur EXCEPT ![a] = i[a]]
            /\ desired' = [desired EXCEPT ![a] = NoData]
            /\ UNCHANGED <<vault, secrets>>
        BY <2>1, <3>2 DEF FetchLoop, SecretLoop
      <4>2. i[a] \in 0 .. SecretsN(a) - 1
        BY <4>1, LookupType DEF AgentInv, TypeOK
      <4> QED
        BY <1>1, <4>1, <4>2
    <3> QED
      BY <3>1, <3>2
  <2>2. CASE ReadEntry(a)
    <3> DEFINE e == EntryAt(a, cur[a], i[a])
    <3>1. /\ FieldText(a) # Blank
          /\ desired' = [desired EXCEPT ![a] = [@ EXCEPT ![e.secretKey] = Base64(FieldText(a))]]
          /\ UNCHANGED <<vault, secrets, cur>>
      BY <2>2 DEF ReadEntry, Collect
    <3>2. /\ cur[a] \in Nat /\ cur[a] < SecretsN(a)
          /\ i[a] \in Nat /\ i[a] < EntriesN(a, cur[a])
      BY <2>2 DEF ReadEntry, AgentInv, TypeOK, CursorInv, CursorOK, InSecret
    <3>3. /\ cur[a] \in Copy!MappingNumbers(a)
          /\ i[a] \in 0 .. Copy!EntriesN(a, cur[a]) - 1
      BY <3>2, LookupType, SameLookups
    <3>4. Copy!Take(a, i[a])
      BY <3>1, SameLookups DEF Copy!Take, FieldText
    <3> QED
      BY <3>3, <3>4 DEF Copy!Next
  <2>3. CASE WriteSecret(a) \/ AnswerLost(a)
    BY <2>3, WriteCopies DEF WriteSecret, AnswerLost
  <2>4. CASE FetchStart(a) \/ Login(a) \/ FieldMissing(a) \/ GetSecret(a)
    BY <1>0, <2>4 DEF FetchStart, Login, FieldMissing, GetSecret
  <2>5. CASE WriteRefused(a) \/ CallFails(a) \/ Restart(a) \/ RestartFails(a) \/ Wake(a)
    BY <1>0, <2>5 DEF WriteRefused, CallFails, Restart, RestartFails, Wake
  <2> QED
    BY <1>2, <2>1, <2>2, <2>3, <2>4, <2>5 DEF AgentStep
<1>3. ASSUME NEW a \in Agent, Process(a) PROVE Copy!Next
  BY <1>1, <1>3 DEF Process, StartAgent, StopAgent, NoProcess
<1>4. ASSUME Elsewhere PROVE [Copy!Next]_(Copy!vars)
  <2>1. UNCHANGED <<secrets, desired, cur>>
    BY <1>4 DEF Elsewhere, agentVars
  <2>2. CASE UNCHANGED vault
    BY <1>0, <2>1, <2>2
  <2>3. ASSUME NEW p \in Path, NEW content \in [Field -> VaultVal],
               vault' = [vault EXCEPT ![p] = content]
        PROVE  Copy!Next
    <3>1. Copy!Put(p)
      BY <2>1, <2>3 DEF Copy!Put
    <3> QED
      BY <3>1 DEF Copy!Next
  <2> QED
    BY <1>4, <2>2, <2>3 DEF Elsewhere
<1>5. ASSUME NEW s \in Secret, DeleteSecret(s) PROVE Copy!Next
  <2>1. Copy!Delete(s)
    BY <1>5, SameLookups DEF DeleteSecret, Copy!Delete, agentVars
  <2> QED
    BY <2>1 DEF Copy!Next
<1>6. ASSUME NEW a \in Agent, GivesUp(a) PROVE UNCHANGED Copy!vars
  BY <1>0, <1>6 DEF GivesUp
<1> QED
  BY <1>2, <1>3, <1>4, <1>5, <1>6 DEF AnyStep, StepOf

\* The agents implement SecretCopy, for any number of agents, any mapping
\* files, any faults: what gets into a Secret is what the mapping being
\* reconciled says, read while it was reconciled, and never a leftover.
THEOREM CopiesFaithfullyHolds == Spec => CopiesFaithfully
<1>1. Init => AgentInv /\ HandInv
  BY AgentInvInit, HandInit
<1>2. AgentInv /\ [Next]_vars => AnyStep
  BY NextIsAnyStep DEF AgentInv
<1>3. AgentInv /\ HandInv /\ [Next]_vars => AgentInv' /\ HandInv'
  BY <1>2, AgentInvStep, HandStep
<1>4. AgentInv /\ HandInv /\ [Next]_vars => [Copy!Next]_(Copy!vars)
  BY <1>2, CopyStep
<1> QED
  BY <1>1, <1>3, <1>4, CopyInit, PTL DEF Spec, CopiesFaithfully, Copy!Spec
=============================================================================
