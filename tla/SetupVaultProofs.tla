-------------------------- MODULE SetupVaultProofs --------------------------
(***************************************************************************)
(* Proofs about SetupVault, for any tables, targets and agents that agree, *)
(* any number of operators running the script at once, of failing calls    *)
(* and of rotations.                                                       *)
(***************************************************************************)
EXTENDS SetupVault, SecretCopyProofs, SequenceTheorems

-----------------------------------------------------------------------------
(* The calls of the script.                                                *)

CallsWith(op, args) == [op : {op}, arg : args]

AnyCall ==
  UNION {CallsWith("enable", {"kv", "auth"}), CallsWith("config", {"auth"}),
         CallsWith("policy", PolicyRows), CallsWith("role", RoleRows),
         CallsWith("seed", SeedRows)}

\* A table gives one call for each of its rows.
LEMMA CallsOf ==
  ASSUME NEW S, NEW args \in Seq(S), NEW op
  PROVE  /\ Calls(op, args) \in Seq(CallsWith(op, S))
         /\ Range(Calls(op, args)) = CallsWith(op, Range(args))
<1> DEFINE f == [n \in 1 .. Len(args) |-> [op |-> op, arg |-> args[n]]]
<1>1. DOMAIN args = 1 .. Len(args) /\ Len(args) \in Nat
  OBVIOUS
<1>2. Calls(op, args) = f
  BY <1>1 DEF Calls
<1>3. \A n \in 1 .. Len(args) : f[n] \in CallsWith(op, S)
  BY <1>1 DEF CallsWith
<1>4. f \in Seq(CallsWith(op, S))
  BY <1>1, <1>3
<1>5. ASSUME NEW x PROVE x \in Range(f) <=> x \in CallsWith(op, Range(args))
  <2>1. x \in Range(f) <=> \E n \in 1 .. Len(args) : x = [op |-> op, arg |-> args[n]]
    BY DEF Range
  <2>2. x \in CallsWith(op, Range(args)) <=>
          \E y \in Range(args) : x = [op |-> op, arg |-> y]
    BY DEF CallsWith
  <2>3. \A y : y \in Range(args) <=> \E n \in 1 .. Len(args) : y = args[n]
    BY <1>1 DEF Range
  <2> QED
    BY <2>1, <2>2, <2>3, Zenon
<1> QED
  BY <1>2, <1>4, <1>5

LEMMA Joined ==
  ASSUME NEW S, NEW s \in Seq(S), NEW t \in Seq(S)
  PROVE  s \o t \in Seq(S) /\ Range(s \o t) = Range(s) \cup Range(t)
BY ConcatProperties, RangeConcatenation

LEMMA JoinedFive ==
  ASSUME NEW S, NEW a \in Seq(S), NEW b \in Seq(S), NEW c \in Seq(S),
         NEW d \in Seq(S), NEW e \in Seq(S)
  PROVE  /\ (((a \o b) \o c) \o d) \o e \in Seq(S)
         /\ Range((((a \o b) \o c) \o d) \o e) =
              Range(a) \cup Range(b) \cup Range(c) \cup Range(d) \cup Range(e)
<1> DEFINE ab == a \o b
           abc == ab \o c
           abcd == abc \o d
<1>1. ab \in Seq(S) /\ Range(ab) = Range(a) \cup Range(b)
  BY Joined
<1> HIDE DEF ab
<1>2. abc \in Seq(S) /\ Range(abc) = Range(ab) \cup Range(c)
  BY <1>1, Joined
<1> HIDE DEF abc
<1>3. abcd \in Seq(S) /\ Range(abcd) = Range(abc) \cup Range(d)
  BY <1>2, Joined
<1> HIDE DEF abcd
<1>4. abcd \o e \in Seq(S) /\ Range(abcd \o e) = Range(abcd) \cup Range(e)
  BY <1>3, Joined
<1>5. (((a \o b) \o c) \o d) \o e = abcd \o e
  BY DEF ab, abc, abcd
<1> QED
  BY <1>1, <1>2, <1>3, <1>4, <1>5

\* The calls of the script are those of its tables, all of them.
LEMMA ScriptCalls ==
  /\ Script \in Seq(AnyCall)
  /\ Range(Script) = AnyCall
<1> DEFINE A == Calls("enable", <<"kv", "auth">>)
           B == Calls("config", <<"auth">>)
           C == Calls("policy", PolicyCalls)
           D == Calls("role", RoleCalls)
           E == Calls("seed", SeedCalls)
<1>1. /\ A \in Seq(AnyCall)
      /\ Range(A) = CallsWith("enable", {"kv", "auth"})
  <2>1. <<"kv", "auth">> \in Seq({"kv", "auth"}) /\ Range(<<"kv", "auth">>) = {"kv", "auth"}
    BY DEF Range
  <2>2. CallsWith("enable", {"kv", "auth"}) \subseteq AnyCall
    BY DEF AnyCall
  <2> QED
    BY <2>1, <2>2, CallsOf, SeqMonotonic
<1>2. /\ B \in Seq(AnyCall)
      /\ Range(B) = CallsWith("config", {"auth"})
  <2>1. <<"auth">> \in Seq({"auth"}) /\ Range(<<"auth">>) = {"auth"}
    BY DEF Range
  <2>2. CallsWith("config", {"auth"}) \subseteq AnyCall
    BY DEF AnyCall
  <2> QED
    BY <2>1, <2>2, CallsOf, SeqMonotonic
<1>3. ASSUME NEW S, NEW args \in Seq(S) PROVE args \in Seq({args[n] : n \in DOMAIN args})
  OBVIOUS
<1>4. /\ C \in Seq(AnyCall)
      /\ Range(C) = CallsWith("policy", PolicyRows)
  <2>1. PolicyCalls \in Seq(PolicyRows) /\ Range(PolicyCalls) = PolicyRows
    BY <1>3, TableAssumption DEF Range, PolicyRows
  <2>2. CallsWith("policy", PolicyRows) \subseteq AnyCall
    BY DEF AnyCall
  <2> QED
    BY <2>1, <2>2, CallsOf, SeqMonotonic
<1>5. /\ D \in Seq(AnyCall)
      /\ Range(D) = CallsWith("role", RoleRows)
  <2>1. RoleCalls \in Seq(RoleRows) /\ Range(RoleCalls) = RoleRows
    BY <1>3, TableAssumption DEF Range, RoleRows
  <2>2. CallsWith("role", RoleRows) \subseteq AnyCall
    BY DEF AnyCall
  <2> QED
    BY <2>1, <2>2, CallsOf, SeqMonotonic
<1>6. /\ E \in Seq(AnyCall)
      /\ Range(E) = CallsWith("seed", SeedRows)
  <2>1. SeedCalls \in Seq(SeedRows) /\ Range(SeedCalls) = SeedRows
    BY <1>3, TableAssumption DEF Range, SeedRows
  <2>2. CallsWith("seed", SeedRows) \subseteq AnyCall
    BY DEF AnyCall
  <2> QED
    BY <2>1, <2>2, CallsOf, SeqMonotonic
<1>7. Script = (((A \o B) \o C) \o D) \o E
  BY DEF Script
<1> HIDE DEF A, B, C, D, E
<1>8. Script \in Seq(AnyCall)
  BY <1>1, <1>2, <1>4, <1>5, <1>6, <1>7, JoinedFive
<1>9. Range(Script) = Range(A) \cup Range(B) \cup Range(C) \cup Range(D) \cup Range(E)
  BY <1>1, <1>2, <1>4, <1>5, <1>6, <1>7, JoinedFive
<1> QED
  BY <1>1, <1>2, <1>4, <1>5, <1>6, <1>8, <1>9 DEF AnyCall

\* The call a script is at, and the place behind it.
LEMMA AtCall ==
  ASSUME NEW o \in Operator, NEW op, At(o, op)
  PROVE  /\ at[o] \in 1 .. Len(Script) /\ Len(Script) \in Nat
         /\ at[o] + 1 \in 0 .. Done
         /\ Script[at[o]] \in AnyCall
         /\ Script[at[o]].op = op
         /\ op = "enable" => Arg(o) \in {"kv", "auth"}
         /\ op = "policy" => Arg(o) \in PolicyRows
         /\ op = "role" => Arg(o) \in RoleRows
         /\ op = "seed" => Arg(o) \in SeedRows
<1>1. /\ at[o] \in 1 .. Len(Script) /\ Len(Script) \in Nat
      /\ Script[at[o]] \in AnyCall
      /\ Script[at[o]].op = op
  BY ScriptCalls DEF At
<1>2. /\ Script[at[o]].op = "enable" => Arg(o) \in {"kv", "auth"}
      /\ Script[at[o]].op = "policy" => Arg(o) \in PolicyRows
      /\ Script[at[o]].op = "role" => Arg(o) \in RoleRows
      /\ Script[at[o]].op = "seed" => Arg(o) \in SeedRows
  BY <1>1 DEF AnyCall, CallsWith, Arg
<1>3. at[o] + 1 \in 0 .. Done
  BY <1>1 DEF Done
<1> QED
  BY <1>1, <1>2, <1>3

LEMMA SeedRowType ==
  ASSUME NEW c \in SeedRows
  PROVE  c.path \in Path /\ c.fields \subseteq Field /\ c.fields # {}
<1>1. PICK n \in DOMAIN SeedCalls : c = SeedCalls[n]
  BY DEF SeedRows
<1> DEFINE Row == [path : Path, fields : (SUBSET Field) \ {{}}]
<1>2. SeedCalls \in Seq(Row)
  BY TableAssumption
<1> HIDE DEF Row
<1>3. SeedCalls[n] \in Row
  BY <1>2
<1> QED
  BY <1>1, <1>3 DEF Row

LEMMA ContentType ==
  ASSUME NEW c \in SeedRows, NEW val \in Fresh
  PROVE  /\ Content(c.fields, val) \in [Field -> VaultVal]
         /\ Content(c.fields, val) # NoContent
<1>1. Content(c.fields, val) \in [Field -> VaultVal]
  BY SetupAssumption DEF Content
<1>2. PICK f \in Field : f \in c.fields
  BY SeedRowType
<1>3. Content(c.fields, val)[f] = val /\ NoContent[f] = Null /\ val # Null
  BY <1>2, SetupAssumption DEF Content, NoContent
<1> QED
  BY <1>1, <1>3

-----------------------------------------------------------------------------
(* The script and Vault's refusals as surroundings of agents.              *)

\* A step of the script changes at most one path of Vault, to what a row of
\* the table of seeds says; so does a rotation.
Seeds(c) ==
  /\ "kv" \in mounts
  /\ \E val \in Fresh : vault' = [vault EXCEPT ![c.path] = Content(c.fields, val)]

LEMMA ScriptVault ==
  ASSUME NEW o \in Operator, RunScript(o) \/ ScriptStep(o)
  PROVE  /\ UNCHANGED <<puts, secrets, rollout, agentVars>>
         /\ UNCHANGED vault \/ (\E c \in SeedRows : Seeds(c))
<1>1. CASE SeedWrite(o)
  <2>1. Arg(o) \in SeedRows
    BY <1>1, AtCall DEF SeedWrite
  <2> QED
    BY <1>1, <2>1, Zenon DEF SeedWrite, Seeds
<1>2. CASE RunScript(o) \/ Enable(o) \/ EnableFails(o) \/ ConfigureAuth(o) \/ WritePolicy(o)
  BY <1>2 DEF RunScript, Enable, EnableFails, ConfigureAuth, WritePolicy, vars, vaultVars
<1>3. CASE WriteRole(o) \/ SeedSkip(o) \/ SeedAbsent(o) \/ ScriptFails(o)
  BY <1>3 DEF WriteRole, SeedSkip, SeedAbsent, ScriptFails, vars, vaultVars
<1> QED
  BY <1>1, <1>2, <1>3 DEF ScriptStep

LEMMA RotateVault ==
  ASSUME TypeOK, NEW n \in DOMAIN SeedCalls, Rotate(n)
  PROVE  /\ UNCHANGED <<secrets, rollout, agentVars, setupVars>>
         /\ puts' \in 0 .. MaxPuts
         /\ \E c \in SeedRows : Seeds(c)
<1>1. SeedCalls[n] \in SeedRows /\ Seeds(SeedCalls[n])
  BY DEF SeedRows, Seeds, Rotate
<1>2. puts' \in 0 .. MaxPuts
  BY AgentAssumption DEF Rotate, TypeOK
<1> QED
  BY <1>1, <1>2 DEF Rotate

LEMMA VaultIsElsewhere ==
  ASSUME TypeOK, UNCHANGED <<secrets, rollout, agentVars>>, puts' \in 0 .. MaxPuts,
         UNCHANGED vault \/ (\E c \in SeedRows : Seeds(c))
  PROVE  Elsewhere
<1>1. ASSUME NEW c \in SeedRows, Seeds(c)
      PROVE  \E p \in Path, content \in [Field -> VaultVal] :
               vault' = [vault EXCEPT ![p] = content]
  BY <1>1, SeedRowType, ContentType DEF Seeds
<1> QED
  BY <1>1 DEF Elsewhere, TypeOK

LEMMA AgentPart ==
  ASSUME NEW a \in Agent, PermittedStep(a) \/ Denied(a) \/ Begin(a)
  PROVE  /\ StepOf(a)
         /\ UNCHANGED <<vault, setupVars>>
<1>1. CASE PermittedStep(a)
  BY <1>1 DEF PermittedStep, StepOf, AgentStep, FetchStart, Login, FetchLoop, SecretLoop,
              ReadEntry, Collect, FieldMissing, GetSecret, WriteSecret, AnswerLost,
              WriteRefused, CallFails, Restart, RestartFails, Wake, vaultVars
<1>2. CASE Denied(a)
  <2>1. pc[a] \in CallSite \cup {"restart"}
    BY <1>2 DEF Denied, Permitted, AtApi, CallSite
  <2> QED
    BY <1>2, <2>1 DEF Denied, StepOf, GivesUp, vaultVars
<1>3. CASE Begin(a)
  <2>1. PICK c \in Commands[a] : StartAgent(a, c)
    BY <1>3 DEF Begin
  <2>2. c \in {"fetch", "watch"}
    BY AgentAssumption
  <2> QED
    BY <1>3, <2>1, <2>2 DEF Begin, StepOf, Process, StartAgent, vaultVars
<1> QED
  BY <1>1, <1>2, <1>3

LEMMA SetupNextIsAnyStep ==
  ASSUME TypeOK, [SetupNext]_svars
  PROVE  AnyStep
<1>1. ASSUME NEW o \in Operator, RunScript(o) \/ ScriptStep(o) PROVE Elsewhere
  BY <1>1, ScriptVault, VaultIsElsewhere DEF TypeOK
<1>2. ASSUME NEW n \in DOMAIN SeedCalls, Rotate(n) PROVE Elsewhere
  BY <1>2, RotateVault, VaultIsElsewhere
<1>3. ASSUME UNCHANGED svars PROVE AnyStep
  BY <1>3, NextIsAnyStep DEF svars
<1> QED
  BY <1>1, <1>2, <1>3, AgentPart DEF SetupNext, AnyStep

-----------------------------------------------------------------------------
(* Types.                                                                  *)

\* The cases of a step, as far as the variables of the script go.
LEMMA SetupCases ==
  ASSUME TypeOK, [SetupNext]_svars
  PROVE  \/ \E o \in Operator : RunScript(o) \/ ScriptStep(o)
         \/ UNCHANGED setupVars
<1>1. ASSUME UNCHANGED svars PROVE UNCHANGED setupVars
  BY <1>1 DEF svars
<1> QED
  BY <1>1, AgentPart, RotateVault DEF SetupNext

LEMMA RoleRowType ==
  ASSUME NEW r \in RoleRows
  PROVE  r \in [role : {x.role : x \in RoleRows},
                sa : {x.sa : x \in RoleRows},
                policy : {c.policy : c \in PolicyRows}]
<1>1. PICK n \in DOMAIN RoleCalls : r = RoleCalls[n]
  BY DEF RoleRows
<1> DEFINE Row == [role : STRING, sa : STRING, policy : STRING]
<1>2. RoleCalls \in Seq(Row)
  BY TableAssumption
<1> HIDE DEF Row
<1>3. RoleCalls[n] \in Row
  BY <1>2
<1>4. r = [role |-> r.role, sa |-> r.sa, policy |-> r.policy]
  BY <1>1, <1>3 DEF Row
<1>5. r.policy \in {c.policy : c \in PolicyRows}
  BY TableAssumption
<1> QED
  BY <1>4, <1>5

LEMMA SetupInitType == SetupInit => SetupTypeOK
<1>1. 0 \in 0 .. Done /\ 0 \in 0 .. MaxFails
  BY ScriptCalls, SetupAssumption DEF Done
<1> QED
  BY <1>1, InitType DEF SetupInit, SetupTypeOK

LEMMA SetupTypeStep ==
  ASSUME SetupTypeOK, TypeOK', [SetupNext]_svars
  PROVE  SetupTypeOK'
<1> USE DEF SetupTypeOK
<1>1. CASE UNCHANGED setupVars
  BY <1>1 DEF setupVars
<1>2. ASSUME NEW o \in Operator, RunScript(o) PROVE SetupTypeOK'
  <2>1. 1 \in 0 .. Done
    BY ScriptCalls DEF Done
  <2> QED
    BY <1>2, <2>1 DEF RunScript, Goes
<1>3. ASSUME NEW o \in Operator, ScriptStep(o) PROVE SetupTypeOK'
  <2>0. /\ at[o] + 1 \in 0 .. Done => [at EXCEPT ![o] = at[o] + 1] \in [Operator -> 0 .. Done]
        /\ [at EXCEPT ![o] = 0] \in [Operator -> 0 .. Done]
    BY ScriptCalls DEF Done
  <2>1. CASE Enable(o)
    <3>1. Arg(o) \in {"kv", "auth"} /\ at[o] + 1 \in 0 .. Done
      BY <2>1, AtCall DEF Enable
    <3> QED
      BY <2>0, <2>1, <3>1 DEF Enable, Goes
  <2>2. ASSUME fails < MaxFails, fails' = fails + 1 PROVE fails' \in 0 .. MaxFails
    BY <2>2, SetupAssumption
  <2>3. CASE EnableFails(o)
    <3>1. at[o] + 1 \in 0 .. Done
      BY <2>3, AtCall DEF EnableFails
    <3> QED
      BY <2>0, <2>2, <2>3, <3>1 DEF EnableFails, Goes
  <2>4. CASE ConfigureAuth(o)
    <3>1. at[o] + 1 \in 0 .. Done
      BY <2>4, AtCall DEF ConfigureAuth
    <3> QED
      BY <2>0, <2>4, <3>1 DEF ConfigureAuth, Goes
  <2>5. CASE WritePolicy(o)
    <3>1. Arg(o) \in PolicyRows /\ at[o] + 1 \in 0 .. Done
      BY <2>5, AtCall DEF WritePolicy
    <3>2. policies' \subseteq policies \cup {Arg(o)}
      BY <2>5 DEF WritePolicy
    <3>3. policies' \subseteq PolicyRows
      BY <3>1, <3>2
    <3> QED
      BY <2>0, <2>5, <3>1, <3>3 DEF WritePolicy, Goes
  <2>6. CASE WriteRole(o)
    <3>1. Arg(o) \in RoleRows /\ at[o] + 1 \in 0 .. Done
      BY <2>6, AtCall DEF WriteRole
    <3>2. Arg(o) \in [role : {x.role : x \in RoleRows}, sa : {x.sa : x \in RoleRows},
                      policy : {c.policy : c \in PolicyRows}]
      BY <3>1, RoleRowType
    <3>3. roles' \subseteq roles \cup {Arg(o)}
      BY <2>6 DEF WriteRole
    <3> QED
      BY <2>0, <2>6, <3>1, <3>2, <3>3 DEF WriteRole, Goes
  <2>7. CASE SeedSkip(o) \/ SeedWrite(o)
    <3>1. at[o] + 1 \in 0 .. Done
      BY <2>7, AtCall DEF SeedSkip, SeedWrite
    <3> QED
      BY <2>0, <2>7, <3>1 DEF SeedSkip, SeedWrite, Goes
  <2>8. CASE SeedAbsent(o)
    BY <2>2, <2>8 DEF SeedAbsent
  <2>9. CASE ScriptFails(o)
    BY <2>0, <2>2, <2>9 DEF ScriptFails, Goes
  <2> QED
    BY <1>3, <2>1, <2>3, <2>4, <2>5, <2>6, <2>7, <2>8, <2>9 DEF ScriptStep
<1> QED
  BY <1>1, <1>2, <1>3, SetupCases

-----------------------------------------------------------------------------
(* What the script leaves behind.                                          *)

\* A path is only ever written by a row of the table of seeds, into a mounted
\* engine.
SeedInv ==
  \A p \in Path : Present(p) =>
    /\ "kv" \in mounts
    /\ \E c \in SeedRows, val \in Fresh : c.path = p /\ vault[p] = Content(c.fields, val)

RoleInv == roles \subseteq RoleRows

\* What a call has brought about.  `enable` promises nothing: the script takes
\* its failure for success.
Effect(c) ==
  /\ c.op = "config" => authConf
  /\ c.op = "policy" => c.arg \in policies
  /\ c.op = "role" => c.arg \in roles
  /\ c.op = "seed" => "kv" \in mounts /\ Present(c.arg.path)

\* The calls a script has behind it have their effect, whoever else runs it,
\* and whatever failed.
EffectInv ==
  \A o \in Operator : \A n \in 1 .. at[o] - 1 : Effect(Script[n])

\* Nobody but the script and a rotation changes Vault.
LEMMA VaultSteps ==
  ASSUME TypeOK, [SetupNext]_svars
  PROVE  UNCHANGED vault \/ \E c \in SeedRows : Seeds(c)
BY ScriptVault, RotateVault, AgentPart DEF SetupNext, svars, vars, vaultVars

\* What replaces a policy or a role of the same name is the same row.
LEMMA TablesGrow ==
  ASSUME SetupTypeOK, RoleInv, NEW o \in Operator, RunScript(o) \/ ScriptStep(o)
  PROVE  policies \subseteq policies' /\ roles \subseteq roles'
<1>1. CASE WritePolicy(o)
  <2>1. Arg(o) \in PolicyRows
    BY <1>1, AtCall DEF WritePolicy
  <2>2. \A c \in policies : c.policy = Arg(o).policy => c = Arg(o)
    BY <2>1, TableAssumption DEF SetupTypeOK
  <2> QED
    BY <1>1, <2>2 DEF WritePolicy
<1>2. CASE WriteRole(o)
  <2>1. Arg(o) \in RoleRows
    BY <1>2, AtCall DEF WriteRole
  <2>2. \A r \in roles : r.role = Arg(o).role => r = Arg(o)
    BY <2>1, TableAssumption DEF RoleInv
  <2> QED
    BY <1>2, <2>2 DEF WriteRole
<1>3. CASE ~WritePolicy(o) /\ ~WriteRole(o)
  BY <1>3 DEF RunScript, ScriptStep, Enable, EnableFails, ConfigureAuth, SeedSkip,
              SeedAbsent, SeedWrite, ScriptFails
<1> QED
  BY <1>1, <1>2, <1>3

\* Nothing the script has set up is ever undone.
LEMMA SetupGrows ==
  ASSUME SetupTypeOK, RoleInv, [SetupNext]_svars
  PROVE  /\ mounts \subseteq mounts' /\ policies \subseteq policies' /\ roles \subseteq roles'
         /\ authConf => authConf'
         /\ \A p \in Path : Present(p) => Present(p)'
<1>2. ASSUME NEW o \in Operator, RunScript(o) \/ ScriptStep(o)
      PROVE  /\ mounts \subseteq mounts' /\ policies \subseteq policies' /\ roles \subseteq roles'
             /\ authConf => authConf'
  <2>1. mounts \subseteq mounts' /\ (authConf => authConf')
    BY <1>2 DEF RunScript, ScriptStep, Enable, EnableFails, ConfigureAuth, WritePolicy,
                WriteRole, SeedSkip, SeedAbsent, SeedWrite, ScriptFails
  <2> QED
    BY <1>2, <2>1, TablesGrow
<1>3. mounts \subseteq mounts' /\ policies \subseteq policies' /\ roles \subseteq roles'
        /\ (authConf => authConf')
  BY <1>2, SetupCases DEF SetupTypeOK, setupVars
<1>4. UNCHANGED vault \/ \E c \in SeedRows : Seeds(c)
  BY VaultSteps DEF SetupTypeOK
<1>5. ASSUME NEW c \in SeedRows, Seeds(c), NEW p \in Path, Present(p)
      PROVE  Present(p)'
  <2>1. PICK val \in Fresh : vault' = [vault EXCEPT ![c.path] = Content(c.fields, val)]
    BY <1>5 DEF Seeds
  <2>2. vault'[p] = IF p = c.path THEN Content(c.fields, val) ELSE vault[p]
    BY <2>1 DEF SetupTypeOK, TypeOK
  <2>3. vault'[p] # NoContent
    BY <1>5, <2>2, ContentType DEF Present
  <2> QED
    BY <2>3 DEF Present
<1> QED
  BY <1>3, <1>4, <1>5 DEF Present

LEMMA SeedStep ==
  ASSUME SetupTypeOK, RoleInv, SeedInv, [SetupNext]_svars
  PROVE  SeedInv'
<1> SUFFICES ASSUME NEW p \in Path, Present(p)'
             PROVE  /\ "kv" \in mounts'
                    /\ \E c \in SeedRows, val \in Fresh :
                         c.path = p /\ vault'[p] = Content(c.fields, val)
  BY DEF SeedInv
<1>1. CASE vault'[p] = vault[p]
  <2>1. Present(p)
    BY <1>1 DEF Present
  <2> QED
    BY <1>1, <2>1, SetupGrows DEF SeedInv
<1>2. ASSUME NEW c \in SeedRows, Seeds(c), vault'[p] # vault[p]
      PROVE  /\ "kv" \in mounts'
             /\ \E val \in Fresh : c.path = p /\ vault'[p] = Content(c.fields, val)
  <2>1. PICK val \in Fresh : vault' = [vault EXCEPT ![c.path] = Content(c.fields, val)]
    BY <1>2 DEF Seeds
  <2>2. p = c.path /\ vault'[p] = Content(c.fields, val)
    BY <1>2, <2>1 DEF SetupTypeOK, TypeOK
  <2> QED
    BY <1>2, <2>2, SetupGrows DEF Seeds
<1> QED
  BY <1>1, <1>2, VaultSteps DEF SetupTypeOK

LEMMA RoleStep ==
  ASSUME SetupTypeOK, RoleInv, [SetupNext]_svars
  PROVE  RoleInv'
<1>1. CASE UNCHANGED setupVars
  BY <1>1 DEF setupVars, RoleInv
<1>2. ASSUME NEW o \in Operator, RunScript(o) \/ ScriptStep(o)
      PROVE  RoleInv'
  <2>1. CASE WriteRole(o)
    BY <2>1, AtCall DEF WriteRole, RoleInv
  <2>2. CASE ~WriteRole(o)
    <3>1. UNCHANGED roles
      BY <1>2, <2>2 DEF RunScript, ScriptStep, Enable, EnableFails, ConfigureAuth,
                        WritePolicy, SeedSkip, SeedAbsent, SeedWrite, ScriptFails
    <3> QED
      BY <3>1 DEF RoleInv
  <2> QED
    BY <2>1, <2>2
<1> QED
  BY <1>1, <1>2, SetupCases DEF SetupTypeOK

\* Where a step takes a script: nowhere, to a call that comes first, or past
\* the call it is at, which then has its effect.
LEMMA ScriptMoves ==
  ASSUME SetupTypeOK, NEW o \in Operator, RunScript(o) \/ ScriptStep(o), NEW n, n = at[o]
  PROVE  \/ UNCHANGED at
         \/ \E k \in {0, 1} : at' = [at EXCEPT ![o] = k]
         \/ /\ at' = [at EXCEPT ![o] = n + 1]
            /\ n \in 1 .. Len(Script)
            /\ Effect(Script[n])'
<1> USE DEF Goes
<1>1. CASE RunScript(o) \/ SeedAbsent(o) \/ ScriptFails(o)
  BY <1>1 DEF RunScript, SeedAbsent, ScriptFails
<1>2. CASE Enable(o) \/ EnableFails(o)
  <2>1. Script[n].op = "enable" /\ n \in 1 .. Len(Script)
    BY <1>2, AtCall DEF Enable, EnableFails
  <2> QED
    BY <1>2, <2>1 DEF Enable, EnableFails, Effect
<1>3. CASE ConfigureAuth(o)
  <2>1. Script[n].op = "config" /\ n \in 1 .. Len(Script)
    BY <1>3, AtCall DEF ConfigureAuth
  <2> QED
    BY <1>3, <2>1 DEF ConfigureAuth, Effect
<1>4. CASE WritePolicy(o)
  <2>1. Script[n].op = "policy" /\ n \in 1 .. Len(Script)
    BY <1>4, AtCall DEF WritePolicy
  <2>2. Script[n].arg \in policies'
    BY <1>4 DEF WritePolicy, Arg
  <2> QED
    BY <1>4, <2>1, <2>2 DEF WritePolicy, Effect
<1>5. CASE WriteRole(o)
  <2>1. Script[n].op = "role" /\ n \in 1 .. Len(Script)
    BY <1>5, AtCall DEF WriteRole
  <2>2. Script[n].arg \in roles'
    BY <1>5 DEF WriteRole, Arg
  <2> QED
    BY <1>5, <2>1, <2>2 DEF WriteRole, Effect
<1>6. CASE SeedSkip(o)
  <2>1. Script[n].op = "seed" /\ n \in 1 .. Len(Script)
    BY <1>6, AtCall DEF SeedSkip
  <2>2. "kv" \in mounts' /\ vault'[Script[n].arg.path] # NoContent
    BY <1>6 DEF SeedSkip, Arg, Present, vars, vaultVars
  <2> QED
    BY <1>6, <2>1, <2>2 DEF SeedSkip, Effect, Present
<1>7. CASE SeedWrite(o)
  <2>1. Arg(o) \in SeedRows /\ n \in 1 .. Len(Script) /\ Script[n].op = "seed"
    BY <1>7, AtCall DEF SeedWrite
  <2>2. PICK val \in Fresh : vault' = [vault EXCEPT ![Arg(o).path] = Content(Arg(o).fields, val)]
    BY <1>7 DEF SeedWrite
  <2>3. vault'[Arg(o).path] = Content(Arg(o).fields, val)
    BY <2>1, <2>2, SeedRowType DEF SetupTypeOK, TypeOK
  <2>4. vault'[Script[n].arg.path] # NoContent
    BY <2>1, <2>3, ContentType DEF Arg
  <2> QED
    BY <1>7, <2>1, <2>4 DEF SeedWrite, Effect, Present
<1> QED
  BY <1>1, <1>2, <1>3, <1>4, <1>5, <1>6, <1>7 DEF ScriptStep

LEMMA EffectStep ==
  ASSUME SetupTypeOK, RoleInv, EffectInv, [SetupNext]_svars
  PROVE  EffectInv'
<1>0. Len(Script) \in Nat /\ Done = Len(Script) + 1 /\ at \in [Operator -> 0 .. Done]
  BY ScriptCalls DEF Done, SetupTypeOK
<1>1. ASSUME NEW n \in 1 .. Len(Script), Effect(Script[n]) PROVE Effect(Script[n])'
  <2>1. Script[n] \in AnyCall
    BY ScriptCalls
  <2>2. Script[n].op = "seed" => Script[n].arg \in SeedRows
    BY <2>1 DEF AnyCall, CallsWith
  <2>3. Script[n].op = "seed" => Script[n].arg.path \in Path
    BY <2>2, SeedRowType
  <2> QED
    BY <1>1, <2>3, SetupGrows DEF Effect
<1> SUFFICES ASSUME NEW b \in Operator, NEW n \in 1 .. at'[b] - 1
             PROVE  Effect(Script[n])'
  BY DEF EffectInv
<1>2. CASE n \in 1 .. at[b] - 1
  <2>1. n \in 1 .. Len(Script)
    BY <1>0, <1>2
  <2> QED
    BY <1>1, <1>2, <2>1 DEF EffectInv
<1>3. CASE n \notin 1 .. at[b] - 1
  <2>1. at'[b] # at[b]
    BY <1>3
  <2>2. PICK o \in Operator : RunScript(o) \/ ScriptStep(o)
    BY <2>1, SetupCases DEF setupVars, SetupTypeOK
  <2>5. PICK m : m = at[o]
    OBVIOUS
  <2>3. /\ at' = [at EXCEPT ![o] = m + 1]
        /\ Effect(Script[m])'
    <3>1. ASSUME NEW k \in {0, 1}, at' = [at EXCEPT ![o] = k] PROVE FALSE
      BY <1>0, <2>1, <3>1
    <3> QED
      BY <2>1, <2>2, <2>5, <3>1, ScriptMoves
  <2>4. b = o /\ n = m
    BY <1>0, <1>3, <2>1, <2>3, <2>5
  <2> QED
    BY <2>3, <2>4
<1> QED
  BY <1>2, <1>3

-----------------------------------------------------------------------------
(* The command of each agent.                                              *)

\* Only an agent that is run with `watch` ever restarts its workload.
CommandInv ==
  \A a \in Agent :
    /\ cmd[a] = "watch" => "watch" \in Commands[a]
    /\ pc[a] = "restart" => cmd[a] = "watch"

LEMMA CommandStep ==
  ASSUME TypeOK, CommandInv, [SetupNext]_svars
  PROVE  CommandInv'
<1> SUFFICES ASSUME NEW b \in Agent
             PROVE  /\ cmd'[b] = "watch" => "watch" \in Commands[b]
                    /\ pc'[b] = "restart" => cmd'[b] = "watch"
  BY DEF CommandInv
<1>0. /\ cmd[b] = "watch" => "watch" \in Commands[b]
      /\ pc[b] = "restart" => cmd[b] = "watch"
  BY DEF CommandInv
<1>1. CASE UNCHANGED agentVars
  BY <1>0, <1>1 DEF agentVars
<1>2. ASSUME NEW a \in Agent, a # b, StepOf(a)
      PROVE  pc'[b] = pc[b] /\ cmd'[b] = cmd[b]
  BY <1>2, Frame
<1>3. CASE PermittedStep(b)
  <2> USE DEF TypeOK, Goto
  <2>1. AgentStep(b)
    BY <1>3 DEF PermittedStep
  <2>2. cmd' = cmd
    BY <2>1, CommandKept
  <2>3. ASSUME pc'[b] = "restart" PROVE cmd[b] = "watch"
    <3>1. CASE FetchStart(b) \/ Login(b) \/ FetchLoop(b)
      BY <2>3, <3>1 DEF FetchStart, Login, FetchLoop, SecretLoop, AfterFetch
    <3>2. CASE ReadEntry(b) \/ FieldMissing(b) \/ GetSecret(b)
      BY <2>3, <3>2 DEF ReadEntry, Collect, FieldMissing, GetSecret, AfterFetch
    <3>3. CASE WriteSecret(b) \/ AnswerLost(b) \/ WriteRefused(b) \/ CallFails(b)
      BY <2>3, <3>3 DEF WriteSecret, AnswerLost, WriteRefused, CallFails, AfterFetch
    <3>4. CASE Restart(b) \/ RestartFails(b) \/ Wake(b)
      BY <2>3, <3>4 DEF Restart, RestartFails, Wake
    <3> QED
      BY <2>1, <3>1, <3>2, <3>3, <3>4 DEF AgentStep
  <2> QED
    BY <1>0, <2>2, <2>3
<1>4. CASE Denied(b)
  <2>1. GivesUp(b)
    BY <1>4 DEF Denied, Permitted, AtApi, CallSite, GivesUp
  <2> QED
    BY <1>0, <2>1, GivesUpTo
<1>5. CASE Begin(b)
  BY <1>5 DEF Begin, StartAgent, Goto, TypeOK
<1>6. ASSUME NEW o \in Operator, RunScript(o) \/ ScriptStep(o) PROVE UNCHANGED agentVars
  BY <1>6, ScriptVault
<1>7. ASSUME NEW n \in DOMAIN SeedCalls, Rotate(n) PROVE UNCHANGED agentVars
  BY <1>7, RotateVault
<1>8. ASSUME UNCHANGED svars PROVE UNCHANGED agentVars
  BY <1>8 DEF svars, vars
<1> QED
  BY <1>0, <1>1, <1>2, <1>3, <1>4, <1>5, <1>6, <1>7, <1>8, AgentPart DEF SetupNext

-----------------------------------------------------------------------------
(* The invariant of the agents next to the script, and what follows.       *)

SetupInv ==
  /\ SetupTypeOK /\ AgentInv /\ HandInv
  /\ SeedInv /\ RoleInv /\ EffectInv /\ CommandInv

LEMMA SetupInvInit == SetupInit => SetupInv
<1> SUFFICES ASSUME SetupInit PROVE SetupInv
  OBVIOUS
<1>1. SetupTypeOK /\ AgentInv /\ HandInv
  BY SetupInitType, AgentInvInit, HandInit DEF SetupInit
<1>2. SeedInv
  BY DEF SetupInit, SeedInv, Present
<1>3. RoleInv
  BY DEF SetupInit, RoleInv
<1>4. EffectInv
  BY DEF SetupInit, EffectInv
<1>5. CommandInv
  BY DEF SetupInit, Init, CommandInv
<1> QED
  BY <1>1, <1>2, <1>3, <1>4, <1>5 DEF SetupInv

LEMMA SetupInvStep == SetupInv /\ [SetupNext]_svars => SetupInv'
<1> SUFFICES ASSUME SetupInv, [SetupNext]_svars PROVE SetupInv'
  OBVIOUS
<1> USE DEF SetupInv
<1>0. TypeOK
  BY DEF SetupTypeOK
<1>1. AgentInv' /\ HandInv'
  BY <1>0, SetupNextIsAnyStep, AgentInvStep, HandStep
<1>2. SetupTypeOK'
  BY <1>1, SetupTypeStep DEF AgentInv
<1> QED
  BY <1>0, <1>1, <1>2, SeedStep, RoleStep, EffectStep, CommandStep

\* Every variable of the script, of Vault and of the agents keeps its type: no
\* script runs past its last call, and no more calls fail than the bound says.
THEOREM SetupTypeCorrect == SetupSpec => []SetupTypeOK
<1>1. SetupInv => SetupTypeOK
  BY DEF SetupInv
<1> QED
  BY <1>1, SetupInvInit, SetupInvStep, PTL DEF SetupSpec

\* Agents that Vault and the API server may refuse, next to scripts that write
\* what they read, implement SecretCopy.
THEOREM SetupCopiesFaithfully == SetupSpec => CopiesFaithfully
<1>1. SetupInit => Copy!Init
  BY CopyInit DEF SetupInit
<1>2. SetupInv /\ [SetupNext]_svars => [Copy!Next]_(Copy!vars)
  BY SetupNextIsAnyStep, CopyStep DEF SetupInv, SetupTypeOK
<1> QED
  BY <1>1, <1>2, SetupInvInit, SetupInvStep, PTL DEF SetupSpec, CopiesFaithfully, Copy!Spec

\* "Each app role can read only its own secret paths", at every point of every
\* run of the script: policies and roles only ever come from its tables, so
\* that the union of the policies of a role's name stays within what the
\* tables allow (NarrowAssumption).
THEOREM LeastPrivilegeHolds == SetupSpec => []LeastPrivilege
<1>1. SetupInv => LeastPrivilege
  <2> SUFFICES ASSUME SetupInv, NEW r \in roles, r.sa # Bootstrap, NEW p \in Readable(r)
               PROVE  p \in NeededPaths(r.sa)
    BY DEF LeastPrivilege
  <2>1. r \in RoleRows
    BY DEF SetupInv, RoleInv
  <2>2. PICK c \in policies : c.policy = r.policy /\ p \in c.paths
    BY DEF Readable
  <2>3. c \in PolicyRows
    BY DEF SetupInv, SetupTypeOK
  <2> QED
    BY <2>1, <2>2, <2>3, NarrowAssumption
<1> QED
  BY <1>1, SetupInvInit, SetupInvStep, PTL DEF SetupSpec

\* The Secret an agent calls the API server about belongs to a target that its
\* ServiceAccount has rules for.
LEMMA OwnTarget ==
  ASSUME SetupInv, NEW a \in Agent, pc[a] \in {"get", "post", "patch"}
  PROVE  \E t \in TargetSet :
           /\ CurSecret(a) = t.secretName
           /\ ReadAndRotate(t) \cup {CreateSecrets} \subseteq Rules(Account[a])
<1>1. cur[a] \in Nat /\ cur[a] < SecretsN(a) /\ SecretsN(a) \in Nat
  BY LookupType DEF SetupInv, AgentInv, TypeOK, CursorInv, CursorOK, InSecret
<1>2. CASE Config[a] = JobFile(Targets) /\ Account[a] = Bootstrap
  <2>1. cur[a] + 1 \in DOMAIN Config[a]
    BY <1>1, ConfigAssumption DEF SecretsN
  <2>2. cur[a] + 1 \in DOMAIN Targets
    BY <1>2, <2>1 DEF JobFile
  <2> DEFINE t == Targets[cur[a] + 1]
  <2>3. t \in TargetSet /\ CurSecret(a) = t.secretName
    BY <1>2, <2>2 DEF TargetSet, CurSecret, SecretName, JobFile, TargetSecret
  <2>4. BootstrapRules \subseteq Rules(Account[a])
    BY <1>2 DEF Rules
  <2>5. ReadAndRotate(t) \cup {CreateSecrets} \subseteq BootstrapRules
    BY <2>3 DEF BootstrapRules
  <2> QED
    BY <2>3, <2>4, <2>5
<1>3. ASSUME NEW t \in TargetSet, NEW car \in t.sidecar, Config[a] = SidecarFile(t),
             Account[a] = car.serviceAccountName
      PROVE  /\ CurSecret(a) = t.secretName
             /\ ReadAndRotate(t) \cup {CreateSecrets} \subseteq Rules(Account[a])
  <2>1. cur[a] = 0
    BY <1>1, <1>3 DEF SecretsN, SidecarFile
  <2>2. CurSecret(a) = t.secretName
    BY <1>3, <2>1 DEF CurSecret, SecretName, SidecarFile, TargetSecret
  <2>3. AppRules(t, car) \subseteq Rules(Account[a])
    BY <1>3 DEF Rules
  <2> QED
    BY <2>2, <2>3 DEF AppRules
<1> QED
  BY <1>2, <1>3, ChartAssumption

LEMMA RestartAllowed ==
  ASSUME RestartTargetsAgree, SetupInv, NEW a \in Agent, pc[a] = "restart"
  PROVE  [verb |-> "patch", name |-> Target[a], resource |-> RestartResource(RestartKind[a])]
           \in Rules(Account[a])
<1>1. "watch" \in Commands[a]
  BY DEF SetupInv, CommandInv
<1>2. PICK t \in TargetSet : \E car \in t.sidecar :
        /\ Account[a] = car.serviceAccountName
        /\ Target[a] = car.workload
        /\ RestartResource(RestartKind[a]) = WorkloadResource(car.kind)
  BY <1>1 DEF RestartTargetsAgree
<1>3. PICK car \in t.sidecar :
        /\ Account[a] = car.serviceAccountName
        /\ Target[a] = car.workload
        /\ RestartResource(RestartKind[a]) = WorkloadResource(car.kind)
  BY <1>2
<1>4. AppRules(t, car) \subseteq Rules(Account[a])
  BY <1>3 DEF Rules
<1>5. [verb |-> "patch", name |-> Target[a], resource |-> RestartResource(RestartKind[a])]
        \in RestartOwn(car)
  BY <1>3 DEF RestartOwn
<1> QED
  BY <1>4, <1>5 DEF AppRules

\* No agent is ever refused a call for a Secret, whatever the targets and the
\* restart targets are: the Secrets in the mapping file the chart renders for
\* it are those its Role names.
LEMMA SecretCallsAllowed ==
  ASSUME SetupInv, NEW a \in Agent, pc[a] \in {"get", "post", "patch"}
  PROVE  Allows(Account[a], ApiCall(a))
<1>1. CASE pc[a] = "get"
  <2>1. ApiCall(a) = [verb |-> "get", resource |-> "secrets", name |-> CurSecret(a)]
    BY <1>1 DEF ApiCall, SecretCall
  <2> QED
    BY <2>1, OwnTarget DEF Allows, ReadAndRotate
<1>2. CASE pc[a] = "patch"
  <2>1. ApiCall(a) = [verb |-> "patch", resource |-> "secrets", name |-> CurSecret(a)]
    BY <1>2 DEF ApiCall, SecretCall
  <2> QED
    BY <2>1, OwnTarget DEF Allows, ReadAndRotate
<1>3. CASE pc[a] = "post"
  <2>1. ApiCall(a) = [verb |-> "create", resource |-> "secrets", name |-> CurSecret(a)]
    BY <1>3 DEF ApiCall, SecretCall
  <2>2. [ApiCall(a) EXCEPT !.name = AnyName] = CreateSecrets
    BY <2>1 DEF CreateSecrets
  <2>3. CreateSecrets \in Rules(Account[a])
    BY OwnTarget
  <2> QED
    BY <2>2, <2>3 DEF Allows
<1> QED
  BY <1>1, <1>2, <1>3

\* No agent is ever about to make a call that the chart's Roles forbid, provided
\* that the hand-written restart targets of the agents that run `watch` agree
\* with the targets: then the workload it restarts is the one its Role names,
\* and the Job, whose Role has no rule for workloads, never gets to a restart.
\* Without agents that restart, the proviso is empty.
THEOREM NeverForbiddenHolds ==
  ASSUME RestartTargetsAgree
  PROVE  SetupSpec => []NeverForbidden
<1>1. SetupInv => NeverForbidden
  <2> SUFFICES ASSUME SetupInv, NEW a \in Agent, AtApi(a)
               PROVE  Allows(Account[a], ApiCall(a))
    BY DEF NeverForbidden
  <2>1. CASE pc[a] \in {"get", "post", "patch"}
    BY <2>1, SecretCallsAllowed
  <2>2. CASE pc[a] = "restart"
    <3>1. ApiCall(a) = [verb |-> "patch", name |-> Target[a],
                        resource |-> RestartResource(RestartKind[a])]
      BY <2>2 DEF ApiCall
    <3> QED
      BY <2>2, <3>1, RestartAllowed DEF Allows
  <2> QED
    BY <2>1, <2>2 DEF AtApi
<1> QED
  BY <1>1, SetupInvInit, SetupInvStep, PTL DEF SetupSpec

\* When a script is done, every row of its tables has had its effect.
LEMMA AllDone ==
  ASSUME SetupInv, NEW o \in Operator, at[o] = Done
  PROVE  /\ authConf
         /\ PolicyRows \subseteq policies
         /\ RoleRows \subseteq roles
         /\ \A c \in SeedRows : "kv" \in mounts /\ Present(c.path)
<1>1. ASSUME NEW c \in AnyCall PROVE Effect(c)
  <2>1. PICK n \in DOMAIN Script : c = Script[n]
    BY ScriptCalls DEF Range
  <2>2. n \in 1 .. at[o] - 1
    BY ScriptCalls DEF Done
  <2> QED
    BY <2>1, <2>2 DEF SetupInv, EffectInv
<1>2. authConf
  <2>1. [op |-> "config", arg |-> "auth"] \in AnyCall
    BY DEF AnyCall, CallsWith
  <2> QED
    BY <1>1, <2>1 DEF Effect
<1>3. PolicyRows \subseteq policies
  <2>1. \A r \in PolicyRows : [op |-> "policy", arg |-> r] \in AnyCall
    BY DEF AnyCall, CallsWith
  <2> QED
    BY <1>1, <2>1 DEF Effect
<1>4. RoleRows \subseteq roles
  <2>1. \A r \in RoleRows : [op |-> "role", arg |-> r] \in AnyCall
    BY DEF AnyCall, CallsWith
  <2> QED
    BY <1>1, <2>1 DEF Effect
<1>5. ASSUME NEW r \in SeedRows PROVE "kv" \in mounts /\ Present(r.path)
  <2>1. [op |-> "seed", arg |-> r] \in AnyCall
    BY DEF AnyCall, CallsWith
  <2> QED
    BY <1>1, <2>1 DEF Effect
<1> QED
  BY <1>2, <1>3, <1>4, <1>5

\* What a finished script gives an agent for one entry of its mapping file.
LEMMA EntryServed ==
  ASSUME SetupInv, NEW o \in Operator, at[o] = Done, NEW a \in Agent,
         NEW n \in 0 .. SecretsN(a) - 1, NEW m \in 0 .. EntriesN(a, n) - 1
  PROVE  LET e == EntryAt(a, n, m) IN
         /\ "kv" \in mounts
         /\ MayLogin(a)
         /\ \E r \in RolesOf(Account[a]) :
              r.role = VaultRole[a] /\ e.vaultPath \in Readable(r)
         /\ Render[vault[e.vaultPath][e.field]] # Blank
<1> DEFINE e == EntryAt(a, n, m)
<1>0. e.vaultPath \in Path /\ e.field \in Field
  <2>1. e \in Entry
    BY LookupType
  <2> QED
    BY <2>1 DEF Entry
<1>1. /\ \E r \in RoleRows, c \in PolicyRows :
           /\ r.sa = Account[a] /\ r.role = VaultRole[a]
           /\ c.policy = r.policy /\ e.vaultPath \in c.paths
      /\ \E c \in SeedRows : c.path = e.vaultPath
      /\ \A c \in SeedRows : c.path = e.vaultPath => e.field \in c.fields
  BY CoverAssumption
<1> HIDE DEF e
<1>2. PICK r \in RoleRows, c \in PolicyRows :
        /\ r.sa = Account[a] /\ r.role = VaultRole[a]
        /\ c.policy = r.policy /\ e.vaultPath \in c.paths
  BY <1>1
<1>3. r \in RolesOf(Account[a]) /\ MayLogin(a)
  BY <1>2, AllDone DEF RolesOf, MayLogin
<1>4. e.vaultPath \in Readable(r)
  BY <1>2, AllDone DEF Readable
<1>5. "kv" \in mounts /\ Present(e.vaultPath)
  BY <1>1, AllDone
<1>6. PICK d \in SeedRows, val \in Fresh :
        d.path = e.vaultPath /\ vault[e.vaultPath] = Content(d.fields, val)
  BY <1>0, <1>5 DEF SetupInv, SeedInv
<1>7. vault[e.vaultPath][e.field] = val
  BY <1>0, <1>1, <1>6 DEF Content
<1>8. Render[vault[e.vaultPath][e.field]] # Blank
  BY <1>7, SetupAssumption
<1> QED
  BY <1>2, <1>3, <1>4, <1>5, <1>8 DEF e

\* When the script has ended with status 0, every agent can log in, and every
\* field of every entry of its mapping file can be read and has a value,
\* although `enable` and `kv get` take any failure for an answer, for any
\* number of scripts running at once, of failures and of rotations.
THEOREM SetupServesHolds == SetupSpec => []SetupServes
<1>1. SetupInv => SetupServes
  <2> SUFFICES ASSUME SetupInv, NEW o \in Operator, NEW a \in Agent,
                      at[o] = Done, HasMappings(a)
               PROVE  /\ "kv" \in mounts /\ MayLogin(a)
                      /\ \A n \in 0 .. SecretsN(a) - 1 : \A m \in 0 .. EntriesN(a, n) - 1 :
                           LET e == EntryAt(a, n, m) IN
                           /\ \E r \in RolesOf(Account[a]) :
                                r.role = VaultRole[a] /\ e.vaultPath \in Readable(r)
                           /\ Render[vault[e.vaultPath][e.field]] # Blank
    BY DEF SetupServes
  <2>1. PICK n \in 0 .. SecretsN(a) - 1 : EntriesN(a, n) > 0
    BY DEF HasMappings
  <2>2. 0 \in 0 .. EntriesN(a, n) - 1
    BY <2>1, LookupType
  <2>3. "kv" \in mounts /\ MayLogin(a)
    BY <2>2, EntryServed
  <2> QED
    BY <2>3, EntryServed
<1> QED
  BY <1>1, SetupInvInit, SetupInvStep, PTL DEF SetupSpec

-----------------------------------------------------------------------------
(* Seeding, one operator at a time.                                        *)

\* One operator, no failing call, no rotation.
Undisturbed ==
  /\ \A o, q \in Operator : o = q
  /\ MaxFails = 0
  /\ MaxPuts = 0

\* A script that is about to write a path has found it absent, and it still is.
AbsentInv ==
  \A o \in Operator : absent[o] => At(o, "seed") /\ ~Present(Arg(o).path)

LEMMA AbsentStep ==
  ASSUME Undisturbed, SetupInv, AbsentInv, [SetupNext]_svars
  PROVE  AbsentInv'
<1> USE DEF SetupInv, SetupTypeOK
<1>1. CASE UNCHANGED <<vault, at, absent>>
  BY <1>1 DEF AbsentInv, At, Arg, Present
<1>2. ASSUME NEW a \in Agent, PermittedStep(a) \/ Denied(a) \/ Begin(a)
      PROVE  UNCHANGED <<vault, at, absent>>
  BY <1>2, AgentPart DEF setupVars
<1>3. ASSUME NEW n \in DOMAIN SeedCalls, Rotate(n) PROVE FALSE
  BY <1>3 DEF Rotate, TypeOK, Undisturbed
<1>4. ASSUME UNCHANGED svars PROVE UNCHANGED <<vault, at, absent>>
  BY <1>4 DEF svars, vars, vaultVars, setupVars
<1>5. ASSUME NEW o \in Operator, RunScript(o) \/ ScriptStep(o) PROVE AbsentInv'
  <2>1. ASSUME NEW q \in Operator PROVE q = o
    BY DEF Undisturbed
  <2>2. ASSUME ~absent'[o] PROVE AbsentInv'
    BY <2>1, <2>2 DEF AbsentInv
  <2>3. ~(fails < MaxFails)
    BY DEF Undisturbed
  <2>4. ASSUME NEW op, At(o, op), op # "seed" PROVE ~absent[o]
    BY <2>4 DEF AbsentInv, At
  <2>5. CASE RunScript(o)
    BY <2>2, <2>5 DEF RunScript, AbsentInv, At
  <2>6. CASE Enable(o) \/ EnableFails(o)
    BY <2>2, <2>4, <2>6 DEF Enable, EnableFails
  <2>7. CASE ConfigureAuth(o) \/ WritePolicy(o) \/ WriteRole(o)
    BY <2>2, <2>4, <2>7 DEF ConfigureAuth, WritePolicy, WriteRole
  <2>8. CASE SeedSkip(o)
    BY <2>2, <2>8 DEF SeedSkip
  <2>9. CASE SeedAbsent(o)
    <3>1. At(o, "seed") /\ Arg(o) \in SeedRows /\ UNCHANGED <<vault, at>>
      BY <2>9, AtCall DEF SeedAbsent, vars, vaultVars
    <3>2. ~Present(Arg(o).path)
      BY <2>3, <2>9, <3>1, SeedRowType DEF SeedAbsent, SeedInv
    <3> QED
      BY <2>1, <3>1, <3>2 DEF AbsentInv, At, Arg, Present
  <2>10. CASE SeedWrite(o) \/ ScriptFails(o)
    BY <2>2, <2>10 DEF SeedWrite, ScriptFails
  <2> QED
    BY <1>5, <2>5, <2>6, <2>7, <2>8, <2>9, <2>10 DEF ScriptStep
<1> QED
  BY <1>1, <1>2, <1>3, <1>4, <1>5 DEF SetupNext

\* "only writes a key if it does not already exist" is true of one operator at
\* a time as long as no call fails and nobody else writes to Vault meanwhile:
\* between `kv get` and `kv put` nothing else can make the path.  Each of these
\* conditions is needed.
THEOREM SeedKeepsExistingUndisturbed ==
  ASSUME Undisturbed
  PROVE  SetupSpec => SeedKeepsExisting
<1>1. SetupInit => SetupInv /\ AbsentInv
  BY SetupInvInit DEF SetupInit, AbsentInv
<1>2. SetupInv /\ AbsentInv /\ [SetupNext]_svars => SetupInv' /\ AbsentInv'
  BY SetupInvStep, AbsentStep
<1>3. SetupInv /\ AbsentInv /\ [SetupNext]_svars =>
        [at' # at => \A p \in Path : Present(p) => vault'[p] = vault[p]]_svars
  <2> SUFFICES ASSUME SetupInv, AbsentInv, [SetupNext]_svars, at' # at,
                      NEW p \in Path, Present(p)
               PROVE  vault'[p] = vault[p]
    OBVIOUS
  <2>1. PICK o \in Operator : RunScript(o) \/ ScriptStep(o)
    BY SetupCases DEF setupVars, SetupInv, SetupTypeOK
  <2>2. CASE SeedWrite(o)
    <3>1. p # Arg(o).path
      BY <2>2 DEF SeedWrite, AbsentInv
    <3> QED
      BY <2>2, <3>1 DEF SeedWrite, SetupInv, SetupTypeOK, TypeOK
  <2>3. CASE ~SeedWrite(o)
    BY <2>1, <2>3 DEF RunScript, ScriptStep, Enable, EnableFails, ConfigureAuth, WritePolicy,
                      WriteRole, SeedSkip, SeedAbsent, ScriptFails, vars, vaultVars
  <2> QED
    BY <2>2, <2>3
<1> QED
  BY <1>1, <1>2, <1>3, PTL DEF SetupSpec, SeedKeepsExisting
=============================================================================
