----------------------------- MODULE SecretCopy -----------------------------
(***************************************************************************)
(* What the agents promise, without how they do it.  An agent picks one    *)
(* mapping of its file, takes the values of its entries from Vault one at  *)
(* a time, and puts into the mapping's Secret only what it took: all of it *)
(* if the Secret does not exist, any part of it if it does.  Values may be *)
(* old by the time they are put, but each is one that the very field the   *)
(* entry names had while the agent was at work on that mapping.            *)
(***************************************************************************)
EXTENDS AgentConfig

VARIABLES
  vault,    \* content of each Vault path
  secrets,  \* data of each Kubernetes Secret; NoData if it does not exist
  hand,     \* what each agent has taken so far
  from      \* number of the mapping each agent is at work on

vars == <<vault, secrets, hand, from>>

Init ==
  /\ vault \in [Path -> [Field -> VaultVal]]
  /\ secrets = [s \in Secret |-> NoData]
  /\ hand = [a \in Agent |-> NoData]
  /\ from = [a \in Agent |-> 0]

\* The agent turns, empty-handed, to mapping n.
Begin(a, n) ==
  /\ from' = [from EXCEPT ![a] = n]
  /\ hand' = [hand EXCEPT ![a] = NoData]
  /\ UNCHANGED <<vault, secrets>>

\* It takes the value that entry m of the mapping names, if there is one.
Take(a, m) ==
  LET e == EntryAt(a, from[a], m)
      t == Render[vault[e.vaultPath][e.field]]
  IN  /\ t # Blank
      /\ hand' = [hand EXCEPT ![a] = [@ EXCEPT ![e.secretKey] = Base64(t)]]
      /\ UNCHANGED <<vault, secrets, from>>

\* It makes the mapping's Secret, with every key of the mapping and no other.
Create(a) ==
  LET s == SecretName(a, from[a])
  IN  /\ secrets[s] = NoData
      /\ \A k \in Key : hand[a][k] # Absent <=> k \in MappedKeys(a, from[a])
      /\ secrets' = [secrets EXCEPT ![s] = hand[a]]
      /\ UNCHANGED <<vault, hand, from>>

\* It puts the keys in K, all of which it has taken, into the mapping's Secret.
Update(a, K) ==
  LET s == SecretName(a, from[a])
  IN  /\ secrets[s] # NoData
      /\ \A k \in K : hand[a][k] # Absent
      /\ secrets' = [secrets EXCEPT ![s] =
                       [k \in Key |-> IF k \in K THEN hand[a][k] ELSE @[k]]]
      /\ UNCHANGED <<vault, hand, from>>

\* Others write a path in Vault or delete a Secret.
Put(p) ==
  /\ \E content \in [Field -> VaultVal] : vault' = [vault EXCEPT ![p] = content]
  /\ UNCHANGED <<secrets, hand, from>>

Delete(s) ==
  /\ secrets' = [secrets EXCEPT ![s] = NoData]
  /\ UNCHANGED <<vault, hand, from>>

MappingNumbers(a) == 0 .. SecretsN(a) - 1

Next ==
  \/ \E a \in Agent :
       \/ \E n \in MappingNumbers(a) \cup {0} : Begin(a, n)
       \/ from[a] \in MappingNumbers(a) /\
            \/ \E m \in 0 .. EntriesN(a, from[a]) - 1 : Take(a, m)
            \/ Create(a)
            \/ \E K \in SUBSET Key : Update(a, K)
  \/ \E p \in Path : Put(p)
  \/ \E s \in Secret : Delete(s)

Spec == Init /\ [][Next]_vars
=============================================================================
