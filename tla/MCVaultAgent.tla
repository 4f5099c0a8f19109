---------------------------- MODULE MCVaultAgent ----------------------------
(***************************************************************************)
(* Instances of VaultAgent: agents that share one Secret of two keys, read *)
(* from two fields of one Vault path as the chart's database Secrets are,  *)
(* next to placeholder agents and to the bootstrap Job's longer files.     *)
(***************************************************************************)
EXTENDS VaultAgent, TLC

CONSTANTS u, v, null, empty  \* model values: two values, JSON null, the empty text

MCVaultVal == {u, v, null}
MCText     == {u, v, empty}
MCRender   == [x \in VaultVal |-> IF x = null THEN empty ELSE x]

\* The two values are interchangeable; for runs without liveness.
MCSymmetry == Permutations({u, v})

OneEntry(f, k) == [vaultPath |-> "p", field |-> f, secretKey |-> k]

\* A target with two keys taken from two fields of one path, one with one
\* key, and a placeholder without entries.
Pair(s)        == [secretName |-> s, mappings |-> <<OneEntry("f", "k"), OneEntry("g", "l")>>]
Single(s)      == [secretName |-> s, mappings |-> <<OneEntry("f", "k")>>]
Placeholder(s) == [secretName |-> s, mappings |-> <<>>]

\* An app's agent, as init container and as sidecar, the Job's agent, and one
\* whose file lists nothing.
SharedConfig   == [a1 |-> SidecarFile(Pair("s")),
                   a2 |-> JobFile(<<Placeholder("t"), Pair("s")>>),
                   a3 |-> JobFile(<<>>)]
SharedCommands == [a1 |-> {"fetch", "watch"}, a2 |-> {"fetch"}, a3 |-> {"fetch"}]
SharedTarget   == [a \in Agent |-> "w"]

\* A sidecar next to the Job's agent and to a placeholder's.
MixedConfig == [a1 |-> JobFile(<<Placeholder("t"), Single("s")>>),
                a2 |-> SidecarFile(Single("s")),
                a3 |-> SidecarFile(Placeholder("t"))]
MixedCommands == [a1 |-> {"fetch"}, a2 |-> {"watch"}, a3 |-> {"fetch", "watch"}]
MixedTarget   == [a \in Agent |-> "w"]

\* The chart's targets in their order.
ShippedTargets == <<Single("es"), Single("kc"), Pair("kcdb"), Pair("wm"), Single("orch"),
                    Single("opt"), Placeholder("id"), Placeholder("conn"), Placeholder("cons")>>
Shipped   == [job |-> JobFile(ShippedTargets)]
JobCommands == [job |-> {"fetch"}]
JobTarget == [job |-> "w"]
=============================================================================
