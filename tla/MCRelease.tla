----------------------------- MODULE MCRelease -----------------------------
(***************************************************************************)
(* Instances of Release: one workload and the bootstrap Job, which list    *)
(* the same Secret.                                                        *)
(***************************************************************************)
EXTENDS Release

CONSTANTS u, v, null, empty  \* model values: two values, JSON null, the empty text

OneVal     == {u}
FullVal    == {u, v}
MCText     == {u, v, empty}
MCRender   == [x \in VaultVal |-> IF x = null THEN empty ELSE x]

Item(f, k) == [vaultPath |-> "p", field |-> f, secretKey |-> k]

OneKey == SidecarFile([secretName |-> "s", mappings |-> <<Item("f", "k")>>])
OneKeyConfig == [a \in Agent |-> OneKey]

\* Four of the chart's seven hook resources besides the Job.
MCHookWeight == [account |-> -20, trustedCa |-> -18, binding |-> -14, env |-> -10]

MCCommands == [a \in Agent |-> IF a = Job THEN {"fetch"} ELSE {"fetch", "watch"}]
MCTarget   == [a \in Agent |-> "w"]
MCConsumes == [w \in {"w"} |-> "s"]
=============================================================================
