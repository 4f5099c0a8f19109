--------------------------- MODULE MCPodLifecycle ---------------------------
(***************************************************************************)
(* Instances of PodLifecycle: one workload whose pods take one Secret from *)
(* Vault, with one key (as orchestration and optimize have) or two (as     *)
(* web-modeler has).                                                       *)
(***************************************************************************)
EXTENDS PodLifecycle

CONSTANTS u, v, null, empty  \* model values: two values, JSON null, the empty text

MCVaultVal == {u, v, null}
FullVal    == {u, v}
MCText     == {u, v, empty}
MCRender   == [x \in VaultVal |-> IF x = null THEN empty ELSE x]

Item(f, k) == [vaultPath |-> "p", field |-> f, secretKey |-> k]

OneKey  == SidecarFile([secretName |-> "s", mappings |-> <<Item("f", "k")>>])
TwoKeys == SidecarFile([secretName |-> "s", mappings |-> <<Item("f", "k"), Item("g", "l")>>])

OneKeyConfig  == [a \in Agent |-> OneKey]
TwoKeysConfig == [a \in Agent |-> TwoKeys]

MCCommands == [a \in Agent |-> {"fetch", "watch"}]
MCTarget   == [a \in Agent |-> "w"]
MCConsumes == [w \in {"w"} |-> "s"]
=============================================================================
