---------------------------- MODULE MCSetupVault ----------------------------
(***************************************************************************)
(* SetupVault with two of the chart's targets, a placeholder and one with  *)
(* a key, the rows of setup-vault.sh's tables for them and for the         *)
(* bootstrap Job, and two agents: the Job's and orchestration's sidecar.   *)
(* Nothing but the Job may read the path "keycloak".                       *)
(***************************************************************************)
EXTENDS SetupVault

CONSTANTS u, v, null, empty  \* model values: two values, JSON null, the empty text

MCVaultVal == {u, v, null}
MCFresh    == {u, v}
MCText     == {u, v, empty}
MCRender   == [x \in VaultVal |-> IF x = null THEN empty ELSE x]

Item(p, f, k) == [vaultPath |-> p, field |-> f, secretKey |-> k]

Car(sa, kind, workload) ==
  {[serviceAccountName |-> sa, kind |-> kind, workload |-> workload]}

Identity == [secretName |-> "identity-secret", mappings |-> <<>>,
             sidecar |-> Car("identity", "Deployment", "identity")]
Orchestration ==
  [secretName |-> "orchestration-secret",
   mappings |-> <<Item("elasticsearch", "password", "password")>>,
   sidecar |-> Car("orchestration", "StatefulSet", "zeebe")]
MCTargets == <<Identity, Orchestration>>

MCPolicyCalls ==
  <<[policy |-> "bootstrap", paths |-> Path],
    [policy |-> "orchestration", paths |-> {"elasticsearch"}],
    [policy |-> "identity", paths |-> {}]>>

MCRoleCalls ==
  <<[role |-> "bootstrap", sa |-> "vault-bootstrap", policy |-> "bootstrap"],
    [role |-> "orchestration", sa |-> "orchestration", policy |-> "orchestration"],
    [role |-> "identity", sa |-> "identity", policy |-> "identity"]>>

MCSeedCalls == <<[path |-> "elasticsearch", fields |-> {"password"}]>>

MCConfig  == [job |-> JobFile(MCTargets), orch |-> SidecarFile(Orchestration)]
MCTarget  == [job |-> "identity", orch |-> "zeebe"]
MCAccount == [job |-> "vault-bootstrap", orch |-> "orchestration"]
MCRole    == [job |-> "bootstrap", orch |-> "orchestration"]
MCKind    == [job |-> "Deployment", orch |-> "StatefulSet"]
MCCommands == [job |-> {"fetch"}, orch |-> {"watch"}]
=============================================================================
