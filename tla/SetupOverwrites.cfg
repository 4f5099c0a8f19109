SPECIFICATION SetupSpec
CONSTANTS
  u = u
  v = v
  null = null
  empty = empty
  Absent = Absent
  AnyName = AnyName
  Agent = {"job", "orch"}
  Secret = {"identity-secret", "orchestration-secret"}
  Key = {"password"}
  Path = {"elasticsearch", "keycloak"}
  Field = {"password"}
  Workload = {"identity", "zeebe"}
  Config <- MCConfig
  Target <- MCTarget
  VaultVal <- MCVaultVal
  Text <- MCText
  Blank <- empty
  Render <- MCRender
  RestartMode = "rollout"
  Commands <- MCCommands
  Faults = {"patch"}
  MaxPuts = 0
  Targets <- MCTargets
  Bootstrap = "vault-bootstrap"
  Operator = {"o1", "o2"}
  PolicyCalls <- MCPolicyCalls
  RoleCalls <- MCRoleCalls
  SeedCalls <- MCSeedCalls
  Null <- null
  Fresh <- MCFresh
  MaxFails = 1
  Account <- MCAccount
  VaultRole <- MCRole
  RestartKind <- MCKind
PROPERTIES
  SeedKeepsExisting
