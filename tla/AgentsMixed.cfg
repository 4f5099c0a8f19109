SPECIFICATION FairSpec
CONSTANTS
  u = u
  v = v
  null = null
  empty = empty
  Absent = Absent
  Agent = {"a1", "a2", "a3"}
  Secret = {"s", "t"}
  Key = {"k"}
  Path = {"p"}
  Field = {"f"}
  Workload = {"w"}
  Config <- MixedConfig
  Target <- MixedTarget
  VaultVal <- MCVaultVal
  Text <- MCText
  Blank <- empty
  Render <- MCRender
  RestartMode = "rollout"
  Commands <- MixedCommands
  Faults = {"login", "read", "get", "post", "patch", "lost", "delete"}
  MaxPuts = 1
INVARIANTS
  PlaceholderIdle
PROPERTIES
  FetchTerminates
  SecretsFollowVault
