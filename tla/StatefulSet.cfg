SPECIFICATION PodFairSpec
CONSTANTS
  u = u
  v = v
  null = null
  empty = empty
  Absent = Absent
  NoEnv = NoEnv
  Secret = {"s"}
  Path = {"p"}
  Workload = {"w"}
  Target <- MCTarget
  Text <- MCText
  Blank <- empty
  Render <- MCRender
  Consumes <- MCConsumes
  RestartMode = "rollout"
  Commands <- MCCommands
  Key = {"k", "l"}
  Field = {"f", "g"}
  Config <- TwoKeysConfig
  VaultVal <- MCVaultVal
  Agent = {"p1"}
  Pod = {"p1"}
  Replicas = 1
  MaxSurge = 0
  MaxUnavailable = 1
  Faults = {"login", "read", "get", "post", "patch", "kill", "delete", "app", "crash"}
  MaxPuts = 3
INVARIANTS
  PodTypeOK
  CreatedComplete
  NoSilentStaleness
PROPERTIES
  RotationReachesPods
