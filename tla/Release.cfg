SPECIFICATION ReleaseFairSpec
CONSTANTS
  u = u
  v = v
  null = null
  empty = empty
  Absent = Absent
  NoEnv = NoEnv
  Secret = {"s"}
  Path = {"p"}
  Workload = {"w"}
  Target <- MCTarget
  Text <- MCText
  Blank <- empty
  Render <- MCRender
  Consumes <- MCConsumes
  RestartMode = "rollout"
  Commands <- MCCommands
  Key = {"k"}
  Field = {"f"}
  Config <- OneKeyConfig
  VaultVal <- OneVal
  Agent = {"p1", "job"}
  Pod = {"p1"}
  Replicas = 1
  MaxSurge = 0
  MaxUnavailable = 1
  Faults = {"read", "get", "post", "lost"}
  MaxPuts = 0
  HookWeight <- MCHookWeight
  Job = "job"
  BackoffLimit = 1
  InjectDelay = 1
  MaxUpgrades = 1
  ReleaseFaults = {"deadline", "abort"}
INVARIANTS
  ReleaseTypeOK
  SeededBeforeApps
  JobEquipped
PROPERTIES
  OperationsSucceed
