SPECIFICATION ReleaseFairSpec
CONSTANTS
  u = u
  v = v
  null = null
  empty = empty
  Absent = Absent
  NoEnv = NoEnv
  Secret = {"s"}
  Path = {"p"}
  Workload = {"w"}
  Target <- MCTarget
  Text <- MCText
  Blank <- empty
  Render <- MCRender
  Consumes <- MCConsumes
  RestartMode = "rollout"
  Commands <- MCCommands
  Key = {"k"}
  Field = {"f"}
  Config <- OneKeyConfig
  VaultVal <- FullVal
  Agent = {"p1", "job"}
  Pod = {"p1"}
  Replicas = 1
  MaxSurge = 0
  MaxUnavailable = 1
  Faults = {}
  MaxPuts = 1
  HookWeight <- MCHookWeight
  Job = "job"
  BackoffLimit = 0
  InjectDelay = 0
  ReleaseFaults = {}
  MaxUpgrades = 1
PROPERTIES
  RotationReachesPods
