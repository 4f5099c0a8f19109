SPECIFICATION PodFairSpec
CONSTANTS
  u = u
  v = v
  null = null
  empty = empty
  Absent = Absent
  NoEnv = NoEnv
  Secret = {"s"}
  Path = {"p"}
  Workload = {"w"}
  Target <- MCTarget
  Text <- MCText
  Blank <- empty
  Render <- MCRender
  Consumes <- MCConsumes
  RestartMode = "rollout"
  Commands <- MCCommands
  Key = {"k"}
  Field = {"f"}
  Config <- OneKeyConfig
  VaultVal <- FullVal
  Agent = {"p1", "p2"}
  Pod = {"p1", "p2"}
  Replicas = 1
  MaxSurge = 1
  MaxUnavailable = 0
  Faults = {}
  MaxPuts = 3
PROPERTIES
  RotationReachesPods
