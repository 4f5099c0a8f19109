SPECIFICATION FairSpec
CONSTANTS
  u = u
  v = v
  null = null
  empty = empty
  Absent = Absent
  Agent = {"job"}
  Secret = {"es", "kc", "kcdb", "wm", "orch", "opt", "id", "conn", "cons"}
  Key = {"k", "l"}
  Path = {"p"}
  Field = {"f", "g"}
  Workload = {"w"}
  Config <- Shipped
  Target <- JobTarget
  VaultVal <- MCVaultVal
  Text <- MCText
  Blank <- empty
  Render <- MCRender
  RestartMode = "rollout"
  Commands <- JobCommands
  Faults = {}
  MaxPuts = 0
PROPERTIES
  FetchTerminates
