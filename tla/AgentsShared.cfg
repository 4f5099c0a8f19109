SPECIFICATION Spec
CONSTANTS
  u = u
  v = v
  null = null
  empty = empty
  Absent = Absent
  Agent = {"a1", "a2", "a3"}
  Secret = {"s", "t"}
  Key = {"k", "l"}
  Path = {"p"}
  Field = {"f", "g"}
  Workload = {"w"}
  Config <- SharedConfig
  Target <- SharedTarget
  VaultVal <- MCVaultVal
  Text <- MCText
  Blank <- empty
  Render <- MCRender
  RestartMode = "rollout"
  Commands <- SharedCommands
  Faults = {"login", "read", "get", "post", "patch", "lost", "kill", "restart"}
  MaxPuts = 1
INVARIANTS
  TypeOK
  NeverBlank
  CreatedComplete
  FetchSeeds
PROPERTIES
  KeysNeverLost
  CopiesFaithfully
SYMMETRY MCSymmetry
