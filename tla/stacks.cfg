SPECIFICATION FairSpec
CONSTANTS
  Procs = {p, q}
  Names = {a}
  Types <- BothTypes
  Engines = {e, f}
  Contents = {c, d}
  Hub = hub
  Registries = {}
  Renames = {}
  None = None
  MaxID = 2
  MaxOps = 3
  MaxOverlaps = 1
  MaxFailures = 1
INVARIANTS StacksSound DeploymentsMatch DeployKeepsLogin
PROPERTY RequestsEnd
CHECK_DEADLOCK FALSE
