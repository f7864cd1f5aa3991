SPECIFICATION Spec
CONSTANTS
  Requests = {r1, r2}
  Exprs = {hourly, malformed}
  ValidExprs = {hourly}
  FlagExpr = hourly
  Snapshot = TRUE
  ExternalEndpoints = FALSE
  NoSchedule = NoSchedule
  MaxID = 3
  MaxEntries = 3
  MaxRestarts = 0
  MaxFaults = 0
SYMMETRY Symmetry
INVARIANTS SnapshotJobSurvives
PROPERTY SystemRowsKept
