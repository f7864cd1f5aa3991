SPECIFICATION Spec
CONSTANTS
  Requests = {r1}
  Exprs = {hourly, daily, malformed}
  ValidExprs = {hourly, daily}
  FlagExpr = hourly
  Snapshot = TRUE
  ExternalEndpoints = FALSE
  NoSchedule = NoSchedule
  MaxID = 3
  MaxEntries = 4
  MaxRestarts = 0
  MaxFaults = 0
INVARIANT OneEntryPerSchedule
