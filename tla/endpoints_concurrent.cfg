SPECIFICATION FairSpec
CONSTANTS
  Foreground = {request}
  Background = {job}
  Names = {a}
  URLs = {u, v}
  Reachable = {u}
  Users = {}
  Modes = {TRUE, FALSE}
  None = None
  MaxID = 2
  MaxGroup = 1
  MaxOps = 3
  MaxRestarts = 0
  MaxFaults = 0
PROPERTIES SnapshotKeepsEarlierChanges SnapshotsConverge
