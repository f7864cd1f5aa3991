SPECIFICATION Spec
CONSTANTS
  Foreground = {p}
  Background = {p}
  Names = {a, b}
  URLs = {u, v}
  Reachable = {u}
  Users = {x}
  Modes = {TRUE, FALSE}
  None = None
  MaxID = 2
  MaxGroup = 2
  MaxOps = 3
  MaxRestarts = 1
  MaxFaults = 1
INVARIANTS EndpointsSound ProxyIsCurrent
PROPERTY SyncMatchesFile
SYMMETRY Symmetry
