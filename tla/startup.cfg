SPECIFICATION FairSpec
CONSTANTS
  Endpoints = {e, f}
  Stacks = {s, t}
  Controls = {k, l}
  AdminOwned = {l}
  Origins <- AllOrigins
  Fresh = Fresh
  Primary = primary
  AdminFlag = TRUE
  Templates = 2
  None = None
  MaxCrashes = 2
INVARIANTS StartSound VersionTells
PROPERTY ComesUp
CHECK_DEADLOCK FALSE
