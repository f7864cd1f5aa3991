SPECIFICATION Spec
CONSTANTS
  Creates = {c1}
  Recreates = {r1}
  Pages <- PagesUsed
  Page <- OnePage
  Faults = TRUE
CHECK_DEADLOCK FALSE
INVARIANTS TypeOK Survives
PROPERTIES ReadyFirst Settles
