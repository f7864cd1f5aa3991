SPECIFICATION Spec
CONSTANTS
  Procs = {p, q}
  UserNames = {ann, bob}
  TeamNames = {dev}
  Resources = {c, v}
  First = ann
  Second = bob
  Founding = dev
  None = None
  MaxUsers = 3
  MaxTeams = 2
  MaxMemberships = 2
  MaxControls = 2
  MaxOps = 3
  MaxOverlaps = 1
  MaxFailures = 1
INVARIANTS IdentitySound LocalAdminKept LookupsAgree
PROPERTIES  WritersKeepAccess
SYMMETRY Symmetry
CHECK_DEADLOCK FALSE
