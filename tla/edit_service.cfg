SPECIFICATION Spec
CONSTANTS
  Sections = {"ServiceMounts", "LimitMemoryBytes"}
  Rest = {"RollbackConfig"}
  m1 = m1
  m2 = m2
  even = even
  odd = odd
  set = set
  unset = unset
  Values <- AllValues
  Possible <- ValuesOf
  Default = unset
  Back <- Rounded
  Published = {}
  Images = {}
  Arrays = {"ServiceMounts"}
  InTemplate = {"ServiceMounts", "LimitMemoryBytes"}
  OnlyIfMarked = {"LimitMemoryBytes"}
  Shared = {"ServiceMounts"}
  Silent = {"ServiceMounts"}
  Sliders = {}
  Forms <- OneFormEach
  Slots = {r1, r2}
  MaxVersion = 3
  MaxMarks = 1
SYMMETRY Symmetric
INVARIANTS TypeOK NeverLocked
PROPERTY OthersKept
