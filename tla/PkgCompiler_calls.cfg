\* Two processes, with PCHs removed while neither is in a call.
SPECIFICATION Spec
CONSTANTS
  Pkg = {1, 2, 3}
  StdPkg = {1}
  Proc = {p1, p2}
  MaxBuild = 4
  Removals = "between calls"
INVARIANTS
  AssertionsHold
  NothingLeft
  UnionFollowsBase
  ImportExists
CHECK_DEADLOCK FALSE
SYMMETRY Symmetry
