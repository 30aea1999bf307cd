\* A search through a link that makes a cycle.
SPECIFICATION Spec
CONSTANTS
  top = top
  dir = dir
  file = file
  inner = inner
  up = up
  void = void
  Name <- MCName
  Root = top
  Kids <- MCKids
  depthLimit = 3
INVARIANTS
  OkVisitsAll
  ContextSafe
PROPERTIES
  NoVisitAfterEnd
  Reclaimed
  ImplementsTask
CHECK_DEADLOCK FALSE
