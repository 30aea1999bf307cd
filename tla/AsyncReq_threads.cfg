\* Two threads, and three canceler objects, no object called by both at once.
SPECIFICATION Spec
CONSTANTS
  Thread = {loop, t2}
  Loop = loop
  Handle = {h1, h2, h3}
  NoHandle = NoHandle
  Shared = FALSE
INVARIANTS
  RefCountExact
  NoUseAfterFree
  RevokedNeverCalled
PROPERTIES
  NoLeak
  ImplementsTask
CHECK_DEADLOCK FALSE
