\* Two threads call the same AsyncCanceler object.
SPECIFICATION SafeSpec
CONSTANTS
  Thread = {loop, t2}
  Loop = loop
  Handle = {h1}
  NoHandle = NoHandle
  Shared = TRUE
INVARIANT NoUseAfterFree
CHECK_DEADLOCK FALSE
