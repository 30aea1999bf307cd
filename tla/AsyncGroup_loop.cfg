\* Everything happens on the loop's thread.
SPECIFICATION Spec
CONSTANTS
  Loop = loop
  Others = {}
  MaxJobs = 3
  MayBeEmpty = FALSE
  MayBePlain = TRUE
  MayForget = FALSE
  MayFail = FALSE
INVARIANT QuietWhenSettled
PROPERTIES
  NoJobCallbackAfterCancel
  Reclaimed
  ImplementsTask
CHECK_DEADLOCK FALSE
