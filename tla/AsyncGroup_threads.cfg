\* The loop's thread and another one hold the canceler; the client may do anything.
SPECIFICATION Spec
CONSTANTS
  Loop = loop
  Others = {t2}
  MaxJobs = 3
  MayBeEmpty = TRUE
  MayBePlain = TRUE
  MayForget = TRUE
  MayFail = TRUE
INVARIANTS
  OneOutcome
  OkMeansAllEnded
PROPERTY SettlesWhenDropped
CHECK_DEADLOCK FALSE
