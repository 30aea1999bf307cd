\* Files of all kinds, edited under way.
SPECIFICATION Spec
CONSTANTS
  Entry = {"a.rx", "b.rx", "c.cc", "d.txt"}
  RxExt = {"a.rx", "b.rx"}
  CcExt = {"c.cc"}
  MaxSize = 1
  MaxEdits = 2
INVARIANTS
  OkParsedAll
  UnownedWasCanceled
PROPERTIES
  QuietAfterOutcome
  ImplementsTask
CHECK_DEADLOCK FALSE
