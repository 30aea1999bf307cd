\* Whether the caller of resolve() is answered.
SPECIFICATION Spec
CONSTANTS
  Entry = {"a.rx", "b.rx", "c.cc", "d.txt"}
  RxExt = {"a.rx", "b.rx"}
  CcExt = {"c.cc"}
  MaxSize = 1
  MaxEdits = 2
PROPERTY OutcomeTold
CHECK_DEADLOCK FALSE
