\* Text files in UTF-8.
SPECIFICATION Spec
CONSTANT Inputs <- TextFiles
INVARIANT TokenLocated
CHECK_DEADLOCK FALSE
