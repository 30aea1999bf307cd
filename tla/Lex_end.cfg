\* A source that ends in the middle of a line.
SPECIFICATION Spec
CONSTANT Inputs <- Fragments
INVARIANT WithinInput
CHECK_DEADLOCK FALSE
