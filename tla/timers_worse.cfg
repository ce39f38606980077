SPECIFICATION Spec
CONSTANT Conditions <- Worse
CHECK_DEADLOCK FALSE
INVARIANT Kept
