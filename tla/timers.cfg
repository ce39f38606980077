SPECIFICATION Spec
CONSTANT Conditions <- Some
CHECK_DEADLOCK FALSE
INVARIANTS TypeOK NoFlap FoundInTime
