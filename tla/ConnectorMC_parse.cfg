SPECIFICATION Spec
INVARIANTS TypeOK DatabaseAsSpecified
CHECK_DEADLOCK FALSE
