SPECIFICATION Spec
INVARIANT TLSHonoured
CHECK_DEADLOCK FALSE
