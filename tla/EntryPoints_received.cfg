CONSTANT MaxExtra = 1
SPECIFICATION Spec
INVARIANT ReadsOnlyReceived
CHECK_DEADLOCK FALSE
