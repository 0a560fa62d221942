CONSTANT MaxExtra = 1
SPECIFICATION Spec
INVARIANT NullsAreRefused
CHECK_DEADLOCK FALSE
