CONSTANTS
  MaxExtra = 1
  Bits = 4
  Significand = 2
SPECIFICATION MCSpec
INVARIANTS
  PerformsOnWholeArguments
  CrashesOnNullsOnly
  LinkIsForIds
\* A call ends refused, crashed or performed.
CHECK_DEADLOCK FALSE
