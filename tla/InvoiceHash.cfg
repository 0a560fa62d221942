CONSTANTS
  KeySizes  <- MCKeySizes
  MaxCalls   = 3
  FirstGuess = 4
SPECIFICATION MCSpec
INVARIANTS
  ReleasedOnce
  ResultsAreWhole
PROPERTY
  TextIsMade
\* The object has been deleted, or its calls are used up.
CHECK_DEADLOCK FALSE
