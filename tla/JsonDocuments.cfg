SPECIFICATION DSpec
CONSTANTS
    Documents      <- Everything
    Reparsed       <- Again
    Configurations <- All
    StackLimit     = 3
    RightMargin    = 9
INVARIANTS
    AgreesWithJson AcceptsJson LastValueIsLive FailureIsReported PlacesAreRight ReadsBack
PROPERTY ReadingAdvances
