SPECIFICATION ProgramSpec
CONSTANTS
    Variables = {x, y}
    Names     = {a}
    Significand = 4
    MaxInt  = 7
    MaxLong = 31
    MaxDouble = 960
    Strings  <- AllStrings
    Tokens   <- AllTokens
    Literals <- ShortTexts
    Scalars  <- AllScalars
    Characters <- AllCharacters
    MaxArrayIndex = 15
    Documented <- DocumentedPaths
    Odd <- OtherTexts
    Parameters <- AllParameters
    Roots <- AllRoots
    SettingNames  <- SomeNames
    SettingValues <- SomeValues
    Ordered <- AllOrdered
    Nesting <- NestingOfAll
    MaxIndex = 2
    MaxDepth = 2
    MaxNodes = 3
    Buffers  = {1, 2}
SYMMETRY Interchangeable
INVARIANTS
    StringsAreRead NumbersAreExact ConversionsAreJustified
    HeapIsOwned PathsAreFollowed TotalOrder
PROPERTIES
    ArraysChangeByOne ModesDecide
\* A scalar has been read, a path resolved, values compared.
CHECK_DEADLOCK FALSE
