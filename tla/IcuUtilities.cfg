CONSTANTS
  pt = pt
  en = en
  p1 = p1
  p2 = p2
  none = none
  args = args
  n1 = n1
  n2 = n2
  w1 = w1
  NoRequest = NoRequest
  Locales <- MCLocales
  Portuguese <- MCPortuguese
  Patterns <- MCPatterns
  Arguments <- MCArguments
  NoArguments = none
  Numbers <- MCNumbers
  Wordings <- MCWordings
SPECIFICATION UtilitySpec
INVARIANTS
  UtilitiesReportErrors
PROPERTIES
  ErrorsStay
  FailedGivesFormatsOnly
  UtilitiesKeepTheContract
CHECK_DEADLOCK FALSE
