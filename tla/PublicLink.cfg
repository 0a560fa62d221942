CONSTANTS
  t1 = t1
  t2 = t2
  bad = bad
  none = none
  Texts <- MCTexts
  NoText = none
  Malformed <- MCMalformed
  PayloadSizes <- MCPayloadSizes
  MaxCalls = 2
SPECIFICATION Spec
INVARIANTS
  ReleasedOnce
  LinkUsesKeyAndIv
  FitsUnlessAligned
CHECK_DEADLOCK FALSE
