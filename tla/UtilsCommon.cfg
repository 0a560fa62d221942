\* The driver on three call sites: its safety, its refinement of ResultSet,
\* and that calls return and sets end.
CONSTANTS
  c1 = c1
  c2 = c2
  c3 = c3
  Executor = Executor
  Calls <- MCCalls
  Function <- MCFunction
SPECIFICATION FairSpec
INVARIANTS
  OwedRowsAreLive
  IcuBracketsUtilities
  HeapIsReleased
  ContextDiscipline
  AttInMetaPersists
PROPERTIES
  ImplementsResultSet
  CallsReturn
  SetsEnd
\* Every site may have failed or been dropped: the session can end there.
CHECK_DEADLOCK FALSE
