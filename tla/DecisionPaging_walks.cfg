CONSTANTS
  Null = Null
  PerSecond = 2
  DefaultLimit = 2
  MaxLimit = 3
  Limits <- MCLimits
  MaxTime = 3
  MaxRows = 4
  MaxWalks = 1
  MaxFaults = 1
SPECIFICATION PagingSpec
INVARIANTS NoRowTwice SkipsOnlyWithinSecond
PROPERTY WalkEnds
CHECK_DEADLOCK FALSE
