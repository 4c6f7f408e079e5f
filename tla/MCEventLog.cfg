SPECIFICATION FairSpec
CONSTANTS
  Symbols = {s1, s2}
  Requests = {"new"}
  MaxRecords = 2
  MaxTime = 1
  MaxCrashes = 2
INVARIANT TypeOK
INVARIANT WriteAhead
INVARIANT SeenSurvives
INVARIANT LiveIsReplay
INVARIANT TimesMonotone
INVARIANT RefusedLogIsUnused
PROPERTY Recovers
CHECK_DEADLOCK FALSE
