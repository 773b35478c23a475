CONSTANTS
  N = 3
  MaxRetries = 1
  numConfirmations = 2
  MaxRuns = 2
  Foreign = Foreign
  MaxForeign = 1
SPECIFICATION FairSpec
INVARIANTS CreatedOnce ResultsTrue MatchTells
PROPERTIES PollingEnds
CHECK_DEADLOCK FALSE
