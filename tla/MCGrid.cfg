CONSTANTS
  Total = 4
  Workers = 1
SPECIFICATION FairSpec
INVARIANTS TypeOK CompletedMeansAll AggregateIsTrue FailFastBound
PROPERTY Returns
