\* A row is fresh for one, a round usable for three, a read may take one.
SPECIFICATION Spec
CONSTANTS
  c1 = c1
  c2 = c2
  Calls = {c1, c2}
  Answers <- SomeAnswers
  FeedDecimals = 4
  UsdDecimals = 2
  TokenUnit = 10
  MaxUsd = 1000
  MaxStaleness = 3
  Ttl = 1
  Slow = 1
  MaxNow = 6
  MaxRounds = 3
  MaxFaults = 1
INVARIANTS
  UnmarkedIsCurrent
  UnmarkedIsPayable
SYMMETRY Requests
CHECK_DEADLOCK FALSE
