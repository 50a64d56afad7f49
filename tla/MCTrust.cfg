\* Two overlapping refreshes of two agents, the script with a crash, and a stranger.
SPECIFICATION FairSpec
CONSTANTS
  sub = sub
  riley = riley
  nobody = nobody
  Accounts = {sub, riley}
  NoAccount = nobody
  MinScore = 8
  MinCount = 2
  MaxDecimals = 1
  Ratings <- StrangersRatings
  MaxIds = 1
  MaxStrange = 1
  Seeded = {sub, riley}
  Ticks = {1, 2}
  Showcase = sub
  ShowcaseCount = 2
  ShowcaseRating <- Good
  MaxFaults = 1
INVARIANTS
  TypeOK
  PortAgrees
PROPERTIES
  FlaggedForCause
  BadgeCatchesUp
CHECK_DEADLOCK FALSE
