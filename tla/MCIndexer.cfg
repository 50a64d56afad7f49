\* Two wallets, one whose syncs may all fail, and a fault, a crash or a reset that races the ticks.
SPECIFICATION Spec
CONSTANTS
  dev = dev
  made = made
  low = low
  high = high
  Wallets = {dev, made}
  DevWallet = dev
  pay = pay
  Contents = {pay}
  Terms = {low, high}
  HireTerms = {low}
  MaxTxs = 3
  Broken = {dev}
  Showcase = {made}
  MaxTroubles = 1
INVARIANTS
  RowsMatchCursor
  MirrorHasTheTerms
PROPERTIES
  RowsStay
  EverythingIsIndexed
CHECK_DEADLOCK FALSE
