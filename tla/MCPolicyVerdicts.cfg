\* Every combination of terms around every boundary, one evaluation each.
SPECIFICATION Spec
CONSTANTS
  shop = shop
  router = router
  Address <- Accounts
  Day = 1
  Policies <- SomePolicies
  Asked <- SomeCalls
  Amounts = {0, 1, 2}
  Times = {1, 2, 3}
INVARIANTS
  VerdictIsJust
  TighterPermitsNoMore
  WaitingNeverHurts
CHECK_DEADLOCK FALSE
