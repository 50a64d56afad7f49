\* One agent, all of the wallet's functions, two terms of employment, a change of owners.
SPECIFICATION Spec
CONSTANTS
  alice = alice
  bob = bob
  scout = scout
  riley = riley
  shop = shop
  zero = zero
  Address <- AllAddresses
  ZeroAddress = zero
  Day = 1
  Owners = {alice, bob}
  Handover = {bob, zero}
  SessionKeys = {scout}
  Calls <- PayShop
  Routers = {}
  HirePolicies <- TwoPolicies
  Deposits = {3}
  UsdValues = {1, 2}
  MaxNow = 3
  MaxFunded = 3
  MaxHires = 2
  MaxProposals = 1
  MaxPayments = 3
INVARIANTS
  NoPaymentWithinAPayment
  BooksMatchLedger
  EtherIsAccountedFor
  AtMostTwoCapsADay
CHECK_DEADLOCK FALSE
