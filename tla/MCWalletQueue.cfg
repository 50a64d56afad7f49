\* The cosign queue of two agents under callbacks and failing calls, and what it implements.
SPECIFICATION Spec
CONSTANTS
  alice = alice
  bob = bob
  scout = scout
  riley = riley
  shop = shop
  zero = zero
  Address <- AllAddresses
  ZeroAddress = zero
  Day = 1
  Owners = {alice}
  Handover = {}
  SessionKeys = {scout, riley}
  Calls <- SwapOrPayScout
  Routers = {shop}
  HirePolicies <- OnePolicy
  Deposits = {2}
  UsdValues = {1, 2}
  MaxNow = 0
  MaxFunded = 2
  MaxHires = 1
  MaxProposals = 2
  MaxPayments = 2
INVARIANTS
  ProposalsSettleOnce
  CallbacksOnlyAdd
PROPERTIES
  ImplementsCosignQueue
CHECK_DEADLOCK FALSE
