\* Two accounts, two sign-ins, one message posted twice, one move, one fault.
SPECIFICATION Spec
CONSTANTS
  alice = alice
  bob = bob
  Accounts = {alice, bob}
  NonceTtl = 1
  SessionTtl = 0
  MaxNow = 1
  MaxNonces = 2
  MaxCalls = 2
  MaxMoves = 1
  MaxFaults = 1
INVARIANTS
  SessionsAreEarned
  ShownIsSent
PROPERTIES
  RefusedReadClosesGate
CHECK_DEADLOCK FALSE
