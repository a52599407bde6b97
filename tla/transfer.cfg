SPECIFICATION FairSpec
CONSTANTS
  alice = alice
  bob = bob
  a1 = a1
  a2 = a2
  b1 = b1
  Wallet = {alice, bob}
  Address = {a1, a2, b1}
  Home <- Homes
  First = a1
  MaxKey = 3
  MaxRestarts = 2
INVARIANTS
  TypeOK
  AvailableIsOwned
  SendingHasMessage
  CoinsAreMine
PROPERTIES
  TransferSettles
CHECK_DEADLOCK FALSE
