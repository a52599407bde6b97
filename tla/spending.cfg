SPECIFICATION FairSpec
CONSTANTS
  old = old
  young = young
  w1 = w1
  w2 = w2
  Coin = {old, young}
  Withdrawal = {w1, w2}
  Fee <- Fees
  Locktime <- Locktimes
  SwapLimit = 2
  Pooled = {young}
  MaxHeight = 3
  MaxFaults = 2
INVARIANTS
  TypeOK
  AvailableIsUnspent
PROPERTIES
  WithdrawalSettles
  ExpiryNoticed
CHECK_DEADLOCK FALSE
