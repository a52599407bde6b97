SPECIFICATION FairSpec
CONSTANTS
  Tx = {t1, t2}
  NoTx = NoTx
  Query = {q1, q2}
  Call = {c1}
  Required = 2
  MaxHeight = 2
  MaxReconnects = 1
INVARIANTS
  TypeOK
  AvailableIsConfirmed
PROPERTIES
  DepositSettles
CHECK_DEADLOCK FALSE
