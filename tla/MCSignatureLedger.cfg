SPECIFICATION FairSpec
CONSTANTS
  NoTxn = NoTxn
  Requests = {r1, r2}
  PaddleEvents = {e1, e2}
  Txns = {t1, t2}
  PackSize <- MCPackSize
  GrantSize <- MCGrantSize
  MaxGrants <- MCMaxGrants
  LowThreshold <- MCLowThreshold
INVARIANTS
  TypeOK
  BalanceIsDerived
  PaddleEventCreditedOnce
  NeverOverspent
PROPERTIES
  CrossingIsAnnounced
  EveryOperationEnds
CHECK_DEADLOCK FALSE
