SPECIFICATION SpecFalling
CONSTANTS
  anticoneSize = 0
  MaxTipLayerGap = 2
  MaxId = MaxId
  MaxBlockOrder = MaxBlockOrder
  MaxBlocks = 6
  Hashes = {1, 2, 3, 4, 5}
  t1 = t1
  t2 = t2
  t3 = t3
  issue = issue
  Txs <- MCTxs
  TokenTxs = {issue}
  Spends <- MCSpends
  CoinbaseMaturity = 1
  Bodies <- MCBodies
  MaxCrashes = 1
INVARIANTS
  StoreIsReplay
  DiskMatchesMemory
  MaturityExact
PROPERTIES
  LoadAllOrNothing
  ImplementsLedger
CHECK_DEADLOCK FALSE
