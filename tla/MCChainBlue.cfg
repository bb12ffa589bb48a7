SPECIFICATION SpecFalling
CONSTANTS
  anticoneSize = 0
  MaxTipLayerGap = 2
  MaxId = MaxId
  MaxBlockOrder = MaxBlockOrder
  MaxBlocks = 7
  Hashes = {1, 2, 3, 4, 5, 6}
  spend = spend
  Txs <- MCTxs
  TokenTxs = {}
  Spends <- MCSpends
  CoinbaseMaturity = 1
  Bodies <- MCBodies
  MaxCrashes = 0
INVARIANT
  SpentCoinbasesBlue
CHECK_DEADLOCK FALSE
