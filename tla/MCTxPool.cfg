SPECIFICATION FairSpec
CONSTANTS
  t1 = t1
  t2 = t2
  t3 = t3
  t4 = t4
  base = base
  Txs <- MCTxs
  Base = base
  Outputs = {0, 1}
  Spends <- MCSpends
  Expiring = {t1}
  MaxOrphanTxs = 1
  MaxNotes = 2
  MaxUndone = 2
INVARIANTS
  TypeOK
  SpentIndexExact
  OrphanIndexExact
  QuietPoolSpendable
PROPERTY
  StaleTxLeaves
CHECK_DEADLOCK FALSE
