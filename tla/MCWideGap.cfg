SPECIFICATION SpecWideGap
CONSTANTS
  anticoneSize = 4
  MaxTipLayerGap = 10
  MaxId = MaxId
  MaxBlockOrder = MaxBlockOrder
  MaxBlocks = 36
  Hashes = {1}
PROPERTY
  FutureKeepsPast
CHECK_DEADLOCK FALSE
