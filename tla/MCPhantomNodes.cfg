SPECIFICATION SpecFalling
CONSTANTS
  anticoneSize = 0
  MaxTipLayerGap = 1
  MaxId = MaxId
  MaxBlockOrder = MaxBlockOrder
  MaxBlocks = 6
  Hashes = {1, 2, 3, 4, 5}
INVARIANTS
  BlocksAgree
  NodesConverge
  NeverRefused
CHECK_DEADLOCK FALSE
