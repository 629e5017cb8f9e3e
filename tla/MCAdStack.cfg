SPECIFICATION Spec
CONSTANTS
  ONE_BLOCK_SIZE = 3
  MaxBlocks = 3
  MaxDepth = 3
  Sizes = {2, 3, 7}
  Vals = {u, v}
  NoByte = NoByte
INVARIANTS
  TypeOK
  TopInsideBlock
  NeverUnderflows
  SizeIsPlace
PROPERTY
  ImplementsTape
CHECK_DEADLOCK FALSE
