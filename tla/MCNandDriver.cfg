CONSTANTS
  t1 = t1  t2 = t2  d = d
  Threads <- MCThreads
  Blocks <- MCOneBlock
  BLOCK_PAGES = 2
  Data <- MCData
  FF = FF
  GARBLED = GARBLED
  Ops <- MCOps
  NULL = NULL
SPECIFICATION FairSpec
INVARIANTS
  NandInv
  ReadReturnsPage
  SuccessMeansDone
PROPERTY
  CallsReturn
CHECK_DEADLOCK FALSE
