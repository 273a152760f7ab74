CONSTANTS
  t1 = t1  t2 = t2  d = d
  Threads <- MCTwoThreads
  Blocks <- MCOneBlock
  BLOCK_PAGES = 2
  Data <- MCData
  FF = FF
  GARBLED = GARBLED
  Ops <- MCReads
  NULL = NULL
SPECIFICATION Spec
INVARIANT ReadReturnsPage
CHECK_DEADLOCK FALSE
