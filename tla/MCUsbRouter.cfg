CONSTANTS
  Threads <- MCThreads
  Bits <- MCBits
  AddressMask <- MCAddressMask
  Msgs = {m1, m2, m3}
  Bufs = {b1, b2}
  QueueDepth = 1
  CountMod = 65536
  NULL = NULL
SPECIFICATION FairSpec
INVARIANTS
  RouterInv
PROPERTY
  RouterReturns
CHECK_DEADLOCK FALSE
