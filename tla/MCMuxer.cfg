CONSTANTS
  p1 = p1  c1 = c1  c2 = c2  c3 = c3
  Producers <- MCProducers
  Clients <- MCClients
  Threads <- MCThreads
  Masks <- MCMasks
  Bits <- MCBits
  Msgs = {m1, m2}
  Bufs = {b1}
  CountMod = 4
  NULL = NULL
SPECIFICATION FairSpec
INVARIANTS
  MuxerInv
  NoUseAfterFree
PROPERTIES
  ImplementsLifecycle
  BlocksReturn
