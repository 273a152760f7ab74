CONSTANTS
  Conns = {c1, c2}
  c1 = c1
  c2 = c2
  None = None
  Packets = 4
SPECIFICATION Spec
INVARIANTS
  NetInv
  OpenIsHeard
  OneAddress
PROPERTIES
  ServerStarts
