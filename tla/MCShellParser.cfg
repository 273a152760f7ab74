CONSTANTS
  usb = usb  telnet = telnet
  Streams <- MCStreams
  Lower <- MCLower
  ShellCommands <- MCShellCommands
  ScpiCommands <- MCScpiCommands
  NULL = NULL
  Alphabet <- MCAlphabet
  LineMax = 2
  QueueDepth = 2
  Blocks = {b1, b2, b3}
SPECIFICATION FairSpec
INVARIANTS
  ShellInv
PROPERTIES
  KnownCommandsReturn
  ImplementsRequests
