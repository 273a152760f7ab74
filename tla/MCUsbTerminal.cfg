CONSTANTS
  Chunks = 2
SPECIFICATION TerminalSpec
INVARIANTS
  TerminalInv
  OpenIsConnected
PROPERTIES
  WelcomeBeforeEcho
  TextLeaves
  ShellReads
\* A fault stops the processor.
CHECK_DEADLOCK FALSE
