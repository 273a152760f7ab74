CONSTANTS
  StClock = 250000
  WORD = 1073741824
  Frequencies <- MCFrequencies
  Answers = {0, 250000}
SPECIFICATION ProbeSpec
INVARIANTS
  ProbeInv
  NearestRate
  RunsAsHeld
PROPERTIES
  SwdStartsTalking
