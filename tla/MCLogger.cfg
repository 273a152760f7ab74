CONSTANTS
  LOG_BUFFER_SIZE = 4
  LOG_BUFFER_THRESHOLD = 3
  LineSizes = {1, 2}
  LateCompletion = FALSE
  MaxLines = 7
SPECIFICATION FairSpec
INVARIANTS
  DmaBufferQuiet
  ThresholdWakes
  LoggerInv
PROPERTIES
  ImplementsLogStream
  LinesLeave
