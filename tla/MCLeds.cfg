CONSTANTS
  LED_RING_PIXEL_NB = 2
  LED_RING_BREATH_MAX = 2
  LED_RING_BREATH_LENGTH = 6
  HEARTBEAT_SAMPLES = 2
  FULL = 2
  BYTE = 5
  Ticks = {0, 9}
  MaxRequests = 3
SPECIFICATION Spec
INVARIANTS
  WholeEffect
  LedsInv
PROPERTIES
  ProgressAdvances
  WantedIsShown
