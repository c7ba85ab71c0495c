SPECIFICATION Spec
CONSTANTS
  CONSOLES_COUNT = 1
  LINE_MAX = 1
  MAX_SLOTS = 4
  QUEUE_MAX = 3
PROPERTIES KillReported
