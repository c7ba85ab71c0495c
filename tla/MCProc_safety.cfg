SPECIFICATION Spec
CONSTANTS
  CONSOLES_COUNT = 1
  LINE_MAX = 2
  MAX_SLOTS = 4
  QUEUE_MAX = 3
INVARIANTS TypeOK ListSound CpuSound PageDirLive GetchAnswered ExecHasChild
PROPERTIES BoundedBypass TaskSystem
