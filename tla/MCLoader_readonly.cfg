SPECIFICATION Spec
CONSTANTS
  Files <- TwoFiles
  HEADERS = 1
  PAGE = 2
  FRAMES = 34
  KERNEL_END = 2
  QUEUES = 1
  LOCATION = 4
  INDEX_PAGES = 1
  HEAP_TABLES = 1
  INITIAL_PAGES = 8
  HEAP_MIN_PAGES = 3
  MAX_PAGES = 26
  USER_PAGES = 4
  MAX_PROCS = 4
  Names = {"psh", "kill", "dev"}
INVARIANTS ExtraWriteable
CHECK_DEADLOCK FALSE
