SPECIFICATION Spec
CONSTANTS
  START = 8
  VMM_PAGE_SIZE = 8
  HEAP_MIN_PAGES = 2
  INITIAL_PAGES = 3
  FRAME_PAGES = 4
  Requests = {1, 9}
  Aligned = {FALSE, TRUE}
  MAX_LIVE = 2
INVARIANTS HoleFooters
