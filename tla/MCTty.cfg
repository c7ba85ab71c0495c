SPECIFICATION Spec
CONSTANTS
  CONSOLES_COUNT = 2
  COLS = 3
  ROWS = 2
  TAB = 2
  LINE_MAX = 2
  VIDEO_WORDS = 9
  Modifiers = {"LShift", "RShift"}
  Output = {"a", "cr", "nl"}
  MAX_NULS = 1
  MAX_KEYS = 4
INVARIANTS TypeOK PosCountsLine EchoShows CursorShown ShiftTrue
PROPERTIES OneFrameOnly
