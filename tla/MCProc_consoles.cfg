SPECIFICATION FairSpec
CONSTANTS
  CONSOLES_COUNT = 2
  LINE_MAX = 1
  MAX_SLOTS = 4
  QUEUE_MAX = 2
INVARIANTS WaiterQueued QueueSound
PROPERTIES RunableRuns ZombieLeaves TaskSystem
