SPECIFICATION FairSpec
CONSTANTS
  Values <- MCValues
  MAX_ITEMS = 3
INVARIANTS TypeOK Linked CursorSound
PROPERTIES ListSpec Returns
