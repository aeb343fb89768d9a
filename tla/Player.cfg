SPECIFICATION FairSpec
CONSTANTS
  None = None
  Last = 3
  Size <- MCSize
  Sound <- MCSound
  Hints <- MCHints
  Outclassed = 4
  End = 4
  Tolerance = 1
  Target <- MCTarget
  Other <- MCOther
  Events = 3
INVARIANTS
  NothingIsLeftBehind
PROPERTIES
  UndisturbedSeeksHold
  FeatureIsFound
CHECK_DEADLOCK FALSE
