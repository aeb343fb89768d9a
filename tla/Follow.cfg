\* Following the room across documents, with everything that can come between.
SPECIFICATION Spec
CONSTANTS
  a = a
  b = b
  t1 = t1
  t2 = t2
  Tab = {t1}
  Media = {a, b}
  Followable = {a, b}
  Nowhere = Nowhere
  Moves = 2
  Acts = 4
  Passes = 2
INVARIANTS
  LeftIsLeft
  NeverStranded
  NeverLostSilently
CHECK_DEADLOCK FALSE
