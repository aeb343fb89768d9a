SPECIFICATION StartSpec
CONSTANTS
  m1 = m1
  m2 = m2
  e1 = e1
  e2 = e2
  Member = {m1, m2}
  Creator = m1
  Media = {e1, e2}
  NoMedia = NoMedia
  Continues <- OneNext
  Events = 3
PROPERTIES
  NoSeedOverAMove
  CarriedRoomGoesOn
CHECK_DEADLOCK FALSE
