\* The registry, the way in, rotation and the sweeper.
SPECIFICATION FairSpec
CONSTANTS
  r1 = r1
  r2 = r2
  v1 = v1
  v2 = v2
  RoomId = {r1, r2}
  Visitor = {v1, v2}
  Nowhere = Nowhere
  MaxRooms = 1
  MaxMembers = 1
  IdleTTL = 1
  MaxSecret = 2
  MaxTime = 4
INVARIANTS
  NoGhostRoom
PROPERTIES
  AdmittedAsOfNow
  KeptForTheTTL
  EmptyRoomGoes
CHECK_DEADLOCK FALSE
