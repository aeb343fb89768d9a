\* The readiness gate: who holds the room back, until when, and what everyone is told of it.
SPECIFICATION Spec
CONSTANTS
  m1 = m1
  m2 = m2
  k1 = k1
  Member = {m1, m2}
  MediaKeys = {k1}
  NoMedia = NoMedia
  Nobody = Nobody
  NoRtt = NoRtt
  Always = Always
  Command <- GateCommands
  Report <- GateReports
  MaxRtt = 0
  DelayFloor = 1
  DelayCap = 1
  GateTimeout = 1
  SweepLag = 1
  MaxTime = 4
  Quiet = 4
  MaxSeq = 2
SYMMETRY Interchangeable
INVARIANTS
  HeldOnlyForMembers
  ViewsAreCurrent
PROPERTIES
  PlayWaitsForNewMedia
  WaiverLatches
CHECK_DEADLOCK FALSE
