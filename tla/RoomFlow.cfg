SPECIFICATION FairSpec
CONSTANTS
  m1 = m1
  m2 = m2
  k1 = k1
  Member = {m1, m2}
  MediaKeys = {k1}
  NoMedia = NoMedia
  Nobody = Nobody
  NoRtt = NoRtt
  Always = Always
  Command <- FlowCommands
  Report <- FlowReports
  MaxRtt = 1
  DelayFloor = 1
  DelayCap = 2
  GateTimeout = 1
  SweepLag = 1
  MaxTime = 4
  Quiet = 2
  MaxSeq = 3
INVARIANTS
  NeverBeforeStart
  ScheduleInOrder
PROPERTIES
  ImplementsTimeline
  HeldPlayEnds
CHECK_DEADLOCK FALSE
