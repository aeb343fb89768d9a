\* The rate limit, the commands it keeps, and the timers that apply them.
SPECIFICATION FairSpec
CONSTANTS
  t1 = t1
  t2 = t2
  t3 = t3
  Timer = {t1, t2, t3}
  NoTimer = NoTimer
  Burst = 1
  Interval = 2
  Cooldown = 3
  MaxSent = 4
  MaxTime = 5
  Quiet = 3
INVARIANTS
  NothingLost
  Paced
PROPERTIES
  InSenderOrder
  KeptIsApplied
CHECK_DEADLOCK FALSE
