SPECIFICATION LinkFairSpec
CONSTANTS
  Faults = 2
  SilentProbes = 2
  Port <- MCPort
  Ms = 4
  Infinite = Infinite
PROPERTIES ImplementsTransport NothingLivesOn ComesBack
CHECK_DEADLOCK FALSE
