SPECIFICATION FairSpec
CONSTANTS
  k1 = k1
  Media = {k1}
  NoMedia = NoMedia
  MaxReconforms = 1
  MaxSeq = 2
  Events = 2
PROPERTIES
  NothingStalePresses
  NoEarlyPlay
  OnlyTheMemberIsSent
  FollowsInTheEnd
CHECK_DEADLOCK FALSE
