\* Late answers, refusals and logins against what the member does meanwhile.
SPECIFICATION FairSpec
CONSTANTS
  Page = {p1}
  Server = {s1, s2}
  s1 = s1
  s2 = s2
  p1 = p1
  Guarded = s1
  Presses = 2
  Changes = 1
  MaxTokens = 1
  MaxCalls = 2
INVARIANTS
  WhereTheyChose
  AsksForTheSessionThereIs
PROPERTIES
  RefusalIsAnswered
CHECK_DEADLOCK FALSE
