\* Two attempts of up to two steps, a stream of three polls.
SPECIFICATION FairSpec
CONSTANTS
  MaxSteps = 2
  MaxAttempts = 2
  MaxPolls = 3
  None = None
INVARIANTS
  TypeOK
  TimelineIsAPrefix
  StoppedPageIsRight
PROPERTY PageCatchesUp
CHECK_DEADLOCK FALSE
