\* What refresh says of a reused token, with one browser of two tabs.
SPECIFICATION Spec
CONSTANTS
  Tabs = {b1, b2}
  Others = {}
  Tokens = {t1, t2, t3}
  None = None
  FaultKinds = {}
  MaxFaults = 0
  MaxRequests = 1
INVARIANT ReuseEndsSessions
CHECK_DEADLOCK FALSE
