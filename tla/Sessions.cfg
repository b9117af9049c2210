\* Two tabs and one other actor, three tokens, one failure of any kind.
SPECIFICATION FairSpec
CONSTANTS
  Tabs = {b1, b2}
  Others = {o1}
  Tokens = {t1, t2, t3}
  None = None
  FaultKinds = {"database", "network", "expiry"}
  MaxFaults = 1
  MaxRequests = 2
INVARIANTS
  TypeOK
  SessionsEndWithCredentials
  OneTokenPerLogin
  SessionIsKept
PROPERTIES
  SuspensionHolds
  DeadCookieGoes
CHECK_DEADLOCK FALSE
