\* The runbook's claim about restarting the worker, with one restart.
SPECIFICATION Spec
CONSTANTS
  Runs = {r1}
  Hashes = {h1}
  Jobs = {j1}
  NoRun = NoRun
  Unseen = Unseen
  MaxAttempts = 3
  MaxTries = 5
  FaultKinds = {"crash"}
  MaxFaults = 1
INVARIANT AtMostOneMail
CHECK_DEADLOCK FALSE
