\* Two runs of one tenant side by side, one failure, with fairness.
SPECIFICATION FairSpec
CONSTANTS
  Runs = {r1, r2}
  Hashes = {h1}
  Jobs = {j1, j2}
  NoRun = NoRun
  Unseen = Unseen
  MaxAttempts = 2
  MaxTries = 2
  FaultKinds = {"error", "timeout", "crash"}
  MaxFaults = 1
INVARIANTS
  OneRunAnnouncesAPosting
PROPERTIES
  ContractKept
  OpenRunsSettle
CHECK_DEADLOCK FALSE
