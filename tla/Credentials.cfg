\* Three requests of any kind, a good and a bad secret, one failure, one rotation of the master key.
SPECIFICATION FairSpec
CONSTANTS
  MaxRequests = 3
  Secrets = {good, bad}
  Good = {good}
  NoRow = NoRow
  Rollout <- MCRollout
  FaultKinds = {"enqueue", "crash", "job"}
  MaxFaults = 1
INVARIANTS
  TypeOK
  StatusFitsSecret
PROPERTY VerdictsArrive
CHECK_DEADLOCK FALSE
