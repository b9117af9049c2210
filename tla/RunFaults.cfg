\* One run, every kind of failure, three of them at most, two job ids.
SPECIFICATION Spec
CONSTANTS
  Runs = {r1}
  Hashes = {h1, h2}
  Jobs = {j1, j2}
  NoRun = NoRun
  Unseen = Unseen
  MaxAttempts = 2
  MaxTries = 2
  FaultKinds = {"enqueue", "requeue", "scheduler", "error", "database", "crash", "timeout", "redis"}
  MaxFaults = 3
SYMMETRY Symmetry
INVARIANTS
  TypeOK
  RepeatMailNeedsFault
  SuccessAnnouncesAll
  OpenRunsHaveAJob
CHECK_DEADLOCK FALSE
