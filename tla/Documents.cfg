\* One resume and four failures of any kind: resumes meet only in the deletion
\* of the account, and what goes wrong with one needs failures, not resumes.
SPECIFICATION FairSpec
CONSTANTS
  Resumes = {r1}
  FaultKinds = {"request", "crash", "job", "run", "store"}
  MaxFaults = 4
INVARIANTS
  TypeOK
  OrphanNeedsCause
  ListedResumesAreWhole
PROPERTY UploadsSettle
CHECK_DEADLOCK FALSE
