\* Two runs with five calls, in an executor of two threads.
SPECIFICATION FairSpec
CONSTANTS
  p1 = p1
  p2 = p2
  p3 = p3
  Plan <- MCPlan
  Postings = {p1, p2, p3}
  NamesRole = {p1, p2, p3}
  NamesPlace = {p1, p3}
  Url <- MCUrl
  Queries = 2
  MaxPages = 2
  Comments = 2
  PoolSize = 2
INVARIANTS
  TypeOK
  ReturnIsComplete
  WaitsBehindAbandoned
PROPERTY RunsGetThrough
CHECK_DEADLOCK FALSE
