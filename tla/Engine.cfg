\* Two sources of up to two postings each, batches of two, two resumes, two calls at once.
SPECIFICATION FairSpec
CONSTANTS
  Postings = {p1, p2, p3}
  s1 = s1
  s2 = s2
  p1 = p1
  p2 = p2
  p3 = p3
  r1 = r1
  r2 = r2
  Nobody = Nobody
  Sources <- MCSources
  Resumes <- MCResumes
  Keyword <- MCKeyword
  Percentages = {80}
  Threshold = 50
  Watchlist = {p3}
  BatchSize = 2
  MaxConcurrency = 2
  MaxFound = 2
INVARIANTS
  EngineTypeOK
  MatchesAreNew
  BestMatchesReturned
  SilenceIsReported
PROPERTY EngineEnds
CHECK_DEADLOCK FALSE
