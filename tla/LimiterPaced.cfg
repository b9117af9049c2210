\* Two tenants, two callers, one of whose clocks is a tick ahead, one restart
\* of Redis; the clock runs past the expiry of a bucket.
SPECIFICATION Spec
CONSTANTS
  c1 = c1
  c2 = c2
  c3 = c3
  Tenants = {t1, t2}
  Site = Site
  Callers = {c1, c3}
  TenantRate = 2
  TenantBurst = 1
  SiteRate = 3
  SiteBurst = 1
  Cost = 7
  TTL = 4
  SleepCap = 3
  MaxWait = 5
  Skew <- MCSkew
  MaxSkew = 1
  MaxTime = 6
  MaxRestarts = 1
INVARIANTS
  TypeOK
  PacedGrants
  WaitIsEnough
CHECK_DEADLOCK FALSE
