\* Two scheduler processes, two profiles, two failures of any kind.
SPECIFICATION FairSpec
CONSTANTS
  p1 = p1
  p2 = p2
  Schedulers = {s1, s2}
  Profiles = {p1, p2}
  NoProfile = NoProfile
  Free = Free
  MaxMinute = 2
  DueAt <- MCDueAt
  DayOf <- MCDayOf
  FaultKinds = {"worker", "stop", "slow", "tenant", "error"}
  MaxFaults = 2
INVARIANTS
  TypeOK
  OneJobPerBooking
  DueDaysAreBooked
PROPERTY BookingsAreEnqueued
CHECK_DEADLOCK FALSE
