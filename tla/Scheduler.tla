------------------------------ MODULE Scheduler ------------------------------
(***************************************************************************)
(* enqueue_due_runs, the cron job that books one run per profile and local *)
(* date.  The clock counts minutes.  Every minute the scheduler processes  *)
(* that are up put one tick into the arq queue (the tick's job id is its   *)
(* time, so replicas share it); a process takes a tick, reads the clock,   *)
(* and books the profiles due at that very minute, one after the other,    *)
(* under a Redis lock per profile.  One action is one database or Redis    *)
(* call.  Failures are drawn from a budget of MaxFaults.                   *)
(***************************************************************************)
EXTENDS Naturals

CONSTANTS
  Schedulers,  \* scheduler processes (one is intended, more are possible)
  Profiles,    \* job profiles with a schedule
  NoProfile,   \* no profile in hand
  Free,        \* the owner of a lock nobody holds
  MaxMinute,   \* bound on the clock
  DueAt,       \* the minutes schedule_cron matches, per profile
  DayOf,       \* the local date of each minute, per profile (its time zone)
  FaultKinds,  \* the failures that can happen in this instance
  MaxFaults    \* bound on their number

Minutes == 0..MaxMinute

ASSUME OwnersAssumption == Free \notin Schedulers /\ NoProfile \notin Profiles
ASSUME BoundsAssumption == MaxMinute \in Nat /\ MaxFaults \in Nat
\* The cron field and the time zone of a profile decide both functions; the
\* clock starts at minute 0, before anything is due.
ASSUME CalendarAssumption == /\ DueAt \in [Profiles -> SUBSET (Minutes \ {0})]
                             /\ DayOf \in [Profiles -> [Minutes -> Nat]]

VARIABLES
  clock,     \* the current minute
  up,        \* scheduler processes that run
  ticks,     \* ticks in the queue
  proc,      \* what each process is doing
  lock,      \* lock:sched:<profile> in Redis
  profile,   \* the job_profiles row of each: active, paused or deleted
  rows,      \* <<profile, date>> of the runs booked (runs.idempotency_key)
  enqueues,  \* execute_run jobs enqueued for each booking
  faults,    \* failures so far
  excused, stranded, steady  \* history: see below

ghostVars == <<excused, stranded, steady>>
vars == <<clock, up, ticks, proc, lock, profile, rows, enqueues, faults,
          excused, stranded, steady>>

Days     == UNION {{DayOf[p][m] : m \in Minutes} : p \in Profiles}
Bookings == Profiles \X Days

Idle == [pc |-> "idle", at |-> 0, now |-> 0, todo |-> {}, cur |-> NoProfile]

\* excused: <<minute, profile>> pairs whose tick was lost, ran in another minute,
\* found the lock busy, or ended before it had booked the profile.
\* stranded: bookings whose enqueue failed or was cut off.  steady: profiles
\* that stayed active.
Init ==
  /\ clock = 0 /\ up = Schedulers /\ ticks = {}
  /\ proc = [s \in Schedulers |-> Idle]
  /\ lock = [p \in Profiles |-> Free]
  /\ profile = [p \in Profiles |-> "active"]
  /\ rows = {} /\ enqueues = [b \in Bookings |-> 0]
  /\ faults = 0
  /\ excused = {} /\ stranded = {} /\ steady = Profiles

ProcState == [pc: {"idle", "next", "check", "insert", "enqueue"}, at: Minutes,
              now: Minutes, todo: SUBSET Profiles, cur: Profiles \cup {NoProfile}]

TypeOK ==
  /\ clock \in Minutes /\ up \subseteq Schedulers /\ ticks \subseteq Minutes
  /\ proc \in [Schedulers -> ProcState]
  /\ lock \in [Profiles -> Schedulers \cup {Free}]
  /\ profile \in [Profiles -> {"active", "paused", "deleted"}]
  /\ rows \subseteq Bookings /\ enqueues \in [Bookings -> Nat]
  /\ faults \in Nat
  /\ excused \subseteq Minutes \X Profiles /\ stranded \subseteq Bookings /\ steady \subseteq Profiles

Strike(kind) ==
  /\ kind \in FaultKinds
  /\ faults < MaxFaults
  /\ faults' = faults + 1

Active    == {p \in Profiles : profile[p] = "active"}
Exists(p) == profile[p] # "deleted"

\* The profile in hand, and the idempotency key it is booked under.
Holds(s, p) == proc[s].cur = p
Booking(s)  == <<proc[s].cur, DayOf[proc[s].cur][proc[s].now]>>

\* Lock.release deletes the key only while it still carries this token.
\* Mutation: only the released profile's lock is left in the map.
ReleasedAlone(s) == [p \in {proc[s].cur} |-> Free]
Released(s) ==
  [p \in Profiles |-> IF Holds(s, p) /\ lock[p] = s THEN Free ELSE lock[p]]

\* `continue`: release the lock and go on with the next profile.
NextProfile(s) ==
  /\ lock' = Released(s)
  /\ proc' = [proc EXCEPT ![s].pc = "next", ![s].cur = NoProfile]

\* The profiles the tick in hand has still to book.
Unbooked(s) ==
  proc[s].todo \cup (IF proc[s].pc \in {"check", "insert"} THEN {proc[s].cur} ELSE {})

\* An exception leaves the loop: the lock goes, and the tick is over for the
\* profiles that are left, as arq runs a cron job once (max_tries is 1).
Abort(s, left) ==
  /\ lock' = Released(s)
  /\ proc' = [proc EXCEPT ![s] = Idle]
  /\ excused' = excused \cup {proc[s].at} \X left

-----------------------------------------------------------------------------
(* The clock and the queue *)

\* A minute passes.  The processes that are up enqueue its tick.
Advance ==
  /\ clock < MaxMinute
  /\ clock' = clock + 1
  /\ ticks' = IF up = {} THEN ticks ELSE ticks \cup {clock'}
  /\ excused' = IF up = {} THEN excused \cup {clock'} \X Profiles ELSE excused
  /\ UNCHANGED <<up, proc, lock, profile, rows, enqueues, faults, stranded, steady>>

\* Both arq processes poll the same default queue, and the worker does not know
\* the cron function: it drops the tick.  (A restart of Redis loses it as well.)
TakenByWorker(m) ==
  /\ m \in ticks
  /\ Strike("worker")
  /\ ticks' = ticks \ {m}
  /\ excused' = excused \cup {m} \X Profiles
  /\ UNCHANGED <<clock, up, proc, lock, profile, rows, enqueues, stranded, steady>>

\* The process stops, and its lock stays.  Its tick is delivered again and then
\* dropped, as the second try is above max_tries.
Stop(s) ==
  /\ s \in up
  /\ Strike("stop")
  /\ up' = up \ {s}
  /\ proc' = [proc EXCEPT ![s] = Idle]
  /\ excused' = excused \cup {proc[s].at} \X Unbooked(s)
  /\ stranded' = IF proc[s].pc = "enqueue" THEN stranded \cup {Booking(s)} ELSE stranded
  /\ UNCHANGED <<clock, ticks, lock, profile, rows, enqueues, steady>>

Restart(s) ==
  /\ s \in Schedulers \ up
  /\ up' = up \cup {s}
  /\ UNCHANGED <<clock, ticks, proc, lock, profile, rows, enqueues, faults, ghostVars>>

\* timeout=30 on the lock: it may run out while its holder is still busy.
LockExpires(p) ==
  /\ lock[p] # Free
  /\ IF Holds(lock[p], p) THEN Strike("slow") ELSE UNCHANGED faults
  /\ lock' = [lock EXCEPT ![p] = Free]
  /\ UNCHANGED <<clock, up, ticks, proc, profile, rows, enqueues, excused, stranded,
                 steady>>

\* The tenant pauses the profile or activates it again, ...
SetActive(p) ==
  /\ Exists(p)
  /\ Strike("tenant")
  /\ profile' = [profile EXCEPT ![p] = IF @ = "active" THEN "paused" ELSE "active"]
  /\ steady' = steady \ {p}
  /\ UNCHANGED <<clock, up, ticks, proc, lock, rows, enqueues, excused, stranded>>

\* ... or deletes it, which takes its runs along (ON DELETE CASCADE).
DeleteProfile(p) ==
  /\ Exists(p)
  /\ Strike("tenant")
  /\ profile' = [profile EXCEPT ![p] = "deleted"]
  /\ rows' = {b \in rows : b[1] # p}
  /\ steady' = steady \ {p}
  /\ UNCHANGED <<clock, up, ticks, proc, lock, enqueues, excused, stranded>>

-----------------------------------------------------------------------------
(* enqueue_due_runs *)

\* _is_due: the cron matches the minute the tick runs in.  Mutation: the
\* seconds are rounded up, not cut off.
IsDueRounded(p, now) == now + 1 \in DueAt[p]
IsDue(p, now) == now \in DueAt[p]

\* The tick reads the clock and the active profiles when it starts, which may
\* be after its own minute.
StartTick(s, m) ==
  /\ s \in up /\ proc[s].pc = "idle" /\ m \in ticks
  /\ ticks' = ticks \ {m}
  /\ proc' = [proc EXCEPT ![s] =
                [pc |-> "next", at |-> m, now |-> clock,
                 todo |-> {p \in Active : IsDue(p, clock)}, cur |-> NoProfile]]
  /\ excused' = IF clock = m THEN excused ELSE excused \cup {m} \X Profiles
  /\ UNCHANGED <<clock, up, lock, profile, rows, enqueues, faults, stranded, steady>>

\* The query for the profiles raises: nothing of this tick is booked.
StartFails(s, m) ==
  /\ s \in up /\ proc[s].pc = "idle" /\ m \in ticks
  /\ Strike("error")
  /\ ticks' = ticks \ {m}
  /\ excused' = excused \cup {m} \X Profiles
  /\ UNCHANGED <<clock, up, proc, lock, profile, rows, enqueues, stranded, steady>>

LockIsFree(p) == lock[p] = Free

\* lock.acquire(blocking=False): a busy lock means the profile is skipped.
TryLock(s) ==
  /\ proc[s].pc = "next"
  /\ \E p \in proc[s].todo :
       IF LockIsFree(p)
       THEN /\ lock' = [lock EXCEPT ![p] = s]
            /\ proc' = [proc EXCEPT ![s].pc = "check", ![s].cur = p, ![s].todo = @ \ {p}]
            /\ UNCHANGED excused
       ELSE /\ proc' = [proc EXCEPT ![s].todo = @ \ {p}]
            /\ excused' = excused \cup {<<proc[s].at, p>>}
            /\ UNCHANGED lock
  /\ UNCHANGED <<clock, up, ticks, profile, rows, enqueues, faults, stranded, steady>>

EndTick(s) ==
  /\ proc[s].pc = "next" /\ proc[s].todo = {}
  /\ proc' = [proc EXCEPT ![s] = Idle]
  /\ UNCHANGED <<clock, up, ticks, lock, profile, rows, enqueues, faults, ghostVars>>

\* The duplicate check on the idempotency key.
CheckDupe(s) ==
  /\ proc[s].pc = "check"
  /\ IF Booking(s) \in rows
     THEN NextProfile(s)
     ELSE /\ proc' = [proc EXCEPT ![s].pc = "insert"]
          /\ UNCHANGED lock
  /\ UNCHANGED <<clock, up, ticks, profile, rows, enqueues, faults, ghostVars>>

\* Mutation: no unique constraint on runs.idempotency_key.
NeverTaken(b) == FALSE
KeyTaken(b) == b \in rows

\* Insert and commit.  A taken key, or a profile deleted since the tick read
\* it (job_profile_id refers to it), raises IntegrityError.
Insertable(s) == ~KeyTaken(Booking(s)) /\ Exists(proc[s].cur)

InsertRun(s) ==
  /\ proc[s].pc = "insert" /\ Insertable(s)
  /\ rows' = rows \cup {Booking(s)}
  /\ proc' = [proc EXCEPT ![s].pc = "enqueue"]
  /\ UNCHANGED <<clock, up, ticks, lock, profile, enqueues, faults, ghostVars>>

InsertFails(s) ==
  /\ proc[s].pc = "insert" /\ ~Insertable(s)
  /\ Abort(s, proc[s].todo)
  /\ UNCHANGED <<clock, up, ticks, profile, rows, enqueues, faults, stranded, steady>>

\* The commit is followed by the enqueue.  Mutation: it is not.
EnqueueSkipped(s) ==
  /\ proc[s].pc = "enqueue"
  /\ NextProfile(s)
  /\ UNCHANGED <<clock, up, ticks, profile, rows, enqueues, faults, ghostVars>>

EnqueueRun(s) ==
  /\ proc[s].pc = "enqueue"
  /\ enqueues' = [enqueues EXCEPT ![Booking(s)] = @ + 1]
  /\ NextProfile(s)
  /\ UNCHANGED <<clock, up, ticks, profile, rows, faults, ghostVars>>

\* Any call of the loop raises: the lock, the query or the insert, for which the
\* profile in hand is not booked, or the enqueue, and nobody will execute the
\* run.  The time limit of the job ends the tick in the same way.
CallFails(s) ==
  /\ proc[s].pc # "idle" /\ (proc[s].pc = "next" => proc[s].todo # {})
  /\ Strike("error")
  /\ stranded' = IF proc[s].pc = "enqueue" THEN stranded \cup {Booking(s)} ELSE stranded
  /\ Abort(s, Unbooked(s))
  /\ UNCHANGED <<clock, up, ticks, profile, rows, enqueues, steady>>

\* The call raises as its answer does not arrive, but has had its effect.
LockUnanswered(s) ==
  /\ proc[s].pc = "next"
  /\ Strike("error")
  /\ \E p \in proc[s].todo : LockIsFree(p) /\ lock' = [lock EXCEPT ![p] = s]
  /\ proc' = [proc EXCEPT ![s] = Idle]
  /\ excused' = excused \cup {proc[s].at} \X Unbooked(s)
  /\ UNCHANGED <<clock, up, ticks, profile, rows, enqueues, stranded, steady>>

CommitUnanswered(s) ==
  /\ proc[s].pc = "insert" /\ Insertable(s)
  /\ Strike("error")
  /\ rows' = rows \cup {Booking(s)}
  /\ stranded' = stranded \cup {Booking(s)}
  /\ Abort(s, proc[s].todo)
  /\ UNCHANGED <<clock, up, ticks, profile, enqueues, steady>>

EnqueueUnanswered(s) ==
  /\ proc[s].pc = "enqueue"
  /\ Strike("error")
  /\ enqueues' = [enqueues EXCEPT ![Booking(s)] = @ + 1]
  /\ Abort(s, proc[s].todo)
  /\ UNCHANGED <<clock, up, ticks, profile, rows, stranded, steady>>

-----------------------------------------------------------------------------
(* The specification *)

Work(s) ==
  \/ \E m \in Minutes : StartTick(s, m)
  \/ TryLock(s) \/ EndTick(s) \/ CheckDupe(s) \/ InsertRun(s) \/ InsertFails(s) \/ EnqueueRun(s)

Error(s) ==
  \/ \E m \in Minutes : StartFails(s, m)
  \/ CallFails(s) \/ LockUnanswered(s) \/ CommitUnanswered(s) \/ EnqueueUnanswered(s)

Next ==
  \/ Advance
  \/ \E m \in Minutes : TakenByWorker(m)
  \/ \E s \in Schedulers : Work(s) \/ Error(s) \/ Stop(s) \/ Restart(s)
  \/ \E p \in Profiles : LockExpires(p) \/ SetActive(p) \/ DeleteProfile(p)

Spec == Init /\ [][Next]_vars

\* A process that is up goes on with its tick and takes the next one.
Fairness == \A s \in Schedulers : WF_vars(Work(s))
FairSpec == Spec /\ Fairness

-----------------------------------------------------------------------------
(* Properties *)

\* However many schedulers run and whatever happens to the locks, a booking
\* (profile, date) gives the workers one job at most.
OneJobPerBooking == \A b \in Bookings : enqueues[b] <= 1

\* A profile that stayed active has its day booked once the tick of its minute
\* is over, unless that tick was never queued, was taken by a worker, could not
\* read the profiles, started late, ended (by an error or a stop, the process's
\* own or that of another profile) before it had booked this one, or found the
\* lock busy.
DueDaysAreBooked ==
  \A p \in steady : \A m \in DueAt[p] :
    \/ m > clock \/ m \in ticks \/ <<m, p>> \in excused
    \/ \E s \in Schedulers : proc[s].pc # "idle" /\ proc[s].at = m
    \/ <<p, DayOf[p][m]>> \in rows

\* A booked run is enqueued, unless the enqueue failed or was cut off.
BookingsAreEnqueued ==
  \A b \in Bookings : b \in rows ~> (enqueues[b] > 0 \/ b \in stranded)
=============================================================================
