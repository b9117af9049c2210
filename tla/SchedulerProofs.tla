---------------------------- MODULE SchedulerProofs ----------------------------
(***************************************************************************)
(* Theorems about Scheduler, for every number of processes, profiles and   *)
(* failures and every calendar.                                            *)
(***************************************************************************)
EXTENDS Scheduler, TLAPS

\* A process past its lock has a profile in hand.
InHand == \A s \in Schedulers :
            proc[s].pc \in {"check", "insert", "enqueue"} => proc[s].cur \in Profiles
TypeInv == TypeOK /\ InHand

-----------------------------------------------------------------------------
(* Types *)

LEMMA MinutesAreNat == Minutes \subseteq Nat /\ 0 \in Minutes
  BY BoundsAssumption DEF Minutes

\* What a process in hand of a profile books is a booking.
LEMMA BookingType ==
  ASSUME TypeInv, NEW s \in Schedulers, proc[s].pc \in {"check", "insert", "enqueue"}
  PROVE  Booking(s) \in Bookings
<1>1. proc[s].cur \in Profiles /\ proc[s].now \in Minutes
  BY DEF TypeInv, TypeOK, InHand, ProcState
<1>2. DayOf[proc[s].cur][proc[s].now] \in Days
  BY <1>1 DEF Days
<1>3. QED
  BY <1>1, <1>2 DEF Booking, Bookings

LEMMA IdleType == Idle \in ProcState /\ Idle.pc = "idle"
  BY MinutesAreNat DEF Idle, ProcState

\* The profiles a tick has still to book are profiles.
LEMMA UnbookedType ==
  ASSUME TypeInv, NEW s \in Schedulers
  PROVE  Unbooked(s) \subseteq Profiles /\ proc[s].todo \subseteq Profiles /\ proc[s].at \in Minutes
  BY DEF TypeInv, TypeOK, InHand, ProcState, Unbooked

\* Letting go of the profile in hand keeps the types.
LEMMA LetGo ==
  ASSUME TypeInv, NEW s \in Schedulers, NEW left, NextProfile(s) \/ Abort(s, left)
  PROVE  /\ proc' \in [Schedulers -> ProcState] /\ lock' \in [Profiles -> Schedulers \cup {Free}]
         /\ \A u \in Schedulers : u # s => proc'[u] = proc[u]
         /\ proc'[s].pc \in {"next", "idle"}
<1>1. lock' \in [Profiles -> Schedulers \cup {Free}]
  BY DEF TypeInv, TypeOK, NextProfile, Abort, Released
<1>2. CASE NextProfile(s)
  <2>1. [proc[s] EXCEPT !.pc = "next", !.cur = NoProfile] \in ProcState
    BY DEF TypeInv, TypeOK, ProcState
  <2>2. proc' = [proc EXCEPT ![s] = [proc[s] EXCEPT !.pc = "next", !.cur = NoProfile]]
    BY <1>2 DEF NextProfile, TypeInv, TypeOK
  <2>3. QED
    BY <1>1, <2>1, <2>2 DEF TypeInv, TypeOK, ProcState
<1>3. CASE Abort(s, left)
  BY <1>1, <1>3, IdleType DEF Abort, TypeInv, TypeOK
<1>4. QED
  BY <1>2, <1>3

LEMMA TypesStep == TypeInv /\ [Next]_vars => TypeInv'
<1> SUFFICES ASSUME TypeInv, [Next]_vars PROVE TypeInv'
  OBVIOUS
<1> USE DEF TypeInv, TypeOK, InHand, ghostVars
<1>1. CASE Advance
  <2>1. clock + 1 \in Minutes
    BY <1>1, BoundsAssumption DEF Advance, Minutes
  <2>2. QED
    BY <1>1, <2>1 DEF Advance
<1>2. ASSUME NEW m \in Minutes, TakenByWorker(m) PROVE TypeInv'
  BY <1>2 DEF TakenByWorker, Strike
<1>3. ASSUME NEW s \in Schedulers, NEW m \in Minutes, StartTick(s, m) PROVE TypeInv'
  <2> DEFINE p == [pc |-> "next", at |-> m, now |-> clock,
                   todo |-> {q \in Active : IsDue(q, clock)}, cur |-> NoProfile]
  <2>1. p \in ProcState
    BY DEF ProcState, Active
  <2>2. proc' = [proc EXCEPT ![s] = p]
    BY <1>3 DEF StartTick
  <2>3. excused' \subseteq Minutes \X Profiles
    BY <1>3 DEF StartTick
  <2>4. QED
    BY <1>3, <2>1, <2>2, <2>3 DEF StartTick
<1>4. ASSUME NEW s \in Schedulers, TryLock(s) PROVE TypeInv'
  <2>1. PICK p \in proc[s].todo :
          IF LockIsFree(p)
          THEN /\ lock' = [lock EXCEPT ![p] = s]
               /\ proc' = [proc EXCEPT ![s].pc = "check", ![s].cur = p, ![s].todo = @ \ {p}]
               /\ UNCHANGED excused
          ELSE /\ proc' = [proc EXCEPT ![s].todo = @ \ {p}]
               /\ excused' = excused \cup {<<proc[s].at, p>>}
               /\ UNCHANGED lock
    BY <1>4 DEF TryLock
  <2>2. p \in Profiles /\ proc[s].at \in Minutes /\ proc[s].pc = "next"
    BY <1>4, <2>1 DEF TryLock, ProcState
  <2>3. CASE LockIsFree(p)
    <3>1. [proc[s] EXCEPT !.pc = "check", !.cur = p, !.todo = @ \ {p}] \in ProcState
      BY <2>2 DEF ProcState
    <3>2. proc' = [proc EXCEPT ![s] = [proc[s] EXCEPT !.pc = "check", !.cur = p, !.todo = @ \ {p}]]
      BY <2>1, <2>3
    <3>3. QED
      BY <1>4, <2>1, <2>2, <2>3, <3>1, <3>2 DEF TryLock, ProcState
  <2>4. CASE ~LockIsFree(p)
    <3>1. [proc[s] EXCEPT !.todo = @ \ {p}] \in ProcState
      BY <2>2 DEF ProcState
    <3>2. proc' = [proc EXCEPT ![s] = [proc[s] EXCEPT !.todo = @ \ {p}]]
      BY <2>1, <2>4
    <3>3. QED
      BY <1>4, <2>1, <2>2, <2>4, <3>1, <3>2 DEF TryLock, ProcState
  <2>5. QED
    BY <2>3, <2>4
<1>5. ASSUME NEW s \in Schedulers, EndTick(s) PROVE TypeInv'
  BY <1>5, IdleType DEF EndTick
<1>6. ASSUME NEW s \in Schedulers, CheckDupe(s) PROVE TypeInv'
  <2>1. CASE Booking(s) \in rows
    BY <1>6, <2>1, LetGo DEF CheckDupe
  <2>2. CASE Booking(s) \notin rows
    <3>1. [proc[s] EXCEPT !.pc = "insert"] \in ProcState
      BY DEF ProcState
    <3>2. proc' = [proc EXCEPT ![s] = [proc[s] EXCEPT !.pc = "insert"]]
      BY <1>6, <2>2 DEF CheckDupe
    <3>3. QED
      BY <1>6, <2>2, <3>1, <3>2 DEF CheckDupe, ProcState
  <2>3. QED
    BY <2>1, <2>2
<1>7. ASSUME NEW s \in Schedulers, InsertRun(s) PROVE TypeInv'
  <2>1. [proc[s] EXCEPT !.pc = "enqueue"] \in ProcState
    BY DEF ProcState
  <2>2. proc' = [proc EXCEPT ![s] = [proc[s] EXCEPT !.pc = "enqueue"]]
    BY <1>7 DEF InsertRun
  <2>3. rows' \subseteq Bookings
    BY <1>7, BookingType DEF InsertRun
  <2>4. QED
    BY <1>7, <2>1, <2>2, <2>3 DEF InsertRun, ProcState
<1>8. ASSUME NEW s \in Schedulers, InsertFails(s) PROVE TypeInv'
  <2>1. excused' \subseteq Minutes \X Profiles
    BY <1>8, UnbookedType DEF InsertFails, Abort
  <2>2. QED
    BY <1>8, <2>1, LetGo DEF InsertFails
<1>9. ASSUME NEW s \in Schedulers, EnqueueRun(s) PROVE TypeInv'
  <2>1. enqueues' \in [Bookings -> Nat]
    BY <1>9, BookingType DEF EnqueueRun
  <2>2. QED
    BY <1>9, <2>1, LetGo DEF EnqueueRun
<1>10. ASSUME NEW s \in Schedulers, Error(s) PROVE TypeInv'
  <2>1. ASSUME NEW m \in Minutes, StartFails(s, m) PROVE TypeInv'
    BY <2>1 DEF StartFails, Strike
  <2>2. CASE CallFails(s)
    <3>1. excused' \subseteq Minutes \X Profiles
      BY <2>2, UnbookedType DEF CallFails, Abort
    <3>2. stranded' \subseteq Bookings /\ faults' \in Nat
      BY <2>2, BookingType DEF CallFails, Strike
    <3>3. QED
      BY <2>2, <3>1, <3>2, LetGo DEF CallFails
  <2>3. CASE LockUnanswered(s)
    <3>1. excused' \subseteq Minutes \X Profiles /\ faults' \in Nat
      BY <2>3, UnbookedType DEF LockUnanswered, Strike
    <3>2. lock' \in [Profiles -> Schedulers \cup {Free}]
      BY <2>3, UnbookedType DEF LockUnanswered
    <3>3. QED
      BY <2>3, <3>1, <3>2, IdleType DEF LockUnanswered
  <2>4. CASE CommitUnanswered(s)
    <3>1. excused' \subseteq Minutes \X Profiles
      BY <2>4, UnbookedType DEF CommitUnanswered, Abort
    <3>2. rows' \subseteq Bookings /\ stranded' \subseteq Bookings /\ faults' \in Nat
      BY <2>4, BookingType DEF CommitUnanswered, Strike
    <3>3. QED
      BY <2>4, <3>1, <3>2, LetGo DEF CommitUnanswered
  <2>5. CASE EnqueueUnanswered(s)
    <3>1. excused' \subseteq Minutes \X Profiles
      BY <2>5, UnbookedType DEF EnqueueUnanswered, Abort
    <3>2. enqueues' \in [Bookings -> Nat] /\ faults' \in Nat
      BY <2>5, BookingType DEF EnqueueUnanswered, Strike
    <3>3. QED
      BY <2>5, <3>1, <3>2, LetGo DEF EnqueueUnanswered
  <2>6. QED
    BY <1>10, <2>1, <2>2, <2>3, <2>4, <2>5 DEF Error
<1>11. ASSUME NEW s \in Schedulers, Stop(s) PROVE TypeInv'
  <2>1. stranded' \subseteq Bookings
    BY <1>11, BookingType DEF Stop
  <2>2. excused' \subseteq Minutes \X Profiles
    BY <1>11, UnbookedType DEF Stop
  <2>3. QED
    BY <1>11, <2>1, <2>2, IdleType DEF Stop, Strike
<1>12. ASSUME NEW s \in Schedulers, Restart(s) PROVE TypeInv'
  BY <1>12 DEF Restart
<1>13. ASSUME NEW p \in Profiles, LockExpires(p) PROVE TypeInv'
  BY <1>13 DEF LockExpires, Strike
<1>14. ASSUME NEW p \in Profiles, SetActive(p) \/ DeleteProfile(p) PROVE TypeInv'
  BY <1>14 DEF SetActive, DeleteProfile, Strike
<1>15. CASE UNCHANGED vars
  BY <1>15 DEF vars
<1>16. QED
  BY <1>1, <1>2, <1>3, <1>4, <1>5, <1>6, <1>7, <1>8, <1>9, <1>10, <1>11, <1>12, <1>13, <1>14,
     <1>15 DEF Next, Work

LEMMA TypesInductive == Spec => []TypeInv
<1>1. Init => TypeInv
  BY MinutesAreNat, IdleType DEF Init, TypeInv, TypeOK, InHand
<1>2. QED
  BY <1>1, TypesStep, PTL DEF Spec

\* The clock, the ticks, every process, lock and booking keep their types.
THEOREM SchedulerTypes == Spec => []TypeOK
<1>1. TypeInv => TypeOK
  BY DEF TypeInv
<1>2. QED
  BY <1>1, TypesInductive, PTL

-----------------------------------------------------------------------------
(* One job for each booking *)

\* Between the commit of a booking and its enqueue exactly one process has it in
\* hand, whoever holds the lock by then: the unique key lets one insert through.
\* The bookings of a deleted profile are gone, and it gets no other.
InsertedByOne ==
  /\ \A b \in Bookings : enqueues[b] <= 1 /\ (b \notin rows /\ Exists(b[1]) => enqueues[b] = 0)
  /\ \A s \in Schedulers : proc[s].pc = "enqueue" =>
       /\ Booking(s) \in rows \/ ~Exists(proc[s].cur)
       /\ enqueues[Booking(s)] = 0
       /\ \A u \in Schedulers \ {s} : proc[u].pc = "enqueue" => Booking(u) # Booking(s)

\* A step that moves one process, not to its enqueue, and enqueues nothing.
LEMMA OthersStay ==
  ASSUME InsertedByOne, NEW s \in Schedulers, proc'[s].pc # "enqueue",
         \A u \in Schedulers : u # s => proc'[u] = proc[u],
         UNCHANGED <<rows, enqueues, profile>>
  PROVE  InsertedByOne'
<1>1. \A u \in Schedulers : proc'[u].pc = "enqueue" =>
        u # s /\ proc[u].pc = "enqueue" /\ proc'[u] = proc[u] /\ Booking(u)' = Booking(u)
  BY DEF Booking
<1>2. QED
  BY <1>1 DEF InsertedByOne, Exists

\* A step that moves no process.
LEMMA NobodyMoves ==
  ASSUME InsertedByOne, UNCHANGED <<proc, rows, enqueues, profile>>
  PROVE  InsertedByOne'
  BY DEF InsertedByOne, Booking, Exists

\* A booking in hand is one of its profile.
LEMMA BookingOf == \A s \in Schedulers : Booking(s)[1] = proc[s].cur
  BY DEF Booking

LEMMA InsertedByOneStep == TypeInv /\ InsertedByOne /\ [Next]_vars => InsertedByOne'
<1> SUFFICES ASSUME TypeInv, InsertedByOne, [Next]_vars PROVE InsertedByOne'
  OBVIOUS
<1> USE DEF TypeInv, TypeOK
<1>1. CASE Advance
  BY <1>1, NobodyMoves DEF Advance
<1>2. ASSUME NEW m \in Minutes, TakenByWorker(m) PROVE InsertedByOne'
  BY <1>2, NobodyMoves DEF TakenByWorker
<1>3. ASSUME NEW s \in Schedulers, NEW m \in Minutes, StartTick(s, m) PROVE InsertedByOne'
  BY <1>3, OthersStay DEF StartTick
<1>4. ASSUME NEW s \in Schedulers, TryLock(s) PROVE InsertedByOne'
  <2>1. proc'[s].pc # "enqueue" /\ \A u \in Schedulers : u # s => proc'[u] = proc[u]
    BY <1>4 DEF TryLock, ProcState
  <2>2. QED
    BY <1>4, <2>1, OthersStay DEF TryLock
<1>5. ASSUME NEW s \in Schedulers, EndTick(s) PROVE InsertedByOne'
  BY <1>5, OthersStay, IdleType DEF EndTick
<1>6. ASSUME NEW s \in Schedulers, CheckDupe(s) PROVE InsertedByOne'
  <2>1. proc'[s].pc # "enqueue" /\ \A u \in Schedulers : u # s => proc'[u] = proc[u]
    BY <1>6, LetGo DEF CheckDupe, ProcState
  <2>2. QED
    BY <1>6, <2>1, OthersStay DEF CheckDupe
<1>7. ASSUME NEW s \in Schedulers, InsertRun(s) PROVE InsertedByOne'
  <2>1. /\ Booking(s) \in Bookings /\ Booking(s) \notin rows
        /\ Exists(proc[s].cur) /\ Booking(s)[1] = proc[s].cur
    BY <1>7, BookingType, BookingOf DEF InsertRun, Insertable, KeyTaken
  <2>2. rows' = rows \cup {Booking(s)} /\ enqueues' = enqueues /\ profile' = profile
    BY <1>7 DEF InsertRun
  <2>3. \A u \in Schedulers : Booking(u)' = Booking(u) /\ proc'[u].cur = proc[u].cur
    BY <1>7 DEF InsertRun, Booking, ProcState
  <2>4. \A u \in Schedulers : proc'[u].pc = "enqueue" => u = s \/ proc[u].pc = "enqueue"
    BY <1>7 DEF InsertRun
  <2>5. \A u \in Schedulers : proc[u].pc = "enqueue" => Booking(u) # Booking(s)
    BY <2>1, BookingOf DEF InsertedByOne
  <2>6. QED
    BY <2>1, <2>2, <2>3, <2>4, <2>5 DEF InsertedByOne, Exists
<1>8. ASSUME NEW s \in Schedulers, InsertFails(s) PROVE InsertedByOne'
  BY <1>8, LetGo, OthersStay DEF InsertFails
\* The enqueue, and whether its answer arrives.
<1>a. ASSUME NEW s \in Schedulers, proc[s].pc = "enqueue", UNCHANGED <<rows, profile>>,
             proc'[s].pc # "enqueue", \A u \in Schedulers : u # s => proc'[u] = proc[u],
             enqueues' = [enqueues EXCEPT ![Booking(s)] = @ + 1]
      PROVE  InsertedByOne'
  <2>1. /\ Booking(s) \in Bookings /\ enqueues[Booking(s)] = 0
        /\ Booking(s) \in rows \/ ~Exists(Booking(s)[1])
    BY <1>a, BookingType, BookingOf DEF InsertedByOne
  <2>2. \A u \in Schedulers : proc'[u].pc = "enqueue" =>
          /\ u # s /\ proc[u].pc = "enqueue" /\ proc'[u] = proc[u] /\ Booking(u)' = Booking(u)
          /\ Booking(u) # Booking(s) /\ Booking(u) \in Bookings
    BY <1>a, BookingType DEF Booking, InsertedByOne
  <2>3. \A b \in Bookings : enqueues'[b] = IF b = Booking(s) THEN 1 ELSE enqueues[b]
    BY <1>a, <2>1
  <2>4. QED
    BY <1>a, <2>1, <2>2, <2>3 DEF InsertedByOne, Exists
<1>9. ASSUME NEW s \in Schedulers, EnqueueRun(s) PROVE InsertedByOne'
  BY <1>9, <1>a, LetGo DEF EnqueueRun
<1>10. ASSUME NEW s \in Schedulers, Error(s) PROVE InsertedByOne'
  <2>1. ASSUME NEW m \in Minutes, StartFails(s, m) PROVE InsertedByOne'
    BY <2>1, NobodyMoves DEF StartFails
  <2>2. CASE CallFails(s)
    BY <2>2, LetGo, OthersStay DEF CallFails
  <2>3. CASE LockUnanswered(s)
    BY <2>3, IdleType, OthersStay DEF LockUnanswered
  <2>4. CASE CommitUnanswered(s)
    <3>1. /\ Booking(s) \in Bookings /\ Booking(s) \notin rows
          /\ Exists(proc[s].cur) /\ Booking(s)[1] = proc[s].cur
      BY <2>4, BookingType, BookingOf DEF CommitUnanswered, Insertable, KeyTaken
    <3>2. rows' = rows \cup {Booking(s)} /\ enqueues' = enqueues /\ profile' = profile
      BY <2>4 DEF CommitUnanswered
    <3>3. \A u \in Schedulers : proc'[u].pc = "enqueue" =>
            u # s /\ proc[u].pc = "enqueue" /\ proc'[u] = proc[u] /\ Booking(u)' = Booking(u)
      BY <2>4, LetGo DEF CommitUnanswered, Booking
    <3>4. QED
      BY <3>1, <3>2, <3>3 DEF InsertedByOne, Exists
  <2>5. CASE EnqueueUnanswered(s)
    BY <2>5, <1>a, LetGo DEF EnqueueUnanswered
  <2>6. QED
    BY <1>10, <2>1, <2>2, <2>3, <2>4, <2>5 DEF Error
<1>11. ASSUME NEW s \in Schedulers, Stop(s) PROVE InsertedByOne'
  BY <1>11, IdleType, OthersStay DEF Stop
<1>12. ASSUME NEW s \in Schedulers, Restart(s) PROVE InsertedByOne'
  BY <1>12, NobodyMoves DEF Restart
<1>13. ASSUME NEW p \in Profiles, LockExpires(p) PROVE InsertedByOne'
  BY <1>13, NobodyMoves DEF LockExpires
<1>14. ASSUME NEW p \in Profiles, SetActive(p) \/ DeleteProfile(p) PROVE InsertedByOne'
  <2>1. UNCHANGED <<proc, enqueues>> /\ \A q \in Profiles : Exists(q)' => Exists(q)
    BY <1>14 DEF SetActive, DeleteProfile, Exists
  <2>2. \A b \in Bookings : b \in rows /\ Exists(b[1])' => b \in rows'
    BY <1>14 DEF SetActive, DeleteProfile, Exists, Bookings
  <2>3. \A s \in Schedulers : proc[s].pc = "enqueue" =>
          Booking(s) \in Bookings /\ Booking(s)[1] = proc[s].cur /\ proc[s].cur \in Profiles
    BY BookingType, BookingOf DEF InHand
  <2>4. \A b \in Bookings : b[1] \in Profiles
    BY DEF Bookings
  <2>5. \A b \in Bookings : b \notin rows' /\ Exists(b[1])' => b \notin rows /\ Exists(b[1])
    BY <2>1, <2>2, <2>4
  <2>6. \A s \in Schedulers : proc[s].pc = "enqueue" =>
          Booking(s) \in rows' \/ ~Exists(proc[s].cur)'
    BY <2>1, <2>2, <2>3 DEF InsertedByOne
  <2>7. QED
    BY <2>1, <2>5, <2>6 DEF InsertedByOne, Booking
<1>15. CASE UNCHANGED vars
  BY <1>15, NobodyMoves DEF vars
<1>16. QED
  BY <1>1, <1>2, <1>3, <1>4, <1>5, <1>6, <1>7, <1>8, <1>9, <1>10, <1>11, <1>12, <1>13, <1>14,
     <1>15 DEF Next, Work

\* A profile and date give the workers one job at most, with any number of
\* scheduler processes and whatever happens to the locks: the unique key of
\* runs does what the lock and the duplicate check cannot.
THEOREM BookingsEnqueuedOnce == Spec => []OneJobPerBooking
<1>1. Init => InsertedByOne
  BY IdleType DEF Init, InsertedByOne
<1>2. InsertedByOne => OneJobPerBooking
  BY DEF InsertedByOne, OneJobPerBooking
<1>3. QED
  BY <1>1, <1>2, InsertedByOneStep, TypesInductive, PTL DEF Spec

-----------------------------------------------------------------------------
(* Every due day is booked *)

\* The process s runs the tick of minute m in that minute, and p is still
\* ahead of it or in its hands.
OnIt(s, m, p) ==
  /\ proc[s].pc # "idle" /\ proc[s].at = m /\ proc[s].now = m
  /\ \/ p \in proc[s].todo
     \/ proc[s].cur = p /\ proc[s].pc \in {"check", "insert"}
Pending(m, p) == m > clock \/ m \in ticks \/ <<m, p>> \in excused
Booked(m, p)  == <<p, DayOf[p][m]>> \in rows

\* What DueDaysAreBooked says, with the process that is on its way to p.
DueDaysAccounted ==
  /\ steady \subseteq Active
  /\ \A p \in steady : \A m \in DueAt[p] :
       Pending(m, p) \/ Booked(m, p) \/ \E s \in Schedulers : OnIt(s, m, p)

\* What the steps before have settled stays settled, or passes to a process:
\* the part of the invariant a step has to establish.
LEMMA Accounted ==
  ASSUME TypeInv, DueDaysAccounted,
         steady' \subseteq steady, steady' \subseteq Active',
         \A b \in rows : b[1] \in steady' => b \in rows',
         \A p \in steady' : \A m \in DueAt[p] :
           Pending(m, p) => Pending(m, p)' \/ Booked(m, p)' \/ \E s \in Schedulers : OnIt(s, m, p)',
         \A p \in steady' : \A m \in DueAt[p] : \A s \in Schedulers :
           OnIt(s, m, p) => Pending(m, p)' \/ Booked(m, p)' \/ OnIt(s, m, p)'
  PROVE  DueDaysAccounted'
<1>1. \A p \in steady' : \A m \in DueAt[p] : Booked(m, p) => Booked(m, p)'
  BY DEF Booked
<1>2. QED
  BY <1>1 DEF DueDaysAccounted

LEMMA DueDaysStep == TypeInv /\ DueDaysAccounted /\ [Next]_vars => DueDaysAccounted'
<1> SUFFICES ASSUME TypeInv, DueDaysAccounted, [Next]_vars PROVE DueDaysAccounted'
  OBVIOUS
<1> USE DEF TypeInv, TypeOK
<1>a. \A p \in steady : p \in Profiles /\ DueAt[p] \subseteq Minutes /\ p # NoProfile
  BY CalendarAssumption, OwnersAssumption
<1>1. CASE Advance
  <2>1. UNCHANGED <<proc, rows, steady, profile>> /\ clock' = clock + 1
    BY <1>1 DEF Advance
  <2>2. \A p \in steady : \A m \in DueAt[p] : Pending(m, p) => Pending(m, p)'
    <3> SUFFICES ASSUME NEW p \in steady, NEW m \in DueAt[p], Pending(m, p) PROVE Pending(m, p)'
      OBVIOUS
    <3>1. m \in Nat /\ clock \in Nat /\ p \in Profiles
      BY <1>a, MinutesAreNat
    <3>2. CASE m > clock
      <4>1. m > clock + 1 \/ m = clock + 1
        BY <3>1, <3>2
      <4>2. clock + 1 \in ticks' \/ <<clock + 1, p>> \in excused'
        BY <1>1, <3>1 DEF Advance
      <4>3. QED
        BY <2>1, <4>1, <4>2 DEF Pending
    <3>3. CASE m \in ticks \/ <<m, p>> \in excused
      BY <1>1, <3>3 DEF Advance, Pending
    <3>4. QED
      BY <3>2, <3>3 DEF Pending
  <2>3. QED
    BY <2>1, <2>2, Accounted DEF OnIt, Active, DueDaysAccounted
<1>2. ASSUME NEW m \in Minutes, TakenByWorker(m) PROVE DueDaysAccounted'
  <2>1. UNCHANGED <<clock, proc, rows, steady, profile>>
        /\ ticks' = ticks \ {m} /\ excused' = excused \cup {m} \X Profiles
    BY <1>2 DEF TakenByWorker
  <2>2. \A p \in steady : \A n \in DueAt[p] : Pending(n, p) => Pending(n, p)'
    BY <1>a, <2>1 DEF Pending
  <2>3. QED
    BY <2>1, <2>2, Accounted DEF OnIt, Active, DueDaysAccounted
<1>3. ASSUME NEW s \in Schedulers, NEW m \in Minutes, StartTick(s, m) PROVE DueDaysAccounted'
  <2>1. /\ UNCHANGED <<clock, rows, steady, profile>> /\ ticks' = ticks \ {m}
        /\ excused' = IF clock = m THEN excused ELSE excused \cup {m} \X Profiles
        /\ proc[s].pc = "idle" /\ \A u \in Schedulers : u # s => proc'[u] = proc[u]
        /\ proc'[s] = [pc |-> "next", at |-> m, now |-> clock,
                       todo |-> {p \in Active : IsDue(p, clock)}, cur |-> NoProfile]
    BY <1>3 DEF StartTick
  <2>2. \A p \in steady : \A n \in DueAt[p] : Pending(n, p) => Pending(n, p)' \/ OnIt(s, n, p)'
    <3> SUFFICES ASSUME NEW p \in steady, NEW n \in DueAt[p], Pending(n, p)
                 PROVE  Pending(n, p)' \/ OnIt(s, n, p)'
      OBVIOUS
    <3>1. CASE n # m \/ clock # m
      BY <1>a, <2>1, <3>1 DEF Pending
    <3>2. CASE n = m /\ clock = m
      <4>1. p \in Active /\ IsDue(p, clock)
        BY <3>2 DEF DueDaysAccounted, IsDue
      <4>2. p \in proc'[s].todo
        BY <2>1, <4>1
      <4>3. QED
        BY <2>1, <3>2, <4>2 DEF OnIt
    <3>3. QED
      BY <3>1, <3>2
  <2>3. \A p \in steady : \A n \in DueAt[p] : \A u \in Schedulers :
          OnIt(u, n, p) => OnIt(u, n, p)'
    BY <2>1 DEF OnIt
  <2>4. QED
    BY <2>1, <2>2, <2>3, Accounted DEF Active, DueDaysAccounted
\* The steps of a process that is on its way.
<1>b. ASSUME NEW s \in Schedulers, UNCHANGED <<clock, ticks, steady, profile>>,
             excused \subseteq excused', rows \subseteq rows',
             \A u \in Schedulers : u # s => proc'[u] = proc[u],
             \A p \in steady : \A m \in DueAt[p] :
               OnIt(s, m, p) => Pending(m, p)' \/ Booked(m, p)' \/ OnIt(s, m, p)'
      PROVE  DueDaysAccounted'
  <2>1. \A p \in steady : \A m \in DueAt[p] : Pending(m, p) => Pending(m, p)'
    BY <1>b DEF Pending
  <2>2. \A p \in steady : \A m \in DueAt[p] : \A u \in Schedulers \ {s} :
          OnIt(u, m, p) => OnIt(u, m, p)'
    BY <1>b DEF OnIt
  <2>3. QED
    BY <1>b, <2>1, <2>2, Accounted DEF Active, DueDaysAccounted
<1>4. ASSUME NEW s \in Schedulers, TryLock(s) PROVE DueDaysAccounted'
  <2>1. PICK q \in proc[s].todo :
          IF LockIsFree(q)
          THEN /\ lock' = [lock EXCEPT ![q] = s]
               /\ proc' = [proc EXCEPT ![s].pc = "check", ![s].cur = q, ![s].todo = @ \ {q}]
               /\ UNCHANGED excused
          ELSE /\ proc' = [proc EXCEPT ![s].todo = @ \ {q}]
               /\ excused' = excused \cup {<<proc[s].at, q>>}
               /\ UNCHANGED lock
    BY <1>4 DEF TryLock
  <2>2. proc[s].pc = "next" /\ UNCHANGED <<clock, ticks, rows, steady, profile>>
    BY <1>4 DEF TryLock
  <2>3. proc'[s].pc # "enqueue" /\ \A u \in Schedulers : u # s => proc'[u] = proc[u]
    BY <2>1, <2>2 DEF ProcState
  <2>4. \A p \in steady : \A m \in DueAt[p] : OnIt(s, m, p) => Pending(m, p)' \/ OnIt(s, m, p)'
    <3>1. CASE LockIsFree(q)
      BY <2>1, <2>2, <3>1 DEF OnIt, ProcState
    <3>2. CASE ~LockIsFree(q)
      BY <2>1, <2>2, <3>2 DEF OnIt, Pending, ProcState
    <3>3. QED
      BY <3>1, <3>2
  <2>5. excused \subseteq excused'
    BY <2>1
  <2>6. QED
    BY <1>b, <2>2, <2>3, <2>4, <2>5
<1>5. ASSUME NEW s \in Schedulers, EndTick(s) PROVE DueDaysAccounted'
  <2>1. \A p \in steady : \A m \in DueAt[p] : ~OnIt(s, m, p)
    BY <1>5 DEF EndTick, OnIt
  <2>2. QED
    BY <1>5, <2>1, <1>b, IdleType DEF EndTick, ghostVars
<1>6. ASSUME NEW s \in Schedulers, CheckDupe(s) PROVE DueDaysAccounted'
  <2>1. proc[s].pc = "check" /\ UNCHANGED <<clock, ticks, rows, steady, profile, excused>>
    BY <1>6 DEF CheckDupe, ghostVars
  <2>2. CASE Booking(s) \in rows
    <3>1. NextProfile(s)
      BY <1>6, <2>2 DEF CheckDupe
    <3>2. \A p \in steady : \A m \in DueAt[p] :
            OnIt(s, m, p) => Booked(m, p)' \/ OnIt(s, m, p)'
      <4> SUFFICES ASSUME NEW p \in steady, NEW m \in DueAt[p], OnIt(s, m, p)
                   PROVE  Booked(m, p)' \/ OnIt(s, m, p)'
        OBVIOUS
      <4>1. CASE p \in proc[s].todo
        BY <2>1, <3>1, <4>1 DEF NextProfile, OnIt, ProcState
      <4>2. CASE proc[s].cur = p
        <5>1. Booking(s) = <<p, DayOf[p][m]>>
          BY <4>2 DEF OnIt, Booking
        <5>2. QED
          BY <2>1, <2>2, <5>1 DEF Booked
      <4>3. QED
        BY <4>1, <4>2 DEF OnIt
    <3>3. QED
      BY <2>1, <3>1, <3>2, <1>b, LetGo
  <2>3. CASE Booking(s) \notin rows
    <3>1. proc' = [proc EXCEPT ![s].pc = "insert"]
      BY <1>6, <2>3 DEF CheckDupe
    <3>2. \A p \in steady : \A m \in DueAt[p] : OnIt(s, m, p) => OnIt(s, m, p)'
      BY <2>1, <3>1 DEF OnIt, ProcState
    <3>3. proc'[s].pc = "insert" /\ \A u \in Schedulers : u # s => proc'[u] = proc[u]
      BY <3>1 DEF ProcState
    <3>4. QED
      BY <2>1, <3>2, <3>3, <1>b
  <2>4. QED
    BY <2>2, <2>3
<1>7. ASSUME NEW s \in Schedulers, InsertRun(s) PROVE DueDaysAccounted'
  <2>1. /\ proc[s].pc = "insert" /\ UNCHANGED <<clock, ticks, steady, profile, excused>>
        /\ rows' = rows \cup {Booking(s)} /\ proc' = [proc EXCEPT ![s].pc = "enqueue"]
    BY <1>7 DEF InsertRun, ghostVars
  <2>2. \A u \in Schedulers : u # s => proc'[u] = proc[u]
    BY <2>1 DEF ProcState
  <2>3. \A p \in steady : \A m \in DueAt[p] :
          OnIt(s, m, p) => Booked(m, p)' \/ OnIt(s, m, p)'
    <3> SUFFICES ASSUME NEW p \in steady, NEW m \in DueAt[p], OnIt(s, m, p)
                 PROVE  Booked(m, p)' \/ OnIt(s, m, p)'
      OBVIOUS
    <3>1. CASE p \in proc[s].todo
      BY <2>1, <3>1 DEF OnIt, ProcState
    <3>2. CASE proc[s].cur = p
      <4>1. Booking(s) = <<p, DayOf[p][m]>>
        BY <3>2 DEF OnIt, Booking
      <4>2. QED
        BY <2>1, <4>1 DEF Booked
    <3>3. QED
      BY <3>1, <3>2 DEF OnIt
  <2>4. QED
    BY <2>1, <2>2, <2>3, <1>b
<1>8. ASSUME NEW s \in Schedulers, InsertFails(s) PROVE DueDaysAccounted'
  <2>1. proc[s].pc = "insert" /\ Abort(s, proc[s].todo)
        /\ UNCHANGED <<clock, ticks, rows, steady, profile>>
    BY <1>8 DEF InsertFails
  <2>2. Booking(s) \in rows \/ ~Exists(proc[s].cur)
    BY <1>8 DEF InsertFails, Insertable, KeyTaken
  <2>3. \A p \in steady : Exists(p)
    BY DEF DueDaysAccounted, Active, Exists
  <2>4. \A p \in steady : \A m \in DueAt[p] :
          OnIt(s, m, p) => Pending(m, p)' \/ Booked(m, p)'
    BY <2>1, <2>2, <2>3 DEF Abort, OnIt, Pending, Booked, Booking
  <2>5. QED
    BY <2>1, <2>4, <1>b, LetGo DEF Abort
<1>9. ASSUME NEW s \in Schedulers, EnqueueRun(s) PROVE DueDaysAccounted'
  <2>1. /\ proc[s].pc = "enqueue" /\ NextProfile(s)
        /\ UNCHANGED <<clock, ticks, rows, steady, profile, excused>>
    BY <1>9 DEF EnqueueRun, ghostVars
  <2>2. \A p \in steady : \A m \in DueAt[p] : OnIt(s, m, p) => OnIt(s, m, p)'
    BY <2>1 DEF NextProfile, OnIt, ProcState
  <2>3. QED
    BY <2>1, <2>2, <1>b, LetGo
\* A tick that ends, with the profiles it has not booked excused.
<1>d. ASSUME NEW s \in Schedulers, UNCHANGED <<clock, ticks, rows, steady, profile>>,
             excused' = excused \cup {proc[s].at} \X Unbooked(s),
             \A u \in Schedulers : u # s => proc'[u] = proc[u]
      PROVE  DueDaysAccounted'
  <2>1. \A p \in steady : \A m \in DueAt[p] : OnIt(s, m, p) => Pending(m, p)'
    BY <1>a, <1>d DEF OnIt, Pending, Unbooked
  <2>2. QED
    BY <1>b, <1>d, <2>1
<1>10. ASSUME NEW s \in Schedulers, Error(s) PROVE DueDaysAccounted'
  <2>1. ASSUME NEW m \in Minutes, StartFails(s, m) PROVE DueDaysAccounted'
    <3>1. UNCHANGED <<clock, proc, rows, steady, profile>>
          /\ ticks' = ticks \ {m} /\ excused' = excused \cup {m} \X Profiles
      BY <2>1 DEF StartFails
    <3>2. \A p \in steady : \A n \in DueAt[p] : Pending(n, p) => Pending(n, p)'
      BY <1>a, <3>1 DEF Pending
    <3>3. QED
      BY <3>1, <3>2, Accounted DEF OnIt, Active, DueDaysAccounted
  <2>2. CASE CallFails(s)
    BY <2>2, <1>d, LetGo DEF CallFails, Abort
  <2>3. CASE LockUnanswered(s)
    BY <2>3, <1>d DEF LockUnanswered
  <2>4. CASE CommitUnanswered(s)
    <3>1. /\ proc[s].pc = "insert" /\ UNCHANGED <<clock, ticks, steady, profile>>
          /\ Abort(s, proc[s].todo) /\ rows' = rows \cup {Booking(s)}
      BY <2>4 DEF CommitUnanswered
    <3>2. \A p \in steady : \A m \in DueAt[p] :
            OnIt(s, m, p) => Pending(m, p)' \/ Booked(m, p)'
      BY <3>1, <1>a DEF Abort, OnIt, Pending, Booked, Booking
    <3>3. QED
      BY <3>1, <3>2, <1>b, LetGo DEF Abort
  <2>5. CASE EnqueueUnanswered(s)
    <3>1. Unbooked(s) = proc[s].todo
      BY <2>5 DEF EnqueueUnanswered, Unbooked
    <3>2. QED
      BY <2>5, <3>1, <1>d, LetGo DEF EnqueueUnanswered, Abort
  <2>6. QED
    BY <1>10, <2>1, <2>2, <2>3, <2>4, <2>5 DEF Error
<1>11. ASSUME NEW s \in Schedulers, Stop(s) PROVE DueDaysAccounted'
  BY <1>11, <1>d DEF Stop
\* The steps of the others leave the ticks and the processes alone.
<1>c. ASSUME UNCHANGED <<clock, ticks, proc, rows, steady, profile, excused>>
      PROVE  DueDaysAccounted'
  BY <1>c, Accounted DEF Pending, OnIt, Active, DueDaysAccounted
<1>12. ASSUME NEW s \in Schedulers, Restart(s) PROVE DueDaysAccounted'
  BY <1>12, <1>c DEF Restart, ghostVars
<1>13. ASSUME NEW p \in Profiles, LockExpires(p) PROVE DueDaysAccounted'
  BY <1>13, <1>c DEF LockExpires
<1>14. ASSUME NEW p \in Profiles, SetActive(p) \/ DeleteProfile(p) PROVE DueDaysAccounted'
  <2>1. UNCHANGED <<clock, ticks, proc, excused>> /\ steady' = steady \ {p}
    BY <1>14 DEF SetActive, DeleteProfile
  <2>2. steady' \subseteq Active'
    BY <1>14 DEF SetActive, DeleteProfile, DueDaysAccounted, Active
  <2>3. \A b \in rows : b[1] \in steady' => b \in rows'
    BY <1>14, <2>1 DEF SetActive, DeleteProfile
  <2>4. QED
    BY <2>1, <2>2, <2>3, Accounted DEF Pending, OnIt
<1>15. CASE UNCHANGED vars
  BY <1>15, <1>c DEF vars
<1>16. QED
  BY <1>1, <1>2, <1>3, <1>4, <1>5, <1>6, <1>7, <1>8, <1>9, <1>10, <1>11, <1>12, <1>13, <1>14,
     <1>15 DEF Next, Work

\* A profile that stayed active has its day booked once the tick of the minute
\* is over, or one of the named mishaps kept the tick from it.
THEOREM DueDaysBooked == Spec => []DueDaysAreBooked
<1>1. Init => DueDaysAccounted
  <2>1. ASSUME Init, NEW p \in steady, NEW m \in DueAt[p] PROVE Pending(m, p)
    <3>1. m \in Nat /\ m # 0 /\ clock = 0
      BY <2>1, CalendarAssumption, MinutesAreNat DEF Init
    <3>2. QED
      BY <3>1 DEF Pending
  <2>2. QED
    BY <2>1 DEF Init, DueDaysAccounted, Active
<1>2. DueDaysAccounted => DueDaysAreBooked
  <2>1. \A m, p : \A s \in Schedulers : OnIt(s, m, p) => proc[s].pc # "idle" /\ proc[s].at = m
    BY DEF OnIt
  <2>2. ASSUME DueDaysAccounted, NEW p \in steady, NEW m \in DueAt[p]
        PROVE  \/ Pending(m, p) \/ Booked(m, p)
               \/ \E s \in Schedulers : proc[s].pc # "idle" /\ proc[s].at = m
    BY <2>1, <2>2 DEF DueDaysAccounted
  <2>3. QED
    BY <2>2 DEF DueDaysAreBooked, Pending, Booked
<1>3. QED
  BY <1>1, <1>2, DueDaysStep, TypesInductive, PTL DEF Spec
=============================================================================
