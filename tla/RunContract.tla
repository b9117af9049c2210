----------------------------- MODULE RunContract -----------------------------
(***************************************************************************)
(* What the run pipeline promises one tenant, with the queue, the workers  *)
(* and the transactions left out: a run that has settled stays as it is    *)
(* unless somebody already had it in hand, a job posting is recorded for   *)
(* one run only and for good, and a mail about a run lists nothing but     *)
(* postings recorded for that run.  RunExecution implements it.            *)
(***************************************************************************)
CONSTANTS
  Runs,       \* the runs of the tenant
  Hashes,     \* the job postings (external_hash) a scrape can return
  Unseen      \* the owner of a posting nobody recorded yet

VARIABLES
  status,     \* the status column of each run, or "absent" / "deleted"
  owner,      \* the run that recorded a posting first
  announced,  \* the postings the mails of a run listed
  held        \* the runs a worker or a cancel request has in hand

cvars == <<status, owner, announced, held>>

Settled == {"succeeded", "partial", "failed", "cancelled"}
Open    == {"queued", "running"}

Owned(r) == {h \in Hashes : owner[h] = r}

Init ==
  /\ status    = [r \in Runs |-> "absent"]
  /\ owner     = [h \in Hashes |-> Unseen]
  /\ announced = [r \in Runs |-> {}]
  /\ held      = {}

\* A request or the scheduler creates the run.
Accept(r) ==
  /\ status[r] = "absent"
  /\ status' = [status EXCEPT ![r] = "queued"]
  /\ UNCHANGED <<owner, announced, held>>

\* A worker or a cancel request reads the run: only an open one is taken up.
TakeUp(r) ==
  /\ status[r] \in Open
  /\ held' = held \cup {r}
  /\ UNCHANGED <<status, owner, announced>>

\* Whoever holds the run moves it, and may let go of it in the same step.
Move(r) ==
  /\ r \in held
  /\ status[r] \notin {"absent", "deleted"}
  /\ \E s \in Open \cup Settled : status' = [status EXCEPT ![r] = s]
  /\ held' \in {held, held \ {r}}
  /\ UNCHANGED <<owner, announced>>

LetGo(r) ==
  /\ r \in held
  /\ held' = held \ {r}
  /\ UNCHANGED <<status, owner, announced>>

\* The postings of S that nobody recorded become the run's.
Record(r) ==
  /\ r \in held
  /\ \E S \in SUBSET Hashes :
       owner' = [h \in Hashes |-> IF h \in S /\ owner[h] = Unseen THEN r ELSE owner[h]]
  /\ UNCHANGED <<status, announced, held>>

Announce(r) ==
  /\ r \in held
  /\ \E S \in SUBSET Owned(r) : announced' = [announced EXCEPT ![r] = @ \cup S]
  /\ UNCHANGED <<status, owner, held>>

\* The profile of the run is deleted, and the run with it.
Discard(r) ==
  /\ status[r] \notin {"absent", "deleted"}
  /\ status' = [status EXCEPT ![r] = "deleted"]
  /\ UNCHANGED <<owner, announced, held>>

Next ==
  \E r \in Runs :
    \/ Accept(r) \/ TakeUp(r) \/ Move(r) \/ LetGo(r)
    \/ Record(r) \/ Announce(r) \/ Discard(r)

Spec == Init /\ [][Next]_cvars
=============================================================================
