---------------------------- MODULE RunExecution ----------------------------
(***************************************************************************)
(* One tenant's runs, from the API request that creates a run to the mail  *)
(* that reports its matches.  The state is                                 *)
(*   - the runs row (status, attempt, notified_at) and the job_matches     *)
(*     rows in PostgreSQL,                                                 *)
(*   - the arq jobs in Redis and the worker coroutines that execute them,  *)
(*   - what a coroutine read earlier and still uses: its ORM object is     *)
(*     loaded once and never refreshed (expire_on_commit is off).          *)
(* One action is one database transaction or one external call, so every   *)
(* interleaving of executions, requests and failures between two commits   *)
(* is a behaviour.  Failures are drawn from a budget of MaxFaults.         *)
(***************************************************************************)
EXTENDS Naturals, FiniteSets

CONSTANTS
  Runs,         \* the runs of the tenant
  Hashes,       \* the job postings a scrape can return
  Jobs,         \* arq job ids; an enqueue takes a fresh one
  NoRun,        \* the run of a job id that was never used
  Unseen,       \* the owner of a posting without a job_matches row
  MaxAttempts,  \* runs.max_attempts
  MaxTries,     \* deliveries arq allows one job (max_tries)
  FaultKinds,   \* the failures that can happen in this instance
  MaxFaults     \* bound on their number

ASSUME NoRunAssumption  == NoRun \notin Runs
ASSUME UnseenAssumption == Unseen \notin Runs
ASSUME BoundsAssumption == /\ MaxAttempts \in Nat \ {0}
                           /\ MaxTries \in Nat \ {0}
                           /\ MaxFaults \in Nat

VARIABLES
  status, attempt, notified,  \* columns of runs (notified_at as a flag)
  owner,      \* which run's insert into job_matches won, per posting
  unsent,     \* runs committed by the API and not enqueued yet
  cancelling, \* runs a cancel request has read as open and not yet written
  pc,         \* where each job is: in the queue or in the coroutine
  job,        \* what Redis holds of each job
  ex,         \* what the coroutine of each job holds in memory
  mailed, announced,  \* mails sent about each run, postings they listed
  faults,             \* failures so far
  cut, overlap, lost  \* history: see the section on failures

rowVars   == <<status, attempt, notified>>
mailVars  == <<mailed, announced>>
ghostVars == <<cut, overlap, lost>>
apiVars   == <<unsent, cancelling>>
vars == <<status, attempt, notified, owner, unsent, cancelling, pc, job, ex,
          mailed, announced, faults, cut, overlap, lost>>

-----------------------------------------------------------------------------
(* Types *)

TERMINAL_RUN_STATUSES == {"succeeded", "partial", "failed", "cancelled"}
RunStatus == {"queued", "running"} \cup TERMINAL_RUN_STATUSES
\* A row that was not inserted yet, or that a deleted profile took with it.
RowState  == RunStatus \cup {"absent", "deleted"}

Executing == {"claim", "input", "engine", "save", "notify", "send", "finish"}
JobState  == {"free", "queued", "done"} \cup Executing

\* What Redis holds of a job: its run, the deliveries so far, and whether the
\* job's data is still there.
JobRecord == [run: Runs \cup {NoRun}, tries: Nat, kept: BOOLEAN]

\* What a coroutine holds: the status, attempt and notified_at of the run as it
\* loaded them, the known hashes, what the engine found and whether a source
\* failed, the rows of the report, and whether its mail has left.
ExecRecord == [seen: RowState, attempt: Nat, notified: BOOLEAN,
               known: SUBSET Hashes, found: SUBSET Hashes, partial: BOOLEAN,
               rows: SUBSET Hashes, sent: BOOLEAN]
NoExec == [seen |-> "absent", attempt |-> 0, notified |-> FALSE, known |-> {},
           found |-> {}, partial |-> FALSE, rows |-> {}, sent |-> FALSE]

TypeOK ==
  /\ status     \in [Runs -> RowState]
  /\ attempt    \in [Runs -> Nat]
  /\ notified   \in [Runs -> BOOLEAN]
  /\ owner      \in [Hashes -> Runs \cup {Unseen}]
  /\ unsent     \subseteq Runs
  /\ cancelling \subseteq Runs
  /\ pc         \in [Jobs -> JobState]
  /\ job        \in [Jobs -> JobRecord]
  /\ ex         \in [Jobs -> ExecRecord]
  /\ mailed     \in [Runs -> Nat]
  /\ announced  \in [Runs -> SUBSET Hashes]
  /\ faults     \in Nat
  /\ cut        \in [Runs -> BOOLEAN]
  /\ overlap    \in [Runs -> BOOLEAN]
  /\ lost       \in [Runs -> BOOLEAN]

Init ==
  /\ status = [r \in Runs |-> "absent"] /\ attempt = [r \in Runs |-> 0]
  /\ notified = [r \in Runs |-> FALSE]
  /\ owner = [h \in Hashes |-> Unseen]
  /\ unsent = {} /\ cancelling = {}
  /\ pc = [j \in Jobs |-> "free"]
  /\ job = [j \in Jobs |-> [run |-> NoRun, tries |-> 0, kept |-> TRUE]]
  /\ ex = [j \in Jobs |-> NoExec]
  /\ mailed = [r \in Runs |-> 0] /\ announced = [r \in Runs |-> {}]
  /\ faults = 0
  /\ cut = [r \in Runs |-> FALSE] /\ overlap = [r \in Runs |-> FALSE]
  /\ lost = [r \in Runs |-> FALSE]

-----------------------------------------------------------------------------
(* Helpers *)

Exists(r) == status[r] \in RunStatus
Open(r)   == status[r] \in {"queued", "running"}
Live(j)   == pc[j] \in Executing

\* The executions of a run that are under way.
Executions(r) == {j \in Jobs : Live(j) /\ job[j].run = r}

\* The matches a query by run_id returns: deleting a run sets their run_id to
\* NULL, which leaves them recorded and no run's.
Mine(r) == {h \in Hashes : owner[h] = r /\ status[r] # "deleted"}

\* PgSeenStore: the postings the tenant has a job_matches row for.
KnownHashes == {h \in Hashes : owner[h] # Unseen}

\* The coroutine of j ends; the job goes back to the queue or leaves it.
Leave(j, to) ==
  /\ pc' = [pc EXCEPT ![j] = to]
  /\ ex' = [ex EXCEPT ![j] = NoExec]

GoOn(j, to) == pc' = [pc EXCEPT ![j] = to]

\* History variables.  cut: an execution ended between its mail and the commit
\* that records it.  overlap: two executions of the run were under way at once.
\* lost: its job was dropped while the run still needed it.
CutShort(j) ==
  cut' = IF ex[j].sent THEN [cut EXCEPT ![job[j].run] = TRUE] ELSE cut
Lose(r) == lost' = [lost EXCEPT ![r] = TRUE]

\* One failure of the given kind, within the budget.
Strike(kind) ==
  /\ kind \in FaultKinds
  /\ faults < MaxFaults
  /\ faults' = faults + 1

-----------------------------------------------------------------------------
(* The API *)

\* RunService.create, up to the commit: the row is there, nothing is queued.
CreateRun(r) ==
  /\ status[r] = "absent"
  /\ status' = [status EXCEPT ![r] = "queued"]
  /\ unsent' = unsent \cup {r}
  /\ UNCHANGED <<attempt, notified, owner, cancelling, pc, job, ex, mailVars, faults, ghostVars>>

\* arq's enqueue_job: a job id of its own for every call.
Enqueue(r, j) ==
  /\ pc[j] = "free"
  /\ pc' = [pc EXCEPT ![j] = "queued"]
  /\ job' = [job EXCEPT ![j].run = r]

\* RunService.create, after the commit.
EnqueueRun(r) ==
  /\ r \in unsent
  /\ unsent' = unsent \ {r}
  /\ \E j \in Jobs : Enqueue(r, j)
  /\ UNCHANGED <<rowVars, owner, cancelling, ex, mailVars, faults, ghostVars>>

\* The API process dies or Redis refuses the call between the commit and the
\* enqueue; the caller's retry finds the row and returns it without a job.
EnqueueFails(r) ==
  /\ r \in unsent
  /\ Strike("enqueue")
  /\ unsent' = unsent \ {r}
  /\ Lose(r)
  /\ UNCHANGED <<rowVars, owner, cancelling, pc, job, ex, mailVars, cut, overlap>>

\* RunService.cancel reads the row and checks the status ...
CancelRead(r) ==
  /\ Open(r)
  /\ cancelling' = cancelling \cup {r}
  /\ UNCHANGED <<rowVars, owner, unsent, pc, job, ex, mailVars, faults, ghostVars>>

\* ... and writes it when the request's transaction commits, whatever the row
\* says by then.  Without the row the update fails and the request with it.
CancelWrite(r) ==
  /\ r \in cancelling
  /\ cancelling' = cancelling \ {r}
  /\ status' = IF Exists(r) THEN [status EXCEPT ![r] = "cancelled"] ELSE status
  /\ UNCHANGED <<attempt, notified, owner, unsent, pc, job, ex, mailVars, faults, ghostVars>>

\* The tenant deletes the run's profile: ON DELETE CASCADE takes the runs row,
\* ON DELETE SET NULL detaches its matches (Mine).
DeleteRun(r) ==
  /\ Exists(r)
  /\ status' = [status EXCEPT ![r] = "deleted"]
  /\ UNCHANGED <<attempt, notified, owner, apiVars, pc, job, ex, mailVars, faults, ghostVars>>

\* Bound: a requeue takes a job id only if every run still to be enqueued keeps one.
SpareJob ==
  Cardinality({j \in Jobs : pc[j] = "free"})
    > Cardinality({r \in Runs : status[r] = "absent" \/ r \in unsent})

\* The runbook's remedy for a run that stays in running: enqueue it again.
Requeue(r) ==
  /\ status[r] = "running"
  /\ SpareJob
  /\ Strike("requeue")
  /\ \E j \in Jobs : Enqueue(r, j)
  /\ UNCHANGED <<rowVars, owner, apiVars, ex, mailVars, ghostVars>>

-----------------------------------------------------------------------------
(* The worker: arq's delivery and _run_once *)

\* The run is_terminal, or the row is gone: the task has nothing to do.
\* Mutation: the is_terminal check of the redelivered task dropped.
NothingToDoIfGone(r) == ~Exists(r)
NothingToDo(r) == ~Open(r)

\* arq counts the delivery; beyond max_tries, or when Redis lost the job's
\* data, it drops the job without calling the task.
Exhausted(j) == job[j].tries >= MaxTries \/ ~job[j].kept

DropJob(j) ==
  /\ pc[j] = "queued" /\ Exhausted(j)
  /\ Leave(j, "done")
  /\ Lose(job[j].run)
  /\ UNCHANGED <<rowVars, owner, apiVars, job, mailVars, faults, cut, overlap>>

\* The scheduler process polls the same default queue and knows no execute_run:
\* arq ends the job there as "function not found".
TakenByScheduler(j) ==
  /\ pc[j] = "queued"
  /\ Strike("scheduler")
  /\ Leave(j, "done")
  /\ Lose(job[j].run)
  /\ UNCHANGED <<rowVars, owner, apiVars, job, mailVars, cut, overlap>>

\* _run_once loads the row.  A settled run ends the task at once.
PickUp(j) ==
  LET r == job[j].run IN
  /\ pc[j] = "queued" /\ ~Exhausted(j)
  /\ job' = [job EXCEPT ![j].tries = @ + 1]
  /\ IF NothingToDo(r)
     THEN /\ Leave(j, "done")
          /\ UNCHANGED overlap
     ELSE /\ GoOn(j, "claim")
          /\ ex' = [ex EXCEPT ![j].seen = status[r], ![j].attempt = attempt[r],
                              ![j].notified = notified[r]]
          /\ overlap' = IF Executions(r) = {} THEN overlap
                                              ELSE [overlap EXCEPT ![r] = TRUE]
  /\ UNCHANGED <<rowVars, owner, apiVars, mailVars, faults, cut, lost>>

\* The first commit of _run_once.  The ORM writes only the columns whose value
\* differs from the one loaded, so a run redelivered as "running" keeps the
\* status it has by now.
Claim(j) ==
  LET r == job[j].run IN
  /\ pc[j] = "claim" /\ Exists(r)
  /\ status' = IF ex[j].seen = "running" THEN status
                                         ELSE [status EXCEPT ![r] = "running"]
  /\ attempt' = [attempt EXCEPT ![r] = ex[j].attempt + 1]
  /\ GoOn(j, "input")
  /\ UNCHANGED <<notified, owner, apiVars, job, ex, mailVars, faults, ghostVars>>

\* build_input: the profile is there (it goes with the run), and the tenant's
\* known hashes are read once, for the whole execution.
BuildInput(j) ==
  /\ pc[j] = "input" /\ Exists(job[j].run)
  /\ ex' = [ex EXCEPT ![j].known = KnownHashes]
  /\ GoOn(j, "engine")
  /\ UNCHANGED <<rowVars, owner, apiVars, job, mailVars, faults, ghostVars>>

\* run_engine: the scrape returns what the sites list at that moment, minus the
\* hashes known at the start; partial says that one of the sources failed.
RunEngine(j) ==
  /\ pc[j] = "engine" /\ Exists(job[j].run)
  /\ \E found \in SUBSET (Hashes \ ex[j].known), partial \in BOOLEAN :
       ex' = [ex EXCEPT ![j].known = {}, ![j].found = found, ![j].partial = partial]
  /\ GoOn(j, "save")
  /\ UNCHANGED <<rowVars, owner, apiVars, job, mailVars, faults, ghostVars>>

\* save_result and its commit: ON CONFLICT (user_id, external_hash) DO NOTHING.
SaveResult(j) ==
  LET r == job[j].run IN
  /\ pc[j] = "save" /\ Exists(r)
  /\ owner' = [h \in Hashes |->
                 IF h \in ex[j].found /\ owner[h] = Unseen THEN r ELSE owner[h]]
  /\ GoOn(j, "notify")
  /\ UNCHANGED <<rowVars, apiVars, job, ex, mailVars, faults, ghostVars>>

\* What the report and the mail are built from: the run's rows in the database.
\* Mutation: this attempt's matches in memory.
ReportRowsOfThisAttempt(j) == ex[j].found
ReportRows(j) == Mine(job[j].run)

\* notify_if_needed, up to the mail: the guard on notified_at (as loaded) and
\* on an empty report.
Notify(j) ==
  LET due == ~ex[j].notified /\ ReportRows(j) # {} IN
  /\ pc[j] = "notify"
  /\ ex' = [ex EXCEPT ![j].found = {}, ![j].rows = IF due THEN ReportRows(j) ELSE {}]
  /\ GoOn(j, IF due THEN "send" ELSE "finish")
  /\ UNCHANGED <<rowVars, owner, apiVars, job, mailVars, faults, ghostVars>>

\* The mail leaves.  Nothing in the database says so yet.
SendMail(j) ==
  LET r == job[j].run IN
  /\ pc[j] = "send"
  /\ mailed' = [mailed EXCEPT ![r] = @ + 1]
  /\ announced' = [announced EXCEPT ![r] = @ \cup ex[j].rows]
  /\ ex' = [ex EXCEPT ![j].rows = {}, ![j].sent = TRUE]
  /\ GoOn(j, "finish")
  /\ UNCHANGED <<rowVars, owner, apiVars, job, faults, ghostVars>>

\* Mutations: a failed source leaves the run open; a status that is no RunStatus.
FinalStatusLeftOpen(partial) == IF partial THEN "running" ELSE "succeeded"
FinalStatusUnknown(partial) == IF partial THEN "degraded" ELSE "succeeded"
FinalStatus(partial) == IF partial THEN "partial" ELSE "succeeded"

\* Mutation: the last commit forgotten, so that its transaction rolls back.
FinishWithoutCommit(j) ==
  /\ pc[j] = "finish" /\ Exists(job[j].run)
  /\ Leave(j, "done")
  /\ UNCHANGED <<rowVars, owner, apiVars, job, mailVars, faults, ghostVars>>

\* The last commit of _run_once: notified_at and the final status together.
Finish(j) ==
  LET r == job[j].run IN
  /\ pc[j] = "finish" /\ Exists(r)
  /\ status' = [status EXCEPT ![r] = FinalStatus(ex[j].partial)]
  /\ notified' = [notified EXCEPT ![r] = @ \/ ex[j].sent]
  /\ Leave(j, "done")
  /\ UNCHANGED <<attempt, owner, apiVars, job, mailVars, faults, ghostVars>>

\* Any statement that needs the row fails once it is deleted; the handler of
\* execute_run finds no run and returns.
RowGone(j) ==
  /\ pc[j] \in Executing \ {"notify", "send"}
  /\ ~Exists(job[j].run)
  /\ Leave(j, "done") /\ CutShort(j)
  /\ UNCHANGED <<rowVars, owner, apiVars, job, mailVars, faults, overlap, lost>>

-----------------------------------------------------------------------------
(* Failures of an execution *)

\* A transient failure while attempts remain puts the run back in the queue
\* (arq's Retry).  Mutation: the Retry is not raised.
RetryForgotten(j) ==
  /\ status' = [status EXCEPT ![job[j].run] = "queued"]
  /\ Leave(j, "done")
Retry(j) ==
  /\ status' = [status EXCEPT ![job[j].run] = "queued"]
  /\ Leave(j, "queued")

\* An exception in _run_once: the open transaction rolls back and the handler
\* of execute_run reads the row in a session of its own.  It does not look at
\* the status it finds.
Exception(j, transient) ==
  LET r == job[j].run IN
  /\ Live(j)
  /\ Strike("error")
  /\ IF ~Exists(r)
     THEN Leave(j, "done") /\ UNCHANGED status
     ELSE IF transient /\ attempt[r] < MaxAttempts
     THEN Retry(j)
     ELSE Leave(j, "done") /\ status' = [status EXCEPT ![r] = "failed"]
  /\ CutShort(j)
  /\ UNCHANGED <<attempt, notified, owner, apiVars, job, mailVars, overlap, lost>>

\* The database is down for the handler too: its own exception ends the job.
HandlerFails(j) ==
  /\ Live(j)
  /\ Strike("database")
  /\ Leave(j, "done")
  /\ CutShort(j) /\ Lose(job[j].run)
  /\ UNCHANGED <<rowVars, owner, apiVars, job, mailVars, overlap>>

\* The worker dies, or its container is stopped: arq delivers the job again.
Crash(j) ==
  /\ Live(j)
  /\ Strike("crash")
  /\ Leave(j, "queued") /\ CutShort(j)
  /\ UNCHANGED <<rowVars, owner, apiVars, job, mailVars, overlap, lost>>

\* job_timeout: arq cancels the coroutine.  CancelledError is no Exception, so
\* no handler runs, and arq does not try again.
JobTimeout(j) ==
  /\ Live(j)
  /\ Strike("timeout")
  /\ Leave(j, "done")
  /\ CutShort(j) /\ Lose(job[j].run)
  /\ UNCHANGED <<rowVars, owner, apiVars, job, mailVars, overlap>>

\* Redis restarts and keeps nothing (save "" and appendonly no): queued jobs
\* vanish, and a job under way can no longer be delivered again.
RedisRestart ==
  /\ Strike("redis")
  /\ pc' = [j \in Jobs |-> IF pc[j] = "queued" THEN "done" ELSE pc[j]]
  /\ ex' = [j \in Jobs |-> IF pc[j] = "queued" THEN NoExec ELSE ex[j]]
  /\ job' = [j \in Jobs |-> IF pc[j] = "free" THEN job[j]
                                              ELSE [job[j] EXCEPT !.kept = FALSE]]
  /\ lost' = [r \in Runs |-> lost[r] \/ \E j \in Jobs : pc[j] = "queued" /\ job[j].run = r]
  /\ UNCHANGED <<rowVars, owner, apiVars, mailVars, cut, overlap>>

-----------------------------------------------------------------------------
(* The specification *)

\* What the worker does of its own accord with job j.
Work(j) ==
  \/ DropJob(j) \/ PickUp(j) \/ Claim(j) \/ BuildInput(j) \/ RunEngine(j)
  \/ SaveResult(j) \/ Notify(j) \/ SendMail(j) \/ Finish(j) \/ RowGone(j)

Fail(j) ==
  \/ \E transient \in BOOLEAN : Exception(j, transient)
  \/ HandlerFails(j) \/ Crash(j) \/ JobTimeout(j) \/ TakenByScheduler(j)

Request(r) ==
  \/ CreateRun(r) \/ EnqueueRun(r) \/ EnqueueFails(r) \/ CancelRead(r)
  \/ CancelWrite(r) \/ DeleteRun(r) \/ Requeue(r)

Next ==
  \/ \E r \in Runs : Request(r)
  \/ \E j \in Jobs : Work(j) \/ Fail(j)
  \/ RedisRestart

Spec == Init /\ [][Next]_vars

\* The API process goes on with a request it started, and a free worker slot
\* takes the next job (max_jobs is far above the jobs in these instances).
Fairness ==
  /\ \A r \in Runs : WF_vars(EnqueueRun(r)) /\ WF_vars(CancelWrite(r))
  /\ \A j \in Jobs : WF_vars(Work(j))

FairSpec == Spec /\ Fairness

-----------------------------------------------------------------------------
(* Properties *)

\* No posting is reported by the mails of two runs, however executions of the
\* two overlap: job_matches is unique per user and hash, an insert never takes
\* a row over, and the mail is built from the rows, not from the scrape.
OneRunAnnouncesAPosting ==
  \A r, s \in Runs : r # s => announced[r] \cap announced[s] = {}

\* notified_at keeps a run at one mail, across retries, cancels and requeues,
\* unless an execution ended between its mail and its commit or two executions
\* of the run were under way at once.
RepeatMailNeedsFault ==
  \A r \in Runs : mailed[r] > 1 => cut[r] \/ overlap[r]

\* A run that ends succeeded or partial has mailed every match it recorded,
\* those of its failed attempts too (two executions at once excepted).
SuccessAnnouncesAll ==
  \A r \in Runs : status[r] \in {"succeeded", "partial"} /\ ~overlap[r]
                    => Mine(r) \subseteq announced[r]

\* A run that still has to be executed has a request or a job that will do it,
\* unless the enqueue, Redis, the scheduler process, the job's time limit, arq's
\* limit on tries or the failure handler lost that job.
OpenRunsHaveAJob ==
  \A r \in Runs : Open(r) =>
    \/ r \in unsent
    \/ \E j \in Jobs : job[j].run = r /\ (pc[j] = "queued" \/ Live(j))
    \/ lost[r]

\* The runs, matches and mails of the tenant keep the contract.
Held == cancelling \cup {r \in Runs : Executions(r) # {}}
Contract == INSTANCE RunContract WITH held <- Held
ContractKept == Contract!Spec

\* A queued or running run settles (or is deleted), or its job was lost.
OpenRunsSettle ==
  \A r \in Runs : Open(r) ~> (~Open(r) \/ lost[r])

-----------------------------------------------------------------------------
(* What the proofs need beyond the properties *)

\* A job id that is in use, or about to be taken, is for a run whose row was
\* inserted; a coroutine that is not under way holds nothing.
JobsHaveRuns ==
  /\ \A r \in unsent : status[r] # "absent"
  /\ \A j \in Jobs : pc[j] # "free" => job[j].run \in Runs /\ status[job[j].run] # "absent"
  /\ \A j \in Jobs : ~Live(j) => ex[j] = NoExec

\* Mails, sent or being built, list only what their run recorded.
MailsListOwnRows ==
  /\ \A r \in Runs : \A h \in announced[r] : owner[h] = r
  /\ \A j \in Jobs : \A h \in ex[j].rows : owner[h] = job[j].run

\* Without overlap an execution has its run to itself: no other execution, no
\* mail recorded, not succeeded; and a recorded mail means the run has ended.
SoleExecution ==
  \A r \in Runs : ~overlap[r] =>
    /\ \A i, j \in Executions(r) : i = j
    /\ \A j \in Executions(r) : /\ ~notified[r] /\ ~ex[j].notified
                                /\ status[r] \notin {"succeeded", "partial"}
    /\ notified[r] => status[r] \in TERMINAL_RUN_STATUSES \cup {"deleted"}

\* Where the mail of a run is recorded: in its row, or in the one execution
\* that is about to commit it.
MailIsRecorded ==
  /\ \A j \in Jobs : ex[j].sent => pc[j] = "finish"
  /\ \A r \in Runs : ~overlap[r] /\ ~cut[r] =>
       \/ mailed[r] = 0
       \/ mailed[r] = 1 /\ (notified[r] \/ \E j \in Jobs : job[j].run = r /\ ex[j].sent)

\* An execution past its mail, or about to send it, has all the matches in it.
ReportIsComplete ==
  \A r \in Runs : ~overlap[r] =>
    /\ status[r] \in {"succeeded", "partial"} => Mine(r) \subseteq announced[r]
    /\ \A j \in Executions(r) : /\ pc[j] = "send" => Mine(r) \subseteq ex[j].rows
                                /\ pc[j] = "finish" => Mine(r) \subseteq announced[r]

-----------------------------------------------------------------------------
\* Claimed by the runbook ("Restart the worker mid-run"): one mail per run.
AtMostOneMail == \A r \in Runs : mailed[r] <= 1
=============================================================================
