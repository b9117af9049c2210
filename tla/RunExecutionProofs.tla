------------------------- MODULE RunExecutionProofs -------------------------
(***************************************************************************)
(* Theorems about RunExecution, for every set of runs, postings and jobs   *)
(* and every budget of failures.                                           *)
(***************************************************************************)
EXTENDS RunExecution, TLAPS

LEMMA NoExecType == NoExec \in ExecRecord
  BY DEF NoExec, ExecRecord, RowState

\* The type invariant with what the types of the coroutines rest on.
TypeInv == TypeOK /\ JobsHaveRuns

\* Every row, job and coroutine keeps its type, and every job in use has a run.
THEOREM TypeCorrect == Spec => []TypeInv
<1> USE DEF TypeInv, TypeOK, JobsHaveRuns, RowState, RunStatus, TERMINAL_RUN_STATUSES,
            JobState, Executing
<1>1. Init => TypeInv
  BY NoExecType DEF Init, JobRecord
<1>2. ASSUME TypeInv, [Next]_vars PROVE TypeInv'
  <2> USE <1>2, NoExecType DEF rowVars, mailVars, ghostVars, apiVars, Leave, GoOn,
                   Strike, Lose, CutShort, Exists, Open, Live
  <2>1. ASSUME NEW r \in Runs, CreateRun(r) PROVE TypeInv'
    BY <2>1 DEF CreateRun
  <2>2. ASSUME NEW r \in Runs, EnqueueRun(r) PROVE TypeInv'
    <3>1. PICK j \in Jobs : Enqueue(r, j)
      BY <2>2 DEF EnqueueRun
    <3>2. job' \in [Jobs -> JobRecord]
      BY <3>1 DEF Enqueue, JobRecord
    <3>3. QED
      BY <2>2, <3>1, <3>2 DEF EnqueueRun, Enqueue
  <2>3. ASSUME NEW r \in Runs, EnqueueFails(r) PROVE TypeInv'
    BY <2>3 DEF EnqueueFails
  <2>4. ASSUME NEW r \in Runs, CancelRead(r) PROVE TypeInv'
    BY <2>4 DEF CancelRead
  <2>5. ASSUME NEW r \in Runs, CancelWrite(r) PROVE TypeInv'
    BY <2>5 DEF CancelWrite
  <2>6. ASSUME NEW r \in Runs, DeleteRun(r) PROVE TypeInv'
    BY <2>6 DEF DeleteRun
  <2>7. ASSUME NEW r \in Runs, Requeue(r) PROVE TypeInv'
    <3>1. PICK j \in Jobs : Enqueue(r, j)
      BY <2>7 DEF Requeue
    <3>2. job' \in [Jobs -> JobRecord]
      BY <3>1 DEF Enqueue, JobRecord
    <3>3. QED
      BY <2>7, <3>1, <3>2 DEF Requeue, Enqueue
  <2>8. ASSUME NEW j \in Jobs, DropJob(j) PROVE TypeInv'
    BY <2>8 DEF DropJob
  <2>8a. ASSUME NEW j \in Jobs, TakenByScheduler(j) PROVE TypeInv'
    BY <2>8a DEF TakenByScheduler
  <2>9. ASSUME NEW j \in Jobs, PickUp(j) PROVE TypeInv'
    <3>1. job' \in [Jobs -> JobRecord] /\ \A i \in Jobs : job'[i].run = job[i].run
      BY <2>9 DEF PickUp, JobRecord
    <3>2. ex' \in [Jobs -> ExecRecord]
      <4>1. CASE NothingToDo(job[j].run)
        BY <2>9, <4>1 DEF PickUp
      <4>2. CASE ~NothingToDo(job[j].run)
        <5>1. job[j].run \in Runs
          BY <2>9 DEF PickUp
        <5>2. [ex[j] EXCEPT !.seen = status[job[j].run], !.attempt = attempt[job[j].run],
                            !.notified = notified[job[j].run]] \in ExecRecord
          BY <5>1 DEF ExecRecord
        <5>3. QED
          BY <2>9, <4>2, <5>2 DEF PickUp
      <4>3. QED
        BY <4>1, <4>2
    <3>3. QED
      BY <2>9, <3>1, <3>2 DEF PickUp
  <2>10. ASSUME NEW j \in Jobs, Claim(j) PROVE TypeInv'
    BY <2>10 DEF Claim, ExecRecord
  <2>11. ASSUME NEW j \in Jobs, BuildInput(j) PROVE TypeInv'
    BY <2>11 DEF BuildInput, KnownHashes, ExecRecord
  <2>12. ASSUME NEW j \in Jobs, RunEngine(j) PROVE TypeInv'
    <3>1. ex' \in [Jobs -> ExecRecord]
      <4>1. PICK found \in SUBSET (Hashes \ ex[j].known), partial \in BOOLEAN :
              ex' = [ex EXCEPT ![j].known = {}, ![j].found = found, ![j].partial = partial]
        BY <2>12 DEF RunEngine
      <4>2. [ex[j] EXCEPT !.known = {}, !.found = found, !.partial = partial] \in ExecRecord
        BY DEF ExecRecord
      <4>3. QED
        BY <4>1, <4>2
    <3>2. QED
      BY <2>12, <3>1 DEF RunEngine
  <2>13. ASSUME NEW j \in Jobs, SaveResult(j) PROVE TypeInv'
    BY <2>13 DEF SaveResult
  <2>14. ASSUME NEW j \in Jobs, Notify(j) PROVE TypeInv'
    <3> DEFINE due == ~ex[j].notified /\ ReportRows(j) # {}
               e == [ex[j] EXCEPT !.found = {}, !.rows = IF due THEN ReportRows(j) ELSE {}]
    <3>1. e \in ExecRecord
      BY DEF ExecRecord, ReportRows, Mine
    <3>2. ex' = [ex EXCEPT ![j] = e]
      BY <2>14 DEF Notify
    <3>3. ex' \in [Jobs -> ExecRecord]
      BY <3>1, <3>2
    <3>4. QED
      BY <2>14, <3>3 DEF Notify
  <2>15. ASSUME NEW j \in Jobs, SendMail(j) PROVE TypeInv'
    <3>1. [ex[j] EXCEPT !.rows = {}, !.sent = TRUE] \in ExecRecord
      BY DEF ExecRecord
    <3>2. ex' \in [Jobs -> ExecRecord]
      BY <2>15, <3>1 DEF SendMail
    <3>3. ex[j].rows \subseteq Hashes
      BY DEF ExecRecord
    <3>4. QED
      BY <2>15, <3>2, <3>3 DEF SendMail
  <2>16. ASSUME NEW j \in Jobs, Finish(j) PROVE TypeInv'
    BY <2>16 DEF Finish, FinalStatus
  <2>17. ASSUME NEW j \in Jobs, RowGone(j) PROVE TypeInv'
    BY <2>17 DEF RowGone
  <2>18. ASSUME NEW j \in Jobs, NEW b \in BOOLEAN, Exception(j, b) PROVE TypeInv'
    BY <2>18 DEF Exception, Retry
  <2>19. ASSUME NEW j \in Jobs, HandlerFails(j) PROVE TypeInv'
    BY <2>19 DEF HandlerFails
  <2>20. ASSUME NEW j \in Jobs, Crash(j) PROVE TypeInv'
    BY <2>20 DEF Crash
  <2>21. ASSUME NEW j \in Jobs, JobTimeout(j) PROVE TypeInv'
    BY <2>21 DEF JobTimeout
  <2>22. CASE RedisRestart
    <3>a. \A i \in Jobs : /\ [job[i] EXCEPT !.kept = FALSE] \in JobRecord
                          /\ [job[i] EXCEPT !.kept = FALSE].run = job[i].run
      BY DEF JobRecord
    <3>1. job' \in [Jobs -> JobRecord] /\ \A i \in Jobs : job'[i].run = job[i].run
      BY <2>22, <3>a DEF RedisRestart
    <3>2. ex' \in [Jobs -> ExecRecord]
      BY <2>22 DEF RedisRestart
    <3>3. pc' \in [Jobs -> JobState] /\ \A i \in Jobs : pc[i] = "free" => pc'[i] = "free"
      BY <2>22 DEF RedisRestart
    <3>4. lost' \in [Runs -> BOOLEAN]
      BY <2>22, Zenon DEF RedisRestart
    <3>5. \A i \in Jobs : pc'[i] # "free" => pc[i] # "free"
      BY <2>22 DEF RedisRestart
    <3>6. QED
      BY <2>22, <3>1, <3>2, <3>3, <3>4, <3>5 DEF RedisRestart
  <2>23. CASE UNCHANGED vars
    BY <2>23 DEF vars
  <2>24. QED
    BY <2>1, <2>2, <2>3, <2>4, <2>5, <2>6, <2>7, <2>8, <2>8a, <2>9, <2>10, <2>11, <2>12,
       <2>13, <2>14, <2>15, <2>16, <2>17, <2>18, <2>19, <2>20, <2>21, <2>22, <2>23
       DEF Next, Request, Work, Fail
<1>3. QED
  BY <1>1, <1>2, PTL DEF Spec

\* Every row, job and coroutine keeps its type.
THEOREM TypesKept == Spec => []TypeOK
<1>1. TypeInv => TypeOK
  BY DEF TypeInv
<1>2. QED
  BY <1>1, TypeCorrect, PTL

\* A run that is still open has a request or a job that will execute it, unless
\* a failure lost that job.
THEOREM OpenRunsKeepAJob == Spec => []OpenRunsHaveAJob
<1> USE DEF OpenRunsHaveAJob, TypeInv, TypeOK, JobsHaveRuns, RowState, RunStatus,
            TERMINAL_RUN_STATUSES, JobState, Executing
<1>1. Init => OpenRunsHaveAJob
  BY DEF Init, Open
<1>2. ASSUME TypeInv, OpenRunsHaveAJob, [Next]_vars PROVE OpenRunsHaveAJob'
  <2> USE <1>2, NoExecType DEF rowVars, mailVars, ghostVars, apiVars, Leave, GoOn,
                               Strike, Lose, CutShort, Exists, Open, Live
  <2>1. ASSUME NEW r \in Runs, CreateRun(r) PROVE OpenRunsHaveAJob'
    BY <2>1 DEF CreateRun
  <2>2. ASSUME NEW r \in Runs, EnqueueRun(r) PROVE OpenRunsHaveAJob'
    BY <2>2 DEF EnqueueRun, Enqueue
  <2>3. ASSUME NEW r \in Runs, EnqueueFails(r) PROVE OpenRunsHaveAJob'
    BY <2>3 DEF EnqueueFails
  <2>4. ASSUME NEW r \in Runs, CancelRead(r) PROVE OpenRunsHaveAJob'
    BY <2>4 DEF CancelRead
  <2>5. ASSUME NEW r \in Runs, CancelWrite(r) PROVE OpenRunsHaveAJob'
    BY <2>5 DEF CancelWrite
  <2>6. ASSUME NEW r \in Runs, DeleteRun(r) PROVE OpenRunsHaveAJob'
    BY <2>6 DEF DeleteRun
  <2>7. ASSUME NEW r \in Runs, Requeue(r) PROVE OpenRunsHaveAJob'
    BY <2>7 DEF Requeue, Enqueue
  <2>8. ASSUME NEW j \in Jobs, DropJob(j) PROVE OpenRunsHaveAJob'
    BY <2>8 DEF DropJob
  <2>8a. ASSUME NEW j \in Jobs, TakenByScheduler(j) PROVE OpenRunsHaveAJob'
    BY <2>8a DEF TakenByScheduler
  <2>9. ASSUME NEW j \in Jobs, PickUp(j) PROVE OpenRunsHaveAJob'
    BY <2>9 DEF PickUp, NothingToDo
  <2>10. ASSUME NEW j \in Jobs, Claim(j) PROVE OpenRunsHaveAJob'
    BY <2>10 DEF Claim
  <2>11. ASSUME NEW j \in Jobs, BuildInput(j) PROVE OpenRunsHaveAJob'
    BY <2>11 DEF BuildInput, KnownHashes
  <2>12. ASSUME NEW j \in Jobs, RunEngine(j) PROVE OpenRunsHaveAJob'
    BY <2>12 DEF RunEngine
  <2>13. ASSUME NEW j \in Jobs, SaveResult(j) PROVE OpenRunsHaveAJob'
    BY <2>13 DEF SaveResult
  <2>14. ASSUME NEW j \in Jobs, Notify(j) PROVE OpenRunsHaveAJob'
    BY <2>14 DEF Notify, ReportRows, Mine
  <2>15. ASSUME NEW j \in Jobs, SendMail(j) PROVE OpenRunsHaveAJob'
    BY <2>15 DEF SendMail
  <2>16. ASSUME NEW j \in Jobs, Finish(j) PROVE OpenRunsHaveAJob'
    BY <2>16 DEF Finish, FinalStatus
  <2>17. ASSUME NEW j \in Jobs, RowGone(j) PROVE OpenRunsHaveAJob'
    BY <2>17 DEF RowGone
  <2>18. ASSUME NEW j \in Jobs, NEW b \in BOOLEAN, Exception(j, b) PROVE OpenRunsHaveAJob'
    BY <2>18 DEF Exception, Retry
  <2>19. ASSUME NEW j \in Jobs, HandlerFails(j) PROVE OpenRunsHaveAJob'
    BY <2>19 DEF HandlerFails
  <2>20. ASSUME NEW j \in Jobs, Crash(j) PROVE OpenRunsHaveAJob'
    BY <2>20 DEF Crash
  <2>21. ASSUME NEW j \in Jobs, JobTimeout(j) PROVE OpenRunsHaveAJob'
    BY <2>21 DEF JobTimeout
  <2>22. CASE RedisRestart
    <3>1. \A i \in Jobs : /\ job'[i].run = job[i].run
                          /\ Live(i) => pc'[i] = pc[i]
                          /\ pc[i] = "queued" \/ pc'[i] = pc[i]
      BY <2>22 DEF RedisRestart, JobRecord
    <3>2. ASSUME NEW r \in Runs, lost[r] \/ \E i \in Jobs : pc[i] = "queued" /\ job[i].run = r
          PROVE  lost'[r]
      BY <2>22, <3>2 DEF RedisRestart
    <3>3. QED
      BY <2>22, <3>1, <3>2 DEF RedisRestart
  <2>23. CASE UNCHANGED vars
    BY <2>23 DEF vars
  <2>24. QED
    BY <2>1, <2>2, <2>3, <2>4, <2>5, <2>6, <2>7, <2>8, <2>8a, <2>9, <2>10, <2>11, <2>12,
       <2>13, <2>14, <2>15, <2>16, <2>17, <2>18, <2>19, <2>20, <2>21, <2>22, <2>23
       DEF Next, Request, Work, Fail
<1>3. QED
  BY <1>1, <1>2, TypeCorrect, PTL DEF Spec

\* What a mail of a run lists, or is about to list, was recorded by that run.
THEOREM MailsAreOwn == Spec => []MailsListOwnRows
<1> USE DEF MailsListOwnRows, NoExec, TypeInv, TypeOK, JobsHaveRuns, RowState, RunStatus,
            TERMINAL_RUN_STATUSES, JobState, Executing
<1>1. Init => MailsListOwnRows
  BY DEF Init
<1>2. ASSUME TypeInv, MailsListOwnRows, [Next]_vars PROVE MailsListOwnRows'
  <2> USE <1>2, NoExecType DEF rowVars, mailVars, ghostVars, apiVars, Leave, GoOn,
                               Strike, Lose, CutShort, Exists, Open, Live
  <2>1. ASSUME NEW r \in Runs, CreateRun(r) PROVE MailsListOwnRows'
    BY <2>1 DEF CreateRun
  <2>2. ASSUME NEW r \in Runs, EnqueueRun(r) PROVE MailsListOwnRows'
    BY <2>2 DEF EnqueueRun, Enqueue
  <2>3. ASSUME NEW r \in Runs, EnqueueFails(r) PROVE MailsListOwnRows'
    BY <2>3 DEF EnqueueFails
  <2>4. ASSUME NEW r \in Runs, CancelRead(r) PROVE MailsListOwnRows'
    BY <2>4 DEF CancelRead
  <2>5. ASSUME NEW r \in Runs, CancelWrite(r) PROVE MailsListOwnRows'
    BY <2>5 DEF CancelWrite
  <2>6. ASSUME NEW r \in Runs, DeleteRun(r) PROVE MailsListOwnRows'
    BY <2>6 DEF DeleteRun
  <2>7. ASSUME NEW r \in Runs, Requeue(r) PROVE MailsListOwnRows'
    BY <2>7 DEF Requeue, Enqueue
  <2>8. ASSUME NEW j \in Jobs, DropJob(j) PROVE MailsListOwnRows'
    BY <2>8 DEF DropJob
  <2>8a. ASSUME NEW j \in Jobs, TakenByScheduler(j) PROVE MailsListOwnRows'
    BY <2>8a DEF TakenByScheduler
  <2>9. ASSUME NEW j \in Jobs, PickUp(j) PROVE MailsListOwnRows'
    BY <2>9 DEF PickUp, NothingToDo
  <2>10. ASSUME NEW j \in Jobs, Claim(j) PROVE MailsListOwnRows'
    BY <2>10 DEF Claim
  <2>11. ASSUME NEW j \in Jobs, BuildInput(j) PROVE MailsListOwnRows'
    BY <2>11 DEF BuildInput, KnownHashes
  <2>12. ASSUME NEW j \in Jobs, RunEngine(j) PROVE MailsListOwnRows'
    BY <2>12 DEF RunEngine
  <2>13. ASSUME NEW j \in Jobs, SaveResult(j) PROVE MailsListOwnRows'
    <3>1. \A h \in Hashes : owner[h] # Unseen => owner'[h] = owner[h]
      BY <2>13 DEF SaveResult
    <3>2. ASSUME NEW r \in Runs, NEW h \in announced'[r] PROVE owner'[h] = r
      BY <2>13, <3>1, <3>2, UnseenAssumption DEF SaveResult
    <3>3. ASSUME NEW i \in Jobs, NEW h \in ex'[i].rows PROVE owner'[h] = job'[i].run
      <4>1. h \in ex[i].rows /\ ex[i] # NoExec /\ job' = job
        BY <2>13, <3>3 DEF SaveResult
      <4>2. h \in Hashes /\ job[i].run \in Runs
        BY <4>1 DEF ExecRecord
      <4>3. QED
        BY <3>1, <4>1, <4>2, UnseenAssumption
    <3>4. QED
      BY <3>2, <3>3
  <2>14. ASSUME NEW j \in Jobs, Notify(j) PROVE MailsListOwnRows'
    BY <2>14 DEF Notify, ReportRows, Mine
  <2>15. ASSUME NEW j \in Jobs, SendMail(j) PROVE MailsListOwnRows'
    BY <2>15 DEF SendMail
  <2>16. ASSUME NEW j \in Jobs, Finish(j) PROVE MailsListOwnRows'
    BY <2>16 DEF Finish, FinalStatus
  <2>17. ASSUME NEW j \in Jobs, RowGone(j) PROVE MailsListOwnRows'
    BY <2>17 DEF RowGone
  <2>18. ASSUME NEW j \in Jobs, NEW b \in BOOLEAN, Exception(j, b) PROVE MailsListOwnRows'
    BY <2>18 DEF Exception, Retry
  <2>19. ASSUME NEW j \in Jobs, HandlerFails(j) PROVE MailsListOwnRows'
    BY <2>19 DEF HandlerFails
  <2>20. ASSUME NEW j \in Jobs, Crash(j) PROVE MailsListOwnRows'
    BY <2>20 DEF Crash
  <2>21. ASSUME NEW j \in Jobs, JobTimeout(j) PROVE MailsListOwnRows'
    BY <2>21 DEF JobTimeout
  <2>22. CASE RedisRestart
    BY <2>22 DEF RedisRestart
  <2>23. CASE UNCHANGED vars
    BY <2>23 DEF vars
  <2>24. QED
    BY <2>1, <2>2, <2>3, <2>4, <2>5, <2>6, <2>7, <2>8, <2>8a, <2>9, <2>10, <2>11, <2>12,
       <2>13, <2>14, <2>15, <2>16, <2>17, <2>18, <2>19, <2>20, <2>21, <2>22, <2>23
       DEF Next, Request, Work, Fail
<1>3. QED
  BY <1>1, <1>2, TypeCorrect, PTL DEF Spec

\* Without overlap one execution at a time has the run, and none once its mail
\* is recorded.
THEOREM Solitude == Spec => []SoleExecution
<1> USE DEF SoleExecution, Executions, NoExec, TypeInv, TypeOK, JobsHaveRuns, RowState, RunStatus,
            TERMINAL_RUN_STATUSES, JobState, Executing
<1>1. Init => SoleExecution
  BY DEF Init, Live
<1>2. ASSUME TypeInv, SoleExecution, [Next]_vars PROVE SoleExecution'
  <2> USE <1>2, NoExecType DEF rowVars, mailVars, ghostVars, apiVars, Leave, GoOn,
                               Strike, Lose, CutShort, Exists, Open, Live
  <2>1. ASSUME NEW r \in Runs, CreateRun(r) PROVE SoleExecution'
    BY <2>1 DEF CreateRun
  <2>2. ASSUME NEW r \in Runs, EnqueueRun(r) PROVE SoleExecution'
    BY <2>2 DEF EnqueueRun, Enqueue
  <2>3. ASSUME NEW r \in Runs, EnqueueFails(r) PROVE SoleExecution'
    BY <2>3 DEF EnqueueFails
  <2>4. ASSUME NEW r \in Runs, CancelRead(r) PROVE SoleExecution'
    BY <2>4 DEF CancelRead
  <2>5. ASSUME NEW r \in Runs, CancelWrite(r) PROVE SoleExecution'
    BY <2>5 DEF CancelWrite
  <2>6. ASSUME NEW r \in Runs, DeleteRun(r) PROVE SoleExecution'
    BY <2>6 DEF DeleteRun
  <2>7. ASSUME NEW r \in Runs, Requeue(r) PROVE SoleExecution'
    BY <2>7 DEF Requeue, Enqueue
  <2>8. ASSUME NEW j \in Jobs, DropJob(j) PROVE SoleExecution'
    BY <2>8 DEF DropJob
  <2>8a. ASSUME NEW j \in Jobs, TakenByScheduler(j) PROVE SoleExecution'
    BY <2>8a DEF TakenByScheduler
  <2>9. ASSUME NEW j \in Jobs, PickUp(j) PROVE SoleExecution'
    BY <2>9 DEF PickUp, NothingToDo
  <2>10. ASSUME NEW j \in Jobs, Claim(j) PROVE SoleExecution'
    BY <2>10 DEF Claim
  <2>11. ASSUME NEW j \in Jobs, BuildInput(j) PROVE SoleExecution'
    BY <2>11 DEF BuildInput, KnownHashes
  <2>12. ASSUME NEW j \in Jobs, RunEngine(j) PROVE SoleExecution'
    BY <2>12 DEF RunEngine
  <2>13. ASSUME NEW j \in Jobs, SaveResult(j) PROVE SoleExecution'
    BY <2>13 DEF SaveResult
  <2>14. ASSUME NEW j \in Jobs, Notify(j) PROVE SoleExecution'
    BY <2>14 DEF Notify, ReportRows, Mine
  <2>15. ASSUME NEW j \in Jobs, SendMail(j) PROVE SoleExecution'
    BY <2>15 DEF SendMail
  <2>16. ASSUME NEW j \in Jobs, Finish(j) PROVE SoleExecution'
    BY <2>16 DEF Finish, FinalStatus
  <2>17. ASSUME NEW j \in Jobs, RowGone(j) PROVE SoleExecution'
    BY <2>17 DEF RowGone
  <2>18. ASSUME NEW j \in Jobs, NEW b \in BOOLEAN, Exception(j, b) PROVE SoleExecution'
    BY <2>18 DEF Exception, Retry
  <2>19. ASSUME NEW j \in Jobs, HandlerFails(j) PROVE SoleExecution'
    BY <2>19 DEF HandlerFails
  <2>20. ASSUME NEW j \in Jobs, Crash(j) PROVE SoleExecution'
    BY <2>20 DEF Crash
  <2>21. ASSUME NEW j \in Jobs, JobTimeout(j) PROVE SoleExecution'
    BY <2>21 DEF JobTimeout
  <2>22. CASE RedisRestart
    BY <2>22 DEF RedisRestart
  <2>23. CASE UNCHANGED vars
    BY <2>23 DEF vars
  <2>24. QED
    BY <2>1, <2>2, <2>3, <2>4, <2>5, <2>6, <2>7, <2>8, <2>8a, <2>9, <2>10, <2>11, <2>12,
       <2>13, <2>14, <2>15, <2>16, <2>17, <2>18, <2>19, <2>20, <2>21, <2>22, <2>23
       DEF Next, Request, Work, Fail
<1>3. QED
  BY <1>1, <1>2, TypeCorrect, PTL DEF Spec

\* Without overlap and without an execution cut short, a run has at most one mail
\* and the row or the execution about to commit knows of it.
THEOREM MailAccount == Spec => []MailIsRecorded
<1> USE DEF MailIsRecorded, SoleExecution, Executions, NoExec, TypeInv, TypeOK, JobsHaveRuns, RowState, RunStatus,
            TERMINAL_RUN_STATUSES, JobState, Executing
<1>1. Init => MailIsRecorded
  BY DEF Init, Live
<1>2. ASSUME TypeInv, SoleExecution, MailIsRecorded, [Next]_vars PROVE MailIsRecorded'
  <2> USE <1>2, NoExecType DEF rowVars, mailVars, ghostVars, apiVars, Leave, GoOn,
                               Strike, Lose, CutShort, Exists, Open, Live
  <2>1. ASSUME NEW r \in Runs, CreateRun(r) PROVE MailIsRecorded'
    BY <2>1 DEF CreateRun
  <2>2. ASSUME NEW r \in Runs, EnqueueRun(r) PROVE MailIsRecorded'
    BY <2>2 DEF EnqueueRun, Enqueue
  <2>3. ASSUME NEW r \in Runs, EnqueueFails(r) PROVE MailIsRecorded'
    BY <2>3 DEF EnqueueFails
  <2>4. ASSUME NEW r \in Runs, CancelRead(r) PROVE MailIsRecorded'
    BY <2>4 DEF CancelRead
  <2>5. ASSUME NEW r \in Runs, CancelWrite(r) PROVE MailIsRecorded'
    BY <2>5 DEF CancelWrite
  <2>6. ASSUME NEW r \in Runs, DeleteRun(r) PROVE MailIsRecorded'
    BY <2>6 DEF DeleteRun
  <2>7. ASSUME NEW r \in Runs, Requeue(r) PROVE MailIsRecorded'
    BY <2>7 DEF Requeue, Enqueue
  <2>8. ASSUME NEW j \in Jobs, DropJob(j) PROVE MailIsRecorded'
    BY <2>8 DEF DropJob
  <2>8a. ASSUME NEW j \in Jobs, TakenByScheduler(j) PROVE MailIsRecorded'
    BY <2>8a DEF TakenByScheduler
  <2>9. ASSUME NEW j \in Jobs, PickUp(j) PROVE MailIsRecorded'
    <3>1. \A i \in Jobs : ex'[i].sent = ex[i].sent /\ job'[i].run = job[i].run
      <4>1. \A i \in Jobs : job'[i].run = job[i].run
        BY <2>9 DEF PickUp, JobRecord
      <4>2. \A a, b, c : [ex[j] EXCEPT !.seen = a, !.attempt = b, !.notified = c].sent = ex[j].sent
        BY DEF ExecRecord
      <4>3. CASE NothingToDo(job[j].run)
        <5>1. ex' = [ex EXCEPT ![j] = NoExec] /\ ex[j] = NoExec
          BY <2>9, <4>3 DEF PickUp
        <5>2. \A i \in Jobs : ex'[i] = ex[i]
          BY <5>1, Zenon
        <5>3. QED
          BY <4>1, <5>2
      <4>4. CASE ~NothingToDo(job[j].run)
        BY <2>9, <4>1, <4>2, <4>4 DEF PickUp
      <4>5. QED
        BY <4>3, <4>4
    <3>2. \A i \in Jobs : pc[i] = "finish" => pc'[i] = "finish"
      BY <2>9 DEF PickUp
    <3>3. \A r \in Runs : overlap[r] => overlap'[r]
      BY <2>9 DEF PickUp
    <3>4. QED
      BY <2>9, <3>1, <3>2, <3>3 DEF PickUp
  <2>10. ASSUME NEW j \in Jobs, Claim(j) PROVE MailIsRecorded'
    BY <2>10 DEF Claim
  <2>11. ASSUME NEW j \in Jobs, BuildInput(j) PROVE MailIsRecorded'
    BY <2>11 DEF BuildInput, KnownHashes
  <2>12. ASSUME NEW j \in Jobs, RunEngine(j) PROVE MailIsRecorded'
    BY <2>12 DEF RunEngine
  <2>13. ASSUME NEW j \in Jobs, SaveResult(j) PROVE MailIsRecorded'
    BY <2>13 DEF SaveResult
  <2>14. ASSUME NEW j \in Jobs, Notify(j) PROVE MailIsRecorded'
    BY <2>14 DEF Notify, ReportRows, Mine
  <2>15. ASSUME NEW j \in Jobs, SendMail(j) PROVE MailIsRecorded'
    BY <2>15 DEF SendMail
  <2>16. ASSUME NEW j \in Jobs, Finish(j) PROVE MailIsRecorded'
    <3>1. \A i \in Jobs : /\ ex'[i].sent => ex[i].sent /\ i # j
                          /\ ex[i].sent /\ i # j => ex'[i].sent
                          /\ i # j => pc'[i] = pc[i]
      BY <2>16 DEF Finish
    <3>2. \A r \in Runs : notified'[r] <=> notified[r] \/ (r = job[j].run /\ ex[j].sent)
      <4>1. ex[j].sent \in BOOLEAN
        BY DEF ExecRecord
      <4>2. QED
        BY <2>16, <4>1 DEF Finish
    <3>3. QED
      BY <2>16, <3>1, <3>2 DEF Finish
  <2>17. ASSUME NEW j \in Jobs, RowGone(j) PROVE MailIsRecorded'
    BY <2>17 DEF RowGone
  <2>18. ASSUME NEW j \in Jobs, NEW b \in BOOLEAN, Exception(j, b) PROVE MailIsRecorded'
    <3>1. \A i \in Jobs : /\ ex'[i].sent => ex[i].sent /\ i # j
                          /\ ex[i].sent /\ i # j => ex'[i].sent
                          /\ i # j => pc'[i] = pc[i]
      BY <2>18 DEF Exception, Retry
    <3>2. \A r \in Runs : /\ cut[r] => cut'[r]
                          /\ r = job[j].run /\ ex[j].sent => cut'[r]
      BY <2>18 DEF Exception
    <3>3. QED
      BY <2>18, <3>1, <3>2 DEF Exception
  <2>19. ASSUME NEW j \in Jobs, HandlerFails(j) PROVE MailIsRecorded'
    BY <2>19 DEF HandlerFails
  <2>20. ASSUME NEW j \in Jobs, Crash(j) PROVE MailIsRecorded'
    BY <2>20 DEF Crash
  <2>21. ASSUME NEW j \in Jobs, JobTimeout(j) PROVE MailIsRecorded'
    BY <2>21 DEF JobTimeout
  <2>22. CASE RedisRestart
    BY <2>22 DEF RedisRestart
  <2>23. CASE UNCHANGED vars
    BY <2>23 DEF vars
  <2>24. QED
    BY <2>1, <2>2, <2>3, <2>4, <2>5, <2>6, <2>7, <2>8, <2>8a, <2>9, <2>10, <2>11, <2>12,
       <2>13, <2>14, <2>15, <2>16, <2>17, <2>18, <2>19, <2>20, <2>21, <2>22, <2>23
       DEF Next, Request, Work, Fail
<1>3. QED
  BY <1>1, <1>2, TypeCorrect, Solitude, PTL DEF Spec

\* Without overlap an execution that mails has all the run's matches in the mail.
THEOREM ReportCompleteness == Spec => []ReportIsComplete
<1> USE DEF ReportIsComplete, SoleExecution, Executions, Mine, NoExec, TypeInv, TypeOK, JobsHaveRuns, RowState, RunStatus,
            TERMINAL_RUN_STATUSES, JobState, Executing
<1>1. Init => ReportIsComplete
  BY DEF Init, Live
<1>2. ASSUME TypeInv, SoleExecution, ReportIsComplete, [Next]_vars PROVE ReportIsComplete'
  <2> USE <1>2, NoExecType DEF rowVars, mailVars, ghostVars, apiVars, Leave, GoOn,
                               Strike, Lose, CutShort, Exists, Open, Live
  <2>1. ASSUME NEW r \in Runs, CreateRun(r) PROVE ReportIsComplete'
    BY <2>1 DEF CreateRun
  <2>2. ASSUME NEW r \in Runs, EnqueueRun(r) PROVE ReportIsComplete'
    BY <2>2 DEF EnqueueRun, Enqueue
  <2>3. ASSUME NEW r \in Runs, EnqueueFails(r) PROVE ReportIsComplete'
    BY <2>3 DEF EnqueueFails
  <2>4. ASSUME NEW r \in Runs, CancelRead(r) PROVE ReportIsComplete'
    BY <2>4 DEF CancelRead
  <2>5. ASSUME NEW r \in Runs, CancelWrite(r) PROVE ReportIsComplete'
    BY <2>5 DEF CancelWrite
  <2>6. ASSUME NEW r \in Runs, DeleteRun(r) PROVE ReportIsComplete'
    BY <2>6 DEF DeleteRun
  <2>7. ASSUME NEW r \in Runs, Requeue(r) PROVE ReportIsComplete'
    BY <2>7 DEF Requeue, Enqueue
  <2>8. ASSUME NEW j \in Jobs, DropJob(j) PROVE ReportIsComplete'
    BY <2>8 DEF DropJob
  <2>8a. ASSUME NEW j \in Jobs, TakenByScheduler(j) PROVE ReportIsComplete'
    BY <2>8a DEF TakenByScheduler
  <2>9. ASSUME NEW j \in Jobs, PickUp(j) PROVE ReportIsComplete'
    BY <2>9 DEF PickUp, NothingToDo
  <2>10. ASSUME NEW j \in Jobs, Claim(j) PROVE ReportIsComplete'
    BY <2>10 DEF Claim
  <2>11. ASSUME NEW j \in Jobs, BuildInput(j) PROVE ReportIsComplete'
    BY <2>11 DEF BuildInput, KnownHashes
  <2>12. ASSUME NEW j \in Jobs, RunEngine(j) PROVE ReportIsComplete'
    BY <2>12 DEF RunEngine
  <2>13. ASSUME NEW j \in Jobs, SaveResult(j) PROVE ReportIsComplete'
    BY <2>13 DEF SaveResult
  <2>14. ASSUME NEW j \in Jobs, Notify(j) PROVE ReportIsComplete'
    BY <2>14 DEF Notify, ReportRows, Mine
  <2>15. ASSUME NEW j \in Jobs, SendMail(j) PROVE ReportIsComplete'
    BY <2>15 DEF SendMail
  <2>16. ASSUME NEW j \in Jobs, Finish(j) PROVE ReportIsComplete'
    BY <2>16 DEF Finish, FinalStatus
  <2>17. ASSUME NEW j \in Jobs, RowGone(j) PROVE ReportIsComplete'
    BY <2>17 DEF RowGone
  <2>18. ASSUME NEW j \in Jobs, NEW b \in BOOLEAN, Exception(j, b) PROVE ReportIsComplete'
    BY <2>18 DEF Exception, Retry
  <2>19. ASSUME NEW j \in Jobs, HandlerFails(j) PROVE ReportIsComplete'
    BY <2>19 DEF HandlerFails
  <2>20. ASSUME NEW j \in Jobs, Crash(j) PROVE ReportIsComplete'
    BY <2>20 DEF Crash
  <2>21. ASSUME NEW j \in Jobs, JobTimeout(j) PROVE ReportIsComplete'
    BY <2>21 DEF JobTimeout
  <2>22. CASE RedisRestart
    BY <2>22 DEF RedisRestart
  <2>23. CASE UNCHANGED vars
    BY <2>23 DEF vars
  <2>24. QED
    BY <2>1, <2>2, <2>3, <2>4, <2>5, <2>6, <2>7, <2>8, <2>8a, <2>9, <2>10, <2>11, <2>12,
       <2>13, <2>14, <2>15, <2>16, <2>17, <2>18, <2>19, <2>20, <2>21, <2>22, <2>23
       DEF Next, Request, Work, Fail
<1>3. QED
  BY <1>1, <1>2, TypeCorrect, Solitude, PTL DEF Spec

\* No posting is reported by the mails of two runs.
THEOREM PostingsAnnouncedByOneRun == Spec => []OneRunAnnouncesAPosting
<1>1. MailsListOwnRows => OneRunAnnouncesAPosting
  BY DEF MailsListOwnRows, OneRunAnnouncesAPosting
<1>2. QED
  BY <1>1, MailsAreOwn, PTL

\* A second mail about a run needs an execution cut short or two at once.
THEOREM MailOnceWithoutFault == Spec => []RepeatMailNeedsFault
<1>1. TypeInv /\ MailIsRecorded => RepeatMailNeedsFault
  BY DEF MailIsRecorded, RepeatMailNeedsFault, TypeInv, TypeOK
<1>2. QED
  BY <1>1, MailAccount, TypeCorrect, PTL

\* A run that ends well has mailed all its matches.
THEOREM SuccessIsAnnounced == Spec => []SuccessAnnouncesAll
<1>1. ReportIsComplete => SuccessAnnouncesAll
  BY DEF ReportIsComplete, SuccessAnnouncesAll
<1>2. QED
  BY <1>1, ReportCompleteness, PTL

\* Every step of the pipeline is a step of the contract, or none.
THEOREM ContractImplemented == Spec => ContractKept
<1> USE DEF TypeInv, TypeOK, JobsHaveRuns, RowState, RunStatus,
            TERMINAL_RUN_STATUSES, JobState, Executing, Held, Executions, Live,
            Contract!cvars
<1>1. Init => Contract!Init
  BY DEF Init, Contract!Init
<1>2. ASSUME TypeInv, MailsListOwnRows, [Next]_vars PROVE [Contract!Next]_Contract!cvars
  <2> USE <1>2, NoExecType DEF rowVars, mailVars, ghostVars, apiVars, Leave, GoOn,
                               Strike, Lose, CutShort, Exists, Open
  <2>1. ASSUME NEW r \in Runs, CreateRun(r) PROVE [Contract!Next]_Contract!cvars
    <3>1. Contract!Accept(r)
      BY <2>1 DEF CreateRun, Contract!Accept
    <3>2. QED
      BY <3>1 DEF Contract!Next
  <2>2. ASSUME NEW r \in Runs, EnqueueRun(r) PROVE [Contract!Next]_Contract!cvars
    <3>1. UNCHANGED Contract!cvars
      BY <2>2 DEF EnqueueRun, Enqueue
    <3>2. QED
      BY <3>1
  <2>3. ASSUME NEW r \in Runs, EnqueueFails(r) PROVE [Contract!Next]_Contract!cvars
    <3>1. UNCHANGED Contract!cvars
      BY <2>3 DEF EnqueueFails
    <3>2. QED
      BY <3>1
  <2>4. ASSUME NEW r \in Runs, CancelRead(r) PROVE [Contract!Next]_Contract!cvars
    <3>1. Contract!TakeUp(r)
      BY <2>4 DEF CancelRead, Contract!TakeUp, Contract!Open
    <3>2. QED
      BY <3>1 DEF Contract!Next
  <2>5. ASSUME NEW r \in Runs, CancelWrite(r) PROVE [Contract!Next]_Contract!cvars
    <3>1. Held' \in {Held, Held \ {r}} /\ r \in Held
      BY <2>5 DEF CancelWrite
    <3>2. CASE Exists(r)
      <4>1. Contract!Move(r)
        BY <2>5, <3>1, <3>2 DEF CancelWrite, Contract!Move, Contract!Open, Contract!Settled
      <4>2. QED
        BY <4>1 DEF Contract!Next
    <3>3. CASE ~Exists(r)
      BY <2>5, <3>1, <3>3 DEF CancelWrite, Contract!Next, Contract!LetGo
    <3>4. QED
      BY <3>2, <3>3
  <2>6. ASSUME NEW r \in Runs, DeleteRun(r) PROVE [Contract!Next]_Contract!cvars
    <3>1. Contract!Discard(r)
      BY <2>6 DEF DeleteRun, Contract!Discard
    <3>2. QED
      BY <3>1 DEF Contract!Next
  <2>7. ASSUME NEW r \in Runs, Requeue(r) PROVE [Contract!Next]_Contract!cvars
    <3>1. UNCHANGED Contract!cvars
      BY <2>7 DEF Requeue, Enqueue
    <3>2. QED
      BY <3>1
  <2>8. ASSUME NEW j \in Jobs, DropJob(j) PROVE [Contract!Next]_Contract!cvars
    <3>1. UNCHANGED Contract!cvars
      BY <2>8 DEF DropJob
    <3>2. QED
      BY <3>1
  <2>8a. ASSUME NEW j \in Jobs, TakenByScheduler(j) PROVE [Contract!Next]_Contract!cvars
    <3>1. UNCHANGED Contract!cvars
      BY <2>8a DEF TakenByScheduler
    <3>2. QED
      BY <3>1
  <2>9. ASSUME NEW j \in Jobs, PickUp(j) PROVE [Contract!Next]_Contract!cvars
    <3>0. PICK r \in Runs : r = job[j].run
      BY <2>9 DEF PickUp
    <3>1. \A i \in Jobs : job'[i].run = job[i].run
      BY <3>0, <2>9 DEF PickUp, JobRecord
    <3>2. CASE NothingToDo(r)
      BY <3>0, <2>9, <3>1, <3>2 DEF PickUp
    <3>3. CASE ~NothingToDo(r)
      <4>1. Contract!TakeUp(r)
        BY <3>0, <2>9, <3>1, <3>3 DEF PickUp, NothingToDo, Contract!TakeUp, Contract!Open
      <4>2. QED
        BY <3>0, <2>9, <4>1 DEF PickUp, Contract!Next
    <3>4. QED
      BY <3>2, <3>3
  <2>10. ASSUME NEW j \in Jobs, Claim(j) PROVE [Contract!Next]_Contract!cvars
    <3>0. PICK r \in Runs : r = job[j].run
      BY <2>10 DEF Claim
    <3>1. Held' = Held /\ r \in Held /\ r \in Runs
      BY <3>0, <2>10 DEF Claim
    <3>2. Contract!Move(r) \/ UNCHANGED Contract!cvars
      BY <3>0, <2>10, <3>1 DEF Claim, Contract!Move, Contract!Open, Contract!Settled
    <3>3. QED
      BY <3>1, <3>2 DEF Contract!Next
  <2>11. ASSUME NEW j \in Jobs, BuildInput(j) PROVE [Contract!Next]_Contract!cvars
    <3>1. UNCHANGED Contract!cvars
      BY <2>11 DEF BuildInput
    <3>2. QED
      BY <3>1
  <2>12. ASSUME NEW j \in Jobs, RunEngine(j) PROVE [Contract!Next]_Contract!cvars
    <3>1. UNCHANGED Contract!cvars
      BY <2>12 DEF RunEngine
    <3>2. QED
      BY <3>1
  <2>13. ASSUME NEW j \in Jobs, SaveResult(j) PROVE [Contract!Next]_Contract!cvars
    <3>0. PICK r \in Runs : r = job[j].run
      BY <2>13 DEF SaveResult
    <3>1. Held' = Held /\ r \in Held /\ r \in Runs
      BY <3>0, <2>13 DEF SaveResult
    <3>2. ex[j].found \in SUBSET Hashes
      BY DEF ExecRecord
    <3>3. Contract!Record(r)
      BY <3>0, <2>13, <3>1, <3>2 DEF SaveResult, Contract!Record
    <3>4. QED
      BY <3>1, <3>3 DEF Contract!Next
  <2>14. ASSUME NEW j \in Jobs, Notify(j) PROVE [Contract!Next]_Contract!cvars
    <3>1. UNCHANGED Contract!cvars
      BY <2>14 DEF Notify
    <3>2. QED
      BY <3>1
  <2>15. ASSUME NEW j \in Jobs, SendMail(j) PROVE [Contract!Next]_Contract!cvars
    <3>0. PICK r \in Runs : r = job[j].run
      BY <2>15 DEF SendMail
    <3>1. Held' = Held /\ r \in Held /\ r \in Runs
      BY <3>0, <2>15 DEF SendMail
    <3>2. ex[j].rows \in SUBSET Contract!Owned(r)
      BY <3>0 DEF ExecRecord, MailsListOwnRows, Contract!Owned
    <3>3. Contract!Announce(r)
      BY <3>0, <2>15, <3>1, <3>2 DEF SendMail, Contract!Announce
    <3>4. QED
      BY <3>1, <3>3 DEF Contract!Next
  <2>16. ASSUME NEW j \in Jobs, Finish(j) PROVE [Contract!Next]_Contract!cvars
    <3>0. PICK r \in Runs : r = job[j].run
      BY <2>16 DEF Finish
    <3>1. Held' \in {Held, Held \ {r}} /\ r \in Held /\ r \in Runs
      BY <3>0, <2>16 DEF Finish
    <3>2. Contract!Move(r) \/ UNCHANGED Contract!cvars
      BY <3>0, <2>16, <3>1 DEF Finish, Contract!Move, FinalStatus, Contract!Open, Contract!Settled
    <3>3. QED
      BY <3>1, <3>2 DEF Contract!Next
  <2>17. ASSUME NEW j \in Jobs, RowGone(j) PROVE [Contract!Next]_Contract!cvars
    <3>0. PICK r \in Runs : r = job[j].run
      BY <2>17 DEF RowGone
    <3>1. Held' \in {Held, Held \ {r}} /\ r \in Held /\ r \in Runs
      BY <3>0, <2>17 DEF RowGone
    <3>2. Contract!LetGo(r) \/ UNCHANGED Contract!cvars
      BY <3>0, <2>17, <3>1 DEF RowGone, Contract!LetGo
    <3>3. QED
      BY <3>1, <3>2 DEF Contract!Next
  <2>18. ASSUME NEW j \in Jobs, NEW b \in BOOLEAN, Exception(j, b) PROVE [Contract!Next]_Contract!cvars
    <3>0. PICK r \in Runs : r = job[j].run
      BY <2>18 DEF Exception
    <3>1. Held' \in {Held, Held \ {r}} /\ r \in Held /\ r \in Runs
      BY <3>0, <2>18 DEF Exception, Retry
    <3>2. CASE Exists(r)
      <4>1. Contract!Move(r)
        BY <3>0, <2>18, <3>1, <3>2 DEF Exception, Retry, Contract!Move, Contract!Open, Contract!Settled
      <4>2. QED
        BY <3>1, <4>1 DEF Contract!Next
    <3>3. CASE ~Exists(r)
      <4>1. Contract!LetGo(r) \/ UNCHANGED Contract!cvars
        BY <3>0, <2>18, <3>1, <3>3 DEF Exception, Contract!LetGo
      <4>2. QED
        BY <3>1, <4>1 DEF Contract!Next
    <3>4. QED
      BY <3>2, <3>3
  <2>19. ASSUME NEW j \in Jobs, HandlerFails(j) PROVE [Contract!Next]_Contract!cvars
    <3>0. PICK r \in Runs : r = job[j].run
      BY <2>19 DEF HandlerFails
    <3>1. Held' \in {Held, Held \ {r}} /\ r \in Held /\ r \in Runs
      BY <3>0, <2>19 DEF HandlerFails
    <3>2. Contract!LetGo(r) \/ UNCHANGED Contract!cvars
      BY <3>0, <2>19, <3>1 DEF HandlerFails, Contract!LetGo
    <3>3. QED
      BY <3>1, <3>2 DEF Contract!Next
  <2>20. ASSUME NEW j \in Jobs, Crash(j) PROVE [Contract!Next]_Contract!cvars
    <3>0. PICK r \in Runs : r = job[j].run
      BY <2>20 DEF Crash
    <3>1. Held' \in {Held, Held \ {r}} /\ r \in Held /\ r \in Runs
      BY <3>0, <2>20 DEF Crash
    <3>2. Contract!LetGo(r) \/ UNCHANGED Contract!cvars
      BY <3>0, <2>20, <3>1 DEF Crash, Contract!LetGo
    <3>3. QED
      BY <3>1, <3>2 DEF Contract!Next
  <2>21. ASSUME NEW j \in Jobs, JobTimeout(j) PROVE [Contract!Next]_Contract!cvars
    <3>0. PICK r \in Runs : r = job[j].run
      BY <2>21 DEF JobTimeout
    <3>1. Held' \in {Held, Held \ {r}} /\ r \in Held /\ r \in Runs
      BY <3>0, <2>21 DEF JobTimeout
    <3>2. Contract!LetGo(r) \/ UNCHANGED Contract!cvars
      BY <3>0, <2>21, <3>1 DEF JobTimeout, Contract!LetGo
    <3>3. QED
      BY <3>1, <3>2 DEF Contract!Next
  <2>22. CASE RedisRestart
    <3>1. \A i \in Jobs : job'[i].run = job[i].run
      BY <2>22 DEF RedisRestart, JobRecord
    <3>2. \A i \in Jobs : Live(i)' <=> Live(i)
      BY <2>22 DEF RedisRestart
    <3>3. \A r \in Runs : Executions(r)' = Executions(r)
      BY <3>1, <3>2
    <3>4. Held' = Held
      BY <2>22, <3>3 DEF RedisRestart
    <3>5. QED
      BY <2>22, <3>4 DEF RedisRestart
  <2>23. CASE UNCHANGED vars
    BY <2>23 DEF vars
  <2>24. QED
    BY <2>1, <2>2, <2>3, <2>4, <2>5, <2>6, <2>7, <2>8, <2>8a, <2>9, <2>10, <2>11, <2>12,
       <2>13, <2>14, <2>15, <2>16, <2>17, <2>18, <2>19, <2>20, <2>21, <2>22, <2>23
       DEF Next, Request, Work, Fail
<1>3. QED
  BY <1>1, <1>2, TypeCorrect, MailsAreOwn, PTL DEF Spec, ContractKept, Contract!Spec
=============================================================================
