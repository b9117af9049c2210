------------------------------ MODULE RunEvents ------------------------------
(***************************************************************************)
(* The page of one run in the browser, which follows it in two ways at     *)
(* once: an event stream, for which the API polls run_steps and counts     *)
(* what it has sent, and the run query, fetched again and again until its  *)
(* status is terminal.  The worker meanwhile commits a row per step; a new *)
(* attempt deletes the rows of the last one.  Executions of the run do not *)
(* overlap here.  A step is named by its attempt and its number in it.     *)
(***************************************************************************)
EXTENDS Naturals, Sequences, SequencesExt

CONSTANTS
  MaxSteps,     \* bound on the steps of one attempt
  MaxAttempts,  \* bound on the attempts (retries and redeliveries)
  MaxPolls,     \* max_polls of stream_events
  None          \* no status yet

ASSUME BoundsAssumption == MaxSteps \in Nat /\ MaxAttempts \in Nat /\ MaxPolls \in Nat \ {0}

TERMINAL_RUN_STATUSES == {"succeeded", "partial", "failed", "cancelled"}
Statuses == {"queued", "running"} \cup TERMINAL_RUN_STATUSES

VARIABLES
  status, attempt, steps,  \* the runs row, and its run_steps ordered by `at`
  executing,               \* a worker is executing the run
  server,                  \* stream_events: where it is, sent, polls, the steps in hand
  wire,                    \* events on their way to the browser
  following,               \* the hook reads the stream (it does so once per mount)
  liveSteps, liveStatus,   \* the state of useRunEvents
  data,                    \* the run query's last answer
  fetch,                   \* the request for the next one, as far as it has got
  refetch,                 \* the query was invalidated
  cancelling,              \* what the cancel request is doing
  cancelled                \* a cancel was written (history)

rowVars    == <<status, attempt, steps>>
streamVars == <<server, wire, following, liveSteps, liveStatus>>
pageVars   == <<data, fetch, refetch>>
cancelVars == <<cancelling, cancelled>>
vars == <<rowVars, executing, streamVars, pageVars, cancelVars>>

Step == (1..MaxAttempts) \X (1..MaxSteps)
StepEvent(s) == [event |-> "step", step |-> s]
DoneEvent(s) == [event |-> "done", status |-> s]

Closed == [pc |-> "closed", sent |-> 0, polls |-> 0, rest |-> <<>>]
NoData == [status |-> None, steps |-> <<>>]

TypeOK ==
  /\ status \in Statuses /\ attempt \in 0..MaxAttempts
  /\ steps \in Seq(Step) /\ executing \in BOOLEAN
  /\ server.pc \in {"closed", "poll", "emit", "refresh"}
  /\ server.sent \in Nat /\ server.polls \in 0..MaxPolls /\ server.rest \in Seq(Step)
  /\ \A i \in DOMAIN wire :
       wire[i] \in {StepEvent(s) : s \in Step} \cup {DoneEvent(s) : s \in TERMINAL_RUN_STATUSES}
  /\ following \in BOOLEAN
  /\ liveSteps \in Seq(Step) /\ liveStatus \in TERMINAL_RUN_STATUSES \cup {None}
  /\ data.status \in Statuses \cup {None} /\ data.steps \in Seq(Step)
  /\ fetch \in Statuses \cup {None} /\ refetch \in BOOLEAN
  /\ cancelling \in {"no", "read", "written", "done"} /\ cancelled \in BOOLEAN

Init ==
  /\ status = "queued" /\ attempt = 0 /\ steps = <<>> /\ executing = FALSE
  /\ server = Closed /\ wire = <<>> /\ following = FALSE
  /\ liveSteps = <<>> /\ liveStatus = None
  /\ data = NoData /\ fetch = None /\ refetch = TRUE
  /\ cancelling = "no" /\ cancelled = FALSE

-----------------------------------------------------------------------------
(* The worker, as far as it writes what the page shows *)

\* The first commit of _run_once: clear_steps, and the new attempt.
Begin ==
  /\ ~executing /\ status \notin TERMINAL_RUN_STATUSES /\ attempt < MaxAttempts
  /\ status' = "running" /\ attempt' = attempt + 1 /\ steps' = <<>>
  /\ executing' = TRUE
  /\ UNCHANGED <<streamVars, pageVars, cancelVars>>

\* on_step: persist_step and its commit.
PersistStep ==
  /\ executing /\ Len(steps) < MaxSteps
  /\ steps' = Append(steps, <<attempt, Len(steps) + 1>>)
  /\ UNCHANGED <<status, attempt, executing, streamVars, pageVars, cancelVars>>

\* The last commit, or the failure handler: it writes the status it wants over
\* whatever is there, and a retry puts the run back to queued.
End ==
  /\ executing
  /\ \E s \in {"succeeded", "partial", "failed", "queued"} :
       /\ s = "queued" => attempt < MaxAttempts
       /\ status' = s
  /\ executing' = FALSE
  /\ UNCHANGED <<attempt, steps, streamVars, pageVars, cancelVars>>

\* The worker stops: the row stays as it is until the job is delivered again.
WorkerStops ==
  /\ executing /\ attempt < MaxAttempts
  /\ executing' = FALSE
  /\ UNCHANGED <<rowVars, streamVars, pageVars, cancelVars>>

-----------------------------------------------------------------------------
(* stream_events *)

\* Which of the rows are still to be sent.  Mutation: counted from one too many.
StepsAfterNext(sent) == SubSeq(steps, sent + 2, Len(steps))
StepsAfter(sent) == SubSeq(steps, sent + 1, Len(steps))

\* The rows are read, and what lies beyond `sent` goes out one by one.
Poll ==
  /\ server.pc = "poll"
  /\ server' = [server EXCEPT !.pc = "emit", !.rest = StepsAfter(server.sent)]
  /\ UNCHANGED <<rowVars, executing, wire, following, liveSteps, liveStatus, pageVars, cancelVars>>

Emit ==
  /\ server.pc = "emit" /\ server.rest # <<>>
  /\ wire' = Append(wire, StepEvent(Head(server.rest)))
  /\ server' = [server EXCEPT !.sent = @ + 1, !.rest = Tail(@)]
  /\ UNCHANGED <<rowVars, executing, following, liveSteps, liveStatus, pageVars, cancelVars>>

\* Mutation: whatever is not running has ended.
EndedIfNotRunning(s) == s # "running"
Ended(s) == s \in TERMINAL_RUN_STATUSES

\* The row is refreshed: a terminal run ends the stream with `done`; the last
\* poll ends it with `timeout`, which the browser ignores.
Refresh ==
  /\ server.pc = "emit" /\ server.rest = <<>>
  /\ IF Ended(status)
     THEN /\ wire' = Append(wire, DoneEvent(status))
          /\ server' = Closed
     ELSE /\ UNCHANGED wire
          /\ server' = IF server.polls + 1 = MaxPolls
                       THEN Closed
                       ELSE [server EXCEPT !.pc = "poll", !.polls = @ + 1]
  /\ UNCHANGED <<rowVars, executing, following, liveSteps, liveStatus, pageVars, cancelVars>>

-----------------------------------------------------------------------------
(* The browser *)

\* useRunEvents reads an event.
Receive ==
  /\ following /\ wire # <<>>
  /\ LET e == Head(wire) IN
       IF e.event = "step"
       THEN /\ liveSteps' = Append(liveSteps, e.step)
            /\ UNCHANGED <<liveStatus, following>>
       ELSE /\ liveStatus' = e.status /\ following' = FALSE
            /\ UNCHANGED liveSteps
  /\ wire' = Tail(wire)
  /\ UNCHANGED <<rowVars, executing, server, pageVars, cancelVars>>

\* The connection breaks; the hook does not open another one.
Disconnect ==
  /\ following
  /\ following' = FALSE /\ server' = Closed /\ wire' = <<>>
  /\ UNCHANGED <<rowVars, executing, liveSteps, liveStatus, pageVars, cancelVars>>

Live(d) == d.status # None /\ d.status \notin TERMINAL_RUN_STATUSES

\* refetchInterval goes on until the status is terminal.  Mutation: only while
\* the stream is open.
RefetchWhileStreaming == Live(data) /\ following
RefetchDue == Live(data)

\* GET /runs/{id} reads the row first and the steps after it.
FetchRow ==
  /\ fetch = None /\ (refetch \/ RefetchDue)
  /\ fetch' = status /\ refetch' = FALSE
  /\ UNCHANGED <<rowVars, executing, streamVars, data, cancelVars>>

\* The effect of the page: a run that becomes live opens a stream and empties
\* the hook's state, a run that is live no longer aborts it.
Effect(old, new) ==
  IF Live(new) /\ ~Live(old)
  THEN /\ following' = TRUE /\ liveSteps' = <<>> /\ liveStatus' = None /\ wire' = <<>>
       /\ server' = [Closed EXCEPT !.pc = "poll"]
  ELSE IF Live(old) /\ ~Live(new)
  THEN /\ following' = FALSE /\ wire' = <<>> /\ server' = Closed
       /\ UNCHANGED <<liveSteps, liveStatus>>
  ELSE UNCHANGED streamVars

FetchSteps ==
  /\ fetch # None
  /\ data' = [status |-> fetch, steps |-> steps]
  /\ fetch' = None
  /\ Effect(data, data')
  /\ UNCHANGED <<rowVars, executing, refetch, cancelVars>>

\* The cancel button is there while the run is live.  Bound: one click.
CancelRead ==
  /\ cancelling = "no" /\ Live(data)
  /\ cancelling' = IF status \in TERMINAL_RUN_STATUSES THEN "written" ELSE "read"
  /\ UNCHANGED <<rowVars, executing, streamVars, pageVars, cancelled>>

CancelWrite ==
  /\ cancelling = "read"
  /\ status' = "cancelled" /\ cancelling' = "written" /\ cancelled' = TRUE
  /\ UNCHANGED <<attempt, steps, executing, streamVars, pageVars>>

\* onSuccess invalidates the query: a fetch under way is dropped for a new one.
CancelDone ==
  /\ cancelling = "written"
  /\ cancelling' = "done" /\ refetch' = TRUE /\ fetch' = None
  /\ UNCHANGED <<rowVars, executing, streamVars, data, cancelled>>

-----------------------------------------------------------------------------
Worker  == Begin \/ PersistStep \/ End \/ WorkerStops
Stream  == Poll \/ Emit \/ Refresh \/ Receive
Fetch   == FetchRow \/ FetchSteps
Cancel  == CancelRead \/ CancelWrite \/ CancelDone

Next == Worker \/ Stream \/ Disconnect \/ Fetch \/ Cancel

Spec == Init /\ [][Next]_vars

\* The page's timer fires and its requests are answered; nothing is assumed of
\* the worker or of the stream.
Fairness == WF_vars(FetchRow) /\ WF_vars(FetchSteps)
FairSpec == Spec /\ Fairness

-----------------------------------------------------------------------------
(* What the page shows *)

\* Mutation: the stream's steps whenever there are any.
ShownLiveFirst == IF liveSteps # <<>> THEN liveSteps ELSE data.steps
Shown == IF Len(liveSteps) > Len(data.steps) THEN liveSteps ELSE data.steps
ShownStatus == IF liveStatus # None THEN liveStatus ELSE data.status

Stopped == data.status # None /\ ~RefetchDue /\ fetch = None /\ ~refetch

\* Up to the first retry the timeline is a prefix of the steps the worker
\* committed: none doubled, none skipped, whichever of the two ways was faster.
TimelineIsAPrefix == attempt <= 1 => IsPrefix(Shown, steps)

\* A page that stopped fetching shows the status the run ended with, through
\* any number of retries, and without a retry all the steps, though the stream
\* may end before the last of them; a cancel may be overwritten behind its back.
StoppedPageIsRight ==
  Stopped /\ ~cancelled => /\ ShownStatus = status
                           /\ attempt <= 1 => Shown = steps

\* A run that has ended for good is shown as ended, also after the stream broke
\* or timed out.
PageCatchesUp ==
  status \in TERMINAL_RUN_STATUSES ~>
    (status \notin TERMINAL_RUN_STATUSES \/ ShownStatus \in TERMINAL_RUN_STATUSES)
=============================================================================
