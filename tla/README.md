# Recruit-ME in TLA+

Recruit-ME scrapes job sites for its tenants once a day (or on demand), scores
what is new against their resumes with an LLM, and mails a report. This
directory holds TLA+ models of the parts of it that keep state, model-checking
configurations for TLC, and theorems checked by TLAPS.

    tlc -config RunFaults.cfg MCRunExecution.tla
    tlapm RunExecutionProofs.tla

## 1. The system

| Component | State it keeps | Operations | Meets others through |
|---|---|---|---|
| API services (`backend/.../services`) | none of their own; a request is one PostgreSQL transaction, committed by `get_db` when the handler returns | create, cancel, list and stream runs; upload and delete resumes; profiles; accounts | PostgreSQL, `enqueue` (arq), the object store, mail |
| Queue (arq on Redis) | jobs, deliveries per job, keys of cron ticks | enqueue, deliver, redeliver after a stop, give up after `max_tries` or `job_timeout` | Redis, which persists nothing (`docker-compose.yml`) |
| Worker tasks (`worker/.../tasks`) | coroutines with ORM objects loaded once | `execute_run`, `parse_resume`, `verify_credential` | PostgreSQL, engine, object store, mail |
| Engine (`packages/engine`) | lists and dictionaries of one call | scrape each source, dedupe, match in batches, report | rate limiter, seen store, LLM, `on_step` callback |
| Scrapers (`engine/scrapers`) | threads of the process's one executor | search, page, fall back, filter, for each of four sites | the engine, which waits with a time limit; the sites |
| Scheduler (`worker/.../scheduler.py`) | Redis lock per profile, unique `idempotency_key` | `enqueue_due_runs` once a minute | PostgreSQL, Redis, the same queue |
| Rate limiter (`rate_limiter_redis.py`) | token bucket per site and tenant, and per site | `acquire` (Lua script, sleep, ask again) | Redis; called by the engine before each source |
| Persistence (`persistence.py`, `models/run.py`) | `runs`, `run_steps`, `run_sources`, `job_matches`, `notifications` | save a result, notify | called by `execute_run` |
| Resumes (`resume_service.py`, `object_store.py`) | `resumes`, `resume_parses`, the PDF in the object store | upload, parse, link to a profile, delete | object store, queue |
| Accounts and sessions (`auth_service.py`, `account_service.py`) | `users`, refresh, verification, reset and e-mail tokens | signup, login, refresh with rotation, credential changes, account deletion | every request (`get_current_user`), object store |
| Site credentials (`site_credential_service.py`, `crypto.py`) | `site_credentials`, envelope-encrypted | upsert, verify, delete; decrypted by `build_input` | queue, engine |
| Run events (`RunService.stream_events`) | a cursor into `run_steps` per stream | poll, send, end | the browser |
| Web application (`frontend`) | query cache, access token, live steps | run page, wizard, settings, shared refresh | the API |

**What is hard.** Three kinds of process (API, workers, scheduler) share rows
without locking them for the length of what they do: an execution loads its run
once and never refreshes it, a cancel checks a status it read earlier, the
page joins two answers taken at different times. A commit and the effect it
belongs to are two steps almost everywhere (commit then enqueue, mail then
commit, delete the file then commit), and either can be cut off. arq delivers
at least once, loses jobs with Redis, and drops a job that ran into its time
limit. Answers to a browser leave before the commit (`get_db` commits after its
`yield`, which FastAPI runs once the response is sent), and its tabs share one
refresh cookie. Threads cannot be stopped, only left behind. Clocks of several
hosts meet in the rate limiter. The hazards are listed
one by one, each at its line, in `PROJECT.json`, with the properties that cover
them.

**What makes each component correct.** An open run has a job that will execute
it, or a known reason why not; a run is mailed once, with all of its matches; a
posting is reported to a tenant once; a run that ended stays as it ended unless
somebody had it in hand; a profile is booked once per day; grants stay within
the policy; the run page ends up with the end of the run; a result holds each
new posting once with its best score, and a source keeps what it found; no file
is left behind and no listed resume loses its file or its parse; an uploaded
resume is parsed; a session ends with the credentials it was opened with, and not
before; a stored secret is used exactly if it is good.

## 2. The modules

| Module | Models | Checked by |
|---|---|---|
| `RunContract` | what the run pipeline promises, with queue, workers and transactions left out | refined by `RunExecution` |
| `RunExecution` | a run from the request to the mail: `RunService`, arq, `execute_run`, `persistence.py` | `MCRunExecution` with `RunFaults`, `RunPair`, `RunMailTwice`; proofs in `RunExecutionProofs` |
| `Scheduler` | `enqueue_due_runs` on several processes | `MCScheduler` with `SchedulerFaults`; proofs in `SchedulerProofs` |
| `RateLimiter` | `RedisTokenBucket` with its Lua script | `MCRateLimiter` with `LimiterPaced`; proofs with those of the engine, in `EngineProofs` |
| `RunEvents` | the run page, the event stream behind it and the steps of the worker | `MCRunEvents` with `RunEvents`; proofs in `RunEventsProofs` |
| `Engine` | `run_engine` and `batch_match` from the inside | `MCEngine` with `Engine`; proofs in `EngineProofs` |
| `Scrapers` | the four registered scrapers in the threads of one worker process | `MCScrapers` with `Scrapers`; proofs in `ScrapersProofs` |
| `Documents` | resumes and reports in the object store, account deletion | `MCDocuments` with `Documents`; proofs in `DocumentsProofs` |
| `Credentials` | a site credential, the requests that change it, the jobs that judge it, and a rotation of the master key | `MCCredentials` with `Credentials`; proofs in `CredentialsProofs` |
| `Sessions` | one user's account, refresh tokens and browser tabs | `MCSessions` with `Sessions`, `SessionsReuse`; proofs in `SessionsProofs` |

`RunExecution` takes a whole `run_engine` in one step (`RunEngine`: some new
postings, a flag for failed sources, or an exception at any moment). `Engine`
opens that step, and its property `MatchesAreNew` is what the step assumes: a
result lists a posting once and none that was known. `Scrapers` opens a step of
`Engine` in turn (`Scrape`, `ScrapeFails`: what one source returned). `RunEvents` keeps of the
worker only the writes the page can see. `Scheduler` ends where a job is
enqueued, which is where `RunExecution` begins.

### How state and actions correspond to the code

One action is one database transaction or one external call (mail, object
store, queue, Redis script): what happens in between, in the memory of one
coroutine, nobody else can see. `map` in `PROJECT.json` names the lines of
every definition.

* **RunExecution.** `status`, `attempt`, `notified` are columns of `runs`,
  `owner` is `job_matches` (unique per user and hash), `job` is what Redis holds
  of a job, `ex[j]` what the coroutine of job `j` holds in memory: the ORM
  object is loaded at `PickUp` and not refreshed (`expire_on_commit=False`), so
  the later steps use stale values exactly where the code does. The ORM writes
  only changed columns, hence the case distinction in `Claim`. `Work(j)` is the
  straight path of `_run_once`; `Fail(j)` its failures: an exception (transient
  or not), an exception of the handler itself, the death of the worker
  (delivered again), the time limit (not delivered again), a job taken by the
  scheduler process, and a restart of Redis. `cut`, `overlap` and `lost` are
  history variables that name the failures a property has to except.
* **Scheduler.** Minutes, ticks in the queue, and per process the place in the
  loop. Cron expressions and time zones become two functions, `DueAt` and
  `DayOf`. Any call of the loop may raise, before or after it has had its effect
  (`Error`); the exception leaves the loop, and with it the profile in hand and those
  that are left. A scheduler that stops drops its tick as well: arq delivers it once
  more, but runs a cron job only once (`max_tries` is 1 unless `cron` is told
  otherwise, `settings.py:67`). A tenant may pause a profile, activate it again or
  delete it; only a deleted one makes the insert fail, and its runs go with it.
  `excused` records for each minute and profile that its tick was not queued, was
  taken by a worker, started in another minute, could not read the profiles, found
  the lock busy, or ended by a stop or an error before it had booked the profile.
* **RateLimiter.** Levels are whole units, `Cost` units to the token, so that
  refill per tick is exact. `Grant` and the refused branch of `Sleep` are the two
  ends of the Lua script; `GiveUp` is the return after `max_wait_s`.
* **RunEvents.** `server` is the generator of `stream_events` (`sent`, its poll
  count, the steps still to be yielded), `wire` the connection, `liveSteps` and
  `liveStatus` the state of `useRunEvents`, `data` the last answer of the run
  query, which reads the row and then the steps. `Shown` and `ShownStatus` are
  the two lines of the page that join both sources.
* **Engine.** A posting stands for its `external_hash`. `call` is where each
  `run_batch` coroutine is (waiting for the semaphore, in the LLM call, done),
  `answer` what it returned; `Replies` is what `_extract_json` can make of the
  model's text, an answer may score some postings only, and the rest get the
  keyword score. A malformed answer raises out of `gather`, whose
  other coroutines go on. The loops of the code (dedupe, best of the resumes,
  threshold) are recursive functions over the turns of the loop: `FirstOfEach`,
  `Best`, `Passing`.
* **Documents.** A request is a transaction with calls in its middle; its rows
  appear at the commit. The locks PostgreSQL holds meanwhile are guards
  (`RowLockedByParse`, `RowLockedByDelete`, `UserLocked`): they decide which
  steps of a parse, a delete and an account deletion can meet. A parse reads the
  object, extracts its text (`TextsOf`) and asks the model (`Replies`), and each
  of the three may fail; `parses` are the rows it commits. `again` marks a parse
  whose job was delivered once more after the commit: the second one may fail,
  and then the resume is marked failed although its parse row is there. The report
  of a run is put, and its key committed with the rest of `notify_if_needed`: if that
  transaction rolls back, the file stays without a row that names it, until another
  execution puts it again (`report`, `brokeOff`). `DeleteProfile` takes the run along
  and leaves the report. `Sweep` is `delete_prefix`, which does not read what the
  store says it could not delete: `missed` are the files it left, `late` those that
  were put behind it.
* **Scrapers.** `turn` and `waiting` are the run's coroutine, `thread` the blocking
  function it waits for: queued in the executor, running, or gone. A request is
  a search and a page; an error and an empty answer are the same to all
  scrapers, so `Ask...` only choose the hits. `TimeOut` withdraws a call that has
  no thread yet and abandons one that has: its thread goes on and keeps its
  place. `tried`, `told` and `found` follow a call from its requests to its
  result.
* **Credentials.** `request[q].seen` and `check[q].seen` are the ORM objects a
  request or a job loaded; flush and commit are one step, as nothing is read
  between them. A column that has the value it was loaded with is not written
  (`StatusColumn`), so two writers can leave the status of the one on the secret
  of the other, or the key version of the one with the ciphertext of the other
  (`KeyColumn`). `Rollout` is the sequence of settings a rotation of the master
  key goes through (`docs/RUNBOOK.md`); API replicas and the worker take each of
  them up at different times, and the next settings still have the key that the
  ones before seal with (`HandoverAssumption`). `overtaken`, `outdated`, `ahead` and
  `lost` record what the two halves of `StatusFitsSecret` except: between requests,
  that nobody wrote over a row that had changed since it was loaded; at rest, only
  a verdict on an earlier secret or ciphertext, a lost check and a mixed row; and
  both, that the API sealed with a key the worker did not have yet. It matters that
  a verdict is about the ciphertext and the key version with the secret (`Content`):
  a check may judge a mixed row, and write its verdict after the same secret was
  saved again and sealed properly.
* **Sessions.** A request goes through its reads, its statements, its commit and
  its answer, the last two in either order for `login`, `refresh` and `logout`,
  where the browser acts on the answer. `req[a]` holds what the request has read
  and will write; `row` are the refresh tokens, each with the login it stems from
  and the number of credential changes that login had seen. The cookie belongs
  to all tabs, the access token to one. `Waits` are PostgreSQL's row locks. Mailed
  links and the administrator are actors of their own; the use of a link is checked
  in one step and written in another, so that two requests may pass with one link
  (`Overtakable`). `forked`, `kept` and the
  fields of `origin` are history.

## 3. The runs

| Run | Question | Instance | Result |
|---|---|---|---|
| `run_faults` | which failures repeat a mail, leave a match unmailed or an open run without a job | 1 run, 2 postings, 2 jobs, 2 attempts, all 8 kinds of failure, 3 of them | holds |
| `run_pair` | do two overlapping runs keep the contract, and does every run settle | 2 runs, 1 posting, 2 jobs, one failure, fairness | holds |
| `run_mail_twice` | "exactly one notification" on a restart (`docs/RUNBOOK.md`) | 1 run, 1 crash | refuted |
| `scheduler_faults` | one job per profile and date, which days stay unbooked | 2 processes, 2 profiles, 3 minutes over 2 dates, 2 failures of 5 kinds | holds |
| `limiter_paced` | are grants paced, does a full wait suffice | 2 tenants, 2 callers a tick apart, restart of Redis | holds |
| `run_events` | does the page show the run rightly to its end | 2 attempts of 2 steps, 3 polls, a cancel, broken streams | holds |
| `engine_match` | what is in a result, with which score, and does the engine end | 2 sources, 3 postings, 2 resumes, batches of 2, 2 calls at once | holds |
| `scrapers` | what does a source return, who waits behind whom, does every run get through | 2 runs, 5 calls of 4 scrapers, 2 threads, 2 searches, 2 pages | holds |
| `documents` | which files, rows or parses are left over or missing, and by what | 1 resume, a report, its profile, an account, 4 failures of 5 kinds | holds |
| `credentials` | does the status fit the secret, does a saved secret get its verdict | 3 requests of any kind, a good and a bad secret, one key rotation, 1 failure | holds |
| `sessions` | what outlives a change of credentials, when is a browser signed out | 2 tabs, a link or the administrator, 3 tokens, 2 requests besides refreshes, 1 failure | holds |
| `sessions_reuse` | "all sessions revoked" on a reused token (`auth_service.py`) | 2 tabs, no failure | refuted |

The two refuted claims are in `PROJECT.json` under `findings`, with the lines
they quote. The exceptions in the properties that hold are results too: each
names, by a history variable, a way in which the plain statement fails.

Some disagreements of words and code need no run to be seen; the models follow
the code in each:

* The worker and the scheduler poll the same arq queue (`settings.py:54-70`) and
  can take each other's jobs, which neither knows how to run.
* A scheduler that was down for a minute does not make it up
  (`docs/RUNBOOK.md:50-52`): `_is_due` compares with the exact minute of the tick
  (`scheduler.py:58`).
* `acquire` returns without a token after `max_wait_s`
  (`rate_limiter_redis.py:85`), so the rates of `policies.py:3-6` bound the tokens
  and not the requests.
* The runbook rolls a new master key out to the API first
  (`docs/RUNBOOK.md:58-63`): until the worker follows, good secrets saved
  meanwhile are judged invalid.
* `yc_scraper.py` says that it filters by role and location, but never calls its
  location filter; the one of `hn_scraper.py` knows few places.
* A mail with a link leaves before the commit of the link it carries
  (`auth_service.py:72`, `:154`, `account_service.py:81`).
* `list_matches` orders by score and creation time only, and the matches of one
  run share their creation time: two pages may repeat or skip a match.

**Why the bounds are enough.** A second mail takes two deliveries of one run,
and an excuse for it one failure: two jobs, two attempts and three failures
cover every pair of causes with one to spare. Losing a posting between runs
takes two runs and one posting. A schedule conflict takes two processes at one
profile, an abort that hurts another profile takes two profiles, and a date
that ends between two due minutes takes two dates. A pacing error shows at the
first token too many; the clock runs past the expiry of a bucket and past a
restart. The page needs one retry (two attempts), a stream that ends by timeout
before and after the second attempt (three polls) and at least two steps to
lose one or swap them. The matcher needs a batch that is full and one that is
short, a tie between resumes, and a score at the threshold. A leftover file
needs one failure or two requests; four failures let every request fail, be
repeated, and fail again. Resumes share nothing but the deletion of their
account, so one of them is enough there. A verdict on a replaced secret takes two
saves, and one on an earlier row a save, a deletion and another save; a mixed row
takes two upserts on either side of a rotation. Waiting behind an abandoned
thread takes two threads, a call that is abandoned and another run. Two tokens of
one login take two tabs, and a third token a rotation of either; a token that
outlives a change takes one change and one request beside it.

Deadlock is not checked: every one of these instances comes to rest when its
runs, minutes or requests are used up.

**Fairness.** Assumed is only what the code keeps doing on its own: the API goes
on with a request it began (`EnqueueRun`, `CancelWrite`, `Enqueue`); a free slot of the
worker takes the next job and each await in it ends, because scrapers, LLM and
database calls have time limits (`Work` in `RunExecution`, `Parse` in
`Documents`, `Check` in `Credentials`, `Advance` and the calls in `Engine`); a
scheduler that is up goes on with its tick; the refetch timer of the page fires
and its request is answered; a delete request that locked a row ends; the API
serves what a tab sent and the answer arrives; a tab refreshes whenever its page
is loaded or its access token runs out, whatever it does in between, which is
strong fairness of that one request. A scraper's time limit expires, and its
requests end, but for those of jobspy, to which nobody sets a limit. Nothing is
assumed of failures, of restarts, of the event stream, or of a tenant's clicks.

## 4. What is proved

The theorems hold for all values of the constants, under the named assumptions of
the modules (`NoRun` and `Unseen` are no runs, bounds are naturals, a bucket refills
within its expiry, a caller's clock is at most `MaxSkew` ahead, `NoProfile` is no
profile, a calendar gives each profile its due minutes and the date of every minute,
no resume is named `report`, a worker process has finitely many runs, `None` is no token, each setting of a
rollout has a key, and the next one has the key that it seals with; sources and
resumes are lists, the latter without repetition, percentages and keyword scores are
naturals, and `Nobody` is no match). Every inductive invariant below was checked by
TLC on the instance of its component before it was proved.

`RunExecutionProofs`:

* `TypesKept`: type correctness of the pipeline. Its inductive invariant
  `TypeInv` adds `JobsHaveRuns` (a job id in use belongs to a run whose row was
  inserted; a coroutine that is not under way holds nothing), without which the
  types of what a coroutine loads do not follow.
* `OpenRunsKeepAJob`: an open run has a request or a job, or its loss is
  recorded. Inductive with `TypeInv`.
* `PostingsAnnouncedByOneRun`: from `MailsListOwnRows`, which also speaks of the
  rows a coroutine is about to send: an insert never takes a row over, so the
  owner of a listed posting cannot change.
* `MailOnceWithoutFault`: from `Solitude` and `MailAccount`. `SoleExecution` says
  that without overlap an execution is alone with its run, and that no mail is
  recorded while it is; `MailIsRecorded` then accounts for a mail either in the
  row or in the one execution that is about to commit it. Neither is inductive
  alone.
* `SuccessIsAnnounced`: from `ReportIsComplete`, which follows the matches of a
  run from the query through the mail to the final status.
* `ContractImplemented`: each step of `RunExecution` maps to a step of
  `RunContract` or to a stutter, with `held` mapped to the runs that an
  execution or a cancel has in hand. `PickUp` is `TakeUp`, the commits are `Move`,
  `SaveResult` is `Record`, `SendMail` is `Announce`.

`EngineProofs`, on the engine, from one invariant `EngineInv`:

* The loops. `Deduplicated`, `Passed` and `BestIsFirst` say what `FirstOfEach`,
  `Passing` and `Best` return for every list: each new posting once; what passes, in
  order; the first of the candidates with the highest score. The induction behind
  them is a least counterexample (`Induction`, from the well-foundedness of the
  naturals), and `Recursion` gives a recursive function its values. Both speak of
  sets and functions and take no operator as a parameter.
* The batches. `BatchOf` and `BatchesApart` say that every new posting is at exactly
  one offset of exactly one batch of a resume, for any batch size, also if the last
  batch is short: the arithmetic of `(n - 1) \div BatchSize` and `%`.
* `EngineInvariance`: the calls are those of the deduplicated postings (`JobsFit`),
  what was said is what the answers say (`AnswersFit`), a call that is done without
  an answer has raised, and the run with it (`NoneLost`), and the result is made from
  a best match of each new posting (`ResultFits`; TLC checked it with the list that
  `Collect` makes in the place of its `\E list`). `EndCall` is the step that needs the
  batches: no other call has said anything of its postings to its resume.
* `ResultIsNew`, `BestReturned`, `SilenceReported`, `EngineTypes`: from the invariant
  and the lemmas on loops. `ResultIsNew` is what `RunExecution` assumes of its
  `RunEngine`. `CandidateSaid` shows on the way that the default score of a posting
  without an evaluation (`matching.py:142`) is never used.

`EngineProofs`, on the rate limiter, which each source of the engine asks first:

* `LimiterTypes`, `AccountKept`, `GrantsArePaced`: the account of a bucket. What was
  given away and the level at the latest clock that may have stamped it fit in
  one allowance: a burst per life of Redis, the refill since the start, and the
  refill of the clock difference. The second summand is what makes it inductive:
  a grant moves units from the level to the account, a tick adds as much to the
  allowance as to the level, and an expired bucket was full anyway
  (`ExpiryAssumption`).
* `WaitsAreEnough`: from `Promise`, that a caller asleep will find a token, at the
  clock it wakes by, in each of its buckets that is still there. `WaitRefills` is the
  arithmetic behind it: the wait is rounded up to whole ticks, and refilling for that
  many ticks covers what is missing. The rest are the ways in which a bucket can
  change under a sleeper: by a grant, which is excepted, or by becoming full, when it
  expires or Redis restarts.

`SchedulerProofs`:

* `SchedulerTypes`: type correctness, with `InHand` (a process past its lock has a
  profile in hand), without which a booking has no type.
* `BookingsEnqueuedOnce`: from `InsertedByOne`. A booking between its commit and
  its enqueue is in the hands of exactly one process and has no job yet, because
  the unique key of `runs` lets one insert through. The lock does not occur in
  the argument: it may expire at any time.
* `DueDaysBooked`: from `DueDaysAccounted`, which says where a due profile is on
  the way: its minute lies ahead, its tick is queued, a process that runs the tick
  in its minute still has the profile to do or in hand, it is booked, or it is
  excused. `Accounted` reduces a step to what it does to these; a step that ends a
  tick early excuses what it had not booked (`Unbooked`), and an insert that finds
  its key taken leaves the profile in hand booked, and one that finds the profile
  deleted speaks of no profile that stayed active.

`DocumentsProofs`, from one invariant `IInv`, whose part on resumes (`ResumeInv`) no
step of the report or of the profile touches:

* `ListedResumesWhole`: `LockInv` says that a parse and a delete never hold one
  row's lock at once and that a parse that holds it has a row to write to, so that
  it cannot bring back a resume that has gone; `FileInv` extends the property to
  resumes whose upload is about to commit; `ParseInv` says that a parse that may
  commit a second time was delivered again.
* `OrphansExplained`: `SweepInv` says that what is in the store behind the sweep of
  an account came late or was left, `UploadInv` that nothing is known of a resume
  before its upload commits, and `ReportInv` that a report in the store belongs to the
  execution that is about to commit its key, or has a cause, while its run is there
  and names none. `SweepExplains` is what a sweep does to the causes: it takes those
  of the files it removes, and gives one to each it leaves.
* `DocumentsTypes`: with the same invariant.

`SessionsProofs`, from one invariant that says what a request which has read and not
committed yet may rely on, although the rows have changed since (`RequestInv`), and
what two such requests have in common (`PairInv`):

* `RotationKeepsOneToken`: while a refresh is under way, its token is the only live
  one of its login (`OwnLogin`), or two refreshes of one token were past the check at
  once; and two refreshes of one login carry one token. A commit can then add a
  second live token to a login only as the twin of another.
* `CredentialsEndSessions`: a change that has written and not committed has every
  live token in its `revokes`, or the token was issued beside it (`WrittenInv`).
* `SuspensionLasts`: no commit but that of a verify_email which read the status
  earlier writes another one. `SessionsTypes`: with the invariant above, as the type
  of `forked` needs the login of a refresh to be known.
* `SessionsAreKept`: from `KeepInv`, which follows the one refresh that may be under
  way. Until it commits the cookie is live, then the token it inserted is, and once
  its answer has left the browser that token is the cookie. No other request of an
  undisturbed browser writes to the token, which `KindsInv` says of each kind.

`ScrapersProofs`:

* `CallsWaitBehindAbandoned`: a call that waits for a thread, or whose result nobody
  has taken, is awaited (`Expected`), and no run awaits two calls. The awaited
  running calls are therefore fewer than the runs, and the rest of the executor is
  taken by abandoned threads. `ScrapersTypes`: type correctness.
* `SourcesReturnAll`: from `OnItsWay`. A running call that somebody awaits stands at
  a search behind which all others were tried (`Asked`), and has kept each fitting
  posting it was told of (`Gathered`); an answer takes it to another page, to the next
  search or to its end. An abandoned thread is left out, as nobody takes its result.

`RunEventsProofs`, from one invariant `IInv`:

* `PageShowsAPrefix`: `FirstInv` says of the first attempt that the steps the browser
  has read, those on the wire and those the server is about to send follow each other
  without a gap, and that the server's count is the number it has put on the wire. It
  needs `StreamInv`: a done event is the last on the wire, and behind it the stream is
  closed, so that reading it leaves no step out of count.
* `StoppedPageShowsTheEnd`: `FinalInv` says that without a cancel whoever holds a
  terminal status (the stream, an answer on its way, the query cache) holds the one
  of the row. A fetch reads the row first and the steps after it, so that terminal
  answers have all steps.
* `TypeCorrect`: with the same invariant.

`CredentialsProofs`, from one invariant `IInv`, for any number of requests and any
sequence of settings:

* `StatusFits`. `VerdictInv` is its second half while requests are under way: the
  status is the verdict on the row, or somebody is about to make it so (`Pending`): a
  request that has yet to enqueue its check, a job in the queue, or a check that has
  judged this very content and will write another status than it loaded. The last
  condition is why a check that writes nothing cannot be counted on. `KeyInv` keeps
  the verdict from changing under a row when the worker restarts with other settings;
  it needs `RolloutInv`, that the API and the worker are one step of the rollout
  apart. `StatusInv` is the first half, with the key and the ciphertext of the row in
  agreement.
* `TypeCorrect`: with the same invariant, as a request that loaded nothing has no row to
  take an id from.

Only model-checked:

* All liveness (`OpenRunsSettle`, `BookingsAreEnqueued`, `PageCatchesUp`, `EngineEnds`,
  `UploadsSettle`, `VerdictsArrive`, `RunsGetThrough`, `DeadCookieGoes`), which is beyond
  the proof system.
* The two refuted claims, as a counterexample is a single behaviour.

## 5. What is left out

* In the pipeline: the counters of a run, `run_sources`, error texts; the deletion
  of a user during a run; an operator who sets a status by hand. Nothing the code
  does later depends on the first three.
* In the limiter: floating point, and the `min_delay_ms` pause, which touches no
  state. In the scheduler: the cron parser and daylight saving.
* In `RunEvents`: overlapping executions of the run and the deletion of its
  profile. Steps are ordered by their time stamp, which one execution takes in
  order.
* In `Engine`: the texts, skills and tallies.
* In `Scrapers`: the pauses between requests, the words of a query, and
  `serpapi_scraper.py`, which is registered nowhere.
* In `Documents`: linking a resume to a profile, a second report, and two executions
  of the run at once (they put the same key). The model's PostgreSQL rolls a failed transaction back as a whole and releases its
  locks.
* In `Credentials`: encryption, the labels and texts of the row, and the settings
  page. Sites do not meet, so there is one of them.
* In `Sessions`: passwords, addresses, roles and plans, the texts of the mails. An
  access token carries no state: a tab has one or has none, and every request
  looks the user up (`get_current_user`). A new password, a deletion and a suspension
  are checked when their turn at the users row has come: an earlier check could only
  let them pass in spite of a suspension in between. One user is enough, as no
  statement touches the rows of two.
* Not modelled: formatting (reports, mails), ciphers, hashes and signatures,
  read-only queries (dashboard, match lists), the editing of a job profile, the
  pages of the web application other than the run page, migrations and scripts.

## 6. Plan

Done in this order: `RunContract` and `RunExecution` (the core), `Scheduler`,
`RateLimiter`, the proofs of the first and the third, `RunEvents`, `Engine`,
`Documents`, `Credentials`, `Sessions`, `Scrapers`, the rotation of the master key,
the parse rows of a resume, the proofs of `Scheduler`, `Documents`, `Sessions`,
`Scrapers`, `RunEvents` and `Credentials`, of the waits of `RateLimiter`, and of
`Engine` with its loops and batches. To follow:

1. An abstract specification of a session (live or over, and over for good) with
   the token table as its implementation, and the proof of the refinement.
2. A composition of `Scheduler` and `RunExecution` over one queue, for the jobs the
   two processes take from each other.
