-------------------------------- MODULE Engine --------------------------------
(***************************************************************************)
(* run_engine: the sources are scraped one after the other, the postings   *)
(* deduplicated against the tenant's known ones, and what is new is scored *)
(* against every resume by concurrent LLM calls, a batch of postings each, *)
(* of which the best score per posting counts.  A posting stands for its   *)
(* external_hash.  RunExecution takes the result of a whole run_engine in  *)
(* one step; here is what that step is made of.                            *)
(***************************************************************************)
EXTENDS Naturals, Sequences, SequencesExt, FiniteSets

CONSTANTS
  Postings,        \* what the sites list
  Sources,         \* enabled_sources, in order
  Resumes,         \* the parsed resumes of the profile, in order
  Percentages,     \* the match_percentage an answer may give
  Keyword,         \* the keyword score, per resume and posting
  Threshold,       \* min_match_percent
  Watchlist,       \* the postings of watchlist companies, which pass at any score
  BatchSize, MaxConcurrency,
  MaxFound,        \* bound on the postings of one source
  Nobody           \* no candidate yet

ASSUME EngineAssumption == /\ BatchSize \in Nat \ {0} /\ MaxConcurrency \in Nat \ {0}
                           /\ MaxFound \in Nat /\ Threshold \in Nat /\ Percentages \subseteq Nat
                           /\ Watchlist \subseteq Postings
ASSUME OrderAssumption == /\ Sources \in Seq(Range(Sources)) /\ Resumes \in Seq(Range(Resumes))
                          /\ IsInjective(Resumes)
ASSUME KeywordAssumption == Keyword \in [Range(Resumes) -> [Postings -> Nat]]

VARIABLES
  known,      \* the known hashes build_input loaded
  outcome,    \* of run_engine: "running", "returned" or "raised"
  perSource,  \* result.per_source, as far as the loop has got
  allJobs,    \* what the sources returned so far
  newJobs,    \* after the dedupe
  stage,      \* "scrape", "dedupe", "match" or "report"
  call,       \* the run_batch coroutines: waiting for the semaphore, flying, done
  answer,     \* what each of them returned, by the offset in its batch
  matched, degraded,
  said        \* what each resume was given for each posting (history)

resultVars == <<newJobs, matched, degraded>>
matchVars  == <<call, answer, said>>
engineVars == <<known, outcome, perSource, allJobs, stage, resultVars, matchVars>>

Running == outcome = "running"

\* The scores: a percentage, and whether it is the keyword fallback.  Mutation:
\* a skill found in title and description counts twice, without a cap.
ByKeywordTwice(r, p) == [pct |-> 2 * Keyword[r][p], fallback |-> TRUE]
ByKeyword(r, p) == [pct |-> Keyword[r][p], fallback |-> TRUE]
Score == [pct: Percentages \cup UNION {Range(Keyword[r]) : r \in Range(Resumes)},
          fallback: BOOLEAN]
Match == [posting: Postings, resume: Range(Resumes), score: Score]
ASSUME NobodyAssumption == Nobody \notin Match

EngineTypeOK ==
  /\ known \subseteq Postings
  /\ outcome \in {"running", "returned", "raised"}
  /\ perSource \in Seq({"ok", "failed", "skipped", "unknown"}) /\ Len(perSource) <= Len(Sources)
  /\ allJobs \in Seq(Postings) /\ newJobs \in Seq(Postings)
  /\ stage \in {"scrape", "dedupe", "match", "report"}
  /\ Range(call) \subseteq {"waiting", "flying", "done"}
  /\ \A t \in DOMAIN answer : answer[t] \in [1..Len(answer[t]) -> Score]
  /\ matched \in Seq(Match) /\ degraded \in BOOLEAN

EngineInit ==
  /\ known \in SUBSET Postings
  /\ outcome = "running" /\ stage = "scrape" /\ perSource = <<>>
  /\ allJobs = <<>> /\ newJobs = <<>>
  /\ call = <<>> /\ answer = <<>> /\ said = <<>>
  /\ matched = <<>> /\ degraded = FALSE

-----------------------------------------------------------------------------
(* Scrape and dedupe *)

NextSource(result) == perSource' = Append(perSource, result)

\* The rate limiter, the scraper with its timeout, and what it found.
Scrape ==
  /\ Running /\ stage = "scrape" /\ Len(perSource) < Len(Sources)
  /\ \E found \in SeqOf(Postings, MaxFound) : allJobs' = allJobs \o found
  /\ NextSource("ok")
  /\ UNCHANGED <<known, outcome, stage, resultVars, matchVars>>

\* A source that fails does not end the run.  If it is its "succeeded" step
\* that fails, its postings are already in.
ScrapeFails ==
  /\ Running /\ stage = "scrape" /\ Len(perSource) < Len(Sources)
  /\ \E found \in SeqOf(Postings, MaxFound) : allJobs' \in {allJobs, allJobs \o found}
  /\ NextSource("failed")
  /\ UNCHANGED <<known, outcome, stage, resultVars, matchVars>>

\* A source nobody knows, or one the profile did not opt in to.
SkipSource ==
  /\ Running /\ stage = "scrape" /\ Len(perSource) < Len(Sources)
  /\ \E result \in {"unknown", "skipped"} : NextSource(result)
  /\ UNCHANGED <<known, outcome, allJobs, stage, resultVars, matchVars>>

EndScrape ==
  /\ Running /\ stage = "scrape" /\ Len(perSource) = Len(Sources)
  /\ stage' = "dedupe"
  /\ UNCHANGED <<known, outcome, perSource, allJobs, resultVars, matchVars>>

\* The first of each hash that is not known.  Mutation: seen_now forgotten.
FirstOfEachKnownOnly(jobs) == SelectSeq(jobs, LAMBDA p : p \notin known)
FirstOfEach(jobs) ==
  LET kept[n \in 0..Len(jobs)] ==
        IF n = 0 THEN <<>>
        ELSE IF jobs[n] \in known \cup Range(kept[n - 1]) THEN kept[n - 1]
        ELSE Append(kept[n - 1], jobs[n])
  IN  kept[Len(jobs)]

\* The calls of batch_match: every resume with every batch.
Starts(jobs) == {s \in 0..(Len(jobs) - 1) : s % BatchSize = 0}
Tasks(jobs)  == Range(Resumes) \X Starts(jobs)

Dedupe ==
  /\ Running /\ stage = "dedupe"
  /\ newJobs' = FirstOfEach(allJobs)
  /\ stage' = "match"
  /\ call' = [t \in Tasks(newJobs') |-> "waiting"]
  /\ UNCHANGED <<known, outcome, perSource, allJobs, matched, degraded, answer, said>>

-----------------------------------------------------------------------------
(* batch_match.  Its coroutines live on when gather has raised. *)

\* async with sem: a call holds a permit until it returns or raises.  Mutation:
\* the permit is never given back.
PermitsNeverReleased == {t \in DOMAIN call : call[t] # "waiting"}
PermitsTaken == {t \in DOMAIN call : call[t] = "flying"}

StartCall(t) ==
  /\ call[t] = "waiting" /\ Cardinality(PermitsTaken) < MaxConcurrency
  /\ call' = [call EXCEPT ![t] = "flying"]
  /\ UNCHANGED <<known, outcome, perSource, allJobs, stage, resultVars, answer, said>>

Batch(t) == SubSeq(newJobs, t[2] + 1, IF t[2] + BatchSize < Len(newJobs)
                                      THEN t[2] + BatchSize ELSE Len(newJobs))

\* What _extract_json makes of the model's text for n postings: an evaluation or
\* none for each; text without JSON is {}, as is a call that failed.
Replies(n) ==
  [1..n -> {[pct |-> x, fallback |-> FALSE] : x \in Percentages} \cup {Nobody}]

\* _score_batch returns: the model's score of a posting, or the keyword score
\* where the reply has none.
EndCall(t) ==
  /\ call[t] = "flying"
  /\ \E reply \in Replies(Len(Batch(t))) :
       LET given == [i \in DOMAIN reply |->
                       IF reply[i] = Nobody THEN ByKeyword(t[1], Batch(t)[i]) ELSE reply[i]]
       IN  /\ answer' = [u \in DOMAIN answer \cup {t} |-> IF u = t THEN given ELSE answer[u]]
           /\ said' = [x \in DOMAIN said \cup {<<t[1], p>> : p \in Range(Batch(t))} |->
                         IF x \in DOMAIN said THEN said[x]
                         ELSE given[CHOOSE i \in DOMAIN given : Batch(t)[i] = x[2]]]
  /\ call' = [call EXCEPT ![t] = "done"]
  /\ UNCHANGED <<known, outcome, perSource, allJobs, stage, resultVars>>

\* An answer that is JSON but not of the asked shape raises, and gather with it
\* (or batch_match after it, where StepFails stands for it).
Malformed(t) ==
  /\ call[t] = "flying"
  /\ call' = [call EXCEPT ![t] = "done"]
  /\ outcome' = IF Running THEN "raised" ELSE outcome
  /\ UNCHANGED <<known, perSource, allJobs, stage, resultVars, answer, said>>

\* Where the score of the posting at index n (from 1) is in its batch.
Offset(n) == ((n - 1) % BatchSize) + 1

Candidate(r, n) ==
  LET scores == answer[<<r, ((n - 1) \div BatchSize) * BatchSize>>]
  IN  [posting |-> newJobs[n], resume |-> r,
       score   |-> IF Offset(n) \in DOMAIN scores THEN scores[Offset(n)]
                                                  ELSE [pct |-> 0, fallback |-> FALSE]]

\* A candidate replaces the best one so far.  Mutation: on a tie too.
BetterOrEqual(best, c) == best = Nobody \/ c.score.pct >= best.score.pct
Better(best, c) == best = Nobody \/ c.score.pct > best.score.pct

\* The results in the order of the tasks, whatever order they came in.
Best(n) ==
  LET best[k \in 0..Len(Resumes)] ==
        IF k = 0 THEN Nobody
        ELSE IF Better(best[k - 1], Candidate(Resumes[k], n)) THEN Candidate(Resumes[k], n)
        ELSE best[k - 1]
  IN  best[Len(Resumes)]

\* The postings that make it.
Passes(m) == m.score.pct >= Threshold \/ m.posting \in Watchlist
Passing(scored) ==
  LET kept[n \in 0..Len(scored)] ==
        IF n = 0 THEN <<>>
        ELSE IF Passes(scored[n]) THEN Append(kept[n - 1], scored[n])
        ELSE kept[n - 1]
  IN  kept[Len(scored)]

\* ai_degraded looks at all scored postings.  Mutation: at those that made it.
DegradedOfMatched(best) ==
  Passing(best) # <<>> /\ \A n \in DOMAIN Passing(best) : Passing(best)[n].score.fallback
Degraded(best) == best # <<>> /\ \A n \in DOMAIN best : best[n].score.fallback

\* gather is done.  Without a resume batch_match is not called.
Collect ==
  LET best == IF Resumes = <<>> THEN <<>> ELSE [n \in 1..Len(newJobs) |-> Best(n)] IN
  /\ Running /\ stage = "match"
  /\ \A t \in DOMAIN call : call[t] = "done"
  /\ matched' = Passing(best)
  /\ degraded' = Degraded(best)
  /\ stage' = "report"
  /\ UNCHANGED <<known, outcome, perSource, allJobs, newJobs, matchVars>>

ReturnResult ==
  /\ Running /\ stage = "report"
  /\ outcome' = "returned"
  /\ UNCHANGED <<known, perSource, allJobs, stage, resultVars, matchVars>>

\* on_step fails outside the source loop's try, or what comes between fails.
StepFails ==
  /\ Running
  /\ outcome' = "raised"
  /\ UNCHANGED <<known, perSource, allJobs, stage, resultVars, matchVars>>

-----------------------------------------------------------------------------
Calls(t) == StartCall(t) \/ EndCall(t) \/ Malformed(t)
Advance  == Scrape \/ ScrapeFails \/ SkipSource \/ EndScrape \/ Dedupe \/ Collect \/ ReturnResult

EngineNext == Advance \/ StepFails \/ \E t \in DOMAIN call : Calls(t)

EngineSpec == EngineInit /\ [][EngineNext]_engineVars

\* Every await of the engine ends: scrapers and LLM calls have a timeout.
Fairness == WF_engineVars(Advance) /\ WF_engineVars(\E t \in DOMAIN call : Calls(t))
FairSpec == EngineSpec /\ Fairness

-----------------------------------------------------------------------------
(* Properties *)

\* A result lists a posting once, and none the tenant was told of before:
\* what RunExecution takes run_engine to return.
MatchesAreNew ==
  /\ IsInjective([i \in DOMAIN matched |-> matched[i].posting])
  /\ \A i \in DOMAIN matched : matched[i].posting \in Range(allJobs) \ known

\* Every match carries the highest score its posting was given, and of several
\* resumes with that score the first, whatever the batches and whichever call
\* came back first; and no posting is dropped that is new and good enough for
\* one of the resumes, or of a company the tenant watches.
BestOf(m) ==
  /\ m.score = said[<<m.resume, m.posting>>]
  /\ \A k \in DOMAIN Resumes :
       /\ said[<<Resumes[k], m.posting>>].pct <= m.score.pct
       /\ said[<<Resumes[k], m.posting>>].pct = m.score.pct
            => \E l \in 1..k : Resumes[l] = m.resume
GoodEnough(p) ==
  \E r \in Range(Resumes) : said[<<r, p>>].pct >= Threshold \/ p \in Watchlist
BestMatchesReturned ==
  /\ \A i \in DOMAIN matched : BestOf(matched[i])
  /\ outcome = "returned" =>
       \A p \in Range(allJobs) \ known :
         GoodEnough(p) => \E i \in DOMAIN matched : matched[i].posting = p

\* A run whose new postings got no answer at all is reported as degraded,
\* instead of as a day without matches.
SilenceIsReported ==
  outcome = "returned" /\ said # <<>> /\ (\A x \in DOMAIN said : said[x].fallback) => degraded

\* run_engine ends, and none of its calls goes on for ever, also those it left
\* behind when one of them raised.
EngineEnds == <>(outcome # "running" /\ \A t \in DOMAIN call : call[t] = "done")
=============================================================================
