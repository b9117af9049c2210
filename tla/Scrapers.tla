------------------------------ MODULE Scrapers ------------------------------
(***************************************************************************)
(* The scrapers, as the runs of one worker process call them.  A run calls *)
(* its sources one after the other.  The adapter of a source starts a      *)
(* blocking function in a thread of the process's one executor and waits   *)
(* for it with a time limit.  The limit ends the waiting, not the thread:  *)
(* it goes on with its requests, and keeps its place in the executor.      *)
(* Engine takes what a source returns in one step; here is what that step  *)
(* is made of.                                                             *)
(***************************************************************************)
EXTENDS Naturals, Sequences, FiniteSets

CONSTANTS
  Plan,        \* the sources each run calls, in order
  Postings,    \* what the sites list
  NamesRole,   \* postings that name one of the profile's roles
  NamesPlace,  \* postings that name one of its places, as hn_scraper looks for them
  Url,         \* the apply_url of each posting, which may be empty
  Queries,     \* searches of a profile: roles by locations, or roles
  MaxPages,    \* pages wellfound asks for at most
  Comments,    \* comments of the hiring thread
  PoolSize     \* threads of the default executor

Runs  == DOMAIN Plan
Kinds == {"jobspy", "wellfound", "yc", "hackernews"}

ASSUME PlanAssumption == IsFiniteSet(Runs) /\ \A r \in Runs : Plan[r] \in Seq(Kinds)
ASSUME PostingsAssumption == NamesRole \subseteq Postings /\ NamesPlace \subseteq Postings
ASSUME BoundsAssumption == {Queries, MaxPages, Comments, PoolSize} \subseteq Nat \ {0}

VARIABLES
  turn,     \* the source each run has called last
  waiting,  \* the runs that wait for it
  thread    \* the thread of each call

vars == <<turn, waiting, thread>>

-----------------------------------------------------------------------------
(* Types *)

Calls   == UNION {{<<r, i>> : i \in DOMAIN Plan[r]} : r \in Runs}
Kind(c) == Plan[c[1]][c[2]]

\* A request is the page g of a search q.  Search 0 of hackernews looks for the
\* thread and reads it; page MaxPages of wellfound is the public jobs page.
Requests == (0..Queries \cup 0..Comments) \X (0..MaxPages)
Nowhere  == <<0, 0>>
End      == <<0, 1>>

\* at is the request a thread makes next; tried, told and found are what its
\* call will have asked, been answered and kept.
Thread == [pc: {"none", "queued", "running", "ended", "raised", "gone"}, at: Requests,
           tried: SUBSET Requests, told: SUBSET Postings, found: SUBSET Postings]
NoThread == [pc |-> "none", at |-> Nowhere, tried |-> {}, told |-> {}, found |-> {}]
Gone     == [NoThread EXCEPT !.pc = "gone"]

TypeOK ==
  /\ turn \in [Runs -> Nat] /\ \A r \in Runs : turn[r] <= Len(Plan[r])
  /\ waiting \subseteq Runs
  /\ thread \in [Calls -> Thread]

Init ==
  /\ turn = [r \in Runs |-> 0] /\ waiting = {}
  /\ thread = [c \in Calls |-> NoThread]

-----------------------------------------------------------------------------
(* The executor *)

\* The threads that are taken.  Mutation: one that is done stays taken.
RunningForGood == {c \in Calls : thread[c].pc \in {"running", "ended", "raised", "gone"}}
Running    == {c \in Calls : thread[c].pc = "running"}
Awaited(c) == c[1] \in waiting /\ turn[c[1]] = c[2]
\* Threads nobody waits for any more.
Abandoned  == {c \in Calls : thread[c].pc = "running" /\ ~Awaited(c)}

\* asyncio.to_thread, within wait_for.
Call(r) ==
  LET c == <<r, turn[r] + 1>> IN
  /\ r \notin waiting /\ turn[r] < Len(Plan[r])
  /\ turn' = [turn EXCEPT ![r] = @ + 1]
  /\ waiting' = waiting \cup {r}
  /\ thread' = [thread EXCEPT ![c].pc = "queued"]

\* A thread is free for the call.  python-jobspy is an optional package: without
\* it scrape_jobspy asks nobody and returns nothing.
Start(c) ==
  /\ thread[c].pc = "queued" /\ Cardinality(Running) < PoolSize
  /\ \E at \in {<<1, 0>>, Nowhere, End} :
       /\ at = Nowhere <=> Kind(c) = "hackernews"
       /\ at = End => Kind(c) = "jobspy"
       /\ thread' = [thread EXCEPT ![c].pc = "running", ![c].at = at]
  /\ UNCHANGED <<turn, waiting>>

\* The function has returned or raised, and the adapter with it.
Return(c) ==
  /\ Awaited(c) /\ thread[c].pc \in {"ended", "raised"}
  /\ waiting' = waiting \ {c[1]}
  /\ thread' = [thread EXCEPT ![c] = Gone]
  /\ UNCHANGED turn

\* Mutation: the time limit waits for the thread it cannot stop.
TimeOutAfterThread(c) ==
  /\ Awaited(c) /\ c \notin Running
  /\ waiting' = waiting \ {c[1]}
  /\ thread' = [thread EXCEPT ![c] = Gone]
  /\ UNCHANGED turn
\* timeout_s is over: a call that still waits for a thread is withdrawn, a
\* running one left to itself, and the source has failed.
TimeOut(c) ==
  /\ Awaited(c)
  /\ waiting' = waiting \ {c[1]}
  /\ thread' = [thread EXCEPT ![c] =
       IF c \in Running THEN [NoThread EXCEPT !.pc = "running", !.at = thread[c].at] ELSE Gone]
  /\ UNCHANGED turn

-----------------------------------------------------------------------------
(* The requests of a thread *)

\* The next query, if there is one.
Searches(kind) ==
  CASE kind = "hackernews" -> Comments
    [] kind = "yc" -> 1
    [] OTHER -> Queries
\* Mutation: one search too many.
NextQueryPastEnd(kind, q) == IF q <= Searches(kind) THEN <<q + 1, 0>> ELSE End
NextQuery(kind, q) == IF q < Searches(kind) THEN <<q + 1, 0>> ELSE End

\* scrape_wellfound: pages until one is empty or fails, and the public page if
\* the first was.  Mutation: the first query without hits ends the scrape.
AfterPageGivesUp(q, g, hits) ==
  IF hits = {} /\ g = 0 THEN End
  ELSE IF hits # {} /\ g + 1 < MaxPages THEN <<q, g + 1>> ELSE NextQuery("wellfound", q)
AfterPage(q, g, hits) ==
  IF hits = {} /\ g = 0 THEN <<q, MaxPages>>
  ELSE IF hits # {} /\ g + 1 < MaxPages THEN <<q, g + 1>> ELSE NextQuery("wellfound", q)

At(c, kind) == thread[c].pc = "running" /\ Kind(c) = kind /\ thread[c].at[1] # 0

\* An answer with these hits, of which the scraper keeps some; what it asks next.
Answered(c, hits, kept, next) ==
  LET t   == thread[c]
      now == [t EXCEPT !.at = next, !.tried = @ \cup {t.at}, !.told = @ \cup hits,
                       !.found = @ \cup kept]
  IN /\ thread' = [thread EXCEPT ![c] = IF Awaited(c) THEN now ELSE [t EXCEPT !.at = next]]
     /\ UNCHANGED <<turn, waiting>>

\* The requests.  An error and an empty answer are the same to all scrapers: they
\* log it and go on.
AskJobspy(c) ==
  /\ At(c, "jobspy")
  /\ \E hits \in SUBSET Postings : Answered(c, hits, hits, NextQuery("jobspy", thread[c].at[1]))

AskWellfound(c) ==
  LET q == thread[c].at[1]  g == thread[c].at[2] IN
  /\ At(c, "wellfound") /\ g < MaxPages
  /\ \E hits \in SUBSET Postings : Answered(c, hits, hits, AfterPage(q, g, hits))

AskPublicPage(c) ==
  /\ At(c, "wellfound") /\ thread[c].at[2] = MaxPages
  /\ \E hits \in SUBSET Postings : Answered(c, hits, hits, NextQuery("wellfound", thread[c].at[1]))

\* All jobs at once; those whose title names a role are kept.
AskYc(c) ==
  /\ At(c, "yc")
  /\ \E hits \in SUBSET Postings : Answered(c, hits, hits \cap NamesRole, End)

\* A comment is one posting or none; it has to name a role and a place.
MatchesRoleAndLocation(p) == p \in NamesRole \cap NamesPlace
AskComment(c) ==
  /\ At(c, "hackernews")
  /\ \E hits \in {{}} \cup {{p} : p \in Postings} :
       Answered(c, hits, {p \in hits : MatchesRoleAndLocation(p)},
                NextQuery("hackernews", thread[c].at[1]))

\* An exception no try of the scraper catches ends its thread.
Raise(c) ==
  thread' = [thread EXCEPT ![c] = IF Awaited(c) THEN [Gone EXCEPT !.pc = "raised"] ELSE Gone]

\* An answer of another shape than wellfound and yc parse: that happens outside
\* their try, and takes what earlier searches found with it.
Malformed(c) ==
  /\ At(c, "yc") \/ (At(c, "wellfound") /\ thread[c].at[2] < MaxPages)
  /\ Raise(c)
  /\ UNCHANGED <<turn, waiting>>

\* scrape_hn_hiring finds the thread and reads it, the search for it and the
\* look at what it contains outside a try.  Without a thread it returns nothing.
AskThread(c) ==
  /\ thread[c].pc = "running" /\ thread[c].at = Nowhere
  /\ \/ \E at \in {<<1, 0>>, End} : thread' = [thread EXCEPT ![c].at = at]
     \/ Raise(c)
  /\ UNCHANGED <<turn, waiting>>

\* What jobspy_scraper returns: one posting for each URL, the first it saw; an
\* empty URL is one of them.
OnePerUrl(found) ==
  {S \in SUBSET found : /\ \A p \in found : \E q \in S : Url[q] = Url[p]
                        /\ \A p, q \in S : Url[p] = Url[q] => p = q}
Result(c) == IF Kind(c) = "jobspy" THEN OnePerUrl(thread[c].found) ELSE {thread[c].found}

\* The function returns; the thread is free for another call.
Finish(c) ==
  LET t == thread[c] IN
  /\ t.pc = "running" /\ t.at = End
  /\ \E result \in Result(c) :
       thread' = [thread EXCEPT ![c] = IF Awaited(c) THEN [t EXCEPT !.pc = "ended", !.found = result]
                                                     ELSE Gone]
  /\ UNCHANGED <<turn, waiting>>

-----------------------------------------------------------------------------
(* The specification *)

Ask(c) == AskJobspy(c) \/ AskWellfound(c) \/ AskPublicPage(c) \/ AskYc(c)
          \/ AskThread(c) \/ AskComment(c)
Go(c)  == Start(c) \/ Ask(c) \/ Malformed(c) \/ Finish(c)

Next ==
  \/ \E r \in Runs : Call(r)
  \/ \E c \in Calls : Return(c) \/ TimeOut(c) \/ Go(c)

Spec == Init /\ [][Next]_vars

\* The event loop goes on, and requests of the scrapers end, but for those of
\* jobspy, to which nobody sets a time limit.
Fairness ==
  /\ \A r \in Runs : WF_vars(Call(r))
  /\ \A c \in Calls : WF_vars(Return(c)) /\ WF_vars(TimeOut(c))
  /\ \A c \in Calls : Kind(c) # "jobspy" => WF_vars(Go(c))
FairSpec == Spec /\ Fairness

-----------------------------------------------------------------------------
(* Properties *)

\* A source that returns has tried every search of its profile (every comment of
\* a thread it could read), whichever of its requests failed, or none, for want
\* of the thread or of the package; and it returns every fitting posting it was
\* told of, but for several that jobspy lists under one URL.
Fits(kind, p) ==
  CASE kind = "hackernews" -> MatchesRoleAndLocation(p)
    [] kind = "yc" -> p \in NamesRole
    [] OTHER -> TRUE
ReturnIsComplete ==
  \A c \in Calls : thread[c].pc = "ended" =>
    /\ \/ \A q \in 1..Searches(Kind(c)) : <<q, 0>> \in thread[c].tried
       \/ Kind(c) \in {"hackernews", "jobspy"} /\ thread[c].tried = {}
    /\ \A p \in thread[c].told : Fits(Kind(c), p) =>
         \E q \in thread[c].found : q = p \/ (Kind(c) = "jobspy" /\ Url[q] = Url[p])

\* A call waits for a thread only behind threads that were left to themselves,
\* as long as the process has no more runs than threads.
WaitsBehindAbandoned ==
  \A c \in Calls : thread[c].pc = "queued" /\ Cardinality(Running) >= PoolSize
    => Cardinality(Abandoned) >= PoolSize + 1 - Cardinality(Runs)

\* Every run gets through its sources, also behind requests that never end.
RunsGetThrough == \A r \in Runs : <>(turn[r] = Len(Plan[r]) /\ r \notin waiting)
=============================================================================
