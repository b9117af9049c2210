---------------------------- MODULE ScrapersProofs ----------------------------
(***************************************************************************)
(* What holds of the threads of a worker process for every number of runs, *)
(* sources, threads, searches and postings.                                *)
(***************************************************************************)
EXTENDS Scrapers, FiniteSetTheorems, TLAPS

-----------------------------------------------------------------------------
(* Calls *)

LEMMA CallsArePairs ==
  /\ \A c \in Calls : c = <<c[1], c[2]>> /\ c[1] \in Runs /\ c[2] \in DOMAIN Plan[c[1]]
  /\ \A r \in Runs : \A i \in DOMAIN Plan[r] : <<r, i>> \in Calls
  BY DEF Calls

LEMMA KindType == \A c \in Calls : Kind(c) \in Kinds
<1> SUFFICES ASSUME NEW c \in Calls PROVE Kind(c) \in Kinds
  OBVIOUS
<1>1. Plan[c[1]] \in Seq(Kinds) /\ c[2] \in DOMAIN Plan[c[1]]
  BY CallsArePairs, PlanAssumption
<1>2. QED
  BY <1>1 DEF Kind

\* No run makes two calls at a time.
LEMMA OneAwaited ==
  ASSUME NEW c \in Calls, NEW d \in Calls, Awaited(c), Awaited(d), c[1] = d[1]
  PROVE  c = d
  BY CallsArePairs DEF Awaited

LEMMA CallsAreFinite == IsFiniteSet(Calls)
<1> DEFINE Of(r) == {<<r, i>> : i \in DOMAIN Plan[r]}
           f == [r \in Runs |-> Of(r)]
<1>1. ASSUME NEW r \in Runs PROVE IsFiniteSet(Of(r))
  <2> DEFINE g == [i \in DOMAIN Plan[r] |-> <<r, i>>]
  <2>1. g \in Surjection(DOMAIN Plan[r], Of(r))
    BY DEF Surjection
  <2>2. Len(Plan[r]) \in Nat /\ DOMAIN Plan[r] = 1..Len(Plan[r])
    BY PlanAssumption
  <2>3. IsFiniteSet(DOMAIN Plan[r])
    BY <2>2, FS_Interval
  <2>4. QED
    BY <2>1, <2>3, FS_Surjection
<1>2. f \in Surjection(Runs, {Of(r) : r \in Runs})
  BY DEF Surjection
<1>3. IsFiniteSet({Of(r) : r \in Runs})
  BY <1>2, PlanAssumption, FS_Surjection
<1>4. QED
  BY <1>1, <1>3, FS_UNION DEF Calls

-----------------------------------------------------------------------------
(* Types *)

LEMMA RequestTypes ==
  /\ Nowhere \in Requests /\ End \in Requests /\ <<1, 0>> \in Requests
  /\ NoThread \in Thread /\ Gone \in Thread /\ Gone.pc = "gone"
  /\ [Gone EXCEPT !.pc = "raised"] \in Thread
<1>1. Nowhere \in Requests /\ End \in Requests /\ <<1, 0>> \in Requests
  BY BoundsAssumption DEF Requests, Nowhere, End
<1>2. QED
  BY <1>1 DEF NoThread, Thread, Gone

LEMMA NextQueryType ==
  ASSUME NEW kind \in Kinds, NEW q \in Nat
  PROVE  NextQuery(kind, q) \in Requests
<1>1. Searches(kind) \in Nat /\ (Searches(kind) <= Queries \/ Searches(kind) = Comments)
  BY BoundsAssumption DEF Searches, Kinds
<1>2. CASE q < Searches(kind)
  <2>1. q + 1 \in 0..Queries \cup 0..Comments /\ 0 \in 0..MaxPages
    BY <1>1, <1>2, BoundsAssumption
  <2>2. QED
    BY <1>2, <2>1 DEF NextQuery, Requests
<1>3. CASE ~(q < Searches(kind))
  BY <1>3, RequestTypes DEF NextQuery
<1>4. QED
  BY <1>2, <1>3

LEMMA AtType ==
  ASSUME TypeOK, NEW c \in Calls
  PROVE  /\ thread[c] \in Thread /\ thread[c].at \in Requests
         /\ thread[c].at[1] \in 0..Queries \cup 0..Comments
         /\ thread[c].at[1] \in Nat /\ thread[c].at[2] \in 0..MaxPages
  BY BoundsAssumption DEF TypeOK, Thread, Requests

LEMMA AfterPageType ==
  ASSUME NEW q \in 0..Queries \cup 0..Comments, NEW g \in 0..MaxPages, NEW hits
  PROVE  AfterPage(q, g, hits) \in Requests
<1>1. q \in Nat /\ MaxPages \in 0..MaxPages
  BY BoundsAssumption
<1>2. NextQuery("wellfound", q) \in Requests
  BY <1>1, NextQueryType DEF Kinds
<1>3. g + 1 < MaxPages => g + 1 \in 0..MaxPages
  BY BoundsAssumption
<1>4. QED
  BY <1>1, <1>2, <1>3 DEF AfterPage, Requests

\* A thread that goes on: awaited or not, its new state.
LEMMA AnsweredType ==
  ASSUME TypeOK, NEW c \in Calls, NEW hits \in SUBSET Postings, NEW kept \in SUBSET Postings,
         NEW next \in Requests, Answered(c, hits, kept, next)
  PROVE  thread' \in [Calls -> Thread]
<1>1. thread[c] \in Thread /\ thread[c].at \in Requests
  BY AtType
<1>2. [thread[c] EXCEPT !.at = next] \in Thread
  BY <1>1 DEF Thread
<1>3. [thread[c] EXCEPT !.at = next, !.tried = @ \cup {thread[c].at}, !.told = @ \cup hits,
                        !.found = @ \cup kept] \in Thread
  BY <1>1 DEF Thread
<1>4. QED
  BY <1>2, <1>3 DEF Answered, TypeOK

LEMMA AskType ==
  ASSUME TypeOK, NEW c \in Calls, Ask(c)
  PROVE  thread' \in [Calls -> Thread] /\ UNCHANGED <<turn, waiting>>
<1> DEFINE q == thread[c].at[1]
           g == thread[c].at[2]
<1>1. q \in Nat /\ q \in 0..Queries \cup 0..Comments /\ g \in 0..MaxPages /\ Kind(c) \in Kinds
  BY AtType, KindType
<1>2. NextQuery(Kind(c), q) \in Requests /\ End \in Requests
  BY <1>1, NextQueryType, RequestTypes
<1>3. \A hits : AfterPage(q, g, hits) \in Requests
  BY <1>1, AfterPageType
<1>4. CASE AskJobspy(c)
  BY <1>2, <1>4, AnsweredType DEF AskJobspy, At, Answered
<1>5. CASE AskWellfound(c)
  BY <1>3, <1>5, AnsweredType DEF AskWellfound, Answered
<1>6. CASE AskPublicPage(c)
  BY <1>2, <1>6, AnsweredType DEF AskPublicPage, At, Answered
<1>7. CASE AskYc(c)
  <2>1. PICK hits \in SUBSET Postings : Answered(c, hits, hits \cap NamesRole, End)
    BY <1>7 DEF AskYc
  <2>2. hits \cap NamesRole \in SUBSET Postings
    OBVIOUS
  <2>3. QED
    BY <1>2, <2>1, <2>2, AnsweredType DEF Answered
<1>8. CASE AskComment(c)
  <2>1. PICK hits \in {{}} \cup {{p} : p \in Postings} :
               Answered(c, hits, {p \in hits : MatchesRoleAndLocation(p)}, NextQuery("hackernews", q))
    BY <1>8 DEF AskComment
  <2>2. hits \in SUBSET Postings /\ {p \in hits : MatchesRoleAndLocation(p)} \in SUBSET Postings
    BY <2>1
  <2>3. Kind(c) = "hackernews"
    BY <1>8 DEF AskComment, At
  <2>4. QED
    BY <1>2, <2>1, <2>2, <2>3, AnsweredType DEF Answered
<1>9. CASE AskThread(c)
  <2>1. \A at \in {<<1, 0>>, End} : [thread[c] EXCEPT !.at = at] \in Thread
    BY AtType, RequestTypes DEF Thread
  <2>2. QED
    BY <1>9, <2>1, RequestTypes DEF AskThread, Raise, TypeOK
<1>10. QED
  BY <1>4, <1>5, <1>6, <1>7, <1>8, <1>9 DEF Ask

LEMMA NextTypeOK == ASSUME TypeOK, [Next]_vars PROVE TypeOK'
<1>1. ASSUME NEW r \in Runs, Call(r) PROVE TypeOK'
  <2> DEFINE c == <<r, turn[r] + 1>>
  <2>1. turn[r] \in Nat /\ Len(Plan[r]) \in Nat /\ DOMAIN Plan[r] = 1..Len(Plan[r])
    BY PlanAssumption DEF TypeOK
  <2>2. turn' \in [Runs -> Nat] /\ \A p \in Runs : turn'[p] <= Len(Plan[p])
    BY <1>1, <2>1 DEF Call, TypeOK
  <2>3. c \in Calls
    BY <1>1, <2>1, CallsArePairs DEF Call
  <2>4. [thread[c] EXCEPT !.pc = "queued"] \in Thread
    BY <2>3 DEF TypeOK, Thread
  <2>5. thread' = [thread EXCEPT ![c] = [thread[c] EXCEPT !.pc = "queued"]]
    BY <1>1 DEF Call
  <2>6. thread' \in [Calls -> Thread] /\ waiting' \subseteq Runs
    BY <1>1, <2>4, <2>5 DEF TypeOK, Call
  <2>7. QED
    BY <2>2, <2>6 DEF TypeOK
<1>2. ASSUME NEW c \in Calls, Start(c) PROVE TypeOK'
  <2>1. \A at \in {<<1, 0>>, Nowhere, End} : [thread[c] EXCEPT !.pc = "running", !.at = at] \in Thread
    BY AtType, RequestTypes DEF Thread
  <2>2. \E at \in {<<1, 0>>, Nowhere, End} :
          thread' = [thread EXCEPT ![c] = [thread[c] EXCEPT !.pc = "running", !.at = at]]
    BY <1>2 DEF Start, TypeOK
  <2>3. QED
    BY <1>2, <2>1, <2>2 DEF TypeOK, Start
<1>3. ASSUME NEW c \in Calls, Return(c) \/ TimeOut(c) PROVE TypeOK'
  <2>1. [NoThread EXCEPT !.pc = "running", !.at = thread[c].at] \in Thread
    BY AtType, RequestTypes DEF NoThread, Thread
  <2>2. QED
    BY <1>3, <2>1, RequestTypes DEF TypeOK, Return, TimeOut
<1>4. ASSUME NEW c \in Calls, Ask(c) PROVE TypeOK'
  BY <1>4, AskType DEF TypeOK
<1>5. ASSUME NEW c \in Calls, Malformed(c) PROVE TypeOK'
  BY <1>5, RequestTypes DEF Malformed, Raise, TypeOK
<1>6. ASSUME NEW c \in Calls, Finish(c) PROVE TypeOK'
  <2>1. thread[c].found \in SUBSET Postings
    BY AtType DEF Thread
  <2>2. Result(c) \subseteq SUBSET Postings
    BY <2>1 DEF Result, OnePerUrl
  <2>3. \A result \in Result(c) : [thread[c] EXCEPT !.pc = "ended", !.found = result] \in Thread
    BY <2>2, AtType DEF Thread
  <2>4. QED
    BY <1>6, <2>3, RequestTypes DEF Finish, TypeOK
<1>7. CASE UNCHANGED vars
  BY <1>7 DEF vars, TypeOK
<1>8. QED
  BY <1>1, <1>2, <1>3, <1>4, <1>5, <1>6, <1>7 DEF Next, Go

-----------------------------------------------------------------------------
(* Who waits *)

\* A call that waits for a thread, or has a result nobody has taken, is awaited.
Expected == \A c \in Calls : thread[c].pc \in {"queued", "ended", "raised"} => Awaited(c)
IInv == TypeOK /\ Expected

LEMMA InitIInv == Init => IInv
<1> SUFFICES ASSUME Init PROVE IInv
  OBVIOUS
<1>1. \A r \in Runs : Len(Plan[r]) \in Nat
  BY PlanAssumption
<1>2. TypeOK
  BY <1>1, RequestTypes DEF Init, TypeOK
<1>3. Expected
  BY DEF Init, Expected, NoThread
<1>4. QED
  BY <1>2, <1>3 DEF IInv

LEMMA AskKeeps ==
  ASSUME IInv, NEW c \in Calls, Ask(c) \/ Malformed(c) \/ Start(c) \/ Finish(c)
  PROVE  /\ UNCHANGED <<turn, waiting>> /\ \A d \in Calls \ {c} : thread'[d] = thread[d]
         /\ thread'[c].pc \in {"queued", "ended", "raised"} => Awaited(c)
<1>1. thread[c] \in Thread
  BY DEF IInv, TypeOK
<1>2. CASE Start(c)
  BY <1>1, <1>2 DEF Start, IInv, TypeOK, Thread
<1>3. CASE Ask(c)
  <2>1. CASE AskThread(c)
    BY <1>1, <2>1 DEF AskThread, Raise, Gone, NoThread, IInv, TypeOK, Thread
  <2>2. CASE ~AskThread(c)
    <3>1. PICK hits, kept, next : Answered(c, hits, kept, next) /\ thread[c].pc = "running"
      BY <1>3, <2>2 DEF Ask, AskJobspy, AskWellfound, AskPublicPage, AskYc, AskComment, At
    <3>2. QED
      BY <1>1, <3>1 DEF Answered, IInv, TypeOK, Thread
  <2>3. QED
    BY <2>1, <2>2
<1>4. CASE Malformed(c)
  BY <1>1, <1>4 DEF Malformed, Raise, Gone, NoThread, IInv, TypeOK, Thread
<1>5. CASE Finish(c)
  BY <1>1, <1>5 DEF Finish, Gone, NoThread, IInv, TypeOK, Thread
<1>6. QED
  BY <1>2, <1>3, <1>4, <1>5

LEMMA NextIInv == ASSUME IInv, [Next]_vars PROVE IInv'
<1>1. TypeOK'
  BY NextTypeOK DEF IInv
<1>2. ASSUME NEW r \in Runs, Call(r) PROVE Expected'
  <2> SUFFICES ASSUME NEW c \in Calls, thread'[c].pc \in {"queued", "ended", "raised"}
               PROVE  Awaited(c)'
    BY DEF Expected
  <2>1. CASE c = <<r, turn[r] + 1>>
    BY <1>2, <2>1 DEF Call, Awaited, IInv, TypeOK
  <2>2. CASE c # <<r, turn[r] + 1>>
    <3>1. Awaited(c)
      BY <1>2, <2>2 DEF Call, IInv, TypeOK, Expected
    <3>2. QED
      BY <1>2, <3>1 DEF Call, Awaited, IInv, TypeOK
  <2>3. QED
    BY <2>1, <2>2
<1>3. ASSUME NEW c \in Calls, Return(c) \/ TimeOut(c) PROVE Expected'
  <2> SUFFICES ASSUME NEW d \in Calls, thread'[d].pc \in {"queued", "ended", "raised"}
               PROVE  Awaited(d)'
    BY DEF Expected
  <2>1. Awaited(c) /\ turn' = turn /\ waiting' = waiting \ {c[1]}
    BY <1>3 DEF Return, TimeOut
  <2>2. d # c
    BY <1>3, RequestTypes DEF Return, TimeOut, IInv, TypeOK, NoThread
  <2>3. thread'[d] = thread[d]
    BY <1>3, <2>2 DEF Return, TimeOut, IInv, TypeOK
  <2>4. Awaited(d) /\ d[1] # c[1]
    BY <2>1, <2>2, <2>3, OneAwaited DEF IInv, Expected
  <2>5. QED
    BY <2>1, <2>4 DEF Awaited
<1>4. ASSUME NEW c \in Calls, Go(c) PROVE Expected'
  BY <1>4, AskKeeps DEF Go, IInv, Expected, Awaited
<1>5. ASSUME UNCHANGED vars PROVE Expected'
  BY <1>5 DEF vars, IInv, Expected, Awaited
<1>6. QED
  BY <1>1, <1>2, <1>3, <1>4, <1>5 DEF Next, IInv

LEMMA InvariantIInv == Spec => []IInv
  BY InitIInv, NextIInv, PTL DEF Spec

LEMMA DisjointUnion ==
  ASSUME NEW S, NEW A, NEW B, S = A \cup B, A \cap B = {}, IsFiniteSet(A), IsFiniteSet(B)
  PROVE  Cardinality(S) = Cardinality(A) + Cardinality(B)
<1>1. Cardinality(A \cup B) = Cardinality(A) + Cardinality(B) - Cardinality({})
  BY FS_Union
<1>2. Cardinality({}) = 0 /\ Cardinality(A) \in Nat /\ Cardinality(B) \in Nat
  BY FS_EmptySet, FS_CardinalityType
<1>3. QED
  BY <1>1, <1>2

\* A queued call and the running ones somebody waits for are of different runs.
LEMMA CountWaiting ==
  ASSUME IInv, NEW c \in Calls, thread[c].pc = "queued", Cardinality(Running) >= PoolSize
  PROVE  Cardinality(Abandoned) >= PoolSize + 1 - Cardinality(Runs)
<1> DEFINE Served == {d \in Calls : thread[d].pc = "running" /\ Awaited(d)}
           f == [d \in Served |-> d[1]]
<1>1. Running = Abandoned \cup Served /\ Abandoned \cap Served = {}
  BY DEF Running, Abandoned
<1>2. Served \in SUBSET Calls /\ Abandoned \in SUBSET Calls
  BY DEF Abandoned
<1>3. IsFiniteSet(Served) /\ IsFiniteSet(Abandoned)
  BY <1>2, CallsAreFinite, FS_Subset
<1>4. Cardinality(Served) \in Nat /\ Cardinality(Abandoned) \in Nat
  BY <1>3, FS_CardinalityType
<1>5. Cardinality(Running) = Cardinality(Abandoned) + Cardinality(Served)
  BY <1>1, <1>3, DisjointUnion
<1>6. Awaited(c) /\ c \notin Served /\ c[1] \in Runs
  BY CallsArePairs DEF IInv, Expected
<1>7. f \in Injection(Served, Runs \ {c[1]})
  <2>1. \A d \in Served : d[1] \in Runs \ {c[1]}
    BY <1>6, OneAwaited, CallsArePairs
  <2>2. \A d, e \in Served : d[1] = e[1] => d = e
    BY OneAwaited
  <2>3. QED
    BY <2>1, <2>2 DEF Injection, IsInjective
<1>8. IsFiniteSet(Runs) /\ Cardinality(Runs) \in Nat
  BY PlanAssumption, FS_CardinalityType
<1>9. IsFiniteSet(Runs \ {c[1]}) /\ Cardinality(Runs \ {c[1]}) = Cardinality(Runs) - 1
  BY <1>6, <1>8, FS_RemoveElement
<1>10. Cardinality(Served) <= Cardinality(Runs) - 1
  BY <1>7, <1>9, FS_Injection
<1>11. PoolSize \in Nat
  BY BoundsAssumption
<1>12. QED
  BY <1>4, <1>5, <1>8, <1>10, <1>11

-----------------------------------------------------------------------------
(* What a source returns *)

\* A thread somebody waits for has tried the searches before its next request,
\* or has found that there are none, and has kept what fits.
AllAsked(kind, t)    == \A q \in 1..Searches(kind) : <<q, 0>> \in t.tried
NobodyAsked(kind, t) == kind \in {"hackernews", "jobspy"} /\ t.tried = {}
AskedBefore(kind, t) ==
  /\ t.at[1] \in 1..Searches(kind)
  /\ \A q \in 1..t.at[1]-1 : <<q, 0>> \in t.tried
  /\ t.at[2] # 0 => <<t.at[1], 0>> \in t.tried
Asked(kind, t) ==
  \/ t.at = Nowhere /\ kind = "hackernews" /\ t.tried = {}
  \/ t.at = End /\ (AllAsked(kind, t) \/ NobodyAsked(kind, t))
  \/ AskedBefore(kind, t)
Gathered(kind, t) == \A p \in t.told : Fits(kind, p) => p \in t.found

Queued == [NoThread EXCEPT !.pc = "queued"]
Unused ==
  \A c \in Calls : /\ turn[c[1]] < c[2] => thread[c] = NoThread
                   /\ thread[c].pc = "queued" => thread[c] = Queued
OnItsWay ==
  \A c \in Calls : thread[c].pc = "running" /\ Awaited(c) =>
    Asked(Kind(c), thread[c]) /\ Gathered(Kind(c), thread[c])
SearchInv == IInv /\ Unused /\ OnItsWay /\ ReturnIsComplete

LEMMA SearchesType ==
  ASSUME NEW kind \in Kinds
  PROVE  Searches(kind) \in Nat \ {0}
  BY BoundsAssumption DEF Searches, Kinds

\* The answer to a search takes the thread to another page of it, to the next
\* search, or to its end after the last.
LEMMA AnsweredProgress ==
  ASSUME TypeOK, NEW c \in Calls, NEW hits \in SUBSET Postings, NEW kept \in SUBSET Postings,
         NEW next, Answered(c, hits, kept, next), Awaited(c), thread[c].at[1] # 0,
         Asked(Kind(c), thread[c]), Gathered(Kind(c), thread[c]),
         \A p \in hits : Fits(Kind(c), p) => p \in kept,
         \/ next = NextQuery(Kind(c), thread[c].at[1])
         \/ \E g : next = <<thread[c].at[1], g>>
  PROVE  Asked(Kind(c), thread'[c]) /\ Gathered(Kind(c), thread'[c])
<1> DEFINE kind == Kind(c)
           t == thread[c]
           u == [t EXCEPT !.at = next, !.tried = @ \cup {t.at}, !.told = @ \cup hits,
                          !.found = @ \cup kept]
           n == Searches(kind)
           q == t.at[1]
<1>1. t \in Thread /\ t.at = <<t.at[1], t.at[2]>> /\ kind \in Kinds
  BY AtType, KindType DEF Requests
<1>2. /\ u.at = next /\ u.tried = t.tried \cup {t.at} /\ u.told = t.told \cup hits
      /\ u.found = t.found \cup kept
  BY <1>1 DEF Thread
<1>3. thread'[c] = u
  BY DEF Answered, TypeOK
<1>4. Gathered(kind, u)
  <2> HIDE DEF u, kind
  <2>1. QED
    BY <1>2 DEF Gathered, kind
<1>5. AskedBefore(kind, t) /\ n \in Nat
  BY <1>1, SearchesType DEF Asked, Nowhere, End
<1>6. q \in 1..n /\ <<q, 0>> \in u.tried /\ \A p \in 1..q-1 : <<p, 0>> \in u.tried
  BY <1>1, <1>2, <1>5 DEF AskedBefore
<1>7. Asked(kind, u)
  <2> HIDE DEF u, kind, n
  <2>1. CASE \E g : next = <<q, g>>
    <3>1. AskedBefore(kind, u)
      BY <1>2, <1>6, <2>1 DEF AskedBefore, n
    <3>2. QED
      BY <3>1 DEF Asked
  <2>2. CASE next = NextQuery(kind, q)
    <3>1. \A p \in 1..q : <<p, 0>> \in u.tried
      <4>1. \A p \in 1..q : p = q \/ p \in 1..q-1
        BY <1>5, <1>6
      <4>2. QED
        BY <1>6, <4>1
    <3>2. CASE q < n
      <4>1. next = <<q + 1, 0>> /\ q + 1 \in 1..n /\ (q + 1) - 1 = q
        BY <1>5, <1>6, <2>2, <3>2 DEF NextQuery, n
      <4>2. AskedBefore(kind, u)
        BY <1>2, <3>1, <4>1 DEF AskedBefore, n
      <4>3. QED
        BY <4>2 DEF Asked
    <3>3. CASE ~(q < n)
      <4>1. next = End /\ q = n
        BY <1>5, <1>6, <2>2, <3>3 DEF NextQuery, n
      <4>2. AllAsked(kind, u)
        BY <3>1, <4>1 DEF AllAsked, n
      <4>3. QED
        BY <1>2, <4>1, <4>2 DEF Asked
    <3>4. QED
      BY <3>2, <3>3
  <2>3. QED
    BY <2>1, <2>2 DEF kind
<1>8. QED
  BY <1>3, <1>4, <1>7

LEMMA AskProgress ==
  ASSUME SearchInv, NEW c \in Calls, Ask(c), Awaited(c), thread'[c].pc = "running"
  PROVE  Asked(Kind(c), thread'[c]) /\ Gathered(Kind(c), thread'[c])
<1> DEFINE kind == Kind(c)
           q == thread[c].at[1]
           g == thread[c].at[2]
           Goal == Asked(Kind(c), thread'[c]) /\ Gathered(Kind(c), thread'[c])
<1>1. TypeOK /\ thread[c] \in Thread
  BY AtType DEF SearchInv, IInv
<1>2. thread[c].pc = "running"
  BY DEF Ask, AskJobspy, AskWellfound, AskPublicPage, AskYc, AskThread, AskComment, At
<1>3. Asked(kind, thread[c]) /\ Gathered(kind, thread[c])
  BY <1>2 DEF SearchInv, OnItsWay
<1>4. CASE AskJobspy(c)
  <2>1. kind = "jobspy" /\ q # 0
    BY <1>4 DEF AskJobspy, At
  <2>2. PICK hits \in SUBSET Postings : Answered(c, hits, hits, NextQuery(kind, q))
    BY <1>4, <2>1 DEF AskJobspy
  <2>3. QED
    BY <1>1, <1>3, <2>1, <2>2, AnsweredProgress
<1>5. CASE AskWellfound(c)
  <2>1. kind = "wellfound" /\ q # 0
    BY <1>5 DEF AskWellfound, At
  <2>2. PICK hits \in SUBSET Postings : Answered(c, hits, hits, AfterPage(q, g, hits))
    BY <1>5 DEF AskWellfound
  <2>3. \/ AfterPage(q, g, hits) = NextQuery(kind, q)
        \/ \E h : AfterPage(q, g, hits) = <<q, h>>
    BY <2>1 DEF AfterPage
  <2>4. QED
    BY <1>1, <1>3, <2>1, <2>2, <2>3, AnsweredProgress
<1>6. CASE AskPublicPage(c)
  <2>1. kind = "wellfound" /\ q # 0
    BY <1>6 DEF AskPublicPage, At
  <2>2. PICK hits \in SUBSET Postings : Answered(c, hits, hits, NextQuery(kind, q))
    BY <1>6, <2>1 DEF AskPublicPage
  <2>3. QED
    BY <1>1, <1>3, <2>1, <2>2, AnsweredProgress
<1>7. CASE AskYc(c)
  <2>1. kind = "yc" /\ q # 0
    BY <1>7 DEF AskYc, At
  <2>2. PICK hits \in SUBSET Postings : Answered(c, hits, hits \cap NamesRole, End)
    BY <1>7 DEF AskYc
  <2>3. AskedBefore(kind, thread[c])
    BY <1>3, <2>1 DEF Asked, Nowhere, End
  <2>4. End = NextQuery(kind, q)
    BY <2>1, <2>3 DEF AskedBefore, NextQuery, Searches
  <2>5. \A p \in hits : Fits(kind, p) => p \in hits \cap NamesRole
    BY <2>1 DEF Fits
  <2>6. QED
    BY <1>1, <1>3, <2>1, <2>2, <2>4, <2>5, AnsweredProgress
<1>8. CASE AskComment(c)
  <2>1. kind = "hackernews" /\ q # 0
    BY <1>8 DEF AskComment, At
  <2>2. PICK hits \in {{}} \cup {{p} : p \in Postings} :
          Answered(c, hits, {p \in hits : MatchesRoleAndLocation(p)}, NextQuery(kind, q))
    BY <1>8, <2>1 DEF AskComment
  <2>3. hits \in SUBSET Postings /\ {p \in hits : MatchesRoleAndLocation(p)} \in SUBSET Postings
    BY <2>2
  <2>4. \A p \in hits : Fits(kind, p) => p \in {o \in hits : MatchesRoleAndLocation(o)}
    BY <2>1 DEF Fits
  <2>5. QED
    BY <1>1, <1>3, <2>1, <2>2, <2>3, <2>4, AnsweredProgress
<1>9. CASE AskThread(c)
  <2>1. PICK at \in {<<1, 0>>, End} : thread' = [thread EXCEPT ![c] = [thread[c] EXCEPT !.at = at]]
    BY <1>1, <1>9 DEF AskThread, Raise, Gone, NoThread, TypeOK
  <2> DEFINE u == [thread[c] EXCEPT !.at = at]
  <2>2. /\ thread'[c] = u /\ u.at = at /\ u.tried = thread[c].tried
        /\ u.told = thread[c].told /\ u.found = thread[c].found
    BY <1>1, <2>1 DEF TypeOK, Thread
  <2> HIDE DEF u
  <2>3. kind = "hackernews" /\ thread[c].tried = {}
    BY <1>3, <1>9 DEF AskThread, Asked, AskedBefore, Nowhere, End
  <2>4. 1 \in 1..Searches(kind)
    BY <2>3, BoundsAssumption DEF Searches
  <2>5. at = <<1, 0>> => AskedBefore(kind, u)
    BY <2>2, <2>4 DEF AskedBefore
  <2>6. at = End => NobodyAsked(kind, u)
    BY <2>2, <2>3 DEF NobodyAsked
  <2>7. Asked(kind, u)
    BY <2>1, <2>2, <2>5, <2>6 DEF Asked
  <2>8. Gathered(kind, u)
    BY <1>3, <2>2 DEF Gathered
  <2>9. QED
    BY <2>2, <2>7, <2>8
<1>10. QED
  BY <1>4, <1>5, <1>6, <1>7, <1>8, <1>9 DEF Ask

\* The first request of a thread.
LEMMA StartProgress ==
  ASSUME SearchInv, NEW c \in Calls, Start(c)
  PROVE  Asked(Kind(c), thread'[c]) /\ Gathered(Kind(c), thread'[c])
<1>1. thread[c] = Queued
  BY DEF Start, SearchInv, Unused
<1>2. PICK at \in {<<1, 0>>, Nowhere, End} :
        /\ at = Nowhere <=> Kind(c) = "hackernews"
        /\ at = End => Kind(c) = "jobspy"
        /\ thread' = [thread EXCEPT ![c] = [thread[c] EXCEPT !.pc = "running", !.at = at]]
  BY DEF Start, SearchInv, IInv, TypeOK
<1> DEFINE u == [thread[c] EXCEPT !.pc = "running", !.at = at]
<1>3. thread'[c] = u /\ u.at = at /\ u.tried = {} /\ u.told = {} /\ u.found = {}
  BY <1>1, <1>2 DEF SearchInv, IInv, TypeOK, Queued, NoThread
<1> HIDE DEF u
<1>4. 1 \in 1..Searches(Kind(c))
  <2>1. Searches(Kind(c)) \in Nat \ {0}
    BY KindType, SearchesType
  <2>2. QED
    BY <2>1
<1>5. at = <<1, 0>> => AskedBefore(Kind(c), u)
  BY <1>3, <1>4 DEF AskedBefore
<1>6. at = End => NobodyAsked(Kind(c), u)
  BY <1>2, <1>3 DEF NobodyAsked
<1>7. Asked(Kind(c), u)
  BY <1>2, <1>3, <1>5, <1>6 DEF Asked
<1>8. Gathered(Kind(c), u)
  BY <1>3 DEF Gathered
<1>9. QED
  BY <1>3, <1>7, <1>8

\* What ReturnIsComplete says of one call.
Whole(kind, t) ==
  /\ AllAsked(kind, t) \/ NobodyAsked(kind, t)
  /\ \A p \in t.told : Fits(kind, p) =>
       \E q \in t.found : q = p \/ (kind = "jobspy" /\ Url[q] = Url[p])
LEMMA CompleteIsWhole ==
  ReturnIsComplete <=> \A c \in Calls : thread[c].pc = "ended" => Whole(Kind(c), thread[c])
  BY DEF ReturnIsComplete, Whole, AllAsked, NobodyAsked

LEMMA FinishIsWhole ==
  ASSUME SearchInv, NEW c \in Calls, Finish(c), thread'[c].pc = "ended"
  PROVE  Whole(Kind(c), thread'[c])
<1> DEFINE kind == Kind(c)
           t == thread[c]
<1>1. t \in Thread /\ t.pc = "running" /\ t.at = End
  BY AtType DEF SearchInv, IInv, Finish
<1>2. PICK result \in Result(c) : Awaited(c) /\ thread'[c] = [t EXCEPT !.pc = "ended", !.found = result]
  BY DEF Finish, SearchInv, IInv, TypeOK, Gone, NoThread
<1>3. Asked(kind, t) /\ Gathered(kind, t)
  BY <1>1, <1>2 DEF SearchInv, OnItsWay
<1>4. AllAsked(kind, t) \/ NobodyAsked(kind, t)
  BY <1>1, <1>3 DEF Asked, AskedBefore, End, Nowhere
<1> DEFINE u == [t EXCEPT !.pc = "ended", !.found = result]
<1>5. u.tried = t.tried /\ u.told = t.told /\ u.found = result
  BY <1>1 DEF Thread
<1>6. ASSUME NEW p \in t.told, Fits(kind, p)
      PROVE  \E q \in result : q = p \/ (kind = "jobspy" /\ Url[q] = Url[p])
  <2>1. p \in t.found
    BY <1>3, <1>6 DEF Gathered
  <2>2. CASE kind = "jobspy"
    BY <1>2, <2>1, <2>2 DEF Result, OnePerUrl
  <2>3. CASE kind # "jobspy"
    BY <1>2, <2>1, <2>3 DEF Result
  <2>4. QED
    BY <2>2, <2>3
<1> HIDE DEF u
<1>7. AllAsked(kind, u) \/ NobodyAsked(kind, u)
  BY <1>4, <1>5 DEF AllAsked, NobodyAsked
<1>8. Whole(kind, u)
  BY <1>5, <1>6, <1>7 DEF Whole
<1>9. QED
  BY <1>2, <1>8 DEF u

LEMMA InitSearchInv == Init => SearchInv
<1> SUFFICES ASSUME Init PROVE SearchInv
  OBVIOUS
<1>1. \A c \in Calls : thread[c] = NoThread /\ NoThread.pc = "none"
  BY DEF Init, NoThread
<1>2. QED
  BY <1>1, InitIInv DEF SearchInv, Unused, OnItsWay, ReturnIsComplete

\* A step that leaves the thread of a call alone, or takes it away, and does not
\* make anybody wait for it.
LEMMA CallKept ==
  ASSUME SearchInv, NEW d \in Calls,
         \/ thread'[d] = thread[d] /\ (Awaited(d)' => Awaited(d))
         \/ thread'[d].pc \in {"raised", "gone"}
         \/ thread'[d].pc \in {"running", "queued"} /\ ~Awaited(d)'
  PROVE  /\ thread'[d].pc = "running" /\ Awaited(d)' =>
              Asked(Kind(d), thread'[d]) /\ Gathered(Kind(d), thread'[d])
         /\ thread'[d].pc = "ended" => Whole(Kind(d), thread'[d])
  BY CompleteIsWhole DEF SearchInv, OnItsWay

\* How a thread goes on.
LEMMA NewPc ==
  ASSUME TypeOK, NEW c \in Calls
  PROVE  /\ Start(c) => thread'[c].pc = "running"
         /\ Ask(c) => thread'[c].pc \in {"running", "raised", "gone"}
         /\ Malformed(c) => thread'[c].pc \in {"raised", "gone"}
         /\ Finish(c) => thread'[c].pc \in {"ended", "gone"}
<1>1. thread[c] \in Thread
  BY AtType
<1>2. ASSUME Start(c) PROVE thread'[c].pc = "running"
  <2>1. PICK at : thread' = [thread EXCEPT ![c] = [thread[c] EXCEPT !.pc = "running", !.at = at]]
    BY <1>2 DEF Start, TypeOK
  <2>2. thread'[c] = [thread[c] EXCEPT !.pc = "running", !.at = at]
    BY <2>1 DEF TypeOK
  <2>3. QED
    BY <1>1, <2>2 DEF Thread
<1>3. ASSUME Raise(c) PROVE thread'[c].pc \in {"raised", "gone"}
  BY <1>3 DEF Raise, Gone, NoThread, TypeOK
<1>4. ASSUME Ask(c) PROVE thread'[c].pc \in {"running", "raised", "gone"}
  <2>1. CASE AskThread(c)
    <3>1. CASE Raise(c)
      BY <1>3, <3>1
    <3>2. CASE \E at \in {<<1, 0>>, End} : thread' = [thread EXCEPT ![c].at = at]
      BY <1>1, <2>1, <3>2 DEF AskThread, TypeOK, Thread
    <3>3. QED
      BY <2>1, <3>1, <3>2 DEF AskThread
  <2>2. CASE ~AskThread(c)
    <3>1. PICK hits, kept, next : Answered(c, hits, kept, next) /\ thread[c].pc = "running"
      BY <1>4, <2>2 DEF Ask, AskJobspy, AskWellfound, AskPublicPage, AskYc, AskComment, At
    <3>2. QED
      BY <1>1, <3>1 DEF Answered, TypeOK, Thread
  <2>3. QED
    BY <2>1, <2>2
<1>5. Malformed(c) => thread'[c].pc \in {"raised", "gone"}
  BY <1>3 DEF Malformed
<1>6. ASSUME Finish(c) PROVE thread'[c].pc \in {"ended", "gone"}
  <2>1. PICK result : thread' = [thread EXCEPT ![c] =
          IF Awaited(c) THEN [thread[c] EXCEPT !.pc = "ended", !.found = result] ELSE Gone]
    BY <1>6 DEF Finish
  <2>2. thread'[c] = IF Awaited(c) THEN [thread[c] EXCEPT !.pc = "ended", !.found = result] ELSE Gone
    BY <2>1 DEF TypeOK
  <2>3. QED
    BY <1>1, <2>2, RequestTypes DEF Thread
<1>7. QED
  BY <1>2, <1>4, <1>5, <1>6

LEMMA NextUnused == ASSUME SearchInv, [Next]_vars PROVE Unused'
<1>0. TypeOK /\ TypeOK'
  BY NextIInv DEF SearchInv, IInv
<1> SUFFICES ASSUME NEW d \in Calls
             PROVE  /\ turn'[d[1]] < d[2] => thread'[d] = NoThread
                    /\ thread'[d].pc = "queued" => thread'[d] = Queued
  BY DEF Unused
<1> DEFINE Goal == /\ turn'[d[1]] < d[2] => thread'[d] = NoThread
                   /\ thread'[d].pc = "queued" => thread'[d] = Queued
<1>1. /\ d[1] \in Runs /\ d[2] \in Nat /\ turn[d[1]] \in Nat /\ d = <<d[1], d[2]>>
      /\ turn[d[1]] < d[2] => thread[d] = NoThread
      /\ thread[d].pc = "queued" => thread[d] = Queued
  <2>1. d[1] \in Runs /\ d[2] \in DOMAIN Plan[d[1]] /\ d = <<d[1], d[2]>>
    BY CallsArePairs
  <2>2. DOMAIN Plan[d[1]] = 1..Len(Plan[d[1]])
    BY <2>1, PlanAssumption
  <2>3. QED
    BY <1>0, <2>1, <2>2 DEF SearchInv, Unused, TypeOK
<1>2. ASSUME NEW r \in Runs, Call(r) PROVE Goal
  <2> DEFINE c == <<r, turn[r] + 1>>
  <2>1. /\ turn' = [turn EXCEPT ![r] = turn[r] + 1]
        /\ thread' = [thread EXCEPT ![c] = [thread[c] EXCEPT !.pc = "queued"]]
    BY <1>2 DEF Call
  <2>2. CASE d = c
    <3>1. thread[d] = NoThread /\ ~(turn'[d[1]] < d[2])
      BY <1>0, <1>1, <2>1, <2>2 DEF TypeOK
    <3>2. thread'[d] = Queued
      BY <1>0, <2>1, <2>2, <3>1 DEF TypeOK, Queued
    <3>3. QED
      BY <3>1, <3>2
  <2>3. CASE d # c
    <3>1. thread'[d] = thread[d]
      BY <1>0, <2>1, <2>3 DEF TypeOK
    <3>2. turn'[d[1]] >= turn[d[1]]
      BY <1>0, <1>1, <2>1 DEF TypeOK
    <3>3. turn'[d[1]] \in Nat
      BY <1>0, <1>1 DEF TypeOK
    <3>4. QED
      BY <1>1, <3>1, <3>2, <3>3
  <2>4. QED
    BY <2>2, <2>3
<1>3. ASSUME NEW c \in Calls, Return(c) \/ TimeOut(c) PROVE Goal
  <2>1. /\ turn' = turn /\ (d # c => thread'[d] = thread[d])
        /\ d = c => thread'[d].pc # "queued" /\ turn[d[1]] = d[2]
    BY <1>0, <1>3, RequestTypes DEF Return, TimeOut, TypeOK, NoThread, Awaited
  <2>2. QED
    BY <1>1, <2>1
<1>4. ASSUME NEW c \in Calls, Go(c) PROVE Goal
  <2>1. turn' = turn /\ (d # c => thread'[d] = thread[d])
    BY <1>4, AskKeeps DEF Go, SearchInv
  <2>2. thread[c].pc \in {"queued", "running"}
    BY <1>4 DEF Go, Start, Ask, AskJobspy, AskWellfound, AskPublicPage, AskYc, AskThread,
                AskComment, Malformed, Finish, At
  <2>3. d = c => thread'[d].pc # "queued"
    BY <1>0, <1>4, NewPc DEF Go
  <2>4. d = c => ~(turn[d[1]] < d[2])
    BY <1>1, <2>2 DEF NoThread
  <2>5. QED
    BY <1>1, <2>1, <2>3, <2>4
<1>5. CASE UNCHANGED vars
  BY <1>1, <1>5 DEF vars
<1>6. QED
  BY <1>2, <1>3, <1>4, <1>5 DEF Next

LEMMA NextSearchInv == ASSUME SearchInv, [Next]_vars PROVE SearchInv'
<1>0. IInv' /\ Unused' /\ TypeOK
  BY NextIInv, NextUnused DEF SearchInv, IInv
<1> SUFFICES ASSUME NEW d \in Calls
             PROVE  /\ thread'[d].pc = "running" /\ Awaited(d)' =>
                         Asked(Kind(d), thread'[d]) /\ Gathered(Kind(d), thread'[d])
                    /\ thread'[d].pc = "ended" => Whole(Kind(d), thread'[d])
  <2>1. OnItsWay'
    BY DEF OnItsWay, Asked, AskedBefore, AllAsked, NobodyAsked, Gathered
  <2>2. ReturnIsComplete'
    BY DEF ReturnIsComplete, Whole, AllAsked, NobodyAsked
  <2>3. QED
    BY <1>0, <2>1, <2>2 DEF SearchInv
<1> DEFINE Goal == /\ thread'[d].pc = "running" /\ Awaited(d)' =>
                         Asked(Kind(d), thread'[d]) /\ Gathered(Kind(d), thread'[d])
                   /\ thread'[d].pc = "ended" => Whole(Kind(d), thread'[d])
<1>1. ASSUME NEW r \in Runs, Call(r) PROVE Goal
  <2> DEFINE c == <<r, turn[r] + 1>>
  <2>1. CASE d = c
    <3>1. thread'[d].pc = "queued"
      BY <1>0, <1>1, <2>1 DEF Call, TypeOK, Thread
    <3>2. QED
      BY <3>1
  <2>2. CASE d # c
    <3>1. thread'[d] = thread[d]
      BY <1>0, <1>1, <2>2 DEF Call, TypeOK
    <3>2. Awaited(d)' => Awaited(d)
      <4>1. d = <<d[1], d[2]>> /\ d[1] \in Runs
        BY CallsArePairs
      <4>2. QED
        BY <1>0, <1>1, <2>2, <4>1 DEF Call, TypeOK, Awaited
    <3>3. QED
      BY <3>1, <3>2, CallKept
  <2>3. QED
    BY <2>1, <2>2
<1>2. ASSUME NEW c \in Calls, Return(c) \/ TimeOut(c) PROVE Goal
  <2>1. Awaited(d)' => Awaited(d) /\ d # c
    BY <1>2 DEF Return, TimeOut, Awaited
  <2>2. CASE d = c
    <3>1. thread'[d].pc \in {"running", "gone"}
      BY <1>0, <1>2, <2>2, RequestTypes DEF Return, TimeOut, TypeOK, NoThread
    <3>2. QED
      BY <2>1, <2>2, <3>1
  <2>3. CASE d # c
    <3>1. thread'[d] = thread[d]
      BY <1>0, <1>2, <2>3 DEF Return, TimeOut, TypeOK
    <3>2. QED
      BY <2>1, <3>1, CallKept
  <2>4. QED
    BY <2>2, <2>3
<1>3. ASSUME NEW c \in Calls, Go(c) PROVE Goal
  <2>1. UNCHANGED <<turn, waiting>> /\ (d # c => thread'[d] = thread[d])
    BY <1>3, AskKeeps DEF Go, SearchInv
  <2>2. Awaited(d)' <=> Awaited(d)
    BY <2>1 DEF Awaited
  <2>3. CASE d # c
    BY <2>1, <2>2, <2>3, CallKept
  <2>4. CASE d = c /\ Start(c)
    <3>1. thread'[d].pc # "ended"
      BY <1>0, <2>4, NewPc
    <3>2. QED
      BY <2>4, <3>1, StartProgress
  <2>5. CASE d = c /\ Ask(c)
    <3>1. thread'[d].pc # "ended"
      BY <1>0, <2>5, NewPc
    <3>2. QED
      BY <2>2, <2>5, <3>1, AskProgress
  <2>6. CASE d = c /\ Malformed(c)
    <3>1. thread'[d].pc \in {"raised", "gone"}
      BY <1>0, <2>6, NewPc
    <3>2. QED
      BY <3>1
  <2>7. CASE d = c /\ Finish(c)
    <3>1. thread'[d].pc # "running"
      BY <1>0, <2>7, NewPc
    <3>2. QED
      BY <2>7, <3>1, FinishIsWhole
  <2>8. QED
    BY <1>3, <2>3, <2>4, <2>5, <2>6, <2>7 DEF Go
<1>4. CASE UNCHANGED vars
  <2>1. thread'[d] = thread[d] /\ (Awaited(d)' => Awaited(d))
    BY <1>4 DEF vars, Awaited
  <2>2. QED
    BY <2>1, CallKept
<1>5. QED
  BY <1>1, <1>2, <1>3, <1>4 DEF Next

-----------------------------------------------------------------------------
\* Runs, calls and threads keep their types.
THEOREM ScrapersTypes == Spec => []TypeOK
<1>1. IInv => TypeOK
  BY DEF IInv
<1>2. QED
  BY <1>1, InvariantIInv, PTL

\* Calls of a process wait only behind threads that were left to themselves, as
\* long as it has no more runs than threads; one such thread per run too many.
THEOREM CallsWaitBehindAbandoned == Spec => []WaitsBehindAbandoned
<1>1. IInv => WaitsBehindAbandoned
  BY CountWaiting DEF WaitsBehindAbandoned
<1>2. QED
  BY <1>1, InvariantIInv, PTL

\* A source that returns has tried every search, or had none for want of the
\* thread or of the package, and has lost no fitting posting it was told of:
\* for every plan, every number of searches, pages and postings.
THEOREM SourcesReturnAll == Spec => []ReturnIsComplete
<1>1. Spec => []SearchInv
  BY InitSearchInv, NextSearchInv, PTL DEF Spec
<1>2. SearchInv => ReturnIsComplete
  BY DEF SearchInv
<1>3. QED
  BY <1>1, <1>2, PTL
=============================================================================
