--------------------------- MODULE RunEventsProofs ---------------------------
(***************************************************************************)
(* Proofs about the page of a run.  In the first attempt the n-th step is  *)
(* <<1, n>>, so that every sequence of steps that is in hand anywhere (in  *)
(* the database, at the server, on the wire, in the browser) is known from *)
(* where it starts and how long it is.  Without a cancel that was          *)
(* overwritten a terminal status is final, so that whoever holds one holds *)
(* the one in the database.                                                *)
(***************************************************************************)
EXTENDS RunEvents, SequenceTheorems, TLAPS

Event == {StepEvent(s) : s \in Step} \cup {DoneEvent(s) : s \in TERMINAL_RUN_STATUSES}

\* The types, with what the bounds on the steps need: a worker that executes has
\* begun an attempt, and a stream that is open has a poll left.
FlagsInv ==
  executing \in BOOLEAN /\ following \in BOOLEAN /\ refetch \in BOOLEAN /\ cancelled \in BOOLEAN
Server == [pc : {"closed", "poll", "emit", "refresh"}, sent : Nat, polls : 0..MaxPolls,
           rest : Seq(Step)]
TypeInv ==
  /\ status \in Statuses /\ attempt \in 0..MaxAttempts /\ steps \in Seq(Step)
  /\ server \in Server
  /\ wire \in Seq(Event)
  /\ liveSteps \in Seq(Step) /\ liveStatus \in TERMINAL_RUN_STATUSES \cup {None}
  /\ data \in [status : Statuses \cup {None}, steps : Seq(Step)]
  /\ fetch \in Statuses \cup {None} /\ cancelling \in {"no", "read", "written", "done"}
  /\ executing => attempt >= 1
  /\ server.pc # "closed" => server.polls < MaxPolls

\* done is the last event of a stream, and a hook that reads nothing has nothing
\* to read.
StreamInv ==
  /\ ~following => wire = <<>> /\ server.pc = "closed"
  /\ \A i \in 1..Len(wire) :
       wire[i].event = "done" => i = Len(wire) /\ server.pc = "closed"

\* Without a cancel whoever has a terminal status has the final one, and a page
\* that shows one has read the steps after the last of them was committed.
FinalInv ==
  ~cancelled =>
    /\ executing => status = "running"
    /\ fetch # None /\ fetch \in TERMINAL_RUN_STATUSES => fetch = status
    /\ data.status # None /\ data.status \in TERMINAL_RUN_STATUSES =>
         data.status = status /\ data.steps = steps
    /\ liveStatus # None => liveStatus = status
    /\ \A i \in 1..Len(wire) : wire[i].event = "done" => wire[i].status = status

\* The steps of s are those of the first attempt from the k-th on.
Numbered(s, k) == \A i \in 1..Len(s) : s[i] = <<1, k + i>>

\* In the first attempt: what the browser has read, what is on the wire and what
\* the server is about to send follow each other without a gap.
FirstInv ==
  attempt <= 1 =>
    /\ attempt = 0 => steps = <<>>
    /\ Numbered(steps, 0)
    /\ Numbered(data.steps, 0) /\ Len(data.steps) <= Len(steps)
    /\ Numbered(liveSteps, 0) /\ Len(liveSteps) <= Len(steps)
    /\ \A i \in 1..Len(wire) : wire[i].event = "step" =>
         wire[i].step = <<1, Len(liveSteps) + i>> /\ Len(liveSteps) + i <= Len(steps)
    /\ server.pc # "closed" =>
         server.sent = Len(liveSteps) + Len(wire) /\ server.sent <= Len(steps)
    /\ server.pc = "emit" =>
         Numbered(server.rest, server.sent) /\ server.sent + Len(server.rest) <= Len(steps)

IInv == FlagsInv /\ TypeInv /\ StreamInv /\ FinalInv /\ FirstInv

-----------------------------------------------------------------------------
(* Events and sequences *)

\* What can be read off an event, and that the two kinds are told apart.
LEMMA EventFacts ==
  /\ \A s \in Step : StepEvent(s) \in Event /\ StepEvent(s).event = "step" /\ StepEvent(s).step = s
  /\ \A s \in TERMINAL_RUN_STATUSES :
       DoneEvent(s) \in Event /\ DoneEvent(s).event = "done" /\ DoneEvent(s).status = s
  /\ \A e \in Event : \/ e.event = "step" /\ e.step \in Step
                      \/ e.event = "done" /\ e.status \in TERMINAL_RUN_STATUSES
<1>1. \A s \in Step : StepEvent(s) \in Event /\ StepEvent(s).event = "step" /\ StepEvent(s).step = s
  BY DEF StepEvent, Event
<1>2. \A s \in TERMINAL_RUN_STATUSES :
        DoneEvent(s) \in Event /\ DoneEvent(s).event = "done" /\ DoneEvent(s).status = s
  BY DEF DoneEvent, Event
<1>3. ASSUME NEW e \in Event
      PROVE  \/ e.event = "step" /\ e.step \in Step
             \/ e.event = "done" /\ e.status \in TERMINAL_RUN_STATUSES
  <2>1. (\E s \in Step : e = StepEvent(s)) \/ (\E s \in TERMINAL_RUN_STATUSES : e = DoneEvent(s))
    BY DEF Event
  <2>2. QED BY <2>1, <1>1, <1>2
<1>4. QED BY <1>1, <1>2, <1>3

\* Two numbered sequences differ in their lengths only.
LEMMA NumberedPrefix ==
  ASSUME NEW s \in Seq(Step), NEW t \in Seq(Step), Numbered(s, 0), Numbered(t, 0),
         Len(s) <= Len(t)
  PROVE  IsPrefix(s, t) /\ (Len(s) = Len(t) => s = t)
<1>0. Len(s) \in Nat /\ Len(t) \in Nat  BY LenProperties
<1>1. /\ Len(s) \in Nat /\ Len(t) \in Nat
      /\ \A i \in 1..Len(s) : s[i] = t[i]
  <2> SUFFICES ASSUME NEW i \in 1..Len(s) PROVE s[i] = t[i]  BY <1>0
  <2>1. i \in 1..Len(t)  BY <1>0
  <2>2. QED BY <2>1 DEF Numbered
<1>2. Len(s) = Len(t) => s = t  BY <1>1, SeqEqual
<1> DEFINE a == SubSeq(s, 1, Len(s))  b == SubSeq(t, 1, Len(s))
<1>3. /\ \A i \in 1..Len(s) : s[i] \in Step
      /\ \A i \in 1..Len(s) : t[i] \in Step
  BY <1>1, ElementOfSeq
<1>4. /\ a \in Seq(Step) /\ Len(a) = Len(s)
      /\ \A i \in 1..Len(s) : a[i] = s[1 + i - 1]
  BY <1>1, <1>3, SubSeqProperties
<1>5. /\ b \in Seq(Step) /\ Len(b) = Len(s)
      /\ \A i \in 1..Len(s) : b[i] = t[1 + i - 1]
  BY <1>1, <1>3, SubSeqProperties
<1> HIDE DEF a, b
<1>6. \A i \in 1..Len(a) : a[i] = b[i]  BY <1>1, <1>4, <1>5
<1>7. a = b  BY <1>4, <1>5, <1>6, SeqEqual
<1>8. QED BY <1>2, <1>7 DEF IsPrefix, a, b

\* What StepsAfter leaves.
LEMMA StepsAfterFacts ==
  ASSUME steps \in Seq(Step), NEW k \in Nat
  PROVE  /\ StepsAfter(k) \in Seq(Step)
         /\ k <= Len(steps) => Len(StepsAfter(k)) = Len(steps) - k
         /\ \A i \in 1..Len(steps) - k : StepsAfter(k)[i] = steps[k + i]
<1>1. Len(steps) \in Nat /\ k + 1 \in Int /\ \A i \in k + 1..Len(steps) : steps[i] \in Step
  BY ElementOfSeq
<1>2. /\ SubSeq(steps, k + 1, Len(steps)) \in Seq(Step)
      /\ Len(SubSeq(steps, k + 1, Len(steps)))
           = IF k + 1 <= Len(steps) THEN Len(steps) - (k + 1) + 1 ELSE 0
      /\ \A i \in 1..Len(steps) - (k + 1) + 1 :
           SubSeq(steps, k + 1, Len(steps))[i] = steps[(k + 1) + i - 1]
  BY <1>1, SubSeqProperties
<1>3. QED BY <1>1, <1>2 DEF StepsAfter

-----------------------------------------------------------------------------
(* The types *)

\* A stream that is closed and one that has just been opened.
LEMMA ServerFacts ==
  /\ Closed \in Server /\ Closed.pc = "closed"
  /\ [Closed EXCEPT !.pc = "poll"] \in Server
  /\ [Closed EXCEPT !.pc = "poll"].pc = "poll"
  /\ [Closed EXCEPT !.pc = "poll"].sent = 0 /\ [Closed EXCEPT !.pc = "poll"].polls = 0
<1>1. 0 \in Nat /\ 0 \in 0..MaxPolls /\ <<>> \in Seq(Step)  BY BoundsAssumption, EmptySeq
<1>2. Closed \in Server /\ Closed.pc = "closed"  BY <1>1 DEF Closed, Server
<1>3. "poll" \in {"closed", "poll", "emit", "refresh"} /\ Closed.sent = 0 /\ Closed.polls = 0
  BY DEF Closed
<1>4. QED BY <1>2, <1>3 DEF Server

LEMMA FlagsInvInit == Init => FlagsInv
BY DEF Init, FlagsInv

LEMMA FlagsInvStep == FlagsInv /\ [Next]_vars => FlagsInv'
<1> SUFFICES ASSUME FlagsInv, [Next]_vars PROVE FlagsInv'  OBVIOUS
<1> USE DEF FlagsInv, streamVars, pageVars, cancelVars, rowVars
<1>1. CASE Begin  BY <1>1 DEF Begin
<1>2. CASE PersistStep  BY <1>2 DEF PersistStep
<1>3. CASE End  BY <1>3 DEF End
<1>4. CASE WorkerStops  BY <1>4 DEF WorkerStops
<1>5. CASE Poll  BY <1>5 DEF Poll
<1>6. CASE Emit  BY <1>6 DEF Emit
<1>7. CASE Refresh  BY <1>7 DEF Refresh
<1>8. CASE Receive  BY <1>8 DEF Receive
<1>9. CASE Disconnect  BY <1>9 DEF Disconnect
<1>10. CASE FetchRow  BY <1>10 DEF FetchRow
<1>11. CASE FetchSteps
  <2>1. UNCHANGED following \/ following' = TRUE \/ following' = FALSE
    BY <1>11 DEF FetchSteps, Effect
  <2>2. QED BY <1>11, <2>1 DEF FetchSteps
<1>12. CASE CancelRead  BY <1>12 DEF CancelRead
<1>13. CASE CancelWrite  BY <1>13 DEF CancelWrite
<1>14. CASE CancelDone  BY <1>14 DEF CancelDone
<1>15. CASE UNCHANGED vars  BY <1>15 DEF vars
<1>16. QED
  BY <1>1, <1>2, <1>3, <1>4, <1>5, <1>6, <1>7, <1>8, <1>9, <1>10, <1>11, <1>12, <1>13, <1>14, <1>15
     DEF Next, Worker, Stream, Fetch, Cancel

LEMMA TypeInvInit == Init => TypeInv
BY BoundsAssumption, EmptySeq, ServerFacts
   DEF Init, TypeInv, Statuses, NoData, TERMINAL_RUN_STATUSES, Step

LEMMA TypeInvWorker == TypeInv /\ Worker => TypeInv'
<1> SUFFICES ASSUME TypeInv, Worker PROVE TypeInv'  OBVIOUS
<1> USE DEF TypeInv, Server, streamVars, pageVars, cancelVars, rowVars, Statuses
<1>1. CASE Begin  BY <1>1, BoundsAssumption DEF Begin
<1>2. CASE PersistStep
  <2>1. <<attempt, Len(steps) + 1>> \in Step  BY <1>2, BoundsAssumption DEF PersistStep, Step
  <2>2. steps' \in Seq(Step)  BY <1>2, <2>1, AppendProperties DEF PersistStep
  <2>3. QED BY <1>2, <2>2 DEF PersistStep
<1>3. CASE End  BY <1>3 DEF End, TERMINAL_RUN_STATUSES
<1>4. CASE WorkerStops  BY <1>4 DEF WorkerStops
<1>5. QED BY <1>1, <1>2, <1>3, <1>4 DEF Worker

LEMMA TypeInvStream == TypeInv /\ (Stream \/ Disconnect) => TypeInv'
<1> SUFFICES ASSUME TypeInv, Stream \/ Disconnect PROVE TypeInv'  OBVIOUS
<1> USE DEF TypeInv, Server, pageVars, cancelVars, rowVars, Statuses
<1>1. CASE Poll
  <2>1. StepsAfter(server.sent) \in Seq(Step)  BY StepsAfterFacts
  <2>2. QED BY <1>1, <2>1 DEF Poll
<1>2. CASE Emit
  <2>1. Head(server.rest) \in Step /\ Tail(server.rest) \in Seq(Step)
    BY <1>2, HeadTailProperties DEF Emit
  <2>2. wire' \in Seq(Event)  BY <1>2, <2>1, EventFacts, AppendProperties DEF Emit
  <2>3. server' \in Server
    <3>1. server' = [server EXCEPT !.sent = server.sent + 1, !.rest = Tail(server.rest)]
      BY <1>2 DEF Emit
    <3>2. server.sent + 1 \in Nat  OBVIOUS
    <3>3. QED BY <2>1, <3>1, <3>2
  <2>4. server'.pc = server.pc /\ server'.polls = server.polls  BY <1>2 DEF Emit
  <2>5. QED BY <1>2, <2>2, <2>3, <2>4 DEF Emit
<1>3. CASE Refresh
  <2>0. UNCHANGED <<rowVars, executing, liveSteps, liveStatus, data, fetch, cancelling>>
    BY <1>3 DEF Refresh
  <2>1. CASE Ended(status)
    <3>1. wire' = Append(wire, DoneEvent(status)) /\ server' = Closed
      BY <1>3, <2>1 DEF Refresh
    <3>2. DoneEvent(status) \in Event  BY <2>1, EventFacts DEF Ended
    <3>3. wire' \in Seq(Event)  BY <3>1, <3>2, AppendProperties
    <3>4. QED BY <2>0, <3>1, <3>3, ServerFacts
  <2>2. CASE ~Ended(status) /\ server.polls + 1 = MaxPolls
    BY <1>3, <2>0, <2>2, ServerFacts DEF Refresh
  <2>3. CASE ~Ended(status) /\ server.polls + 1 # MaxPolls
    <3>1. server' = [server EXCEPT !.pc = "poll", !.polls = server.polls + 1] /\ wire' = wire
      BY <1>3, <2>3 DEF Refresh
    <3>2. server.polls + 1 \in 0..MaxPolls /\ server.polls + 1 < MaxPolls
      BY <1>3, <2>3, BoundsAssumption DEF Refresh
    <3>3. /\ server' \in Server
          /\ server'.polls = server.polls + 1
      BY <3>1, <3>2
    <3>4. QED BY <2>0, <3>1, <3>2, <3>3
  <2>4. QED BY <2>1, <2>2, <2>3
<1>4. CASE Receive
  <2> DEFINE e == Head(wire)
  <2>1. e \in Event /\ wire' \in Seq(Event)
    BY <1>4, HeadTailProperties DEF Receive
  <2>2. CASE e.event = "step"
    <3>1. liveSteps' = Append(liveSteps, e.step) /\ liveStatus' = liveStatus
      BY <1>4, <2>2 DEF Receive
    <3>2. e.step \in Step  BY <2>1, <2>2, EventFacts
    <3>3. liveSteps' \in Seq(Step)  BY <3>1, <3>2, AppendProperties
    <3>4. QED BY <1>4, <2>1, <3>1, <3>3 DEF Receive
  <2>3. CASE e.event # "step"
    <3>1. liveStatus' = e.status /\ liveSteps' = liveSteps  BY <1>4, <2>3 DEF Receive
    <3>2. e.status \in TERMINAL_RUN_STATUSES  BY <2>1, <2>3, EventFacts
    <3>3. QED BY <1>4, <2>1, <3>1, <3>2 DEF Receive
  <2>4. QED BY <2>2, <2>3
<1>5. CASE Disconnect
  <2>1. wire' \in Seq(Event)  BY <1>5, EmptySeq DEF Disconnect
  <2>2. QED BY <1>5, <2>1, ServerFacts DEF Disconnect
<1>6. QED BY <1>1, <1>2, <1>3, <1>4, <1>5 DEF Stream

\* What the page's effect can do to the stream.
LEMMA EffectCases ==
  ASSUME NEW old, NEW new, Effect(old, new)
  PROVE  \/ UNCHANGED streamVars
         \/ /\ following' = TRUE /\ liveSteps' = <<>> /\ liveStatus' = None /\ wire' = <<>>
            /\ server' = [Closed EXCEPT !.pc = "poll"]
         \/ /\ following' = FALSE /\ wire' = <<>> /\ server' = Closed
            /\ UNCHANGED <<liveSteps, liveStatus>>
BY DEF Effect, streamVars

LEMMA TypeInvPage == TypeInv /\ (Fetch \/ Cancel) => TypeInv'
<1> SUFFICES ASSUME TypeInv, Fetch \/ Cancel PROVE TypeInv'  OBVIOUS
<1> USE DEF TypeInv, Server, streamVars, pageVars, cancelVars, rowVars, Statuses
<1>1. CASE FetchRow  BY <1>1 DEF FetchRow
<1>2. CASE FetchSteps
  <2>1. data' \in [status : Statuses \cup {None}, steps : Seq(Step)]
    BY <1>2 DEF FetchSteps
  <2>2. /\ server' \in Server
        /\ server'.pc # "closed" => server'.polls < MaxPolls
        /\ wire' \in Seq(Event) /\ liveSteps' \in Seq(Step)
        /\ liveStatus' \in TERMINAL_RUN_STATUSES \cup {None}
    <3>1. Effect(data, data')  BY <1>2 DEF FetchSteps
    <3>2. /\ \/ server' = server \/ server' = [Closed EXCEPT !.pc = "poll"] \/ server' = Closed
          /\ wire' = wire \/ wire' = <<>>
          /\ liveSteps' = liveSteps \/ liveSteps' = <<>>
          /\ liveStatus' = liveStatus \/ liveStatus' = None
      BY <3>1, EffectCases DEF streamVars
    <3>3. /\ server' \in Server /\ (server'.pc # "closed" => server'.polls < MaxPolls)
          /\ wire' \in Seq(Event) /\ liveSteps' \in Seq(Step)
      <4> HIDE DEF Server
      <4>1. server \in Server /\ wire \in Seq(Event) /\ liveSteps \in Seq(Step)
            /\ (server.pc # "closed" => server.polls < MaxPolls)
        OBVIOUS
      <4>2. 0 < MaxPolls /\ <<>> \in Seq(Step) /\ <<>> \in Seq(Event)
        BY BoundsAssumption, EmptySeq
      <4> HIDE DEF TypeInv
      <4>3. QED BY <3>2, <4>1, <4>2, ServerFacts
    <3>4. QED BY <3>2, <3>3
  <2>3. QED BY <1>2, <2>1, <2>2 DEF FetchSteps
<1>3. CASE CancelRead  BY <1>3 DEF CancelRead
<1>4. CASE CancelWrite  BY <1>4 DEF CancelWrite, TERMINAL_RUN_STATUSES
<1>5. CASE CancelDone  BY <1>5 DEF CancelDone
<1>6. QED BY <1>1, <1>2, <1>3, <1>4, <1>5 DEF Fetch, Cancel

LEMMA TypeInvStep == TypeInv /\ [Next]_vars => TypeInv'
<1>1. TypeInv /\ UNCHANGED vars => TypeInv'
  BY DEF TypeInv, vars, streamVars, pageVars, cancelVars, rowVars
<1>2. QED BY <1>1, TypeInvWorker, TypeInvStream, TypeInvPage DEF Next

-----------------------------------------------------------------------------
(* The stream *)

\* The events that are left when one is added or read.
LEMMA WireFacts ==
  ASSUME wire \in Seq(Event)
  PROVE  /\ Len(wire) \in Nat
         /\ \A e \in Event : /\ Len(Append(wire, e)) = Len(wire) + 1
                             /\ Append(wire, e)[Len(wire) + 1] = e
                             /\ \A i \in 1..Len(wire) : Append(wire, e)[i] = wire[i]
         /\ wire # <<>> => /\ Head(wire) = wire[1] /\ Len(wire) >= 1
                           /\ Len(Tail(wire)) = Len(wire) - 1
                           /\ \A i \in 1..Len(wire) - 1 : Tail(wire)[i] = wire[i + 1]
<1>1. Len(wire) \in Nat  BY LenProperties
<1>2. \A e \in Event : /\ Len(Append(wire, e)) = Len(wire) + 1
                       /\ Append(wire, e)[Len(wire) + 1] = e
                       /\ \A i \in 1..Len(wire) : Append(wire, e)[i] = wire[i]
  BY AppendProperties
<1>3. wire # <<>> => /\ Head(wire) = wire[1] /\ Len(wire) >= 1
                     /\ Len(Tail(wire)) = Len(wire) - 1
                     /\ \A i \in 1..Len(wire) - 1 : Tail(wire)[i] = wire[i + 1]
  BY <1>1, EmptySeq, HeadTailProperties
<1>4. QED BY <1>1, <1>2, <1>3

LEMMA StreamInvStep == TypeInv /\ FlagsInv /\ StreamInv /\ [Next]_vars => StreamInv'
<1> SUFFICES ASSUME TypeInv, FlagsInv, StreamInv, [Next]_vars PROVE StreamInv'  OBVIOUS
<1> USE DEF StreamInv
<1>w. wire \in Seq(Event) /\ server \in Server  BY DEF TypeInv
<1>1. CASE UNCHANGED streamVars  BY <1>1 DEF streamVars
<1>2. CASE Poll
  <2>1. following  BY <1>2 DEF Poll
  <2>2. QED BY <1>2, <1>w, <2>1 DEF Poll, Server
<1>3. CASE Emit
  <2> DEFINE e == StepEvent(Head(server.rest))
  <2>1. following /\ UNCHANGED following /\ server.pc = "emit" /\ wire' = Append(wire, e)
    BY <1>3 DEF Emit
  <2>2. e \in Event /\ e.event = "step"
    BY <1>3, EventFacts, HeadTailProperties DEF Emit, TypeInv, Server
  <2> HIDE DEF e
  <2>3. Len(wire') = Len(wire) + 1 /\ wire'[Len(wire) + 1] = e
        /\ \A i \in 1..Len(wire) : wire'[i] = wire[i]
    BY <1>w, <2>1, <2>2, WireFacts
  <2>4. \A i \in 1..Len(wire') : wire'[i].event # "done"
    BY <1>w, <2>1, <2>2, <2>3, WireFacts
  <2>5. QED BY <2>1, <2>4
<1>4. CASE Refresh
  <2>1. following /\ UNCHANGED following /\ server.pc = "emit"
    BY <1>4 DEF Refresh
  <2>2. CASE Ended(status)
    <3> DEFINE e == DoneEvent(status)
    <3>1. e \in Event  BY <2>2, EventFacts DEF Ended
    <3>2. wire' = Append(wire, e) /\ server' = Closed  BY <1>4, <2>2 DEF Refresh
    <3> HIDE DEF e
    <3>3. Len(wire') = Len(wire) + 1 /\ \A i \in 1..Len(wire) : wire'[i] = wire[i]
      BY <1>w, <3>1, <3>2, WireFacts
    <3>4. \A i \in 1..Len(wire') : wire'[i].event = "done" => i = Len(wire')
      BY <1>w, <2>1, <3>3, WireFacts
    <3>5. QED BY <2>1, <3>2, <3>4, ServerFacts
  <2>3. CASE ~Ended(status)
    <3>1. wire' = wire  BY <1>4, <2>3 DEF Refresh
    <3>2. QED BY <2>1, <3>1
  <2>4. QED BY <2>2, <2>3
<1>5. CASE Receive
  <2>1. following /\ wire # <<>> /\ wire' = Tail(wire) /\ UNCHANGED server
    BY <1>5 DEF Receive
  <2>w. /\ Len(wire) \in Nat /\ Len(wire') = Len(wire) - 1
        /\ Head(wire) = wire[1] /\ Len(wire) >= 1
        /\ \A i \in 1..Len(wire) - 1 : wire'[i] = wire[i + 1]
    BY <1>w, <2>1, WireFacts
  <2>2. ASSUME NEW i \in 1..Len(wire'), wire'[i].event = "done"
        PROVE  i = Len(wire') /\ server'.pc = "closed"
    <3>1. i + 1 \in 1..Len(wire) /\ wire[i + 1].event = "done"  BY <2>w, <2>2
    <3>2. i + 1 = Len(wire) /\ server.pc = "closed"  BY <3>1
    <3>3. server' = server  BY <2>1
    <3>4. i = Len(wire')  BY <2>w, <3>2
    <3>5. QED BY <3>2, <3>3, <3>4
  <2>3. CASE Head(wire).event = "step"
    <3>1. following'  BY <1>5, <2>1, <2>3 DEF Receive
    <3>2. QED BY <2>2, <3>1
  <2>4. CASE Head(wire).event # "step"
    <3>1. Head(wire) \in Event  BY <1>w, <2>1, HeadTailProperties
    <3>2. wire[1].event = "done"  BY <2>w, <2>4, <3>1, EventFacts
    <3>3. Len(wire) = 1 /\ server.pc = "closed"  BY <2>w, <3>2
    <3>4. wire' = <<>>
      BY <1>w, <2>1, <3>3, HeadTailProperties, EmptySeq
    <3>5. QED BY <2>1, <2>2, <3>3, <3>4
  <2>5. QED BY <2>3, <2>4
<1>6. CASE Disconnect
  <2>1. wire' = <<>> /\ server' = Closed  BY <1>6 DEF Disconnect
  <2>2. Len(wire') = 0  BY <2>1
  <2>3. QED BY <2>1, <2>2, ServerFacts
<1>7. CASE FetchSteps
  <2>1. \/ UNCHANGED streamVars
        \/ wire' = <<>> /\ (following' = TRUE \/ server' = Closed)
    BY <1>7, EffectCases DEF FetchSteps
  <2>2. CASE wire' = <<>> /\ (following' = TRUE \/ server' = Closed)
    <3>1. Len(wire') = 0  BY <2>2
    <3>2. QED BY <2>2, <3>1, ServerFacts
  <2>3. QED BY <1>1, <2>1, <2>2
<1>8. CASE Worker \/ FetchRow \/ Cancel
  BY <1>1, <1>8
     DEF Worker, Begin, PersistStep, End, WorkerStops, FetchRow, Cancel, CancelRead, CancelWrite, CancelDone
<1>9. QED
  BY <1>1, <1>2, <1>3, <1>4, <1>5, <1>6, <1>7, <1>8 DEF Next, Stream, Fetch, vars

-----------------------------------------------------------------------------
(* Terminal statuses *)

\* Before the run has ended nobody has a terminal status.
LEMMA NobodyEnded ==
  ASSUME TypeInv, FinalInv, ~cancelled, status \notin TERMINAL_RUN_STATUSES
  PROVE  /\ fetch = None \/ fetch \notin TERMINAL_RUN_STATUSES
         /\ data.status = None \/ data.status \notin TERMINAL_RUN_STATUSES
         /\ liveStatus = None
         /\ \A i \in 1..Len(wire) : wire[i].event # "done"
<1>1. \A i \in 1..Len(wire) : wire[i] \in Event  BY ElementOfSeq DEF TypeInv
<1>2. \A i \in 1..Len(wire) : wire[i].event = "done" => wire[i].status \in TERMINAL_RUN_STATUSES
  BY <1>1, EventFacts
<1>3. QED BY <1>2 DEF FinalInv, TypeInv

LEMMA FinalInvWorker == TypeInv /\ FinalInv /\ Worker => FinalInv'
<1> SUFFICES ASSUME TypeInv, FinalInv, Worker, ~cancelled' PROVE FinalInv'
  BY DEF FinalInv
<1>1. /\ UNCHANGED <<wire, liveStatus, data, fetch>> /\ ~cancelled
      /\ executing \/ status \notin TERMINAL_RUN_STATUSES
  BY DEF Worker, Begin, PersistStep, End, WorkerStops, streamVars, pageVars, cancelVars
<1>2. status \notin TERMINAL_RUN_STATUSES
  BY <1>1 DEF FinalInv, TERMINAL_RUN_STATUSES
<1>3. executing' => status' = "running"
  BY <1>1 DEF Worker, Begin, PersistStep, End, WorkerStops, FinalInv, rowVars
<1>4. QED BY <1>1, <1>2, <1>3, NobodyEnded DEF FinalInv

LEMMA FinalInvStream == TypeInv /\ FinalInv /\ (Stream \/ Disconnect) => FinalInv'
<1> SUFFICES ASSUME TypeInv, FinalInv, Stream \/ Disconnect, ~cancelled' PROVE FinalInv'
  BY DEF FinalInv
<1>1. UNCHANGED <<rowVars, executing, data, fetch, cancelled>> /\ ~cancelled
  BY DEF Stream, Poll, Emit, Refresh, Receive, Disconnect, pageVars, cancelVars
<1>2. wire \in Seq(Event) /\ Len(wire) \in Nat  BY LenProperties DEF TypeInv
<1>3. /\ liveStatus # None => liveStatus = status
      /\ \A i \in 1..Len(wire) : wire[i].event = "done" => wire[i].status = status
  BY <1>1 DEF FinalInv
<1>4. SUFFICES /\ liveStatus' # None => liveStatus' = status
               /\ \A i \in 1..Len(wire') : wire'[i].event = "done" => wire'[i].status = status
  BY <1>1 DEF FinalInv, rowVars
<1>5. CASE UNCHANGED <<wire, liveStatus>>  BY <1>3, <1>5
<1>6. CASE Emit
  <2> DEFINE e == StepEvent(Head(server.rest))
  <2>1. e \in Event /\ e.event = "step"
    BY <1>6, EventFacts, HeadTailProperties DEF Emit, TypeInv, Server
  <2>2. wire' = Append(wire, e) /\ liveStatus' = liveStatus  BY <1>6 DEF Emit
  <2> HIDE DEF e
  <2>3. /\ Len(wire') = Len(wire) + 1 /\ wire'[Len(wire) + 1] = e
        /\ \A i \in 1..Len(wire) : wire'[i] = wire[i]
    BY <1>2, <2>1, <2>2, WireFacts
  <2>4. \A i \in 1..Len(wire') : i \in 1..Len(wire) \/ i = Len(wire) + 1  BY <1>2, <2>3
  <2>5. QED BY <1>3, <2>1, <2>2, <2>3, <2>4
<1>7. CASE Refresh /\ Ended(status)
  <2> DEFINE e == DoneEvent(status)
  <2>1. e \in Event /\ e.status = status  BY <1>7, EventFacts DEF Ended
  <2>2. wire' = Append(wire, e) /\ liveStatus' = liveStatus  BY <1>7 DEF Refresh
  <2> HIDE DEF e
  <2>3. /\ Len(wire') = Len(wire) + 1 /\ wire'[Len(wire) + 1] = e
        /\ \A i \in 1..Len(wire) : wire'[i] = wire[i]
    BY <1>2, <2>1, <2>2, WireFacts
  <2>4. \A i \in 1..Len(wire') : i \in 1..Len(wire) \/ i = Len(wire) + 1  BY <1>2, <2>3
  <2>5. QED BY <1>3, <2>1, <2>2, <2>3, <2>4
<1>8. CASE Receive
  <2>1. wire # <<>> /\ wire' = Tail(wire)  BY <1>8 DEF Receive
  <2>2. /\ Len(wire') = Len(wire) - 1 /\ Head(wire) = wire[1] /\ Len(wire) >= 1
        /\ \A i \in 1..Len(wire) - 1 : wire'[i] = wire[i + 1]
    BY <1>2, <2>1, WireFacts
  <2>3. ASSUME NEW i \in 1..Len(wire'), wire'[i].event = "done"
        PROVE  wire'[i].status = status
    <3>1. i + 1 \in 1..Len(wire) /\ wire'[i] = wire[i + 1]  BY <1>2, <2>2
    <3>2. QED BY <1>3, <2>3, <3>1
  <2>4. CASE Head(wire).event = "step"
    BY <1>3, <1>8, <2>3, <2>4 DEF Receive
  <2>5. CASE Head(wire).event # "step"
    <3>1. Head(wire) \in Event  BY <1>2, <2>1, HeadTailProperties
    <3>2. 1 \in 1..Len(wire) /\ wire[1].event = "done"  BY <1>2, <2>2, <2>5, <3>1, EventFacts
    <3>3. liveStatus' = wire[1].status  BY <1>8, <2>2, <2>5 DEF Receive
    <3>4. liveStatus' = status  BY <1>3, <3>2, <3>3
    <3>5. QED BY <2>3, <3>4
  <2>6. QED BY <2>4, <2>5
<1>9. CASE Disconnect
  <2>1. Len(wire') = 0 /\ liveStatus' = liveStatus  BY <1>9 DEF Disconnect
  <2>2. QED BY <1>3, <2>1
<1>10. CASE Poll \/ (Refresh /\ ~Ended(status))
  BY <1>5, <1>10 DEF Poll, Refresh
<1>11. QED BY <1>6, <1>7, <1>8, <1>9, <1>10 DEF Stream

LEMMA FinalInvPage == TypeInv /\ FinalInv /\ (Fetch \/ Cancel) => FinalInv'
<1> SUFFICES ASSUME TypeInv, FinalInv, Fetch \/ Cancel, ~cancelled' PROVE FinalInv'
  BY DEF FinalInv
<1>1. CASE FetchRow
  BY <1>1 DEF FetchRow, FinalInv, rowVars, streamVars, cancelVars
<1>2. CASE FetchSteps
  <2>1. /\ UNCHANGED <<rowVars, executing>> /\ ~cancelled /\ fetch # None /\ fetch' = None
        /\ data'.status = fetch /\ data'.steps = steps
    BY <1>2 DEF FetchSteps, cancelVars
  <2>2. \/ UNCHANGED <<wire, liveStatus>>
        \/ wire' = <<>> /\ liveStatus' = None
        \/ wire' = <<>> /\ UNCHANGED liveStatus
    BY <1>2, EffectCases DEF FetchSteps, streamVars
  <2>3. /\ liveStatus' # None => liveStatus' = status
        /\ \A i \in 1..Len(wire') : wire'[i].event = "done" => wire'[i].status = status
    <3>1. wire' = <<>> => Len(wire') = 0  OBVIOUS
    <3>2. QED BY <2>1, <2>2, <3>1 DEF FinalInv
  <2>4. QED BY <2>1, <2>3 DEF FinalInv, rowVars
<1>3. CASE CancelRead \/ CancelDone
  BY <1>3 DEF CancelRead, CancelDone, FinalInv, rowVars, streamVars, pageVars
<1>4. CASE CancelWrite
  BY <1>4 DEF CancelWrite
<1>5. QED BY <1>1, <1>2, <1>3, <1>4 DEF Fetch, Cancel

LEMMA FinalInvStep == TypeInv /\ FinalInv /\ [Next]_vars => FinalInv'
<1>1. FinalInv /\ UNCHANGED vars => FinalInv'
  BY DEF FinalInv, vars, streamVars, pageVars, cancelVars, rowVars
<1>2. QED BY <1>1, FinalInvWorker, FinalInvStream, FinalInvPage DEF Next

-----------------------------------------------------------------------------
(* The first attempt *)

\* Before the first attempt there is nothing to show.
LEMMA NothingYet ==
  ASSUME TypeInv, FirstInv, attempt = 0
  PROVE  /\ steps = <<>> /\ data.steps = <<>> /\ liveSteps = <<>>
         /\ \A i \in 1..Len(wire) : wire[i].event # "step"
         /\ server.pc # "closed" => server.sent = 0 /\ Len(wire) = 0
         /\ server.pc = "emit" => server.rest = <<>>
<1>1. attempt <= 1  OBVIOUS
<1>2. steps = <<>> /\ Len(steps) = 0  BY <1>1, EmptySeq DEF FirstInv
<1>3. /\ data.steps \in Seq(Step) /\ Len(data.steps) \in Nat
      /\ liveSteps \in Seq(Step) /\ Len(liveSteps) \in Nat
      /\ server.rest \in Seq(Step) /\ Len(server.rest) \in Nat
      /\ Len(wire) \in Nat /\ server.sent \in Nat
  BY LenProperties DEF TypeInv, Server
<1>4. Len(data.steps) = 0 /\ Len(liveSteps) = 0  BY <1>1, <1>2, <1>3 DEF FirstInv
<1>5. data.steps = <<>> /\ liveSteps = <<>>  BY <1>3, <1>4, EmptySeq
<1>6. \A i \in 1..Len(wire) : wire[i].event # "step"
  BY <1>1, <1>2, <1>3, <1>4 DEF FirstInv
<1>7. server.pc # "closed" => server.sent = 0 /\ Len(wire) = 0
  BY <1>1, <1>2, <1>3, <1>4 DEF FirstInv
<1>8. server.pc = "emit" => Len(server.rest) = 0
  BY <1>1, <1>2, <1>3, <1>7 DEF FirstInv
<1>9. QED BY <1>2, <1>3, <1>5, <1>6, <1>7, <1>8, EmptySeq

LEMMA FirstInvWorker == TypeInv /\ FirstInv /\ Worker => FirstInv'
<1> SUFFICES ASSUME TypeInv, FirstInv, Worker, attempt' <= 1 PROVE FirstInv'
  BY DEF FirstInv
<1>t. /\ steps \in Seq(Step) /\ Len(steps) \in Nat /\ attempt \in Nat
      /\ liveSteps \in Seq(Step) /\ Len(liveSteps) \in Nat
      /\ server.rest \in Seq(Step) /\ Len(server.rest) \in Nat
      /\ data.steps \in Seq(Step) /\ Len(data.steps) \in Nat
      /\ Len(wire) \in Nat /\ server.sent \in Nat
  BY LenProperties DEF TypeInv, Server
<1>1. CASE Begin
  <2>1. /\ attempt' = attempt + 1 /\ steps' = <<>>
        /\ UNCHANGED <<data, liveSteps, wire, server>>
    BY <1>1 DEF Begin, streamVars, pageVars
  <2>2. attempt = 0  BY <1>t, <2>1
  <2>3. steps = <<>> /\ steps' = steps /\ attempt' = 1 /\ attempt <= 1
    BY <2>1, <2>2, NothingYet
  <2>4. QED BY <2>1, <2>3 DEF FirstInv, Numbered
<1>2. CASE PersistStep
  <2>1. /\ attempt' = attempt /\ attempt = 1 /\ attempt <= 1
        /\ steps' = Append(steps, <<attempt, Len(steps) + 1>>)
        /\ UNCHANGED <<data, liveSteps, wire, server>>
    BY <1>2, <1>t DEF PersistStep, streamVars, pageVars, TypeInv
  <2>2. <<1, Len(steps) + 1>> \in Step  BY <1>2, <2>1, BoundsAssumption, <1>t DEF PersistStep, Step, TypeInv
  <2>3. /\ Len(steps') = Len(steps) + 1
        /\ \A i \in 1..Len(steps) : steps'[i] = steps[i]
        /\ steps'[Len(steps) + 1] = <<1, Len(steps) + 1>>
    BY <1>t, <2>1, <2>2, AppendProperties
  <2>4. Numbered(steps', 0)
    <3> SUFFICES ASSUME NEW i \in 1..Len(steps') PROVE steps'[i] = <<1, 0 + i>>
      BY DEF Numbered
    <3>1. CASE i \in 1..Len(steps)  BY <2>1, <2>3, <3>1 DEF FirstInv, Numbered
    <3>2. CASE i = Len(steps) + 1  BY <1>t, <2>3, <3>2
    <3>3. QED BY <1>t, <2>3, <3>1, <3>2
  <2>5. Len(steps) <= Len(steps') /\ Len(steps') \in Nat /\ attempt' # 0  BY <1>t, <2>1, <2>3
  <2>6. \A k : k <= Len(steps) /\ k \in Nat => k <= Len(steps')  BY <1>t, <2>5
  <2>7. \A i \in 1..Len(wire) : Len(liveSteps) + i \in Nat  BY <1>t
  <2>8. server.sent + Len(server.rest) \in Nat  BY <1>t
  <2>9. QED BY <1>t, <2>1, <2>4, <2>5, <2>6, <2>7, <2>8 DEF FirstInv, Numbered
<1>3. CASE End \/ WorkerStops
  BY <1>3 DEF End, WorkerStops, rowVars, streamVars, pageVars, FirstInv, Numbered
<1>4. QED BY <1>1, <1>2, <1>3 DEF Worker

\* One more step is sent: a of n are, l have been read, w are on the wire and r are
\* in the server's hand.
LEMMA OneMoreSent ==
  ASSUME NEW a \in Nat, NEW l \in Nat, NEW w \in Nat, NEW r \in Nat, NEW n \in Nat,
         a = l + w, a + r <= n, r >= 1
  PROVE  a + 1 = l + (w + 1) /\ a + 1 <= n /\ (a + 1) + (r - 1) <= n
OBVIOUS

LEMMA FirstInvStream == TypeInv /\ StreamInv /\ FirstInv /\ (Stream \/ Disconnect) => FirstInv'
<1> SUFFICES ASSUME TypeInv, StreamInv, FirstInv, Stream \/ Disconnect, attempt' <= 1
             PROVE  FirstInv'
  BY DEF FirstInv
<1>t. /\ steps \in Seq(Step) /\ Len(steps) \in Nat
      /\ liveSteps \in Seq(Step) /\ Len(liveSteps) \in Nat
      /\ server \in Server /\ server.rest \in Seq(Step) /\ Len(server.rest) \in Nat
      /\ wire \in Seq(Event) /\ Len(wire) \in Nat /\ server.sent \in Nat
  BY LenProperties DEF TypeInv, Server
<1>r. UNCHANGED <<rowVars, data>> /\ attempt <= 1
  BY DEF Stream, Poll, Emit, Refresh, Receive, Disconnect, pageVars, rowVars
<1>f. /\ Numbered(steps, 0)
      /\ Numbered(liveSteps, 0) /\ Len(liveSteps) <= Len(steps)
      /\ \A i \in 1..Len(wire) : wire[i].event = "step" =>
           wire[i].step = <<1, Len(liveSteps) + i>> /\ Len(liveSteps) + i <= Len(steps)
      /\ server.pc # "closed" =>
           server.sent = Len(liveSteps) + Len(wire) /\ server.sent <= Len(steps)
      /\ server.pc = "emit" =>
           Numbered(server.rest, server.sent) /\ server.sent + Len(server.rest) <= Len(steps)
  BY <1>r DEF FirstInv
<1>s. SUFFICES
      /\ Numbered(liveSteps', 0) /\ Len(liveSteps') <= Len(steps)
      /\ \A i \in 1..Len(wire') : wire'[i].event = "step" =>
           wire'[i].step = <<1, Len(liveSteps') + i>> /\ Len(liveSteps') + i <= Len(steps)
      /\ server'.pc # "closed" =>
           server'.sent = Len(liveSteps') + Len(wire') /\ server'.sent <= Len(steps)
      /\ server'.pc = "emit" =>
           Numbered(server'.rest, server'.sent) /\ server'.sent + Len(server'.rest) <= Len(steps)
  BY <1>r DEF FirstInv, rowVars, Numbered
<1>1. CASE Poll
  <2>1. /\ server.pc = "poll" /\ UNCHANGED <<wire, liveSteps>>
        /\ server'.rest = StepsAfter(server.sent) /\ server'.sent = server.sent
    BY <1>1, <1>t DEF Poll, Server
  <2>2. /\ Len(StepsAfter(server.sent)) = Len(steps) - server.sent
        /\ \A i \in 1..Len(steps) - server.sent : StepsAfter(server.sent)[i] = steps[server.sent + i]
    BY <1>t, <1>f, <2>1, StepsAfterFacts
  <2>3. Numbered(server'.rest, server'.sent)
    <3> SUFFICES ASSUME NEW i \in 1..Len(server'.rest)
                 PROVE  server'.rest[i] = <<1, server'.sent + i>>
      BY DEF Numbered
    <3>1. i \in 1..Len(steps) - server.sent  BY <2>1, <2>2
    <3>2. server.sent + i \in 1..Len(steps)  BY <1>t, <1>f, <2>1, <3>1
    <3>3. server'.rest[i] = steps[server.sent + i]  BY <2>1, <2>2, <3>1
    <3>4. steps[server.sent + i] = <<1, server.sent + i>>  BY <1>t, <1>f, <3>2 DEF Numbered
    <3>5. QED BY <2>1, <3>3, <3>4
  <2>4. server'.sent + Len(server'.rest) <= Len(steps)  BY <1>t, <1>f, <2>1, <2>2
  <2>5. QED BY <1>f, <2>1, <2>3, <2>4
<1>2. CASE Emit
  <2> DEFINE e == StepEvent(Head(server.rest))
  <2>1. /\ server.pc = "emit" /\ server.rest # <<>> /\ UNCHANGED liveSteps
        /\ wire' = Append(wire, e)
    BY <1>2 DEF Emit
  <2>2. server'.sent = server.sent + 1 /\ server'.rest = Tail(server.rest)
    BY <1>2, <1>t DEF Emit, Server
  <2>3. /\ Head(server.rest) = server.rest[1] /\ Head(server.rest) \in Step
        /\ Len(server.rest) >= 1 /\ Len(server'.rest) = Len(server.rest) - 1
        /\ \A i \in 1..Len(server.rest) - 1 : server'.rest[i] = server.rest[i + 1]
    BY <1>t, <2>1, <2>2, HeadTailProperties, EmptySeq
  <2>4. e \in Event /\ e.event = "step" /\ e.step = <<1, server.sent + 1>>
    <3>1. server.rest[1] = <<1, server.sent + 1>>  BY <1>t, <1>f, <2>1, <2>3 DEF Numbered
    <3>2. QED BY <2>3, <3>1, EventFacts
  <2> HIDE DEF e
  <2>5. /\ Len(wire') = Len(wire) + 1 /\ wire'[Len(wire) + 1] = e
        /\ \A i \in 1..Len(wire) : wire'[i] = wire[i]
    BY <1>t, <2>1, <2>4, WireFacts
  <2>6. /\ server.sent = Len(liveSteps) + Len(wire)
        /\ server.sent + Len(server.rest) <= Len(steps) /\ Len(server.rest) >= 1
    BY <1>f, <2>1, <2>3
  <2>n. /\ Len(steps) \in Nat /\ Len(liveSteps) \in Nat /\ Len(wire) \in Nat
        /\ Len(server.rest) \in Nat /\ server.sent \in Nat
    BY <1>t
  <2>7. ASSUME NEW i \in 1..Len(wire'), wire'[i].event = "step"
        PROVE  wire'[i].step = <<1, Len(liveSteps') + i>> /\ Len(liveSteps') + i <= Len(steps)
    <3>0. liveSteps' = liveSteps  BY <2>1
    <3>1. CASE i \in 1..Len(wire)  BY <1>f, <2>5, <2>7, <3>0, <3>1
    <3>2. CASE i = Len(wire) + 1
      <4>1. wire'[i].step = <<1, server.sent + 1>>  BY <2>4, <2>5, <3>2
      <4>2. server.sent + 1 = Len(liveSteps) + i /\ server.sent + 1 <= Len(steps)
        BY <2>n, <2>6, <3>2, OneMoreSent
      <4>3. QED BY <3>0, <4>1, <4>2
    <3>3. QED BY <1>t, <2>5, <3>1, <3>2
  <2>8. Numbered(server'.rest, server'.sent)
    <3> SUFFICES ASSUME NEW i \in 1..Len(server'.rest)
                 PROVE  server'.rest[i] = <<1, server'.sent + i>>
      BY DEF Numbered
    <3>1. i + 1 \in 1..Len(server.rest) /\ server'.rest[i] = server.rest[i + 1]
      BY <1>t, <2>3
    <3>2. server.rest[i + 1] = <<1, server.sent + (i + 1)>>  BY <1>f, <2>1, <3>1 DEF Numbered
    <3>3. server.sent + (i + 1) = server'.sent + i
      <4>1. i \in Int /\ server.sent \in Nat /\ server'.sent = server.sent + 1
        BY <2>n, <2>2, <3>1
      <4>2. QED BY <4>1
    <3>4. QED BY <3>1, <3>2, <3>3
  <2>9. /\ server'.sent = Len(liveSteps') + Len(wire')
        /\ server'.sent + Len(server'.rest) <= Len(steps) /\ server'.sent <= Len(steps)
    <3>1. /\ Len(liveSteps') = Len(liveSteps) /\ server'.sent = server.sent + 1
          /\ Len(server'.rest) = Len(server.rest) - 1 /\ Len(wire') = Len(wire) + 1
      BY <2>1, <2>2, <2>3, <2>5
    <3>2. /\ server.sent + 1 = Len(liveSteps) + (Len(wire) + 1) /\ server.sent + 1 <= Len(steps)
          /\ (server.sent + 1) + (Len(server.rest) - 1) <= Len(steps)
      BY <2>n, <2>6, OneMoreSent
    <3>3. QED BY <3>1, <3>2
  <2>10. Numbered(liveSteps', 0) /\ Len(liveSteps') <= Len(steps)  BY <1>f, <2>1
  <2>11. QED BY <2>7, <2>8, <2>9, <2>10
<1>3. CASE Refresh /\ Ended(status)
  <2> DEFINE e == DoneEvent(status)
  <2>1. e \in Event /\ e.event = "done"  BY <1>3, EventFacts DEF Ended
  <2>2. wire' = Append(wire, e) /\ liveSteps' = liveSteps /\ server' = Closed  BY <1>3 DEF Refresh
  <2> HIDE DEF e
  <2>3. /\ Len(wire') = Len(wire) + 1 /\ wire'[Len(wire) + 1] = e
        /\ \A i \in 1..Len(wire) : wire'[i] = wire[i]
    BY <1>t, <2>1, <2>2, WireFacts
  <2>4. \A i \in 1..Len(wire') : i \in 1..Len(wire) \/ i = Len(wire) + 1  BY <1>t, <2>3
  <2>5. \A i \in 1..Len(wire') : wire'[i].event = "step" =>
          wire'[i].step = <<1, Len(liveSteps') + i>> /\ Len(liveSteps') + i <= Len(steps)
    BY <1>f, <2>1, <2>2, <2>3, <2>4
  <2>6. QED BY <1>f, <2>2, <2>5, ServerFacts
<1>4. CASE Refresh /\ ~Ended(status)
  <2>1. UNCHANGED <<wire, liveSteps>> /\ server.pc = "emit"  BY <1>4 DEF Refresh
  <2>2. server' = Closed \/ (server'.pc = "poll" /\ server'.sent = server.sent)
    BY <1>4, <1>t DEF Refresh, Server
  <2>3. QED BY <1>f, <2>1, <2>2, ServerFacts
<1>5. CASE Receive /\ Head(wire).event = "step"
  <2> DEFINE e == Head(wire)
  <2>1. /\ wire # <<>> /\ wire' = Tail(wire) /\ UNCHANGED server
        /\ liveSteps' = Append(liveSteps, e.step)
    BY <1>5 DEF Receive
  <2>2. /\ Len(wire') = Len(wire) - 1 /\ e = wire[1] /\ Len(wire) >= 1
        /\ \A i \in 1..Len(wire) - 1 : wire'[i] = wire[i + 1]
    BY <1>t, <2>1, WireFacts
  <2>3. e \in Event /\ e.event = "step" /\ e.step \in Step
    BY <1>5, <1>t, <2>1, HeadTailProperties, EventFacts
  <2> HIDE DEF e
  <2>4. e.step = <<1, Len(liveSteps) + 1>> /\ Len(liveSteps) + 1 <= Len(steps)
    BY <1>t, <1>f, <2>2, <2>3
  <2>5. /\ Len(liveSteps') = Len(liveSteps) + 1
        /\ \A i \in 1..Len(liveSteps) : liveSteps'[i] = liveSteps[i]
        /\ liveSteps'[Len(liveSteps) + 1] = e.step
    BY <1>t, <2>1, <2>3, AppendProperties
  <2>6. Numbered(liveSteps', 0)
    <3> SUFFICES ASSUME NEW i \in 1..Len(liveSteps') PROVE liveSteps'[i] = <<1, 0 + i>>
      BY DEF Numbered
    <3>1. CASE i \in 1..Len(liveSteps)  BY <1>f, <2>5, <3>1 DEF Numbered
    <3>2. CASE i = Len(liveSteps) + 1  BY <1>t, <2>4, <2>5, <3>2
    <3>3. QED BY <1>t, <2>5, <3>1, <3>2
  <2>7. ASSUME NEW i \in 1..Len(wire'), wire'[i].event = "step"
        PROVE  wire'[i].step = <<1, Len(liveSteps') + i>> /\ Len(liveSteps') + i <= Len(steps)
    <3>1. i + 1 \in 1..Len(wire) /\ wire'[i] = wire[i + 1]  BY <1>t, <2>2
    <3>2. /\ wire[i + 1].step = <<1, Len(liveSteps) + (i + 1)>>
          /\ Len(liveSteps) + (i + 1) <= Len(steps)
      BY <1>f, <2>7, <3>1
    <3>3. Len(liveSteps) + (i + 1) = Len(liveSteps') + i  BY <1>t, <2>5
    <3>4. QED BY <3>1, <3>2, <3>3
  <2>8. Len(liveSteps') + Len(wire') = Len(liveSteps) + Len(wire) /\ Len(liveSteps') <= Len(steps)
    BY <1>t, <2>2, <2>4, <2>5
  <2>9. server' = server  BY <2>1
  <2>10. QED BY <1>f, <2>6, <2>7, <2>8, <2>9
<1>6. CASE Receive /\ Head(wire).event # "step"
  <2>1. wire # <<>> /\ wire' = Tail(wire) /\ UNCHANGED <<server, liveSteps>>
    BY <1>6 DEF Receive
  <2>2. Len(wire) >= 1 /\ Len(wire') = Len(wire) - 1 /\ wire[1] = Head(wire)
    BY <1>t, <2>1, WireFacts
  <2>3. wire[1].event = "done"  BY <1>6, <1>t, <2>1, <2>2, EventFacts, HeadTailProperties
  <2>4. Len(wire) = 1 /\ server.pc = "closed"  BY <1>t, <2>2, <2>3 DEF StreamInv
  <2>5. Len(wire') = 0  BY <2>2, <2>4
  <2>6. liveSteps' = liveSteps /\ server'.pc = "closed"  BY <2>1, <2>4
  <2>7. QED BY <1>f, <2>5, <2>6
<1>7. CASE Disconnect
  <2>1. Len(wire') = 0 /\ liveSteps' = liveSteps /\ server' = Closed  BY <1>7 DEF Disconnect
  <2>2. QED BY <1>f, <2>1, ServerFacts
<1>8. QED BY <1>1, <1>2, <1>3, <1>4, <1>5, <1>6, <1>7 DEF Stream

LEMMA FirstInvPage == TypeInv /\ FirstInv /\ (Fetch \/ Cancel) => FirstInv'
<1> SUFFICES ASSUME TypeInv, FirstInv, Fetch \/ Cancel, attempt' <= 1 PROVE FirstInv'
  BY DEF FirstInv
<1>1. CASE FetchSteps
  <2>1. UNCHANGED rowVars /\ attempt <= 1 /\ data'.steps = steps  BY <1>1 DEF FetchSteps, rowVars
  <2>2. \/ UNCHANGED <<liveSteps, wire, server>>
        \/ /\ liveSteps' = <<>> \/ UNCHANGED liveSteps
           /\ wire' = <<>> /\ server' = Closed
        \/ liveSteps' = <<>> /\ wire' = <<>> /\ server' = [Closed EXCEPT !.pc = "poll"]
    BY <1>1, EffectCases DEF FetchSteps, streamVars
  <2>3. Len(steps) \in Nat  BY LenProperties DEF TypeInv
  <2>4. Len(<<>>) = 0  OBVIOUS
  <2>5. Numbered(data'.steps, 0) /\ Len(data'.steps) <= Len(steps)
    BY <2>1, <2>3 DEF FirstInv, Numbered
  <2>6. CASE UNCHANGED <<liveSteps, wire, server>>
    BY <2>1, <2>5, <2>6 DEF FirstInv, Numbered, rowVars
  <2>7. CASE wire' = <<>> /\ server' = Closed /\ (liveSteps' = <<>> \/ UNCHANGED liveSteps)
    <3>1. Numbered(liveSteps', 0) /\ Len(liveSteps') <= Len(steps)
      BY <2>1, <2>3, <2>4, <2>7 DEF FirstInv, Numbered
    <3>2. QED BY <2>1, <2>4, <2>5, <2>7, <3>1, ServerFacts DEF FirstInv, Numbered, rowVars
  <2>8. CASE liveSteps' = <<>> /\ wire' = <<>> /\ server' = [Closed EXCEPT !.pc = "poll"]
    <3>1. Numbered(liveSteps', 0) /\ Len(liveSteps') <= Len(steps)
      BY <2>3, <2>4, <2>8 DEF Numbered
    <3>2. server'.pc = "poll" /\ server'.sent = 0 /\ Len(liveSteps') = 0 /\ Len(wire') = 0
      BY <2>4, <2>8, ServerFacts
    <3>3. QED BY <2>1, <2>3, <2>5, <3>1, <3>2 DEF FirstInv, Numbered, rowVars
  <2>9. QED BY <2>2, <2>6, <2>7, <2>8
<1>2. CASE FetchRow \/ Cancel
  <2>1. UNCHANGED <<attempt, steps, data, liveSteps, wire, server>>
    BY <1>2
       DEF FetchRow, Cancel, CancelRead, CancelWrite, CancelDone, rowVars, streamVars, pageVars
  <2>2. QED BY <2>1 DEF FirstInv, Numbered
<1>3. QED BY <1>1, <1>2 DEF Fetch

LEMMA FirstInvStep == TypeInv /\ StreamInv /\ FirstInv /\ [Next]_vars => FirstInv'
<1>1. FirstInv /\ UNCHANGED vars => FirstInv'
  BY DEF FirstInv, Numbered, vars, streamVars, pageVars, rowVars
<1>2. QED BY <1>1, FirstInvWorker, FirstInvStream, FirstInvPage DEF Next

-----------------------------------------------------------------------------
(* Theorems *)

LEMMA InitInv == Init => IInv
<1> SUFFICES ASSUME Init PROVE IInv  OBVIOUS
<1>1. steps = <<>> /\ data.steps = <<>> /\ liveSteps = <<>> /\ Len(wire) = 0
      /\ wire = <<>> /\ server = Closed /\ attempt = 0
  BY DEF Init, NoData
<1>2. StreamInv  BY <1>1, ServerFacts DEF StreamInv
<1>3. Len(steps) = 0 /\ Len(data.steps) = 0 /\ Len(liveSteps) = 0  BY <1>1
<1>4. FirstInv  BY <1>1, <1>3, ServerFacts DEF FirstInv, Numbered
<1>5. FinalInv  BY <1>1 DEF Init, FinalInv, NoData
<1>6. QED BY <1>2, <1>4, <1>5, TypeInvInit, FlagsInvInit DEF IInv

LEMMA StepInv == IInv /\ [Next]_vars => IInv'
BY FlagsInvStep, TypeInvStep, StreamInvStep, FinalInvStep, FirstInvStep DEF IInv

\* The invariant of all the states of the page.
THEOREM Invariance == Spec => []IInv
BY InitInv, StepInv, PTL DEF Spec

\* The variables keep their types: the worker never numbers a step beyond the
\* bounds, and a stream never polls more often than it may.
THEOREM TypeCorrect == Spec => []TypeOK
<1>1. FlagsInv /\ TypeInv => TypeOK
  <2> SUFFICES ASSUME FlagsInv, TypeInv PROVE TypeOK  OBVIOUS
  <2>1. executing \in BOOLEAN /\ following \in BOOLEAN /\ refetch \in BOOLEAN /\ cancelled \in BOOLEAN
    BY DEF FlagsInv
  <2>2. \A i \in DOMAIN wire :
          wire[i] \in {StepEvent(s) : s \in Step} \cup {DoneEvent(s) : s \in TERMINAL_RUN_STATUSES}
    BY LenProperties, ElementOfSeq DEF TypeInv, Event
  <2>3. /\ status \in Statuses /\ attempt \in 0..MaxAttempts /\ steps \in Seq(Step)
        /\ server.pc \in {"closed", "poll", "emit", "refresh"}
        /\ server.sent \in Nat /\ server.polls \in 0..MaxPolls /\ server.rest \in Seq(Step)
        /\ liveSteps \in Seq(Step) /\ liveStatus \in TERMINAL_RUN_STATUSES \cup {None}
        /\ data.status \in Statuses \cup {None} /\ data.steps \in Seq(Step)
        /\ fetch \in Statuses \cup {None} /\ cancelling \in {"no", "read", "written", "done"}
    BY DEF TypeInv, Server
  <2>4. QED BY <2>1, <2>2, <2>3 DEF TypeOK
<1>2. QED BY <1>1, Invariance, PTL DEF IInv

\* Up to the first retry the page shows a prefix of the steps the worker has
\* committed, whichever way they came: none is doubled, skipped or reordered by
\* the stream (which counts what it has sent) or by the fetch that overtakes it.
THEOREM PageShowsAPrefix == Spec => []TimelineIsAPrefix
<1>1. TypeInv /\ FirstInv => TimelineIsAPrefix
  <2> SUFFICES ASSUME TypeInv, FirstInv, attempt <= 1 PROVE IsPrefix(Shown, steps)
    BY DEF TimelineIsAPrefix
  <2>1. /\ steps \in Seq(Step) /\ liveSteps \in Seq(Step) /\ data.steps \in Seq(Step)
        /\ Numbered(steps, 0)
        /\ Numbered(data.steps, 0) /\ Len(data.steps) <= Len(steps)
        /\ Numbered(liveSteps, 0) /\ Len(liveSteps) <= Len(steps)
    BY DEF TypeInv, FirstInv
  <2>2. IsPrefix(liveSteps, steps) /\ IsPrefix(data.steps, steps)  BY <2>1, NumberedPrefix
  <2>3. QED BY <2>2 DEF Shown
<1>2. QED BY <1>1, Invariance, PTL DEF IInv

\* A page that has stopped fetching shows the status the run ended with, after
\* any number of retries, and all the steps if there was none: the fetch that
\* brings a terminal status reads the steps after it, and nothing is committed
\* to a run that has ended.
THEOREM StoppedPageShowsTheEnd == Spec => []StoppedPageIsRight
<1>1. TypeInv /\ FinalInv /\ FirstInv => StoppedPageIsRight
  <2> SUFFICES ASSUME TypeInv, FinalInv, FirstInv, Stopped, ~cancelled
               PROVE  ShownStatus = status /\ (attempt <= 1 => Shown = steps)
    BY DEF StoppedPageIsRight
  <2>1. data.status # None /\ data.status \in TERMINAL_RUN_STATUSES
    BY DEF Stopped, RefetchDue, Live
  <2>2. data.status = status /\ data.steps = steps  BY <2>1 DEF FinalInv
  <2>3. ShownStatus = status  BY <2>2 DEF ShownStatus, FinalInv
  <2>4. ASSUME attempt <= 1 PROVE Shown = steps
    <3>1. Len(liveSteps) <= Len(steps) /\ Len(steps) \in Nat /\ Len(liveSteps) \in Nat
      BY <2>4, LenProperties DEF FirstInv, TypeInv
    <3>2. QED BY <2>2, <3>1 DEF Shown
  <2>5. QED BY <2>3, <2>4
<1>2. QED BY <1>1, Invariance, PTL DEF IInv
=============================================================================
