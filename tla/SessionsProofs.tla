----------------------------- MODULE SessionsProofs -----------------------------
(***************************************************************************)
(* What holds of a user's sessions for every set of tabs, other actors and *)
(* tokens and any number of requests and failures.  The inductive          *)
(* invariant says what a request that has read and not committed yet may   *)
(* still rely on, although the rows have changed since.                    *)
(***************************************************************************)
EXTENDS Sessions, TLAPS

-----------------------------------------------------------------------------
(* Types *)

LEMMA Constants ==
  /\ Idle \in Request /\ Nowhere \in Origin
  /\ Tabs \subseteq Actors /\ Others \subseteq Actors
  /\ \A c \in Tokens \cup {None} : LogoutWith(c) \in Request
  BY DEF Idle, Request, Nowhere, Origin, Actors, LogoutWith, TabKinds

LEMMA LiveTokensType == LiveTokens \subseteq Tokens
  BY DEF LiveTokens

LEMMA RevokedByType ==
  ASSUME NEW kind, NEW with PROVE RevokedBy(kind, with) \in SUBSET Tokens
  BY LiveTokensType DEF RevokedBy

LEMMA RefusedType ==
  ASSUME TypeOK, NEW a \in Actors PROVE Refused(a) \in Request
<1>1. req[a] \in Request
  BY DEF TypeOK
<1>2. QED
  BY <1>1 DEF Refused, Idle, Request, Nowhere, Origin

\* Only a live token passes for a refresh.
LEMMA RefreshPasses ==
  ASSUME NEW with, Passes("refresh", with) PROVE IsLive(with)
  BY DEF Passes, IsLive, MayEnter, HasUser, LinkHolds, Links

LEMMA StrikeType ==
  ASSUME TypeOK, NEW kind, Strike(kind) PROVE faults' \in Nat /\ kept' \in BOOLEAN
<1>1. faults \in Nat /\ faults' = faults + 1
  BY DEF TypeOK, Strike
<1>2. faults' \in Nat
  BY <1>1
<1>3. kept' \in BOOLEAN
  BY DEF Strike
<1>4. QED
  BY <1>2, <1>3

\* A request past its reads.
LEMMA PastReadsType ==
  ASSUME TypeOK, NEW kind \in Overtakable, NEW with \in Tokens \cup {None}, Passes(kind, with)
  PROVE  PastReads(kind, with) \in Request /\ OriginOf(kind, with) \in Origin
<1>1. OriginOf(kind, with) \in Origin
  <2>1. CASE kind = "refresh"
    <3>1. with \in Tokens
      BY <2>1, RefreshPasses DEF IsLive
    <3>2. row[with] \in TokenRow
      BY <3>1 DEF TypeOK
    <3>3. QED
      BY <2>1, <3>2 DEF OriginOf, TokenRow
  <2>2. CASE kind = "login"
    BY <2>2 DEF OriginOf, Nowhere, Origin, TypeOK
  <2>3. CASE kind \in Links
    BY <2>3, Constants DEF OriginOf, Links
  <2>4. QED
    BY <2>1, <2>2, <2>3 DEF Overtakable, Issuing
<1>2. (IF kind = "verify" THEN status ELSE "none") \in UserStatus \cup {"none"}
  BY DEF Passes, Links, LinkHolds, HasUser
<1>3. kind \in TabKinds \cup OtherKinds
  BY DEF Overtakable, Issuing, Links, TabKinds, OtherKinds
<1>4. QED
  BY <1>1, <1>2, <1>3 DEF PastReads, Idle, Request

LEMMA PastStatementsType ==
  ASSUME TypeOK, NEW kind \in TabKinds \cup OtherKinds \cup {"none"},
         NEW with \in Tokens \cup {None}
  PROVE  PastStatements(kind, with) \in Request
<1>1. RevokedBy(kind, with) \in SUBSET Tokens
  BY RevokedByType
<1>2. Nowhere \in Origin /\ None \in Tokens \cup {None}
  BY Constants
<1>3. QED
  BY <1>1, <1>2 DEF PastStatements, Idle, Request

\* The row a request past its reads inserts, if any.
LEMMA NewTokenType ==
  ASSUME NEW a \in Actors, Flush(a)
  PROVE  /\ Issues(a) => NewToken(a) \in FreeTokens
         /\ ~Issues(a) => NewToken(a) = None
         /\ NewToken(a) \in Tokens \cup {None}
  BY DEF Flush, NewToken, FreeTokens

\* The rows after a commit, and the request table.
LEMMA CommitType ==
  ASSUME TypeOK, NEW a \in Actors
  PROVE  /\ RowsAfter(a) \in [Tokens -> TokenRow]
         /\ [b \in Actors |-> Over(a, b)] \in [Actors -> Request]
<1>1. req[a] \in Request
  BY DEF TypeOK
<1>2. ASSUME NEW t \in Tokens, t = req[a].new PROVE Inserted(a) \in TokenRow
  <2>1. (IF req[a].origin.login = None THEN req[a].new ELSE req[a].origin.login) \in Tokens \cup {None}
    BY <1>1, <1>2 DEF Request, Origin
  <2>2. (req[a].origin.stray \/ Changing) \in BOOLEAN
    BY <1>1 DEF Request, Origin, Changing
  <2>3. QED
    BY <1>1, <2>1, <2>2 DEF Inserted, Request, Origin, TokenRow
<1>3. ASSUME NEW t \in Tokens
      PROVE  row[t] \in TokenRow /\ [state |-> "revoked", origin |-> Nowhere] \in TokenRow
  BY Constants DEF TypeOK, TokenRow
<1>4. ASSUME NEW b \in Actors PROVE Over(a, b) \in Request
  <2>1. req[b] \in Request
    BY DEF TypeOK
  <2>2. [req[b] EXCEPT !.origin.stray = TRUE] \in Request
    BY <2>1 DEF Request, Origin
  <2>3. [Idle EXCEPT !.kind = req[a].kind, !.pc = "committed", !.cookie = req[a].cookie,
                     !.new = req[a].new] \in Request
    BY <1>1 DEF Request, Idle, Nowhere, Origin
  <2>4. QED
    BY <2>1, <2>2, <2>3, Constants DEF Over
<1>5. QED
  BY <1>2, <1>3, <1>4 DEF RowsAfter

\* A refresh that has written carries the login it goes back to.
RefreshOrigin ==
  \A a \in Actors : req[a].kind = "refresh" /\ Uncommitted(a) => req[a].origin.login \in Tokens

LEMMA NextTypeOK == ASSUME TypeOK, RefreshOrigin, [Next]_vars PROVE TypeOK'
<1> USE DEF TypeOK, dbVars, webVars
<1>1. CASE SignUp \/ StartPasswordReset \/ RequestEmailChange
  BY <1>1 DEF SignUp, StartPasswordReset, RequestEmailChange, Mail, UserStatus, Links
<1>2. ASSUME NEW a \in Actors, NEW kind \in TabKinds \cup OtherKinds, Send(a, kind) PROVE TypeOK'
  <2>1. asked' \in Nat /\ kept' \in BOOLEAN
    BY <1>2 DEF Send, Quiet
  <2>2. req' \in [Actors -> Request]
    <3>1. CASE kind \in WithCookie
      <4>1. [Idle EXCEPT !.kind = kind, !.pc = "sent", !.cookie = cookie] \in Request
        BY DEF Idle, Request, Nowhere, Origin
      <4>2. QED
        BY <1>2, <3>1, <4>1 DEF Send
    <3>2. CASE kind \notin WithCookie /\ kind \in Overtakable
      <4>1. PastReads(kind, None) \in Request
        BY <1>2, <3>2, PastReadsType DEF Send
      <4>2. QED
        BY <1>2, <3>2, <4>1 DEF Send
    <3>3. CASE kind \notin WithCookie /\ kind \notin Overtakable
      <4>1. PastStatements(kind, None) \in Request
        BY <1>2, <3>3, PastStatementsType DEF Send
      <4>2. QED
        BY <1>2, <3>3, <4>1 DEF Send
    <3>4. QED
      BY <3>1, <3>2, <3>3
  <2>3. QED
    BY <1>2, <2>1, <2>2 DEF Send
<1>3. ASSUME NEW a \in Actors, Read(a) PROVE TypeOK'
  <2>1. req[a] \in Request /\ req[a].cookie \in Tokens \cup {None}
    BY DEF Request
  <2>2. CASE Passes(req[a].kind, req[a].cookie) /\ req[a].kind = "refresh"
    <3>1. PastReads(req[a].kind, req[a].cookie) \in Request
      BY <2>1, <2>2, PastReadsType DEF Overtakable, Issuing
    <3>2. QED
      BY <1>3, <2>2, <3>1 DEF Read
  <2>3. CASE Passes(req[a].kind, req[a].cookie) /\ req[a].kind # "refresh"
    <3>1. PastStatements(req[a].kind, req[a].cookie) \in Request
      <4>1. req[a].kind \in TabKinds \cup OtherKinds \cup {"none"}
        BY <2>1 DEF Request
      <4>2. QED
        BY <2>1, <2>3, <4>1, PastStatementsType
    <3>2. QED
      BY <1>3, <2>3, <3>1 DEF Read
  <2>4. CASE ~Passes(req[a].kind, req[a].cookie)
    <3>1. [req[a] EXCEPT !.pc = "refused", !.cookie = None,
                         !.revokes = IF Reused(req[a].cookie) THEN LiveTokens ELSE {}] \in Request
      BY <2>1, LiveTokensType DEF Request
    <3>2. QED
      BY <1>3, <2>4, <3>1 DEF Read
  <2>5. QED
    BY <2>2, <2>3, <2>4
<1>4. ASSUME NEW a \in Actors, Flush(a) PROVE TypeOK'
  <2>1. NewToken(a) \in Tokens \cup {None}
    BY <1>4, NewTokenType
  <2>2. [req[a] EXCEPT !.pc = "flushed", !.new = NewToken(a),
                       !.revokes = RevokedBy(req[a].kind, req[a].cookie)] \in Request
    BY <2>1, RevokedByType DEF Request
  <2>3. req' = [req EXCEPT ![a] = [req[a] EXCEPT !.pc = "flushed", !.new = NewToken(a),
                                     !.revokes = RevokedBy(req[a].kind, req[a].cookie)]]
    BY <1>4 DEF Flush
  <2>4. QED
    BY <1>4, <2>2, <2>3 DEF Flush
<1>5. ASSUME NEW a \in Actors, FlushFails(a) \/ Refuse(a) \/ Fail(a) PROVE TypeOK'
  <2>1. req' \in [Actors -> Request]
    BY <1>5, RefusedType, Constants
       DEF FlushFails, Refuse, AfterRefusal, Fail, RequestFails, CommitFails, Lost
  <2>2. UNCHANGED <<status, changes, row, link, cookie, asked, forked>>
    BY <1>5 DEF FlushFails, Refuse, Fail, RequestFails, CommitFails, Lost
  <2>3. access' \subseteq Tabs
    BY <1>5 DEF FlushFails, Refuse, Fail, RequestFails, CommitFails, Lost
  <2>4. faults' \in Nat /\ kept' \in BOOLEAN
    BY <1>5, StrikeType DEF FlushFails, Refuse, Fail, RequestFails, CommitFails, Lost
  <2>5. QED
    BY <2>1, <2>2, <2>3, <2>4
<1>6. ASSUME NEW a \in Actors, Commit(a) PROVE TypeOK'
  <2>1. req[a] \in Request
    OBVIOUS
  <2>2. status' \in UserStatus \cup {"absent", "deleted"} /\ changes' \in Nat
    BY <1>6 DEF Commit, NewStatus, UserStatus
  <2>3. link' \in [Links -> {"none", "valid", "used"}]
    BY <1>6 DEF Commit
  <2>4. forked' \subseteq Tokens
    BY <1>6 DEF Commit, RefreshOrigin
  <2>5. QED
    BY <1>6, <2>2, <2>3, <2>4, CommitType DEF Commit
<1>7. ASSUME NEW a \in Actors, Answer(a) PROVE TypeOK'
  <2>1. req[a] \in Request /\ [req[a] EXCEPT !.pc = "answered"] \in Request
    BY DEF Request
  <2>2. req' \in [Actors -> Request]
    BY <1>7, <2>1, Constants DEF Answer
  <2>3. cookie' \in Tokens \cup {None} /\ access' \subseteq Tabs /\ kept' \in BOOLEAN
    BY <1>7, <2>1 DEF Answer, CookieAfter, AccessAfter, Request, IsLive, MayEnter, HasUser
  <2>4. QED
    BY <1>7, <2>2, <2>3 DEF Answer
<1>8. ASSUME NEW t \in Tokens, Expire(t) PROVE TypeOK'
  <2>1. [state |-> "expired", origin |-> Nowhere] \in TokenRow
    BY Constants DEF TokenRow
  <2>2. row' \in [Tokens -> TokenRow]
    BY <1>8, <2>1 DEF Expire
  <2>3. faults' \in Nat /\ kept' \in BOOLEAN
    BY <1>8, StrikeType DEF Expire
  <2>4. QED
    BY <1>8, <2>2, <2>3 DEF Expire
<1>9. CASE UNCHANGED vars
  BY <1>9 DEF vars
<1>10. QED
  BY <1>1, <1>2, <1>3, <1>4, <1>5, <1>6, <1>7, <1>8, <1>9, Constants DEF Next, Serve, Receive

-----------------------------------------------------------------------------
(* The inductive invariant *)

Pending(q) == q.pc \in {"read", "flushed", "answered"}
Written(q) == q.pc \in {"flushed", "answered"}
Used(t)    == t \in Tokens /\ row[t].state # "free"

\* A live token goes back to a login that took place.
RowsInv ==
  /\ SessionsEndWithCredentials
  /\ OneTokenPerLogin
  /\ \A t \in LiveTokens : Used(row[t].origin.login)

\* The live tokens of the login a refresh goes back to: the one it came with.
OwnLogin(q) ==
  \A t \in LiveTokens : row[t].origin.login = q.origin.login => t = q.cookie \/ q.origin.login \in forked

\* What a request past its reads relies on, and once it has written.
WrittenInv(q) ==
  /\ q.kind \in Issuing => q.new \in Tokens /\ row[q.new].state = "free"
  /\ \A t \in q.revokes : Used(t)
  /\ q.kind = "refresh" /\ IsLive(q.cookie) => q.cookie \in q.revokes
  /\ q.kind \in Changes => \A t \in LiveTokens : t \in q.revokes \/ row[t].origin.stray
RequestInv(q) ==
  /\ q.pc = "read" => q.kind \in Overtakable
  /\ q.kind \notin Issuing => q.new = None
  /\ q.kind \in Issuing => q.origin.since = changes \/ q.origin.stray
  /\ q.kind = "login" => q.origin.login = None
  /\ q.kind = "refresh" => Used(q.cookie) /\ Used(q.origin.login) /\ OwnLogin(q)
  /\ Written(q) => WrittenInv(q)

\* Two such requests: two refreshes of one login came with one token, and two
\* requests insert two rows.
PairInv(p, q) ==
  /\ p.kind = "refresh" /\ q.kind = "refresh" /\ p.origin.login = q.origin.login
       => p.cookie = q.cookie \/ p.origin.login \in forked
  /\ Written(p) /\ Written(q) /\ p.new = q.new => p.new = None

RequestsInv ==
  /\ \A a \in Actors : req[a].pc = "sent" => req[a].kind \in WithCookie
  /\ \A a \in Actors : Pending(req[a]) => RequestInv(req[a])
  /\ \A a, b \in Actors : a # b /\ Pending(req[a]) /\ Pending(req[b]) => PairInv(req[a], req[b])

IInv == TypeOK /\ RowsInv /\ RequestsInv

LEMMA IInvTypes == IInv => RefreshOrigin
  BY DEF IInv, RequestsInv, RequestInv, RefreshOrigin, Pending, Uncommitted, Used

LEMMA InitIInv == Init => IInv
<1> SUFFICES ASSUME Init PROVE IInv
  OBVIOUS
<1>1. TypeOK
  <2>1. row \in [Tokens -> TokenRow] /\ req \in [Actors -> Request]
    BY Constants DEF Init, TokenRow
  <2>2. kept \in BOOLEAN /\ forked \subseteq Tokens /\ access \subseteq Tabs
    BY DEF Init
  <2>3. status = "absent" /\ {changes, asked, faults} \subseteq Nat /\ cookie = None
    BY DEF Init
  <2>4. link \in [Links -> {"none", "valid", "used"}]
    BY DEF Init
  <2>5. QED
    BY <2>1, <2>2, <2>3, <2>4 DEF TypeOK
<1>2. LiveTokens = {}
  BY DEF Init, LiveTokens, IsLive
<1>3. \A a \in Actors : ~Pending(req[a]) /\ req[a].pc # "sent"
  BY DEF Init, Idle, Pending
<1>4. QED
  BY <1>1, <1>2, <1>3 DEF IInv, RowsInv, RequestsInv, SessionsEndWithCredentials, OneTokenPerLogin

-----------------------------------------------------------------------------
(* Steps of one request that leave the rows alone *)

LEMMA Replace ==
  ASSUME IInv, NEW a \in Actors, NEW q \in Request,
         req' = [req EXCEPT ![a] = q], UNCHANGED <<row, changes, forked>>,
         q.pc = "sent" => q.kind \in WithCookie,
         Pending(q) => /\ RequestInv(q)
                       /\ \A b \in Actors \ {a} : Pending(req[b]) => PairInv(q, req[b])
  PROVE  RowsInv' /\ RequestsInv'
<1>1. RowsInv'
  BY DEF IInv, RowsInv, SessionsEndWithCredentials, OneTokenPerLogin, LiveTokens, IsLive, Used
<1>2. \A p : RequestInv(p)' <=> RequestInv(p)
  BY DEF RequestInv, WrittenInv, OwnLogin, LiveTokens, IsLive, Used, Written
<1>3. \A b \in Actors : req'[b] = IF b = a THEN q ELSE req[b]
  BY DEF IInv, TypeOK
<1>4. ASSUME NEW b \in Actors, Pending(req[b])' PROVE RequestInv(req[b])'
  BY <1>2, <1>3, <1>4 DEF IInv, RequestsInv, Pending
<1>5. ASSUME NEW b \in Actors, NEW c \in Actors, b # c, Pending(req[b])', Pending(req[c])'
      PROVE  PairInv(req[b], req[c])'
  BY <1>3, <1>5 DEF IInv, RequestsInv, Pending, PairInv, Written
<1>6. \A b \in Actors : (req[b].pc = "sent" => req[b].kind \in WithCookie)'
  BY <1>3 DEF IInv, RequestsInv
<1>7. QED
  BY <1>1, <1>4, <1>5, <1>6 DEF RequestsInv

\* Such a step may end the request.
LEMMA Settle ==
  ASSUME IInv, NEW a \in Actors, NEW q \in Request, ~Pending(q),
         q.pc = "sent" => q.kind \in WithCookie,
         req' = [req EXCEPT ![a] = q], UNCHANGED <<row, changes, forked>>
  PROVE  RowsInv' /\ RequestsInv'
  BY Replace

\* A request that passes: the token of a refresh is the live one.
LEMMA Reading ==
  ASSUME IInv, NEW kind \in Overtakable, NEW with \in Tokens \cup {None}, Passes(kind, with)
  PROVE  /\ PastReads(kind, with).pc = "read" /\ RequestInv(PastReads(kind, with))
         /\ \A b \in Actors : Pending(req[b]) => PairInv(PastReads(kind, with), req[b])
<1> DEFINE q == PastReads(kind, with)
<1>1. /\ q.kind = kind /\ q.pc = "read" /\ q.cookie = with /\ q.new = None
      /\ q.origin = OriginOf(kind, with)
  BY DEF PastReads, Idle
<1>2. ~Written(q)
  BY <1>1 DEF Written
<1>3. CASE kind = "login"
  <2>1. q.origin = [Nowhere EXCEPT !.since = changes]
    BY <1>1, <1>3 DEF OriginOf
  <2>2. q.origin.login = None /\ q.origin.since = changes
    BY <2>1 DEF Nowhere
  <2>3. QED
    BY <1>1, <1>2, <1>3, <2>2 DEF RequestInv, PairInv, Issuing, Overtakable
<1>4. CASE kind = "refresh"
  <2>1. with \in LiveTokens /\ Used(with)
    BY <1>4, RefreshPasses DEF IsLive, LiveTokens, Used
  <2>2. q.origin = row[with].origin
    BY <1>1, <1>4 DEF OriginOf
  <2>3. RequestInv(q)
    <3>1. q.origin.since = changes \/ q.origin.stray
      BY <2>1, <2>2 DEF IInv, RowsInv, SessionsEndWithCredentials
    <3>2. Used(q.origin.login)
      BY <2>1, <2>2 DEF IInv, RowsInv
    <3>3. OwnLogin(q)
      BY <1>1, <2>1, <2>2 DEF IInv, RowsInv, OneTokenPerLogin, OwnLogin
    <3>4. QED
      BY <1>1, <1>2, <1>4, <2>1, <3>1, <3>2, <3>3 DEF RequestInv, Issuing, Overtakable
  <2>4. ASSUME NEW b \in Actors, Pending(req[b]) PROVE PairInv(q, req[b])
    <3>1. RequestInv(req[b])
      BY <2>4 DEF IInv, RequestsInv
    <3>2. req[b].kind = "refresh" => OwnLogin(req[b])
      BY <3>1 DEF RequestInv
    <3>3. QED
      BY <1>1, <1>2, <2>1, <2>2, <3>2 DEF PairInv, OwnLogin
  <2>5. QED
    BY <1>1, <2>3, <2>4
<1>5. CASE kind \in Links
  BY <1>1, <1>2, <1>5 DEF RequestInv, PairInv, Issuing, Links, Overtakable
<1>6. QED
  BY <1>3, <1>4, <1>5 DEF Issuing, Overtakable

\* A request that runs its statements at once: it inserts no token.
LEMMA Writing ==
  ASSUME IInv, NEW kind, kind \notin Issuing, NEW with
  PROVE  /\ PastStatements(kind, with).pc = "flushed" /\ RequestInv(PastStatements(kind, with))
         /\ \A b \in Actors : Pending(req[b]) => PairInv(PastStatements(kind, with), req[b])
<1> DEFINE q == PastStatements(kind, with)
<1>1. q.kind = kind /\ q.pc = "flushed" /\ q.new = None /\ q.revokes = RevokedBy(kind, with)
  BY DEF PastStatements, Idle
<1>2. kind # "login" /\ kind # "refresh"
  BY DEF Issuing
<1>3. RevokedBy(kind, with) \subseteq LiveTokens /\ (kind \in Changes => RevokedBy(kind, with) = LiveTokens)
  BY DEF RevokedBy
<1>4. \A t \in LiveTokens : Used(t)
  BY DEF LiveTokens, IsLive, Used
<1>5. WrittenInv(q)
  BY <1>1, <1>2, <1>3, <1>4 DEF WrittenInv
<1>6. RequestInv(q)
  BY <1>1, <1>2, <1>5 DEF RequestInv
<1>7. \A b \in Actors : PairInv(q, req[b])
  BY <1>1, <1>2 DEF PairInv
<1>8. QED
  BY <1>1, <1>6, <1>7

\* The statements of a request past its reads: a new row is nobody else's.
LEMMA Flushing ==
  ASSUME IInv, NEW a \in Actors, Flush(a)
  PROVE  RowsInv' /\ RequestsInv'
<1> DEFINE n == NewToken(a)
           q == [req[a] EXCEPT !.pc = "flushed", !.new = n,
                               !.revokes = RevokedBy(req[a].kind, req[a].cookie)]
<1>1. req[a] \in Request /\ Pending(req[a]) /\ req[a].pc = "read"
  BY DEF IInv, TypeOK, Flush, Pending
<1>2. /\ req[a].kind \in Issuing => n \in FreeTokens
      /\ req[a].kind \notin Issuing => n = None
      /\ n \in Tokens \cup {None}
  BY NewTokenType DEF Issues
<1>3. req[a].kind \in Issuing =>
        n \in Tokens /\ row[n].state = "free" /\ \A b \in Actors : req[b].new # n
  BY <1>2 DEF FreeTokens
<1>4. q \in Request
  BY <1>1, <1>2, RevokedByType DEF Request
<1>5. req' = [req EXCEPT ![a] = q] /\ UNCHANGED <<row, changes, forked>>
  BY DEF Flush, dbVars
<1>6. /\ q.kind = req[a].kind /\ q.cookie = req[a].cookie /\ q.origin = req[a].origin
      /\ q.pc = "flushed" /\ q.new = n /\ q.revokes = RevokedBy(q.kind, q.cookie)
  BY <1>1 DEF Request
<1> HIDE DEF n, q
<1>7. RequestInv(req[a])
  BY <1>1 DEF IInv, RequestsInv
<1>8. WrittenInv(q)
  <2>1. \A t \in q.revokes : Used(t)
    BY <1>6 DEF RevokedBy, LiveTokens, IsLive, Used
  <2>2. q.kind = "refresh" /\ IsLive(q.cookie) => q.cookie \in q.revokes
    <3> SUFFICES ASSUME q.kind = "refresh", IsLive(q.cookie) PROVE q.cookie \in q.revokes
      OBVIOUS
    <3>1. q.cookie \in LiveTokens
      BY <1>6, <1>7 DEF RequestInv, Used, LiveTokens
    <3>2. QED
      BY <1>6, <3>1 DEF RevokedBy, WithCookie, Changes
  <2>3. q.kind \in Changes => \A t \in LiveTokens : t \in q.revokes
    BY <1>6 DEF RevokedBy
  <2>4. QED
    BY <1>3, <1>6, <2>1, <2>2, <2>3 DEF WrittenInv
<1>9. RequestInv(q)
  BY <1>2, <1>6, <1>7, <1>8 DEF RequestInv, OwnLogin
<1>10. ASSUME NEW b \in Actors \ {a}, Pending(req[b]) PROVE PairInv(q, req[b])
  <2>1. PairInv(req[a], req[b])
    BY <1>1, <1>10 DEF IInv, RequestsInv
  <2>2. QED
    BY <1>2, <1>3, <1>6, <2>1 DEF PairInv
<1>11. QED
  BY <1>4, <1>5, <1>6, <1>9, <1>10, Replace

-----------------------------------------------------------------------------
(* The commit *)

\* What a commit makes of the rows: the new one, and less of the others.
LEMMA CommitRows ==
  ASSUME IInv, NEW a \in Actors, Commit(a), NEW t \in Tokens
  PROVE  /\ Used(t) => (Used(t))' /\ t # req[a].new
         /\ row[t].state = "free" /\ t # req[a].new => row'[t].state = "free"
         /\ t \in LiveTokens' =>
              \/ t = req[a].new /\ req[a].kind \in Issuing /\ row'[t] = Inserted(a)
              \/ t # req[a].new /\ t \in LiveTokens /\ row'[t] = row[t] /\ t \notin req[a].revokes
<1> DEFINE q == req[a]
<1>1. row'[t] = IF t = q.new THEN Inserted(a)
                ELSE IF t \in q.revokes \/ (q.kind = "delete" /\ row[t].state # "free")
                THEN [state |-> "revoked", origin |-> Nowhere] ELSE row[t]
  BY DEF Commit, RowsAfter
<1>2. Pending(q) /\ Written(q)
  BY DEF Commit, Uncommitted, Pending, Written
<1>3. RequestInv(q) /\ WrittenInv(q)
  BY <1>2 DEF IInv, RequestsInv, RequestInv
<1>4. Inserted(a).state = "live"
  BY DEF Inserted
<1>5. t = q.new => q.kind \in Issuing /\ row[t].state = "free"
  BY <1>3, NoneAssumption DEF RequestInv, WrittenInv
<1>6. t \in q.revokes => Used(t)
  BY <1>3 DEF WrittenInv
<1>7. t \in LiveTokens' <=> row'[t].state = "live"
  BY NoneAssumption DEF LiveTokens, IsLive
<1>8. t \in LiveTokens <=> row[t].state = "live"
  BY NoneAssumption DEF LiveTokens, IsLive
<1>9. QED
  BY <1>1, <1>4, <1>5, <1>6, <1>7, <1>8 DEF Used

LEMMA Committing ==
  ASSUME IInv, NEW a \in Actors, Commit(a)
  PROVE  RowsInv' /\ RequestsInv'
<1> DEFINE q == req[a]
<1>1. q \in Request /\ Pending(q) /\ Written(q) /\ RequestInv(q) /\ WrittenInv(q)
  <2>1. q \in Request /\ Pending(q) /\ Written(q)
    BY DEF IInv, TypeOK, Commit, Uncommitted, Pending, Written
  <2>2. QED
    BY <2>1 DEF IInv, RequestsInv, RequestInv
<1>2. forked \subseteq forked' /\ (q.kind = "refresh" /\ Twins(a) # {} => q.origin.login \in forked')
  BY DEF Commit
<1>3. ASSUME q.kind \in Issuing
      PROVE  /\ changes' = changes /\ q.new \in Tokens /\ row[q.new].state = "free"
             /\ Inserted(a).origin.since = q.origin.since
             /\ Inserted(a).origin.stray = (q.origin.stray \/ Changing)
             /\ Inserted(a).origin.login = IF q.kind = "login" THEN q.new ELSE q.origin.login
             /\ row'[q.new] = Inserted(a)
  <2>1. changes' = changes /\ q.new \in Tokens /\ row[q.new].state = "free"
    BY <1>1, <1>3 DEF Commit, Issuing, Changes, WrittenInv
  <2>2. q.kind = "refresh" => q.origin.login # None
    BY <1>1, NoneAssumption DEF RequestInv, Used
  <2>3. q.kind = "login" => q.origin.login = None
    BY <1>1 DEF RequestInv
  <2>4. row'[q.new] = Inserted(a)
    BY <2>1 DEF Commit, RowsAfter
  <2>5. QED
    BY <1>3, <2>1, <2>2, <2>3, <2>4 DEF Inserted, Issuing
<1>4. /\ \A t : Used(t) => Used(t)' /\ t # q.new
      /\ \A t \in Tokens : row[t].state = "free" /\ t # q.new => row'[t].state = "free"
      /\ \A t \in LiveTokens' :
           \/ t = q.new /\ q.kind \in Issuing /\ row'[t] = Inserted(a)
           \/ t # q.new /\ t \in LiveTokens /\ row'[t] = row[t] /\ t \notin q.revokes
  BY CommitRows DEF Used, LiveTokens
<1> HIDE DEF q
<1>5. ASSUME NEW t \in LiveTokens' PROVE Used(row[t].origin.login)'
  <2>1. CASE t = q.new
    <3>1. q.kind \in Issuing /\ row'[t].origin.login = IF q.kind = "login" THEN q.new ELSE q.origin.login
      BY <1>3, <1>4, <2>1
    <3>2. q.kind = "refresh" => q.origin.login \in Tokens /\ row'[q.origin.login].state # "free"
      BY <1>1, <1>4 DEF RequestInv, Used
    <3>3. t \in Tokens /\ row'[t].state = "live"
      BY DEF LiveTokens, IsLive
    <3>4. QED
      BY <2>1, <3>1, <3>2, <3>3 DEF Used, Issuing
  <2>2. CASE t # q.new
    <3>1. t \in LiveTokens /\ row'[t] = row[t]
      BY <1>4, <2>2
    <3>2. Used(row[t].origin.login)
      BY <3>1 DEF IInv, RowsInv
    <3>3. QED
      BY <1>4, <3>1, <3>2 DEF Used
  <2>3. QED
    BY <2>1, <2>2
<1>6. SessionsEndWithCredentials'
  <2> SUFFICES ASSUME NEW t \in LiveTokens'
               PROVE  row'[t].origin.since = changes' \/ row'[t].origin.stray
    BY DEF SessionsEndWithCredentials
  <2>1. CASE t = q.new
    BY <1>1, <1>3, <1>4, <2>1 DEF RequestInv
  <2>2. CASE t # q.new /\ q.kind \in Changes
    BY <1>1, <1>4, <2>2 DEF WrittenInv
  <2>3. CASE t # q.new /\ q.kind \notin Changes
    <3>1. changes' = changes
      BY <2>3 DEF Commit, q
    <3>2. QED
      BY <1>4, <2>3, <3>1 DEF IInv, RowsInv, SessionsEndWithCredentials
  <2>4. QED
    BY <2>1, <2>2, <2>3
\* A token that was live before, of the login the new row goes back to.
<1>7. ASSUME NEW t \in LiveTokens', t # q.new, q.kind \in Issuing,
             row'[t].origin.login = Inserted(a).origin.login
      PROVE  q.kind = "refresh" /\ q.origin.login \in forked
  <2>1. t \in LiveTokens /\ row'[t] = row[t] /\ t \notin q.revokes
    BY <1>4, <1>7
  <2>2. Used(row[t].origin.login)
    BY <2>1 DEF IInv, RowsInv
  <2>3. q.kind = "refresh"
    BY <1>3, <1>7, <2>1, <2>2 DEF Used, Issuing
  <2>4. t = q.cookie \/ q.origin.login \in forked
    BY <1>1, <1>3, <1>7, <2>1, <2>3 DEF RequestInv, OwnLogin
  <2>5. t # q.cookie
    BY <1>1, <2>1, <2>3 DEF WrittenInv, LiveTokens
  <2>6. QED
    BY <2>3, <2>4, <2>5
<1>8. OneTokenPerLogin'
  <2> SUFFICES ASSUME NEW t \in LiveTokens', NEW u \in LiveTokens',
                      row'[t].origin.login = row'[u].origin.login, t # u
               PROVE  row'[t].origin.login \in forked'
    BY DEF OneTokenPerLogin
  <2>1. CASE t = q.new
    BY <1>2, <1>3, <1>4, <1>7, <2>1
  <2>2. CASE u = q.new
    BY <1>2, <1>3, <1>4, <1>7, <2>2
  <2>3. CASE t # q.new /\ u # q.new
    BY <1>2, <1>4, <2>3 DEF IInv, RowsInv, OneTokenPerLogin
  <2>4. QED
    BY <2>1, <2>2, <2>3
\* The other requests go on as they were, some of them marked as stray.
<1>9. ASSUME NEW b \in Actors, Pending(req[b])'
      PROVE  /\ b # a /\ Pending(req[b])
             /\ req'[b].pc = req[b].pc /\ req'[b].kind = req[b].kind /\ req'[b].new = req[b].new
             /\ req'[b].cookie = req[b].cookie /\ req'[b].revokes = req[b].revokes
             /\ req'[b].origin.login = req[b].origin.login
             /\ req'[b].origin.since = req[b].origin.since
             /\ req[b].origin.stray => req'[b].origin.stray
             /\ q.kind \in Changes /\ req[b].kind \in Issuing => req'[b].origin.stray
  <2>1. req'[b] = Over(a, b) /\ req[b] \in Request
    BY DEF Commit, IInv, TypeOK
  <2>2. b # a
    BY <1>9, <2>1 DEF Over, Idle, Pending
  <2>3. req'[b] = IF q.kind \in Changes /\ Issues(b) /\ (req[b].pc = "read" \/ Uncommitted(b))
                  THEN [req[b] EXCEPT !.origin.stray = TRUE] ELSE req[b]
    BY <2>1, <2>2 DEF Over, q
  <2>4. QED
    BY <1>9, <2>1, <2>2, <2>3 DEF Pending, Issues, Uncommitted, Request, Origin
<1>10. ASSUME NEW b \in Actors, Pending(req[b])' PROVE RequestInv(req[b])'
  <2>1. RequestInv(req[b]) /\ PairInv(q, req[b])
    BY <1>1, <1>9, <1>10 DEF IInv, RequestsInv, q
  <2>2. req[b].kind \in Issuing => req'[b].origin.since = changes' \/ req'[b].origin.stray
    <3>1. q.kind \notin Changes => changes' = changes
      BY DEF Commit, q
    <3>2. QED
      BY <1>9, <1>10, <2>1, <3>1 DEF RequestInv
  <2>3. req[b].kind = "refresh" => (Used(req[b].cookie) /\ Used(req[b].origin.login) /\ OwnLogin(req[b]))'
    <3> SUFFICES ASSUME req[b].kind = "refresh"
                 PROVE  (Used(req[b].cookie) /\ Used(req[b].origin.login) /\ OwnLogin(req[b]))'
      OBVIOUS
    <3>1. Used(req[b].cookie) /\ Used(req[b].origin.login) /\ OwnLogin(req[b])
      BY <2>1 DEF RequestInv
    <3>2. Used(req[b].cookie)' /\ Used(req[b].origin.login)'
      BY <1>4, <1>9, <1>10, <3>1 DEF Used
    <3>3. ASSUME NEW t \in LiveTokens', row'[t].origin.login = req[b].origin.login
          PROVE  t = req[b].cookie \/ req[b].origin.login \in forked'
      <4>1. CASE t # q.new
        BY <1>2, <1>4, <3>1, <3>3, <4>1 DEF OwnLogin
      <4>2. CASE t = q.new
        <5>1. q.kind = "refresh" /\ q.origin.login = req[b].origin.login
          BY <1>3, <1>4, <3>1, <3>3, <4>2 DEF Used, Issuing
        <5>2. q.cookie = req[b].cookie \/ q.origin.login \in forked
          BY <2>1, <5>1 DEF PairInv
        <5>3. q.cookie = req[b].cookie => b \in Twins(a)
          BY <1>9, <1>10 DEF Twins, Pending, q
        <5>4. QED
          BY <1>2, <5>1, <5>2, <5>3
      <4>3. QED
        BY <4>1, <4>2
    <3>4. OwnLogin(req[b])'
      BY <1>9, <1>10, <3>3 DEF OwnLogin
    <3>5. QED
      BY <3>2, <3>4
  <2>4. Written(req[b])' => WrittenInv(req[b])'
    <3> SUFFICES ASSUME Written(req[b])' PROVE WrittenInv(req[b])'
      OBVIOUS
    <3>1. Written(req[b]) /\ WrittenInv(req[b])
      BY <1>9, <1>10, <2>1 DEF Written, RequestInv
    <3>2. req[b].kind \in Issuing => req[b].new \in Tokens /\ row'[req[b].new].state = "free"
      BY <1>1, <1>4, <2>1, <3>1, NoneAssumption DEF PairInv, WrittenInv
    <3>3. \A t \in req[b].revokes : Used(t)'
      BY <1>4, <3>1 DEF WrittenInv
    <3>4. req[b].kind = "refresh" /\ IsLive(req[b].cookie)' => req[b].cookie \in req[b].revokes
      BY <1>4, <1>9, <1>10, <2>1, <3>1 DEF WrittenInv, RequestInv, IsLive, LiveTokens, Used
    <3>5. req[b].kind \in Changes => \A t \in LiveTokens' : t \in req[b].revokes \/ row'[t].origin.stray
      <4> SUFFICES ASSUME req[b].kind \in Changes, NEW t \in LiveTokens'
                   PROVE  t \in req[b].revokes \/ row'[t].origin.stray
        OBVIOUS
      <4>1. Changing
        BY <3>1 DEF Changing, Written, Uncommitted
      <4>2. QED
        BY <1>3, <1>4, <3>1, <4>1 DEF WrittenInv
    <3>6. QED
      BY <1>9, <1>10, <3>2, <3>3, <3>4, <3>5 DEF WrittenInv, IsLive
  <2>5. QED
    BY <1>9, <1>10, <2>1, <2>2, <2>3, <2>4 DEF RequestInv
<1>11. ASSUME NEW b \in Actors, NEW c \in Actors, b # c, Pending(req[b])', Pending(req[c])'
       PROVE  PairInv(req[b], req[c])'
  <2>1. PairInv(req[b], req[c])
    BY <1>9, <1>11 DEF IInv, RequestsInv
  <2>2. QED
    BY <1>2, <1>9, <1>11, <2>1 DEF PairInv, Written
<1>12. ASSUME NEW b \in Actors, req'[b].pc = "sent" PROVE req'[b].kind \in WithCookie
  <2>1. req'[b] = Over(a, b) /\ req[b] \in Request
    BY DEF Commit, IInv, TypeOK
  <2>2. req[b].pc = "sent" /\ req'[b].kind = req[b].kind
    BY <1>12, <2>1 DEF Over, Idle, Request
  <2>3. QED
    BY <2>2 DEF IInv, RequestsInv
<1>13. QED
  BY <1>5, <1>6, <1>8, <1>10, <1>11, <1>12 DEF RowsInv, RequestsInv

-----------------------------------------------------------------------------
(* Every step *)

LEMMA Expiring ==
  ASSUME IInv, NEW t \in Tokens, Expire(t)
  PROVE  RowsInv' /\ RequestsInv'
<1>1. req' = req /\ changes' = changes /\ forked' = forked /\ t \in LiveTokens
  BY DEF Expire, LiveTokens
<1>2. \A u \in Tokens : row'[u] = IF u = t THEN [state |-> "expired", origin |-> Nowhere] ELSE row[u]
  BY DEF Expire, IInv, TypeOK
<1>3. LiveTokens' = LiveTokens \ {t} /\ \A u \in LiveTokens' : row'[u] = row[u]
  BY <1>2, NoneAssumption DEF LiveTokens, IsLive
<1>4. /\ \A u : Used(u)' <=> Used(u)
      /\ \A u \in Tokens : row[u].state = "free" => row'[u].state = "free"
  BY <1>1, <1>2 DEF Used, LiveTokens, IsLive
<1>5. RowsInv'
  BY <1>1, <1>3, <1>4 DEF IInv, RowsInv, SessionsEndWithCredentials, OneTokenPerLogin, Used
<1>6. ASSUME NEW b \in Actors, Pending(req[b])' PROVE RequestInv(req[b])'
  <2>1. RequestInv(req[b])
    BY <1>1, <1>6 DEF IInv, RequestsInv, Pending
  <2>2. OwnLogin(req[b]) => OwnLogin(req[b])'
    BY <1>1, <1>3 DEF OwnLogin
  <2>3. WrittenInv(req[b]) => WrittenInv(req[b])'
    <3> SUFFICES ASSUME WrittenInv(req[b]) PROVE WrittenInv(req[b])'
      OBVIOUS
    <3>1. req[b].kind \in Issuing => req[b].new \in Tokens /\ row'[req[b].new].state = "free"
      BY <1>4 DEF WrittenInv
    <3>2. \A u \in req[b].revokes : Used(u)'
      BY <1>4 DEF WrittenInv
    <3>3. req[b].kind = "refresh" /\ IsLive(req[b].cookie)' => req[b].cookie \in req[b].revokes
      BY <1>1, <1>2, <2>1, <1>6 DEF WrittenInv, IsLive, RequestInv, Used
    <3>4. req[b].kind \in Changes =>
            \A u \in LiveTokens' : u \in req[b].revokes \/ row'[u].origin.stray
      BY <1>3 DEF WrittenInv
    <3>5. QED
      BY <1>1, <3>1, <3>2, <3>3, <3>4 DEF WrittenInv, IsLive
  <2>4. QED
    BY <1>1, <1>4, <2>1, <2>2, <2>3 DEF RequestInv, Written, Used
<1>7. ASSUME NEW b \in Actors, NEW c \in Actors, b # c, Pending(req[b])', Pending(req[c])'
      PROVE  PairInv(req[b], req[c])'
  BY <1>1, <1>7 DEF IInv, RequestsInv, PairInv, Pending, Written
<1>8. QED
  BY <1>1, <1>5, <1>6, <1>7 DEF IInv, RequestsInv

LEMMA Sending ==
  ASSUME IInv, NEW a \in Actors, NEW kind \in TabKinds \cup OtherKinds, Send(a, kind)
  PROVE  RowsInv' /\ RequestsInv'
<1>1. UNCHANGED <<row, changes, forked>> /\ TypeOK
  BY DEF Send, dbVars, IInv
<1>2. CASE kind \in WithCookie
  <2> DEFINE q == [Idle EXCEPT !.kind = kind, !.pc = "sent", !.cookie = cookie]
  <2>1. q \in Request /\ ~Pending(q) /\ q.kind \in WithCookie
    BY <1>1, <1>2 DEF Idle, Request, Nowhere, Origin, Pending, TypeOK
  <2>2. req' = [req EXCEPT ![a] = q]
    BY <1>2 DEF Send
  <2>3. QED
    BY <1>1, <2>1, <2>2, Settle
<1>3. CASE kind \notin WithCookie /\ kind \in Overtakable
  <2>1. Passes(kind, None) /\ req' = [req EXCEPT ![a] = PastReads(kind, None)]
    BY <1>3 DEF Send
  <2>2. PastReads(kind, None) \in Request
    BY <1>1, <1>3, <2>1, PastReadsType
  <2>3. PastReads(kind, None).pc # "sent"
    BY <1>3, <2>1, Reading
  <2>4. QED
    BY <1>1, <1>3, <2>1, <2>2, <2>3, Reading, Replace
<1>4. CASE kind \notin WithCookie /\ kind \notin Overtakable
  <2>1. Passes(kind, None) /\ req' = [req EXCEPT ![a] = PastStatements(kind, None)]
    BY <1>4 DEF Send
  <2>2. kind \notin Issuing
    BY <1>4 DEF Overtakable
  <2>3. PastStatements(kind, None) \in Request
    BY <1>1, <2>1, PastStatementsType
  <2>4. QED
    BY <1>1, <2>1, <2>2, <2>3, Writing, Replace
<1>5. QED
  BY <1>2, <1>3, <1>4

LEMMA ReadingStep ==
  ASSUME IInv, NEW a \in Actors, Read(a)
  PROVE  RowsInv' /\ RequestsInv'
<1> DEFINE kind == req[a].kind
           with == req[a].cookie
<1>1. /\ UNCHANGED <<row, changes, forked>> /\ TypeOK /\ req[a] \in Request
      /\ kind \in TabKinds \cup OtherKinds \cup {"none"} /\ with \in Tokens \cup {None}
  BY DEF Read, dbVars, IInv, TypeOK, Request
<1>2. CASE Passes(kind, with) /\ kind = "refresh"
  <2>1. req' = [req EXCEPT ![a] = PastReads(kind, with)] /\ kind \in Overtakable
    BY <1>2 DEF Read, Issuing, Overtakable
  <2>2. PastReads(kind, with) \in Request
    BY <1>1, <1>2, <2>1, PastReadsType
  <2>3. QED
    BY <1>1, <1>2, <2>1, <2>2, Reading, Replace
<1>3. CASE Passes(kind, with) /\ kind # "refresh"
  <2>1. req' = [req EXCEPT ![a] = PastStatements(kind, with)]
    BY <1>3 DEF Read
  <2>2. PastStatements(kind, with) \in Request
    BY <1>1, <1>3, PastStatementsType
  <2>3. kind \notin Issuing
    BY <1>3 DEF Issuing, Read, IInv, RequestsInv, WithCookie
  <2>4. QED
    BY <1>1, <2>1, <2>2, <2>3, Writing, Replace
<1>4. CASE ~Passes(kind, with)
  <2> DEFINE q == [req[a] EXCEPT !.pc = "refused", !.cookie = None,
                                 !.revokes = IF Reused(with) THEN LiveTokens ELSE {}]
  <2>1. q \in Request /\ ~Pending(q) /\ q.pc # "sent"
    BY <1>1, LiveTokensType DEF Request, Pending
  <2>2. req' = [req EXCEPT ![a] = q]
    BY <1>4 DEF Read
  <2>3. QED
    BY <1>1, <2>1, <2>2, Settle
<1>5. QED
  BY <1>2, <1>3, <1>4

\* A request is over, refused, or signs out.
LEMMA Ends ==
  /\ Idle.pc = "idle" /\ \A a : Refused(a).pc = "refused"
  /\ \A c : LogoutWith(c).pc = "sent" /\ LogoutWith(c).kind = "logout"
  BY DEF Idle, Refused, LogoutWith

LEMMA Ending ==
  ASSUME IInv, NEW a \in Actors, FlushFails(a) \/ Refuse(a) \/ Fail(a)
  PROVE  RowsInv' /\ RequestsInv'
<1>1. UNCHANGED <<row, changes, forked>>
  BY DEF FlushFails, Refuse, Fail, RequestFails, CommitFails, Lost, dbVars
<1>2. \E q \in {Idle, Refused(a), LogoutWith(cookie)} : req' = [req EXCEPT ![a] = q]
  BY DEF FlushFails, Refuse, AfterRefusal, Fail, RequestFails, CommitFails, Lost
<1>3. {Idle, Refused(a), LogoutWith(cookie)} \subseteq Request
  BY Constants, RefusedType DEF IInv, TypeOK
<1>4. \A q \in {Idle, Refused(a), LogoutWith(cookie)} :
        ~Pending(q) /\ (q.pc = "sent" => q.kind \in WithCookie)
  BY Ends DEF Pending, WithCookie
<1>5. QED
  BY <1>1, <1>2, <1>3, <1>4, Settle

LEMMA Answering ==
  ASSUME IInv, NEW a \in Actors, Answer(a)
  PROVE  RowsInv' /\ RequestsInv'
<1>1. UNCHANGED <<row, changes, forked>>
  BY DEF Answer, dbVars
<1>2. req[a] \in Request
  BY DEF IInv, TypeOK
<1>3. CASE req[a].pc = "flushed"
  <2> DEFINE q == [req[a] EXCEPT !.pc = "answered"]
  <2>1. req' = [req EXCEPT ![a] = q] /\ q \in Request
    BY <1>2, <1>3 DEF Answer, Request
  <2>2. /\ q.kind = req[a].kind /\ q.cookie = req[a].cookie /\ q.origin = req[a].origin
        /\ q.new = req[a].new /\ q.revokes = req[a].revokes /\ q.pc = "answered"
    BY <1>2 DEF Request
  <2> HIDE DEF q
  <2>3. RequestInv(req[a]) /\ \A b \in Actors \ {a} : Pending(req[b]) => PairInv(req[a], req[b])
    BY <1>3 DEF IInv, RequestsInv, Pending
  <2>4. RequestInv(q)
    BY <1>3, <2>2, <2>3 DEF RequestInv, WrittenInv, OwnLogin, Written
  <2>5. \A b \in Actors \ {a} : Pending(req[b]) => PairInv(q, req[b])
    BY <1>3, <2>2, <2>3 DEF PairInv, Written
  <2>6. QED
    BY <1>1, <2>1, <2>2, <2>4, <2>5, Replace
<1>4. CASE req[a].pc # "flushed"
  <2>1. \E q \in {Idle, LogoutWith(None)} : req' = [req EXCEPT ![a] = q]
    BY <1>4 DEF Answer
  <2>2. {Idle, LogoutWith(None)} \subseteq Request
    BY Constants
  <2>3. \A q \in {Idle, LogoutWith(None)} :
          ~Pending(q) /\ (q.pc = "sent" => q.kind \in WithCookie)
    BY Ends DEF Pending, WithCookie
  <2>4. QED
    BY <1>1, <2>1, <2>2, <2>3, Settle
<1>5. QED
  BY <1>3, <1>4

LEMMA NextIInv == ASSUME IInv, [Next]_vars PROVE IInv'
<1>1. TypeOK'
  BY NextTypeOK, IInvTypes DEF IInv
<1>2. ASSUME UNCHANGED <<row, req, changes, forked>> PROVE RowsInv' /\ RequestsInv'
  BY <1>2 DEF IInv, RowsInv, RequestsInv, SessionsEndWithCredentials, OneTokenPerLogin, LiveTokens,
              IsLive, Used, Pending, Written, RequestInv, WrittenInv, OwnLogin, PairInv
<1>3. CASE SignUp \/ StartPasswordReset \/ RequestEmailChange
  BY <1>1, <1>2, <1>3 DEF SignUp, StartPasswordReset, RequestEmailChange, Mail, IInv
<1>4. ASSUME NEW a \in Tabs, NEW kind \in TabKinds, Send(a, kind) PROVE IInv'
  BY <1>1, <1>4, Sending, Constants DEF IInv
<1>5. ASSUME NEW a \in Others, NEW kind \in OtherKinds, Send(a, kind) PROVE IInv'
  BY <1>1, <1>5, Sending, Constants DEF IInv
<1>6. ASSUME NEW a \in Actors, Serve(a) \/ Receive(a) \/ Fail(a) PROVE IInv'
  BY <1>1, <1>6, ReadingStep, Flushing, Committing, Answering, Ending DEF Serve, Receive, IInv
<1>7. ASSUME NEW t \in Tokens, Expire(t) PROVE IInv'
  BY <1>1, <1>7, Expiring DEF IInv
<1>8. CASE UNCHANGED vars
  BY <1>1, <1>2, <1>8 DEF vars, IInv
<1>9. QED
  BY <1>3, <1>4, <1>5, <1>6, <1>7, <1>8 DEF Next

LEMMA InvariantIInv == Spec => []IInv
  BY InitIInv, NextIInv, PTL DEF Spec

-----------------------------------------------------------------------------
(* The session of a browser nobody disturbs *)

\* Who sends what, and what verify_email leaves alone.
KindHolds(a, q) ==
  /\ a \in Tabs => q.kind \in TabKinds \cup {"none"}
  /\ a \in Others => q.kind \in OtherKinds \cup {"none"}
  /\ q.pc = "idle" <=> q.kind = "none"
  /\ q.kind = "verify" => q.new = None /\ q.revokes = {}
KindsInv == \A a \in Actors : KindHolds(a, req[a])

\* Where the only refresh there is may be, and the live token meanwhile.
Refreshing(q) ==
  \/ q.pc \in {"sent", "read", "flushed"} /\ q.cookie = cookie /\ IsLive(cookie)
  \/ q.pc = "committed" /\ q.cookie = cookie /\ IsLive(q.new)
  \/ q.pc = "answered" /\ q.new = cookie
KeepInv ==
  kept =>
    /\ MayEnter
    /\ \A a \in Actors : req[a].kind \in Harmless
    /\ \A a, b \in Actors : req[a].kind = "refresh" /\ req[b].kind = "refresh" => a = b
    /\ \A a \in Actors : req[a].kind = "refresh" => Refreshing(req[a])
    /\ (\A a \in Actors : req[a].kind # "refresh") => IsLive(cookie)

KeptInv == IInv /\ KindsInv /\ KeepInv

LEMMA InitKeptInv == Init => KeptInv
<1> SUFFICES ASSUME Init PROVE KeptInv
  OBVIOUS
<1>1. KindsInv
  BY DEF Init, KindsInv, KindHolds, Idle
<1>2. KeepInv
  BY DEF Init, KeepInv
<1>3. QED
  BY <1>1, <1>2, InitIInv DEF KeptInv

\* What the records a request is set to say of its kind.
LEMMA KindRecords ==
  /\ Idle.kind = "none" /\ Idle.pc = "idle"
  /\ \A a : Refused(a).kind = req[a].kind /\ Refused(a).pc = "refused"
            /\ Refused(a).new = None /\ Refused(a).revokes = {}
  /\ \A c : LogoutWith(c).kind = "logout" /\ LogoutWith(c).pc = "sent"
  /\ \A kind, with : /\ PastReads(kind, with).kind = kind /\ PastReads(kind, with).pc = "read"
                     /\ PastReads(kind, with).cookie = with
                     /\ PastReads(kind, with).new = None
                     /\ PastReads(kind, with).revokes = {}
                     /\ PastStatements(kind, with).kind = kind
                     /\ PastStatements(kind, with).pc = "flushed"
                     /\ PastStatements(kind, with).new = None
                     /\ PastStatements(kind, with).revokes = RevokedBy(kind, with)
  BY DEF Idle, Refused, LogoutWith, PastReads, PastStatements

\* A step of one request.
LEMMA KindKept ==
  ASSUME TypeOK, KindsInv, NEW a \in Actors, NEW q, req' = [req EXCEPT ![a] = q], KindHolds(a, q)
  PROVE  KindsInv'
<1>1. \A b \in Actors : req'[b] = IF b = a THEN q ELSE req[b]
  BY DEF TypeOK
<1>2. QED
  BY <1>1 DEF KindsInv, KindHolds

LEMMA NextKindsInv == ASSUME IInv, KindsInv, [Next]_vars PROVE KindsInv'
<1>0. TypeOK
  BY DEF IInv
<1>a. ASSUME UNCHANGED req PROVE KindsInv'
  BY <1>a DEF KindsInv, KindHolds
<1>1. ASSUME NEW a \in Actors, NEW kind \in TabKinds \cup OtherKinds, Send(a, kind),
             a \in Tabs => kind \in TabKinds, a \in Others => kind \in OtherKinds
      PROVE  KindsInv'
  <2>1. kind # "none"
    BY DEF TabKinds, OtherKinds
  <2>2. CASE kind \in WithCookie
    <3> DEFINE q == [Idle EXCEPT !.kind = kind, !.pc = "sent", !.cookie = cookie]
    <3>1. KindHolds(a, q)
      BY <1>1, <2>1, <2>2 DEF KindHolds, Idle, WithCookie
    <3>2. req' = [req EXCEPT ![a] = q]
      BY <1>1, <2>2 DEF Send
    <3>3. QED
      BY <1>0, <3>1, <3>2, KindKept
  <2>3. CASE kind \notin WithCookie /\ kind \in Overtakable
    <3>1. KindHolds(a, PastReads(kind, None))
      BY <1>1, <2>1, <2>3, KindRecords DEF KindHolds
    <3>2. req' = [req EXCEPT ![a] = PastReads(kind, None)]
      BY <1>1, <2>3 DEF Send
    <3>3. QED
      BY <1>0, <3>1, <3>2, KindKept
  <2>4. CASE kind \notin WithCookie /\ kind \notin Overtakable
    <3>1. kind # "verify"
      BY <2>4 DEF Overtakable, Links
    <3>2. KindHolds(a, PastStatements(kind, None))
      BY <1>1, <2>1, <3>1, KindRecords DEF KindHolds
    <3>3. req' = [req EXCEPT ![a] = PastStatements(kind, None)]
      BY <1>1, <2>4 DEF Send
    <3>4. QED
      BY <1>0, <3>2, <3>3, KindKept
  <2>5. QED
    BY <2>2, <2>3, <2>4
<1>2. ASSUME NEW a \in Actors, Read(a) PROVE KindsInv'
  <2>1. KindHolds(a, req[a]) /\ req[a].pc = "sent" /\ req[a].kind \in WithCookie /\ req[a] \in Request
    BY <1>0, <1>2 DEF KindsInv, Read, IInv, RequestsInv, TypeOK
  <2> DEFINE q == [req[a] EXCEPT !.pc = "refused", !.cookie = None,
                                 !.revokes = IF Reused(req[a].cookie) THEN LiveTokens ELSE {}]
  <2>2. \/ req' = [req EXCEPT ![a] = PastReads(req[a].kind, req[a].cookie)]
        \/ req' = [req EXCEPT ![a] = PastStatements(req[a].kind, req[a].cookie)]
        \/ req' = [req EXCEPT ![a] = q]
    BY <1>2 DEF Read
  <2>3. KindHolds(a, q)
    BY <2>1 DEF KindHolds, WithCookie, Request
  <2>4. /\ KindHolds(a, PastReads(req[a].kind, req[a].cookie))
        /\ KindHolds(a, PastStatements(req[a].kind, req[a].cookie))
    BY <2>1, KindRecords DEF KindHolds, WithCookie
  <2> HIDE DEF q
  <2>5. QED
    BY <1>0, <2>2, <2>3, <2>4, KindKept
<1>3. ASSUME NEW a \in Actors, Flush(a) PROVE KindsInv'
  <2> DEFINE q == [req[a] EXCEPT !.pc = "flushed", !.new = NewToken(a),
                                 !.revokes = RevokedBy(req[a].kind, req[a].cookie)]
  <2>1. KindHolds(a, req[a]) /\ req[a].pc = "read" /\ req[a] \in Request
    BY <1>0, <1>3 DEF KindsInv, Flush, TypeOK
  <2>2. req' = [req EXCEPT ![a] = q]
    BY <1>3 DEF Flush
  <2>3. req[a].kind = "verify" => NewToken(a) = None /\ RevokedBy(req[a].kind, req[a].cookie) = {}
    BY DEF NewToken, Issues, Issuing, RevokedBy, Changes, WithCookie
  <2>4. KindHolds(a, q)
    BY <2>1, <2>3 DEF KindHolds, Request
  <2> HIDE DEF q
  <2>5. QED
    BY <1>0, <2>2, <2>4, KindKept
<1>4. ASSUME NEW a \in Actors, FlushFails(a) \/ RequestFails(a) PROVE KindsInv'
  <2>1. req' = [req EXCEPT ![a] = Refused(a)] /\ req[a].pc # "idle"
    BY <1>4 DEF FlushFails, RequestFails
  <2>2. KindHolds(a, Refused(a))
    BY <2>1, KindRecords DEF KindHolds, KindsInv
  <2>3. QED
    BY <1>0, <2>1, <2>2, KindKept
<1>5. ASSUME NEW a \in Actors, Commit(a) PROVE KindsInv'
  <2> SUFFICES ASSUME NEW b \in Actors PROVE KindHolds(b, req'[b])
    BY DEF KindsInv, KindHolds
  <2>1. req'[b] = Over(a, b) /\ KindHolds(b, req[b]) /\ req[b] \in Request /\ req[a].pc # "idle"
    BY <1>0, <1>5 DEF Commit, KindsInv, TypeOK, Uncommitted
  <2>2. CASE b = a
    BY <2>1, <2>2, KindRecords DEF Over, KindHolds, KindsInv, Idle
  <2>3. CASE b # a
    <3>1. \/ req'[b] = req[b]
          \/ /\ req'[b].kind = req[b].kind /\ req'[b].pc = req[b].pc /\ req'[b].new = req[b].new
             /\ req'[b].revokes = req[b].revokes
      BY <2>1, <2>3 DEF Over, Request, Origin
    <3>2. QED
      BY <2>1, <3>1 DEF KindHolds
  <2>4. QED
    BY <2>2, <2>3
<1>6. ASSUME NEW a \in Actors, Answer(a) PROVE KindsInv'
  <2>1. a \in Tabs /\ a \notin Others /\ KindHolds(a, req[a]) /\ req[a] \in Request
    BY <1>0, <1>6, ActorAssumption DEF Answer, KindsInv, TypeOK
  <2>2. CASE req[a].pc = "flushed"
    <3> DEFINE q == [req[a] EXCEPT !.pc = "answered"]
    <3>1. req' = [req EXCEPT ![a] = q]
      BY <1>6, <2>2 DEF Answer
    <3>2. KindHolds(a, q)
      BY <2>1, <2>2 DEF KindHolds, Request
    <3> HIDE DEF q
    <3>3. QED
      BY <1>0, <3>1, <3>2, KindKept
  <2>3. CASE req[a].pc # "flushed"
    <3>1. \/ req' = [req EXCEPT ![a] = LogoutWith(None)]
          \/ req' = [req EXCEPT ![a] = Idle]
      BY <1>6, <2>3 DEF Answer
    <3>2. KindHolds(a, LogoutWith(None)) /\ KindHolds(a, Idle)
      BY <2>1, KindRecords DEF KindHolds, TabKinds
    <3>3. QED
      BY <1>0, <3>1, <3>2, KindKept
  <2>4. QED
    BY <2>2, <2>3
<1>7. ASSUME NEW a \in Actors, Refuse(a) \/ CommitFails(a) \/ Lost(a) PROVE KindsInv'
  <2>1. \/ req' = [req EXCEPT ![a] = Idle]
        \/ req[a].kind = "refresh" /\ req' = [req EXCEPT ![a] = LogoutWith(cookie)]
    BY <1>7 DEF Refuse, AfterRefusal, CommitFails, Lost
  <2>2. KindHolds(a, Idle)
    BY KindRecords DEF KindHolds
  <2>3. req[a].kind = "refresh" => KindHolds(a, LogoutWith(cookie))
    BY KindRecords DEF KindHolds, KindsInv, TabKinds, OtherKinds
  <2>4. QED
    BY <1>0, <2>1, <2>2, <2>3, KindKept
<1>8. CASE \/ SignUp \/ StartPasswordReset \/ RequestEmailChange \/ UNCHANGED vars
           \/ \E t \in Tokens : Expire(t)
  BY <1>a, <1>8 DEF SignUp, StartPasswordReset, RequestEmailChange, Mail, vars, Expire
<1>9. ASSUME NEW a \in Tabs, NEW kind \in TabKinds, Send(a, kind) PROVE KindsInv'
  BY <1>1, <1>9, ActorAssumption, Constants
<1>10. ASSUME NEW a \in Others, NEW kind \in OtherKinds, Send(a, kind) PROVE KindsInv'
  BY <1>1, <1>10, ActorAssumption, Constants
<1>11. QED
  BY <1>2, <1>3, <1>4, <1>5, <1>6, <1>7, <1>8, <1>9, <1>10
     DEF Next, Serve, Receive, Fail

\* A step of one request, which leaves the rows, the account and the cookie.
LEMMA GoesOn ==
  ASSUME TypeOK, KeepInv, NEW a \in Actors, NEW q, req' = [req EXCEPT ![a] = q],
         UNCHANGED <<row, status, cookie>>, kept' => kept,
         kept' => /\ q.kind \in Harmless
                  /\ q.kind = "refresh" => /\ Refreshing(q)
                                           /\ \A b \in Actors \ {a} : req[b].kind # "refresh"
                  /\ q.kind # "refresh" => req[a].kind # "refresh"
  PROVE  KeepInv'
<1> SUFFICES ASSUME kept'
             PROVE  (/\ MayEnter
                     /\ \A c \in Actors : req[c].kind \in Harmless
                     /\ \A c, b \in Actors : req[c].kind = "refresh" /\ req[b].kind = "refresh" => c = b
                     /\ \A c \in Actors : req[c].kind = "refresh" => Refreshing(req[c])
                     /\ (\A c \in Actors : req[c].kind # "refresh") => IsLive(cookie))'
  BY DEF KeepInv
<1>1. \A b \in Actors : req'[b] = IF b = a THEN q ELSE req[b]
  BY DEF TypeOK
<1>2. (MayEnter' <=> MayEnter) /\ (IsLive(cookie)' <=> IsLive(cookie))
  BY DEF MayEnter, HasUser, IsLive
<1>3. \A p : Refreshing(p)' <=> Refreshing(p)
  BY DEF Refreshing, IsLive
<1>4. /\ MayEnter /\ \A b \in Actors : req[b].kind \in Harmless
      /\ \A c, b \in Actors : req[c].kind = "refresh" /\ req[b].kind = "refresh" => c = b
      /\ \A c \in Actors : req[c].kind = "refresh" => Refreshing(req[c])
      /\ (\A c \in Actors : req[c].kind # "refresh") => IsLive(cookie)
  BY DEF KeepInv
<1>5. \A c \in Actors : Refreshing(req[c])' <=> IF c = a THEN Refreshing(q) ELSE Refreshing(req[c])
  BY <1>1 DEF Refreshing, IsLive
<1>6. \A c \in Actors : (req[c].kind \in Harmless)'
  BY <1>1, <1>4
<1>7. \A c, b \in Actors : (req[c].kind = "refresh" /\ req[b].kind = "refresh")' => c = b
  BY <1>1, <1>4
<1>8. \A c \in Actors : (req[c].kind = "refresh")' => Refreshing(req[c])'
  BY <1>1, <1>4, <1>5
<1>9. (\A c \in Actors : req'[c].kind # "refresh") => \A c \in Actors : req[c].kind # "refresh"
  BY <1>1
<1>10. QED
  BY <1>2, <1>4, <1>6, <1>7, <1>8, <1>9

LEMMA SendKeeps ==
  ASSUME KeptInv, NEW a \in Actors, NEW kind, Send(a, kind),
         a \in Tabs => kind \in TabKinds, a \in Others => kind \in OtherKinds
  PROVE  KeepInv'
<1>1. TypeOK /\ KeepInv /\ KindsInv /\ UNCHANGED <<row, status, cookie>>
  BY DEF KeptInv, IInv, Send, dbVars, webVars
<1>2. /\ kept' => kept /\ kind \in Harmless
      /\ kept' /\ kind = "refresh" => \A b \in Actors \ {a} : ~Issues(b)
  BY DEF Send, Quiet
<1>3. req[a].pc = "idle" /\ req[a].kind = "none"
  BY <1>1 DEF Send, KindsInv, KindHolds
<1>4. CASE ~kept'
  BY <1>4 DEF KeepInv
<1>5. CASE kept' /\ kind = "refresh"
  <2> DEFINE q == [Idle EXCEPT !.kind = kind, !.pc = "sent", !.cookie = cookie]
  <2>1. req' = [req EXCEPT ![a] = q]
    BY <1>5 DEF Send, WithCookie
  <2>2. q.kind = "refresh" /\ q.pc = "sent" /\ q.cookie = cookie
    BY <1>5 DEF Idle
  <2>3. \A b \in Actors \ {a} : req[b].kind # "refresh"
    BY <1>2, <1>5 DEF Issues, Issuing
  <2>4. \A b \in Actors : req[b].kind # "refresh"
    BY <1>3, <2>3
  <2>5. IsLive(cookie)
    BY <1>1, <1>2, <1>5, <2>4 DEF KeepInv
  <2> HIDE DEF q
  <2>6. Refreshing(q)
    BY <2>2, <2>5 DEF Refreshing
  <2>7. QED
    BY <1>1, <1>2, <2>1, <2>2, <2>3, <2>6, GoesOn DEF Harmless
<1>6. CASE kept' /\ kind # "refresh"
  <2>1. kind = "verify"
    BY <1>2, <1>6 DEF Harmless, TabKinds, OtherKinds, Actors
  <2>2. req' = [req EXCEPT ![a] = PastReads(kind, None)]
    BY <2>1 DEF Send, WithCookie, Overtakable, Links
  <2>3. PastReads(kind, None).kind = "verify"
    BY <2>1, KindRecords
  <2>4. QED
    BY <1>1, <1>2, <1>3, <2>2, <2>3, GoesOn DEF Harmless
<1>7. QED
  BY <1>4, <1>5, <1>6

\* Read, flush and what may go wrong instead: a refresh that can pass does.
LEMMA ServeKeeps ==
  ASSUME KeptInv, NEW a \in Actors, Read(a) \/ Flush(a) \/ FlushFails(a)
  PROVE  KeepInv'
<1>1. TypeOK /\ KeepInv /\ UNCHANGED <<row, status, cookie, kept>> /\ req[a] \in Request
  BY DEF KeptInv, IInv, TypeOK, Read, Flush, FlushFails, dbVars, webVars
<1>2. CASE ~kept
  BY <1>1, <1>2 DEF KeepInv
<1>3. CASE kept
  <2>1. /\ MayEnter /\ req[a].kind \in Harmless
        /\ \A b \in Actors \ {a} : req[a].kind = "refresh" => req[b].kind # "refresh"
        /\ req[a].kind = "refresh" => Refreshing(req[a])
    BY <1>1, <1>3 DEF KeepInv
  <2>2. req[a].kind \in {"refresh", "verify"} /\ (Read(a) => req[a].kind = "refresh")
    <3>1. req[a].kind \in WithCookie \cup Overtakable /\ (Read(a) => req[a].kind \in WithCookie)
      BY DEF KeptInv, IInv, RequestsInv, RequestInv, Pending, Read, Flush, FlushFails
    <3>2. QED
      BY <2>1, <3>1 DEF WithCookie, Overtakable, Issuing, Links, Harmless
  <2>3. req[a].pc \in {"sent", "read"}
    BY DEF Read, Flush, FlushFails
  <2>4. req[a].kind = "refresh" => req[a].cookie = cookie /\ IsLive(cookie)
    BY <2>1, <2>3 DEF Refreshing
  <2>5. CASE Read(a)
    <3>1. Passes("refresh", req[a].cookie)
      BY <2>1, <2>2, <2>4, <2>5 DEF Passes, Links, LinkHolds, IsLive, MayEnter, HasUser
    <3>2. req' = [req EXCEPT ![a] = PastReads("refresh", cookie)]
      BY <2>2, <2>4, <2>5, <3>1 DEF Read
    <3>3. Refreshing(PastReads("refresh", cookie))
      BY <2>2, <2>4, <2>5, KindRecords DEF Refreshing
    <3>4. QED
      BY <1>1, <2>1, <2>2, <2>5, <3>2, <3>3, KindRecords, GoesOn DEF Harmless
  <2>6. CASE Flush(a)
    <3> DEFINE q == [req[a] EXCEPT !.pc = "flushed", !.new = NewToken(a),
                                   !.revokes = RevokedBy(req[a].kind, req[a].cookie)]
    <3>1. req' = [req EXCEPT ![a] = q]
      BY <2>6 DEF Flush
    <3>2. q.kind = req[a].kind /\ q.pc = "flushed" /\ q.cookie = req[a].cookie
      BY <1>1 DEF Request
    <3> HIDE DEF q
    <3>3. q.kind = "refresh" => Refreshing(q)
      BY <2>4, <3>2 DEF Refreshing
    <3>4. QED
      BY <1>1, <2>1, <2>2, <3>1, <3>2, <3>3, GoesOn DEF Harmless
  <2>7. CASE FlushFails(a)
    BY <2>1, <2>7 DEF FlushFails, MayEnter
  <2>8. QED
    BY <2>5, <2>6, <2>7
<1>4. QED
  BY <1>2, <1>3

\* The commit of a refresh makes its new token live, and that of verify_email
\* leaves the rows alone.
LEMMA CommitKeeps ==
  ASSUME KeptInv, NEW a \in Actors, Commit(a)
  PROVE  KeepInv'
<1>1. /\ TypeOK /\ KeepInv /\ KindsInv /\ UNCHANGED <<cookie, kept>> /\ req[a] \in Request
      /\ Uncommitted(a)
  BY DEF KeptInv, IInv, TypeOK, Commit, webVars
<1>2. CASE ~kept
  BY <1>1, <1>2 DEF KeepInv
<1>3. CASE kept
  <2>1. /\ MayEnter /\ \A b \in Actors : req[b].kind \in Harmless
        /\ \A c, b \in Actors : req[c].kind = "refresh" /\ req[b].kind = "refresh" => c = b
        /\ \A b \in Actors : req[b].kind = "refresh" => Refreshing(req[b])
        /\ (\A b \in Actors : req[b].kind # "refresh") => IsLive(cookie)
    BY <1>1, <1>3 DEF KeepInv
  <2>2. req[a].kind \in {"refresh", "verify"}
    BY <1>1, <2>1 DEF KindsInv, KindHolds, Uncommitted, Harmless
  <2>3. MayEnter'
    <3>1. status' = status \/ status' = "active"
      BY <2>2 DEF Commit, NewStatus
    <3>2. QED
      BY <2>1, <3>1 DEF MayEnter, HasUser, UserStatus
  <2>4. \A b \in Actors \ {a} : req'[b] = req[b]
    BY <2>2 DEF Commit, Over, Changes
  <2>5. req'[a] = Over(a, a)
    BY DEF Commit
  <2>6. CASE req[a].kind = "verify"
    <3>1. row' = row
      <4>1. req[a].new = None /\ req[a].revokes = {}
        BY <1>1, <2>6 DEF KindsInv, KindHolds
      <4>2. \A t \in Tokens : row'[t] = row[t]
        BY <2>6, <4>1, NoneAssumption DEF Commit, RowsAfter
      <4>3. row \in [Tokens -> TokenRow] /\ row' = [t \in Tokens |-> row'[t]]
        BY <1>1 DEF Commit, RowsAfter, TypeOK
      <4>4. QED
        BY <4>2, <4>3
    <3>2. req'[a].kind \in {"verify", "none"}
      BY <2>5, <2>6, KindRecords DEF Over, Idle
    <3>3. \A b \in Actors : /\ req'[b].kind \in Harmless
                            /\ req'[b].kind = "refresh" => req'[b] = req[b]
                            /\ req[b].kind = "refresh" => req'[b] = req[b]
      BY <2>1, <2>4, <2>6, <3>2 DEF Harmless
    <3>4. IsLive(cookie)' <=> IsLive(cookie)
      BY <1>1, <3>1 DEF IsLive
    <3>5. \A b \in Actors : req'[b] = req[b] /\ Refreshing(req[b]) => Refreshing(req[b])'
      BY <1>1, <3>1 DEF Refreshing, IsLive
    <3>6. /\ \A c, b \in Actors : req'[c].kind = "refresh" /\ req'[b].kind = "refresh" => c = b
          /\ \A b \in Actors : req'[b].kind = "refresh" => Refreshing(req[b])'
          /\ (\A b \in Actors : req'[b].kind # "refresh") => IsLive(cookie)'
      BY <2>1, <3>3, <3>4, <3>5
    <3>7. QED
      BY <2>3, <3>3, <3>6 DEF KeepInv
  <2>7. CASE req[a].kind = "refresh"
    <3>1. \A b \in Actors \ {a} : req'[b].kind # "refresh" /\ req'[b].kind \in Harmless
      BY <2>1, <2>4, <2>7
    <3>2. req[a].new # None /\ row'[req[a].new].state = "live"
      <4>1. req[a].new \in Tokens /\ req[a].new # None
        BY <1>1, <2>7, NoneAssumption
           DEF KeptInv, IInv, RequestsInv, RequestInv, WrittenInv, Uncommitted, Pending, Written, Issuing
      <4>2. row'[req[a].new] = Inserted(a)
        BY <4>1 DEF Commit, RowsAfter
      <4>3. QED
        BY <4>1, <4>2 DEF Inserted
    <3>3. CASE req[a].pc = "answered"
      <4>1. req[a].new = cookie
        BY <2>1, <2>7, <3>3 DEF Refreshing
      <4>2. req'[a].kind = "none"
        BY <2>5, <3>3, KindRecords DEF Over
      <4>3. IsLive(cookie)'
        BY <1>1, <3>2, <4>1 DEF IsLive
      <4>4. \A b \in Actors : req'[b].kind # "refresh" /\ req'[b].kind \in Harmless
        BY <3>1, <4>2 DEF Harmless
      <4>5. QED
        BY <2>3, <4>3, <4>4 DEF KeepInv
    <3>4. CASE req[a].pc # "answered"
      <4>1. req[a].pc = "flushed" /\ req[a].cookie = cookie
        BY <1>1, <2>1, <2>7, <3>4 DEF Refreshing, Uncommitted
      <4>2. a \in Tabs /\ a \notin Others
        BY <1>1, <2>7, ActorAssumption DEF KindsInv, KindHolds, OtherKinds, Actors
      <4>3. /\ req'[a].kind = "refresh" /\ req'[a].pc = "committed" /\ req'[a].cookie = cookie
            /\ req'[a].new = req[a].new
        BY <2>5, <2>7, <3>4, <4>1, <4>2 DEF Over, Idle
      <4>4. Refreshing(req[a])'
        BY <1>1, <3>2, <4>3 DEF Refreshing, IsLive
      <4>5. /\ \A b \in Actors : req'[b].kind \in Harmless
            /\ \A c, b \in Actors : req'[c].kind = "refresh" /\ req'[b].kind = "refresh" => c = b
            /\ \A b \in Actors : req'[b].kind = "refresh" => Refreshing(req[b])'
        BY <3>1, <4>3, <4>4 DEF Harmless
      <4>6. QED
        BY <2>3, <4>3, <4>5 DEF KeepInv
    <3>5. QED
      BY <3>3, <3>4
  <2>8. QED
    BY <2>2, <2>6, <2>7
<1>4. QED
  BY <1>2, <1>3

\* The answer to a login starts the session; that to a refresh hands on the
\* cookie.
LEMMA AnswerKeeps ==
  ASSUME KeptInv, NEW a \in Actors, Answer(a)
  PROVE  KeepInv'
<1>1. /\ TypeOK /\ KeepInv /\ KindsInv /\ UNCHANGED <<row, status>> /\ req[a] \in Request
      /\ a \in Tabs /\ a \notin Others
      /\ req[a].pc \in {"committed", "flushed"}
  BY ActorAssumption DEF KeptInv, IInv, TypeOK, Answer, dbVars
<1>2. \A b \in Actors : req'[b] = IF b = a THEN req'[a] ELSE req[b]
  BY <1>1 DEF Answer, TypeOK
<1>3. MayEnter' <=> MayEnter
  BY <1>1 DEF MayEnter, HasUser
<1>4. CASE ~kept'
  BY <1>4 DEF KeepInv
<1>5. CASE kept' /\ kept
  <2>1. /\ MayEnter /\ \A b \in Actors : req[b].kind \in Harmless
        /\ \A c, b \in Actors : req[c].kind = "refresh" /\ req[b].kind = "refresh" => c = b
        /\ req[a].kind = "refresh" => Refreshing(req[a])
    BY <1>1, <1>5 DEF KeepInv
  <2>2. req[a].kind = "refresh"
    BY <1>1, <2>1 DEF Harmless, KindsInv, KindHolds, TabKinds
  <2>3. \A b \in Actors \ {a} : req'[b].kind # "refresh" /\ req'[b].kind \in Harmless
    BY <1>2, <2>1, <2>2
  <2>4. cookie' = req[a].new
    BY <2>2 DEF Answer, CookieAfter, Issuing
  <2>5. CASE req[a].pc = "flushed"
    <3>1. req'[a] = [req[a] EXCEPT !.pc = "answered"]
      BY <1>1, <2>5 DEF Answer, TypeOK
    <3>2. req'[a].kind = "refresh" /\ req'[a].pc = "answered" /\ req'[a].new = cookie'
      BY <1>1, <2>2, <2>4, <3>1 DEF Request
    <3>3. Refreshing(req[a])'
      BY <3>2 DEF Refreshing
    <3>4. /\ \A b \in Actors : req'[b].kind \in Harmless
          /\ \A c, b \in Actors : req'[c].kind = "refresh" /\ req'[b].kind = "refresh" => c = b
          /\ \A b \in Actors : req'[b].kind = "refresh" => Refreshing(req[b])'
      BY <2>3, <3>2, <3>3 DEF Harmless
    <3>5. QED
      BY <1>3, <2>1, <3>2, <3>4 DEF KeepInv
  <2>6. CASE req[a].pc = "committed"
    <3>1. IsLive(req[a].new)
      BY <2>1, <2>2, <2>6 DEF Refreshing
    <3>2. IsLive(cookie)'
      BY <1>1, <2>4, <3>1 DEF IsLive
    <3>3. req'[a] = Idle
      BY <1>1, <2>2, <2>6 DEF Answer, TypeOK
    <3>4. \A b \in Actors : req'[b].kind # "refresh" /\ req'[b].kind \in Harmless
      BY <2>3, <3>3, KindRecords DEF Harmless
    <3>5. QED
      BY <1>3, <2>1, <3>2, <3>4 DEF KeepInv
  <2>7. QED
    BY <1>1, <2>5, <2>6
<1>6. CASE kept' /\ ~kept
  <2>1. /\ req[a].kind = "login" /\ IsLive(req[a].new) /\ MayEnter
        /\ \A b \in Actors \ {a} : req[b].kind \in Harmless \ {"refresh"}
    BY <1>6 DEF Answer
  <2>2. req[a].pc = "committed"
    <3>1. req[a].pc = "flushed" => row[req[a].new].state = "free"
      BY <2>1 DEF KeptInv, IInv, RequestsInv, RequestInv, WrittenInv, Pending, Written, Issuing
    <3>2. QED
      BY <1>1, <2>1, <3>1 DEF IsLive
  <2>3. cookie' = req[a].new /\ req'[a] = Idle
    BY <1>1, <2>1, <2>2 DEF Answer, CookieAfter, Issuing, TypeOK
  <2>4. IsLive(cookie)'
    BY <1>1, <2>1, <2>3 DEF IsLive
  <2>5. \A b \in Actors : req'[b].kind # "refresh" /\ req'[b].kind \in Harmless
    BY <1>2, <2>1, <2>3, KindRecords DEF Harmless
  <2>6. QED
    BY <1>3, <2>1, <2>4, <2>5 DEF KeepInv
<1>7. QED
  BY <1>4, <1>5, <1>6

LEMMA NextKeptInv == ASSUME KeptInv, [Next]_vars PROVE KeptInv'
<1>1. IInv' /\ KindsInv'
  BY NextIInv, NextKindsInv DEF KeptInv
<1>2. TypeOK /\ KeepInv
  BY DEF KeptInv, IInv
<1>3. ASSUME UNCHANGED <<row, status, cookie, req, kept>> PROVE KeepInv'
  BY <1>2, <1>3 DEF KeepInv, MayEnter, HasUser, IsLive, Refreshing
<1>4. ASSUME SignUp PROVE KeepInv'
  <2>1. kept => MayEnter
    BY <1>2 DEF KeepInv
  <2>2. ~kept'
    BY <1>4, <2>1 DEF SignUp, MayEnter, HasUser, UserStatus
  <2>3. QED
    BY <2>2 DEF KeepInv
<1>5. ASSUME StartPasswordReset \/ RequestEmailChange \/ UNCHANGED vars PROVE KeepInv'
  BY <1>3, <1>5 DEF StartPasswordReset, RequestEmailChange, Mail, webVars, vars
<1>6. ASSUME NEW a \in Actors, Refuse(a) PROVE KeepInv'
  <2>1. UNCHANGED <<row, status, cookie, kept>> /\ req' = [req EXCEPT ![a] = AfterRefusal(a)]
    BY <1>6 DEF Refuse, dbVars
  <2>2. kept => req[a].kind # "refresh"
    BY <1>2, <1>6 DEF KeepInv, Refuse, Refreshing
  <2>3. kept => AfterRefusal(a).kind = "none"
    BY <2>2, KindRecords DEF AfterRefusal
  <2>4. QED
    BY <1>2, <2>1, <2>2, <2>3, GoesOn DEF Harmless
<1>7. ASSUME NEW a \in Actors, Fail(a) PROVE KeepInv'
  <2>1. ~kept'
    BY <1>7 DEF Fail, RequestFails, CommitFails, Lost, Strike
  <2>2. QED
    BY <2>1 DEF KeepInv
<1>8. ASSUME NEW t \in Tokens, Expire(t) PROVE KeepInv'
  <2>1. ~kept'
    BY <1>8 DEF Expire, Strike
  <2>2. QED
    BY <2>1 DEF KeepInv
<1>9. ASSUME NEW a \in Tabs, NEW kind \in TabKinds, Send(a, kind) PROVE KeepInv'
  BY <1>9, SendKeeps, ActorAssumption, Constants
<1>10. ASSUME NEW a \in Others, NEW kind \in OtherKinds, Send(a, kind) PROVE KeepInv'
  BY <1>10, SendKeeps, ActorAssumption, Constants
<1>11. ASSUME NEW a \in Actors, Serve(a) \/ Answer(a) PROVE KeepInv'
  BY <1>11, ServeKeeps, CommitKeeps, AnswerKeeps DEF Serve
<1>12. KeepInv'
  BY <1>4, <1>5, <1>6, <1>7, <1>8, <1>9, <1>10, <1>11 DEF Next, Receive
<1>13. QED
  BY <1>1, <1>12 DEF KeptInv

-----------------------------------------------------------------------------
\* The account, its tokens, the browser and the requests keep their types.
THEOREM SessionsTypes == Spec => []TypeOK
<1>1. IInv => TypeOK
  BY DEF IInv
<1>2. QED
  BY <1>1, InvariantIInv, PTL

\* A change of the credentials ends every session, but for tokens that are
\* issued while it is under way.
THEOREM CredentialsEndSessions == Spec => []SessionsEndWithCredentials
<1>1. IInv => SessionsEndWithCredentials
  BY DEF IInv, RowsInv
<1>2. QED
  BY <1>1, InvariantIInv, PTL

\* However requests interleave, commit late or fail, a login has one live token,
\* unless two refreshes of one token were past its check at once.
THEOREM RotationKeepsOneToken == Spec => []OneTokenPerLogin
<1>1. IInv => OneTokenPerLogin
  BY DEF IInv, RowsInv
<1>2. QED
  BY <1>1, InvariantIInv, PTL

\* A suspension ends with the account, or by a verify_email that had read the
\* status before it: no other request lifts it.
THEOREM SuspensionLasts == Spec => SuspensionHolds
<1> DEFINE Excused == \/ status' = "deleted"
                      \/ \E a \in Actors : req[a].kind = "verify" /\ Uncommitted(a)
                                             /\ req[a].seen = "pending_verification"
<1>1. ASSUME [Next]_vars, status = "suspended", status' # "suspended" PROVE Excused
  <2>1. PICK a \in Actors : Commit(a)
    <3>1. ~UNCHANGED status
      BY <1>1
    <3>2. ~(SignUp \/ StartPasswordReset \/ RequestEmailChange)
      BY <1>1, <3>1 DEF SignUp, StartPasswordReset, RequestEmailChange, Mail
    <3>3. \A a \in Actors : \A kind : ~Send(a, kind)
      BY <3>1 DEF Send, dbVars
    <3>4. \A a \in Actors : ~(Read(a) \/ Flush(a) \/ FlushFails(a) \/ Receive(a) \/ Fail(a))
      BY <3>1 DEF Read, Flush, FlushFails, Receive, Answer, Refuse, Fail, RequestFails, CommitFails,
                  Lost, dbVars
    <3>5. \A t \in Tokens : ~Expire(t)
      BY <3>1 DEF Expire
    <3>6. QED
      BY <1>1, <3>1, <3>2, <3>3, <3>4, <3>5, Constants DEF Next, Serve, vars
  <2>2. Uncommitted(a) /\ status' = NewStatus(a)
    BY <2>1 DEF Commit
  <2>3. QED
    BY <1>1, <2>2 DEF NewStatus
<1>2. QED
  BY <1>1, PTL DEF Spec, SuspensionHolds

\* A browser that has signed in can refresh, or is about to receive the cookie
\* it can refresh with, until something of the named kind disturbs it: whatever
\* the number of tabs, refreshes one after the other, and late commits.
THEOREM SessionsAreKept == Spec => []SessionIsKept
<1>1. Spec => []KeptInv
  BY InitKeptInv, NextKeptInv, PTL DEF Spec
<1>2. ASSUME KeptInv PROVE SessionIsKept
  <2>1. KindsInv /\ KeepInv
    BY <1>2 DEF KeptInv
  <2>2. \A a \in Actors : req[a].kind = "refresh" => a \in Tabs
    BY <2>1 DEF KindsInv, KindHolds, OtherKinds, Actors
  <2>3. QED
    BY <2>1, <2>2 DEF KeepInv, Refreshing, SessionIsKept
<1>3. QED
  BY <1>1, <1>2, PTL
=============================================================================
