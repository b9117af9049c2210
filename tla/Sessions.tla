------------------------------ MODULE Sessions ------------------------------
(***************************************************************************)
(* The sessions of one user: an account, its refresh_tokens rows, and a    *)
(* browser whose tabs share the refresh cookie.  The requests that read    *)
(* and write them run side by side.  A request goes through these steps:   *)
(*   sent       the browser has attached the cookie as it was then         *)
(*   read       the handler has read its rows and let the request pass     *)
(*   flushed    its statements have run, seen by no other transaction      *)
(*   committed  get_db has committed; the answer is on its way             *)
(*   answered   the answer is there; the commit is not                     *)
(*   refused    the handler raised, so get_db rolls back                   *)
(* get_db commits after its yield, which FastAPI runs once the response is *)
(* sent: the answer and the commit come in either order.  Steps between    *)
(* which nobody can tell the difference are one: a login and the use of a  *)
(* link start as read, any other request without the cookie as flushed.    *)
(***************************************************************************)
EXTENDS Naturals, FiniteSets

CONSTANTS
  Tabs,        \* tabs of the user's browser
  Others,      \* requests from elsewhere: mailed links, the administrator
  Tokens,      \* refresh_tokens rows; issuing one takes a fresh row
  None,        \* no cookie, no row
  FaultKinds,  \* the failures that can happen in this instance
  MaxFaults,   \* bound on their number
  MaxRequests  \* bound on the requests besides refreshes and mails

ASSUME NoneAssumption   == None \notin Tokens
ASSUME ActorAssumption  == Tabs \cap Others = {}
ASSUME BoundsAssumption == MaxFaults \in Nat /\ MaxRequests \in Nat

VARIABLES
  status,   \* users.status, or no row yet, or no row any more
  changes,  \* how often the credentials (password, address) have changed
  row,      \* the refresh_tokens rows
  link,     \* the link last mailed, per purpose
  cookie,   \* the refresh cookie of the browser
  access,   \* the tabs that hold an access token
  req,      \* the request each tab, and each other actor, has under way
  asked, faults,  \* requests and failures so far, as far as they are bounded
  forked,   \* history: logins of which one token was refreshed twice at once
  kept      \* history: nothing has disturbed the session since its login

dbVars  == <<status, changes, row, link>>
webVars == <<cookie, access>>
vars    == <<status, changes, row, link, cookie, access, req, asked, faults, forked, kept>>

-----------------------------------------------------------------------------
(* Types *)

Actors == Tabs \cup Others

UserStatus == {"pending_verification", "active", "suspended"}
Changes    == {"password", "reset", "confirm"}
TabKinds   == {"login", "refresh", "logout", "password", "delete", "confirm"}
OtherKinds == {"verify", "reset", "suspend"}
WithCookie == {"refresh", "logout"}
Issuing    == {"login", "refresh"}
\* The requests a mailed link is for.
Links == {"verify", "reset", "confirm"}
\* Requests another one may overtake between their checks and their statements.
Overtakable == Issuing \cup Links

\* since is the number of changes the login had seen; stray says that a change
\* was under way while the token, or one it was rotated from, was issued.
Origin   == [login: Tokens \cup {None}, since: Nat, stray: BOOLEAN]
Nowhere  == [login |-> None, since |-> 0, stray |-> FALSE]
TokenRow == [state: {"free", "live", "revoked", "expired"}, origin: Origin]
Request  == [kind: TabKinds \cup OtherKinds \cup {"none"},
             pc: {"idle", "sent", "read", "flushed", "committed", "answered", "refused"},
             cookie: Tokens \cup {None},  \* as it was when the request was sent
             seen: UserStatus \cup {"none"},  \* the status verify_email has read
             origin: Origin,              \* of the row it inserts
             new: Tokens \cup {None},     \* the row it inserts
             revokes: SUBSET Tokens]      \* the rows it sets revoked_at on
Idle == [kind |-> "none", pc |-> "idle", cookie |-> None, seen |-> "none",
         origin |-> Nowhere, new |-> None, revokes |-> {}]

TypeOK ==
  /\ status  \in UserStatus \cup {"absent", "deleted"}
  /\ {changes, asked, faults} \subseteq Nat /\ kept \in BOOLEAN
  /\ row     \in [Tokens -> TokenRow]
  /\ link    \in [Links -> {"none", "valid", "used"}]
  /\ cookie  \in Tokens \cup {None}
  /\ access  \subseteq Tabs /\ forked \subseteq Tokens
  /\ req     \in [Actors -> Request]

Init ==
  /\ status = "absent" /\ changes = 0 /\ asked = 0 /\ faults = 0 /\ kept = FALSE
  /\ row = [t \in Tokens |-> [state |-> "free", origin |-> Nowhere]]
  /\ link = [p \in Links |-> "none"]
  /\ cookie = None /\ access = {} /\ forked = {}
  /\ req = [a \in Actors |-> Idle]

-----------------------------------------------------------------------------
(* Helpers *)

IsLive(t)   == t # None /\ row[t].state = "live"
LiveTokens  == {t \in Tokens : IsLive(t)}
HasUser     == status \in UserStatus
\* Login, refresh and get_current_user turn a suspended account away.
MayEnter    == HasUser /\ status # "suspended"
Issues(a)   == req[a].kind \in Issuing
Uncommitted(a) == req[a].pc \in {"flushed", "answered"}
Changing    == \E a \in Actors : req[a].kind \in Changes /\ Uncommitted(a)

\* Rows nobody has taken or knows of; bound: a request that may issue a token is
\* sent only while there is one for it.
FreeTokens == {t \in Tokens \ {cookie} :
  row[t].state = "free" /\ \A a \in Actors : t \notin {req[a].new, req[a].cookie}}
SpareToken ==
  Cardinality(FreeTokens)
    > Cardinality({a \in Actors : req[a].pc \in {"sent", "read"} /\ Issues(a)})

Strike(kind) ==
  /\ kind \in FaultKinds /\ faults < MaxFaults
  /\ faults' = faults + 1
  /\ kept' = FALSE

\* What cannot end a session: verify_email, and the refresh of a tab
\* while no other tab refreshes or signs in.
Harmless == {"none", "refresh", "verify"}
Quiet(a, kind) ==
  kind \in Harmless /\ (kind = "refresh" => \A b \in Actors \ {a} : ~Issues(b))

-----------------------------------------------------------------------------
(* Accounts and mailed links *)

\* signup: the account, and a link to verify its address.
SignUp ==
  /\ status = "absent"
  /\ status' = "pending_verification"
  /\ link' = [link EXCEPT !["verify"] = "valid"]
  /\ UNCHANGED <<changes, row, webVars, req, asked, faults, forked, kept>>

\* A mailed link, and nothing else that is read before the link is used.  Bound:
\* one link of a kind, one at a time, and only while a request can still use it.
Mail(p) ==
  /\ link[p] = "none" /\ asked < MaxRequests
  /\ \A o \in Links \ {"verify"} : link[o] # "valid"
  /\ link' = [link EXCEPT ![p] = "valid"]
  /\ UNCHANGED <<status, changes, row, webVars, req, asked, faults, forked, kept>>

\* Anybody may ask for a new password; a new address is asked for in the settings.
StartPasswordReset == HasUser /\ Mail("reset")
RequestEmailChange == MayEnter /\ access # {} /\ Mail("confirm")

-----------------------------------------------------------------------------
(* Sending a request *)

\* A page offers the request: a tab signs in while it holds no access token,
\* and uses the settings while it does.  Everyone has the links mailed so far.
Offered(a, kind) ==
  CASE kind = "refresh"  -> SpareToken \/ ~(IsLive(cookie) \/ \E b \in Tabs : req[b].new = cookie)
    [] kind = "login"    -> a \notin access /\ SpareToken
    [] kind = "password" -> a \in access
    [] kind \in {"logout", "delete"} -> a \in access
    [] kind \in Links    -> link[kind] = "valid"
    [] kind = "suspend"  -> MayEnter

\* revoke_all_refresh_tokens; the row a refresh rotates, or a logout ends.
\* Mutations: the old token stays live; new credentials revoke nothing.
RevokedByWithoutRotation(kind, with) ==
  IF kind \in Changes THEN LiveTokens
  ELSE IF kind = "logout" THEN {with} \cap LiveTokens ELSE {}
RevokedByOwnOnly(kind, with) ==
  IF kind \in WithCookie THEN {with} \cap LiveTokens ELSE {}
RevokedBy(kind, with) ==
  IF kind \in Changes THEN LiveTokens
  ELSE IF kind \in WithCookie THEN {with} \cap LiveTokens ELSE {}

\* What the handlers check before they write.
LinkHolds(kind) == link[kind] = "valid" /\ HasUser
Passes(kind, with) ==
  CASE kind = "refresh" -> IsLive(with) /\ MayEnter
    [] kind \in {"login", "password", "delete"} -> MayEnter
    [] kind \in Links -> LinkHolds(kind)
    [] OTHER -> TRUE

\* A refresh carries its origin on to the new row; a login starts one.
OriginOf(kind, with) ==
  CASE kind = "refresh" -> row[with].origin
    [] kind = "login"   -> [Nowhere EXCEPT !.since = changes]
    [] OTHER -> Nowhere

\* A request past its reads, and one that has run its statements at once.
PastReads(kind, with) ==
  [Idle EXCEPT !.kind = kind, !.pc = "read", !.cookie = with, !.origin = OriginOf(kind, with),
               !.seen = IF kind = "verify" THEN status ELSE "none"]
PastStatements(kind, with) ==
  [Idle EXCEPT !.kind = kind, !.pc = "flushed", !.cookie = with, !.revokes = RevokedBy(kind, with)]

\* Row locks on users: an UPDATE waits for another one to end, and the foreign
\* key of an inserted token for a DELETE, and the other way round.
Waits(a, kind) ==
  \E b \in Actors \ {a} : Uncommitted(b) /\
    \/ {kind, req[b].kind} \subseteq Changes \cup {"suspend", "delete"}
    \/ kind \in Issuing /\ req[b].kind = "delete"
    \/ kind = "delete" /\ Issues(b)

\* A request that would wait for a row is taken to arrive when it gets it, but for
\* one that has its check behind it by then: two may pass with one link.
Send(a, kind) ==
  /\ req[a].pc = "idle"
  /\ Offered(a, kind)
  /\ IF kind = "refresh" THEN UNCHANGED asked ELSE asked < MaxRequests /\ asked' = asked + 1
  /\ IF kind \in WithCookie
     THEN req' = [req EXCEPT ![a] = [Idle EXCEPT !.kind = kind, !.pc = "sent", !.cookie = cookie]]
     ELSE /\ Passes(kind, None)
          /\ kind \notin Overtakable => ~Waits(a, kind)
          /\ req' = [req EXCEPT ![a] = IF kind \in Overtakable THEN PastReads(kind, None)
                                                             ELSE PastStatements(kind, None)]
  /\ kept' = (kept /\ Quiet(a, kind))
  /\ UNCHANGED <<dbVars, webVars, faults, forked>>

-----------------------------------------------------------------------------
(* Handling it *)

\* A refresh with a token that was rotated or revoked before.
Reused(with) == with # None /\ row[with].state = "revoked" /\ HasUser

\* The reads of a request that carries the cookie.  The reuse of a token revokes
\* the family, and then raises: get_db rolls the revocation back with it.
Read(a) ==
  LET q == req[a] IN
  /\ q.pc = "sent"
  /\ req' = [req EXCEPT ![a] =
        IF Passes(q.kind, q.cookie)
        THEN IF q.kind = "refresh" THEN PastReads(q.kind, q.cookie)
                                   ELSE PastStatements(q.kind, q.cookie)
        ELSE [q EXCEPT !.pc = "refused", !.cookie = None,
                       !.revokes = IF Reused(q.cookie) THEN LiveTokens ELSE {}]]
  /\ UNCHANGED <<dbVars, webVars, asked, faults, forked, kept>>

\* The statements of a login, a refresh or a link.  (SpareToken leaves a row.)
NewToken(a) == IF Issues(a) THEN CHOOSE t \in FreeTokens : TRUE ELSE None
Flush(a) ==
  /\ req[a].pc = "read" /\ ~Waits(a, req[a].kind) /\ HasUser
  /\ Issues(a) => FreeTokens # {}
  /\ req' = [req EXCEPT ![a].pc = "flushed", ![a].new = NewToken(a),
                        ![a].revokes = RevokedBy(req[a].kind, req[a].cookie)]
  /\ UNCHANGED <<dbVars, webVars, asked, faults, forked, kept>>

Refused(a) == [Idle EXCEPT !.kind = req[a].kind, !.pc = "refused"]

\* The user's row is gone by the time of the statements: they fail.
FlushFails(a) ==
  /\ req[a].pc = "read" /\ ~HasUser
  /\ req' = [req EXCEPT ![a] = Refused(a)]
  /\ UNCHANGED <<dbVars, webVars, asked, faults, forked, kept>>

\* Mutations: the status is set whatever it was; a status that is no UserStatus.
NewStatusUnchecked(a) ==
  CASE req[a].kind = "verify"  -> "active"
    [] req[a].kind = "suspend" -> "suspended"
    [] req[a].kind = "delete"  -> "deleted"
    [] OTHER -> status
NewStatusVerified(a) ==
  CASE req[a].kind = "verify"  -> "verified"
    [] req[a].kind = "suspend" -> "suspended"
    [] req[a].kind = "delete"  -> "deleted"
    [] OTHER -> status
\* verify_email writes active only if it read pending; the ORM writes it
\* whatever the row says by then, and leaves the column alone otherwise.
NewStatus(a) ==
  CASE req[a].kind = "verify" /\ req[a].seen = "pending_verification" /\ HasUser -> "active"
    [] req[a].kind = "suspend" /\ HasUser -> "suspended"
    [] req[a].kind = "delete"  -> "deleted"
    [] OTHER -> status

\* The rows once the request has committed; deleting the user deletes them.
Inserted(a) ==
  LET o == req[a].origin IN
  [state |-> "live", origin |-> [login |-> IF o.login = None THEN req[a].new ELSE o.login,
                                 since |-> o.since, stray |-> o.stray \/ Changing]]
RowsAfter(a) ==
  [t \in Tokens |->
     IF t = req[a].new THEN Inserted(a)
     ELSE IF t \in req[a].revokes \/ (req[a].kind = "delete" /\ row[t].state # "free")
     THEN [state |-> "revoked", origin |-> Nowhere] ELSE row[t]]

\* Two refreshes of one token, both past its check.
Twins(a) == {b \in Actors \ {a} : req[b].kind = "refresh" /\ req[b].cookie = req[a].cookie
                                    /\ req[b].pc \in {"read", "flushed", "answered"}}

\* The request is over for the browser that has its answer, and for others.
\* History: the commit of a change overtakes the requests that have read before.
Over(a, b) ==
  LET overtaken == req[a].kind \in Changes /\ Issues(b) /\ (req[b].pc = "read" \/ Uncommitted(b)) IN
  IF b = a THEN IF req[a].pc = "answered" \/ a \in Others THEN Idle
                ELSE [Idle EXCEPT !.kind = req[a].kind, !.pc = "committed",
                                  !.cookie = req[a].cookie, !.new = req[a].new]
  ELSE IF overtaken THEN [req[b] EXCEPT !.origin.stray = TRUE]
  ELSE req[b]

Commit(a) ==
  LET q == req[a] IN
  /\ Uncommitted(a)
  /\ row' = RowsAfter(a)
  /\ status' = NewStatus(a)
  /\ changes' = IF q.kind \in Changes THEN changes + 1 ELSE changes
  /\ link' = IF q.kind \in Links THEN [link EXCEPT ![q.kind] = "used"] ELSE link
  /\ forked' = IF q.kind = "refresh" /\ Twins(a) # {}
               THEN forked \cup {q.origin.login} ELSE forked
  /\ req' = [b \in Actors |-> Over(a, b)]
  /\ UNCHANGED <<webVars, asked, faults, kept>>

-----------------------------------------------------------------------------
(* The answer *)

\* Mutation: /auth/refresh answers without the cookie.
CookieAfterNoRotation(q) == IF q.kind = "login" THEN q.new
  ELSE IF q.kind = "refresh" THEN cookie ELSE None
\* The cookie after a good answer.
CookieAfter(q) == IF q.kind \in Issuing THEN q.new ELSE None

\* A login and a refresh answer with a new access token as well, which the tab
\* keeps to itself and drops when it signs out.
AccessAfter(a) ==
  IF Issues(a) THEN access \cup {a}
  ELSE IF req[a].kind = "logout" THEN access \ {a} ELSE access

\* The browser sends /auth/logout, with the cookie as it is by then.
LogoutWith(c) == [Idle EXCEPT !.kind = "logout", !.pc = "sent", !.cookie = c]

\* A good answer, before the commit or after it where the browser acts on it
\* with what is not committed yet.  The settings page signs out after a new
\* password and after the deletion of the account, when the cookie is gone.
Answer(a) ==
  LET q == req[a] IN
  /\ a \in Tabs
  /\ \/ q.pc = "committed"
     \/ q.pc = "flushed" /\ q.kind \in {"login", "refresh", "logout"}
  /\ cookie' = CookieAfter(q)
  /\ access' = AccessAfter(a)
  /\ kept' = \/ kept
             \/ q.kind = "login" /\ IsLive(q.new) /\ MayEnter
                  /\ \A b \in Actors \ {a} : req[b].kind \in Harmless \ {"refresh"}
  /\ req' = [req EXCEPT ![a] =
        IF q.pc = "flushed" THEN [q EXCEPT !.pc = "answered"]
        ELSE IF q.kind \in {"password", "delete"} THEN LogoutWith(None) ELSE Idle]
  /\ UNCHANGED <<dbVars, asked, faults, forked>>

\* Mutation: the stale cookie is left where it is.
AfterRefusalNothing(a) == Idle
\* refreshAccessToken drops a cookie that was refused; other refusals only show.
AfterRefusal(a) ==
  IF req[a].kind = "refresh" THEN LogoutWith(cookie) ELSE Idle

\* A refused sign-out drops the access token as well.
Refuse(a) ==
  /\ req[a].pc = "refused"
  /\ access' = IF req[a].kind \in WithCookie THEN access \ {a} ELSE access
  /\ req' = [req EXCEPT ![a] = AfterRefusal(a)]
  /\ UNCHANGED <<dbVars, cookie, asked, faults, forked, kept>>

-----------------------------------------------------------------------------
(* Failures *)

\* The database fails a request before its answer: 500, and a rollback.
RequestFails(a) ==
  /\ req[a].pc \in {"sent", "read", "flushed"}
  /\ Strike("database")
  /\ req' = [req EXCEPT ![a] = Refused(a)]
  /\ UNCHANGED <<dbVars, webVars, asked, forked>>

\* The commit fails after the answer has left.
CommitFails(a) ==
  /\ req[a].pc = "answered"
  /\ Strike("database")
  /\ req' = [req EXCEPT ![a] = Idle]
  /\ UNCHANGED <<dbVars, webVars, asked, forked>>

\* The request or its answer is lost: fetch throws, and the tab keeps what it
\* has, but a sign-out drops the access token all the same.
Lost(a) ==
  /\ req[a].pc \in {"sent", "committed"}
  /\ Strike("network")
  /\ access' = IF req[a].kind = "logout" THEN access \ {a} ELSE access
  /\ req' = [req EXCEPT ![a] = Idle]
  /\ UNCHANGED <<dbVars, cookie, asked, forked>>

\* A token reaches its expires_at.
Expire(t) ==
  /\ IsLive(t)
  /\ Strike("expiry")
  /\ row' = [row EXCEPT ![t] = [state |-> "expired", origin |-> Nowhere]]
  /\ UNCHANGED <<status, changes, link, webVars, req, asked, forked>>

-----------------------------------------------------------------------------
(* The specification *)

Serve(a) == Read(a) \/ Flush(a) \/ FlushFails(a) \/ Commit(a)
Receive(a) == Answer(a) \/ Refuse(a)
Fail(a) == RequestFails(a) \/ CommitFails(a) \/ Lost(a)

Next ==
  \/ SignUp \/ StartPasswordReset \/ RequestEmailChange
  \/ \E a \in Tabs : \E kind \in TabKinds : Send(a, kind)
  \/ \E a \in Others : \E kind \in OtherKinds : Send(a, kind)
  \/ \E a \in Actors : Serve(a) \/ Receive(a) \/ Fail(a)
  \/ \E t \in Tokens : Expire(t)

Spec == Init /\ [][Next]_vars

\* The API serves what a tab has sent, the answers arrive, and a tab refreshes
\* when it is loaded and when its access token runs out, whatever else it does.
Fairness ==
  \A a \in Tabs : /\ WF_vars(Serve(a)) /\ WF_vars(Receive(a))
                  /\ SF_vars(Send(a, "refresh"))
FairSpec == Spec /\ Fairness

-----------------------------------------------------------------------------
(* Properties *)

\* "Any credential change revokes every live refresh token" (account_service):
\* a live token comes from a login since the last change, or was issued while
\* the change was under way, or from such a token.
SessionsEndWithCredentials ==
  \A t \in LiveTokens : row[t].origin.since = changes \/ row[t].origin.stray

\* Rotation: a login has at most one live token, unless two refreshes of the
\* same token were past its check at once.
OneTokenPerLogin ==
  \A t, u \in LiveTokens :
    row[t].origin.login = row[u].origin.login => t = u \/ row[t].origin.login \in forked

\* A signed-in browser can refresh, or is about to receive the cookie it can
\* refresh with, until it signs out, the credentials change, the account is
\* suspended or deleted, the token expires, something fails, or two tabs
\* refresh at once.
SessionIsKept ==
  kept => \/ IsLive(cookie)
          \/ \E a \in Tabs : req[a].kind = "refresh" /\
               \/ req[a].pc = "committed" /\ req[a].cookie = cookie /\ IsLive(req[a].new)
               \/ req[a].pc = "answered" /\ req[a].new = cookie

\* A suspension holds, but for a verify_email that read the status before it.
SuspensionHolds ==
  [][status = "suspended" /\ status' # "suspended" =>
       \/ status' = "deleted"
       \/ \E a \in Actors : req[a].kind = "verify" /\ Uncommitted(a)
                              /\ req[a].seen = "pending_verification"]_vars

\* A cookie the API will refuse is dropped or replaced, so that the middleware
\* does not bounce the browser between the app and /login for ever.
Dead(t) == t # None /\ row[t].state \in {"revoked", "expired"}
DeadCookieGoes == Dead(cookie) ~> ~Dead(cookie)

-----------------------------------------------------------------------------
\* Claimed by refresh ("refresh token reuse detected; all sessions revoked"):
\* once a reused token was refused, the sessions it saw are over.
ReuseEndsSessions ==
  \A a \in Actors : req[a].pc = "refused" /\ req[a].revokes # {}
    => req[a].revokes \cap LiveTokens = {}
=============================================================================
