-------------------------- MODULE CredentialsProofs --------------------------
(***************************************************************************)
(* Proofs about a site credential: whatever the requests, checks, losses   *)
(* and rotations of the master key, for any number of them.                *)
(***************************************************************************)
EXTENDS Credentials, TLAPS

\* A request that goes to write has what it writes: an upsert its secret, the
\* others a row they loaded.
RequestRecord ==
  {r \in [pc : {"new", "loaded", "enqueue", "over"},
          kind : {"none", "upsert", "verify", "delete"}, secret : Secrets \cup {NoRow},
          seen : Row \cup {NoRow}, id : Requests \cup {NoRow}, at : Settings] :
     r.pc = "loaded" => IF r.kind = "upsert" THEN r.secret \in Secrets ELSE r.seen # NoRow}

\* A check that has judged holds the row of its id.
CheckRecord ==
  {c \in [pc : {"none", "queued", "judged", "over"}, id : Requests \cup {NoRow},
          seen : Row \cup {NoRow}] :
     c.pc = "judged" => c.seen # NoRow /\ c.id = c.seen.id}

FlagsInv ==
  overtaken \in BOOLEAN /\ outdated \in BOOLEAN /\ ahead \in BOOLEAN /\ lost \in BOOLEAN
TypeInv ==
  /\ row \in Row \cup {NoRow}
  /\ request \in [Requests -> RequestRecord] /\ check \in [Requests -> CheckRecord]
  /\ worker \in Settings /\ faults \in Nat

\* The API and the worker are at most one rollout apart, and no request runs on
\* a replica that has been retired.
RolloutInv ==
  /\ \/ api = {worker}
     \/ worker - 1 \in Settings /\ (api = {worker - 1} \/ api = {worker - 1, worker})
     \/ worker + 1 \in Settings /\ (api = {worker + 1} \/ api = {worker, worker + 1})
  /\ \A q \in Requests : request[q].pc \in {"loaded", "enqueue"} => request[q].at \in api

\* The check of a request starts when the request is over.
OrderInv == \A q \in Requests : request[q].pc # "over" => check[q].pc = "none"

\* The worker has the key the row names, and keeps it through its next restart.
KeyInv ==
  row # NoRow /\ ~ahead =>
    /\ row.key \in Rollout[worker].keys
    /\ worker + 1 \in api => row.key \in Rollout[worker + 1].keys

\* As long as nobody was overtaken the ciphertext goes with the key, and the
\* status is no wrong verdict.
StatusInv ==
  row # NoRow /\ ~overtaken =>
    /\ row.sealed = row.key
    /\ ~ahead => /\ row.secret \in Good => row.status # "invalid"
                 /\ row.status = "valid" => row.secret \in Good

\* A check of the stored row is under way, and its verdict will be written.
Pending(q) ==
  \/ request[q].pc = "enqueue" /\ request[q].id = row.id
  \/ check[q].pc = "queued" /\ check[q].id = row.id
  \/ /\ check[q].pc = "judged" /\ check[q].id = row.id
     /\ Content(check[q].seen) = Content(row)
     /\ check[q].seen.status # Verdict(check[q].seen)

\* The status is the verdict, or a check that makes it so is under way.
VerdictInv ==
  row # NoRow /\ ~ahead /\ ~lost /\ ~outdated =>
    row.status = Verdict(row) \/ \E q \in Requests : Pending(q)

IInv == FlagsInv /\ TypeInv /\ RolloutInv /\ OrderInv /\ KeyInv /\ StatusInv /\ VerdictInv

-----------------------------------------------------------------------------
(* Versions, replicas and records *)

\* The highest number of a set that has one, and likewise the lowest.
LEMMA MaxOf ==
  ASSUME NEW S \in SUBSET Nat, NEW m \in S, \A y \in S : m >= y
  PROVE  Max(S) = m
<1>1. \E x \in S : \A y \in S : x >= y  OBVIOUS
<1>2. Max(S) \in S /\ \A y \in S : Max(S) >= y  BY <1>1 DEF Max
<1>3. Max(S) \in Nat /\ m \in Nat /\ Max(S) >= m /\ m >= Max(S)  BY <1>2
<1>4. QED BY <1>3
LEMMA MinOf ==
  ASSUME NEW S \in SUBSET Nat, NEW m \in S, \A y \in S : m <= y
  PROVE  Min(S) = m
<1>1. \E x \in S : \A y \in S : x <= y  OBVIOUS
<1>2. Min(S) \in S /\ \A y \in S : Min(S) <= y  BY <1>1 DEF Min
<1>3. Min(S) \in Nat /\ m \in Nat /\ Min(S) <= m /\ m <= Min(S)  BY <1>2
<1>4. QED BY <1>3

LEMMA SettingsFacts == Settings \subseteq Nat /\ 1 \in Settings
BY RolloutAssumption DEF Settings

\* An API seals with a key it has.
LEMMA VersionFacts ==
  ASSUME NEW s \in Settings
  PROVE  CurrentVersion(s) \in Rollout[s].keys /\ CurrentVersion(s) \in Versions
<1>1. Rollout[s].keys \in SUBSET Nat /\ \E v \in Rollout[s].keys : \A w \in Rollout[s].keys : v >= w
  BY RolloutAssumption DEF Settings
<1>2. Max(Rollout[s].keys) \in Rollout[s].keys  BY <1>1, MaxOf
<1>3. CurrentVersion(s) \in Rollout[s].keys  BY <1>2 DEF CurrentVersion
<1>4. QED BY <1>3 DEF Versions

\* The newest and the oldest replicas.
LEMMA ApiFacts ==
  ASSUME TypeInv, RolloutInv
  PROVE  /\ api \subseteq Settings /\ api # {} /\ Max(api) \in api
         /\ worker < Max(api) <=> worker + 1 \in api
         /\ Max(api) < worker <=> api = {worker - 1}
         /\ worker < Max(api) => Max(api) = worker + 1
         /\ Max(api) < worker => Max(api) = worker - 1
         /\ Min(api) # Max(api) => \/ api = {worker - 1, worker} /\ Min(api) = worker - 1
                                   \/ api = {worker, worker + 1} /\ Min(api) = worker
<1>1. worker \in Nat /\ worker \in Settings  BY SettingsFacts DEF TypeInv
<1>2. ASSUME NEW a \in Settings, api = {a}
      PROVE  Max(api) = a /\ Min(api) = a
  <2>1. a \in Nat /\ api \in SUBSET Nat /\ a \in api /\ \A y \in api : y = a  BY <1>2, SettingsFacts
  <2>2. (\A y \in api : a >= y) /\ (\A y \in api : a <= y)  BY <2>1
  <2>3. QED BY <2>1, <2>2, MaxOf, MinOf
<1>3. ASSUME NEW a \in Settings, a + 1 \in Settings, api = {a, a + 1}
      PROVE  Max(api) = a + 1 /\ Min(api) = a
  <2>1. a \in Nat /\ a + 1 \in Nat /\ api \in SUBSET Nat /\ a \in api /\ a + 1 \in api
    BY <1>3, SettingsFacts
  <2>2. (\A y \in api : a + 1 >= y) /\ (\A y \in api : a <= y)  BY <1>3, <2>1
  <2>3. QED BY <2>1, <2>2, MaxOf, MinOf
<1>4. CASE api = {worker}
  BY <1>1, <1>2, <1>4
<1>5. CASE worker - 1 \in Settings /\ api = {worker - 1}
  <2>1. Max(api) = worker - 1 /\ Min(api) = worker - 1  BY <1>2, <1>5
  <2>2. QED BY <1>1, <1>5, <2>1
<1>6. CASE worker - 1 \in Settings /\ api = {worker - 1, worker}
  <2>1. (worker - 1) + 1 = worker  BY <1>1
  <2>2. Max(api) = worker /\ Min(api) = worker - 1  BY <1>1, <1>3, <1>6, <2>1
  <2>3. QED BY <1>1, <1>6, <2>2
<1>7. CASE worker + 1 \in Settings /\ api = {worker + 1}
  <2>1. Max(api) = worker + 1 /\ Min(api) = worker + 1  BY <1>2, <1>7
  <2>2. QED BY <1>1, <1>7, <2>1
<1>8. CASE worker + 1 \in Settings /\ api = {worker, worker + 1}
  <2>1. Max(api) = worker + 1 /\ Min(api) = worker  BY <1>1, <1>3, <1>8
  <2>2. QED BY <1>1, <1>8, <2>1
<1>9. QED BY <1>4, <1>5, <1>6, <1>7, <1>8 DEF RolloutInv

\* The records a request and a check are reset to.
LEMMA ResetRecords ==
  /\ NewRequest \in RequestRecord /\ RequestOver \in RequestRecord
  /\ RequestOver.pc = "over" /\ NewRequest.pc = "new"
  /\ NoCheck \in CheckRecord /\ CheckOver \in CheckRecord
  /\ CheckOver.pc = "over" /\ NoCheck.pc = "none"
<1>1. 1 \in Settings  BY SettingsFacts
<1>2. NewRequest \in RequestRecord /\ NewRequest.pc = "new"  BY <1>1 DEF NewRequest, RequestRecord
<1>3. RequestOver \in RequestRecord /\ RequestOver.pc = "over"
  BY <1>1 DEF NewRequest, RequestOver, RequestRecord
<1>4. NoCheck \in CheckRecord /\ NoCheck.pc = "none"  BY DEF NoCheck, CheckRecord
<1>5. CheckOver \in CheckRecord /\ CheckOver.pc = "over"  BY DEF NoCheck, CheckOver, CheckRecord
<1>6. QED BY <1>2, <1>3, <1>4, <1>5

-----------------------------------------------------------------------------
(* What the actions do *)

\* A request loads the row, or is refused.
LEMMA LoadEffect ==
  ASSUME TypeInv, RolloutInv, NEW q \in Requests, Load(q)
  PROVE  /\ UNCHANGED <<row, check, api, worker, faults, ghostVars>>
         /\ request[q].pc = "new"
         /\ \E r \in RequestRecord : /\ request' = [request EXCEPT ![q] = r]
                                     /\ r.pc \in {"loaded", "over"}
                                     /\ r.pc = "loaded" => r.at \in api
<1> DEFINE R(r) == /\ request' = [request EXCEPT ![q] = r]
                   /\ r.pc \in {"loaded", "over"}
                   /\ r.pc = "loaded" => r.at \in api
<1>1. request[q] \in RequestRecord /\ row \in Row \cup {NoRow}  BY DEF TypeInv
<1>2. api \subseteq Settings /\ Max(api) \in api  BY ApiFacts
<1>3. CASE \E s \in Secrets, at \in api :
             request' = [request EXCEPT ![q] = [@ EXCEPT !.pc = "loaded", !.kind = "upsert",
                                                         !.secret = s, !.seen = row, !.at = at]]
  <2>1. PICK s \in Secrets, at \in api :
          request' = [request EXCEPT ![q] = [request[q] EXCEPT !.pc = "loaded", !.kind = "upsert",
                                                      !.secret = s, !.seen = row, !.at = at]]
    BY <1>3
  <2> DEFINE r == [request[q] EXCEPT !.pc = "loaded", !.kind = "upsert",
                                     !.secret = s, !.seen = row, !.at = at]
  <2>2. r \in RequestRecord /\ r.pc = "loaded" /\ r.at = at
    BY <1>1, <1>2 DEF RequestRecord
  <2>3. R(r)  BY <2>1, <2>2
  <2>4. QED BY <2>2, <2>3 DEF Load
<1>4. CASE \E kind \in {"verify", "delete"} :
             request' = [request EXCEPT ![q] = IF row = NoRow THEN RequestOver ELSE
                           [@ EXCEPT !.pc = "loaded", !.kind = kind, !.seen = row, !.at = Max(api)]]
  <2>1. PICK kind \in {"verify", "delete"} :
          request' = [request EXCEPT ![q] = IF row = NoRow THEN RequestOver ELSE
              [request[q] EXCEPT !.pc = "loaded", !.kind = kind, !.seen = row, !.at = Max(api)]]
    BY <1>4
  <2>2. CASE row = NoRow
    <3>1. R(RequestOver)  BY <2>1, <2>2, ResetRecords
    <3>2. QED BY <3>1, ResetRecords DEF Load
  <2>3. CASE row # NoRow
    <3> DEFINE r == [request[q] EXCEPT !.pc = "loaded", !.kind = kind, !.seen = row, !.at = Max(api)]
    <3>1. r \in RequestRecord /\ r.pc = "loaded" /\ r.at = Max(api)
      BY <1>1, <1>2, <2>3 DEF RequestRecord
    <3>2. R(r)  BY <1>2, <2>1, <2>3, <3>1
    <3>3. QED BY <3>1, <3>2 DEF Load
  <2>4. QED BY <2>2, <2>3
<1>5. QED BY <1>3, <1>4 DEF Load

\* An upsert fails, inserts the row, or updates it; what it leaves it will have
\* checked.
LEMMA UpsertEffect ==
  ASSUME TypeInv, RolloutInv, NEW q \in Requests, Upsert(q)
  PROVE  LET seen == request[q].seen  version == CurrentVersion(request[q].at) IN
         /\ UNCHANGED <<check, api, worker, faults, outdated, lost>>
         /\ request[q].pc = "loaded" /\ request[q].at \in api
         /\ ahead' = (ahead \/ version \notin Rollout[worker].keys)
         /\ \E r \in RequestRecord :
              /\ request' = [request EXCEPT ![q] = r]
              /\ \/ r.pc = "over" /\ UNCHANGED <<row, overtaken>>
                 \/ /\ r.pc = "enqueue" /\ r.at = request[q].at /\ r.id = row'.id
                    /\ row' \in Row /\ row'.sealed = version
                    /\ \/ /\ row = NoRow /\ UNCHANGED overtaken
                          /\ row'.key = version /\ row'.status = "unverified"
                       \/ /\ row # NoRow /\ overtaken' = (overtaken \/ row # seen)
                          /\ row'.key = KeyColumn(seen, version)
                          /\ row'.status = StatusColumn(seen, "unverified")
<1> DEFINE seen == request[q].seen  version == CurrentVersion(request[q].at)
           R(r) == /\ request' = [request EXCEPT ![q] = r]
                   /\ \/ r.pc = "over" /\ UNCHANGED <<row, overtaken>>
                      \/ /\ r.pc = "enqueue" /\ r.at = request[q].at /\ r.id = row'.id
                         /\ row' \in Row /\ row'.sealed = version
                         /\ \/ /\ row = NoRow /\ UNCHANGED overtaken
                               /\ row'.key = version /\ row'.status = "unverified"
                            \/ /\ row # NoRow /\ overtaken' = (overtaken \/ row # seen)
                               /\ row'.key = KeyColumn(seen, version)
                               /\ row'.status = StatusColumn(seen, "unverified")
<1>1. /\ request \in [Requests -> RequestRecord] /\ request[q] \in RequestRecord
      /\ row \in Row \cup {NoRow}
  BY DEF TypeInv
<1>2. request[q].pc = "loaded" /\ request[q].kind = "upsert"  BY DEF Upsert
<1>3. request[q].at \in api  BY <1>2 DEF RolloutInv
<1>4. request[q].secret \in Secrets /\ request[q].at \in Settings /\ seen \in Row \cup {NoRow}
  BY <1>1, <1>2 DEF RequestRecord
<1>5. version \in Versions  BY <1>4, VersionFacts
<1>6. /\ UNCHANGED <<check, api, worker, faults, outdated, lost>>
      /\ ahead' = (ahead \/ version \notin Rollout[worker].keys)
  BY DEF Upsert
<1> HIDE DEF version
<1>7. CASE seen = NoRow /\ row = NoRow
  <2> DEFINE r == [request[q] EXCEPT !.pc = "enqueue", !.id = q]
  <2>1. /\ row' = [id |-> q, secret |-> request[q].secret, status |-> "unverified",
                   key |-> version, sealed |-> version]
        /\ UNCHANGED overtaken
    BY <1>7 DEF Upsert, version
  <2>2. request' = [request EXCEPT ![q] = r]
    BY <1>1, <1>7 DEF Upsert
  <2>3. r \in RequestRecord /\ r.pc = "enqueue" /\ r.at = request[q].at /\ r.id = q
    BY <1>1 DEF RequestRecord
  <2>4. /\ row' \in Row /\ row'.id = q /\ row'.sealed = version /\ row'.key = version
        /\ row'.status = "unverified"
    BY <1>4, <1>5, <2>1 DEF Row, CredentialStatus
  <2>5. R(r)  BY <1>7, <2>1, <2>2, <2>3, <2>4
  <2>6. QED BY <1>2, <1>3, <1>6, <2>3, <2>5 DEF version
<1>8. CASE ~(seen = NoRow /\ row = NoRow) /\ StillThere(seen)
  <2> DEFINE r == [request[q] EXCEPT !.pc = "enqueue", !.id = seen.id]
             key == KeyColumn(seen, version)  status == StatusColumn(seen, "unverified")
  <2>1. row # NoRow /\ row \in Row /\ seen # NoRow /\ seen \in Row /\ row.id = seen.id
    BY <1>1, <1>4, <1>8 DEF StillThere
  <2>2. row' = [row EXCEPT !.secret = request[q].secret, !.sealed = version, !.key = key,
                           !.status = status]
    BY <1>8 DEF Upsert, Replaced, version
  <2>3. overtaken' = (overtaken \/ row # seen)  BY <1>8 DEF Upsert, Notice
  <2>4. request' = [request EXCEPT ![q] = r]
    BY <1>1, <1>8 DEF Upsert
  <2>5. r \in RequestRecord /\ r.pc = "enqueue" /\ r.at = request[q].at /\ r.id = seen.id
    BY <1>1, <2>1 DEF RequestRecord, Row
  <2>6. key \in Versions /\ status \in CredentialStatus
    BY <1>5, <2>1 DEF KeyColumn, StatusColumn, Row, CredentialStatus
  <2> HIDE DEF key, status
  <2>7. /\ row' \in Row /\ row'.id = seen.id /\ row'.sealed = version /\ row'.key = key
        /\ row'.status = status
    BY <1>4, <1>5, <2>1, <2>2, <2>6 DEF Row
  <2>8. R(r)
    <3> HIDE DEF r
    <3>1. QED BY <2>1, <2>3, <2>4, <2>5, <2>7 DEF key, status
  <2>9. QED BY <1>2, <1>3, <1>6, <2>5, <2>8 DEF version
<1>9. CASE ~(seen = NoRow /\ row = NoRow) /\ ~StillThere(seen)
  <2>1. request' = [request EXCEPT ![q] = RequestOver] /\ UNCHANGED <<row, overtaken>>
    BY <1>9 DEF Upsert
  <2>2. R(RequestOver)  BY <2>1, ResetRecords
  <2>3. QED BY <1>2, <1>3, <1>6, <2>2, ResetRecords DEF version
<1>10. QED BY <1>7, <1>8, <1>9

\* verify hands over the id of the row it loaded.
LEMMA RecheckEffect ==
  ASSUME TypeInv, NEW q \in Requests, Recheck(q)
  PROVE  /\ UNCHANGED <<row, check, api, worker, faults, ghostVars>>
         /\ request[q].pc = "loaded"
         /\ \E r \in RequestRecord : /\ request' = [request EXCEPT ![q] = r]
                                     /\ r.pc = "enqueue" /\ r.at = request[q].at
<1> DEFINE r == [request[q] EXCEPT !.pc = "enqueue", !.id = request[q].seen.id]
<1>1. request \in [Requests -> RequestRecord] /\ request[q] \in RequestRecord  BY DEF TypeInv
<1>2. request[q].pc = "loaded" /\ request[q].kind = "verify"  BY DEF Recheck
<1>3. request[q].seen \in Row  BY <1>1, <1>2 DEF RequestRecord
<1>4. request' = [request EXCEPT ![q] = r]  BY <1>1 DEF Recheck
<1>5. r \in RequestRecord /\ r.pc = "enqueue" /\ r.at = request[q].at
  BY <1>1, <1>3 DEF RequestRecord, Row
<1>6. QED BY <1>2, <1>4, <1>5 DEF Recheck

\* A request that has committed has its check queued.
LEMMA EnqueueEffect ==
  ASSUME TypeInv, NEW q \in Requests, Enqueue(q)
  PROVE  /\ UNCHANGED <<row, api, worker, faults, ghostVars>>
         /\ request[q].pc = "enqueue" /\ request' = [request EXCEPT ![q] = RequestOver]
         /\ \E c \in CheckRecord : /\ check' = [check EXCEPT ![q] = c]
                                   /\ c.pc = "queued" /\ c.id = request[q].id
<1> DEFINE c == [check[q] EXCEPT !.pc = "queued", !.id = request[q].id]
<1>1. /\ check \in [Requests -> CheckRecord] /\ check[q] \in CheckRecord
      /\ request[q] \in RequestRecord
  BY DEF TypeInv
<1>2. check' = [check EXCEPT ![q] = c]  BY <1>1 DEF Enqueue
<1>3. c \in CheckRecord /\ c.pc = "queued" /\ c.id = request[q].id
  BY <1>1 DEF CheckRecord, RequestRecord
<1>4. QED BY <1>2, <1>3 DEF Enqueue

\* A check loads the row of its id, or is over.
LEMMA CheckLoadEffect ==
  ASSUME TypeInv, NEW q \in Requests, CheckLoad(q)
  PROVE  /\ UNCHANGED <<row, request, api, worker, faults, ghostVars>>
         /\ check[q].pc = "queued"
         /\ \E c \in CheckRecord :
              /\ check' = [check EXCEPT ![q] = c]
              /\ IF row # NoRow /\ row.id = check[q].id
                 THEN c.pc = "judged" /\ c.id = check[q].id /\ c.seen = row
                 ELSE c = CheckOver
<1>1. /\ check \in [Requests -> CheckRecord] /\ check[q] \in CheckRecord
      /\ row \in Row \cup {NoRow}
  BY DEF TypeInv
<1>2. CASE row # NoRow /\ row.id = check[q].id
  <2> DEFINE c == [check[q] EXCEPT !.pc = "judged", !.seen = row]
  <2>1. check' = [check EXCEPT ![q] = c]  BY <1>1, <1>2 DEF CheckLoad
  <2>2. c \in CheckRecord /\ c.pc = "judged" /\ c.id = check[q].id /\ c.seen = row
    BY <1>1, <1>2 DEF CheckRecord
  <2>3. QED BY <1>2, <2>1, <2>2 DEF CheckLoad
<1>3. CASE ~(row # NoRow /\ row.id = check[q].id)
  BY <1>3, ResetRecords DEF CheckLoad
<1>4. QED BY <1>2, <1>3

\* A verdict changes the status of the row, and nothing else.
LEMMA CheckCommitEffect ==
  ASSUME TypeInv, NEW q \in Requests, CheckCommit(q)
  PROVE  LET seen == check[q].seen  to == StatusColumn(seen, Verdict(seen)) IN
         /\ UNCHANGED <<request, api, worker, faults, ahead, lost>>
         /\ check[q].pc = "judged" /\ seen \in Row /\ seen # NoRow /\ check[q].id = seen.id
         /\ check' = [check EXCEPT ![q] = CheckOver]
         /\ \/ ~StillThere(seen) /\ UNCHANGED <<row, overtaken, outdated>>
            \/ /\ row # NoRow /\ row \in Row /\ row.id = seen.id
               /\ row' = [row EXCEPT !.status = to] /\ row' \in Row /\ row'.status = to
               /\ row'.id = row.id /\ Content(row') = Content(row)
               /\ overtaken' = (overtaken \/ row # seen)
               /\ outdated' = (outdated \/ (Content(row) # Content(seen) /\ to # row.status))
<1> DEFINE seen == check[q].seen  to == StatusColumn(seen, Verdict(seen))
<1>1. check[q] \in CheckRecord /\ row \in Row \cup {NoRow} /\ check[q].pc = "judged"
  BY DEF TypeInv, CheckCommit
<1>2. seen \in Row /\ seen # NoRow /\ check[q].id = seen.id  BY <1>1 DEF CheckRecord
<1>3. /\ UNCHANGED <<request, api, worker, faults, ahead, lost>>
      /\ check' = [check EXCEPT ![q] = CheckOver]
  BY DEF CheckCommit
<1>4. CASE ~StillThere(seen)
  BY <1>1, <1>2, <1>3, <1>4 DEF CheckCommit
<1>5. CASE StillThere(seen)
  <2>1. row # NoRow /\ row \in Row /\ row.id = seen.id  BY <1>1, <1>5 DEF StillThere
  <2>2. to \in CredentialStatus
    BY <2>1 DEF StatusColumn, Verdict, Row, CredentialStatus
  <2>3. /\ row' = [row EXCEPT !.status = to]
        /\ overtaken' = (overtaken \/ row # seen)
        /\ outdated' = (outdated \/ (Content(row) # Content(seen) /\ to # row.status))
    BY <1>5 DEF CheckCommit, Notice
  <2> HIDE DEF to
  <2>4. row' \in Row /\ row'.status = to /\ row'.id = row.id /\ Content(row') = Content(row)
    BY <2>1, <2>2, <2>3 DEF Row, Content
  <2>5. QED BY <1>1, <1>2, <1>3, <2>1, <2>3, <2>4 DEF to
<1>6. QED BY <1>4, <1>5

\* A check that is interrupted goes back into the queue.
LEMMA Requeued ==
  ASSUME TypeInv, NEW q \in Requests, check[q].pc = "judged"
  PROVE  LET c == [check[q] EXCEPT !.pc = "queued", !.seen = NoRow] IN
         c \in CheckRecord /\ c.pc = "queued" /\ c.id = check[q].id
<1>1. check[q] \in CheckRecord  BY DEF TypeInv
<1>2. QED BY <1>1 DEF CheckRecord

LEMMA CheckStopsEffect ==
  ASSUME TypeInv, NEW q \in Requests, CheckStops(q)
  PROVE  /\ UNCHANGED <<row, request, api, worker, ghostVars>> /\ faults' = faults + 1
         /\ \E c \in CheckRecord : /\ check' = [check EXCEPT ![q] = c]
                                   /\ c.pc = "queued" /\ c.id = check[q].id
<1> DEFINE c == [check[q] EXCEPT !.pc = "queued", !.seen = NoRow]
<1>1. check[q].pc = "judged" /\ check \in [Requests -> CheckRecord]  BY DEF CheckStops, TypeInv
<1>2. check' = [check EXCEPT ![q] = c]  BY <1>1 DEF CheckStops
<1>3. c \in CheckRecord /\ c.pc = "queued" /\ c.id = check[q].id  BY <1>1, Requeued
<1>4. QED BY <1>2, <1>3 DEF CheckStops, Strike

\* A restart of the worker sends back what it was checking.
LEMMA RollWorkerEffect ==
  ASSUME TypeInv, RolloutInv, RollWorker
  PROVE  /\ UNCHANGED <<row, request, api, faults, ghostVars>> /\ worker' = worker + 1
         /\ check' \in [Requests -> CheckRecord]
         /\ \A q \in Requests : /\ check'[q].id = check[q].id
                                /\ check[q].pc = "judged" => check'[q].pc = "queued"
                                /\ check[q].pc # "judged" => check'[q] = check[q]
         /\ worker + 1 \in Settings
         /\ \/ worker + 1 \in api
            \/ api = {worker} /\ (row # NoRow => row.key \in Rollout[worker + 1].keys)
<1>1. check' = [q \in Requests |-> IF check[q].pc = "judged"
                                   THEN [check[q] EXCEPT !.pc = "queued", !.seen = NoRow]
                                   ELSE check[q]]
  BY DEF RollWorker
<1>2. ASSUME NEW q \in Requests
      PROVE  /\ check'[q] \in CheckRecord /\ check'[q].id = check[q].id
             /\ check[q].pc = "judged" => check'[q].pc = "queued"
             /\ check[q].pc # "judged" => check'[q] = check[q]
  <2>1. check[q] \in CheckRecord  BY DEF TypeInv
  <2>2. CASE check[q].pc = "judged"  BY <1>1, <2>2, Requeued
  <2>3. CASE check[q].pc # "judged"  BY <1>1, <2>1, <2>3
  <2>4. QED BY <2>2, <2>3
<1>3. \/ worker + 1 \in Settings /\ api = {worker} /\ (row # NoRow => row.key \in Rollout[worker + 1].keys)
      \/ worker < Max(api)
  BY DEF RollWorker, Due
<1>4. worker < Max(api) => worker + 1 \in api /\ api \subseteq Settings  BY ApiFacts
<1>5. QED BY <1>1, <1>2, <1>3, <1>4 DEF RollWorker

\* A new replica of the API brings the next settings.
LEMMA RollApiEffect ==
  ASSUME TypeInv, RolloutInv, RollApi
  PROVE  /\ UNCHANGED <<row, request, check, worker, faults, ghostVars>>
         /\ \/ /\ worker + 1 \in Settings /\ api = {worker} /\ api' = {worker, worker + 1}
               /\ row # NoRow => row.key \in Rollout[worker + 1].keys
            \/ worker - 1 \in Settings /\ api = {worker - 1} /\ api' = {worker - 1, worker}
<1>1. worker \in Nat /\ worker \in Settings  BY SettingsFacts DEF TypeInv
<1>2. api' = api \cup {Max(api) + 1}  BY DEF RollApi
<1>3. CASE Due
  <2>1. /\ worker + 1 \in Settings /\ api = {worker}
        /\ row # NoRow => row.key \in Rollout[worker + 1].keys
    BY <1>3 DEF Due
  <2>2. Max(api) = worker  BY <1>1, <2>1, MaxOf
  <2>3. QED BY <1>2, <2>1, <2>2 DEF RollApi
<1>4. CASE Max(api) < worker
  <2>1. api = {worker - 1} /\ Max(api) = worker - 1 /\ api \subseteq Settings  BY <1>4, ApiFacts
  <2>2. Max(api) + 1 = worker  BY <1>1, <2>1
  <2>3. QED BY <1>2, <2>1, <2>2 DEF RollApi
<1>5. QED BY <1>3, <1>4 DEF RollApi

\* A replica is retired when its requests are over.
LEMMA RetireApiEffect ==
  ASSUME TypeInv, RolloutInv, RetireApi
  PROVE  /\ UNCHANGED <<row, request, check, worker, faults, ghostVars>>
         /\ \E s \in api :
              /\ \/ s = worker - 1 /\ api = {worker - 1, worker} /\ api' = {worker}
                 \/ s = worker /\ api = {worker, worker + 1} /\ api' = {worker + 1}
              /\ \A q \in Requests : request[q].at = s => request[q].pc \in {"new", "over"}
<1>1. worker \in Nat  BY SettingsFacts DEF TypeInv
<1>2. /\ Min(api) # Max(api) /\ api' = api \ {Min(api)}
      /\ \A q \in Requests : request[q].at = Min(api) => request[q].pc \in {"new", "over"}
  BY DEF RetireApi
<1>3. \/ api = {worker - 1, worker} /\ Min(api) = worker - 1
      \/ api = {worker, worker + 1} /\ Min(api) = worker
  BY <1>2, ApiFacts
<1>4. CASE api = {worker - 1, worker} /\ Min(api) = worker - 1
  BY <1>1, <1>2, <1>4 DEF RetireApi
<1>5. CASE api = {worker, worker + 1} /\ Min(api) = worker
  BY <1>1, <1>2, <1>5 DEF RetireApi
<1>6. QED BY <1>3, <1>4, <1>5

\* What stays the same when a request or check fails, or is thrown away.
LEMMA OverEffect ==
  ASSUME NEW q \in Requests, EnqueueFails(q) \/ CheckLost(q) \/ Delete(q)
  PROVE  /\ UNCHANGED <<api, worker, overtaken, outdated, ahead>>
         /\ row' = row \/ row' = NoRow
         /\ \/ request' = [request EXCEPT ![q] = RequestOver] /\ UNCHANGED check
            \/ check' = [check EXCEPT ![q] = CheckOver] /\ UNCHANGED request
         /\ faults' = faults \/ faults' = faults + 1
         /\ \/ Delete(q) /\ request[q].pc = "loaded" /\ UNCHANGED <<check, lost>>
            \/ lost' = TRUE /\ UNCHANGED row
BY DEF EnqueueFails, CheckLost, Delete, Strike, ghostVars

-----------------------------------------------------------------------------
(* The invariant *)

LEMMA FlagsInvStep == FlagsInv /\ [Next]_vars => FlagsInv'
<1> SUFFICES ASSUME FlagsInv, [Next]_vars PROVE FlagsInv'  OBVIOUS
<1> USE DEF FlagsInv
<1>1. ASSUME NEW q \in Requests, Upsert(q) PROVE FlagsInv'
  <2>1. UNCHANGED <<outdated, lost>>  BY <1>1 DEF Upsert
  <2>2. ahead' \in BOOLEAN  BY <1>1 DEF Upsert
  <2>3. overtaken' \in BOOLEAN  BY <1>1 DEF Upsert, Notice
  <2>4. QED BY <2>1, <2>2, <2>3
<1>2. ASSUME NEW q \in Requests, CheckCommit(q) PROVE FlagsInv'
  <2>1. UNCHANGED <<ahead, lost>>  BY <1>2 DEF CheckCommit
  <2>2. overtaken' \in BOOLEAN  BY <1>2 DEF CheckCommit, Notice
  <2>3. outdated' \in BOOLEAN  BY <1>2 DEF CheckCommit
  <2>4. QED BY <2>1, <2>2, <2>3
<1>3. ASSUME NEW q \in Requests, EnqueueFails(q) \/ CheckLost(q) PROVE FlagsInv'
  BY <1>3 DEF EnqueueFails, CheckLost
<1>4. ASSUME NEW q \in Requests,
             Load(q) \/ Recheck(q) \/ Enqueue(q) \/ Delete(q) \/ CheckLoad(q) \/ CheckStops(q)
      PROVE  UNCHANGED ghostVars
  BY <1>4 DEF Load, Recheck, Enqueue, Delete, CheckLoad, CheckStops
<1>5. RollApi \/ RetireApi \/ RollWorker \/ UNCHANGED vars => UNCHANGED ghostVars
  BY DEF RollApi, RetireApi, RollWorker, vars
<1>6. UNCHANGED ghostVars => FlagsInv'  BY DEF ghostVars
<1>7. QED BY <1>1, <1>2, <1>3, <1>4, <1>5, <1>6 DEF Next, Request, Check, Fail

LEMMA TypeInvStep == TypeInv /\ RolloutInv /\ [Next]_vars => TypeInv'
<1> SUFFICES ASSUME TypeInv, RolloutInv, [Next]_vars PROVE TypeInv'  OBVIOUS
<1>t. /\ row \in Row \cup {NoRow}
      /\ request \in [Requests -> RequestRecord] /\ check \in [Requests -> CheckRecord]
      /\ worker \in Settings /\ faults \in Nat
  BY DEF TypeInv
<1>1. ASSUME NEW q \in Requests, Load(q) PROVE TypeInv'
  BY <1>t, <1>1, LoadEffect DEF TypeInv
<1>2. ASSUME NEW q \in Requests, Upsert(q) PROVE TypeInv'
  <2>1. UNCHANGED <<check, worker, faults>>  BY <1>2, UpsertEffect
  <2>2. row' \in Row \cup {NoRow} /\ request' \in [Requests -> RequestRecord]
    BY <1>t, <1>2, UpsertEffect
  <2>3. QED BY <1>t, <2>1, <2>2 DEF TypeInv
<1>3. ASSUME NEW q \in Requests, Recheck(q) PROVE TypeInv'
  BY <1>t, <1>3, RecheckEffect DEF TypeInv
<1>4. ASSUME NEW q \in Requests, Enqueue(q) PROVE TypeInv'
  BY <1>t, <1>4, EnqueueEffect, ResetRecords DEF TypeInv
<1>5. ASSUME NEW q \in Requests, EnqueueFails(q) \/ CheckLost(q) \/ Delete(q) PROVE TypeInv'
  <2>1. request' \in [Requests -> RequestRecord] /\ check' \in [Requests -> CheckRecord]
    BY <1>t, <1>5, OverEffect, ResetRecords
  <2>2. /\ row' = row \/ row' = NoRow
        /\ worker' = worker /\ (faults' = faults \/ faults' = faults + 1)
    BY <1>5, OverEffect
  <2>3. QED BY <1>t, <2>1, <2>2 DEF TypeInv
<1>6. ASSUME NEW q \in Requests, CheckLoad(q) PROVE TypeInv'
  BY <1>t, <1>6, CheckLoadEffect, ResetRecords DEF TypeInv
<1>7. ASSUME NEW q \in Requests, CheckCommit(q) PROVE TypeInv'
  <2>1. UNCHANGED <<request, worker, faults>> /\ check' \in [Requests -> CheckRecord]
    BY <1>t, <1>7, CheckCommitEffect, ResetRecords
  <2>2. row' \in Row \cup {NoRow}  BY <1>t, <1>7, CheckCommitEffect
  <2>3. QED BY <1>t, <2>1, <2>2 DEF TypeInv
<1>8. ASSUME NEW q \in Requests, CheckStops(q) PROVE TypeInv'
  <2>1. UNCHANGED <<row, request, worker>> /\ faults' \in Nat
    BY <1>t, <1>8, CheckStopsEffect
  <2>2. check' \in [Requests -> CheckRecord]  BY <1>t, <1>8, CheckStopsEffect
  <2>3. QED BY <1>t, <2>1, <2>2 DEF TypeInv
<1>9. CASE RollApi  BY <1>t, <1>9, RollApiEffect DEF TypeInv
<1>10. CASE RetireApi  BY <1>t, <1>10, RetireApiEffect DEF TypeInv
<1>11. CASE RollWorker  BY <1>t, <1>11, RollWorkerEffect DEF TypeInv
<1>12. CASE UNCHANGED vars  BY <1>t, <1>12 DEF vars, TypeInv
<1>13. QED
  BY <1>1, <1>2, <1>3, <1>4, <1>5, <1>6, <1>7, <1>8, <1>9, <1>10, <1>11, <1>12
     DEF Next, Request, Check, Fail

LEMMA RolloutInvStep == TypeInv /\ RolloutInv /\ [Next]_vars => RolloutInv'
<1> SUFFICES ASSUME TypeInv, RolloutInv, [Next]_vars PROVE RolloutInv'  OBVIOUS
<1>t. /\ request \in [Requests -> RequestRecord] /\ worker \in Settings /\ worker \in Nat
      /\ \A q \in Requests : request[q].pc \in {"loaded", "enqueue"} => request[q].at \in api
  BY SettingsFacts DEF TypeInv, RolloutInv
<1>1. ASSUME UNCHANGED <<api, worker>>, NEW q \in Requests, NEW r \in RequestRecord,
             request' = [request EXCEPT ![q] = r],
             r.pc \in {"loaded", "enqueue"} => r.at \in api
      PROVE  RolloutInv'
  <2>1. \A p \in Requests : request'[p].pc \in {"loaded", "enqueue"} => request'[p].at \in api
    BY <1>t, <1>1
  <2>2. QED BY <1>1, <2>1 DEF RolloutInv
<1>2. ASSUME NEW q \in Requests, Load(q) PROVE RolloutInv'
  <2>1. PICK r \in RequestRecord : /\ request' = [request EXCEPT ![q] = r]
                                   /\ r.pc \in {"loaded", "over"} /\ (r.pc = "loaded" => r.at \in api)
    BY <1>2, LoadEffect
  <2>2. UNCHANGED <<api, worker>>  BY <1>2, LoadEffect
  <2>3. QED BY <1>1, <2>1, <2>2
<1>3. ASSUME NEW q \in Requests, Upsert(q) PROVE RolloutInv'
  <2>1. PICK r \in RequestRecord : /\ request' = [request EXCEPT ![q] = r]
                                   /\ r.pc = "over" \/ (r.pc = "enqueue" /\ r.at = request[q].at)
    BY <1>3, UpsertEffect
  <2>2. UNCHANGED <<api, worker>> /\ request[q].at \in api  BY <1>3, UpsertEffect
  <2>3. QED BY <1>1, <2>1, <2>2
<1>4. ASSUME NEW q \in Requests, Recheck(q) PROVE RolloutInv'
  <2>1. PICK r \in RequestRecord : /\ request' = [request EXCEPT ![q] = r]
                                   /\ r.pc = "enqueue" /\ r.at = request[q].at
    BY <1>4, RecheckEffect
  <2>2. UNCHANGED <<api, worker>> /\ request[q].at \in api  BY <1>t, <1>4, RecheckEffect
  <2>3. QED BY <1>1, <2>1, <2>2
<1>5. ASSUME NEW q \in Requests, Enqueue(q) PROVE RolloutInv'
  BY <1>1, <1>5, EnqueueEffect, ResetRecords
<1>6. ASSUME UNCHANGED <<api, worker, request>> PROVE RolloutInv'
  BY <1>6 DEF RolloutInv
<1>7. ASSUME NEW q \in Requests, EnqueueFails(q) \/ CheckLost(q) \/ Delete(q) PROVE RolloutInv'
  <2>1. UNCHANGED <<api, worker>>
        /\ (request' = [request EXCEPT ![q] = RequestOver] \/ UNCHANGED request)
    BY <1>7, OverEffect
  <2>2. QED BY <1>1, <1>6, <2>1, ResetRecords
<1>8. ASSUME NEW q \in Requests, CheckLoad(q) \/ CheckCommit(q) \/ CheckStops(q) PROVE RolloutInv'
  BY <1>6, <1>8 DEF CheckLoad, CheckCommit, CheckStops
<1>9. CASE RollApi
  <2>1. UNCHANGED <<worker, request>>
        /\ \/ worker + 1 \in Settings /\ api = {worker} /\ api' = {worker, worker + 1}
           \/ worker - 1 \in Settings /\ api = {worker - 1} /\ api' = {worker - 1, worker}
    BY <1>9, RollApiEffect
  <2>2. QED BY <1>t, <2>1 DEF RolloutInv
<1>10. CASE RetireApi
  <2>1. PICK s \in api :
          /\ \/ s = worker - 1 /\ api = {worker - 1, worker} /\ api' = {worker}
             \/ s = worker /\ api = {worker, worker + 1} /\ api' = {worker + 1}
          /\ \A q \in Requests : request[q].at = s => request[q].pc \in {"new", "over"}
    BY <1>10, RetireApiEffect
  <2>2. UNCHANGED <<worker, request>> /\ api \subseteq Settings
    BY <1>10, RetireApiEffect, ApiFacts
  <2>3. \A q \in Requests : request[q].pc \in {"loaded", "enqueue"} => request[q].at \in api'
    <3> SUFFICES ASSUME NEW q \in Requests, request[q].pc \in {"loaded", "enqueue"}
                 PROVE  request[q].at \in api'
      OBVIOUS
    <3>1. request[q].at \in api /\ request[q].at # s  BY <1>t, <2>1
    <3>2. QED BY <1>t, <2>1, <3>1
  <2>4. QED BY <1>t, <2>1, <2>2, <2>3 DEF RolloutInv
<1>11. CASE RollWorker
  <2>1. /\ UNCHANGED <<request, api>> /\ worker' = worker + 1 /\ worker + 1 \in Settings
        /\ worker + 1 \in api \/ api = {worker}
    BY <1>11, RollWorkerEffect
  <2>2. (worker + 1) - 1 = worker  BY <1>t
  <2>3. api = {worker} \/ api = {worker + 1} \/ api = {worker, worker + 1}
    BY <1>t, <2>1 DEF RolloutInv
  <2>4. QED BY <1>t, <2>1, <2>2, <2>3 DEF RolloutInv
<1>12. CASE UNCHANGED vars  BY <1>6, <1>12 DEF vars
<1>13. QED
  BY <1>2, <1>3, <1>4, <1>5, <1>7, <1>8, <1>9, <1>10, <1>11, <1>12
     DEF Next, Request, Check, Fail

LEMMA OrderInvStep == TypeInv /\ RolloutInv /\ OrderInv /\ [Next]_vars => OrderInv'
<1> SUFFICES ASSUME TypeInv, RolloutInv, OrderInv, [Next]_vars PROVE OrderInv'  OBVIOUS
<1>t. request \in [Requests -> RequestRecord] /\ check \in [Requests -> CheckRecord]
  BY DEF TypeInv
<1>0. ASSUME NEW q \in Requests,
             \A p \in Requests \ {q} : request'[p] = request[p] /\ check'[p] = check[p],
             request'[q].pc # "over" => check'[q].pc = "none"
      PROVE  OrderInv'
  BY <1>0 DEF OrderInv
<1>1. ASSUME NEW q \in Requests, Load(q) \/ Upsert(q) \/ Recheck(q) PROVE OrderInv'
  <2>1. UNCHANGED check /\ request[q].pc # "over" /\ \E r : request' = [request EXCEPT ![q] = r]
    <3>1. CASE Load(q)  BY <3>1, LoadEffect
    <3>2. CASE Upsert(q)
      <4>1. UNCHANGED check /\ request[q].pc = "loaded"  BY <3>2, UpsertEffect
      <4>2. \E r : request' = [request EXCEPT ![q] = r]  BY <3>2, UpsertEffect
      <4>3. QED BY <4>1, <4>2
    <3>3. CASE Recheck(q)  BY <3>3, RecheckEffect
    <3>4. QED BY <1>1, <3>1, <3>2, <3>3
  <2>2. check'[q].pc = "none"  BY <2>1 DEF OrderInv
  <2>3. QED BY <1>t, <1>0, <2>1, <2>2
<1>2. ASSUME NEW q \in Requests, Enqueue(q) PROVE OrderInv'
  <2>1. /\ request' = [request EXCEPT ![q] = RequestOver]
        /\ \E c \in CheckRecord : check' = [check EXCEPT ![q] = c]
    BY <1>2, EnqueueEffect
  <2>2. QED BY <1>t, <1>0, <2>1, ResetRecords
<1>3. ASSUME NEW q \in Requests, EnqueueFails(q) \/ Delete(q) PROVE OrderInv'
  <2>1. request' = [request EXCEPT ![q] = RequestOver] /\ UNCHANGED check
    BY <1>3 DEF EnqueueFails, Delete
  <2>2. QED BY <1>t, <1>0, <2>1, ResetRecords
<1>4. ASSUME NEW q \in Requests,
             CheckLoad(q) \/ CheckCommit(q) \/ CheckStops(q) \/ CheckLost(q)
      PROVE  OrderInv'
  <2>1. UNCHANGED request /\ check[q].pc # "none"
    BY <1>4 DEF CheckLoad, CheckCommit, CheckStops, CheckLost
  <2>2. request'[q].pc = "over"  BY <2>1 DEF OrderInv
  <2>3. \E c : check' = [check EXCEPT ![q] = c]
    <3>1. CASE CheckLoad(q)  BY <3>1, CheckLoadEffect
    <3>2. CASE CheckCommit(q)  BY <3>2 DEF CheckCommit
    <3>3. CASE CheckStops(q)  BY <3>3, CheckStopsEffect
    <3>4. CASE CheckLost(q)  BY <3>4 DEF CheckLost
    <3>5. QED BY <1>4, <3>1, <3>2, <3>3, <3>4
  <2>4. QED BY <1>t, <1>0, <2>1, <2>2, <2>3
<1>5. CASE RollWorker
  <2>1. UNCHANGED request /\ \A q \in Requests : check[q].pc # "judged" => check'[q] = check[q]
    BY <1>5, RollWorkerEffect
  <2>2. QED BY <2>1 DEF OrderInv
<1>6. CASE RollApi \/ RetireApi \/ UNCHANGED vars
  BY <1>6 DEF RollApi, RetireApi, vars, OrderInv
<1>7. QED BY <1>1, <1>2, <1>3, <1>4, <1>5, <1>6 DEF Next, Request, Check, Fail

LEMMA KeyInvStep == TypeInv /\ RolloutInv /\ KeyInv /\ [Next]_vars => KeyInv'
<1> SUFFICES ASSUME TypeInv, RolloutInv, KeyInv, [Next]_vars, row' # NoRow, ~ahead'
             PROVE  /\ row'.key \in Rollout[worker'].keys
                    /\ worker' + 1 \in api' => row'.key \in Rollout[worker' + 1].keys
  BY DEF KeyInv
<1> DEFINE Goal == /\ row'.key \in Rollout[worker'].keys
                   /\ worker' + 1 \in api' => row'.key \in Rollout[worker' + 1].keys
<1>t. worker \in Nat /\ worker \in Settings  BY SettingsFacts DEF TypeInv
<1>0. ASSUME UNCHANGED <<api, worker, ahead>>, row # NoRow, row'.key = row.key PROVE Goal
  BY <1>0 DEF KeyInv
<1>1. ASSUME NEW q \in Requests, Upsert(q) PROVE Goal
  <2> DEFINE seen == request[q].seen  version == CurrentVersion(request[q].at)
  <2>1. /\ UNCHANGED <<api, worker>> /\ request[q].at \in api
        /\ ahead' = (ahead \/ version \notin Rollout[worker].keys)
    BY <1>1, UpsertEffect
  <2>2. ~ahead /\ version \in Rollout[worker].keys  BY <2>1
  <2>3. ASSUME worker + 1 \in api PROVE version \in Rollout[worker + 1].keys
    <3>1. request[q].at = worker \/ request[q].at = worker + 1  BY <1>t, <2>1, <2>3 DEF RolloutInv
    <3>2. worker + 1 \in Settings  BY <2>3, ApiFacts
    <3>3. CASE request[q].at = worker  BY <1>t, <3>2, <3>3, HandoverAssumption
    <3>4. CASE request[q].at = worker + 1  BY <3>2, <3>4, VersionFacts
    <3>5. QED BY <3>1, <3>3, <3>4
  <2>4. \/ UNCHANGED row
        \/ row'.key = version
        \/ row # NoRow /\ row'.key = KeyColumn(seen, version)
    BY <1>1, UpsertEffect
  <2> HIDE DEF version
  <2>5. row'.key = version \/ (row # NoRow /\ row'.key = row.key)
    BY <2>4 DEF KeyColumn
  <2>6. CASE row'.key = version  BY <2>1, <2>2, <2>3, <2>6
  <2>7. CASE row # NoRow /\ row'.key = row.key  BY <2>1, <2>2, <2>7 DEF KeyInv
  <2>8. QED BY <2>5, <2>6, <2>7
<1>2. ASSUME NEW q \in Requests, CheckCommit(q) PROVE Goal
  <2>1. UNCHANGED <<api, worker, ahead>>  BY <1>2, CheckCommitEffect
  <2>2. \/ UNCHANGED row
        \/ row # NoRow /\ Content(row') = Content(row)
    BY <1>2, CheckCommitEffect
  <2>3. row # NoRow /\ row'.key = row.key  BY <2>2 DEF Content
  <2>4. QED BY <1>0, <2>1, <2>3
<1>3. ASSUME NEW q \in Requests, EnqueueFails(q) \/ CheckLost(q) \/ Delete(q) PROVE Goal
  BY <1>0, <1>3, OverEffect
<1>4. ASSUME UNCHANGED <<row, api, worker, ahead>> PROVE Goal
  BY <1>0, <1>4
<1>5. ASSUME NEW q \in Requests,
             Load(q) \/ Recheck(q) \/ Enqueue(q) \/ CheckLoad(q) \/ CheckStops(q)
      PROVE  Goal
  BY <1>4, <1>5 DEF Load, Recheck, Enqueue, CheckLoad, CheckStops, ghostVars
<1>6. CASE RollApi
  <2>1. /\ UNCHANGED <<row, worker, ahead>>
        /\ \/ row # NoRow => row.key \in Rollout[worker + 1].keys
           \/ api' = {worker - 1, worker}
    BY <1>6, RollApiEffect DEF ghostVars
  <2>2. QED BY <1>t, <2>1 DEF KeyInv
<1>7. CASE RetireApi
  <2>1. UNCHANGED <<row, worker, ahead>> /\ api' \subseteq api
    BY <1>7 DEF RetireApi, ghostVars
  <2>2. QED BY <2>1 DEF KeyInv
<1>8. CASE RollWorker
  <2>1. /\ UNCHANGED <<row, api, ahead>> /\ worker' = worker + 1
        /\ \/ worker + 1 \in api
           \/ row # NoRow => row.key \in Rollout[worker + 1].keys
    BY <1>8, RollWorkerEffect DEF ghostVars
  <2>2. row.key \in Rollout[worker + 1].keys  BY <2>1 DEF KeyInv
  <2>3. (worker + 1) + 1 \notin api
    <3>1. \/ api = {worker}
          \/ api = {worker - 1} \/ api = {worker - 1, worker}
          \/ api = {worker + 1} \/ api = {worker, worker + 1}
      BY DEF RolloutInv
    <3>2. QED BY <1>t, <3>1
  <2>4. QED BY <2>1, <2>2, <2>3
<1>9. CASE UNCHANGED vars  BY <1>4, <1>9 DEF vars, ghostVars
<1>10. QED
  BY <1>1, <1>2, <1>3, <1>5, <1>6, <1>7, <1>8, <1>9 DEF Next, Request, Check, Fail

LEMMA StatusInvStep == TypeInv /\ RolloutInv /\ KeyInv /\ StatusInv /\ [Next]_vars => StatusInv'
<1> SUFFICES ASSUME TypeInv, RolloutInv, KeyInv, StatusInv, [Next]_vars, row' # NoRow, ~overtaken'
             PROVE  /\ row'.sealed = row'.key
                    /\ ~ahead' => /\ row'.secret \in Good => row'.status # "invalid"
                                  /\ row'.status = "valid" => row'.secret \in Good
  BY DEF StatusInv
<1> DEFINE Goal == /\ row'.sealed = row'.key
                   /\ ~ahead' => /\ row'.secret \in Good => row'.status # "invalid"
                                 /\ row'.status = "valid" => row'.secret \in Good
<1>0. ASSUME UNCHANGED <<row, overtaken, ahead>> PROVE Goal
  BY <1>0 DEF StatusInv
<1>1. ASSUME NEW q \in Requests, Upsert(q) PROVE Goal
  <2> DEFINE seen == request[q].seen  version == CurrentVersion(request[q].at)
  <2>1. \/ UNCHANGED <<row, overtaken>>
        \/ /\ row'.sealed = version
           /\ \/ row'.key = version /\ row'.status = "unverified"
              \/ /\ row # NoRow /\ overtaken' = (overtaken \/ row # seen)
                 /\ row'.key = KeyColumn(seen, version)
                 /\ row'.status = StatusColumn(seen, "unverified")
    BY <1>1, UpsertEffect
  <2> HIDE DEF version, seen
  <2>2. CASE UNCHANGED <<row, overtaken>>
    <3>1. ~ahead' => ~ahead  BY <1>1 DEF Upsert
    <3>2. QED BY <2>2, <3>1 DEF StatusInv
  <2>3. CASE row'.sealed = version /\ row'.key = version /\ row'.status = "unverified"
    BY <2>3
  <2>4. CASE /\ row'.sealed = version /\ row # NoRow /\ overtaken' = (overtaken \/ row # seen)
             /\ row'.key = KeyColumn(seen, version)
             /\ row'.status = StatusColumn(seen, "unverified")
    <3>1. row = seen  BY <2>4
    <3>2. row'.key = version /\ row'.status = "unverified"
      BY <2>4, <3>1 DEF KeyColumn, StatusColumn
    <3>3. QED BY <2>4, <3>2
  <2>5. QED BY <2>1, <2>2, <2>3, <2>4
<1>2. ASSUME NEW q \in Requests, CheckCommit(q) PROVE Goal
  <2> DEFINE seen == check[q].seen  to == StatusColumn(seen, Verdict(seen))
  <2>1. UNCHANGED ahead  BY <1>2, CheckCommitEffect
  <2>2. \/ UNCHANGED <<row, overtaken>>
        \/ /\ row # NoRow /\ row'.status = to /\ Content(row') = Content(row)
           /\ overtaken' = (overtaken \/ row # seen)
    BY <1>2, CheckCommitEffect
  <2>3. CASE UNCHANGED <<row, overtaken>>  BY <1>0, <2>1, <2>3
  <2>4. CASE /\ row # NoRow /\ row'.status = to /\ Content(row') = Content(row)
             /\ overtaken' = (overtaken \/ row # seen)
    <3> HIDE DEF seen
    <3>1. ~overtaken /\ row = seen  BY <2>4
    <3>2. row'.status = Verdict(row)  BY <2>4, <3>1 DEF StatusColumn
    <3>3. row'.secret = row.secret /\ row'.key = row.key /\ row'.sealed = row.sealed
      BY <2>4 DEF Content
    <3>4. row.sealed = row.key  BY <2>4, <3>1 DEF StatusInv
    <3>5. ~ahead => Opens(row)  BY <2>4, <3>4 DEF KeyInv, Opens
    <3>6. ~ahead => row'.status = IF row.secret \in Good THEN "valid" ELSE "invalid"
      BY <3>2, <3>5 DEF Verdict
    <3>7. QED BY <2>1, <3>3, <3>4, <3>6
  <2>5. QED BY <2>2, <2>3, <2>4
<1>3. ASSUME NEW q \in Requests, EnqueueFails(q) \/ CheckLost(q) \/ Delete(q) PROVE Goal
  BY <1>0, <1>3, OverEffect
<1>4. ASSUME NEW q \in Requests,
             Load(q) \/ Recheck(q) \/ Enqueue(q) \/ CheckLoad(q) \/ CheckStops(q)
      PROVE  Goal
  BY <1>0, <1>4 DEF Load, Recheck, Enqueue, CheckLoad, CheckStops, ghostVars
<1>5. CASE RollApi \/ RetireApi \/ RollWorker \/ UNCHANGED vars
  BY <1>0, <1>5 DEF RollApi, RetireApi, RollWorker, vars, ghostVars
<1>6. QED BY <1>1, <1>2, <1>3, <1>4, <1>5 DEF Next, Request, Check, Fail

\* A pending check stays so when neither it nor the content of the row changes.
LEMMA PendingStays ==
  ASSUME NEW p \in Requests, Pending(p),
         row' = row \/ (row'.id = row.id /\ Content(row') = Content(row)),
         request[p].pc = "enqueue" => request'[p] = request[p],
         check'[p] = check[p], UNCHANGED worker
  PROVE  Pending(p)'
<1>1. row'.id = row.id /\ Content(row') = Content(row)  BY DEF Content
<1>2. Content(row)' = Content(row')  BY DEF Content
<1>3. Content(check[p].seen)' = Content(check[p].seen)  BY DEF Content
<1>4. Verdict(check[p].seen)' = Verdict(check[p].seen)  BY DEF Verdict, Opens
<1>5. QED BY <1>1, <1>2, <1>3, <1>4 DEF Pending

\* Equal contents have equal verdicts.
LEMMA VerdictOfContent ==
  ASSUME NEW a, NEW b, Content(a) = Content(b)
  PROVE  Verdict(a) = Verdict(b)
BY DEF Content, Verdict, Opens

\* Where the row, the worker and all requests and checks but one stay as they are.
LEMMA VerdictKept ==
  ASSUME VerdictInv, row # NoRow, ~ahead, ~lost, ~outdated, UNCHANGED <<row, worker>>,
         NEW q \in Requests, Pending(q) => Pending(q)',
         \A p \in Requests \ {q} : request'[p] = request[p] /\ check'[p] = check[p]
  PROVE  row'.status = Verdict(row)' \/ \E p \in Requests : Pending(p)'
<1>1. CASE row.status = Verdict(row)
  <2>1. Verdict(row)' = Verdict(row)  BY DEF Verdict, Opens
  <2>2. QED BY <1>1, <2>1
<1>2. ASSUME NEW p \in Requests, Pending(p) PROVE \E r \in Requests : Pending(r)'
  <2>1. CASE p = q  BY <1>2, <2>1
  <2>2. CASE p # q  BY <1>2, <2>2, PendingStays
  <2>3. QED BY <2>1, <2>2
<1>3. QED BY <1>1, <1>2 DEF VerdictInv

LEMMA VerdictInvStep ==
  /\ TypeInv /\ RolloutInv /\ OrderInv /\ KeyInv /\ KeyInv' /\ VerdictInv /\ [Next]_vars
  => VerdictInv'
<1> SUFFICES ASSUME TypeInv, RolloutInv, OrderInv, KeyInv, KeyInv', VerdictInv, [Next]_vars,
                    row' # NoRow, ~ahead', ~lost', ~outdated'
             PROVE  row'.status = Verdict(row)' \/ \E q \in Requests : Pending(q)'
  BY DEF VerdictInv
<1> DEFINE Goal == row'.status = Verdict(row)' \/ \E q \in Requests : Pending(q)'
<1>t. request \in [Requests -> RequestRecord] /\ check \in [Requests -> CheckRecord]
  BY DEF TypeInv
<1>1. ASSUME NEW q \in Requests, Load(q) \/ Recheck(q) \/ Delete(q) PROVE Goal
  <2>1. /\ UNCHANGED <<worker, ahead, lost, outdated, check>>
        /\ row' = row \/ row' = NoRow
        /\ request[q].pc # "enqueue"
        /\ \E r : request' = [request EXCEPT ![q] = r]
    <3>1. CASE Load(q)  BY <3>1, LoadEffect DEF ghostVars
    <3>2. CASE Recheck(q)  BY <3>2, RecheckEffect DEF ghostVars
    <3>3. CASE Delete(q)  BY <3>3 DEF Delete, ghostVars
    <3>4. QED BY <1>1, <3>1, <3>2, <3>3
  <2>2. row' = row /\ row # NoRow  BY <2>1
  <2>3. \A p \in Requests \ {q} : request'[p] = request[p] /\ check'[p] = check[p]
    BY <1>t, <2>1
  <2>4. Pending(q) => Pending(q)'  BY <2>1, <2>2, PendingStays
  <2>5. QED BY <2>1, <2>2, <2>3, <2>4, VerdictKept
<1>2. ASSUME NEW q \in Requests, Upsert(q) PROVE Goal
  <2>1. PICK r \in RequestRecord :
          /\ request' = [request EXCEPT ![q] = r]
          /\ \/ r.pc = "over" /\ UNCHANGED row
             \/ r.pc = "enqueue" /\ r.id = row'.id
    BY <1>2, UpsertEffect
  <2>2. /\ UNCHANGED <<check, worker, outdated, lost>> /\ request[q].pc = "loaded" /\ ~ahead
    <3>1. UNCHANGED <<check, worker, outdated, lost>> /\ request[q].pc = "loaded"
      BY <1>2, UpsertEffect
    <3>2. ~ahead  BY <1>2 DEF Upsert
    <3>3. QED BY <3>1, <3>2
  <2>3. CASE r.pc = "over" /\ UNCHANGED row
    <3>1. \A p \in Requests \ {q} : request'[p] = request[p] /\ check'[p] = check[p]
      BY <1>t, <2>1, <2>2
    <3>2. Pending(q) => Pending(q)'  BY <2>2, <2>3, PendingStays
    <3>3. QED BY <2>2, <2>3, <3>1, <3>2, VerdictKept
  <2>4. CASE r.pc = "enqueue" /\ r.id = row'.id
    <3>1. request'[q] = r  BY <1>t, <2>1
    <3>2. Pending(q)'  BY <2>4, <3>1 DEF Pending
    <3>3. QED BY <3>2
  <2>5. QED BY <2>1, <2>3, <2>4
<1>3. ASSUME NEW q \in Requests, Enqueue(q) PROVE Goal
  <2>1. PICK c \in CheckRecord : /\ check' = [check EXCEPT ![q] = c]
                                 /\ c.pc = "queued" /\ c.id = request[q].id
    BY <1>3, EnqueueEffect
  <2>2. /\ UNCHANGED <<row, worker, ahead, lost, outdated>> /\ request[q].pc = "enqueue"
        /\ request' = [request EXCEPT ![q] = RequestOver]
    BY <1>3, EnqueueEffect DEF ghostVars
  <2>3. \A p \in Requests \ {q} : request'[p] = request[p] /\ check'[p] = check[p]
    BY <1>t, <2>1, <2>2
  <2>4. check[q].pc = "none"  BY <2>2 DEF OrderInv
  <2>5. check'[q] = c  BY <1>t, <2>1
  <2>6. Pending(q) => Pending(q)'  BY <2>1, <2>2, <2>4, <2>5 DEF Pending
  <2>7. QED BY <2>2, <2>3, <2>6, VerdictKept
<1>4. ASSUME NEW q \in Requests, CheckLoad(q) PROVE Goal
  <2>1. PICK c \in CheckRecord :
              /\ check' = [check EXCEPT ![q] = c]
              /\ IF row # NoRow /\ row.id = check[q].id
                 THEN c.pc = "judged" /\ c.id = check[q].id /\ c.seen = row
                 ELSE c = CheckOver
    BY <1>4, CheckLoadEffect
  <2>2. UNCHANGED <<row, request, worker, ahead, lost, outdated>> /\ check[q].pc = "queued"
    BY <1>4, CheckLoadEffect DEF ghostVars
  <2>3. \A p \in Requests \ {q} : request'[p] = request[p] /\ check'[p] = check[p]
    BY <1>t, <2>1, <2>2
  <2>4. check'[q] = c  BY <1>t, <2>1
  <2>5. CASE row.id = check[q].id
    <3>1. c.pc = "judged" /\ c.id = row.id /\ c.seen = row  BY <2>1, <2>2, <2>5
    <3>2. Verdict(row)' = Verdict(row) /\ Content(row)' = Content(row)
      BY <2>2 DEF Verdict, Opens, Content
    <3>3. CASE row.status = Verdict(row)  BY <2>2, <3>2, <3>3
    <3>4. CASE row.status # Verdict(row)
      <4>1. check'[q].seen = row'  BY <2>2, <2>4, <3>1
      <4>2. Verdict(check[q].seen)' = Verdict(row)' /\ Content(check[q].seen)' = Content(row)'
        BY <4>1 DEF Verdict, Opens, Content
      <4>3. Pending(q)'  BY <2>2, <2>4, <3>1, <3>2, <3>4, <4>1, <4>2 DEF Pending
      <4>4. QED BY <4>3
    <3>5. QED BY <3>3, <3>4
  <2>6. CASE row.id # check[q].id
    <3>1. Pending(q) => Pending(q)'  BY <2>2, <2>6 DEF Pending
    <3>2. QED BY <2>2, <2>3, <3>1, VerdictKept
  <2>7. QED BY <2>5, <2>6
<1>5. ASSUME NEW q \in Requests, CheckCommit(q) PROVE Goal
  <2> DEFINE seen == check[q].seen  to == StatusColumn(seen, Verdict(seen))
  <2>1. /\ UNCHANGED <<request, worker, ahead, lost>> /\ check[q].pc = "judged"
        /\ check[q].id = seen.id /\ seen # NoRow
        /\ check' = [check EXCEPT ![q] = CheckOver]
    BY <1>5, CheckCommitEffect
  <2>2. \/ ~StillThere(seen) /\ UNCHANGED <<row, overtaken, outdated>>
        \/ /\ row # NoRow /\ row'.status = to /\ row'.id = row.id /\ Content(row') = Content(row)
           /\ outdated' = (outdated \/ (Content(row) # Content(seen) /\ to # row.status))
    BY <1>5, CheckCommitEffect
  <2>3. \A p \in Requests \ {q} : request'[p] = request[p] /\ check'[p] = check[p]
    BY <1>t, <2>1
  <2>4. CASE ~StillThere(seen) /\ UNCHANGED <<row, overtaken, outdated>>
    <3>1. check[q].id # row.id  BY <2>1, <2>4 DEF StillThere
    <3>2. Pending(q) => Pending(q)'  BY <2>1, <2>4, <3>1 DEF Pending
    <3>3. QED BY <2>1, <2>3, <2>4, <3>2, VerdictKept
  <2>5. CASE /\ row # NoRow /\ row'.status = to /\ row'.id = row.id /\ Content(row') = Content(row)
             /\ outdated' = (outdated \/ (Content(row) # Content(seen) /\ to # row.status))
    <3>1. ~ahead /\ ~lost /\ ~outdated /\ (Content(row) = Content(seen) \/ to = row.status)
      BY <2>1, <2>5
    <3>2. Verdict(row)' = Verdict(row)
      BY <2>1, <2>5 DEF Verdict, Opens, Content
    <3>3. CASE to # row.status
      <4>1. to = Verdict(seen) /\ Content(row) = Content(seen)  BY <3>1, <3>3 DEF StatusColumn
      <4>2. to = Verdict(row)  BY <4>1, VerdictOfContent
      <4>3. QED BY <2>5, <3>2, <4>2
    <3>4. CASE to = row.status /\ row.status = Verdict(row)  BY <2>5, <3>2, <3>4
    <3>5. CASE to = row.status /\ row.status # Verdict(row)
      <4>1. PICK p \in Requests : Pending(p)  BY <2>5, <3>1, <3>5 DEF VerdictInv
      <4>2. CASE p # q
        <5>1. Pending(p)'  BY <2>1, <2>3, <2>5, <4>1, <4>2, PendingStays
        <5>2. QED BY <5>1
      <4>3. CASE p = q
        <5>1. CASE request[q].pc = "enqueue"  BY <2>1, <5>1 DEF OrderInv
        <5>2. CASE request[q].pc # "enqueue"
          <6>1. Content(seen) = Content(row) /\ seen.status # Verdict(seen)
            BY <2>1, <4>1, <4>3, <5>2 DEF Pending
          <6>2. to = Verdict(seen)  BY <6>1 DEF StatusColumn
          <6>3. QED BY <3>5, <6>1, <6>2, VerdictOfContent
        <5>3. QED BY <5>1, <5>2
      <4>4. QED BY <4>2, <4>3
    <3>6. QED BY <3>3, <3>4, <3>5
  <2>6. QED BY <2>2, <2>4, <2>5
<1>6. ASSUME NEW q \in Requests, CheckStops(q) PROVE Goal
  <2>1. PICK c \in CheckRecord : /\ check' = [check EXCEPT ![q] = c]
                                 /\ c.pc = "queued" /\ c.id = check[q].id
    BY <1>6, CheckStopsEffect
  <2>2. UNCHANGED <<row, request, worker, ahead, lost, outdated>>
    BY <1>6, CheckStopsEffect DEF ghostVars
  <2>3. \A p \in Requests \ {q} : request'[p] = request[p] /\ check'[p] = check[p]
    BY <1>t, <2>1, <2>2
  <2>4. check'[q] = c  BY <1>t, <2>1
  <2>5. Pending(q) => Pending(q)'  BY <2>1, <2>2, <2>4 DEF Pending
  <2>6. QED BY <2>2, <2>3, <2>5, VerdictKept
<1>7. ASSUME NEW q \in Requests, EnqueueFails(q) \/ CheckLost(q) PROVE Goal
  BY <1>7 DEF EnqueueFails, CheckLost
<1>8. CASE RollWorker
  <2>1. /\ UNCHANGED <<row, request, ahead, lost, outdated>> /\ worker' = worker + 1
        /\ \A q \in Requests : /\ check'[q].id = check[q].id
                               /\ check[q].pc = "judged" => check'[q].pc = "queued"
                               /\ check[q].pc # "judged" => check'[q] = check[q]
    BY <1>8, RollWorkerEffect DEF ghostVars
  <2>2. row.key \in Rollout[worker].keys  BY <2>1 DEF KeyInv
  <2>3. row.key \in Rollout[worker'].keys  BY <2>1 DEF KeyInv
  <2>4. Verdict(row)' = Verdict(row)
    <3>1. Opens(row)' <=> Opens(row)  BY <2>1, <2>2, <2>3 DEF Opens
    <3>2. QED BY <2>1, <3>1 DEF Verdict
  <2>5. ASSUME NEW q \in Requests, Pending(q) PROVE Pending(q)'
    BY <2>1, <2>5 DEF Pending
  <2>6. QED BY <2>1, <2>4, <2>5 DEF VerdictInv
<1>9. CASE RollApi \/ RetireApi \/ UNCHANGED vars
  <2>1. UNCHANGED <<row, request, check, worker, ahead, lost, outdated>>
    BY <1>9 DEF RollApi, RetireApi, vars, ghostVars
  <2>2. Verdict(row)' = Verdict(row)  BY <2>1 DEF Verdict, Opens
  <2>3. ASSUME NEW q \in Requests, Pending(q) PROVE Pending(q)'
    BY <2>1, <2>3, PendingStays
  <2>4. QED BY <2>1, <2>2, <2>3 DEF VerdictInv
<1>10. QED
  BY <1>1, <1>2, <1>3, <1>4, <1>5, <1>6, <1>7, <1>8, <1>9 DEF Next, Request, Check, Fail

-----------------------------------------------------------------------------
LEMMA InitInv == Init => IInv
<1> SUFFICES ASSUME Init PROVE IInv  OBVIOUS
<1>1. 1 \in Settings  BY SettingsFacts
<1>2. /\ row = NoRow /\ api = {1} /\ worker = 1 /\ faults = 0
      /\ request = [q \in Requests |-> NewRequest] /\ check = [q \in Requests |-> NoCheck]
  BY DEF Init
<1>3. FlagsInv  BY ZenonT(30) DEF Init, FlagsInv
<1>4. TypeInv  BY <1>1, <1>2, ResetRecords DEF TypeInv
<1>5. \A q \in Requests : request[q].pc = "new" /\ check[q].pc = "none"  BY <1>2, ResetRecords
<1>6. RolloutInv  BY <1>2, <1>5 DEF RolloutInv
<1>7. OrderInv  BY <1>5 DEF OrderInv
<1>8. KeyInv /\ StatusInv /\ VerdictInv  BY <1>2 DEF KeyInv, StatusInv, VerdictInv
<1>9. QED BY <1>3, <1>4, <1>6, <1>7, <1>8 DEF IInv

LEMMA StepInv == IInv /\ [Next]_vars => IInv'
<1> SUFFICES ASSUME FlagsInv, TypeInv, RolloutInv, OrderInv, KeyInv, StatusInv, VerdictInv,
                    [Next]_vars
             PROVE  IInv'
  BY DEF IInv
<1>1. FlagsInv'  BY FlagsInvStep
<1>2. TypeInv'  BY TypeInvStep
<1>3. RolloutInv'  BY RolloutInvStep
<1>4. OrderInv'  BY OrderInvStep
<1>5. KeyInv'  BY KeyInvStep
<1>6. StatusInv'  BY StatusInvStep
<1>7. VerdictInv'  BY <1>5, VerdictInvStep
<1>8. QED BY <1>1, <1>2, <1>3, <1>4, <1>5, <1>6, <1>7 DEF IInv

\* The inductive invariant holds throughout.
THEOREM Invariance == Spec => []IInv
BY InitInv, StepInv, PTL DEF Spec

\* Requests, checks, the row and the settings of API and worker keep their
\* types: in particular some replica of the API always runs.
THEOREM TypeCorrect == Spec => []TypeOK
<1>1. ASSUME IInv PROVE TypeOK
  <2>1. FlagsInv /\ TypeInv /\ RolloutInv  BY <1>1 DEF IInv
  <2>2. {overtaken, outdated, ahead, lost} \subseteq BOOLEAN  BY <2>1, Zenon DEF FlagsInv
  <2>3. api \subseteq Settings /\ api # {}  BY <2>1, ApiFacts
  <2>4. ASSUME NEW q \in Requests
        PROVE  /\ request[q].pc \in {"new", "loaded", "enqueue", "over"}
               /\ request[q].kind \in {"none", "upsert", "verify", "delete"}
               /\ request[q].secret \in Secrets \cup {NoRow}
               /\ request[q].seen \in Row \cup {NoRow}
               /\ request[q].id \in Requests \cup {NoRow} /\ request[q].at \in Settings
               /\ check[q].pc \in {"none", "queued", "judged", "over"}
               /\ check[q].id \in Requests \cup {NoRow} /\ check[q].seen \in Row \cup {NoRow}
    <3>1. request[q] \in RequestRecord /\ check[q] \in CheckRecord  BY <2>1 DEF TypeInv
    <3>2. QED BY <3>1 DEF RequestRecord, CheckRecord
  <2>5. row \in Row \cup {NoRow} /\ worker \in Settings /\ faults \in Nat  BY <2>1 DEF TypeInv
  <2>6. QED BY <2>2, <2>3, <2>4, <2>5 DEF TypeOK
<1>2. QED BY <1>1, Invariance, PTL

\* Through every rotation that did not let the API seal ahead of the worker, a
\* run gets the stored good secret and no bad one is called valid, if nobody was
\* overtaken; and when all is done the status is the verdict on the stored
\* secret, whoever was overtaken, if no check was lost or misplaced and key and
\* ciphertext go together.
THEOREM StatusFits == Spec => []StatusFitsSecret
<1>1. ASSUME IInv PROVE StatusFitsSecret
  <2> SUFFICES ASSUME row # NoRow, ~ahead
               PROVE  /\ ~overtaken => RunsGetTheSecret
                      /\ AllDone /\ ~lost /\ ~outdated /\ row.sealed = row.key =>
                           row.status = IF row.secret \in Good THEN "valid" ELSE "invalid"
    BY DEF StatusFitsSecret
  <2>1. row.key \in Rollout[worker].keys  BY <1>1 DEF IInv, KeyInv
  <2>2. row.sealed = row.key => Opens(row)  BY <2>1 DEF Opens
  <2>3. ASSUME ~overtaken PROVE RunsGetTheSecret
    <3>1. /\ row.sealed = row.key
          /\ row.secret \in Good => row.status # "invalid"
          /\ row.status = "valid" => row.secret \in Good
      BY <1>1, <2>3 DEF IInv, StatusInv
    <3>2. QED BY <2>2, <3>1 DEF RunsGetTheSecret, Offered
  <2>4. ASSUME AllDone, ~lost, ~outdated, row.sealed = row.key
        PROVE  row.status = IF row.secret \in Good THEN "valid" ELSE "invalid"
    <3>1. \A q \in Requests : ~Pending(q)  BY <2>4 DEF AllDone, Pending
    <3>2. row.status = Verdict(row)  BY <1>1, <2>4, <3>1 DEF IInv, VerdictInv
    <3>3. QED BY <2>2, <2>4, <3>2 DEF Verdict
  <2>5. QED BY <2>3, <2>4
<1>2. QED BY <1>1, Invariance, PTL
=============================================================================
