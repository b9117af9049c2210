------------------------------ MODULE Credentials ------------------------------
(***************************************************************************)
(* The credential of one tenant for one job site: saved, replaced, checked *)
(* again and deleted by requests, and judged by verify_credential jobs of  *)
(* the worker.  Requests and jobs load the row into an ORM object, and     *)
(* write what they changed in it later: the flush takes the row's lock and *)
(* the commit releases it, with nothing read in between, so both are one   *)
(* step here.  The API seals a secret, the worker opens it; their settings *)
(* name the master keys, and a rotation of the master key brings new       *)
(* settings to one replica of the API after the other, and to the worker.  *)
(***************************************************************************)
EXTENDS Naturals, Sequences, FiniteSetsExt

CONSTANTS
  MaxRequests, \* bound on the requests of the tenant
  Secrets,     \* the secrets one may save
  Good,        \* those that pass _structural_error
  NoRow,       \* no credential stored
  Rollout,     \* the settings, in the order in which they are rolled out
  FaultKinds,  \* the failures that can happen in this instance
  MaxFaults    \* bound on their number

ASSUME SecretsAssumption == Good \subseteq Secrets
ASSUME BoundsAssumption  == MaxFaults \in Nat /\ MaxRequests \in Nat
\* Settings have finitely many keys, one at least.
ASSUME RolloutAssumption ==
  /\ Len(Rollout) \in Nat \ {0} /\ DOMAIN Rollout = 1..Len(Rollout)
  /\ \A s \in DOMAIN Rollout :
       /\ Rollout[s].keys \subseteq Nat
       /\ \E v \in Rollout[s].keys : \A w \in Rollout[s].keys : v >= w

VARIABLES
  row,      \* the site_credentials row; its id is the request that inserted it
  request,  \* what each request is doing, and the row as it loaded it
  check,    \* the verify_credential job of each request, likewise
  api,      \* the settings that some replica of the API runs with
  worker,   \* the settings of the worker
  faults,   \* failures so far
  overtaken, outdated, ahead, lost  \* history: see below

ghostVars == <<overtaken, outdated, ahead, lost>>
vars == <<row, request, check, api, worker, faults, ghostVars>>

\* key is the column key_version, sealed the version the ciphertext was sealed
\* with.
Requests == 1..MaxRequests
CredentialStatus == {"unverified", "valid", "invalid"}
Settings == DOMAIN Rollout
Versions == UNION {Rollout[s].keys : s \in Settings}
Row == [id: Requests, secret: Secrets, status: CredentialStatus, key: Versions, sealed: Versions]

\* Types.  The status expired is declared in the code, and nothing writes it.
TypeOK ==
  /\ row \in Row \cup {NoRow}
  /\ \A q \in Requests :
       /\ request[q].pc \in {"new", "loaded", "enqueue", "over"}
       /\ request[q].kind \in {"none", "upsert", "verify", "delete"}
       /\ request[q].secret \in Secrets \cup {NoRow}
       /\ request[q].seen \in Row \cup {NoRow}
       /\ request[q].id \in Requests \cup {NoRow} /\ request[q].at \in Settings
       /\ check[q].pc \in {"none", "queued", "judged", "over"}
       /\ check[q].id \in Requests \cup {NoRow} /\ check[q].seen \in Row \cup {NoRow}
  /\ api \subseteq Settings /\ api # {} /\ worker \in Settings
  /\ faults \in Nat
  /\ {overtaken, outdated, ahead, lost} \subseteq BOOLEAN

NewRequest == [pc |-> "new", kind |-> "none", secret |-> NoRow, seen |-> NoRow, id |-> NoRow,
               at |-> 1]
NoCheck    == [pc |-> "none", id |-> NoRow, seen |-> NoRow]
RequestOver == [NewRequest EXCEPT !.pc = "over"]
CheckOver   == [NoCheck EXCEPT !.pc = "over"]

\* overtaken: the row changed between somebody's load and write of it.
\* outdated: a verdict was written to another secret or ciphertext than the one
\* judged.
\* ahead: a secret was sealed with a key the worker did not have.
\* lost: a check was lost.
Init ==
  /\ row = NoRow
  /\ request = [q \in Requests |-> NewRequest]
  /\ check = [q \in Requests |-> NoCheck]
  /\ api = {1} /\ worker = 1
  /\ faults = 0
  /\ overtaken = FALSE /\ outdated = FALSE /\ ahead = FALSE /\ lost = FALSE

Strike(kind) ==
  /\ kind \in FaultKinds
  /\ faults < MaxFaults
  /\ faults' = faults + 1

\* Is the row that was loaded still there, under the same id?
StillThere(seen) == row # NoRow /\ seen # NoRow /\ row.id = seen.id

\* The ORM writes a column only if its value differs from the one it loaded.
StatusColumn(seen, new) == IF seen.status = new THEN row.status ELSE new
KeyColumn(seen, new)    == IF seen.key = new THEN row.key ELSE new

\* What a verdict is about.
Content(r) == <<r.secret, r.sealed, r.key>>

Notice(seen) == overtaken' = (overtaken \/ row # seen)

-----------------------------------------------------------------------------
(* Master keys *)

\* EnvMasterKey: the configured version, or the highest there is a key for.
CurrentVersion(s) ==
  IF Rollout[s].version \in Rollout[s].keys THEN Rollout[s].version ELSE Max(Rollout[s].keys)

\* The runbook's settings still have the key that the ones before seal with.
ASSUME HandoverAssumption ==
  \A s \in Settings : s + 1 \in Settings => CurrentVersion(s) \in Rollout[s + 1].keys

\* Envelope.decrypt, with the key of the version the row names.
Opens(r) == r.key \in Rollout[worker].keys /\ r.sealed = r.key

\* The runbook's rotation: both settings are rolled out before the next ones
\* are, and a key is dropped once the row names another.
Due == \E s \in Settings : api = {s} /\ worker = s /\ s + 1 \in Settings
                             /\ (row # NoRow => row.key \in Rollout[s + 1].keys)
RollApi ==
  /\ Due \/ Max(api) < worker
  /\ api' = api \cup {Max(api) + 1}
  /\ UNCHANGED <<row, request, check, worker, faults, ghostVars>>

\* The last old replica stops, when it has finished its requests.
RetireApi ==
  LET s == Min(api) IN
  /\ s # Max(api)
  /\ \A q \in Requests : request[q].at = s => request[q].pc \in {"new", "over"}
  /\ api' = api \ {s}
  /\ UNCHANGED <<row, request, check, worker, faults, ghostVars>>

\* The worker restarts: arq delivers again what it was checking.
RollWorker ==
  /\ Due \/ worker < Max(api)
  /\ worker' = worker + 1
  /\ check' = [q \in Requests |-> IF check[q].pc = "judged"
                                  THEN [check[q] EXCEPT !.pc = "queued", !.seen = NoRow]
                                  ELSE check[q]]
  /\ UNCHANGED <<row, request, api, faults, ghostVars>>

-----------------------------------------------------------------------------
(* SiteCredentialService *)

\* The request reaches a replica and loads the row (requests are numbered in the
\* order in which they do); verify and delete of none are refused.
Load(q) ==
  /\ request[q].pc = "new"
  /\ \A p \in 1..q-1 : request[p].pc # "new"
  /\ \/ \E s \in Secrets, at \in api :
          request' = [request EXCEPT ![q] = [@ EXCEPT !.pc = "loaded", !.kind = "upsert",
                                                      !.secret = s, !.seen = row, !.at = at]]
     \/ \E kind \in {"verify", "delete"} :
          request' = [request EXCEPT ![q] = IF row = NoRow THEN RequestOver ELSE
                        [@ EXCEPT !.pc = "loaded", !.kind = kind, !.seen = row, !.at = Max(api)]]
  /\ UNCHANGED <<row, check, api, worker, faults, ghostVars>>

\* The row an upsert leaves behind.
Replaced(q) ==
  LET seen == request[q].seen  version == CurrentVersion(request[q].at) IN
  [row EXCEPT !.secret = request[q].secret, !.sealed = version, !.key = KeyColumn(seen, version),
              !.status = StatusColumn(seen, "unverified")]

\* upsert, flush and commit: an insert, which fails if somebody else's came
\* first, or an update, which fails if the row has gone.
Upsert(q) ==
  LET seen == request[q].seen  version == CurrentVersion(request[q].at) IN
  /\ request[q].pc = "loaded" /\ request[q].kind = "upsert"
  /\ IF seen = NoRow /\ row = NoRow
     THEN /\ row' = [id |-> q, secret |-> request[q].secret, status |-> "unverified",
                    key |-> version, sealed |-> version]
          /\ request' = [request EXCEPT ![q].pc = "enqueue", ![q].id = q]
          /\ UNCHANGED overtaken
     ELSE IF StillThere(seen)
     THEN /\ row' = Replaced(q)
          /\ request' = [request EXCEPT ![q].pc = "enqueue", ![q].id = seen.id]
          /\ Notice(seen)
     ELSE /\ request' = [request EXCEPT ![q] = RequestOver]
          /\ UNCHANGED <<row, overtaken>>
  /\ ahead' = (ahead \/ version \notin Rollout[worker].keys)
  /\ UNCHANGED <<check, api, worker, faults, outdated, lost>>

\* verify only enqueues.
Recheck(q) ==
  /\ request[q].pc = "loaded" /\ request[q].kind = "verify"
  /\ request' = [request EXCEPT ![q].pc = "enqueue", ![q].id = request[q].seen.id]
  /\ UNCHANGED <<row, check, api, worker, faults, ghostVars>>

\* Mutation: a credential that was there before is not checked again.
EnqueueForNew(q) ==
  /\ request[q].pc = "enqueue"
  /\ request' = [request EXCEPT ![q] = RequestOver]
  /\ check' = IF request[q].seen = NoRow
              THEN [check EXCEPT ![q].pc = "queued", ![q].id = request[q].id] ELSE check
  /\ UNCHANGED <<row, api, worker, faults, ghostVars>>
Enqueue(q) ==
  /\ request[q].pc = "enqueue"
  /\ request' = [request EXCEPT ![q] = RequestOver]
  /\ check' = [check EXCEPT ![q].pc = "queued", ![q].id = request[q].id]
  /\ UNCHANGED <<row, api, worker, faults, ghostVars>>

\* Redis refuses the call or the process dies, after the commit.
EnqueueFails(q) ==
  /\ request[q].pc = "enqueue"
  /\ Strike("enqueue")
  /\ request' = [request EXCEPT ![q] = RequestOver]
  /\ lost' = TRUE
  /\ UNCHANGED <<row, check, api, worker, overtaken, outdated, ahead>>

\* delete, flush and commit; a row that has gone meanwhile is no error.
Delete(q) ==
  /\ request[q].pc = "loaded" /\ request[q].kind = "delete"
  /\ row' = IF StillThere(request[q].seen) THEN NoRow ELSE row
  /\ request' = [request EXCEPT ![q] = RequestOver]
  /\ UNCHANGED <<check, api, worker, faults, ghostVars>>

-----------------------------------------------------------------------------
(* verify_credential *)

\* Mutation: a status that is declared and never meant for a verdict.
VerdictExpired(r) == IF Opens(r) /\ r.secret \in Good THEN "valid" ELSE "expired"
Verdict(r) == IF Opens(r) /\ r.secret \in Good THEN "valid" ELSE "invalid"

\* The job loads the row of its id, if there is one, and judges its secret.
\* Mutation: only if the status says that this has not been done.
CheckLoadUnverified(q) ==
  /\ check[q].pc = "queued"
  /\ check' = IF row # NoRow /\ row.id = check[q].id /\ row.status = "unverified"
              THEN [check EXCEPT ![q].pc = "judged", ![q].seen = row]
              ELSE [check EXCEPT ![q] = CheckOver]
  /\ UNCHANGED <<row, request, api, worker, faults, ghostVars>>
CheckLoad(q) ==
  /\ check[q].pc = "queued"
  /\ check' = IF row # NoRow /\ row.id = check[q].id
              THEN [check EXCEPT ![q].pc = "judged", ![q].seen = row]
              ELSE [check EXCEPT ![q] = CheckOver]
  /\ UNCHANGED <<row, request, api, worker, faults, ghostVars>>

\* The verdict is committed, on whatever the row holds by now; without the row
\* the update fails, and the job with it.
CheckCommit(q) ==
  LET seen == check[q].seen
      to   == StatusColumn(seen, Verdict(seen))
  IN
  /\ check[q].pc = "judged"
  /\ IF StillThere(seen)
     THEN /\ row' = [row EXCEPT !.status = to]
          /\ Notice(seen)
          /\ outdated' = (outdated \/ (Content(row) # Content(seen) /\ to # row.status))
     ELSE UNCHANGED <<row, overtaken, outdated>>
  /\ check' = [check EXCEPT ![q] = CheckOver]
  /\ UNCHANGED <<request, api, worker, faults, ahead, lost>>

\* The worker stops: arq delivers the job again.
CheckStops(q) ==
  /\ check[q].pc = "judged"
  /\ Strike("crash")
  /\ check' = [check EXCEPT ![q].pc = "queued", ![q].seen = NoRow]
  /\ UNCHANGED <<row, request, api, worker, ghostVars>>

\* Redis loses the job, the scheduler process takes it, or it exceeds its time.
CheckLost(q) ==
  /\ check[q].pc \in {"queued", "judged"}
  /\ Strike("job")
  /\ check' = [check EXCEPT ![q] = CheckOver]
  /\ lost' = TRUE
  /\ UNCHANGED <<row, request, api, worker, overtaken, outdated, ahead>>

-----------------------------------------------------------------------------
Request(q) == Load(q) \/ Upsert(q) \/ Recheck(q) \/ Enqueue(q) \/ Delete(q)
Check(q)   == CheckLoad(q) \/ CheckCommit(q)
Fail(q)    == EnqueueFails(q) \/ CheckStops(q) \/ CheckLost(q)

Next ==
  \/ \E q \in Requests : Request(q) \/ Check(q) \/ Fail(q)
  \/ RollApi \/ RetireApi \/ RollWorker

Spec == Init /\ [][Next]_vars

\* The API goes on with a request that has committed, and a worker slot takes
\* the next job and finishes it.
Fairness == \A q \in Requests : WF_vars(Enqueue(q)) /\ WF_vars(Check(q))
FairSpec == Spec /\ Fairness

-----------------------------------------------------------------------------
(* Properties *)

\* What load_source_credentials hands to a run.
Offered == IF row = NoRow \/ row.status = "invalid" \/ ~Opens(row) THEN {} ELSE {row.secret}

\* A run gets the stored secret if it is good, and one that is called valid is;
\* once all requests and checks are done, the status is the verdict on the
\* stored secret.  Both hold while the master key is rotated, unless the API
\* sealed with a new key before the worker had it.  The first needs that no
\* request or check was overtaken by another between its load and its write.  The
\* second holds through that, unless a check was lost or wrote its verdict on
\* another secret or ciphertext than it had judged, or two upserts left the key
\* version of one with the ciphertext of the other.
RunsGetTheSecret ==
  /\ row.secret \in Good => row.secret \in Offered
  /\ row.status = "valid" => row.secret \in Good
AllDone ==
  \A q \in Requests : request[q].pc \in {"new", "over"} /\ check[q].pc \in {"none", "over"}
StatusFitsSecret ==
  row # NoRow /\ ~ahead =>
    /\ ~overtaken => RunsGetTheSecret
    /\ AllDone /\ ~lost /\ ~outdated /\ row.sealed = row.key =>
         row.status = IF row.secret \in Good THEN "valid" ELSE "invalid"

\* A saved credential gets its verdict, unless its check was lost.
VerdictsArrive ==
  (row # NoRow /\ row.status = "unverified") ~>
    (row = NoRow \/ row.status # "unverified" \/ lost)
=============================================================================
