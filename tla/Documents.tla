------------------------------- MODULE Documents -------------------------------
(***************************************************************************)
(* The files of one tenant: resumes that are uploaded, parsed by the       *)
(* worker and deleted, the report of a run, the deletion of the run's      *)
(* profile, and that of the whole account.  A request is one database      *)
(* transaction with calls to the object store and the queue in the middle  *)
(* of it, and its rows are not seen by others before its commit; a row     *)
(* that a transaction has written stays locked until then, as does, for    *)
(* deletion, the users row a new resume refers to.  Failures are drawn     *)
(* from a budget of MaxFaults.                                             *)
(***************************************************************************)
EXTENDS Naturals

CONSTANTS
  Resumes,     \* resume ids; each is uploaded once
  FaultKinds,  \* the failures that can happen in this instance
  MaxFaults    \* bound on their number

ASSUME BoundsAssumption == MaxFaults \in Nat
\* The name of the run's report among the documents.
ASSUME NamesAssumption == "report" \notin Resumes

VARIABLES
  user,     \* the users row is there
  row,      \* the resumes row as others see it
  parses,   \* the resumes that have a resume_parses row
  run,      \* the runs row of one run, and its report_key: none, unset or set
  object,   \* resumes/<user>/<resume>.pdf is in the store
  stored,   \* reports/<user>/<run>.xlsx is
  upload,   \* the upload request: its next call
  parse,    \* the parse_resume job: in the queue or its next call
  verdict,  \* the status the parse is about to commit
  del,      \* the delete request of a resume: its next call
  account,  \* the delete_account request: its next call
  report,   \* notify_if_needed of the run: its next call
  faults,   \* failures so far
  late, missed, brokeOff, early, lost, cutDelete, swept, again  \* history: see below

rowVars   == <<user, row, parses, run>>
fileVars  == <<object, stored>>
ghostVars == <<late, missed, brokeOff, early, lost, cutDelete, swept, again>>
vars == <<rowVars, fileVars, upload, parse, verdict, del, account, report, faults,
          ghostVars>>

Documents == Resumes \cup {"report"}

\* Types; of a resume's status, nobody ever sees the value parsing.
TypeOK ==
  /\ user \in BOOLEAN
  /\ row \in [Resumes -> {"none", "uploaded", "parsed", "failed", "gone"}]
  /\ parses \subseteq Resumes
  /\ run \in {"none", "unset", "set"}
  /\ object \in [Resumes -> BOOLEAN] /\ stored \in BOOLEAN
  /\ upload \in [Resumes -> {"no", "put", "enqueue", "commit", "over"}]
  /\ parse \in [Resumes -> {"none", "queued", "flush", "get", "ask", "commit", "ack", "over"}]
  /\ verdict \in [Resumes -> {"parsed", "failed"}]
  /\ del \in [Resumes -> {"no", "flush", "store", "commit", "over"}]
  /\ account \in {"no", "resumes", "reports", "row", "over"}
  /\ report \in {"no", "put", "commit", "over"}
  /\ faults \in Nat
  /\ late \subseteq Documents /\ missed \subseteq Documents /\ brokeOff \subseteq Documents
  /\ early \subseteq Resumes
  /\ lost \subseteq Resumes /\ cutDelete \subseteq Resumes /\ swept \in BOOLEAN
  /\ again \subseteq Resumes

\* late: files stored after the account's deletion had swept their prefix, and
\* missed: those it had swept and left.
\* brokeOff: files whose transaction rolled back after their put.  early: resumes whose parse
\* ran before their commit.  lost: resumes whose parse job was lost.
\* cutDelete: deletes that failed after the object was gone.  swept: an account
\* deletion removed the files and then failed.  again: resumes whose parse was
\* delivered once more after it had committed.
Init ==
  /\ user = TRUE
  /\ row = [r \in Resumes |-> "none"] /\ parses = {} /\ run = "unset"
  /\ object = [r \in Resumes |-> FALSE] /\ stored = FALSE
  /\ upload = [r \in Resumes |-> "no"]
  /\ parse = [r \in Resumes |-> "none"] /\ verdict = [r \in Resumes |-> "failed"]
  /\ del = [r \in Resumes |-> "no"] /\ account = "no" /\ report = "no"
  /\ faults = 0
  /\ late = {} /\ missed = {} /\ brokeOff = {} /\ early = {} /\ lost = {} /\ cutDelete = {} /\ swept = FALSE
  /\ again = {}

Exists(r) == row[r] \in {"uploaded", "parsed", "failed"}

Strike(kind) ==
  /\ kind \in FaultKinds
  /\ faults < MaxFaults
  /\ faults' = faults + 1

\* Locks held until the commit: on the row, by a parse or a delete that wrote
\* it; on the users row, against its deletion, by an upload.
RowLockedByParse(r)  == parse[r] \in {"get", "ask", "commit"}
RowLockedByDelete(r) == del[r] \in {"store", "commit"}
UserLocked == \E r \in Resumes : upload[r] \in {"put", "enqueue", "commit"}

\* S3ObjectStore: put, get and delete of one resume's file.
Put(r)     == object' = [object EXCEPT ![r] = TRUE] /\ UNCHANGED stored
CanRead(r) == object[r]
Remove(r)  == object' = [object EXCEPT ![r] = FALSE] /\ UNCHANGED stored

\* delete_prefix: delete_objects names the keys it could not delete in an answer
\* that nobody reads, so that the sweep may leave some of the files there are.
Sweep(files, left) ==
  /\ left \subseteq files
  /\ IF left = {} THEN UNCHANGED faults ELSE Strike("store")
  /\ late' = late \ files
  /\ missed' = (missed \ files) \cup left

\* The sweep of the account's deletion is past this prefix.
SweptResumes == account \in {"reports", "row", "over"}
SweptReports == account \in {"row", "over"}

-----------------------------------------------------------------------------
(* ResumeService.upload *)

\* The row is inserted and flushed.
UploadFlush(r) ==
  /\ user /\ upload[r] = "no"
  /\ upload' = [upload EXCEPT ![r] = "put"]
  /\ UNCHANGED <<rowVars, fileVars, parse, verdict, del, account, report, faults, ghostVars>>

UploadPut(r) ==
  /\ upload[r] = "put"
  /\ Put(r)
  /\ upload' = [upload EXCEPT ![r] = "enqueue"]
  /\ late' = IF SweptResumes THEN late \cup {r} ELSE late
  /\ UNCHANGED <<rowVars, parse, verdict, del, account, report, faults,
                 missed, brokeOff, early, lost, cutDelete, swept, again>>

UploadEnqueue(r) ==
  /\ upload[r] = "enqueue"
  /\ parse' = [parse EXCEPT ![r] = "queued"]
  /\ upload' = [upload EXCEPT ![r] = "commit"]
  /\ UNCHANGED <<rowVars, fileVars, verdict, del, account, report, faults, ghostVars>>

\* get_db commits when the request is done.
UploadCommit(r) ==
  /\ upload[r] = "commit"
  /\ row' = [row EXCEPT ![r] = "uploaded"]
  /\ upload' = [upload EXCEPT ![r] = "over"]
  /\ UNCHANGED <<user, parses, run, fileVars, parse, verdict, del, account, report, faults, ghostVars>>

\* The store, the queue or the process fails: the transaction rolls back.
UploadFails(r) ==
  /\ upload[r] \in {"put", "enqueue", "commit"}
  /\ Strike("request")
  /\ upload' = [upload EXCEPT ![r] = "over"]
  /\ brokeOff' = IF object[r] THEN brokeOff \cup {r} ELSE brokeOff
  /\ UNCHANGED <<rowVars, fileVars, parse, verdict, del, account, report,
                 late, missed, early, lost, cutDelete, swept, again>>

-----------------------------------------------------------------------------
(* parse_resume *)

\* What comes of reading the file: its text or none, and of asking the model: JSON,
\* an error for a reply without any, or an exception.
TextsOf(r) == IF CanRead(r) THEN {"some", "none"} ELSE {"none"}
Replies    == {"json", "error", "raised"}

\* Of JSON in another shape than asked for, skills_from_parse makes an exception.
VerdictsOn(reply) == IF reply = "json" THEN {"parsed", "failed"} ELSE {"failed"}

\* The row is loaded; a row that is not (or not yet) there ends the job.
ParseLoad(r) ==
  /\ parse[r] = "queued"
  /\ parse' = [parse EXCEPT ![r] = IF Exists(r) THEN "flush" ELSE "over"]
  /\ early' = IF upload[r] = "commit" THEN early \cup {r} ELSE early
  /\ UNCHANGED <<rowVars, fileVars, upload, verdict, del, account, report, faults,
                 late, missed, brokeOff, lost, cutDelete, swept, again>>

\* status = parsing is flushed, which locks the row; nobody sees it before the
\* commit.  A row deleted meanwhile makes the flush fail, and the commit after it.
\* Mutation: the status is committed at once.
ParseFlushCommits(r) ==
  /\ parse[r] = "flush" /\ ~RowLockedByDelete(r)
  /\ parse' = [parse EXCEPT ![r] = IF Exists(r) THEN "get" ELSE "over"]
  /\ row' = [row EXCEPT ![r] = IF Exists(r) THEN "parsing" ELSE row[r]]
  /\ UNCHANGED <<user, parses, run, fileVars, upload, verdict, del, account, report, faults, ghostVars>>
ParseFlush(r) ==
  /\ parse[r] = "flush" /\ ~RowLockedByDelete(r)
  /\ parse' = [parse EXCEPT ![r] = IF Exists(r) THEN "get" ELSE "over"]
  /\ UNCHANGED <<rowVars, fileVars, upload, verdict, del, account, report, faults, ghostVars>>

\* ObjectStore.get raises for a missing object, and an image or a corrupt PDF
\* has no text: both are recorded.  Mutation: a missing object is not.
ParseGetGivesUp(r) ==
  /\ parse[r] = "get"
  /\ parse' = [parse EXCEPT ![r] = IF CanRead(r) THEN "ask" ELSE "over"]
  /\ UNCHANGED <<rowVars, fileVars, upload, verdict, del, account, report, faults, ghostVars>>
ParseGet(r) ==
  /\ parse[r] = "get"
  /\ \E text \in TextsOf(r) :
       parse' = [parse EXCEPT ![r] = IF text = "some" THEN "ask" ELSE "commit"]
  /\ UNCHANGED <<rowVars, fileVars, upload, verdict, del, account, report, faults, ghostVars>>

\* The text is sent to the model.
ParseAsk(r) ==
  /\ parse[r] = "ask"
  /\ \E reply \in Replies : \E v \in VerdictsOn(reply) : verdict' = [verdict EXCEPT ![r] = v]
  /\ parse' = [parse EXCEPT ![r] = "commit"]
  /\ UNCHANGED <<rowVars, fileVars, upload, del, account, report, faults, ghostVars>>

\* Status and, for parsed, the new resume_parses row.
ParseCommit(r) ==
  /\ parse[r] = "commit"
  /\ row' = [row EXCEPT ![r] = verdict[r]]
  /\ parses' = IF verdict[r] = "parsed" THEN parses \cup {r} ELSE parses
  /\ verdict' = [verdict EXCEPT ![r] = "failed"]
  /\ parse' = [parse EXCEPT ![r] = "ack"]
  /\ UNCHANGED <<user, run, fileVars, upload, del, account, report, faults, ghostVars>>

ParseAck(r) ==
  /\ parse[r] = "ack"
  /\ parse' = [parse EXCEPT ![r] = "over"]
  /\ UNCHANGED <<rowVars, fileVars, upload, verdict, del, account, report, faults, ghostVars>>

\* The worker stops: the transaction rolls back, arq delivers the job again.
ParseStops(r) ==
  /\ parse[r] \in {"flush", "get", "ask", "commit", "ack"}
  /\ Strike("crash")
  /\ parse' = [parse EXCEPT ![r] = "queued"]
  /\ verdict' = [verdict EXCEPT ![r] = "failed"]
  /\ again' = IF parse[r] = "ack" THEN again \cup {r} ELSE again
  /\ UNCHANGED <<rowVars, fileVars, upload, del, account, report,
                 late, missed, brokeOff, early, lost, cutDelete, swept>>

\* Redis or the scheduler process lost the job, or it ran into job_timeout,
\* whose CancelledError no handler records.
ParseLost(r) ==
  /\ parse[r] \in {"queued", "flush", "get", "ask", "commit"}
  /\ Strike("job")
  /\ parse' = [parse EXCEPT ![r] = "over"]
  /\ verdict' = [verdict EXCEPT ![r] = "failed"]
  /\ lost' = lost \cup {r}
  /\ UNCHANGED <<rowVars, fileVars, upload, del, account, report,
                 late, missed, brokeOff, early, cutDelete, swept, again>>

-----------------------------------------------------------------------------
(* ResumeService.delete *)

DeleteGet(r) ==
  /\ user /\ Exists(r) /\ del[r] = "no"
  /\ del' = [del EXCEPT ![r] = "flush"]
  /\ UNCHANGED <<rowVars, fileVars, upload, parse, verdict, account, report, faults, ghostVars>>

\* The row is deleted, which waits for a parse that wrote it.
DeleteFlush(r) ==
  /\ del[r] = "flush" /\ ~RowLockedByParse(r)
  /\ del' = [del EXCEPT ![r] = "store"]
  /\ UNCHANGED <<rowVars, fileVars, upload, parse, verdict, account, report, faults, ghostVars>>

\* Mutations: the object is forgotten; it goes before the row is locked.
DeleteStoreForgotten(r) ==
  /\ del[r] = "store"
  /\ del' = [del EXCEPT ![r] = "commit"]
  /\ UNCHANGED <<rowVars, fileVars, upload, parse, verdict, account, report, faults, ghostVars>>
DeleteStoreFirst(r) ==
  /\ del[r] \in {"flush", "store"}
  /\ Remove(r)
  /\ del' = [del EXCEPT ![r] = IF del[r] = "store" THEN "commit" ELSE "flush"]
  /\ UNCHANGED <<rowVars, upload, parse, verdict, account, report, faults, ghostVars>>
DeleteStore(r) ==
  /\ del[r] = "store"
  /\ Remove(r)
  /\ del' = [del EXCEPT ![r] = "commit"]
  /\ UNCHANGED <<rowVars, upload, parse, verdict, account, report, faults, ghostVars>>

DeleteCommit(r) ==
  /\ del[r] = "commit"
  /\ row' = [row EXCEPT ![r] = "gone"] /\ parses' = parses \ {r}
  /\ del' = [del EXCEPT ![r] = "over"]
  /\ UNCHANGED <<user, run, fileVars, upload, parse, verdict, account, report, faults, ghostVars>>

\* The request fails and its transaction rolls back; the client may try again.
DeleteFails(r) ==
  /\ del[r] \in {"store", "commit"}
  /\ Strike("request")
  /\ del' = [del EXCEPT ![r] = "no"]
  /\ cutDelete' = IF del[r] = "commit" THEN cutDelete \cup {r} ELSE cutDelete
  /\ UNCHANGED <<rowVars, fileVars, upload, parse, verdict, account, report,
                 late, missed, brokeOff, early, lost, swept, again>>

-----------------------------------------------------------------------------
(* notify_if_needed, and the deletion of the run's profile *)

\* An execution of the run has read its matches, and that no mail has left ...
ReportBegin ==
  /\ run = "unset" /\ report = "no"
  /\ report' = "put"
  /\ UNCHANGED <<rowVars, fileVars, upload, parse, verdict, del, account, faults, ghostVars>>

\* ... and puts reports/<user>/<run>.xlsx, also over the one of an earlier attempt.
ReportPut ==
  /\ report = "put"
  /\ stored' = TRUE
  /\ report' = "commit"
  /\ late' = IF SweptReports THEN late \cup {"report"} ELSE late
  /\ UNCHANGED <<rowVars, object, upload, parse, verdict, del, account, faults,
                 missed, brokeOff, early, lost, cutDelete, swept, again>>

\* The mail, and the commit of report_key.  The update of a row that has gone
\* raises, and the handler finds no run.
ReportCommit ==
  /\ report = "commit"
  /\ run' = IF run = "none" THEN "none" ELSE "set"
  /\ report' = "over"
  /\ UNCHANGED <<user, row, parses, fileVars, upload, parse, verdict, del, account, faults,
                 ghostVars>>

\* The store, the mail, the database or the worker fails: the transaction rolls
\* back, and the run is executed once more or not.
ReportFails ==
  /\ report \in {"put", "commit"}
  /\ Strike("run")
  /\ report' \in {"no", "over"}
  /\ brokeOff' = IF report = "commit" THEN brokeOff \cup {"report"} ELSE brokeOff
  /\ UNCHANGED <<rowVars, fileVars, upload, parse, verdict, del, account,
                 late, missed, early, lost, cutDelete, swept, again>>

\* ON DELETE CASCADE takes the profile's runs along; nobody looks at the store.
DeleteProfile ==
  /\ user /\ run # "none"
  /\ run' = "none"
  /\ UNCHANGED <<user, row, parses, fileVars, upload, parse, verdict, del, account, report,
                 faults, ghostVars>>

-----------------------------------------------------------------------------
(* AccountService.delete_account *)

AccountBegin ==
  /\ user /\ account = "no"
  /\ account' = "resumes"
  /\ UNCHANGED <<rowVars, fileVars, upload, parse, verdict, del, report, faults, ghostVars>>

SweepResumes ==
  /\ account = "resumes"
  /\ \E left \in SUBSET Resumes :
       /\ Sweep({r \in Resumes : object[r]}, left)
       /\ object' = [r \in Resumes |-> r \in left]
  /\ account' = "reports"
  /\ UNCHANGED <<rowVars, stored, upload, parse, verdict, del, report,
                 brokeOff, early, lost, cutDelete, swept, again>>

SweepReports ==
  /\ account = "reports"
  /\ \E left \in SUBSET {"report"} :
       /\ Sweep(IF stored THEN {"report"} ELSE {}, left)
       /\ stored' = (left # {})
  /\ account' = "row"
  /\ UNCHANGED <<rowVars, object, upload, parse, verdict, del, report,
                 brokeOff, early, lost, cutDelete, swept, again>>

\* DELETE FROM users waits for every lock on the row and on the rows that go
\* with it, and takes the resumes rows, their parses and the runs along.
DeleteUser ==
  /\ account = "row" /\ ~UserLocked
  /\ \A r \in Resumes : ~RowLockedByParse(r) /\ ~RowLockedByDelete(r)
  /\ user' = FALSE
  /\ row' = [r \in Resumes |-> IF Exists(r) THEN "gone" ELSE row[r]]
  /\ parses' = {} /\ run' = "none"
  /\ account' = "over"
  /\ UNCHANGED <<fileVars, upload, parse, verdict, del, report, faults, ghostVars>>

AccountFails ==
  /\ account \in {"resumes", "reports", "row"}
  /\ Strike("request")
  /\ account' = "no"
  /\ swept' = (swept \/ account # "resumes")
  /\ UNCHANGED <<rowVars, fileVars, upload, parse, verdict, del, report,
                 late, missed, brokeOff, early, lost, cutDelete, again>>

-----------------------------------------------------------------------------
Upload(r) == UploadFlush(r) \/ UploadPut(r) \/ UploadEnqueue(r) \/ UploadCommit(r)
Parse(r)  == ParseLoad(r) \/ ParseFlush(r) \/ ParseGet(r) \/ ParseAsk(r) \/ ParseCommit(r)
             \/ ParseAck(r)
Delete(r) == DeleteGet(r) \/ DeleteFlush(r) \/ DeleteStore(r) \/ DeleteCommit(r)
Report    == ReportBegin \/ ReportPut \/ ReportCommit
Account   == AccountBegin \/ SweepResumes \/ SweepReports \/ DeleteUser

Next ==
  \/ \E r \in Resumes : Upload(r) \/ Parse(r) \/ Delete(r)
  \/ Report \/ DeleteProfile \/ Account
  \/ \E r \in Resumes : UploadFails(r) \/ ParseStops(r) \/ ParseLost(r) \/ DeleteFails(r)
  \/ ReportFails \/ AccountFails

Spec == Init /\ [][Next]_vars

\* A worker slot takes the next job and goes on with it (its calls have
\* timeouts), and a delete request that holds the row's lock ends.
Fairness ==
  \A r \in Resumes : WF_vars(Parse(r)) /\ WF_vars(DeleteStore(r) \/ DeleteCommit(r))
FairSpec == Spec /\ Fairness

-----------------------------------------------------------------------------
(* Properties *)

\* A file no row refers to, and no request or job under way will deal with, has a
\* cause.  For a resume: its upload failed after the put, or the account's
\* deletion missed it, by a late put or a key that the store refused to delete.
\* For a report: the same, or its run went with the profile.  And of a deleted
\* account nothing is left but what its deletion missed.
OrphanNeedsCause ==
  /\ \A r \in Resumes :
       object[r] /\ ~Exists(r) /\ upload[r] \in {"no", "over"} => r \in brokeOff \cup late \cup missed
  /\ stored /\ run # "set" /\ report \in {"no", "over"} =>
       run = "none" \/ "report" \in brokeOff \cup late \cup missed
  /\ ~user => /\ \A r \in Resumes : object[r] => r \in late \cup missed
              /\ stored => "report" \in late \cup missed

\* A resume that is listed is whole: it has its file, unless its deletion or
\* that of the account is under way or failed halfway; one that is parsed has a
\* parse for the runs to use; and one that has a parse is parsed, unless the job
\* was delivered again after its commit and then failed.
ListedResumesAreWhole ==
  \A r \in Resumes : Exists(r) =>
    /\ object[r] \/ r \in cutDelete \/ del[r] = "commit" \/ SweptResumes \/ swept
    /\ row[r] = "parsed" => r \in parses
    /\ r \in parses => row[r] = "parsed" \/ r \in again

\* A resume somebody waits for is parsed, failed or deleted in the end, unless
\* its parse job was lost or ran before the upload had committed.
UploadsSettle ==
  \A r \in Resumes :
    row[r] = "uploaded" ~> (row[r] # "uploaded" \/ r \in early \cup lost)
=============================================================================
