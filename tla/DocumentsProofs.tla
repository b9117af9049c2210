---------------------------- MODULE DocumentsProofs ----------------------------
(***************************************************************************)
(* What holds of a tenant's files for every set of resumes and any number  *)
(* of failures.  The inductive invariant says what the locks exclude, what *)
(* the sweep of an account's deletion leaves behind, and what a request    *)
(* that is not over yet still owes.                                        *)
(***************************************************************************)
EXTENDS Documents, TLAPS

\* Nothing is known of a resume before its upload has committed, and only an
\* upload stores a file.
UploadInv ==
  \A r \in Resumes :
    /\ upload[r] # "over" => row[r] = "none"
    /\ upload[r] = "no" => ~object[r]
    /\ row[r] = "none" => del[r] = "no"

\* A parse and a delete do not hold the lock of one row at once; a parse that
\* holds it has a row to write to, and a delete about to commit removed the file.
LockInv ==
  \A r \in Resumes :
    /\ RowLockedByParse(r) => Exists(r) /\ ~RowLockedByDelete(r)
    /\ del[r] = "commit" => ~object[r]

\* What is in the store behind the sweep came late or was left, and of a deleted
\* user no row is there.
SweepInv ==
  /\ ~user => account = "over" /\ run = "none"
  /\ SweptResumes => \A r \in Resumes : object[r] => r \in late \cup missed
  /\ SweptReports /\ stored => "report" \in late \cup missed

\* A report is in the store after a commit, a rollback or a put: what no runs row
\* names, and no execution is about to name, has a cause.
ReportInv ==
  stored /\ run = "unset" /\ report # "commit" => "report" \in brokeOff \cup late \cup missed

\* The first part of OrphanNeedsCause, and of ListedResumesAreWhole, the latter
\* for the resumes as well that are about to be listed.
OrphanInv ==
  \A r \in Resumes :
    object[r] /\ ~Exists(r) /\ upload[r] \in {"no", "over"} => r \in brokeOff \cup late \cup missed
FileInv ==
  \A r \in Resumes : Exists(r) \/ upload[r] \in {"enqueue", "commit"} =>
    object[r] \/ r \in cutDelete \/ del[r] = "commit" \/ SweptResumes \/ swept

\* A parse belongs to a resume, and a parse that may commit once more is again.
ParseInv ==
  \A r \in Resumes :
    /\ row[r] = "parsed" => r \in parses
    /\ r \in parses => /\ Exists(r)
                       /\ row[r] = "parsed" \/ r \in again
                       /\ parse[r] \in {"ack", "over"} \/ r \in again

\* What only speaks of resumes, and is left alone by what only touches the report.
ResumeInv == UploadInv /\ LockInv /\ FileInv /\ ParseInv

IInv == TypeOK /\ ResumeInv /\ SweepInv /\ ReportInv /\ OrphanInv

-----------------------------------------------------------------------------
LEMMA InitIInv == Init => IInv
<1> SUFFICES ASSUME Init PROVE IInv
  OBVIOUS
<1>1. TypeOK
  BY DEF Init, TypeOK
<1>2. UploadInv /\ LockInv
  BY DEF Init, UploadInv, LockInv, RowLockedByParse, RowLockedByDelete
<1>3. SweepInv
  BY DEF Init, SweepInv, SweptResumes, SweptReports
<1>4. OrphanInv /\ ReportInv /\ FileInv /\ ParseInv
  BY DEF Init, OrphanInv, ReportInv, FileInv, ParseInv, Exists
<1>5. QED
  BY <1>1, <1>2, <1>3, <1>4 DEF IInv, ResumeInv

\* A sweep explains what it leaves, and takes no explanation from what it did not
\* look at.
LEMMA SweepExplains ==
  ASSUME TypeOK, NEW files, NEW left, files \subseteq Documents, Sweep(files, left)
  PROVE  /\ left \subseteq files /\ late' \subseteq Documents /\ missed' \subseteq Documents
         /\ faults' \in Nat
         /\ \A d \in left : d \in missed'
         /\ \A d \in late \cup missed : d \in files \/ d \in late' \cup missed'
<1>1. left \subseteq files /\ late' = late \ files /\ missed' = (missed \ files) \cup left
  BY DEF Sweep
<1>2. faults' \in Nat
  BY DEF Sweep, Strike, TypeOK
<1>3. QED
  BY <1>1, <1>2 DEF TypeOK

\* The two sweeps of an account's deletion.
LEMMA ResumesSwept ==
  ASSUME TypeOK, SweepResumes
  PROVE  /\ object' \in [Resumes -> BOOLEAN] /\ late' \subseteq Documents /\ missed' \subseteq Documents
         /\ faults' \in Nat
         /\ \A r \in Resumes : object'[r] => object[r] /\ r \in missed'
         /\ \A d \in late \cup missed : d \in late' \cup missed' \/ (d \in Resumes /\ object[d])
<1>1. PICK left \in SUBSET Resumes : /\ Sweep({r \in Resumes : object[r]}, left)
                                     /\ object' = [r \in Resumes |-> r \in left]
  BY DEF SweepResumes
<1> DEFINE files == {r \in Resumes : object[r]}
<1>2. files \subseteq Documents /\ Sweep(files, left)
  BY <1>1 DEF Documents
<1>3. \A d : d \in files <=> d \in Resumes /\ object[d]
  OBVIOUS
<1> HIDE DEF files
<1>4. /\ left \subseteq files /\ late' \subseteq Documents /\ missed' \subseteq Documents
      /\ faults' \in Nat /\ \A d \in left : d \in missed'
      /\ \A d \in late \cup missed : d \in files \/ d \in late' \cup missed'
  BY <1>2, SweepExplains
<1>5. object' \in [Resumes -> BOOLEAN]
  BY <1>1
<1>6. \A r \in Resumes : object'[r] => r \in left
  BY <1>1
<1>7. \A r \in Resumes : object'[r] => object[r] /\ r \in missed'
  BY <1>3, <1>4, <1>6
<1>8. \A d \in late \cup missed : d \in late' \cup missed' \/ (d \in Resumes /\ object[d])
  BY <1>3, <1>4
<1>9. QED
  BY <1>4, <1>5, <1>7, <1>8

LEMMA ReportsSwept ==
  ASSUME TypeOK, SweepReports
  PROVE  /\ stored' \in BOOLEAN /\ late' \subseteq Documents /\ missed' \subseteq Documents
         /\ faults' \in Nat
         /\ stored' => stored /\ "report" \in missed'
         /\ \A d \in late \cup missed : d \in late' \cup missed' \/ (d = "report" /\ stored)
<1>1. PICK left \in SUBSET {"report"} : /\ Sweep(IF stored THEN {"report"} ELSE {}, left)
                                        /\ stored' = (left # {})
  BY DEF SweepReports
<1> DEFINE files == IF stored THEN {"report"} ELSE {}
<1>2. files \subseteq Documents /\ Sweep(files, left)
  BY <1>1 DEF Documents
<1>3. \A d : d \in files => d = "report" /\ stored
  OBVIOUS
<1> HIDE DEF files
<1>4. /\ left \subseteq files /\ late' \subseteq Documents /\ missed' \subseteq Documents
      /\ faults' \in Nat /\ \A d \in left : d \in missed'
      /\ \A d \in late \cup missed : d \in files \/ d \in late' \cup missed'
  BY <1>2, SweepExplains
<1>5. stored' \in BOOLEAN /\ (stored' => stored /\ "report" \in missed')
  <2>1. CASE left = {}
    BY <1>1, <2>1
  <2>2. CASE left # {}
    <3>1. left = {"report"}
      BY <1>1, <2>2
    <3>2. QED
      BY <1>1, <1>3, <1>4, <3>1
  <2>3. QED
    BY <2>1, <2>2
<1>6. QED
  BY <1>3, <1>4, <1>5

\* The actions keep their types.
LEMMA NextTypeOK == ASSUME TypeOK, [Next]_vars PROVE TypeOK'
<1> USE DEF TypeOK, rowVars, fileVars, ghostVars
<1>1. ASSUME NEW r \in Resumes, Upload(r) PROVE TypeOK'
  <2>1. CASE UploadPut(r)
    BY <2>1 DEF UploadPut, Put, Documents
  <2>2. CASE UploadFlush(r) \/ UploadEnqueue(r) \/ UploadCommit(r)
    BY <2>2 DEF UploadFlush, UploadEnqueue, UploadCommit
  <2>3. QED
    BY <1>1, <2>1, <2>2 DEF Upload
<1>2. ASSUME NEW r \in Resumes, Parse(r) PROVE TypeOK'
  <2>1. CASE ParseLoad(r)
    BY <2>1 DEF ParseLoad
  <2>2. CASE ParseFlush(r)
    BY <2>2 DEF ParseFlush
  <2>3. CASE ParseGet(r)
    BY <2>3 DEF ParseGet
  <2>4. CASE ParseAsk(r)
    BY <2>4 DEF ParseAsk, VerdictsOn
  <2>5. CASE ParseCommit(r)
    BY <2>5 DEF ParseCommit
  <2>6. CASE ParseAck(r)
    BY <2>6 DEF ParseAck
  <2>7. QED
    BY <1>2, <2>1, <2>2, <2>3, <2>4, <2>5, <2>6 DEF Parse
<1>3. ASSUME NEW r \in Resumes, Delete(r) PROVE TypeOK'
  <2>1. CASE DeleteStore(r)
    BY <2>1 DEF DeleteStore, Remove
  <2>2. CASE DeleteCommit(r)
    BY <2>2 DEF DeleteCommit
  <2>3. CASE DeleteGet(r) \/ DeleteFlush(r)
    BY <2>3 DEF DeleteGet, DeleteFlush
  <2>4. QED
    BY <1>3, <2>1, <2>2, <2>3 DEF Delete
<1>4. CASE Report \/ DeleteProfile \/ ReportFails
  <2>1. CASE ReportPut
    BY <2>1 DEF ReportPut, Documents
  <2>2. CASE ReportFails
    BY <2>2 DEF ReportFails, Strike, Documents
  <2>3. CASE ReportBegin \/ ReportCommit \/ DeleteProfile
    BY <2>3 DEF ReportBegin, ReportCommit, DeleteProfile
  <2>4. QED
    BY <1>4, <2>1, <2>2, <2>3 DEF Report
<1>5. CASE Account
  <2>1. CASE SweepResumes
    BY <2>1, ResumesSwept DEF SweepResumes
  <2>2. CASE SweepReports
    BY <2>2, ReportsSwept DEF SweepReports
  <2>3. CASE AccountBegin \/ DeleteUser
    BY <2>3 DEF AccountBegin, DeleteUser
  <2>4. QED
    BY <1>5, <2>1, <2>2, <2>3 DEF Account
<1>6. ASSUME NEW r \in Resumes, UploadFails(r) \/ ParseStops(r) \/ ParseLost(r) \/ DeleteFails(r)
      PROVE  TypeOK'
  BY <1>6 DEF UploadFails, ParseStops, ParseLost, DeleteFails, Strike, Documents
<1>7. CASE AccountFails
  BY <1>7 DEF AccountFails, Strike
<1>8. CASE UNCHANGED vars
  BY <1>8 DEF vars
<1>9. QED
  BY <1>1, <1>2, <1>3, <1>4, <1>5, <1>6, <1>7, <1>8 DEF Next

\* One step, conjunct by conjunct.
LEMMA NextIInv == ASSUME IInv, [Next]_vars PROVE IInv'
<1> USE DEF IInv, ResumeInv, TypeOK, rowVars, fileVars, ghostVars, Exists, RowLockedByParse, RowLockedByDelete,
            SweptResumes, SweptReports
<1>t. TypeOK'
  BY NextTypeOK
<1> DEFINE Rest == ResumeInv /\ SweepInv /\ ReportInv /\ OrphanInv
<1>1. ASSUME NEW r \in Resumes, Upload(r) PROVE Rest'
  <2> USE DEF UploadInv, LockInv, SweepInv, ReportInv, OrphanInv, FileInv, ParseInv
  <2>1. CASE UploadFlush(r)
    BY <2>1 DEF UploadFlush
  <2>2. CASE UploadPut(r)
    BY <2>2 DEF UploadPut, Put
  <2>3. CASE UploadEnqueue(r)
    BY <2>3 DEF UploadEnqueue
  <2>4. CASE UploadCommit(r)
    BY <2>4 DEF UploadCommit
  <2>5. QED
    BY <1>1, <2>1, <2>2, <2>3, <2>4 DEF Upload
<1>2. ASSUME NEW r \in Resumes, Parse(r) PROVE Rest'
  <2> USE DEF UploadInv, LockInv, SweepInv, ReportInv, OrphanInv, FileInv, ParseInv
  <2>1. CASE ParseLoad(r)
    BY <2>1 DEF ParseLoad
  <2>2. CASE ParseFlush(r)
    BY <2>2 DEF ParseFlush
  <2>3. CASE ParseGet(r)
    BY <2>3 DEF ParseGet
  <2>4. CASE ParseAsk(r)
    BY <2>4 DEF ParseAsk
  <2>5. CASE ParseCommit(r)
    BY <2>5 DEF ParseCommit
  <2>6. CASE ParseAck(r)
    BY <2>6 DEF ParseAck
  <2>7. QED
    BY <1>2, <2>1, <2>2, <2>3, <2>4, <2>5, <2>6 DEF Parse
<1>3. ASSUME NEW r \in Resumes, Delete(r) PROVE Rest'
  <2> USE DEF UploadInv, LockInv, SweepInv, ReportInv, OrphanInv, FileInv, ParseInv
  <2>1. CASE DeleteGet(r)
    BY <2>1 DEF DeleteGet
  <2>2. CASE DeleteFlush(r)
    BY <2>2 DEF DeleteFlush
  <2>3. CASE DeleteStore(r)
    BY <2>3 DEF DeleteStore, Remove
  <2>4. CASE DeleteCommit(r)
    BY <2>4 DEF DeleteCommit
  <2>5. QED
    BY <1>3, <2>1, <2>2, <2>3, <2>4 DEF Delete
<1>4. ASSUME Report \/ DeleteProfile \/ ReportFails PROVE Rest'
  <2>1. /\ UNCHANGED <<user, row, parses, object, upload, parse, del, account, missed, cutDelete,
                       swept, again>>
        /\ late \subseteq late' /\ brokeOff \subseteq brokeOff'
    BY <1>4 DEF Report, ReportBegin, ReportPut, ReportCommit, DeleteProfile, ReportFails
  <2>2. ResumeInv'
    BY <2>1 DEF UploadInv, LockInv, FileInv, ParseInv
  <2>3. OrphanInv'
    BY <2>1 DEF OrphanInv
  <2>4. SweepInv'
    BY <1>4, <2>1 DEF Report, ReportBegin, ReportPut, ReportCommit, DeleteProfile, ReportFails, SweepInv
  <2>5. ReportInv'
    BY <1>4 DEF Report, ReportBegin, ReportPut, ReportCommit, DeleteProfile, ReportFails, ReportInv
  <2>6. QED
    BY <2>2, <2>3, <2>4, <2>5
<1>5. ASSUME Account PROVE Rest'
  <2>1. CASE AccountBegin
    BY <2>1 DEF AccountBegin, UploadInv, LockInv, SweepInv, ReportInv, OrphanInv, FileInv, ParseInv
  <2>2. CASE SweepResumes
    <3>1. /\ account = "resumes" /\ account' = "reports"
          /\ UNCHANGED <<user, row, parses, run, stored, upload, parse, del, report, brokeOff,
                        cutDelete, swept, again>>
      BY <2>2 DEF SweepResumes
    <3>2. /\ \A r \in Resumes : object'[r] => object[r] /\ r \in missed'
          /\ "report" \in late \cup missed => "report" \in late' \cup missed'
      BY <2>2, ResumesSwept, NamesAssumption
    <3>3. ResumeInv'
      BY <3>1, <3>2 DEF UploadInv, LockInv, FileInv, ParseInv
    <3>4. SweepInv' /\ ReportInv'
      BY <3>1, <3>2 DEF SweepInv, ReportInv
    <3>5. OrphanInv'
      BY <3>1, <3>2 DEF OrphanInv
    <3>6. QED
      BY <3>3, <3>4, <3>5
  <2>3. CASE SweepReports
    <3>1. /\ account = "reports" /\ account' = "row"
          /\ UNCHANGED <<user, row, parses, run, object, upload, parse, del, report, brokeOff,
                        cutDelete, swept, again>>
      BY <2>3 DEF SweepReports
    <3>2. /\ stored' => stored /\ "report" \in missed'
          /\ \A r \in Resumes : r \in late \cup missed => r \in late' \cup missed'
      BY <2>3, ReportsSwept, NamesAssumption
    <3>3. ResumeInv'
      BY <3>1 DEF UploadInv, LockInv, FileInv, ParseInv
    <3>4. SweepInv' /\ ReportInv'
      BY <3>1, <3>2 DEF SweepInv, ReportInv
    <3>5. OrphanInv'
      BY <3>1, <3>2 DEF OrphanInv
    <3>6. QED
      BY <3>3, <3>4, <3>5
  <2>4. CASE DeleteUser
    BY <2>4 DEF DeleteUser, UserLocked, UploadInv, LockInv, SweepInv, ReportInv, OrphanInv, FileInv, ParseInv
  <2>5. QED
    BY <1>5, <2>1, <2>2, <2>3, <2>4 DEF Account
<1>6. ASSUME NEW r \in Resumes, UploadFails(r) \/ ParseStops(r) \/ ParseLost(r) \/ DeleteFails(r)
      PROVE  Rest'
  <2> USE DEF UploadInv, LockInv, SweepInv, ReportInv, OrphanInv, FileInv, ParseInv, Strike
  <2>1. CASE UploadFails(r)
    BY <2>1 DEF UploadFails
  <2>2. CASE ParseStops(r)
    BY <2>2 DEF ParseStops
  <2>3. CASE ParseLost(r)
    BY <2>3 DEF ParseLost
  <2>4. CASE DeleteFails(r)
    BY <2>4 DEF DeleteFails
  <2>5. QED
    BY <1>6, <2>1, <2>2, <2>3, <2>4
<1>7. ASSUME AccountFails PROVE Rest'
  BY <1>7 DEF AccountFails, Strike, UploadInv, LockInv, SweepInv, ReportInv, OrphanInv, FileInv, ParseInv
<1>8. ASSUME UNCHANGED vars PROVE Rest'
  BY <1>8 DEF vars, UploadInv, LockInv, SweepInv, ReportInv, OrphanInv, FileInv, ParseInv
<1>9. QED
  BY <1>t, <1>1, <1>2, <1>3, <1>4, <1>5, <1>6, <1>7, <1>8 DEF Next

LEMMA InvariantIInv == Spec => []IInv
  BY InitIInv, NextIInv, PTL DEF Spec

-----------------------------------------------------------------------------
\* The rows, the files and the requests keep their types.
THEOREM DocumentsTypes == Spec => []TypeOK
<1>1. IInv => TypeOK
  BY DEF IInv
<1>2. QED
  BY <1>1, InvariantIInv, PTL

\* A file no row refers to has one of the named causes, and of a deleted account
\* nothing is left but what its deletion missed, whatever uploads, reports, deletes
\* and their failures do beside it.
THEOREM OrphansExplained == Spec => []OrphanNeedsCause
<1>1. IInv => OrphanNeedsCause
  BY DEF IInv, TypeOK, OrphanInv, ReportInv, SweepInv, OrphanNeedsCause, SweptReports, SweptResumes
<1>2. QED
  BY <1>1, InvariantIInv, PTL

\* A listed resume has its file, and its status agrees with its parse, whatever
\* uploads, parses, deletes and the account's deletion do at once.
THEOREM ListedResumesWhole == Spec => []ListedResumesAreWhole
<1>1. IInv => ListedResumesAreWhole
  BY DEF IInv, ResumeInv, FileInv, ParseInv, ListedResumesAreWhole
<1>2. QED
  BY <1>1, InvariantIInv, PTL
=============================================================================
