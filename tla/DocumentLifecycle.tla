-------------------------- MODULE DocumentLifecycle --------------------------
(***************************************************************************)
(* The life of an uploaded document: the row in the database, the file in  *)
(* the upload directory and the chunks in the course's search index are    *)
(* three stores no transaction spans.                                      *)
(*                                                                         *)
(* Coroutines (upload, delete, the ingestion job between its awaits) run   *)
(* on one event loop: `loop' says which handler holds it between two of    *)
(* its writes.  Plain handlers (retry, delete_course) and the indexing     *)
(* body of a job run in threads, and interleave with everything.  The      *)
(* process can stop at any step; on restart it resumes what it finds in    *)
(* "processing".  One course is modelled: documents of different courses   *)
(* share neither duplicates nor an index.                                  *)
(***************************************************************************)
EXTENDS Naturals, FiniteSets

CONSTANTS
  Docs,        \* document ids: uuids, never reused
  Digests,     \* what sha256 tells apart
  Blank,       \* the digests of files with no text to index
  ForeignKeys, \* the database enforces them: PostgreSQL does, SQLite does not
  Slots,       \* bound: the ingestion jobs one document can have at once
  Retriers,    \* the threads serving POST /documents/{id}/retry
  MaxCrashes   \* bound: how often the process stops

ASSUME BlankAssumption == Blank \subseteq Digests
ASSUME KeysAssumption == ForeignKeys \in BOOLEAN
ASSUME SlotsAssumption == 1 \in Slots
ASSUME CrashesAssumption == MaxCrashes \in Nat

VARIABLES
  up,          \* the API process is running
  supervisor,  \* the supervisor gateway is configured and loads
  course,      \* "live" or "gone"
  courseCheck, \* delete_course found no documents and is about to delete
  uploads,     \* uploads past their check of the course, reading the body
  status,      \* of the row: "unused" before upload, "gone" after deletion
  error,       \* the documents whose row holds an error message
  coll,        \* the collection of the row
  digest,      \* the sha256 of the row
  onDisk,      \* the documents whose file is in the upload directory
  indexed,     \* the documents that have chunks in the index
  job,         \* the ingestion jobs of a document
  retry,       \* the retry requests past their check of the status
  loop,        \* the handler that holds the event loop between two writes
  removing,    \* past exams whose deletion waits for the supervisor
  purged,      \* history: documents whose chunks a deletion has removed
  unread,      \* history: decks with text whose last extraction gave none
  lost,        \* history: documents whose ingestion a database error ended
  crashes      \* how often the process has stopped

courses == <<course, courseCheck, uploads>>
db      == <<status, error, coll, digest>>
stores  == <<onDisk, indexed>>
history == <<purged, unread, lost, crashes>>
vars    == <<up, supervisor, courses, db, stores, job, retry, loop, removing,
             history>>

Collections == {"slides", "past_exam"}
None        == [op |-> "none"]
Idle        == [pc |-> "idle", seen |-> "unused", seenError |-> FALSE]
Scheduled   == [Idle EXCEPT !.pc = "scheduled"]

Live(d)    == status[d] \in {"processing", "ready", "failed"}
LoopFree   == up /\ loop = None
HasText(d) == digest[d] \notin Blank

Pc  == {"idle", "scheduled", "extracting", "emptying", "purging", "upserting",
        "indexed", "asking", "answered", "failing"}
Job == [pc : Pc, seen : {"unused", "processing", "ready", "failed"},
        seenError : BOOLEAN]

TypeOK ==
  /\ up \in BOOLEAN /\ supervisor \in BOOLEAN
  /\ course \in {"live", "gone"} /\ courseCheck \in BOOLEAN
  /\ uploads \subseteq Docs
  /\ status \in [Docs -> {"unused", "processing", "ready", "failed", "gone"}]
  /\ error \subseteq Docs
  /\ coll \in [Docs -> Collections]
  /\ digest \in [Docs -> Digests]
  /\ onDisk \subseteq Docs /\ indexed \subseteq Docs
  /\ job \in [Docs -> [Slots -> Job]]
  /\ retry \in [Retriers -> [doc : Docs] \cup {None}]
  /\ loop \in [op : {"upload", "delete", "unlink"}, doc : Docs] \cup {None}
  /\ removing \subseteq Docs /\ purged \subseteq Docs
  /\ unread \subseteq Docs /\ lost \subseteq Docs
  /\ crashes \in 0..MaxCrashes

Init ==
  /\ up = TRUE /\ supervisor \in BOOLEAN
  /\ course = "live" /\ courseCheck = FALSE /\ uploads = {}
  /\ status = [d \in Docs |-> "unused"] /\ error = {}
  /\ coll \in [Docs -> Collections] /\ digest \in [Docs -> Digests]
  /\ onDisk = {} /\ indexed = {}
  /\ job = [d \in Docs |-> [k \in Slots |-> Idle]]
  /\ retry = [r \in Retriers |-> None]
  /\ loop = None /\ removing = {}
  /\ purged = {} /\ unread = {} /\ lost = {} /\ crashes = 0

-----------------------------------------------------------------------------
(* Upload: a coroutine that checks the course, awaits the body, and then   *)
(* has no await from the duplicate check to the commit.  The insert is     *)
(* flushed but not committed when the file is written, so until the commit *)
(* the row exists for nobody else.                                         *)

UploadChecks(d) ==
  /\ LoopFree /\ course = "live" /\ status[d] = "unused"
  /\ uploads' = uploads \cup {d}
  /\ UNCHANGED <<up, supervisor, course, courseCheck, db, stores, job, retry,
                 loop, removing, history>>

\* The body is not acceptable, or a duplicate, or never comes.
UploadRefused(d) ==
  /\ LoopFree /\ d \in uploads
  /\ uploads' = uploads \ {d}
  /\ UNCHANGED <<up, supervisor, course, courseCheck, db, stores, job, retry,
                 loop, removing, history>>

\* Mutant of Duplicate: only indexed documents count.
DuplicateOfReady(d) ==
  \E e \in Docs : status[e] = "ready" /\ coll[e] = coll[d]
                   /\ digest[e] = digest[d]

Duplicate(d) ==
  \E e \in Docs : Live(e) /\ coll[e] = coll[d] /\ digest[e] = digest[d]

\* The insert checks the course again only where foreign keys are enforced.
UploadWrite(d) ==
  /\ LoopFree /\ d \in uploads /\ status[d] = "unused"
  /\ ForeignKeys => course = "live"
  /\ ~Duplicate(d)
  /\ uploads' = uploads \ {d}
  /\ onDisk' = onDisk \cup {d}
  /\ loop' = [op |-> "upload", doc |-> d]
  /\ UNCHANGED <<up, supervisor, course, courseCheck, db, indexed, job, retry,
                 removing, history>>

SetJob(d, k, j) == job' = [job EXCEPT ![d] = [@ EXCEPT ![k] = j]]

\* After the commit the row is read once more: if that raises, the request
\* ends in an error and the job it was about to schedule is never there.
Schedules(d, k) ==
  \/ SetJob(d, k, Scheduled) /\ lost' = lost \ {d}
  \/ UNCHANGED job /\ lost' = lost \cup {d}

UploadCommit(d) ==
  /\ up /\ loop = [op |-> "upload", doc |-> d]
  /\ status' = [status EXCEPT ![d] = "processing"]
  /\ Schedules(d, 1)
  /\ loop' = None
  /\ UNCHANGED <<up, supervisor, courses, error, coll, digest, stores, retry,
                 removing, purged, unread, crashes>>

\* The write or the commit raises: the transaction is rolled back.
UploadFails(d) ==
  /\ up /\ loop = [op |-> "upload", doc |-> d]
  /\ status' = [status EXCEPT ![d] = "gone"]
  /\ loop' = None
  /\ UNCHANGED <<up, supervisor, courses, error, coll, digest, stores, job,
                 retry, removing, history>>

-----------------------------------------------------------------------------
(* The ingestion job.  Steps on the loop: JobBegins, JobReady, JobFailed,  *)
(* JobLost.  Steps in a thread: the others.  A job keeps the row as it     *)
(* read it, and a commit writes only the columns it changed.               *)

AtPc(d, k, pc)  == up /\ job[d][k].pc = pc
MoveJob(d, k, pc) == SetJob(d, k, [job[d][k] EXCEPT !.pc = pc])

JobBegins(d, k) ==
  /\ AtPc(d, k, "scheduled") /\ loop = None
  /\ SetJob(d, k, IF ~Live(d) THEN Idle
                  ELSE [pc |-> IF coll[d] = "slides" THEN "extracting"
                               ELSE "asking",
                        seen |-> status[d], seenError |-> d \in error])
  /\ UNCHANGED <<up, supervisor, courses, db, stores, retry, loop, removing,
                 history>>

\* A file that is missing, or a PDF or Office file that cannot be read, gives
\* an empty text and no exception.
JobExtracts(d, k) ==
  /\ AtPc(d, k, "extracting")
  /\ \E read \in BOOLEAN :
       /\ read => HasText(d) /\ d \in onDisk
       /\ MoveJob(d, k, IF read THEN "purging" ELSE "emptying")
       /\ unread' = IF HasText(d) /\ ~read THEN unread \cup {d}
                    ELSE unread \ {d}
  /\ UNCHANGED <<up, supervisor, courses, db, stores, retry, loop, removing,
                 purged, lost, crashes>>

\* Chunks are removed whether there are new ones or not.
JobPurges(d, k) ==
  /\ up /\ job[d][k].pc \in {"emptying", "purging"}
  /\ indexed' = indexed \ {d}
  /\ MoveJob(d, k, IF job[d][k].pc = "purging" THEN "upserting" ELSE "indexed")
  /\ UNCHANGED <<up, supervisor, courses, db, onDisk, retry, loop, removing,
                 history>>

JobUpserts(d, k) ==
  /\ AtPc(d, k, "upserting")
  /\ indexed' = indexed \cup {d}
  /\ MoveJob(d, k, "indexed")
  /\ UNCHANGED <<up, supervisor, courses, db, onDisk, retry, loop, removing,
                 history>>

\* The graph's document node answers a past exam with "ready".
JobAnswers(d, k) ==
  /\ AtPc(d, k, "asking") /\ supervisor
  /\ MoveJob(d, k, "answered")
  /\ UNCHANGED <<up, supervisor, courses, db, stores, retry, loop, removing,
                 history>>

\* The index or the gateway is not available: the only failures that raise.
JobRaises(d, k) ==
  /\ up /\ job[d][k].pc \in {"extracting", "emptying", "purging", "upserting",
                              "asking"}
  /\ MoveJob(d, k, "failing")
  /\ UNCHANGED <<up, supervisor, courses, db, stores, retry, loop, removing,
                 history>>

\* Mutant of WriteStatus: the row is written whether it exists or not.
MergeStatus(d, k, new, newErrors) ==
  status' = [status EXCEPT ![d] = new] /\ error' = newErrors

\* Mutant of WriteStatus: the status of an event is not validated.
WriteRawStatus(d, k, new, newErrors) ==
  IF Live(d)
  THEN status' = [status EXCEPT ![d] = job[d][k].pc] /\ error' = newErrors
  ELSE UNCHANGED <<status, error>>

\* An UPDATE of a row that is gone raises, the handler of that exception
\* raises again, and the job ends without a write.
WriteStatus(d, k, new, newErrors) ==
  IF Live(d)
  THEN /\ status' = IF job[d][k].seen = new THEN status
                    ELSE [status EXCEPT ![d] = new]
       /\ error' = newErrors
  ELSE UNCHANGED <<status, error>>

\* slides: the thread returned; past exam: the document_status event.
JobReady(d, k) ==
  /\ up /\ job[d][k].pc \in {"indexed", "answered"} /\ loop = None
  /\ WriteStatus(d, k, "ready",
                 IF job[d][k].seenError THEN error \ {d} ELSE error)
  /\ SetJob(d, k, Idle)
  /\ UNCHANGED <<up, supervisor, courses, coll, digest, stores, retry, loop,
                 removing, history>>

\* Mutant of JobFailed: the failure is logged and swallowed.
JobFailureSwallowed(d, k) ==
  /\ AtPc(d, k, "failing") /\ loop = None
  /\ WriteStatus(d, k, "ready", error)
  /\ SetJob(d, k, Idle)
  /\ UNCHANGED <<up, supervisor, courses, coll, digest, stores, retry, loop,
                 removing, history>>

\* Mutant of JobFailed: the failure is set on the row and not committed.
FailureUncommitted(d, k) ==
  /\ AtPc(d, k, "failing") /\ loop = None
  /\ SetJob(d, k, Idle)
  /\ UNCHANGED <<up, supervisor, courses, db, stores, retry, loop, removing,
                 history>>

\* The message may be the one the job read, which is then not written.
JobFailed(d, k) ==
  /\ AtPc(d, k, "failing") /\ loop = None
  /\ \/ WriteStatus(d, k, "failed", error \cup {d})
     \/ job[d][k].seenError /\ WriteStatus(d, k, "failed", error)
  /\ SetJob(d, k, Idle)
  /\ UNCHANGED <<up, supervisor, courses, coll, digest, stores, retry, loop,
                 removing, history>>

\* A read or a commit of the job raises, and so does the handler of that
\* exception, whose session waits for a rollback: nothing is written.
JobLost(d, k) ==
  /\ up /\ job[d][k].pc \in {"scheduled", "indexed", "answered", "failing"}
  /\ loop = None
  /\ SetJob(d, k, Idle)
  /\ lost' = IF status[d] = "processing" THEN lost \cup {d} ELSE lost
  /\ UNCHANGED <<up, supervisor, courses, db, stores, retry, loop, removing,
                 purged, unread, crashes>>

-----------------------------------------------------------------------------
(* Retry runs in a thread: it reads the row, and commits later.            *)

\* Mutant of Retriable: a document still being processed may be retried.
Unsettled(d) == status[d] \in {"processing", "failed"}

Retriable(d) == status[d] = "failed"

\* Mutant of ErrorsAfterRetry: the message of the last failure stays.
ErrorsKept(d) == error

ErrorsAfterRetry(d) == error \ {d}

RetryChecks(r, d) ==
  /\ up /\ retry[r] = None /\ Retriable(d)
  /\ retry' = [retry EXCEPT ![r] = [doc |-> d]]
  /\ UNCHANGED <<up, supervisor, courses, db, stores, job, loop, removing,
                 history>>

\* The UPDATE of a row that is gone raises: the request ends in an error.
RetryCommits(r, d, k) ==
  /\ up /\ retry[r] = [doc |-> d]
  /\ retry' = [retry EXCEPT ![r] = None]
  /\ job[d][k] = Idle
  /\ IF Live(d)
     THEN /\ status' = [status EXCEPT ![d] = "processing"]
          /\ error' = ErrorsAfterRetry(d)
          /\ Schedules(d, k)
     ELSE UNCHANGED <<status, error, job, lost>>
  /\ UNCHANGED <<up, supervisor, courses, coll, digest, stores, loop, removing,
                 purged, unread, crashes>>

\* The commit raises: the row stays as it is.
RetryFails(r) ==
  /\ up /\ retry[r] # None
  /\ retry' = [retry EXCEPT ![r] = None]
  /\ UNCHANGED <<up, supervisor, courses, db, stores, job, loop, removing,
                 history>>

-----------------------------------------------------------------------------
(* Deletion.  The index is cleared first and its failure is swallowed, then *)
(* the row is deleted and committed, then the file is unlinked.            *)

\* Mutant of DeleteSlides: the file is unlinked before the row is gone.
UnlinkFirst(d) ==
  /\ LoopFree /\ Live(d) /\ coll[d] = "slides"
  /\ indexed' = indexed \ {d} /\ onDisk' = onDisk \ {d}
  /\ purged' = purged \cup {d}
  /\ loop' = [op |-> "delete", doc |-> d]
  /\ UNCHANGED <<up, supervisor, courses, db, job, retry, removing, unread,
                 lost, crashes>>

DeleteSlides(d) ==
  /\ LoopFree /\ Live(d) /\ coll[d] = "slides"
  /\ \/ indexed' = indexed \ {d}
     \/ UNCHANGED indexed
  /\ purged' = purged \cup {d}
  /\ loop' = [op |-> "delete", doc |-> d]
  /\ UNCHANGED <<up, supervisor, courses, db, onDisk, job, retry, removing,
                 unread, lost, crashes>>

\* A past exam's deletion first awaits the supervisor, which may not be there.
DeleteExam(d) ==
  /\ LoopFree /\ Live(d) /\ coll[d] = "past_exam" /\ supervisor
  /\ removing' = removing \cup {d}
  /\ UNCHANGED <<up, supervisor, courses, db, stores, job, retry, loop,
                 history>>

\* The supervisor is done, or raised and the request ends in an error.
ExamRemoved(d) ==
  /\ LoopFree /\ d \in removing
  /\ removing' = removing \ {d}
  /\ loop' \in {[op |-> "delete", doc |-> d], None}
  /\ UNCHANGED <<up, supervisor, courses, db, stores, job, retry, history>>

DeleteCommit(d) ==
  /\ up /\ loop = [op |-> "delete", doc |-> d]
  /\ status' = [status EXCEPT ![d] = "gone"]
  /\ error' = error \ {d}
  /\ loop' = [op |-> "unlink", doc |-> d]
  /\ UNCHANGED <<up, supervisor, courses, coll, digest, stores, job, retry,
                 removing, history>>

\* The commit raises: the document stays, without what was removed before.
DeleteFails(d) ==
  /\ up /\ loop = [op |-> "delete", doc |-> d]
  /\ loop' = None
  /\ UNCHANGED <<up, supervisor, courses, db, stores, job, retry, removing,
                 history>>

DeleteUnlink(d) ==
  /\ up /\ loop = [op |-> "unlink", doc |-> d]
  /\ onDisk' = onDisk \ {d}
  /\ loop' = None
  /\ UNCHANGED <<up, supervisor, courses, db, indexed, job, retry, removing,
                 history>>

-----------------------------------------------------------------------------
(* Deleting the course: a thread that looks for documents, then deletes the *)
(* course row.  The session cascades to the documents it has seen, none.   *)
(* Only a database that enforces foreign keys cascades to the rows there   *)
(* are by then.  An insert in flight makes the deletion wait: it holds     *)
(* the course row (PostgreSQL) or the database (SQLite).                   *)

CourseDeleteChecks ==
  /\ up /\ course = "live" /\ ~courseCheck
  /\ \A d \in Docs : ~Live(d)
  /\ courseCheck' = TRUE
  /\ UNCHANGED <<up, supervisor, course, uploads, db, stores, job, retry, loop,
                 removing, history>>

\* Mutant of Cascade: the database is left as it is.
NoCascade == UNCHANGED <<status, error>>

Cascade ==
  IF ForeignKeys
  THEN /\ status' = [d \in Docs |-> IF Live(d) THEN "gone" ELSE status[d]]
       /\ error' = {}
  ELSE UNCHANGED <<status, error>>

CourseDeleteCommits ==
  /\ up /\ courseCheck
  /\ \A d \in Docs : loop # [op |-> "upload", doc |-> d]
  /\ course' = "gone" /\ courseCheck' = FALSE
  /\ Cascade
  /\ UNCHANGED <<up, supervisor, uploads, coll, digest, stores, job, retry,
                 loop, removing, history>>

\* The commit raises, or the database stays locked for too long.
CourseDeleteFails ==
  /\ up /\ courseCheck
  /\ courseCheck' = FALSE
  /\ UNCHANGED <<up, supervisor, course, uploads, db, stores, job, retry, loop,
                 removing, history>>

-----------------------------------------------------------------------------
(* The process stops at any point, and everything in memory with it.       *)

Crash ==
  /\ up /\ crashes < MaxCrashes
  /\ up' = FALSE /\ crashes' = crashes + 1
  /\ status' = [d \in Docs |-> IF loop = [op |-> "upload", doc |-> d]
                               THEN "gone" ELSE status[d]]
  /\ job' = [d \in Docs |-> [k \in Slots |-> Idle]]
  /\ retry' = [r \in Retriers |-> None]
  /\ loop' = None /\ removing' = {} /\ courseCheck' = FALSE /\ uploads' = {}
  /\ UNCHANGED <<supervisor, course, error, coll, digest, stores, purged, unread,
                 lost>>

\* Mutant of ResumeAll: nothing is resumed.
ResumeNone == [d \in Docs |-> [k \in Slots |-> Idle]]

\* lifespan: every document left in "processing" gets a job again.
ResumeAll ==
  [d \in Docs |-> [k \in Slots |->
     IF k = 1 /\ status[d] = "processing" THEN Scheduled ELSE Idle]]

Restart ==
  /\ ~up
  /\ up' = TRUE /\ supervisor' \in BOOLEAN
  /\ job' = ResumeAll /\ lost' = {}
  /\ UNCHANGED <<courses, db, stores, retry, loop, removing, purged, unread,
                 crashes>>

-----------------------------------------------------------------------------
JobStep(d, k) ==
  \/ JobBegins(d, k) \/ JobExtracts(d, k) \/ JobPurges(d, k)
  \/ JobUpserts(d, k) \/ JobAnswers(d, k) \/ JobRaises(d, k)
  \/ JobReady(d, k) \/ JobFailed(d, k) \/ JobLost(d, k)

HandlerStep(d) ==
  \/ UploadCommit(d) \/ UploadFails(d) \/ ExamRemoved(d)
  \/ DeleteCommit(d) \/ DeleteFails(d) \/ DeleteUnlink(d)

Next ==
  \/ \E d \in Docs : UploadChecks(d) \/ UploadRefused(d) \/ UploadWrite(d)
  \/ \E d \in Docs : DeleteSlides(d) \/ DeleteExam(d)
  \/ \E d \in Docs : HandlerStep(d)
  \/ \E d \in Docs, k \in Slots : JobStep(d, k)
  \/ \E r \in Retriers, d \in Docs : RetryChecks(r, d)
  \/ \E r \in Retriers, d \in Docs, k \in Slots : RetryCommits(r, d, k)
  \/ \E r \in Retriers : RetryFails(r)
  \/ CourseDeleteChecks \/ CourseDeleteCommits \/ CourseDeleteFails
  \/ Crash \/ Restart

Spec == Init /\ [][Next]_vars

(* A coroutine or a thread that can run does run.  The event loop takes    *)
(* what is ready in order: requests that hold it again and again do not    *)
(* keep a job from its turn, hence strong fairness.  That a process which  *)
(* has stopped is started again, or that a user sends anything, is never   *)
(* guaranteed.                                                             *)
Fairness ==
  /\ \A d \in Docs, k \in Slots : SF_vars(JobStep(d, k))
  /\ \A d \in Docs : WF_vars(HandlerStep(d))

FairSpec == Spec /\ Fairness

-----------------------------------------------------------------------------
(* Properties that hold however requests are interleaved.                  *)

\* upload_document refuses a file its course collection already has: two
\* live rows never share collection and digest, although no constraint of
\* the database says so.
NoDuplicateDocument ==
  \A d, e \in Docs :
    Live(d) /\ Live(e) /\ coll[d] = coll[e] /\ digest[d] = digest[e] => d = e

\* The file is written before its row is committed and unlinked after the
\* row is gone: whatever stops the process, a document a student can see has
\* its original file.
LiveHasFile == \A d \in Docs : Live(d) => d \in onDisk

\* Between the check and the commit of a deletion of the course an upload can
\* come, and one past its check of the course can come later still.  Whatever
\* the order, no document is left that belongs to no course: true where the
\* database enforces foreign keys, false where it does not.
NoOrphanRow == course = "gone" => \A d \in Docs : ~Live(d)

\* A job that outlives its document never brings the row back.
GoneStaysGone ==
  [][\A d \in Docs : status[d] = "gone" => status'[d] = "gone"]_vars

\* While the process is up, a document in "processing" has an ingestion that
\* is scheduled or under way, however many retries race and whatever fails:
\* only an error of the database can leave it without one.
ProcessingIsWorkedOn ==
  \A d \in Docs : up /\ status[d] = "processing" /\ d \notin lost
                  => \E k \in Slots : job[d][k].pc # "idle"

\* Whoever fails, races or restarts, no document stays in "processing" while
\* the process is up, unless an error of the database ended its ingestion.
ProcessingSettles ==
  \A d \in Docs :
    status[d] = "processing"
      ~> status[d] # "processing" \/ ~up \/ d \in lost

-----------------------------------------------------------------------------
(* Properties of a client that has one retry request under way at a time.  *)

\* Every ingestion of a document is over before the next one is scheduled.
OneJobPerDocument ==
  \A d \in Docs, k, l \in Slots :
    job[d][k].pc # "idle" /\ job[d][l].pc # "idle" => k = l

Searchable(d) == coll[d] = "slides" /\ HasText(d) => d \in indexed

\* A slide deck that is "ready" and has text can be searched, unless its text
\* could not be read when it was last ingested, or the student has asked for
\* its deletion.  No failure between the removal of its old chunks and the
\* writing of the new ones, no retry and no restart is such an exception.
ReadyIsSearchable ==
  \A d \in Docs : status[d] = "ready" /\ d \notin purged \cup unread
                  => Searchable(d)
=============================================================================
