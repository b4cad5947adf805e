---------------------- MODULE DocumentLifecycle_proofs ----------------------
(***************************************************************************)
(* Proofs about DocumentLifecycle for any documents, digests, retriers and *)
(* number of crashes: the types, and the promises that hold however        *)
(* requests interleave.                                                    *)
(***************************************************************************)
EXTENDS DocumentRefinement, TLAPS

\* The groups of variables that most actions leave alone.
USE DEF courses, history

\* Replacing or moving one job keeps the table of jobs typed.
LEMMA SetJobTyped ==
  ASSUME TypeOK, NEW d \in Docs, NEW k \in Slots, NEW j \in Job, SetJob(d, k, j)
  PROVE  job' \in [Docs -> [Slots -> Job]]
  BY DEF TypeOK, SetJob

\* Moving a job to another step keeps the table of jobs typed.
LEMMA MoveJobTyped ==
  ASSUME TypeOK, NEW d \in Docs, NEW k \in Slots, NEW pc \in Pc, MoveJob(d, k, pc)
  PROVE  job' \in [Docs -> [Slots -> Job]]
<1>1. job[d][k] \in Job
  BY DEF TypeOK
<1>2. [job[d][k] EXCEPT !.pc = pc] \in Job
  BY <1>1 DEF Job
<1> QED
  BY <1>2, SetJobTyped DEF MoveJob

\* The two jobs that are assigned as a whole are jobs.
LEMMA IdleTyped == Idle \in Job /\ Scheduled \in Job
  BY DEF Idle, Scheduled, Job, Pc

\* A commit that schedules an ingestion, or does not, keeps the types.
LEMMA SchedulesTyped ==
  ASSUME TypeOK, NEW d \in Docs, NEW k \in Slots, Schedules(d, k)
  PROVE  job' \in [Docs -> [Slots -> Job]] /\ lost' \subseteq Docs
<1>1. CASE SetJob(d, k, Scheduled) /\ lost' = lost \ {d}
  BY <1>1, SetJobTyped, IdleTyped DEF TypeOK
<1>2. CASE UNCHANGED job /\ lost' = lost \cup {d}
  BY <1>2 DEF TypeOK
<1> QED
  BY <1>1, <1>2 DEF Schedules

\* Every state the specification reaches has its types.
THEOREM Typing == Spec => []TypeOK
<1> USE DEF TypeOK, Collections, None
<1>1. Init => TypeOK
  <2> SUFFICES ASSUME Init PROVE TypeOK
    OBVIOUS
  <2>1. job \in [Docs -> [Slots -> Job]]
    BY IdleTyped DEF Init
  <2>2. crashes \in 0..MaxCrashes
    BY CrashesAssumption DEF Init, CrashesAssumption
  <2> QED
    BY <2>1, <2>2 DEF Init
<1>2. TypeOK /\ [Next]_vars => TypeOK'
  <2> SUFFICES ASSUME TypeOK, [Next]_vars PROVE TypeOK'
    OBVIOUS
  <2>1. ASSUME NEW d \in Docs, UploadWrite(d) PROVE TypeOK'
    BY <2>1 DEF UploadWrite, db
  <2>2. ASSUME NEW d \in Docs, UploadCommit(d) PROVE TypeOK'
    <3>1. job' \in [Docs -> [Slots -> Job]] /\ lost' \subseteq Docs
      BY <2>2, SchedulesTyped, SlotsAssumption DEF UploadCommit, SlotsAssumption
    <3> QED
      BY <2>2, <3>1 DEF UploadCommit, stores
  <2>3. ASSUME NEW d \in Docs, UploadFails(d) PROVE TypeOK'
    BY <2>3 DEF UploadFails, stores
  <2>4. ASSUME NEW d \in Docs, NEW k \in Slots, JobStep(d, k) PROVE TypeOK'
    <3> USE DEF db, stores
    <3>1. CASE JobBegins(d, k)
      <4> DEFINE taken == [pc |-> IF coll[d] = "slides" THEN "extracting"
                                  ELSE "asking",
                           seen |-> status[d], seenError |-> d \in error]
      <4>1. (d \in error) \in BOOLEAN
        OBVIOUS
      <4>2. Live(d) => taken \in Job
        BY <4>1 DEF Live, Job, Pc
      <4>3. SetJob(d, k, IF ~Live(d) THEN Idle ELSE taken)
        BY <3>1 DEF JobBegins
      <4>4. job' \in [Docs -> [Slots -> Job]]
        BY <4>2, <4>3, SetJobTyped, IdleTyped
      <4> QED
        BY <3>1, <4>4 DEF JobBegins
    <3>2. CASE JobExtracts(d, k)
      <4>1. job' \in [Docs -> [Slots -> Job]]
        BY <3>2, MoveJobTyped DEF JobExtracts, Pc
      <4>2. unread' \subseteq Docs
        BY <3>2 DEF JobExtracts
      <4> QED
        BY <3>2, <4>1, <4>2 DEF JobExtracts
    <3>3. CASE JobPurges(d, k)
      <4>1. job' \in [Docs -> [Slots -> Job]]
        BY <3>3, MoveJobTyped DEF JobPurges, Pc
      <4> QED
        BY <3>3, <4>1 DEF JobPurges
    <3>4. CASE JobUpserts(d, k)
      BY <3>4, MoveJobTyped DEF JobUpserts, Pc
    <3>5. CASE JobAnswers(d, k)
      BY <3>5, MoveJobTyped DEF JobAnswers, Pc
    <3>6. CASE JobRaises(d, k)
      BY <3>6, MoveJobTyped DEF JobRaises, Pc
    <3>7. CASE JobReady(d, k)
      <4>1. job' \in [Docs -> [Slots -> Job]]
        BY <3>7, SetJobTyped, IdleTyped DEF JobReady
      <4> QED
        BY <3>7, <4>1 DEF JobReady, WriteStatus
    <3>8. CASE JobFailed(d, k)
      <4>1. job' \in [Docs -> [Slots -> Job]]
        BY <3>8, SetJobTyped, IdleTyped DEF JobFailed
      <4> QED
        BY <3>8, <4>1 DEF JobFailed, WriteStatus
    <3>9. CASE JobLost(d, k)
      <4>1. job' \in [Docs -> [Slots -> Job]]
        BY <3>9, SetJobTyped, IdleTyped DEF JobLost
      <4> QED
        BY <3>9, <4>1 DEF JobLost
    <3> QED
      BY <2>4, <3>1, <3>2, <3>3, <3>4, <3>5, <3>6, <3>7, <3>8, <3>9 DEF JobStep
  <2>5. ASSUME NEW r \in Retriers, NEW d \in Docs, RetryChecks(r, d)
        PROVE  TypeOK'
    BY <2>5 DEF RetryChecks, db, stores
  <2>6. ASSUME NEW r \in Retriers, NEW d \in Docs, NEW k \in Slots,
               RetryCommits(r, d, k)
        PROVE  TypeOK'
    <3>1. job' \in [Docs -> [Slots -> Job]] /\ lost' \subseteq Docs
      BY <2>6, SchedulesTyped DEF RetryCommits
    <3> QED
      BY <2>6, <3>1 DEF RetryCommits, ErrorsAfterRetry, stores
  <2>7. ASSUME NEW d \in Docs, DeleteSlides(d) PROVE TypeOK'
    BY <2>7 DEF DeleteSlides, db
  <2>8. ASSUME NEW d \in Docs, DeleteExam(d) PROVE TypeOK'
    BY <2>8 DEF DeleteExam, db, stores
  <2>9. ASSUME NEW d \in Docs, ExamRemoved(d) PROVE TypeOK'
    BY <2>9 DEF ExamRemoved, db, stores
  <2>10. ASSUME NEW d \in Docs, DeleteCommit(d) PROVE TypeOK'
    BY <2>10 DEF DeleteCommit, stores
  <2>11. ASSUME NEW d \in Docs, DeleteUnlink(d) PROVE TypeOK'
    BY <2>11 DEF DeleteUnlink, db
  <2>12. CASE CourseDeleteChecks
    BY <2>12 DEF CourseDeleteChecks, db, stores
  <2>13. CASE CourseDeleteCommits
    BY <2>13 DEF CourseDeleteCommits, Cascade, stores
  <2>17. ASSUME NEW d \in Docs, UploadChecks(d) \/ UploadRefused(d) PROVE TypeOK'
    BY <2>17 DEF UploadChecks, UploadRefused, db, stores
  <2>18. ASSUME NEW r \in Retriers, RetryFails(r) PROVE TypeOK'
    BY <2>18 DEF RetryFails, db, stores
  <2>19. ASSUME NEW d \in Docs, DeleteFails(d) PROVE TypeOK'
    BY <2>19 DEF DeleteFails, db, stores
  <2>20. CASE CourseDeleteFails
    BY <2>20 DEF CourseDeleteFails, db, stores
  <2>14. CASE Crash
    <3>1. job' \in [Docs -> [Slots -> Job]]
      BY <2>14, IdleTyped DEF Crash
    <3>2. crashes' \in 0..MaxCrashes
      BY <2>14, CrashesAssumption DEF Crash, CrashesAssumption
    <3>3. /\ status' \in [Docs -> {"unused", "processing", "ready", "failed", "gone"}]
          /\ retry' \in [Retriers -> [doc : Docs] \cup {None}]
      BY <2>14 DEF Crash
    <3> QED
      BY <2>14, <3>1, <3>2, <3>3 DEF Crash, stores
  <2>15. CASE Restart
    BY <2>15, IdleTyped DEF Restart, ResumeAll, db, stores
  <2>16. CASE UNCHANGED vars
    BY <2>16 DEF vars, db, stores
  <2> QED
    BY <2>1, <2>2, <2>3, <2>4, <2>5, <2>6, <2>7, <2>8, <2>9, <2>10, <2>11,
       <2>12, <2>13, <2>14, <2>15, <2>16, <2>17, <2>18, <2>19, <2>20
       DEF Next, HandlerStep
<1> QED
  BY <1>1, <1>2, PTL DEF Spec

-----------------------------------------------------------------------------
(* The inductive invariant.  What the promises need besides themselves is  *)
(* about the two moments when the stores disagree: an upload whose row is  *)
(* not committed, and a deletion whose file is not unlinked.               *)

Uploading(d) == loop = [op |-> "upload", doc |-> d]
Unlinking(d) == loop = [op |-> "unlink", doc |-> d]

Promises ==
  /\ NoDuplicateDocument
  /\ LiveHasFile
  /\ \A d \in Docs :
       Uploading(d) => status[d] = "unused" /\ d \in onDisk /\ ~Duplicate(d)
  /\ \A d \in Docs : Unlinking(d) => status[d] = "gone"

\* What one step can do to one document, whichever action takes it.
DocStep(d) ==
  /\ coll' = coll /\ digest' = digest
  /\ \/ status'[d] = status[d]
     \/ Live(d) /\ status'[d] # "unused"
     \/ UploadCommit(d)
     \/ status'[d] = "gone" /\ ~Uploading(d)'
  /\ d \in onDisk /\ d \notin onDisk' => Unlinking(d)
  /\ Uploading(d)' => Uploading(d) \/ UploadWrite(d)
  /\ Unlinking(d)' => Unlinking(d) \/ DeleteCommit(d)
  /\ course' = "gone" =>
       course = "gone" \/ (~Uploading(d)' /\ (ForeignKeys => ~Live(d)'))

\* Every step of the specification does to a document what DocStep allows.
LEMMA Steps ==
  ASSUME TypeOK, [Next]_vars, NEW d \in Docs
  PROVE  DocStep(d)
<1> USE DEF TypeOK, Live, Uploading, Unlinking, None, DocStep
<1>1. ASSUME NEW e \in Docs, UploadWrite(e) PROVE DocStep(d)
  BY <1>1 DEF UploadWrite, db
<1>2. ASSUME NEW e \in Docs, UploadCommit(e) PROVE DocStep(d)
  BY <1>2 DEF UploadCommit, stores
<1>3. ASSUME NEW e \in Docs, UploadFails(e) PROVE DocStep(d)
  BY <1>3 DEF UploadFails, stores
<1>4. ASSUME NEW e \in Docs, NEW k \in Slots, JobStep(e, k) PROVE DocStep(d)
  <2>1. CASE JobBegins(e, k) \/ JobExtracts(e, k) \/ JobPurges(e, k)
             \/ JobUpserts(e, k) \/ JobAnswers(e, k) \/ JobRaises(e, k)
    BY <2>1 DEF JobBegins, JobExtracts, JobPurges, JobUpserts, JobAnswers,
                JobRaises, db, stores
  <2>2. CASE JobReady(e, k)
    BY <2>2 DEF JobReady, WriteStatus, stores
  <2>3. CASE JobFailed(e, k)
    BY <2>3 DEF JobFailed, WriteStatus, stores
  <2>4. CASE JobLost(e, k)
    BY <2>4 DEF JobLost, db, stores
  <2> QED
    BY <1>4, <2>1, <2>2, <2>3, <2>4 DEF JobStep
<1>5. ASSUME NEW r \in Retriers, NEW e \in Docs, RetryChecks(r, e)
      PROVE  DocStep(d)
  BY <1>5 DEF RetryChecks, db, stores
<1>6. ASSUME NEW r \in Retriers, NEW e \in Docs, NEW k \in Slots,
             RetryCommits(r, e, k)
      PROVE  DocStep(d)
  BY <1>6 DEF RetryCommits, stores
<1>7. ASSUME NEW e \in Docs, DeleteSlides(e) PROVE DocStep(d)
  BY <1>7 DEF DeleteSlides, db
<1>8. ASSUME NEW e \in Docs, DeleteExam(e) PROVE DocStep(d)
  BY <1>8 DEF DeleteExam, db, stores
<1>9. ASSUME NEW e \in Docs, ExamRemoved(e) PROVE DocStep(d)
  BY <1>9 DEF ExamRemoved, db, stores
<1>10. ASSUME NEW e \in Docs, DeleteCommit(e) PROVE DocStep(d)
  BY <1>10 DEF DeleteCommit, stores
<1>11. ASSUME NEW e \in Docs, DeleteUnlink(e) PROVE DocStep(d)
  BY <1>11 DEF DeleteUnlink, db
<1>12. CASE CourseDeleteChecks
  BY <1>12 DEF CourseDeleteChecks, db, stores
<1>13. CASE CourseDeleteCommits
  BY <1>13 DEF CourseDeleteCommits, Cascade, stores
<1>14. CASE Crash
  BY <1>14 DEF Crash, stores
<1>15. CASE Restart
  BY <1>15 DEF Restart, db, stores
<1>16. CASE UNCHANGED vars
  BY <1>16 DEF vars, db, stores
<1>17. ASSUME NEW e \in Docs, UploadChecks(e) \/ UploadRefused(e) PROVE DocStep(d)
  BY <1>17 DEF UploadChecks, UploadRefused, db, stores
<1>18. ASSUME NEW r \in Retriers, RetryFails(r) PROVE DocStep(d)
  BY <1>18 DEF RetryFails, db, stores
<1>19. ASSUME NEW e \in Docs, DeleteFails(e) PROVE DocStep(d)
  BY <1>19 DEF DeleteFails, db, stores
<1>20. CASE CourseDeleteFails
  BY <1>20 DEF CourseDeleteFails, db, stores
<1> QED
  BY <1>1, <1>2, <1>3, <1>4, <1>5, <1>6, <1>7, <1>8, <1>9, <1>10, <1>11,
     <1>12, <1>13, <1>14, <1>15, <1>16, <1>17, <1>18, <1>19, <1>20
     DEF Next, HandlerStep

\* A deleted document stays deleted in every step.
LEMMA GoneStays ==
  ASSUME TypeOK, Promises, [Next]_vars, NEW d \in Docs, status[d] = "gone"
  PROVE  status'[d] = "gone"
<1>1. ~UploadCommit(d)
  BY DEF Promises, UploadCommit, Uploading
<1> QED
  BY <1>1, Steps DEF DocStep, Live

\* Only a commit makes a document live, and only one that was uploading.
LEMMA LiveByCommit ==
  ASSUME TypeOK, Promises, [Next]_vars, NEW d \in Docs, Live(d)'
  PROVE  Live(d) \/ UploadCommit(d)
BY Steps DEF DocStep, Live

\* The promises are inductive, given the types.
LEMMA PromisesStep == TypeOK /\ Promises /\ [Next]_vars => Promises'
<1> SUFFICES ASSUME TypeOK, Promises, [Next]_vars PROVE Promises'
  OBVIOUS
<1>1. NoDuplicateDocument'
  <2> SUFFICES ASSUME NEW d \in Docs, NEW e \in Docs, Live(d)', Live(e)',
                      coll'[d] = coll'[e], digest'[d] = digest'[e]
               PROVE  d = e
    BY DEF NoDuplicateDocument
  <2>1. coll[d] = coll[e] /\ digest[d] = digest[e]
    BY Steps DEF DocStep
  <2>2. CASE Live(d) /\ Live(e)
    BY <2>1, <2>2 DEF Promises, NoDuplicateDocument
  <2>3. CASE UploadCommit(d) /\ UploadCommit(e)
    BY <2>3 DEF UploadCommit
  <2>4. ASSUME NEW x \in Docs, NEW y \in Docs, UploadCommit(x), Live(y),
               coll[x] = coll[y], digest[x] = digest[y]
        PROVE  FALSE
    BY <2>4 DEF UploadCommit, Uploading, Promises, Duplicate
  <2> QED
    BY <2>1, <2>2, <2>3, <2>4, LiveByCommit
<1>2. LiveHasFile'
  <2> SUFFICES ASSUME NEW d \in Docs, Live(d)' PROVE d \in onDisk'
    BY DEF LiveHasFile
  <2>1. d \in onDisk
    BY LiveByCommit DEF Promises, LiveHasFile, UploadCommit, Uploading
  <2>2. ~Unlinking(d)
    BY GoneStays DEF Promises, Live
  <2> QED
    BY <2>1, <2>2, Steps DEF DocStep
<1>3. ASSUME NEW d \in Docs, Uploading(d)'
      PROVE  (status[d] = "unused" /\ d \in onDisk /\ ~Duplicate(d))'
  <2>1. CASE UploadWrite(d)
    BY <2>1 DEF UploadWrite, Duplicate, Live, db
  <2>2. CASE Uploading(d) /\ ~UploadWrite(d)
    <3>1. status[d] = "unused" /\ d \in onDisk /\ ~Duplicate(d)
      BY <2>2 DEF Promises
    <3>2. \A e \in Docs : ~UploadCommit(e)
      BY <1>3 DEF UploadCommit, Uploading, None
    <3>3. status'[d] = "unused"
      BY <1>3, <3>1, <3>2, Steps DEF DocStep, Live
    <3>4. d \in onDisk'
      BY <2>2, <3>1, Steps DEF DocStep, Uploading, Unlinking
    <3>5. ~Duplicate(d)'
      BY <3>1, <3>2, LiveByCommit, Steps DEF DocStep, Duplicate
    <3> QED
      BY <3>3, <3>4, <3>5
  <2> QED
    BY <1>3, <2>1, <2>2, Steps DEF DocStep
<1>4. ASSUME NEW d \in Docs, Unlinking(d)'
      PROVE  status'[d] = "gone"
  <2>1. CASE Unlinking(d)
    BY <2>1, GoneStays DEF Promises
  <2>2. CASE DeleteCommit(d)
    BY <2>2 DEF DeleteCommit, TypeOK
  <2> QED
    BY <1>4, <2>1, <2>2, Steps DEF DocStep
<1> QED
  BY <1>1, <1>2, <1>3, <1>4 DEF Promises

\* The invariant of every state that the specification reaches.
LEMMA PromisesKept == Spec => []Promises
<1>1. Init => Promises
  BY DEF Init, Promises, NoDuplicateDocument, LiveHasFile, Live, Uploading,
         Unlinking, None
<1> QED
  BY <1>1, PromisesStep, Typing, PTL DEF Spec

\* upload_document: a collection never holds the same file twice.
THEOREM NoDuplicates == Spec => []NoDuplicateDocument
BY PromisesKept, PTL DEF Promises

\* upload_document and delete_document: a document that can be seen has its
\* file, wherever the process stopped.
THEOREM FilesKept == Spec => []LiveHasFile
BY PromisesKept, PTL DEF Promises

\* _process_document_ingest: no job that outlives its document revives it.
THEOREM NoRevival == Spec => GoneStaysGone
<1>1. TypeOK /\ Promises /\ [Next]_vars
        => [\A d \in Docs : status[d] = "gone" => status'[d] = "gone"]_vars
  BY GoneStays
<1> QED
  BY <1>1, Typing, PromisesKept, PTL DEF Spec, GoneStaysGone

-----------------------------------------------------------------------------
(* Where foreign keys are enforced, no document outlives its course: none  *)
(* is being written when the course goes, those written before go with it, *)
(* and none can be written afterwards.                                     *)

Orphanless ==
  course = "gone" => \A d \in Docs : ~Live(d) /\ ~Uploading(d)

\* No step revives a document of a course that is gone.
LEMMA OrphanlessStep ==
  ASSUME ForeignKeys, TypeOK, Promises, Orphanless, [Next]_vars
  PROVE  Orphanless'
<1> SUFFICES ASSUME course' = "gone", NEW d \in Docs
             PROVE  ~Live(d)' /\ ~Uploading(d)'
  BY DEF Orphanless
<1>1. CASE course = "gone"
  <2>1. ~Live(d) /\ ~Uploading(d)
    BY <1>1 DEF Orphanless
  <2>2. ~Live(d)'
    BY <2>1, LiveByCommit DEF UploadCommit, Uploading
  <2>3. ~Uploading(d)'
    BY <1>1, <2>1, Steps DEF DocStep, UploadWrite
  <2> QED
    BY <2>2, <2>3
<1>2. CASE course # "gone"
  BY <1>2, Steps DEF DocStep
<1> QED
  BY <1>1, <1>2

\* delete_course: on a database that enforces foreign keys, no document is left
\* without a course, however uploads race the deletion.
THEOREM NoOrphans ==
  ASSUME ForeignKeys
  PROVE  Spec => []NoOrphanRow
<1>1. Init => Orphanless
  BY DEF Init, Orphanless
<1>2. Orphanless => NoOrphanRow
  BY DEF Orphanless, NoOrphanRow
<1>3. TypeOK /\ Promises /\ Orphanless /\ [Next]_vars => Orphanless'
  BY OrphanlessStep
<1> QED
  BY <1>1, <1>2, <1>3, Typing, PromisesKept, PTL DEF Spec

-----------------------------------------------------------------------------
(* One retry request at a time: a document never has two ingestions.       *)

OneRetrier == \A r, s \in Retriers : r = s

\* A document has at most one ingestion or one retry request past its check,
\* and while it has, its status and what the ingestion has read and written
\* say how far that is.  Nothing works on a document that nobody sees yet.
Worked(d, k) ==
  /\ up /\ status[d] \in {"processing", "gone"}
  /\ job[d][k].pc # "idle"
  /\ job[d][k].pc # "scheduled" =>
       job[d][k].seen = "processing" /\ ~job[d][k].seenError
  /\ job[d][k].pc \in {"extracting", "emptying", "purging", "upserting",
                       "indexed"} => coll[d] = "slides"
  /\ job[d][k].pc \in {"asking", "answered"} => coll[d] = "past_exam"
  /\ job[d][k].pc \in {"purging", "upserting"} => HasText(d) /\ d \notin unread
  /\ job[d][k].pc = "emptying" /\ HasText(d) => d \in unread
  /\ job[d][k].pc = "indexed" /\ d \notin purged \cup unread => Searchable(d)

Orderly(d) ==
  /\ \A k, l \in Slots : job[d][k] # Idle /\ job[d][l] # Idle => k = l
  /\ \A k \in Slots : job[d][k] # Idle => Worked(d, k)
  /\ \A r \in Retriers : retry[r] = [doc |-> d] =>
       /\ up /\ status[d] \in {"failed", "gone"}
       /\ \A k \in Slots : job[d][k] = Idle
  /\ d \in error => status[d] = "failed"
  /\ status[d] = "ready" /\ d \notin purged \cup unread => Searchable(d)

AllOrderly == \A d \in Docs : Orderly(d)

\* What a step leaves alone that is not about document d.
Untouched(d) ==
  /\ up' = up /\ coll' = coll /\ digest' = digest
  /\ status'[d] = status[d] /\ job'[d] = job[d]
  /\ d \in error' <=> d \in error
  /\ d \in indexed' <=> d \in indexed
  /\ d \in purged' <=> d \in purged
  /\ d \in unread' <=> d \in unread
  /\ d \in lost' <=> d \in lost
  /\ \A r \in Retriers : retry'[r] = [doc |-> d] => retry[r] = [doc |-> d]

\* A document no step touches stays in order.
LEMMA UntouchedOrderly ==
  ASSUME NEW d \in Docs, Orderly(d), Untouched(d)
  PROVE  Orderly(d)'
<1>1. /\ HasText(d)' <=> HasText(d)
      /\ Searchable(d)' <=> Searchable(d)
  BY DEF Untouched, HasText, Searchable
<1>2. ASSUME NEW k \in Slots, job'[d][k] # Idle PROVE Worked(d, k)'
  BY <1>1, <1>2 DEF Untouched, Orderly, Worked
<1>3. ASSUME NEW r \in Retriers, retry'[r] = [doc |-> d]
      PROVE  /\ up' /\ status'[d] \in {"failed", "gone"}
             /\ \A k \in Slots : job'[d][k] = Idle
  BY <1>3 DEF Untouched, Orderly
<1>4. \A k, l \in Slots : job'[d][k] # Idle /\ job'[d][l] # Idle => k = l
  BY DEF Untouched, Orderly
<1> QED
  BY <1>1, <1>2, <1>3, <1>4 DEF Untouched, Orderly

\* A job that is set is the only one that changes.
LEMMA SetsJob ==
  ASSUME TypeOK, NEW d \in Docs, NEW k \in Slots, NEW j, SetJob(d, k, j)
  PROVE  /\ job'[d][k] = j
         /\ \A l \in Slots \ {k} : job'[d][l] = job[d][l]
         /\ \A e \in Docs \ {d} : job'[e] = job[e]
BY DEF SetJob, TypeOK

\* A job that moves keeps the row it read.
LEMMA MovesJob ==
  ASSUME TypeOK, NEW d \in Docs, NEW k \in Slots, NEW pc, MoveJob(d, k, pc)
  PROVE  /\ job'[d][k].pc = pc
         /\ job'[d][k].seen = job[d][k].seen
         /\ job'[d][k].seenError = job[d][k].seenError
         /\ \A l \in Slots \ {k} : job'[d][l] = job[d][l]
         /\ \A e \in Docs \ {d} : job'[e] = job[e]
<1>1. job'[d][k] = [job[d][k] EXCEPT !.pc = pc]
  BY SetsJob DEF MoveJob
<1>2. job[d][k] \in Job
  BY DEF TypeOK
<1> QED
  BY <1>1, <1>2, SetsJob DEF MoveJob, Job

\* A commit that schedules an ingestion, or does not, is about one document.
LEMMA SchedulesOne ==
  ASSUME TypeOK, NEW d \in Docs, NEW k \in Slots, Schedules(d, k)
  PROVE  /\ \/ job'[d][k] = Scheduled /\ d \notin lost'
            \/ job'[d][k] = job[d][k] /\ d \in lost'
         /\ \A l \in Slots \ {k} : job'[d][l] = job[d][l]
         /\ \A e \in Docs \ {d} : job'[e] = job[e] /\ (e \in lost' <=> e \in lost)
<1>1. CASE SetJob(d, k, Scheduled) /\ lost' = lost \ {d}
  BY <1>1, SetsJob
<1>2. CASE UNCHANGED job /\ lost' = lost \cup {d}
  BY <1>2
<1> QED
  BY <1>1, <1>2 DEF Schedules

\* A step of the only ingestion of a document keeps it in order, if what the
\* step leaves is over or fits the status.
LEMMA OneSlot ==
  ASSUME NEW d \in Docs, NEW k \in Slots, Orderly(d), job[d][k] # Idle,
         \A l \in Slots \ {k} : job'[d][l] = job[d][l],
         UNCHANGED retry,
         job'[d][k] = Idle \/ Worked(d, k)',
         d \in error' => status'[d] = "failed",
         (status[d] = "ready" /\ d \notin purged \cup unread => Searchable(d))'
  PROVE  Orderly(d)'
<1>1. \A l \in Slots \ {k} : job'[d][l] = Idle
  BY DEF Orderly
<1>2. \A r \in Retriers : retry'[r] # [doc |-> d]
  BY DEF Orderly
<1>3. \A l \in Slots : job'[d][l] # Idle => l = k /\ Worked(d, l)'
  BY <1>1
<1> QED
  BY <1>1, <1>2, <1>3 DEF Orderly

\* The steps that touch document d.
Touches(d) ==
  \/ UploadCommit(d) \/ UploadFails(d) \/ DeleteSlides(d) \/ DeleteCommit(d)
  \/ \E k \in Slots : JobStep(d, k)
  \/ \E r \in Retriers : RetryChecks(r, d)
  \/ \E r \in Retriers, k \in Slots : RetryCommits(r, d, k)
  \/ CourseDeleteCommits \/ Crash \/ Restart

\* Every other step leaves the document as it is.
LEMMA Touched ==
  ASSUME TypeOK, [Next]_vars, NEW d \in Docs
  PROVE  Untouched(d) \/ Touches(d)
<1> SUFFICES ASSUME ~Touches(d) PROVE Untouched(d)
  OBVIOUS
<1> USE DEF Touches, Untouched
<1>1. ASSUME NEW e \in Docs, UploadWrite(e) PROVE Untouched(d)
  BY <1>1 DEF UploadWrite, db
<1>2. ASSUME NEW e \in Docs, UploadCommit(e) PROVE Untouched(d)
  <2>1. d # e
    BY <1>2
  <2>2. job'[d] = job[d] /\ (d \in lost' <=> d \in lost)
    BY <1>2, <2>1, SchedulesOne, SlotsAssumption DEF UploadCommit, SlotsAssumption
  <2> QED
    BY <1>2, <2>1, <2>2 DEF UploadCommit, stores, TypeOK
<1>3. ASSUME NEW e \in Docs, UploadFails(e) PROVE Untouched(d)
  BY <1>3 DEF UploadFails, stores, TypeOK
<1>4. ASSUME NEW e \in Docs, NEW k \in Slots, JobStep(e, k) PROVE Untouched(d)
  <2>0. d # e
    BY <1>4
  <2>1. CASE JobBegins(e, k)
    BY <2>0, <2>1, SetsJob DEF JobBegins, db, stores
  <2>2. CASE JobAnswers(e, k) \/ JobRaises(e, k)
    BY <2>0, <2>2, MovesJob DEF JobAnswers, JobRaises, db, stores
  <2>7. CASE JobExtracts(e, k)
    <3>1. job'[d] = job[d]
      BY <2>0, <2>7, MovesJob DEF JobExtracts
    <3>2. d \in unread' <=> d \in unread
      BY <2>0, <2>7 DEF JobExtracts
    <3> QED
      BY <2>7, <3>1, <3>2 DEF JobExtracts, db, stores
  <2>8. CASE JobLost(e, k)
    <3>1. job'[d] = job[d]
      BY <2>0, <2>8, SetsJob DEF JobLost
    <3>2. d \in lost' <=> d \in lost
      BY <2>0, <2>8 DEF JobLost
    <3> QED
      BY <2>8, <3>1, <3>2 DEF JobLost, db, stores
  <2>3. CASE JobPurges(e, k)
    <3>1. job'[d] = job[d]
      BY <2>0, <2>3, MovesJob DEF JobPurges
    <3> QED
      BY <2>0, <2>3, <3>1 DEF JobPurges, db
  <2>4. CASE JobUpserts(e, k)
    <3>1. job'[d] = job[d]
      BY <2>0, <2>4, MovesJob DEF JobUpserts
    <3> QED
      BY <2>0, <2>4, <3>1 DEF JobUpserts, db
  <2>5. CASE JobReady(e, k)
    <3>1. job'[d] = job[d]
      BY <2>0, <2>5, SetsJob DEF JobReady
    <3>2. status'[d] = status[d] /\ (d \in error' <=> d \in error)
      BY <2>0, <2>5 DEF JobReady, WriteStatus, TypeOK
    <3> QED
      BY <2>5, <3>1, <3>2 DEF JobReady, stores
  <2>6. CASE JobFailed(e, k)
    <3>1. job'[d] = job[d]
      BY <2>0, <2>6, SetsJob DEF JobFailed
    <3>2. status'[d] = status[d] /\ (d \in error' <=> d \in error)
      BY <2>0, <2>6 DEF JobFailed, WriteStatus, TypeOK
    <3> QED
      BY <2>6, <3>1, <3>2 DEF JobFailed, stores
  <2> QED
    BY <1>4, <2>1, <2>2, <2>3, <2>4, <2>5, <2>6, <2>7, <2>8 DEF JobStep
<1>5. ASSUME NEW r \in Retriers, NEW e \in Docs, RetryChecks(r, e)
      PROVE  Untouched(d)
  <2>1. d # e
    BY <1>5
  <2>2. \A q \in Retriers : retry'[q] = [doc |-> d] => retry[q] = [doc |-> d]
    <3>1. retry' = [retry EXCEPT ![r] = [doc |-> e]]
      BY <1>5 DEF RetryChecks
    <3>2. [doc |-> e] # [doc |-> d]
      BY <2>1
    <3> QED
      BY <3>1, <3>2 DEF TypeOK
  <2> QED
    BY <1>5, <2>2 DEF RetryChecks, db, stores
<1>6. ASSUME NEW r \in Retriers, NEW e \in Docs, NEW k \in Slots,
             RetryCommits(r, e, k)
      PROVE  Untouched(d)
  <2>1. d # e
    BY <1>6
  <2>2. \A q \in Retriers : retry'[q] = [doc |-> d] => retry[q] = [doc |-> d]
    BY <1>6 DEF RetryCommits, TypeOK, None
  <2>3. job'[d] = job[d] /\ (d \in lost' <=> d \in lost)
    BY <1>6, <2>1, SchedulesOne DEF RetryCommits
  <2>4. status'[d] = status[d] /\ (d \in error' <=> d \in error)
    BY <1>6, <2>1 DEF RetryCommits, ErrorsAfterRetry, TypeOK
  <2> QED
    BY <1>6, <2>2, <2>3, <2>4 DEF RetryCommits, stores
<1>7. ASSUME NEW e \in Docs, DeleteSlides(e) PROVE Untouched(d)
  BY <1>7 DEF DeleteSlides, db
<1>8. ASSUME NEW e \in Docs, DeleteExam(e) PROVE Untouched(d)
  BY <1>8 DEF DeleteExam, db, stores
<1>9. ASSUME NEW e \in Docs, ExamRemoved(e) PROVE Untouched(d)
  BY <1>9 DEF ExamRemoved, db, stores
<1>10. ASSUME NEW e \in Docs, DeleteCommit(e) PROVE Untouched(d)
  BY <1>10 DEF DeleteCommit, stores, TypeOK
<1>11. ASSUME NEW e \in Docs, DeleteUnlink(e) PROVE Untouched(d)
  BY <1>11 DEF DeleteUnlink, db
<1>12. CASE CourseDeleteChecks
  BY <1>12 DEF CourseDeleteChecks, db, stores
<1>13. CASE UNCHANGED vars
  BY <1>13 DEF vars, db, stores
<1>14. ASSUME NEW e \in Docs, UploadChecks(e) \/ UploadRefused(e)
       PROVE  Untouched(d)
  BY <1>14 DEF UploadChecks, UploadRefused, db, stores
<1>15. ASSUME NEW r \in Retriers, RetryFails(r) PROVE Untouched(d)
  <2>1. \A q \in Retriers : retry'[q] = [doc |-> d] => retry[q] = [doc |-> d]
    BY <1>15 DEF RetryFails, TypeOK, None
  <2> QED
    BY <1>15, <2>1 DEF RetryFails, db, stores
<1>16. ASSUME NEW e \in Docs, DeleteFails(e) PROVE Untouched(d)
  BY <1>16 DEF DeleteFails, db, stores
<1>17. CASE CourseDeleteFails
  BY <1>17 DEF CourseDeleteFails, db, stores
<1> QED
  BY <1>1, <1>2, <1>3, <1>4, <1>5, <1>6, <1>7, <1>8, <1>9, <1>10, <1>11,
     <1>12, <1>13, <1>14, <1>15, <1>16, <1>17 DEF Next, HandlerStep

\* A step of an ingestion keeps its document in order.
LEMMA JobOrderly ==
  ASSUME TypeOK, NEW d \in Docs, NEW k \in Slots, Orderly(d), JobStep(d, k)
  PROVE  /\ job[d][k] # Idle /\ Worked(d, k)
         /\ Orderly(d)'
<1>0. job[d][k] # Idle
  BY DEF JobStep, JobBegins, JobExtracts, JobPurges, JobUpserts, JobAnswers,
         JobRaises, JobReady, JobFailed, JobLost, AtPc, Idle
<1>w. Worked(d, k)
  BY <1>0 DEF Orderly
<1>e. d \in error => status[d] = "failed"
  BY DEF Orderly
<1>n. d \notin error /\ status[d] # "ready"
  BY <1>w, <1>e DEF Worked
<1>s. /\ UNCHANGED digest => (HasText(d)' <=> HasText(d))
      /\ UNCHANGED <<coll, digest, indexed>> => (Searchable(d)' <=> Searchable(d))
  BY DEF HasText, Searchable
<1>1. CASE JobBegins(d, k)
  <2>1. /\ UNCHANGED <<up, status, error, coll, digest, indexed, retry, purged>>
        /\ \A l \in Slots \ {k} : job'[d][l] = job[d][l]
        /\ job'[d][k] = IF ~Live(d) THEN Idle
                        ELSE [pc |-> IF coll[d] = "slides" THEN "extracting"
                                     ELSE "asking",
                              seen |-> status[d], seenError |-> d \in error]
    BY <1>1, SetsJob DEF JobBegins, db, stores
  <2>2. Live(d) => status[d] = "processing"
    BY <1>w DEF Worked, Live
  <2>3. coll[d] \in {"slides", "past_exam"}
    BY DEF TypeOK, Collections
  <2>4. ASSUME Live(d) PROVE Worked(d, k)'
    <3>1. /\ job'[d][k].pc = IF coll[d] = "slides" THEN "extracting" ELSE "asking"
          /\ job'[d][k].seen = "processing"
          /\ job'[d][k].seenError = (d \in error)
      BY <2>1, <2>2, <2>4
    <3>2. ~job'[d][k].seenError
      BY <3>1, <1>n
    <3> QED
      BY <2>1, <2>3, <3>1, <3>2, <1>w DEF Worked
  <2> QED
    BY <1>0, <1>n, <1>w, <2>1, <2>4, OneSlot
<1>2. CASE JobExtracts(d, k)
  <2>1. PICK read \in BOOLEAN :
          /\ read => HasText(d)
          /\ MoveJob(d, k, IF read THEN "purging" ELSE "emptying")
          /\ unread' = IF HasText(d) /\ ~read THEN unread \cup {d}
                       ELSE unread \ {d}
    BY <1>2 DEF JobExtracts
  <2>2. /\ job'[d][k].pc = IF read THEN "purging" ELSE "emptying"
        /\ job'[d][k].seen = job[d][k].seen
        /\ job'[d][k].seenError = job[d][k].seenError
        /\ \A l \in Slots \ {k} : job'[d][l] = job[d][l]
    BY <2>1, MovesJob
  <2>3. job[d][k].pc = "extracting" /\ UNCHANGED <<up, db, retry>>
    BY <1>2 DEF JobExtracts, AtPc
  <2>4. Worked(d, k)'
    BY <1>s, <1>w, <2>1, <2>2, <2>3 DEF Worked, db
  <2> QED
    BY <1>0, <1>n, <1>w, <2>2, <2>3, <2>4, OneSlot DEF db, Worked
<1>3. CASE JobPurges(d, k)
  <2>1. Worked(d, k)'
    <3>1. /\ job'[d][k].pc = IF job[d][k].pc = "purging" THEN "upserting"
                              ELSE "indexed"
          /\ job'[d][k].seen = job[d][k].seen
          /\ job'[d][k].seenError = job[d][k].seenError
      BY <1>3, MovesJob DEF JobPurges
    <3>2. job[d][k].pc = "emptying" => ~HasText(d) \/ d \in unread
      BY <1>w DEF Worked
    <3> QED
      BY <1>3, <1>s, <1>w, <3>1, <3>2 DEF JobPurges, Worked, Searchable, db
  <2>2. \A l \in Slots \ {k} : job'[d][l] = job[d][l]
    BY <1>3, MovesJob DEF JobPurges
  <2> QED
    BY <1>0, <1>3, <1>n, <1>s, <1>w, <2>1, <2>2, OneSlot DEF JobPurges, db
<1>4. CASE JobUpserts(d, k)
  <2>1. Worked(d, k)'
    <3>1. /\ job'[d][k].pc = "indexed"
          /\ job'[d][k].seen = job[d][k].seen
          /\ job'[d][k].seenError = job[d][k].seenError
      BY <1>4, MovesJob DEF JobUpserts
    <3> QED
      BY <1>4, <1>s, <1>w, <3>1 DEF JobUpserts, AtPc, Worked, Searchable, db
  <2>2. \A l \in Slots \ {k} : job'[d][l] = job[d][l]
    BY <1>4, MovesJob DEF JobUpserts
  <2> QED
    BY <1>0, <1>4, <1>n, <1>s, <1>w, <2>1, <2>2, OneSlot DEF JobUpserts, db
<1>5. CASE JobAnswers(d, k)
  <2>1. Worked(d, k)'
    BY <1>5, <1>s, <1>w, MovesJob DEF JobAnswers, AtPc, Worked, db, stores
  <2> QED
    BY <1>0, <1>5, <1>n, <1>w, <2>1, MovesJob, OneSlot DEF JobAnswers, db, stores
<1>6. CASE JobRaises(d, k)
  <2>1. Worked(d, k)'
    BY <1>6, <1>s, <1>w, MovesJob DEF JobRaises, Worked, db, stores
  <2> QED
    BY <1>0, <1>6, <1>n, <1>w, <2>1, MovesJob, OneSlot DEF JobRaises, db, stores
<1>7. CASE JobReady(d, k)
  <2>1. /\ job'[d][k] = Idle
        /\ \A l \in Slots \ {k} : job'[d][l] = job[d][l]
    BY <1>7, SetsJob DEF JobReady
  <2>2. d \notin error'
    BY <1>7, <1>n DEF JobReady, WriteStatus
  <2>3. d \notin purged \cup unread => Searchable(d)
    BY <1>7, <1>w DEF JobReady, Worked, Searchable
  <2> QED
    BY <1>0, <1>7, <1>s, <1>w, <2>1, <2>2, <2>3, OneSlot DEF JobReady, stores
<1>8. CASE JobFailed(d, k)
  <2>1. /\ job'[d][k] = Idle
        /\ \A l \in Slots \ {k} : job'[d][l] = job[d][l]
    BY <1>8, SetsJob DEF JobFailed
  <2>2. \/ status'[d] = "failed"
        \/ status'[d] = status[d] /\ d \notin error'
    BY <1>8, <1>n, <1>w DEF JobFailed, WriteStatus, Worked, AtPc, TypeOK
  <2> QED
    BY <1>0, <1>8, <1>n, <1>s, <1>w, <2>1, <2>2, OneSlot DEF JobFailed, stores
<1>9. CASE JobLost(d, k)
  <2>1. /\ job'[d][k] = Idle
        /\ \A l \in Slots \ {k} : job'[d][l] = job[d][l]
    BY <1>9, SetsJob DEF JobLost
  <2>2. UNCHANGED <<retry, status, error>>
    BY <1>9 DEF JobLost, db
  <2> QED
    BY <1>0, <1>n, <1>s, <1>w, <2>1, <2>2, OneSlot
<1> QED
  BY <1>0, <1>w, <1>1, <1>2, <1>3, <1>4, <1>5, <1>6, <1>7, <1>8, <1>9 DEF JobStep

\* With one retry request at a time, every step keeps every document in order.
LEMMA OrderlyStep ==
  ASSUME OneRetrier, TypeOK, Promises, AllOrderly, [Next]_vars
  PROVE  AllOrderly'
<1> SUFFICES ASSUME NEW d \in Docs PROVE Orderly(d)'
  BY DEF AllOrderly
<1>o. Orderly(d)
  BY DEF AllOrderly
<1>u. Uploading(d) => status[d] = "unused"
  BY DEF Promises
<1>i. Idle.pc = "idle" /\ Scheduled.pc = "scheduled" /\ Scheduled # Idle
  BY DEF Idle, Scheduled
\* A document that neither a job nor a retry request works on.
<1>f. ASSUME \A k \in Slots : job'[d][k] = Idle,
             \A r \in Retriers : retry'[r] # [doc |-> d],
             d \in error' => status'[d] = "failed",
             (status[d] = "ready" /\ d \notin purged \cup unread => Searchable(d))'
      PROVE  Orderly(d)'
  BY <1>f DEF Orderly
\* A document whose only job is about to begin.
<1>g. ASSUME NEW k \in Slots, up', status'[d] = "processing", d \notin error',
             \A l \in Slots : job'[d][l] = Idle \/ (l = k /\ job'[d][l] = Scheduled),
             \A r \in Retriers : retry'[r] # [doc |-> d]
      PROVE  Orderly(d)'
  <2>1. job'[d][k] # Idle => Worked(d, k)'
    BY <1>g, <1>i DEF Worked
  <2> QED
    BY <1>g, <1>i, <2>1 DEF Orderly
<1>1. CASE Untouched(d)
  BY <1>1, <1>o, UntouchedOrderly
<1>2. CASE UploadCommit(d)
  <2>1. status[d] = "unused"
    BY <1>2, <1>u DEF UploadCommit, Uploading
  <2>2. /\ \A k \in Slots : job[d][k] = Idle
        /\ \A r \in Retriers : retry[r] # [doc |-> d]
        /\ d \notin error
    BY <1>o, <2>1 DEF Orderly, Worked
  <2>4. \A l \in Slots : job'[d][l] = Idle \/ (l = 1 /\ job'[d][l] = Scheduled)
    BY <1>2, <2>2, SchedulesOne, SlotsAssumption DEF UploadCommit, SlotsAssumption
  <2>5. up' /\ status'[d] = "processing" /\ retry' = retry /\ error' = error
    BY <1>2 DEF UploadCommit, TypeOK
  <2> QED
    BY <1>g, <2>2, <2>4, <2>5, SlotsAssumption DEF SlotsAssumption
<1>3. CASE UploadFails(d)
  <2>1. status[d] = "unused"
    BY <1>3, <1>u DEF UploadFails, Uploading
  <2>2. /\ \A k \in Slots : job[d][k] = Idle
        /\ \A r \in Retriers : retry[r] # [doc |-> d]
        /\ d \notin error
    BY <1>o, <2>1 DEF Orderly, Worked
  <2>3. status'[d] = "gone" /\ UNCHANGED <<job, retry, error>>
    BY <1>3 DEF UploadFails, TypeOK
  <2> QED
    BY <1>f, <2>2, <2>3
<1>4. CASE DeleteSlides(d)
  <2>1. /\ UNCHANGED <<up, status, error, coll, digest, job, retry, unread>>
        /\ d \in purged'
    BY <1>4 DEF DeleteSlides, db
  <2>2. ASSUME NEW k \in Slots, job'[d][k] # Idle PROVE Worked(d, k)'
    <3>1. HasText(d)' <=> HasText(d)
      BY <2>1 DEF HasText
    <3> QED
      BY <1>o, <2>1, <2>2, <3>1 DEF Orderly, Worked
  <2> QED
    BY <1>o, <2>1, <2>2 DEF Orderly
<1>5. ASSUME UNCHANGED <<up, coll, digest, job, retry, indexed, purged, unread>>,
             status'[d] = "gone", d \notin error'
      PROVE  Orderly(d)'
  <2>1. ASSUME NEW k \in Slots, job'[d][k] # Idle PROVE Worked(d, k)'
    <3>1. (HasText(d)' <=> HasText(d)) /\ (Searchable(d)' <=> Searchable(d))
      BY <1>5 DEF HasText, Searchable
    <3> QED
      BY <1>o, <1>5, <2>1, <3>1 DEF Orderly, Worked
  <2> QED
    BY <1>o, <1>5, <2>1 DEF Orderly
<1>6. CASE DeleteCommit(d)
  BY <1>5, <1>6 DEF DeleteCommit, stores, TypeOK
<1>7. CASE CourseDeleteCommits
  <2>1. CASE Live(d) /\ ForeignKeys
    BY <1>5, <1>7, <2>1 DEF CourseDeleteCommits, Cascade, stores
  <2>2. CASE ~(Live(d) /\ ForeignKeys)
    <3>1. ~Live(d) => d \notin error
      BY <1>o DEF Orderly, Live
    <3> QED
      BY <1>7, <1>o, <2>2, <3>1, UntouchedOrderly
         DEF CourseDeleteCommits, Cascade, stores, Untouched
  <2> QED
    BY <2>1, <2>2
<1>8. ASSUME NEW k \in Slots, JobStep(d, k) PROVE Orderly(d)'
  BY <1>8, <1>o, JobOrderly
<1>9. ASSUME NEW r \in Retriers, RetryChecks(r, d) PROVE Orderly(d)'
  <2>1. status[d] = "failed" /\ up
    BY <1>9 DEF RetryChecks, Retriable
  <2>2. \A k \in Slots : job[d][k] = Idle
    BY <1>o, <2>1 DEF Orderly, Worked
  <2> QED
    BY <1>9, <1>o, <2>1, <2>2 DEF RetryChecks, Orderly, db, stores
<1>10. ASSUME NEW r \in Retriers, NEW k \in Slots, RetryCommits(r, d, k)
       PROVE  Orderly(d)'
  <2>1. up /\ retry[r] = [doc |-> d]
    BY <1>10 DEF RetryCommits
  <2>2. status[d] \in {"failed", "gone"} /\ \A l \in Slots : job[d][l] = Idle
    BY <1>o, <2>1 DEF Orderly
  <2>3. \A q \in Retriers : retry'[q] # [doc |-> d]
    BY <1>10 DEF RetryCommits, OneRetrier, TypeOK, None
  <2>4. CASE Live(d)
    <3>1. \A l \in Slots : job'[d][l] = Idle \/ (l = k /\ job'[d][l] = Scheduled)
      BY <1>10, <2>2, <2>4, SchedulesOne DEF RetryCommits
    <3>2. up' /\ status'[d] = "processing" /\ d \notin error'
      BY <1>10, <2>1, <2>4 DEF RetryCommits, ErrorsAfterRetry, TypeOK
    <3> QED
      BY <1>g, <2>3, <3>1, <3>2
  <2>5. CASE ~Live(d)
    <3>1. UNCHANGED <<status, error, job>>
      BY <1>10, <2>5 DEF RetryCommits
    <3>2. status[d] = "gone" /\ d \notin error
      BY <1>o, <2>2, <2>5 DEF Orderly, Live
    <3> QED
      BY <1>f, <2>2, <2>3, <3>1, <3>2
  <2> QED
    BY <2>4, <2>5
<1>11. CASE Crash
  <2>1. /\ \A k \in Slots : job'[d][k] = Idle
        /\ \A r \in Retriers : retry'[r] # [doc |-> d]
    BY <1>11 DEF Crash, None
  <2>2. /\ UNCHANGED <<error, coll, digest, indexed, purged, unread>>
        /\ \/ status'[d] = status[d]
           \/ status'[d] = "gone" /\ status[d] = "unused"
    BY <1>11, <1>u DEF Crash, stores, Uploading
  <2>3. (status[d] = "ready" /\ d \notin purged \cup unread => Searchable(d))'
    BY <1>o, <2>2 DEF Orderly, Searchable, HasText
  <2>4. d \in error' => status'[d] = "failed"
    BY <1>o, <2>2 DEF Orderly
  <2> QED
    BY <1>f, <2>1, <2>3, <2>4
<1>12. CASE Restart
  <2>1. /\ up' /\ UNCHANGED <<status, error, coll, digest, indexed, purged, unread,
                              retry>>
        /\ \A r \in Retriers : retry[r] # [doc |-> d]
    BY <1>12, <1>o DEF Restart, db, stores, Orderly
  <2>2. CASE status[d] = "processing"
    <3>1. \A l \in Slots : job'[d][l] = Idle \/ (l = 1 /\ job'[d][l] = Scheduled)
      BY <1>12, <2>2 DEF Restart, ResumeAll
    <3>2. d \notin error
      BY <1>o, <2>2 DEF Orderly
    <3> QED
      BY <1>g, <2>1, <2>2, <3>1, <3>2, SlotsAssumption DEF SlotsAssumption
  <2>3. CASE status[d] # "processing"
    <3>1. \A l \in Slots : job'[d][l] = Idle
      BY <1>12, <2>3 DEF Restart, ResumeAll
    <3>2. (status[d] = "ready" /\ d \notin purged \cup unread => Searchable(d))'
      BY <1>o, <2>1 DEF Orderly, Searchable, HasText
    <3>3. d \in error' => status'[d] = "failed"
      BY <1>o, <2>1 DEF Orderly
    <3> QED
      BY <1>f, <2>1, <3>1, <3>2, <3>3
  <2> QED
    BY <2>2, <2>3
<1> QED
  BY <1>1, <1>2, <1>3, <1>4, <1>6, <1>7, <1>8, <1>9, <1>10, <1>11, <1>12, Touched
     DEF Touches

\* The order of every state that the specification reaches.
LEMMA OrderlyAlways ==
  ASSUME OneRetrier
  PROVE  Spec => []AllOrderly
<1>1. Init => AllOrderly
  BY DEF Init, AllOrderly, Orderly, None
<1>2. TypeOK /\ Promises /\ AllOrderly /\ [Next]_vars => AllOrderly'
  BY OrderlyStep
<1> QED
  BY <1>1, <1>2, Typing, PromisesKept, PTL DEF Spec

\* upload, retry and lifespan: with one retry request at a time, no ingestion
\* of a document is scheduled before the last one is over.
THEOREM OneIngestion ==
  ASSUME OneRetrier
  PROVE  Spec => []OneJobPerDocument
<1>1. AllOrderly => OneJobPerDocument
  <2>1. Idle.pc = "idle"
    BY DEF Idle
  <2> SUFFICES ASSUME AllOrderly, NEW d \in Docs, NEW k \in Slots, NEW l \in Slots,
                      job[d][k].pc # "idle", job[d][l].pc # "idle"
               PROVE  k = l
    BY DEF OneJobPerDocument
  <2> QED
    BY <2>1 DEF AllOrderly, Orderly
<1> QED
  BY <1>1, OrderlyAlways, PTL

\* _process_document_ingest and delete_document: with one retry request at a
\* time, a slide deck that is ready and whose text could be read is in the
\* index, through failures, retries and restarts, until its deletion is asked
\* for.
THEOREM ReadyMeansSearchable ==
  ASSUME OneRetrier
  PROVE  Spec => []ReadyIsSearchable
<1>1. AllOrderly => ReadyIsSearchable
  BY DEF AllOrderly, Orderly, ReadyIsSearchable
<1> QED
  BY <1>1, OrderlyAlways, PTL

-----------------------------------------------------------------------------
(* A document in "processing" has an ingestion that will settle it: one    *)
(* that has not begun, or one that saw it in "processing".                 *)

Serves(d, k) ==
  \/ job[d][k].pc = "scheduled"
  \/ job[d][k].pc # "idle" /\ job[d][k].seen = "processing"

Served(d) ==
  up /\ status[d] = "processing" /\ d \notin lost => \E k \in Slots : Serves(d, k)

\* An ingestion keeps its document served, or settles it, or is lost.
LEMMA JobServes ==
  ASSUME TypeOK, NEW d \in Docs, NEW k \in Slots, Served(d), JobStep(d, k)
  PROVE  Served(d)'
<1> SUFFICES ASSUME up', status'[d] = "processing", d \notin lost'
             PROVE  \E l \in Slots : Serves(d, l)'
  BY DEF Served
\* A step of the job that leaves it serving, or was not by a job that served.
<1>a. ASSUME up, status[d] = "processing", d \notin lost,
             \A l \in Slots \ {k} : job'[d][l] = job[d][l],
             Serves(d, k) => Serves(d, k)'
      PROVE  \E l \in Slots : Serves(d, l)'
  <2>1. PICK l \in Slots : Serves(d, l)
    BY <1>a DEF Served
  <2> QED
    BY <1>a, <2>1 DEF Serves
<1>1. CASE JobBegins(d, k)
  <2>1. up /\ status[d] = "processing" /\ d \notin lost
    BY <1>1 DEF JobBegins, AtPc, db
  <2>2. /\ job'[d][k].pc # "idle" /\ job'[d][k].seen = "processing"
    BY <1>1, <2>1, SetsJob DEF JobBegins, Live
  <2> QED
    BY <2>2 DEF Serves
\* A step that keeps the row the job has read.
<1>m. ASSUME NEW pc \in Pc \ {"idle"}, MoveJob(d, k, pc), AtPc(d, k, job[d][k].pc),
             job[d][k].pc # "scheduled", UNCHANGED <<status, lost>>
      PROVE  \E l \in Slots : Serves(d, l)'
  <2>1. /\ job'[d][k].pc = pc /\ job'[d][k].seen = job[d][k].seen
        /\ \A l \in Slots \ {k} : job'[d][l] = job[d][l]
    BY <1>m, MovesJob
  <2>2. Serves(d, k) => Serves(d, k)'
    BY <1>m, <2>1 DEF Serves
  <2> QED
    BY <1>a, <1>m, <2>1, <2>2 DEF AtPc
<1>2. CASE JobExtracts(d, k)
  BY <1>2, <1>m DEF JobExtracts, AtPc, Pc, db
<1>3. CASE JobPurges(d, k)
  BY <1>3, <1>m DEF JobPurges, AtPc, Pc, db
<1>4. CASE JobUpserts(d, k)
  BY <1>4, <1>m DEF JobUpserts, AtPc, Pc, db
<1>5. CASE JobAnswers(d, k)
  BY <1>5, <1>m DEF JobAnswers, AtPc, Pc, db
<1>6. CASE JobRaises(d, k)
  BY <1>6, <1>m DEF JobRaises, AtPc, Pc, db
\* The end of a job: it leaves the status alone only if it saw another one.
<1>e. ASSUME NEW new \in {"ready", "failed"}, NEW errors, up, UNCHANGED lost,
             WriteStatus(d, k, new, errors), SetJob(d, k, Idle),
             job[d][k].pc # "scheduled"
      PROVE  \E l \in Slots : Serves(d, l)'
  <2>1. status[d] = "processing" /\ job[d][k].seen # "processing"
    BY <1>e DEF WriteStatus, Live, TypeOK
  <2>2. ~Serves(d, k)
    BY <1>e, <2>1 DEF Serves
  <2>3. \A l \in Slots \ {k} : job'[d][l] = job[d][l]
    BY <1>e, SetsJob
  <2> QED
    BY <1>a, <1>e, <2>1, <2>2, <2>3
<1>7. CASE JobReady(d, k)
  BY <1>7, <1>e DEF JobReady
<1>8. CASE JobFailed(d, k)
  BY <1>8, <1>e DEF JobFailed, AtPc
<1>9. CASE JobLost(d, k)
  BY <1>9 DEF JobLost, db
<1> QED
  BY <1>1, <1>2, <1>3, <1>4, <1>5, <1>6, <1>7, <1>8, <1>9 DEF JobStep

\* Every step keeps a document served.
LEMMA ServedStep ==
  ASSUME TypeOK, [Next]_vars, NEW d \in Docs, Served(d)
  PROVE  Served(d)'
<1> SUFFICES ASSUME up', status'[d] = "processing", d \notin lost'
             PROVE  \E k \in Slots : Serves(d, k)'
  BY DEF Served
<1>s. ASSUME NEW k \in Slots, Schedules(d, k) PROVE Serves(d, k)'
  BY <1>s, SchedulesOne DEF Serves, Scheduled, Idle
<1>1. CASE Untouched(d)
  BY <1>1 DEF Untouched, Served, Serves
<1>2. CASE UploadCommit(d)
  BY <1>2, <1>s, SlotsAssumption DEF UploadCommit, SlotsAssumption
<1>3. CASE UploadFails(d) \/ DeleteCommit(d)
  BY <1>3 DEF UploadFails, DeleteCommit, TypeOK
<1>4. CASE DeleteSlides(d)
  BY <1>4 DEF DeleteSlides, Served, Serves, db
<1>5. ASSUME NEW k \in Slots, JobStep(d, k) PROVE \E l \in Slots : Serves(d, l)'
  BY <1>5, JobServes DEF Served
<1>6. ASSUME NEW r \in Retriers, RetryChecks(r, d)
      PROVE  \E k \in Slots : Serves(d, k)'
  BY <1>6 DEF RetryChecks, Served, Serves, db
<1>7. ASSUME NEW r \in Retriers, NEW k \in Slots, RetryCommits(r, d, k)
      PROVE  \E l \in Slots : Serves(d, l)'
  <2>1. CASE Live(d)
    BY <1>7, <1>s, <2>1 DEF RetryCommits
  <2>2. CASE ~Live(d)
    BY <1>7, <2>2 DEF RetryCommits, Live
  <2> QED
    BY <2>1, <2>2
<1>8. CASE CourseDeleteCommits
  BY <1>8 DEF CourseDeleteCommits, Cascade, Served, Serves
<1>9. CASE Crash
  BY <1>9 DEF Crash
<1>10. CASE Restart
  <2>1. job'[d][1] = Scheduled
    BY <1>10, SlotsAssumption DEF Restart, ResumeAll, SlotsAssumption, db
  <2> QED
    BY <2>1, SlotsAssumption DEF SlotsAssumption, Serves, Scheduled, Idle
<1> QED
  BY <1>1, <1>2, <1>3, <1>4, <1>5, <1>6, <1>7, <1>8, <1>9, <1>10, Touched
     DEF Touches

\* upload, ingest, retry and lifespan: however many retries race and whatever
\* fails, a document in "processing" has an ingestion, unless an error of the
\* database took it away; no client is assumed to send one retry at a time.
THEOREM NoneForgotten == Spec => []ProcessingIsWorkedOn
<1>1. Init => \A d \in Docs : Served(d)
  BY DEF Init, Served
<1>2. TypeOK /\ (\A d \in Docs : Served(d)) /\ [Next]_vars
        => (\A d \in Docs : Served(d))'
  BY ServedStep
<1>3. (\A d \in Docs : Served(d)) => ProcessingIsWorkedOn
  <2>1. ASSUME NEW d \in Docs, NEW k \in Slots, Serves(d, k)
        PROVE  job[d][k].pc # "idle"
    BY <2>1 DEF Serves
  <2> QED
    BY <2>1 DEF Served, ProcessingIsWorkedOn
<1> QED
  BY <1>1, <1>2, <1>3, Typing, PTL DEF Spec

-----------------------------------------------------------------------------
(* DocumentLifecycle implements DocumentSpec, for every document.          *)

\* A step that changes nothing of the promise about a document.
LEMMA Stutters ==
  ASSUME NEW d \in Docs, status'[d] = status[d], d \in error' <=> d \in error,
         d \in indexed' <=> d \in indexed, d \in purged' <=> d \in purged,
         d \in unread' <=> d \in unread,
         UNCHANGED <<coll, digest>>,
         (\E k \in Slots : job'[d][k] # Idle) <=> (\E k \in Slots : job[d][k] # Idle)
  PROVE  UNCHANGED Doc(d)!vars
BY DEF Doc!vars, HasText

\* A step of an ingestion changes the index, settles the document or gives up.
LEMMA JobPromise ==
  ASSUME TypeOK, NEW d \in Docs, NEW k \in Slots, Orderly(d), JobStep(d, k)
  PROVE  [Doc(d)!Next]_(Doc(d)!vars)
<1>0. job[d][k] # Idle /\ Worked(d, k)
  BY JobOrderly
<1>b. \A l \in Slots \ {k} : job[d][l] = Idle
  BY <1>0 DEF Orderly
<1>e. d \notin error
  BY <1>0 DEF Orderly, Worked
<1>i. Idle.pc = "idle"
  BY DEF Idle
<1>m. ASSUME NEW pc \in Pc \ {"idle"}, MoveJob(d, k, pc)
      PROVE  \E l \in Slots : job'[d][l] # Idle
  BY <1>i, <1>m, MovesJob
<1>s. ASSUME SetJob(d, k, Idle)
      PROVE  \A l \in Slots : job'[d][l] = Idle
  BY <1>b, <1>s, SetsJob
\* The ingestion is over without a write.
<1>a. ASSUME SetJob(d, k, Idle),
             UNCHANGED <<status, error, coll, digest, indexed, purged, unread>>
      PROVE  [Doc(d)!Next]_(Doc(d)!vars)
  <2>1. Doc(d)!Abandon
    BY <1>0, <1>a, <1>s DEF Doc!Abandon, HasText
  <2> QED
    BY <2>1 DEF Doc!Next
<1>1. CASE JobBegins(d, k)
  <2>1. CASE Live(d)
    <3>1. job'[d][k] # Idle
      BY <1>1, <1>i, <2>1, SetsJob DEF JobBegins
    <3> QED
      BY <1>0, <1>1, <3>1, Stutters DEF JobBegins, db, stores
  <2>2. CASE ~Live(d)
    BY <1>1, <1>a, <2>2 DEF JobBegins, db, stores
  <2> QED
    BY <2>1, <2>2
<1>2. CASE JobAnswers(d, k) \/ JobRaises(d, k)
  <2>1. \E l \in Slots : job'[d][l] # Idle
    BY <1>2, <1>m DEF JobAnswers, JobRaises, Pc
  <2>2. UNCHANGED <<status, error, coll, digest, indexed, purged, unread>>
    BY <1>2 DEF JobAnswers, JobRaises, db, stores
  <2> QED
    BY <1>0, <2>1, <2>2, Stutters
<1>7. CASE JobExtracts(d, k)
  <2>1. \E l \in Slots : job'[d][l] # Idle
    BY <1>7, <1>m DEF JobExtracts, Pc
  <2>2. UNCHANGED <<status, error, coll, digest, indexed, purged>>
    BY <1>7 DEF JobExtracts, db, stores
  <2>3. d \in unread' => HasText(d)
    BY <1>7 DEF JobExtracts
  <2>4. coll[d] = "slides"
    BY <1>0, <1>7 DEF JobExtracts, AtPc, Worked
  <2>5. CASE d \in unread' <=> d \in unread
    BY <1>0, <2>1, <2>2, <2>5, Stutters
  <2>6. CASE ~(d \in unread' <=> d \in unread)
    <3>1. Doc(d)!Extract
      BY <1>0, <2>1, <2>2, <2>3, <2>4, <2>6 DEF Doc!Extract, Worked, HasText
    <3> QED
      BY <3>1 DEF Doc!Next
  <2> QED
    BY <2>5, <2>6
\* A change of the index.
<1>x. ASSUME \E l \in Slots : job'[d][l] # Idle,
             UNCHANGED <<status, error, coll, digest, purged, unread>>,
             d \in indexed' => coll[d] = "slides" /\ HasText(d) /\ d \notin unread
      PROVE  [Doc(d)!Next]_(Doc(d)!vars)
  <2>1. CASE d \in indexed' <=> d \in indexed
    BY <1>0, <1>x, <2>1, Stutters
  <2>2. CASE ~(d \in indexed' <=> d \in indexed)
    <3>1. Doc(d)!IndexChanges
      BY <1>0, <1>x, <2>2 DEF Doc!IndexChanges, Worked, HasText
    <3> QED
      BY <3>1 DEF Doc!Next
  <2> QED
    BY <2>1, <2>2
<1>3. CASE JobPurges(d, k)
  <2>1. \E l \in Slots : job'[d][l] # Idle
    BY <1>3, <1>m DEF JobPurges, Pc
  <2> QED
    BY <1>3, <1>x, <2>1 DEF JobPurges, db
<1>4. CASE JobUpserts(d, k)
  <2>1. \E l \in Slots : job'[d][l] # Idle
    BY <1>4, <1>m DEF JobUpserts, Pc
  <2>2. coll[d] = "slides" /\ HasText(d) /\ d \notin unread
    BY <1>0, <1>4 DEF JobUpserts, AtPc, Worked
  <2> QED
    BY <1>4, <1>x, <2>1, <2>2 DEF JobUpserts, db
<1>5. CASE JobReady(d, k)
  <2>1. CASE ~Live(d)
    BY <1>5, <1>a, <2>1 DEF JobReady, WriteStatus, stores
  <2>2. CASE Live(d)
    <3>1. /\ status[d] = "processing" /\ job[d][k].seen = "processing"
          /\ ~job[d][k].seenError
      BY <1>0, <1>5, <2>2 DEF JobReady, Worked, Live
    <3>2. /\ status'[d] = "ready" /\ error' = error
          /\ UNCHANGED <<coll, digest, indexed, purged, unread>>
      BY <1>5, <2>2, <3>1 DEF JobReady, WriteStatus, TypeOK, stores
    <3>3. coll[d] = "slides" /\ HasText(d)
            => d \in indexed \/ d \in purged \/ d \in unread
      BY <1>0, <1>5 DEF JobReady, Worked, Searchable
    <3>4. \A l \in Slots : job'[d][l] = Idle
      BY <1>5, <1>s DEF JobReady
    <3>5. Doc(d)!Succeed
      BY <1>0, <3>1, <3>2, <3>3, <3>4 DEF Doc!Succeed, HasText
    <3> QED
      BY <3>5 DEF Doc!Next
  <2> QED
    BY <2>1, <2>2
<1>6. CASE JobFailed(d, k)
  <2>1. CASE ~Live(d)
    BY <1>6, <1>a, <2>1 DEF JobFailed, WriteStatus, stores
  <2>2. CASE Live(d)
    <3>1. /\ status[d] = "processing" /\ job[d][k].seen = "processing"
          /\ ~job[d][k].seenError
      BY <1>0, <1>6, <2>2 DEF JobFailed, AtPc, Worked, Live
    <3>2. /\ status'[d] = "failed" /\ d \in error'
          /\ UNCHANGED <<coll, digest, indexed, purged, unread>>
      BY <1>6, <2>2, <3>1 DEF JobFailed, WriteStatus, TypeOK, stores
    <3>3. \A l \in Slots : job'[d][l] = Idle
      BY <1>6, <1>s DEF JobFailed
    <3>4. Doc(d)!Fail
      BY <1>0, <3>1, <3>2, <3>3 DEF Doc!Fail, HasText
    <3> QED
      BY <3>4 DEF Doc!Next
  <2> QED
    BY <2>1, <2>2
<1>8. CASE JobLost(d, k)
  BY <1>8, <1>a DEF JobLost, db, stores
<1> QED
  BY <1>1, <1>2, <1>3, <1>4, <1>5, <1>6, <1>7, <1>8 DEF JobStep

\* Every step does to a document what it is promised, or nothing.
LEMMA DocPromiseStep ==
  ASSUME TypeOK, Promises, AllOrderly, [Next]_vars, NEW d \in Docs
  PROVE  [Doc(d)!Next]_(Doc(d)!vars)
<1>o. Orderly(d)
  BY DEF AllOrderly
<1>u. Uploading(d) => status[d] = "unused"
  BY DEF Promises
<1>e. status[d] # "failed" => d \notin error
  BY <1>o DEF Orderly
<1>n. ASSUME status[d] \in {"unused", "ready", "failed"}
      PROVE  \A k \in Slots : job[d][k] = Idle
  BY <1>o, <1>n DEF Orderly, Worked
<1>i. Scheduled # Idle
  BY DEF Idle, Scheduled
<1>1. CASE Untouched(d)
  BY <1>1, Stutters DEF Untouched
<1>2. CASE UploadCommit(d)
  <2>1. status[d] = "unused"
    BY <1>2, <1>u DEF UploadCommit, Uploading
  <2>4. /\ status'[d] = "processing"
        /\ UNCHANGED <<error, coll, digest, indexed, purged, unread>>
    BY <1>2 DEF UploadCommit, stores, TypeOK
  <2>5. Doc(d)!Upload
    BY <2>1, <2>4 DEF Doc!Upload, HasText
  <2> QED
    BY <2>5 DEF Doc!Next
<1>3. CASE UploadFails(d)
  <2>1. status[d] = "unused"
    BY <1>3, <1>u DEF UploadFails, Uploading
  <2>2. /\ status'[d] = "gone"
        /\ UNCHANGED <<job, error, coll, digest, indexed, purged, unread>>
    BY <1>3 DEF UploadFails, stores, TypeOK
  <2>3. Doc(d)!Refuse
    BY <2>1, <2>2 DEF Doc!Refuse, HasText
  <2> QED
    BY <2>3 DEF Doc!Next
<1>4. CASE DeleteSlides(d)
  <2>1. /\ UNCHANGED <<status, error, coll, digest, job, unread>>
        /\ d \in purged' /\ Live(d)
        /\ (d \in indexed' <=> d \in indexed) \/ d \notin indexed'
    BY <1>4 DEF DeleteSlides, db
  <2>2. (d \in indexed') \in {FALSE, (d \in indexed)}
    <3>1. CASE d \in indexed' <=> d \in indexed
      <4>1. (d \in indexed') = (d \in indexed)
        BY <3>1
      <4> QED
        BY <4>1
    <3>2. CASE d \notin indexed'
      <4>1. (d \in indexed') = FALSE
        BY <3>2
      <4> QED
        BY <4>1
    <3> QED
      BY <2>1, <3>1, <3>2
  <2>3. Doc(d)!Visible
    BY <2>1 DEF Doc!Visible, Live
  <2>4. Doc(d)!Clear
    BY <2>1, <2>2, <2>3 DEF Doc!Clear, HasText
  <2> QED
    BY <2>4 DEF Doc!Next
<1>5. ASSUME status'[d] = "gone", d \notin error',
             UNCHANGED <<job, coll, digest, indexed, purged, unread>>
      PROVE  [Doc(d)!Next]_(Doc(d)!vars)
  <2>1. CASE Live(d)
    <3>1. Doc(d)!Delete
      BY <1>5, <2>1 DEF Doc!Delete, Doc!Visible, Live, HasText
    <3> QED
      BY <3>1 DEF Doc!Next
  <2>2. CASE status[d] = "unused"
    <3>1. Doc(d)!Refuse
      BY <1>5, <1>e, <2>2 DEF Doc!Refuse, HasText
    <3> QED
      BY <3>1 DEF Doc!Next
  <2>3. CASE status[d] = "gone"
    BY <1>5, <1>e, <2>3, Stutters
  <2> QED
    BY <2>1, <2>2, <2>3 DEF TypeOK, Live
<1>6. CASE DeleteCommit(d)
  BY <1>5, <1>6 DEF DeleteCommit, stores, TypeOK
<1>7. CASE CourseDeleteCommits
  <2>1. CASE Live(d) /\ ForeignKeys
    BY <1>5, <1>7, <2>1 DEF CourseDeleteCommits, Cascade, stores
  <2>2. CASE ~(Live(d) /\ ForeignKeys)
    BY <1>7, <1>e, <2>2, Stutters DEF CourseDeleteCommits, Cascade, stores, Live
  <2> QED
    BY <2>1, <2>2
<1>8. ASSUME NEW k \in Slots, JobStep(d, k) PROVE [Doc(d)!Next]_(Doc(d)!vars)
  BY <1>8, <1>o, JobPromise
<1>9. ASSUME NEW r \in Retriers, RetryChecks(r, d)
      PROVE  [Doc(d)!Next]_(Doc(d)!vars)
  BY <1>9, Stutters DEF RetryChecks, db, stores
<1>10. ASSUME NEW r \in Retriers, NEW k \in Slots, RetryCommits(r, d, k)
       PROVE  [Doc(d)!Next]_(Doc(d)!vars)
  <2>1. retry[r] = [doc |-> d]
    BY <1>10 DEF RetryCommits
  <2>2. CASE Live(d)
    <3>1. status[d] = "failed" /\ \A l \in Slots : job[d][l] = Idle
      BY <1>o, <2>1, <2>2 DEF Orderly, Live
    <3>3. /\ status'[d] = "processing" /\ d \notin error'
          /\ UNCHANGED <<coll, digest, indexed, purged, unread>>
      BY <1>10, <2>2 DEF RetryCommits, ErrorsAfterRetry, stores, TypeOK
    <3>4. Doc(d)!Retry
      BY <3>1, <3>3 DEF Doc!Retry, HasText
    <3> QED
      BY <3>4 DEF Doc!Next
  <2>3. CASE ~Live(d)
    BY <1>10, <2>3, Stutters DEF RetryCommits, stores
  <2> QED
    BY <2>2, <2>3
<1>11. CASE Crash
  <2>1. /\ \A k \in Slots : job'[d][k] = Idle
        /\ UNCHANGED <<error, coll, digest, indexed, purged, unread>>
    BY <1>11 DEF Crash, stores
  <2>2. CASE Uploading(d)
    <3>1. status[d] = "unused" /\ status'[d] = "gone"
      BY <1>11, <1>u, <2>2 DEF Crash, Uploading
    <3>2. Doc(d)!Refuse
      BY <1>n, <2>1, <3>1 DEF Doc!Refuse, HasText
    <3> QED
      BY <3>2 DEF Doc!Next
  <2>3. CASE ~Uploading(d)
    <3>1. status'[d] = status[d]
      BY <1>11, <2>3 DEF Crash, Uploading
    <3>2. CASE \E k \in Slots : job[d][k] # Idle
      <4>1. Doc(d)!Abandon
        BY <2>1, <3>1, <3>2 DEF Doc!Abandon, HasText
      <4> QED
        BY <4>1 DEF Doc!Next
    <3>3. CASE \A k \in Slots : job[d][k] = Idle
      BY <2>1, <3>1, <3>3, Stutters
    <3> QED
      BY <3>2, <3>3
  <2> QED
    BY <2>2, <2>3
<1>12. CASE Restart
  <2>1. /\ UNCHANGED <<status, error, coll, digest, indexed, purged, unread>>
        /\ \A k \in Slots : job[d][k] = Idle
    BY <1>12, <1>o DEF Restart, db, stores, Orderly, Worked
  <2>2. CASE status[d] = "processing"
    <3>1. job'[d][1] = Scheduled
      BY <1>12, <2>2, SlotsAssumption DEF Restart, ResumeAll, SlotsAssumption
    <3>2. Doc(d)!Resume
      BY <1>i, <2>1, <2>2, <3>1, SlotsAssumption DEF Doc!Resume, HasText, SlotsAssumption
    <3> QED
      BY <3>2 DEF Doc!Next
  <2>3. CASE status[d] # "processing"
    <3>1. \A k \in Slots : job'[d][k] = Idle
      BY <1>12, <2>3 DEF Restart, ResumeAll
    <3> QED
      BY <2>1, <3>1, Stutters
  <2> QED
    BY <2>2, <2>3
<1> QED
  BY <1>1, <1>2, <1>3, <1>4, <1>6, <1>7, <1>8, <1>9, <1>10, <1>11, <1>12, Touched
     DEF Touches

\* upload, ingest, retry, delete and lifespan: with one retry request at a time,
\* every document goes through the life DocumentSpec promises, whatever races,
\* fails or restarts behind it.
THEOREM PromiseKept ==
  ASSUME OneRetrier
  PROVE  Spec => KeepsPromise
<1>1. Init => \A d \in Docs : Doc(d)!Init
  BY DEF Init, Doc!Init, HasText
<1>2. TypeOK /\ Promises /\ AllOrderly /\ [Next]_vars
        => [\A d \in Docs : [Doc(d)!Next]_(Doc(d)!vars)]_vars
  BY DocPromiseStep
<1> QED
  BY <1>1, <1>2, Typing, PromisesKept, OrderlyAlways, PTL DEF Spec, KeepsPromise
=============================================================================
