# A TLA+ model of Nahaj

Nahaj is a study assistant: a FastAPI backend (`src/backend`) with a SQL
database, a directory of uploaded files, a vector index per course, and a
LangGraph supervisor whose agents call language models. The frontend is a copy of
Open WebUI that calls this API. This directory holds TLA+ models of the backend's
own logic, the TLC instances that check them and the TLAPS proofs about them.
`src/frontend` is by far the larger part of the repository, and vendored; the
program is the 5,652 lines of `src/backend`, of which the definitions here map
about 2,200. Line numbers below are those of `src/backend` unless a path says otherwise.

    tlc -workers 2 -config Docs_races.cfg MCDocumentLifecycle   # one run
    tlapm DocumentLifecycle_proofs.tla                          # one proof module

## 1. Inventory

| Component | State it keeps | Operations | Hard behaviour | What makes it correct |
|---|---|---|---|---|
| Document lifecycle (`main.py` 93-125, 601-654, 880-1003; `rag_ingestion.py` 131-171) | row, file, index chunks, job in memory | upload, ingest, retry, delete, delete course, resume at start | three stores without a common transaction, two databases that differ in what they enforce; coroutines against threads; a stop or a failing commit between any two writes; extraction errors that are swallowed | no duplicates, no visible document without a file, no revival, "ready" is searchable, nothing stuck in "processing" |
| Plan scheduler (`agents.py` 1282-1660, 1766-1893) | a table of load per day, for the length of one call | scope, window, capacity, validate, top-up, backfill, rules, renumber | six passes share a load table; the design is model output and may say anything | daily limit, nothing in the past, declared depth, numbering, termination |
| Approval workflow (`workflow.py` 35-198, 292-423, 911-969; `main.py` 452-475, 1222-1322) | `_paused_threads` and checkpoints in memory, tasks in the database | chat turn, pause, resume, events | `graph.invoke` runs in a thread across an await; disconnects; restarts lose memory; events are single commits | only an approval writes, only what was shown, each item once, the pause is that of the graph |
| Quiz attempts (`main.py` 1113-1173) | attempt and answer rows | start, answer, complete, delete | thread-pool handlers that check and then commit; updates of changed columns only | completed means answered; score, weak topics and grades agree with the answers |
| Replanning (`agents.py` 939-1278, 1697-1764; `main.py` 686-743) | the tasks of a course, recognised by title | snapshot, candidates, titles, events | each plan is the input of the next one; titles are parsed back, and nothing keeps them apart | replanning changes nothing, does not multiply work, respects the student's own tasks |
| Notifications and progress worker (`main.py` 545-572, 657-664, 794-812, 1183-1202; `workflow.py` 730-757, 976-985) | notifications, the worker's coroutine | periodic check, alert, mark read, unread, all read | query before insert; a snapshot used after an await; failures inside and outside the handler | one unread alert per day; overdue work is announced |
| Calendar slots, task editing (`workflow.py` 925-969, `main.py` 1032-1069) | start and end of a task | hour of a session, create, update, delete | the day's ninth session | sessions of a day do not overlap |
| Courses and semesters (`main.py` 826-897) | rows | create, update, delete | two first semesters at a time | one active semester |
| Quiz generation (`agents.py` 400-853; `workflow.py` 425-690; `main.py` 483-541) | the stored quiz | choose the course, search it and then others, ask, select, normalise, store | malformed model output; indexes change during the search; courses are deleted | made of and filed under the right course; the best of the pool; graded by the option the model marked |
| Retrieval (`rag_ingestion.py` 131-296, `rag_retrieval.py`) | the chunks of each course | cut, replace, remove, rank | chunks are replaced in two calls while questions are answered; a snapshot is ranked by a later query | no word lost, what both rankings agree on comes first, deleted documents are not cited |
| Routing, communication, RAG answers (`agents.py` 1-400, `guardrails.py`) | none | classify, answer | model output | — |
| OpenRouter client, settings, database, log (`config.py`, `app_config.py`, `database.py`, `logger.py`) | none | call with retries | timeout, retry | bounded attempts |
| Frontend (`src/frontend`) | none of the program's | proxy, pages | — | — |

How they interact: HTTP handlers in `main.py` are coroutines (upload, delete
document, chat) on one event loop or plain functions in a pool of threads
(everything else); both write the database. Chat and ingestion of past exams call
`LangGraphSupervisor.handle`, which yields events; `_apply_event` is the only
place where events become rows. `handle` sends plan requests to
`planning_agent`, whose sessions become task events after an approval, and the
tasks are in turn the snapshot of the next plan. A quiz request and a question
read the index that ingestion jobs and deletions write. The progress worker calls
the same supervisor from a background coroutine.

## 2. Modules

| Module | Models | Composes with |
|---|---|---|
| `DocumentLifecycle` | documents of one course over row, file, index, job | implements `DocumentSpec` |
| `DocumentSpec`, `DocumentRefinement` | what a student is promised of one document; the mapping | an instance of the first per document |
| `PlanSchedule` | one call of `planning_agent.plan` | supplies the days that ReplanCycle leaves out |
| `ApprovalWorkflow` | one conversation, its graph runs and its task writes | a plan is a set of items: what PlanSchedule schedules; implements `ApprovalSpec` |
| `ApprovalSpec`, `ApprovalRefinement` | a calendar only approved plans enter; the mapping | an instance of the first |
| `ReplanCycle` | titles and tasks over several approved plans | an approved plan is one step: the conversation is ApprovalWorkflow's |
| `QuizAttempt` | one attempt under concurrent requests | — |
| `Notifications` | worker and notifications | — |
| `Chunking` | how a section is cut into pieces | operators of `CourseIndex` |
| `CourseIndex` | the index of each course, its writers and a reader | extends `Chunking`; rows and jobs are DocumentLifecycle's |
| `QuizGeneration` | one quiz request at a time over those indexes | extends `CourseIndex` |
| `MC...` | sets and sequences for TLC | |
| `..._proofs` | theorems | |

### DocumentLifecycle

`status`, `error`, `coll`, `digest` are columns of `Document`; `onDisk` is the
upload directory; `indexed` the documents with chunks in the index; `job[d][k]`
the coroutines `_process_document_ingest` alive for `d`, with the row they have
read; `uploads` the requests past `_get_course` that await their body. A handler
that makes two writes without an await holds `loop` in between, so no coroutine
interleaves while threads and a crash can. Retry and `delete_course` are plain
handlers, hence threads: check and commit are separate actions. SQLAlchemy writes
the columns that differ from what was read, so a job commits against what it
`seen`; an UPDATE of a missing row raises. `Crash` clears memory and rolls back the
open insert; `Restart` resumes every document in "processing" (`main.py` 97-104).

Three things about the surroundings decide what may go wrong. `ForeignKeys` is the
database: PostgreSQL enforces them, SQLite, the default, does not, as
`database.py` 15-17 never switches them on. So whether an insert looks for its
course again, and whether the deletion of a course reaches rows the session has
not loaded, depends on it. An extraction may give an empty text for a file that
has one or is gone (`rag_ingestion.py` 199-210, 237-239): no exception, so the job
goes on to remove the old chunks and reports success; `unread` remembers it. And any read or
commit may raise: a job whose handler of exceptions raises in turn ends without a
write (`JobLost`), a request whose refresh raises has committed and schedules
nothing (`Schedules`); `lost` remembers the documents left in "processing" by it.
Abstracted: the text itself and its chunks, the size limits and file checks of
upload, which change no state.

`DocumentSpec` says the same to somebody who sees one document and neither stores
nor threads: it is processed, becomes ready or fails with a message, a failed one
can be retried, a deleted one is gone. Its three awkward steps are what the code
does not promise: an ingestion may find no text where there is some and succeed
(`rag_ingestion.py:209`), a deletion that stops half-way leaves the document there but
not searchable (`main.py:984`), and an ingestion that was under way may write to the
index once more after its document was deleted (`main.py:982`). `DocumentRefinement`
reads phase, message and so on off the stores; one step of the implementation may
be a step of several documents (a crash, `delete_course`), so the quantifier over
documents is inside the box.

### PlanSchedule

Days are numbers and a candidate is the number of its id. `Design` fixes scope,
window and capacity; `ValidateSession` consumes the model's sessions one by one;
`TopUp`, `TakeCandidate`/`PlaceByRule` and `Renumber` are the passes that follow.
The load of a day is computed from `placed` instead of kept in a table. The order
in which rules take candidates depends on priorities that are not modelled, so
every order is possible. `NextOpenDay` states which day the loops of
`_next_open_day` return: the first with room up to the deadline, then up to a year
past the window, then the day after.

### ApprovalWorkflow

A turn goes through `arrived` (snapshot taken), `queued` and `running`
(`graph.invoke` in a thread), `returned`, `ended`; `orphan` is a thread whose turn
was cancelled. `runs` is LangGraph's in-memory checkpoint of each run, `paused`
is `_paused_threads`. Every model decision is a free choice: a reply to a pending
question may be taken for an answer, a new request or small talk. Faults are
explicit: a raising model call (`llm`), a closed stream (`cancel`), a failing
write (`apply`) and a restart (`crash`). The graph itself is a library and is
modelled from how `workflow.py` uses it: an interrupt saves a checkpoint, resuming
a finished run returns the state it ended with.

`ApprovalSpec` has an offer, what is due and a calendar. A plan is on offer while
the recorded question is the one its run waits with, due are the events of a turn
that has returned, and the calendar counts the tasks of each item. The refinement
says that what is written is exactly the plan that stood on offer, whole unless
the process stops.

### ReplanCycle

A title is its verbs, a name and its session marks, which is all the code's string
functions add or strip, and there may be several tasks of a title: neither
`create_task` nor a rename looks for another (`main.py` 1032-1062), so Init, `Enter` and
`Rename` may give one to two tasks (`Copies` says how many there may be at first).
`Candidates` follows `_collect_candidates` pass by pass, `SessionTitles` and `Events`
follow `_assemble`, `Written` follows `_calendar_events` and the upsert: an event goes
to the task of its title and date, else to one of its title, else it enters a new
one. Skipped tasks are in neither list of the snapshot, so no event finds them,
but an exam among them is still a deadline. Dates are not modelled: among several
tasks of a title any may be hit, at most as many as there are events.
One plan made and approved is one action. Mastery is 0 or 0.7, which decides
whether effort is raised and whether a topic is reviewed.

### QuizAttempt

Each request reads, then commits what differs from what it read; the unique constraint on
the answer rows and the cascade of the deletion make some commits raise (`Raises`). Without
foreign keys the insert of an answer whose quiz is gone does not: it leaves a row of no
attempt (`Inserts`). `raced` remembers that a client did not wait for its own answers.

### Notifications

The worker is asleep, reviewing a snapshot, alerting (before its query) or adding
(between query and insert), or dead. The key of an alert is the day. A mark
request reads its rows in a thread and commits later.

### Chunking, CourseIndex

A section is two numbers, the words of its title and of its body; the title is one
item of the window of words whatever its length, and all its words in the minimum
of a piece, as in `_chunk_section`. An ingestion is three steps, as it is three calls:
read and cut, delete the old chunks, write the new ones (`rag_ingestion.py`
131-171); any of them may fail. A chunk is recognised by document and number, and
one that is written again keeps its place. Deleting a document is two writes,
the chunks (`RemoveChunks`) and the row (`RemoveRow`), as ingestions and questions run in
threads beside it and the second may fail (`RemoveFails`): then the document is there
without its chunks until it is ingested again. A question reads the collection, filters by
chapter, and queries the collection it finds then: any n nearest chunks in any
order of their scores, or nothing when the query fails. The BM25 scores are any
values; ranks, reciprocal rank fusion (as exact fractions) and the final sort are
computed. Wherever the code filters or sorts a list, the model says which positions
are taken and in what order (`Picked`, `InOrder`, which count the elements before each);
that is what the proofs reason about.

### QuizGeneration

A turn chooses a course, searches it and then the others (`_course_material`), has
the model write a pool, selects, normalises and stores. The pool is any sequence
of raw candidates; how well one suits the learner is its score. Options and
marks are texts, as in its schema, and `Key` decides by form as
`_normalise_candidate` does: a text of digits (`Numerals`) is a number, one letter from A to D
(`Letters`) a position, anything else the text of an option, although an option may be any of
these. Each step may be the last of a turn: a model
fails, a candidate has a blank prompt (which fails the whole generation), the
client goes. One question or one quiz request is under way at a time; the index
changes under both. `edits` bounds ingestions, deletions and quiz requests.

## 3. Runs

| Run | Bounds | Shows |
|---|---|---|
| `docs_one_retry` | PostgreSQL, 2 documents, a text and a scanned file, 2 job slots, 1 retry thread, 1 crash | NoDuplicateDocument, NoOrphanRow, OneJobPerDocument, ReadyIsSearchable, KeepsPromise |
| `docs_races` | SQLite, 1 document, 2 retry threads, 1 crash, fairness | LiveHasFile, ProcessingIsWorkedOn, GoneStaysGone, ProcessingSettles |
| `plan_passes` | 2 candidates, a window of 3 days, loads up to 3, every design of up to 2 sessions from two families, horizon of 12 days for the 365 of the code | DailyLimit, NothingBeforeStart, DepthHonoured, PlanCompletes |
| `approval_sequential` | 4 turns in order, 2 items, 1 fault (model or crash) | WrittenOnlyByYes, OnlyShownPlansWritten, OneTaskPerItem, PausedMatchesGraph, KeepsPromise |
| `approval_parallel` | 3 turns, 2 at a time, 1 item, 1 fault of any kind, fairness | WrittenAfterSomeYes, TurnsEnd |
| `quiz` | 2 questions, 3 options, 3 threads (symmetric) | CompletedIsAnswered, ScoreMatchesAnswers |
| `replan_cycle` | own task, up to two of its title, an exam that is entered, deck of 2 sessions, quiz topic; 3 plans, 2 edits of seven kinds, requests that leave one candidate out | WorkNotMultiplied, NoTaskTwice, ReplanIsIdempotent, OwnTasksRespected |
| `notifications` | 2 tasks, 3 days, 2 threads, 1 edit, 3 marks, 2 faults, fairness | OneUnreadPerDay, OverdueIsAnnounced |
| `study_material` | 3 documents in 2 courses, pieces of 4 items that share 1 and have 2 words at least, texts that give none, one or several pieces, 3 edits, pools of up to 3 candidates (alone of 8 forms or with numbers for options; in twos and threes of some of each id and score), 1 or 2 questions | FullyIndexed, RankingRespected, RemovedNotCited, MadeOfMaterial, BestSelected, KeyAsMarked |
| `docs_orphan_claim` | SQLite, 1 document, no crash | violation of NoOrphanRow |
| `approval_cancel_claim` | 3 turns, 1 item, 1 disconnect | violation of WrittenOnlyByYes |
| `replan_finished_claim` | a deck of 2 sessions, 2 plans | violation of FinishedExcluded |

Each passing run also checks its module's type invariant where the module has no
other run that does.

Why the bounds suffice. Every property relates at most two documents, items, candidates or
answers, so two of each reach the conflicts; a third identical one only repeats them. Two
retries are the least that collide. One crash may come at any step, with the restart and
everything that follows it; a second one finds the same kinds of states, since all a crash
keeps is in the stores. The proofs are for any number of either. Four turns are draft,
change, answer and one more message, which is what it takes to answer a question that has
been answered. In `plan_passes` a day of capacity 1 to 3 is filled by the designs and by the
efforts of 1 and 3 of the candidates, dates are before, inside and after the window, and a
horizon of 12 days is never filled by the at most 6 sessions, as 365 is not in the program.
Three threads on a quiz are two answers and a completion. Three plans are a first one, a
replan and a replan of the replan, the shortest chain in which an error in a title can
compound; skipping a session and taking it up again around the second of them is the
shortest way to have it twice, and entering or renaming a task beside another is one edit.
Nothing is edited after the last plan. Three edits in `study_material` are two ingestions,
or an ingestion and a deletion, and the request they disturb; the second ingestion of a
document may be shorter, longer or empty. Options that are numbers are asked for alone: what
follows from a mark depends on its own candidate only.

The cost of the bounds: `docs_one_retry` has one retry thread because three of
its properties are statements about such a client (see below), and foreign keys because
NoOrphanRow is one about such a database; `replan_cycle` has
no model-stated depths (`Depths` empty), so it is about plans at suggested effort;
liveness in `docs_races` is for one document, which suffices as documents share
only the event loop, and every handler releases it.

### Fairness

- `docs_races`: weak fairness of the steps of a handler that holds the loop or was answered,
  and strong fairness of the steps of a job, since the event loop and the thread pool run
  what is ready in its order: uploads and deletions that hold the loop again and again
  disable a job that waits for it each time, and it still has its turn in between. `Restart`
  is not fair, as nothing in the repository starts a stopped process again:
  ProcessingSettles allows a document to stay in "processing" while the process is down, and
  with at most one crash says that it settles once the process is up again. A document whose
  ingestion a database error ended is excepted too: nothing takes it up before the next
  restart. No request is ever guaranteed to be sent.
- `approval_parallel`: weak fairness of each turn's server steps; neither messages
  nor faults are fair. `graph.invoke` is assumed to return, as each model call has
  a timeout and a bounded retry (`config.py` 59-88).
- `plan_passes`: weak fairness of the step: `plan` is one function call.
- `notifications`: weak fairness of the worker's steps, an infinite loop with a
  sleep (`main.py` 809-812); restarts, failures and the student are not fair.

### Deadlock

Checked for `plan_passes`, whose end is an explicit stuttering step. In the others the
bounded clients may all have stopped, which is a state the system may rest in; the liveness
properties state what may not be left over there.

## 4. Findings

1. `docs_orphan_claim`. `delete_course` refuses while the course has documents
   (`main.py:887`), and the model declares `cascade="all, delete-orphan"`
   (`models.py:48`). The session cascades to the documents it has read, none, and
   SQLite enforces no foreign key (`database.py` 15-17). An upload past its check of the
   course is committed before or after the deletion all the same, and its row belongs to no
   course. Where foreign keys are enforced NoOrphanRow holds (`docs_one_retry`).
2. `approval_cancel_claim`. `src/README.md:431` expects that only approved changes
   create tasks. If the client disconnects after "yes" while `graph.invoke` runs, the
   run finishes and the pause stays (`workflow.py:179-195`); the student's next
   answer, "no" included, returns the finished state and writes its events.
3. `replan_finished_claim`. `src/README.md:144` says that finished work is
   excluded. The sessions of a deck are titled "Study X" while completion is looked
   up under "X" (`agents.py:1234`), so a finished deck is planned again and its done
   tasks are written as still to do.

The hypotheses of the passing properties mark further behaviour that a reader
may not expect. TLC violates the property without the hypothesis in each case:

- Two retries in flight (`main.py:966`): the second restarts a document whose
  first job runs or is done. OneJobPerDocument, ReadyIsSearchable and
  KeepsPromise are therefore about one retry at a time.
- A commit of an ingestion job that raises makes the handler of that exception raise too
  (`main.py` 639, 647), and a refresh may raise after the commit of an upload or a
  retry (`main.py` 944, 972): the document stays in "processing" without a job until the
  next restart. ProcessingIsWorkedOn and ProcessingSettles except the documents this
  has happened to (`lost`), and no others.
- A PDF or Office file that cannot be read, and a file that is missing, count as an empty
  text (`rag_ingestion.py` 199-210, 237-239): the old chunks are removed and the document is
  "ready" with nothing indexed and no message, although `src/README.md:259` says that
  each document records "processing", "ready" or "failed" and the message of its failure.
  ReadyIsSearchable and KeepsPromise except a deck whose text the last ingestion could not
  read (`unread`).
- Where foreign keys are enforced, an upload that commits while `delete_course` runs is
  cascaded away and its file left behind (`main.py:886`).
- `_next_open_day` searches forwards only (`agents.py:1521`), so sessions crowding at
  the end of a window leave it although its first days are free; what
  `src/README.md:157` rules out, stacking onto a full day, does not happen.
- The daily load is derived from suggested effort, not from the depth the model
  declares (`agents.py:1304`; compare `src/README.md:156`): a deeper design may not
  fit below the ceiling. DailyLimit holds for the load that was chosen.
- Two turns in flight that both say "yes", and an event that fails half-way
  through a plan (`main.py:473`), write items twice: OneTaskPerItem is about turns
  one after the other, without failing writes. A cancelled turn breaks
  OnlyShownPlansWritten like WrittenOnlyByYes.
- Two overlapping changes of one answer can leave the selection of one with the
  grade of the other (`main.py:1150`): ScoreMatchesAnswers has the hypothesis `~raced`.
- Exams are recognised by words in the title, and "Prepare for midterm" has such a word
  (`main.py:742`): plans about exams grow, and an exam the student has skipped is entered
  again. Deleting or skipping one of the numbered sessions of work without pages makes the
  rest a work of its own, and a skipped session that is taken up again after a plan has
  entered it anew is there twice and counted twice (`main.py:737`). Two tasks the student
  gave one title, which nothing prevents (`main.py` 1032-1062), are grouped as two sessions
  of one piece of work (`agents.py:1178`), and the plan enters "(session 1 of 2)" and
  "(session 2 of 2)" beside them, although `src/README.md:145` says that sessions collapse
  back into the work they came from; once one of the two is done the other, still open, is
  not planned (`agents.py:1176`), although the same line says that remaining tasks are
  carried forward. `Miscounted` names all of these; WorkNotMultiplied, NoTaskTwice and
  ReplanIsIdempotent exclude them. Model-stated depths that differ between plans (`Depths =
  {2}`) multiply work too.
- An answer whose check of the status came before the completion is stored after
  the attempt was graded and its key shown (`main.py:1137`): ScoreMatchesAnswers
  excludes it. On SQLite one that comes after the deletion of the quiz is stored as a row
  of no attempt, which nothing reads (`main.py` 696-702).
- An empty option shifts the letters of those behind it, and the fifth option is
  cut off even if it is the right one (`agents.py:731-739`): KeyAsMarked is about
  candidates with neither. A mark is read by its form before its text
  (`agents.py:742`): with the options "1" to "4" the mark "3" is graded as option D, "4", and "42"
  would be A. KeyAsMarked therefore excepts a mark that has the form of a position and is
  the text of an option (`Clear`). A count above 30 is silently lowered, and
  `short_of_request` compares with the lowered one (`agents.py:667`).
- A question asked before a deletion, or an ingestion under way during it, may
  still quote the document (`rag_ingestion.py:173`), and a failure of the index in
  `remove_document` is swallowed. RemovedNotCited is about deletions with neither. A deletion
  that stops or fails between the chunks (`main.py:982`) and the row (`main.py:997`) leaves a
  document that can be seen and not searched: FullyIndexed excepts it until its next ingestion.
- An alert that was read is repeated on the same day (`src/README.md:261` says
  alerts are deduplicated); an alert may be about a task finished during the
  review; a database error in the snapshot ends the worker (`main.py:800`), which
  OverdueIsAnnounced allows.

One more sentence of the documentation does not fit, and no property is about it:
`src/README.md:179` says that a quiz is always built from retrieved chunks. With none,
`workflow.py:487` passes `None`, the materials of the state have no text and divide into no
parts, and the model is asked for candidates about nothing (`agents.py:590`): the quiz it
makes up is stored. The answer `needs_material` and the explanations of
`_material_problem` are never given. The model of `QuizGeneration` has this behaviour.

## 5. Proofs

All are for every value of the constants under the assumptions named in the
modules; a further hypothesis is part of the statement and named below. Each proof
module starts with the types, except those of CourseIndex and QuizGeneration; the rest:

- `DocumentLifecycle_proofs`. The inductive invariant `Promises` adds to NoDuplicateDocument
  and LiveHasFile what an upload or a deletion between two writes owes: the document being
  committed is unused, has its file and no live duplicate, and the document being unlinked
  is gone. It is needed because neither property is inductive: UploadCommit makes a document
  live without looking. The lemma `Steps` says once what any step can do to one document;
  the promises follow from it. From them NoDuplicates, FilesKept, NoRevival (an action
  property), and with `Orphanless` (nor is a document of a deleted course being uploaded)
  NoOrphans, which assumes `ForeignKeys`: it is false without. NoneForgotten comes from
  `Served`: wherever a document is in "processing" while the process is up, a job of it is
  there or an error of the database took it, which every step that ends a job has to show
  (`Serves`). With one retry thread (`OneRetrier`, see the findings) `AllOrderly` holds too:
  at most one ingestion or pending retry works on a document, what it has read is what is
  stored, a retry past its check finds no ingestion, only a failed document has an error,
  and a ready deck with text whose deletion is not asked for is in the index, if its last
  ingestion could read it. From it OneIngestion, ReadyMeansSearchable and, step by step for
  one document, PromiseKept: DocumentLifecycle implements `DocumentSpec`. `Untouched` and
  `Touches` divide the steps into those that leave the document alone, which are stutters of
  the promise, and the few that do not.
- `PlanSchedule_proofs`. NoPastSessions: every search starts at or after `Start`
  and only goes forward; `TypeInv` carries it through the passes together with the
  finiteness of the plan. DailyLimitHolds: `LoadInv` keeps loads within capacity; a
  search that finds no day with room has seen more than `Year` full days, hence
  (lemma `FullYear`, an injection of those days into the sessions) more than `Year`
  sessions, which the hypothesis `serial <= Year` excludes. DepthsHold: `CountInv`
  says for each pass how many sessions each candidate has already (as many as the
  design placed, topped up, or all of them), and after the last pass that a
  session's number is its rank by day; `NumbersFill` shows that ranks are 1 to n.
- `ApprovalWorkflow_proofs`. SomeYesFirst holds for any number of turns at a time
  and under every fault: `Consented` says that wherever the events of a run are,
  in its checkpoint, in a thread or on their way out, some turn has said yes to it.
  The other properties are about turns one after the other, with models that fail and
  a process that stops (`OneByOne`): a cancelled turn leaves the question on record
  after its run has finished, which run `approval_cancel_claim` shows. `InOrder`
  relates the question on record to the checkpoint of its run and to what the one
  active turn has read of both. From it OnlyByYes, OnlyWhatWasShown and PausedFits.
  `OneEach` adds that no item has two tasks, and that what is about to be entered,
  snapshots and events alike, names every task of its items (`Known`); it gives
  EachItemOnce and the refinement PromiseKept of `ApprovalSpec`, if tasks are not
  marked "skipped": a skipped task is in no list of the snapshot, so the next plan
  rightly enters it anew and an item then has two tasks.
- `ReplanCycle_proofs`. NoTaskIsTwice has no hypothesis but the exceptions the
  property names, tasks of one title given by the student among them: `WrittenRows` says what
  `_calendar_events` may do to each task, whichever of several tasks of a title it
  hits. The other three theorems are about plans of the rules (`RulesPlan`: a
  model-stated depth changes how many sessions a title has, and then work does
  multiply) over names that are apart (`NamesApart`: a deck that is also a quiz topic
  changes its effort with the mastery). There `KitInv` holds: a title determines how
  many sessions its work has (`Size`) and what they are called (`Kit`), every task is
  one of these unless the code has lost count, a review has all its sessions and none
  is skipped, and after a plan of everything all sessions of decks and weak topics
  are to do. None of WorkNotMultiplied, ReplanIsIdempotent and OwnTasksRespected
  is inductive without it: they say nothing of how the titles they are about were made.
- `QuizAttempt_proofs`. CompletedAnswered, from `Kept`: while the quiz exists, an
  answer row some request has read stays, and the answers of an attempt that is
  completed or being completed are all there. Typing needs `Kept` too: an update
  of the changed columns is an answer only if the row is still there. ScoresRight, from `Settled`: as long as the client has waited for its answers, what
  a request has read is what is stored, for any number of threads and on either database.
- `Notifications_proofs`. NoDoubleAlert, from `Deduplicated`: between query and
  insert the worker's key has no unread notification, unless it was reopened.
- `CourseIndex_proofs`. NoWordLost, for every size and overlap of pieces and every minimum
  up to the overlap plus one (the code has 400, 50 and 8): each item of a section worth
  indexing is in a piece that is kept. Lemma `Multiple` finds the last start at or before an
  item, `Kept` shows that a piece which starts before the end of the last but one has more
  words than the overlap. The rest of the module is what a step does to an index and to a
  question. `Ranks` says that a strict order of a finite set gives each element a rank of
  its own and takes every rank, hence `PickedIs`, `ChunksAre` and `SelectedIs`: what
  filtering, numbering and sorting return. `IndexInv`: every collection is a sequence of
  chunks with distinct ids, of documents of its course; a document between purge and write
  has no chunks, nor has one whose deletion has cleared it and not yet removed its row
  (`Cleared`); one with no ingestion under way and a text has exactly the chunks of that
  text; a withdrawn one has none. `ReaderInv`: what a question has read has no chunk of a
  document withdrawn before. FullyIndexed is not inductive without the ids, since an upsert
  replaces by id; RemovedNotCited needs that no ingestion of a withdrawn document can start
  again. `FusedAgrees` is the arithmetic of the fusion (1/(k+a) + 1/(k+r) against 1/(k+b) +
  1/(k+q)), `BeforeTransitive` that the four sort keys compare fractions consistently.
- `QuizGeneration_proofs`. MadeOfItsCourse, from `Sought`: a search that has not failed and
  has gone on from a course found it empty at some moment, so each course of the library is
  still to come, is the one at hand, or is no longer in `steady`. WhatIsReadIsIndexed,
  RankingsAgree and WithdrawnIsGone state FullyIndexed, RankingRespected and RemovedNotCited
  of the specification, from `IndexInv` and `ReaderInv`. TheBestAreTaken (BestSelected): the
  loop of rounds is a function (`RoundsExist`, by a least counterexample), and `Progress` is
  its invariant: after n rounds what is chosen has ids of its own, what is left has all the
  others, and nothing suits better than a choice but what was chosen before it.
  GradedAsMarked (KeyAsMarked): without an empty option and with at most four, the shown
  options begin with the given ones in their places (`OptionsInPlace`), and a mark that is
  not both a position and a text finds its own (`KeyRight`). `Judged` carries both to the
  quiz that is stored.

Assumptions used: the finite sets of candidates, questions, items and names, not
empty where something is chosen from them, natural bounds, designs of the schema's
types, the base load between 1 and the ceiling, "none" not an option, candidates
numbered from 1 as their ids are. TLC evaluates each of them in the runs.

Texts are sequences of sections with bodies, and pools sequences of candidates, as
`_normalise_sections` and the schema of the model's answer make them.

Only model-checked: liveness (ProcessingSettles, PlanCompletes, TurnsEnd and
OverdueIsAnnounced), which like ENABLED is beyond TLAPS here. Every safety
property and action property of the passing runs is a theorem, with the hypotheses
named above where it has any.

## 6. Not modelled

The frontend: a vendored copy of Open WebUI (about 95% of the lines of the
repository) with a thin proxy and pages that call this API; it keeps no state of
the program. Text extraction, embeddings, the arithmetic of BM25, prompts and
guardrails (data a property does not tell apart); what models decide, which is
nondeterministic wherever it reaches state; routing and RAG answers, whose only
effect is text; the OpenRouter client, settings and logging (external or without
state). Parts of modelled components left out: materials and topics whose names
contain one another in ReplanCycle (`_mastery_for` matches substrings), the hours of
the sessions of a day (`workflow.py` 935-946: the eighth and later share 21:00
although the comment says each takes the next hour), semester handlers (two first
semesters at a time, `main.py:833`), titles and wording of quizzes.

## 7. Plan

Modelled in the order of what a failure costs the student: documents, plans,
approvals, quizzes, replanning, alerts, then the promises of documents and
approvals, the material behind answers and quizzes, and skipped tasks. What is
left:

1. Proofs under weaker hypotheses where a finding allows it: what remains of the
   promises about documents with two retries in flight, and of replanning when
   depths are stated by the model.
2. The hours of the sessions of a day, two first semesters at a time, and
   overlapping names, each of a size of one or two actions.
