---------------------------- MODULE Notifications ----------------------------
(***************************************************************************)
(* The progress worker and the notifications it makes.  The worker is a    *)
(* coroutine: it sleeps, takes a snapshot of the tasks, lets the graph     *)
(* review it in a thread, and adds a notification when the snapshot has    *)
(* overdue tasks.  A notification has the day as its dedupe_key, and none  *)
(* is added while an unread one has the same key.  Meanwhile the student   *)
(* edits tasks and marks notifications read and unread, in threads that    *)
(* read their rows and commit later.                                       *)
(***************************************************************************)
EXTENDS Naturals, Sequences

CONSTANTS
  Tasks,       \* the tasks on the calendar
  MaxDay,      \* bound: the days that pass
  Threads,     \* bound: the requests about notifications served at once
  MaxEdits,    \* bound: how often the student edits a task
  MaxMarks,    \* bound: how often the student marks notifications
  MaxFaults    \* bound: how often something fails

ASSUME BoundsAssumption ==
  MaxDay \in Nat /\ MaxEdits \in Nat /\ MaxMarks \in Nat /\ MaxFaults \in Nat

VARIABLES
  day,         \* date.today()
  status,      \* of each task; "done" stands for "skipped" too
  end,         \* the last day of each task: it is overdue from the next one on
  notes,       \* the notifications, in the order of their creation
  worker,      \* where the progress worker is
  request,     \* what each thread is serving
  edits, marks, faults,
  reopened     \* history: the keys the student has marked unread again

vars == <<day, status, end, notes, worker, request, edits, marks, faults, reopened>>
student == <<request, marks, reopened>>

Days  == 0..MaxDay
Note  == [key : Days, read : BOOLEAN]
Idle  == [op |-> "idle"]
Asleep == [pc |-> "asleep"]
Dead   == [pc |-> "dead"]

\* What the worker holds on to across its await.
Snapshot == [t \in {u \in Tasks : status[u] = "todo"} |-> end[t]]
Snapshots == UNION {[todo -> Days] : todo \in SUBSET Tasks}

TypeOK ==
  /\ day \in Days /\ end \in [Tasks -> Days]
  /\ status \in [Tasks -> {"todo", "done"}]
  /\ notes \in Seq(Note)
  /\ worker \in {Asleep, Dead} \cup [pc : {"reviewing"}, snapshot : Snapshots]
       \cup [pc : {"alerting", "adding"}, key : Days]
  /\ \A th \in Threads : request[th] \in {Idle}
       \cup [op : {"read", "unread"}, ids : SUBSET DOMAIN notes]
  /\ edits \in 0..MaxEdits /\ marks \in 0..MaxMarks /\ faults \in 0..MaxFaults
  /\ reopened \subseteq Days

Overdue == {t \in Tasks : status[t] = "todo" /\ end[t] < day}

Init ==
  /\ day = 0 /\ status = [t \in Tasks |-> "todo"] /\ end \in [Tasks -> Days]
  /\ notes = <<>> /\ worker = Asleep /\ request = [th \in Threads |-> Idle]
  /\ edits = 0 /\ marks = 0 /\ faults = 0 /\ reopened = {}

-----------------------------------------------------------------------------
(* The worker.                                                             *)

TakeSnapshot ==
  /\ worker = Asleep
  /\ worker' = [pc |-> "reviewing", snapshot |-> Snapshot]
  /\ UNCHANGED <<day, status, end, notes, edits, faults, student>>

Fault == faults < MaxFaults /\ faults' = faults + 1

\* The snapshot is taken outside of what catches: the worker's task ends.
SnapshotFails ==
  /\ worker = Asleep /\ Fault
  /\ worker' = Dead
  /\ UNCHANGED <<day, status, end, notes, edits, student>>

\* A model, a graph or a write that fails ends this check only.
CheckFails ==
  /\ worker.pc \in {"reviewing", "alerting", "adding"} /\ Fault
  /\ worker' = Asleep
  /\ UNCHANGED <<day, status, end, notes, edits, student>>

LateIn(snapshot) == \E t \in DOMAIN snapshot : snapshot[t] < day

\* Mutant of Reviewed: the day of the alert is off by one.
ReviewedTomorrow ==
  /\ worker.pc = "reviewing"
  /\ worker' = IF LateIn(worker.snapshot)
               THEN [pc |-> "alerting", key |-> day + 1] ELSE Asleep
  /\ UNCHANGED <<day, status, end, notes, edits, faults, student>>

\* _progress_node looks at the clock after the review.
Reviewed ==
  /\ worker.pc = "reviewing"
  /\ worker' = IF LateIn(worker.snapshot)
               THEN [pc |-> "alerting", key |-> day] ELSE Asleep
  /\ UNCHANGED <<day, status, end, notes, edits, faults, student>>

Unread(key) == {i \in DOMAIN notes : notes[i].key = key /\ ~notes[i].read}

\* Mutant of Known: read notifications count too.
KnownOnce(key) == \E i \in DOMAIN notes : notes[i].key = key

\* Mutant of Known: only read notifications count.
KnownRead(key) == \E i \in DOMAIN notes : notes[i].key = key /\ notes[i].read

Known(key) == Unread(key) # {}

\* notification_create: the query for an unread notification with the key.
Alert ==
  /\ worker.pc = "alerting"
  /\ worker' = IF Known(worker.key) THEN Asleep ELSE [worker EXCEPT !.pc = "adding"]
  /\ UNCHANGED <<day, status, end, notes, edits, faults, student>>

AddNote ==
  /\ worker.pc = "adding"
  /\ notes' = Append(notes, [key |-> worker.key, read |-> FALSE])
  /\ worker' = Asleep
  /\ UNCHANGED <<day, status, end, edits, faults, student>>

-----------------------------------------------------------------------------
(* The student.                                                            *)

Serve(th, r) == request' = [request EXCEPT ![th] = r]

\* read-all takes every unread notification there is.
MarkBegins(th, op, ids) ==
  /\ request[th] = Idle /\ marks < MaxMarks
  /\ ids # {} /\ marks' = marks + 1
  /\ Serve(th, [op |-> op, ids |-> ids])
  /\ UNCHANGED <<day, status, end, notes, worker, edits, faults, reopened>>

\* Clearing the read_at of a row that was read as unread writes nothing.
Marked(op, ids) ==
  [i \in DOMAIN notes |-> IF i \in ids THEN [notes[i] EXCEPT !.read = (op = "read")]
                          ELSE notes[i]]

MarkCommits(th) ==
  /\ request[th] # Idle
  /\ LET r == request[th] IN
       /\ notes' = Marked(r.op, r.ids)
       /\ reopened' = IF r.op = "unread"
                      THEN reopened \cup {notes[i].key : i \in r.ids} ELSE reopened
  /\ Serve(th, Idle)
  /\ UNCHANGED <<day, status, end, worker, edits, marks, faults>>

\* update_task: the student finishes, reopens or moves a task.
EditTask(t, state, last) ==
  /\ edits < MaxEdits /\ edits' = edits + 1
  /\ status' = [status EXCEPT ![t] = state] /\ end' = [end EXCEPT ![t] = last]
  /\ UNCHANGED <<day, notes, worker, faults, student>>

NextDay ==
  /\ day < MaxDay /\ day' = day + 1
  /\ UNCHANGED <<status, end, notes, worker, edits, faults, student>>

\* The process stops; the lifespan of the next one starts a worker.
Restart ==
  /\ Fault
  /\ worker' = Asleep /\ request' = [th \in Threads |-> Idle]
  /\ UNCHANGED <<day, status, end, notes, edits, marks, reopened>>

WorkerStep == TakeSnapshot \/ Reviewed \/ Alert \/ AddNote

Next ==
  \/ WorkerStep \/ SnapshotFails \/ CheckFails \/ NextDay \/ Restart
  \/ \E th \in Threads :
       \/ MarkBegins(th, "read", {i \in DOMAIN notes : ~notes[i].read})
       \/ \E i \in DOMAIN notes :
            \/ MarkBegins(th, "read", {i})
            \/ notes[i].read /\ MarkBegins(th, "unread", {i})
       \/ MarkCommits(th)
  \/ \E t \in Tasks, state \in {"todo", "done"}, last \in Days :
       EditTask(t, state, last)

Spec == Init /\ [][Next]_vars

\* The event loop runs the worker; nobody has to do anything else.
FairSpec == Spec /\ WF_vars(WorkerStep)

-----------------------------------------------------------------------------
(* Properties *)

\* README 82: the worker "creates deduplicated notifications": the student
\* never has two unread ones of a day, unless one was marked unread again.
OneUnreadPerDay ==
  \A key \in Days \ reopened : \A i, j \in Unread(key) : i = j

\* README 82: the worker "detects overdue work": a task that stays overdue
\* comes to be announced by an unread notification of the day, unless a
\* failure of the database has ended the worker.
OverdueIsAnnounced ==
  \A t \in Tasks :
    t \in Overdue ~> t \notin Overdue \/ Unread(day) # {} \/ worker = Dead
=============================================================================
