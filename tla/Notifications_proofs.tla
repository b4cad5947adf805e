------------------------ MODULE Notifications_proofs ------------------------
(***************************************************************************)
(* Proofs about Notifications, for any tasks, threads, days and number of  *)
(* edits, marks and faults: the types, and that alerts are deduplicated    *)
(* although nothing but a query before the insert says so.                 *)
(***************************************************************************)
EXTENDS Notifications, TLAPS

\* Marking notifications gives notifications, as many as there were.
LEMMA MarkedTyped ==
  ASSUME TypeOK, NEW op \in {"read", "unread"}, NEW ids
  PROVE  Marked(op, ids) \in Seq(Note) /\ DOMAIN Marked(op, ids) = DOMAIN notes
<1>1. notes \in Seq(Note) /\ DOMAIN notes = 1..Len(notes) /\ Len(notes) \in Nat
  BY DEF TypeOK
<1>2. ASSUME NEW i \in DOMAIN notes
      PROVE  /\ notes[i] \in Note
             /\ [notes[i] EXCEPT !.read = (op = "read")] \in Note
  <2>1. (op = "read") \in BOOLEAN
    OBVIOUS
  <2>2. notes[i] \in Note
    BY <1>1
  <2> QED
    BY <2>1, <2>2 DEF Note
<1>3. Marked(op, ids) \in [1..Len(notes) -> Note]
  BY <1>1, <1>2 DEF Marked
<1> QED
  BY <1>1, <1>3

\* Adding a notification moves none of those there are.
LEMMA AppendTyped ==
  ASSUME TypeOK, NEW n \in Note
  PROVE  /\ Append(notes, n) \in Seq(Note)
         /\ DOMAIN notes \subseteq DOMAIN Append(notes, n)
BY DEF TypeOK

\* Every state the specification reaches has its types.
THEOREM Typing == Spec => []TypeOK
<1> USE BoundsAssumption DEF BoundsAssumption, TypeOK, Days
<1>1. Init => TypeOK
  BY DEF Init, Idle, Asleep
<1>2. TypeOK /\ [Next]_vars => TypeOK'
  <2> SUFFICES ASSUME TypeOK, [Next]_vars PROVE TypeOK'
    OBVIOUS
  <2> USE DEF student
  <2>1. CASE TakeSnapshot
    <3>1. Snapshot \in Snapshots
      <4> DEFINE todo == {u \in Tasks : status[u] = "todo"}
      <4>1. Snapshot \in [todo -> Days]
        BY DEF Snapshot
      <4>2. todo \in SUBSET Tasks
        OBVIOUS
      <4> HIDE DEF todo
      <4> QED
        BY <4>1, <4>2 DEF Snapshots
    <3> QED
      BY <2>1, <3>1 DEF TakeSnapshot
  <2>2. CASE Reviewed
    BY <2>2 DEF Reviewed, Asleep
  <2>3. CASE Alert
    <3>1. worker \in [pc : {"alerting", "adding"}, key : Days]
      BY <2>3 DEF Alert, Asleep, Dead
    <3>2. worker' \in {Asleep} \cup [pc : {"alerting", "adding"}, key : Days]
      BY <2>3, <3>1 DEF Alert
    <3> QED
      BY <2>3, <3>2 DEF Alert
  <2>4. CASE AddNote
    <3>1. [key |-> worker.key, read |-> FALSE] \in Note
      BY <2>4 DEF AddNote, Note, Asleep, Dead
    <3>2. notes' \in Seq(Note) /\ DOMAIN notes \subseteq DOMAIN notes'
      BY <2>4, <3>1, AppendTyped DEF AddNote
    <3>3. \A th \in Threads : request[th] \in {Idle}
            \cup [op : {"read", "unread"}, ids : SUBSET DOMAIN notes']
      BY <3>2
    <3> QED
      BY <2>4, <3>2, <3>3 DEF AddNote
  <2>5. CASE SnapshotFails
    BY <2>5 DEF SnapshotFails, Fault
  <2>6. CASE CheckFails
    BY <2>6 DEF CheckFails, Fault
  <2>7. CASE NextDay
    BY <2>7 DEF NextDay
  <2>8. CASE Restart
    BY <2>8 DEF Restart, Fault
  <2>9. ASSUME NEW th \in Threads, NEW op \in {"read", "unread"},
               NEW ids \in SUBSET DOMAIN notes, MarkBegins(th, op, ids)
        PROVE  TypeOK'
    <3>1. \A x \in Threads : request'[x] = request[x]
                              \/ request'[x] = [op |-> op, ids |-> ids]
      BY <2>9 DEF MarkBegins, Serve
    <3>2. [op |-> op, ids |-> ids]
            \in [op : {"read", "unread"}, ids : SUBSET DOMAIN notes]
      OBVIOUS
    <3>3. \A x \in Threads : request'[x] \in {Idle}
            \cup [op : {"read", "unread"}, ids : SUBSET DOMAIN notes]
      BY <3>1, <3>2
    <3>4. marks' \in 0..MaxMarks
      BY <2>9 DEF MarkBegins
    <3> QED
      BY <2>9, <3>3, <3>4 DEF MarkBegins
  <2>10. ASSUME NEW th \in Threads, MarkCommits(th) PROVE TypeOK'
    <3>1. request[th] \in [op : {"read", "unread"}, ids : SUBSET DOMAIN notes]
      BY <2>10 DEF MarkCommits
    <3>2. notes' \in Seq(Note) /\ DOMAIN notes' = DOMAIN notes
      BY <2>10, <3>1, MarkedTyped DEF MarkCommits
    <3>3. \A i \in request[th].ids : notes[i].key \in Days
      <4> SUFFICES ASSUME NEW i \in request[th].ids PROVE notes[i].key \in Days
        OBVIOUS
      <4>1. i \in DOMAIN notes
        BY <3>1
      <4>2. notes[i] \in Note
        BY <4>1
      <4> QED
        BY <4>2 DEF Note
    <3>4. \A x \in Threads : request'[x] = request[x] \/ request'[x] = Idle
      BY <2>10 DEF MarkCommits, Serve
    <3>5. \A x \in Threads : request'[x] \in {Idle}
            \cup [op : {"read", "unread"}, ids : SUBSET DOMAIN notes']
      BY <3>2, <3>4
    <3>6. reopened' \subseteq Days
      <4>1. \/ reopened' = reopened
            \/ reopened' = reopened \cup {notes[i].key : i \in request[th].ids}
        BY <2>10 DEF MarkCommits
      <4>2. {notes[i].key : i \in request[th].ids} \subseteq Days
        <5> HIDE DEF TypeOK, Days
        <5> QED
          BY <3>3
      <4> QED
        BY <4>1, <4>2
    <3>7. UNCHANGED <<day, status, end, worker, edits, marks, faults>>
      BY <2>10 DEF MarkCommits
    <3> QED
      BY <3>2, <3>5, <3>6, <3>7
  <2>11. ASSUME NEW t \in Tasks, NEW state \in {"todo", "done"},
                NEW last \in Days, EditTask(t, state, last)
         PROVE  TypeOK'
    BY <2>11 DEF EditTask
  <2>12. CASE UNCHANGED vars
    BY <2>12 DEF vars
  <2> QED
    BY <2>1, <2>2, <2>3, <2>4, <2>5, <2>6, <2>7, <2>8, <2>9, <2>10, <2>11,
       <2>12 DEF Next, WorkerStep
<1> QED
  BY <1>1, <1>2, PTL DEF Spec

-----------------------------------------------------------------------------
(* Deduplication.  The query and the insert are two steps; the property is *)
(* inductive with what the worker has seen in between: as long as the key  *)
(* was not reopened, no unread notification of it has appeared.            *)

Deduplicated ==
  /\ OneUnreadPerDay
  /\ worker.pc = "adding" /\ worker.key \notin reopened
       => Unread(worker.key) = {}

\* A request makes none unread but those of the keys it reopens.
LEMMA FewerUnread ==
  ASSUME TypeOK, NEW th \in Threads, MarkCommits(th)
  PROVE  /\ reopened \subseteq reopened'
         /\ \A key \in Days : key \notin reopened' => Unread(key)' \subseteq Unread(key)
<1> DEFINE r == request[th]
<1>1. r \in [op : {"read", "unread"}, ids : SUBSET DOMAIN notes]
  BY DEF TypeOK, MarkCommits
<1>2. /\ notes' = Marked(r.op, r.ids)
      /\ reopened' = IF r.op = "unread"
                     THEN reopened \cup {notes[i].key : i \in r.ids} ELSE reopened
  BY DEF MarkCommits
<1> SUFFICES ASSUME NEW key \in Days, key \notin reopened', NEW i \in Unread(key)'
             PROVE  i \in Unread(key)
  BY <1>2
<1>3. i \in DOMAIN notes /\ notes'[i].key = key /\ ~notes'[i].read
  BY <1>1, <1>2, MarkedTyped DEF Unread
<1>4. notes[i] \in Note
  BY <1>3 DEF TypeOK
<1>5. CASE i \notin r.ids
  <2>1. notes'[i] = notes[i]
    BY <1>2, <1>3, <1>5 DEF Marked
  <2> QED
    BY <1>3, <2>1 DEF Unread
<1>6. CASE i \in r.ids
  <2>1. notes'[i] = [notes[i] EXCEPT !.read = (r.op = "read")]
    BY <1>2, <1>3, <1>6 DEF Marked
  <2>2. notes[i].key = key /\ r.op # "read"
    BY <1>3, <1>4, <2>1 DEF Note
  <2>3. key \in reopened'
    BY <1>1, <1>2, <1>6, <2>2
  <2> QED
    BY <2>3
<1> QED
  BY <1>5, <1>6

\* Deduplicated is inductive, given the types.
LEMMA DeduplicatedStep == TypeOK /\ Deduplicated /\ [Next]_vars => Deduplicated'
<1> SUFFICES ASSUME TypeOK, Deduplicated, [Next]_vars PROVE Deduplicated'
  OBVIOUS
<1>1. CASE Alert
  <2>1. UNCHANGED <<notes, reopened>>
    BY <1>1 DEF Alert, student
  <2>2. Unread(worker.key) = {} \/ worker'.pc # "adding"
    BY <1>1 DEF Alert, Known, Asleep
  <2>3. worker'.pc = "adding" => worker'.key = worker.key
    BY <1>1 DEF Alert, Asleep, TypeOK, Dead
  <2> QED
    BY <2>1, <2>2, <2>3 DEF Deduplicated, OneUnreadPerDay, Unread
<1>2. CASE AddNote
  <2>1. /\ worker.key \in Days
        /\ notes \in Seq(Note)
    BY <1>2 DEF AddNote, TypeOK, Asleep, Dead
  <2>2. /\ notes' = Append(notes, [key |-> worker.key, read |-> FALSE])
        /\ reopened' = reopened /\ worker'.pc # "adding" /\ worker.pc = "adding"
    BY <1>2 DEF AddNote, student, Asleep
  <2>3. \A key \in Days : key # worker.key => Unread(key)' \subseteq Unread(key)
    BY <2>1, <2>2 DEF Unread
  <2>4. Unread(worker.key) = {} =>
          \A i \in DOMAIN notes' :
            notes'[i].key = worker.key /\ ~notes'[i].read => i = Len(notes')
    BY <2>1, <2>2 DEF Unread
  <2>5. ASSUME NEW key \in Days \ reopened', NEW i \in Unread(key)',
               NEW j \in Unread(key)'
        PROVE  i = j
    <3>1. CASE key = worker.key
      BY <2>2, <2>4, <2>5, <3>1 DEF Deduplicated, Unread
    <3>2. CASE key # worker.key
      BY <2>2, <2>3, <2>5, <3>2 DEF Deduplicated, OneUnreadPerDay
    <3> QED
      BY <3>1, <3>2
  <2> QED
    BY <2>2, <2>5 DEF Deduplicated, OneUnreadPerDay
<1>3. ASSUME NEW th \in Threads, MarkCommits(th) PROVE Deduplicated'
  <2>1. OneUnreadPerDay'
    BY <1>3, FewerUnread DEF Deduplicated, OneUnreadPerDay
  <2>2. worker' = worker /\ (worker.pc = "adding" => worker.key \in Days)
    BY <1>3 DEF MarkCommits, TypeOK, Asleep, Dead
  <2> QED
    BY <1>3, <2>1, <2>2, FewerUnread DEF Deduplicated
<1>4. ASSUME UNCHANGED <<notes, reopened>>,
             worker' = worker \/ worker'.pc # "adding"
      PROVE  Deduplicated'
  BY <1>4 DEF Deduplicated, OneUnreadPerDay, Unread
<1>5. CASE TakeSnapshot \/ Reviewed \/ SnapshotFails \/ CheckFails \/ NextDay
           \/ Restart \/ UNCHANGED vars
  BY <1>4, <1>5 DEF TakeSnapshot, Reviewed, SnapshotFails, CheckFails, NextDay,
                    Restart, vars, student, Asleep, Dead
<1>6. ASSUME NEW th \in Threads, NEW op, NEW ids, MarkBegins(th, op, ids)
      PROVE  Deduplicated'
  BY <1>4, <1>6 DEF MarkBegins
<1>7. ASSUME NEW t \in Tasks, NEW state, NEW last, EditTask(t, state, last)
      PROVE  Deduplicated'
  BY <1>4, <1>7 DEF EditTask, student
<1> QED
  BY <1>1, <1>2, <1>3, <1>5, <1>6, <1>7 DEF Next, WorkerStep

\* _apply_event on notification_create: the student never has two unread
\* notifications of a day, unless one of them was marked unread again.
THEOREM NoDoubleAlert == Spec => []OneUnreadPerDay
<1>1. Init => Deduplicated
  BY DEF Init, Deduplicated, OneUnreadPerDay, Unread, Asleep
<1>2. Deduplicated => OneUnreadPerDay
  BY DEF Deduplicated
<1> QED
  BY <1>1, <1>2, DeduplicatedStep, Typing, PTL DEF Spec
=============================================================================
