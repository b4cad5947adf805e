----------------------------- MODULE ReplanCycle -----------------------------
(***************************************************************************)
(* What a course's tasks become when plans are made and approved over and  *)
(* over: the snapshot of the tasks, the candidates _collect_candidates     *)
(* draws from it, the titles _assemble gives their sessions, and the tasks *)
(* _calendar_events writes them to.  Tasks are recognised by their titles, *)
(* so titles are modelled by what the code adds to them and strips off:    *)
(* the verbs before a name and the "(session k of n)" marks behind it.     *)
(*                                                                         *)
(* The days of the sessions are PlanSchedule's and the conversation is     *)
(* ApprovalWorkflow's: here a plan is made and approved in one step.       *)
(***************************************************************************)
EXTENDS Naturals, Sequences, FiniteSets, SequencesExt

CONSTANTS
  Own,        \* names of tasks the student has entered
  Materials,  \* filenames of the slide decks
  Topics,     \* topics of the quiz questions
  Assessed,   \* the names with "exam", "quiz", "midterm", "final" in them
  Sessions,   \* the sessions the page count of a slide deck asks for
  Depths,     \* the depths a design may state; none when the rules plan
  Copies,     \* how many tasks of each name the student may have at first
  LeftOut,    \* bound: how many candidates a request leaves out
  Edits,      \* what the student does: set a status, "enter", "rename",
              \* "delete", "quiz"
  MaxPlans,   \* bound: how many plans are approved
  MaxEdits    \* bound: how often the student does something

Names == Own \cup Materials \cup Topics

ASSUME NamesAssumption == Assessed \subseteq Names /\ IsFiniteSet(Names)
ASSUME DepthsAssumption ==
  Sessions \in [Materials -> Nat \ {0}] /\ Depths \subseteq Nat \ {0}
ASSUME BoundsAssumption ==
  Copies \subseteq [Own -> Nat] /\ LeftOut \in Nat /\ MaxPlans \in Nat /\ MaxEdits \in Nat

VARIABLES
  rows,       \* the tasks of the course
  weak,       \* the topics with a mastery of 0; that of the others is 0.7
  planned,    \* history: the number of sessions of each title last planned
  calm,       \* history: what the last plan covered, "all" or "part" of the
              \* candidates, if nothing has changed since; else "no"
  lost,       \* history: the titles whose tasks the student has made the
              \* code lose count of
  plans,      \* how many plans were approved
  edits       \* how often the student did something

vars == <<rows, weak, planned, calm, lost, plans, edits>>

Verbs == {"Study", "Prepare for", "Review"}
Mark  == [k : Nat, n : Nat]
Title == [verbs : Seq(Verbs), name : Names, marks : Seq(Mark)]

Plain(n)      == [verbs |-> <<>>, name |-> n, marks |-> <<>>]
With(verb, t) == [t EXCEPT !.verbs = <<verb>> \o @]

\* Mutant of Numbered: a title always has its session number.
NumberedAlways(t, k, n) == [t EXCEPT !.marks = Append(@, [k |-> k, n |-> n])]

\* _assemble: a single session has no number.
Numbered(t, k, n) ==
  IF n > 1 THEN [t EXCEPT !.marks = Append(@, [k |-> k, n |-> n])] ELSE t

\* _base_title strips the last number.
Base(t) == IF t.marks = <<>> THEN t ELSE [t EXCEPT !.marks = Front(@)]

Statuses == {"todo", "done", "skipped"}

\* The tasks of one title are told apart by a number.
Row(t, n) == [title |-> t, status |-> "todo", copy |-> n]

TypeOK ==
  /\ rows \subseteq [title : Title, status : Statuses, copy : Nat \ {0}]
  /\ weak \subseteq Topics
  /\ \A t \in DOMAIN planned : t \in Title /\ planned[t] \in Nat \ {0}
  /\ calm \in {"no", "part", "all"} /\ lost \subseteq Title
  /\ plans \in 0..MaxPlans /\ edits \in 0..MaxEdits

\* The student may have several tasks of one title: no request checks it.
Init ==
  /\ \E copies \in Copies :
       /\ rows = UNION {{Row(Plain(n), k) : k \in 1..copies[n]} : n \in Own}
       /\ lost = {Plain(n) : n \in {m \in Own : copies[m] > 1}}
  /\ weak \in SUBSET Topics
  /\ planned = <<>> /\ calm = "no" /\ plans = 0 /\ edits = 0

-----------------------------------------------------------------------------
(* The snapshot, and the candidates in it.                                 *)

Titled(statuses) == {r.title : r \in {s \in rows : s.status \in statuses}}
Done == Titled({"done"})

Todo == Titled({"todo"})

\* Every task with one of the words in its title, whatever its status: one
\* that is skipped is in no other list of the snapshot.
Exam(t)   == t.name \in Assessed
Deadlines == {r \in rows : Exam(r.title)}

Completed(t) == \E d \in Done : Base(d) = Base(t)

Larger(a, b) == IF a < b THEN b ELSE a

\* Mutant of Effort: the sessions of a topic mastered shrink without a floor.
EffortWithoutFloor(sessions, t) ==
  IF t.name \notin weak THEN sessions \div 4 ELSE sessions

\* _effort_units, without a page count and with one.  A mastery of 0 takes
\* 1.75 times the sessions, rounded, up to MAX_SESSIONS_PER_ITEM + 2.
Effort(sessions, t) ==
  LET more == (7 * sessions + 2) \div 4 IN
  IF t.name \notin weak THEN sessions ELSE IF more > 8 THEN 8 ELSE more

\* A task's page count is recovered from the slide deck it is named after.
Pages(t) ==
  IF t.name \in Materials /\ t.marks = <<>> /\ t.verbs \in {<<>>, <<"Study">>}
  THEN Sessions[t.name] ELSE 1

Item(t, effort) == [title |-> t, effort |-> effort]

\* Mutant of Grouped: finished tasks are remaining too.
GroupedAll == {Base(t) : t \in Titled({"todo", "done"})}

\* The sessions of an earlier plan collapse into the title they came from.
Grouped  == {b \in {Base(t) : t \in Todo} : ~Completed(b)}
Count(b) == Cardinality({r \in rows : r.status = "todo" /\ Base(r.title) = b})
Remaining == {Item(b, Larger(Count(b), Effort(Pages(b), b))) : b \in Grouped}

ToPrepare == {d \in {r.title : r \in Deadlines} : With("Prepare for", d) \notin Grouped}
Preparation ==
  {Item(With("Prepare for", d), Larger(2, Effort(1, d))) : d \in ToPrepare}

\* Not finished under its own name, and not a candidate yet.
New(verb, n) == ~Completed(Plain(n)) /\ With(verb, Plain(n)) \notin Grouped

Study ==
  {Item(With("Study", Plain(m)), Effort(Sessions[m], Plain(m))) :
     m \in {n \in Materials : New("Study", n)}}

Revision ==
  {Item(With("Review", Plain(n)), Effort(1, Plain(n))) :
     n \in {t \in weak : New("Review", t)}}

Candidates == Remaining \cup Preparation \cup Study \cup Revision

-----------------------------------------------------------------------------
\* _apply_scope: excluding everything excludes nothing.
Scopes ==
  LET all == Candidates IN
  ({all} \cup {all \ Range(out) : out \in [1..LeftOut -> all]}) \ {{}}

\* A candidate of the design gets the depth stated, any other its effort.
DepthsOf(scope) ==
  LET designs == IF Depths = {} THEN {{}} ELSE SUBSET scope IN
  UNION {{[c \in scope |-> IF c \in designed THEN f[c] ELSE c.effort] :
            f \in [designed -> Depths]} : designed \in designs}

SessionTitles(scope, depth) ==
  UNION {{Numbered(c.title, k, depth[c]) : k \in 1..depth[c]} : c \in scope}

\* How many events have a title: one for its session, one for each deadline.
Events(t, sessions) ==
  Cardinality({r \in Deadlines : r.title = t}) + (IF t \in sessions THEN 1 ELSE 0)

\* The tasks an event of this title may be written to.
Known(t) == {r \in rows : r.title = t /\ r.status # "skipped"}

\* The first k numbers no task of the title has.
Unused(t, k) ==
  LET free == (1..(k + Cardinality(rows))) \ {r.copy : r \in {x \in rows : x.title = t}}
  IN  {n \in free : Cardinality({m \in free : m < n}) < k}

\* Mutant of Written: tasks the student already has are not recognised.
WrittenAnew(sessions) ==
  {rows \cup UNION {{Row(t, n) : n \in Unused(t, 1)} : t \in sessions}}

\* A task with the title of an event, and its date if there are several, is
\* written again, as still to do; a title no task has is entered.
Written(sessions) ==
  LET titles  == sessions \cup {r.title : r \in Deadlines}
      alone   == UNION {Known(t) : t \in {u \in titles : Cardinality(Known(u)) = 1}}
      several == UNION {Known(t) : t \in titles} \ alone
      entered == UNION {{Row(t, n) : n \in Unused(t, Events(t, sessions))} :
                          t \in {u \in titles : Known(u) = {}}}
      Hits(some) == \A t \in {r.title : r \in several} :
        Cardinality(some \cap Known(t)) \in 1..Events(t, sessions)
  IN {(rows \ (alone \cup some)) \cup entered
        \cup {[r EXCEPT !.status = "todo"] : r \in alone \cup some} :
        some \in {x \in SUBSET several : Hits(x)}}

Approve(scope, depth) ==
  /\ plans < MaxPlans
  /\ rows' \in Written(SessionTitles(scope, depth))
  /\ planned' = [t \in {c.title : c \in scope} |->
                   depth[CHOOSE c \in scope : c.title = t]]
  /\ calm' = (IF scope = Candidates THEN "all" ELSE "part")
  /\ plans' = plans + 1
  /\ UNCHANGED <<weak, lost, edits>>

\* What happens after the last plan is left out, as no plan follows it.
Edit(kind) ==
  /\ kind \in Edits /\ edits < MaxEdits /\ plans < MaxPlans
  /\ edits' = edits + 1 /\ calm' = "no" /\ UNCHANGED <<planned, plans>>

\* A numbered session of work without a page count is out of the list.
LosesCount(r) == r.title.marks # <<>> /\ Pages(Base(r.title)) = 1

\* A skipped session is taken up again after a plan has entered it anew.
BackTwice(r) == r.status = "skipped" /\ Known(r.title) # {}

SetStatus(r, status) ==
  /\ Edit(status) /\ r.status # status
  /\ rows' = (rows \ {r}) \cup {[r EXCEPT !.status = status]}
  /\ lost' = IF BackTwice(r) \/ (status = "skipped" /\ LosesCount(r))
             THEN lost \cup {Base(r.title)} ELSE lost
  /\ UNCHANGED weak

\* A task entered or renamed beside another of its title: the code takes the
\* two for sessions of one piece of work.
Repeated(t) == {t} \cap {r.title : r \in rows}
Gone(r)     == IF LosesCount(r) THEN {Base(r.title)} ELSE {}

Enter(n) ==
  /\ Edit("enter")
  /\ rows' = rows \cup {Row(Plain(n), k) : k \in Unused(Plain(n), 1)}
  /\ lost' = lost \cup Repeated(Plain(n))
  /\ UNCHANGED weak

Rename(r, n) ==
  /\ Edit("rename") /\ r.title # Plain(n)
  /\ rows' = (rows \ {r}) \cup
       {[r EXCEPT !.title = Plain(n), !.copy = k] : k \in Unused(Plain(n), 1)}
  /\ lost' = lost \cup Repeated(Plain(n)) \cup Gone(r)
  /\ UNCHANGED weak

Delete(r) ==
  /\ Edit("delete")
  /\ rows' = rows \ {r}
  /\ lost' = lost \cup Gone(r)
  /\ UNCHANGED weak

\* A completed quiz changes the mastery of a topic.
Quiz(n) ==
  /\ Edit("quiz")
  /\ weak' = IF n \in weak THEN weak \ {n} ELSE weak \cup {n}
  /\ UNCHANGED <<rows, lost>>

Next ==
  \/ \E scope \in Scopes : \E depth \in DepthsOf(scope) : Approve(scope, depth)
  \/ \E r \in rows : Delete(r) \/ \E s \in Statuses : SetStatus(r, s)
  \/ \E n \in Own : Enter(n) \/ \E r \in rows : Rename(r, n)
  \/ \E n \in Topics : Quiz(n)

Spec == Init /\ [][Next]_vars

-----------------------------------------------------------------------------
(* Properties *)

Planning == plans' # plans

\* Titles the code loses count of: the preparation for an exam is an exam of
\* its own by its name; work without a page count is planned anew, beside what
\* is left of it, when the student has deleted, renamed or skipped some of its
\* sessions, and so is work of which a skipped session is taken up again too
\* late; and two tasks to which the student gave one title are grouped like
\* two sessions of one piece of work.
Miscounted(t) == Exam(t) \/ t \in lost
Counted(set)  == {r \in set : ~Miscounted(Base(r.title))}

StudentsOwn(t) ==
  t.verbs = <<>> /\ t.marks = <<>> /\ t.name \in Own /\ ~Miscounted(t)

\* "replanning staying idempotent": a plan of everything, made and approved
\* when nothing has changed since the last one, leaves the calendar as it is.
ReplanIsIdempotent ==
  [][calm = "all" /\ Planning /\ calm' = "all" => Counted(rows') = Counted(rows)]_vars

\* "so replanning does not multiply the work": after a plan the calendar has
\* no more open sessions of a title than the plan gave it.
WorkNotMultiplied ==
  calm # "no" => \A t \in DOMAIN planned : Count(t) <= planned[t] \/ Miscounted(t)

\* "Convert approved events into idempotent task updates": however often plans
\* are made, two tasks of a title are never both on, unless the student has
\* taken up one that was skipped, or has given two tasks one title.
NoTaskTwice ==
  \A r, s \in rows :
    r.title = s.title /\ r # s => "skipped" \in {r.status, s.status} \/ Miscounted(Base(r.title))

\* The tasks the student entered, exams and those of one title aside, are
\* planned while they are open, unless the request leaves something out, and
\* left alone once they are done or skipped.
OwnTasksRespected ==
  [][Planning => \A r \in rows : StudentsOwn(r.title) =>
       IF r.status = "todo" THEN calm' = "part" \/ r.title \in DOMAIN planned'
       ELSE r.title \notin DOMAIN planned' /\ r \in rows']_vars

-----------------------------------------------------------------------------
(* What the documentation says, and the code does not keep (see findings). *)

\* "Finished work is excluded": a plan has nothing the student has finished,
\* all sessions of it being done.
FinishedExcluded ==
  [][Planning => \A t \in DOMAIN planned' :
       (\E d \in Done : Base(d) = t) => \E u \in Todo : Base(u) = t]_vars
=============================================================================
