--------------------------- MODULE ApprovalWorkflow ---------------------------
(***************************************************************************)
(* One chat conversation that asks for study plans and answers the         *)
(* approval question: LangGraphSupervisor.handle with its _paused_threads, *)
(* the LangGraph checkpoints behind it, and the calendar tasks its events  *)
(* are written to.                                                         *)
(*                                                                         *)
(* A turn runs on the event loop, except graph.invoke, which runs in a     *)
(* thread while the loop serves other turns.  Events are written one       *)
(* commit at a time with no await in between; the student's own task       *)
(* edits run in threads of their own.  What the language models decide is  *)
(* a nondeterministic choice.                                              *)
(*                                                                         *)
(* A plan is the set of its items; an item stands for a course and a title, *)
(* which is what _calendar_events matches existing tasks by.               *)
(***************************************************************************)
EXTENDS Naturals, FiniteSets

CONSTANTS
  Items,      \* what a plan can schedule
  Turns,      \* the chat requests of the conversation, in order of arrival
  InFlight,   \* bound: the requests served at the same time
  Marks,      \* the statuses the student sets on a task
  Faults,     \* the kinds of fault that happen
  MaxFaults   \* bound: how many do

ASSUME TurnsAssumption == Turns \subseteq Nat \ {0}
ASSUME BoundsAssumption == InFlight \in Nat /\ MaxFaults \in Nat
ASSUME KindsAssumption ==
  /\ Marks \subseteq {"todo", "done", "skipped"}
  /\ Faults \subseteq {"cancel", "apply", "llm", "crash"}

VARIABLES
  turn,       \* the chat requests
  paused,     \* _paused_threads: the run that waits for an answer, if any
  runs,       \* the checkpoint of each graph run, named by its first turn
  rows,       \* the study tasks in the database
  lastId,     \* the last task id given out
  loop,       \* the turn that is writing its events
  shown,      \* history: the plan the student was shown last
  faults      \* how many faults have happened

vars == <<turn, paused, runs, rows, lastId, loop, shown, faults>>

NoTurn   == 0
Nothing  == [pc |-> "none", ask |-> "none", plan |-> {}, events |-> {}]
NoRun    == [run |-> NoTurn, plan |-> {}]
Finished(events)   == [Nothing EXCEPT !.pc = "finished", !.events = events]
Asking(ask, plan)  == [Nothing EXCEPT !.pc = "asking", !.ask = ask, !.plan = plan]
\* The planning node raised after the approval node took an answer.
Broken == [Nothing EXCEPT !.pc = "broken"]

Event == [id : 0..lastId, item : Items]
Row   == [id : 1..lastId, item : Items, status : {"todo", "done", "skipped"}]
Check == [pc : {"none", "asking", "finished", "broken"},
          ask : {"none", "calendar_approval", "plan_input"},
          plan : SUBSET Items, events : SUBSET Event]

TypeOK ==
  /\ lastId \in Nat
  /\ rows \subseteq Row
  /\ runs \in [Turns -> Check]
  /\ paused \in [run : Turns \cup {NoTurn}, plan : SUBSET Items]
  /\ turn \in [Turns ->
       [pc : {"new", "arrived", "queued", "running", "orphan", "returned", "ended"},
        say : {"plan", "change", "yes", "no"}, saw : SUBSET Items,
        snap : SUBSET Row, run : Turns \cup {NoTurn}, check : Check]]
  /\ loop \in Turns \cup {NoTurn}
  /\ shown \subseteq Items
  /\ faults \in 0..MaxFaults

Fresh == [pc |-> "new", say |-> "plan", saw |-> {}, snap |-> {}, run |-> NoTurn,
          check |-> Nothing]

Init ==
  /\ turn = [r \in Turns |-> Fresh] /\ paused = NoRun
  /\ runs = [r \in Turns |-> Nothing]
  /\ rows = {} /\ lastId = 0 /\ loop = NoTurn /\ shown = {} /\ faults = 0

At(r, pc)    == turn[r].pc = pc
Active(r)    == turn[r].pc \notin {"new", "ended"}
Serving      == {r \in Turns : Active(r) /\ turn[r].pc # "orphan"}
Move(r, pc)  == turn' = [turn EXCEPT ![r].pc = pc]
\* What a turn said, and to which run, is kept for the properties.
Over(t)      == [Fresh EXCEPT !.pc = "ended", !.say = t.say, !.run = t.run]
Ends(r)      == turn' = [turn EXCEPT ![r] = Over(turn[r])]
LoopFor(r)   == loop \in {NoTurn, r}
Fault(kind)  == kind \in Faults /\ faults < MaxFaults /\ faults' = faults + 1

-----------------------------------------------------------------------------
\* chat_completions: the snapshot is read before the supervisor is called.
\* It carries the tasks that are done or still to do, not the skipped ones.
Arrive(r, say) ==
  /\ At(r, "new") /\ \A q \in Turns : At(q, "new") => r <= q
  /\ loop = NoTurn /\ Cardinality(Serving) < InFlight
  /\ turn' = [turn EXCEPT ![r] =
       [Fresh EXCEPT !.pc = "arrived", !.say = say, !.saw = shown,
                     !.snap = {t \in rows : t.status # "skipped"}]]
  /\ UNCHANGED <<paused, runs, rows, lastId, loop, shown, faults>>

\* handle up to its await: without a pending question the message goes to a
\* new graph run; with one the communication agent decides what it is.
NewRun(r) ==
  turn' = [turn EXCEPT ![r].pc = "queued", ![r].run = r]

Begin(r) ==
  /\ At(r, "arrived") /\ loop = NoTurn
  /\ \/ paused = NoRun /\ NewRun(r) /\ UNCHANGED paused
     \/ paused # NoRun /\ Ends(r) /\ UNCHANGED paused
     \/ /\ paused # NoRun
        /\ turn' = [turn EXCEPT ![r].pc = "queued", ![r].run = paused.run]
        /\ UNCHANGED paused
     \/ paused # NoRun /\ NewRun(r) /\ paused' = NoRun
  /\ UNCHANGED <<runs, rows, lastId, loop, shown, faults>>

-----------------------------------------------------------------------------
(* graph.invoke, in a thread: it reads the checkpoint of its run, and      *)
(* saves the new one when a node interrupts or the run ends.               *)

GraphStarts(r) ==
  /\ At(r, "queued")
  /\ turn' = [turn EXCEPT ![r].pc = "running", ![r].check = runs[turn[r].run]]
  /\ UNCHANGED <<paused, runs, rows, lastId, loop, shown, faults>>

\* prepare_plan: questions, or a draft, which may hold items that have a task
\* already, whatever its status, and may be empty.
Planned ==
  {Asking("plan_input", {})} \cup {Asking("calendar_approval", p) : p \in SUBSET Items}

\* Mutant of KnownId: tasks the student already has are not recognised.
NewId(item, snap) == 0

\* _calendar_events: the id of the task the item already has, or none.  The
\* code takes the last of several; which one it is makes no difference here.
KnownId(item, snap) ==
  IF \E t \in snap : t.item = item
  THEN (CHOOSE t \in snap : t.item = item).id ELSE 0

Calendar(plan, snap) == {[id |-> KnownId(i, snap), item |-> i] : i \in plan}

\* Mutant of Answered: whatever is not a refusal is taken as approval.
AnsweredLoosely(check, t) ==
  IF check.ask = "plan_input" THEN Planned
  ELSE IF t.say = "no" THEN {Finished({})}
  ELSE {Finished(Calendar(check.plan, t.snap))}

\* Mutant of Answered: approval plans again and writes what that gives.
ReplannedOnYes(check, t) ==
  IF t.say = "yes" THEN {Finished(Calendar(c.plan, t.snap)) : c \in Planned}
  ELSE IF t.say = "no" THEN {Finished({})} ELSE Planned

\* The planning node with the answer to its question.
Answered(check, t) ==
  IF check.ask = "plan_input" THEN Planned
  ELSE CASE t.say = "yes" -> {Finished(Calendar(check.plan, t.snap))}
         [] t.say = "no"  -> {Finished({})}
         [] OTHER         -> Planned

\* Mutant of Results: resuming a run that is over waits for ever.
NoResultsWhenOver(t) ==
  CASE t.check.pc = "none"   -> Planned \cup {Finished({})}
    [] t.check.pc = "asking" -> Answered(t.check, t)
    [] OTHER                 -> {}

\* A new run may not concern a plan at all; a run that is over is resumed
\* into nothing and yields the state it ended with; a broken one plans again
\* with the answer it already had.
Results(t) ==
  CASE t.check.pc = "none"     -> Planned \cup {Finished({})}
    [] t.check.pc = "asking"   -> Answered(t.check, t)
    [] t.check.pc = "finished" -> {t.check}
    [] t.check.pc = "broken"   -> Planned

GraphReturns(r) ==
  /\ turn[r].pc \in {"running", "orphan"}
  /\ \E c \in Results(turn[r]) :
       /\ runs' = [runs EXCEPT ![turn[r].run] = c]
       /\ IF At(r, "orphan") THEN Ends(r)
          ELSE turn' = [turn EXCEPT ![r].check = c, ![r].pc = "returned"]
  /\ UNCHANGED <<paused, rows, lastId, loop, shown, faults>>

\* A model call raises in the communication agent or in a graph node.
ModelFails(r) ==
  /\ turn[r].pc \in {"arrived", "running", "orphan"} /\ Fault("llm")
  /\ At(r, "arrived") => loop = NoTurn
  /\ LET c == turn[r].check IN
       runs' = IF At(r, "arrived") \/ c.pc # "asking" THEN runs
               ELSE [runs EXCEPT ![turn[r].run] = Broken]
  /\ turn[r].check.ask = "calendar_approval" => turn[r].say \notin {"yes", "no"}
  /\ turn[r].check.pc # "finished"
  /\ Ends(r)
  /\ UNCHANGED <<paused, rows, lastId, loop, shown>>

\* The client closes the stream: the turn is cancelled, and with it a thread
\* that has not started yet, but not one that has.
Disconnect(r) ==
  /\ turn[r].pc \in {"arrived", "queued", "running"} /\ Fault("cancel")
  /\ IF At(r, "running") THEN Move(r, "orphan") ELSE Ends(r)
  /\ UNCHANGED <<paused, runs, rows, lastId, loop, shown>>

-----------------------------------------------------------------------------
(* The turn after graph.invoke: _apply_event for every event, then the     *)
(* pending question is recorded or cleared.                                *)

\* Mutant of Written: the task keeps the status of its plan.
WrittenAsPlanned(id, item) == [id |-> id, item |-> item, status |-> "planned"]

Written(id, item) == [id |-> id, item |-> item, status |-> "todo"]

Upsert(e) ==
  IF e.id = 0
  THEN /\ rows' = rows \cup {Written(lastId + 1, e.item)}
       /\ lastId' = lastId + 1
  ELSE /\ rows' = {t \in rows : t.id # e.id} \cup {Written(e.id, e.item)}
       /\ UNCHANGED lastId

ApplyEvent(r) ==
  /\ At(r, "returned") /\ LoopFor(r)
  /\ \E e \in turn[r].check.events :
       /\ Upsert(e)
       /\ turn' = [turn EXCEPT ![r].check.events = @ \ {e}]
  /\ loop' = r
  /\ UNCHANGED <<paused, runs, shown, faults>>

\* The event's course is gone or the database raises.
ApplyFails(r) ==
  /\ At(r, "returned") /\ LoopFor(r) /\ turn[r].check.events # {}
  /\ Fault("apply")
  /\ Ends(r) /\ loop' = NoTurn
  /\ UNCHANGED <<paused, runs, rows, lastId, shown>>

\* Mutant of Cleared: the answered question stays on record.
KeptPaused(r) == paused

\* Only the question of the run that just ended is cleared.
Cleared(r) == IF paused.run = turn[r].run THEN NoRun ELSE paused

Finish(r) ==
  /\ At(r, "returned") /\ LoopFor(r) /\ turn[r].check.events = {}
  /\ IF turn[r].check.pc = "asking"
     THEN /\ paused' = [run |-> turn[r].run, plan |-> turn[r].check.plan]
          /\ shown' = turn[r].check.plan
     ELSE paused' = Cleared(r) /\ UNCHANGED shown
  /\ Ends(r) /\ loop' = NoTurn
  /\ UNCHANGED <<runs, rows, lastId, faults>>

-----------------------------------------------------------------------------
\* PATCH and DELETE /tasks/{id}, in threads.
Mark(t, s) ==
  /\ t.status # s
  /\ rows' = (rows \ {t}) \cup {[t EXCEPT !.status = s]}
  /\ UNCHANGED <<turn, paused, runs, lastId, loop, shown, faults>>

Remove(t) ==
  /\ rows' = rows \ {t}
  /\ UNCHANGED <<turn, paused, runs, lastId, loop, shown, faults>>

\* The process restarts: checkpoints and paused questions were in memory.
Restart ==
  /\ Fault("crash")
  /\ paused' = NoRun /\ loop' = NoTurn
  /\ runs' = [r \in Turns |-> Nothing]
  /\ turn' = [r \in Turns |->
                IF Active(r) THEN Over(turn[r]) ELSE turn[r]]
  /\ UNCHANGED <<rows, lastId, shown>>

ServerStep(r) ==
  Begin(r) \/ GraphStarts(r) \/ GraphReturns(r) \/ ApplyEvent(r) \/ Finish(r)

FaultStep(r) == ModelFails(r) \/ Disconnect(r) \/ ApplyFails(r)

Next ==
  \/ \E r \in Turns, say \in {"plan", "change", "yes", "no"} : Arrive(r, say)
  \/ \E r \in Turns : ServerStep(r) \/ FaultStep(r)
  \/ \E t \in rows : Remove(t) \/ \E s \in Marks : Mark(t, s)
  \/ Restart

Spec == Init /\ [][Next]_vars

(* The loop and the threads run what can run; users do what they like.     *)
FairSpec == Spec /\ \A r \in Turns : WF_vars(ServerStep(r))

-----------------------------------------------------------------------------
(* Properties *)

Writing(r) == At(r, "returned") /\ turn[r].check.events # {}

\* A turn writes to the calendar only if the student said yes in it.
WrittenOnlyByYes == \A r \in Turns : Writing(r) => turn[r].say = "yes"

\* What a turn writes is in the plan the student was looking at when sending
\* it: a draft nobody has seen is never written.
OnlyShownPlansWritten ==
  \A r \in Turns :
    Writing(r) => {e.item : e \in turn[r].check.events} \subseteq turn[r].saw

\* The calendar has each item once, whatever was approved again, edited by
\* the student meanwhile, or cut short by a restart.
OneTaskPerItem == \A t, u \in rows : t.item = u.item => t = u

\* Between turns, the question on record is the one the graph waits on.
PausedMatchesGraph ==
  Serving = {} /\ paused # NoRun =>
    \/ runs[paused.run].pc = "broken"
    \/ runs[paused.run].pc = "asking" /\ runs[paused.run].plan = paused.plan

\* Under every fault and with turns in parallel, a run writes to the calendar
\* only if some turn of that run said yes.
WrittenAfterSomeYes ==
  \A r \in Turns : Writing(r) =>
    \E q \in Turns : turn[q].say = "yes" /\ turn[q].run = turn[r].run

\* Every message gets its answer.
TurnsEnd == \A r \in Turns : At(r, "arrived") ~> At(r, "ended")
=============================================================================
