------------------------ MODULE ApprovalWorkflow_proofs ------------------------
(***************************************************************************)
(* Proofs about ApprovalWorkflow for any items, turns and bounds: the      *)
(* types and, whatever goes wrong in parallel, that some turn of a run     *)
(* said yes before the run writes; for turns one after the other, that     *)
(* only the plan on the student's screen is written, on their yes, and     *)
(* each item once, and that the calendar keeps the promise of ApprovalSpec. *)
(***************************************************************************)
EXTENDS ApprovalRefinement, FiniteSetTheorems, TLAPS

-----------------------------------------------------------------------------
(* The inductive invariant for any number of turns at a time and any fault. *)

Steps == {"new", "arrived", "queued", "running", "orphan", "returned", "ended"}
Turned ==
  [pc : Steps, say : {"plan", "change", "yes", "no"}, saw : SUBSET Items,
   snap : SUBSET Row, run : Turns \cup {NoTurn}, check : Check]

\* A turn has its run from the time it is queued, and holds a checkpoint only
\* from the time its graph starts until it ends.
Placed ==
  /\ \A r \in Turns :
       /\ At(r, "new") => turn[r].say = "plan"
       /\ turn[r].pc \in {"new", "arrived"} => turn[r].run = NoTurn
       /\ turn[r].pc \in {"queued", "running", "orphan", "returned"}
            => turn[r].run \in Turns
       /\ turn[r].pc \in {"new", "arrived", "queued", "ended"}
            => turn[r].check = Nothing
  /\ paused # NoRun => paused.run \in Turns

SomeYes(n) == \E q \in Turns : turn[q].say = "yes" /\ turn[q].run = n

\* Events exist, in the checkpoint of a run and in what a turn holds of it,
\* only after a turn of the run said yes.
Consented ==
  \A r \in Turns :
    /\ runs[r].events # {} => SomeYes(r)
    /\ turn[r].check.events # {} => SomeYes(turn[r].run)

-----------------------------------------------------------------------------
(* The inductive invariant for turns one after the other, none of them     *)
(* cancelled and no event failing.                                         *)

OneByOne == InFlight = 1 /\ Faults \subseteq {"llm", "crash"}

\* The run that waits does so with the plan on record, or is broken.
Fits ==
  \/ runs[paused.run].pc = "broken"
  \/ runs[paused.run].pc = "asking" /\ runs[paused.run].plan = paused.plan

\* What the turn r in flight works on: its own new run, or the paused one.
OnTrack(r) ==
  /\ Active(r) => turn[r].saw = shown
  /\ turn[r].pc \in {"queued", "running"} =>
       \/ paused = NoRun /\ turn[r].run = r /\ runs[r] = Nothing
       \/ paused # NoRun /\ turn[r].run = paused.run
  /\ At(r, "running") => turn[r].check = runs[turn[r].run]
  /\ At(r, "returned") =>
       /\ paused = NoRun \/ paused.run = turn[r].run
       /\ turn[r].check.pc \in {"asking", "finished"}
       /\ runs[turn[r].run].pc = turn[r].check.pc
       /\ turn[r].check.pc = "asking" => runs[turn[r].run] = turn[r].check
       /\ Writing(r) => turn[r].say = "yes"
       /\ {e.item : e \in turn[r].check.events} \subseteq turn[r].saw

InOrder ==
  /\ \A p, q \in Turns : Active(p) /\ Active(q) => p = q
  /\ \A r \in Turns :
       /\ ~At(r, "orphan")
       /\ turn[r].pc \in {"new", "arrived"} => runs[r] = Nothing
       /\ runs[r].pc # "finished" => runs[r].events = {}
       /\ OnTrack(r)
  /\ paused # NoRun =>
       /\ paused.plan = shown
       /\ (\A r \in Turns : ~At(r, "returned")) => Fits

\* What a turn knows of the tasks stays true of them, as far as they are
\* still there: snapshot and events name every task of their items.
Known(r) ==
  /\ turn[r].pc \in {"arrived", "queued", "running"} =>
       /\ \A t \in rows : \E s \in turn[r].snap : s.id = t.id /\ s.item = t.item
       /\ \A s, u \in turn[r].snap : s.item = u.item <=> s.id = u.id
       /\ \A t \in rows, s \in turn[r].snap : t.id = s.id => t.item = s.item
  /\ At(r, "returned") => \A e \in turn[r].check.events :
       /\ \A t \in rows : t.item = e.item <=> t.id = e.id
       /\ \A f \in turn[r].check.events :
            e.item = f.item \/ (e.id # 0 /\ e.id = f.id) => e = f

OneEach ==
  /\ \A t, u \in rows : t.item = u.item \/ t.id = u.id => t = u
  /\ \A t \in rows : t.status # "skipped"
  /\ \A r \in Turns : Known(r)

-----------------------------------------------------------------------------
(* Types. *)

\* More task ids make more events, tasks and checkpoints.
LEMMA Widens ==
  ASSUME lastId \in Nat, lastId' \in Nat, lastId <= lastId'
  PROVE  Event \subseteq Event' /\ Row \subseteq Row' /\ Check \subseteq Check'
<1>1. Event \subseteq Event'
  BY DEF Event
<1>2. Row \subseteq Row'
  BY DEF Row
<1> QED
  BY <1>1, <1>2 DEF Check

\* The checkpoints the actions store are checkpoints.
LEMMA Checkpoints ==
  /\ Nothing \in Check /\ Broken \in Check /\ Finished({}) \in Check
  /\ \A p \in SUBSET Items : Asking("calendar_approval", p) \in Check
  /\ Asking("plan_input", {}) \in Check
  /\ \A events \in SUBSET Event : Finished(events) \in Check
BY DEF Nothing, Broken, Finished, Asking, Check

\* _calendar_events: an item becomes an event with the id of a task of it, or 0.
LEMMA CalendarTyped ==
  ASSUME lastId \in Nat, NEW p \in SUBSET Items, NEW snap \in SUBSET Row
  PROVE  Calendar(p, snap) \subseteq Event
<1> SUFFICES ASSUME NEW i \in p PROVE KnownId(i, snap) \in 0..lastId
  BY DEF Calendar, Event
<1>1. CASE \E t \in snap : t.item = i
  <2> DEFINE k == CHOOSE t \in snap : t.item = i
  <2>1. k \in snap
    BY <1>1
  <2>2. k.id \in 1..lastId
    BY <2>1 DEF Row
  <2> QED
    BY <1>1, <2>2 DEF KnownId
<1>2. CASE ~\E t \in snap : t.item = i
  BY <1>2 DEF KnownId
<1> QED
  BY <1>1, <1>2

\* What a graph run may end an invocation with is a checkpoint.
LEMMA ResultsTyped ==
  ASSUME lastId \in Nat, NEW t \in Turned, NEW c \in Results(t)
  PROVE  c \in Check
<1>1. Planned \subseteq Check
  BY Checkpoints DEF Planned
<1>2. Calendar(t.check.plan, t.snap) \subseteq Event
  BY CalendarTyped DEF Turned, Check
<1>3. Finished(Calendar(t.check.plan, t.snap)) \in Check
  BY <1>2, Checkpoints
<1>4. Answered(t.check, t) \subseteq Check
  BY <1>1, <1>3, Checkpoints DEF Answered, Turned
<1>5. t.check \in Check /\ t.check.pc \in {"none", "asking", "finished", "broken"}
  BY DEF Turned, Check
<1> QED
  BY <1>1, <1>4, <1>5, Checkpoints DEF Results

\* A turn that arrives, and what is left of one that ends, are turns.
LEMMA TurnsTyped ==
  /\ Fresh \in Turned
  /\ \A t \in Turned : Over(t) \in Turned
<1>1. Nothing \in Check
  BY Checkpoints
<1>2. Fresh \in Turned
  BY <1>1 DEF Fresh, Turned, Steps
<1> QED
  BY <1>2 DEF Over, Turned, Steps

\* The types are kept by a step that keeps the types of what it changes.
LEMMA TypesFrom ==
  ASSUME TypeOK, lastId' = lastId, rows' \subseteq Row, runs' \in [Turns -> Check],
         paused' \in [run : Turns \cup {NoTurn}, plan : SUBSET Items],
         turn' \in [Turns -> Turned], loop' \in Turns \cup {NoTurn},
         shown' \subseteq Items, faults' \in 0..MaxFaults
  PROVE  TypeOK'
<1>1. Row' = Row /\ Event' = Event
  BY DEF Row, Event
<1>2. Check' = Check
  BY <1>1 DEF Check
<1> QED
  BY <1>1, <1>2 DEF TypeOK, Turned, Steps

\* The types are kept.
LEMMA TypeStep ==
  ASSUME TypeOK, Placed, [Next]_vars
  PROVE  TypeOK'
<1> DEFINE Paused == [run : Turns \cup {NoTurn}, plan : SUBSET Items]
<1>t. /\ turn \in [Turns -> Turned] /\ runs \in [Turns -> Check] /\ paused \in Paused
      /\ rows \subseteq Row /\ lastId \in Nat /\ loop \in Turns \cup {NoTurn}
      /\ shown \subseteq Items /\ faults \in 0..MaxFaults
  BY DEF TypeOK, Turned, Steps
<1>f. ASSUME NEW kind, Fault(kind) PROVE faults' \in 0..MaxFaults
  BY <1>f, <1>t, BoundsAssumption DEF Fault, BoundsAssumption
<1>e. ASSUME NEW r \in Turns, Ends(r) PROVE turn' \in [Turns -> Turned]
  BY <1>e, <1>t, TurnsTyped DEF Ends
<1>p. NoRun \in Paused
  BY DEF NoRun
<1>1. ASSUME NEW r \in Turns, NEW say \in {"plan", "change", "yes", "no"}, Arrive(r, say)
      PROVE  TypeOK'
  <2> DEFINE new == [Fresh EXCEPT !.pc = "arrived", !.say = say, !.saw = shown,
                                  !.snap = {t \in rows : t.status # "skipped"}]
  <2>1. new \in Turned
    BY <1>t, TurnsTyped DEF Turned, Steps
  <2>2. turn' = [turn EXCEPT ![r] = new]
    BY <1>1 DEF Arrive
  <2>3. turn' \in [Turns -> Turned]
    BY <1>t, <2>1, <2>2
  <2> QED
    BY <1>1, <1>t, <2>3, TypesFrom DEF Arrive
<1>2. ASSUME NEW r \in Turns, Begin(r) PROVE TypeOK'
  <2>1. paused # NoRun => paused.run \in Turns
    BY DEF Placed
  <2>2. turn' \in [Turns -> Turned]
    <3>1. ASSUME NEW n \in Turns, turn' = [turn EXCEPT ![r].pc = "queued", ![r].run = n]
          PROVE  turn' \in [Turns -> Turned]
      <4>1. [turn[r] EXCEPT !.pc = "queued", !.run = n] \in Turned
        BY <1>t DEF Turned, Steps
      <4>2. turn' = [turn EXCEPT ![r] = [turn[r] EXCEPT !.pc = "queued", !.run = n]]
        BY <1>t, <3>1
      <4> QED
        BY <1>t, <4>1, <4>2
    <3>2. CASE NewRun(r)
      BY <3>1, <3>2 DEF NewRun
    <3>3. CASE paused # NoRun /\ turn' = [turn EXCEPT ![r].pc = "queued", ![r].run = paused.run]
      BY <2>1, <3>1, <3>3
    <3> QED
      BY <1>2, <1>e, <3>2, <3>3 DEF Begin
  <2>3. paused' \in Paused
    BY <1>2, <1>t, <1>p DEF Begin
  <2> QED
    BY <1>2, <1>t, <2>2, <2>3, TypesFrom DEF Begin
<1>3. ASSUME NEW r \in Turns, GraphStarts(r) PROVE TypeOK'
  <2>1. turn[r].run \in Turns
    BY <1>3 DEF GraphStarts, At, Placed
  <2> DEFINE new == [turn[r] EXCEPT !.pc = "running", !.check = runs[turn[r].run]]
  <2>2. turn' \in [Turns -> Turned]
    <3>1. runs[turn[r].run] \in Check
      BY <1>t, <2>1
    <3>2. new \in Turned
      BY <1>t, <3>1 DEF Turned, Steps
    <3>3. turn' = [turn EXCEPT ![r] = new]
      BY <1>3, <1>t DEF GraphStarts
    <3> QED
      BY <1>t, <3>2, <3>3
  <2> QED
    BY <1>3, <1>t, <2>2, TypesFrom DEF GraphStarts
<1>4. ASSUME NEW r \in Turns, GraphReturns(r) PROVE TypeOK'
  <2>1. PICK c \in Results(turn[r]) :
          /\ runs' = [runs EXCEPT ![turn[r].run] = c]
          /\ IF At(r, "orphan") THEN Ends(r)
             ELSE turn' = [turn EXCEPT ![r].check = c, ![r].pc = "returned"]
    BY <1>4 DEF GraphReturns
  <2>2. c \in Check
    BY <1>t, ResultsTyped
  <2>3. runs' \in [Turns -> Check]
    BY <1>t, <2>1, <2>2
  <2>4. turn' \in [Turns -> Turned]
    <3>1. CASE turn' = [turn EXCEPT ![r].check = c, ![r].pc = "returned"]
      <4>1. [turn[r] EXCEPT !.check = c, !.pc = "returned"] \in Turned
        BY <1>t, <2>2 DEF Turned, Steps
      <4>2. turn' = [turn EXCEPT ![r] = [turn[r] EXCEPT !.check = c, !.pc = "returned"]]
        BY <1>t, <3>1
      <4> QED
        BY <1>t, <4>1, <4>2
    <3> QED
      BY <1>e, <2>1, <3>1
  <2> QED
    BY <1>4, <1>t, <2>3, <2>4, TypesFrom DEF GraphReturns
<1>5. ASSUME NEW r \in Turns, ModelFails(r) PROVE TypeOK'
  <2>1. runs' \in [Turns -> Check]
    BY <1>5, <1>t, Checkpoints DEF ModelFails
  <2> QED
    BY <1>5, <1>t, <1>e, <1>f, <2>1, TypesFrom DEF ModelFails
<1>6. ASSUME NEW r \in Turns, Disconnect(r) PROVE TypeOK'
  <2>1. turn' \in [Turns -> Turned]
    <3>1. CASE Move(r, "orphan")
      BY <1>t, <3>1 DEF Move, Turned, Steps
    <3> QED
      BY <1>6, <1>e, <3>1 DEF Disconnect
  <2> QED
    BY <1>6, <1>t, <1>f, <2>1, TypesFrom DEF Disconnect
<1>7. ASSUME NEW r \in Turns, ApplyEvent(r) PROVE TypeOK'
  <2>1. PICK e \in turn[r].check.events :
          Upsert(e) /\ turn' = [turn EXCEPT ![r].check.events = @ \ {e}]
    BY <1>7 DEF ApplyEvent
  <2>2. e \in Event
    BY <1>t DEF Check, Turned
  <2>3. lastId' \in Nat /\ lastId <= lastId' /\ rows' \subseteq Row'
    BY <1>t, <2>1, <2>2 DEF Upsert, Written, Row, Event
  <2>4. turn' \in [Turns -> Turned]
    <3> DEFINE left == [turn[r].check EXCEPT !.events = @ \ {e}]
    <3>1. left \in Check
      BY <1>t DEF Check, Turned
    <3>2. [turn[r] EXCEPT !.check = left] \in Turned
      BY <1>t, <3>1 DEF Turned
    <3>3. turn' = [turn EXCEPT ![r] = [turn[r] EXCEPT !.check = left]]
      BY <1>t, <2>1
    <3> QED
      BY <1>t, <3>2, <3>3
  <2>5. Check \subseteq Check' /\ Row \subseteq Row'
    BY <2>3, <1>t, Widens
  <2>6. Turned \subseteq Turned'
    BY <2>5 DEF Turned
  <2>7. turn' \in [Turns -> Turned'] /\ runs' \in [Turns -> Check']
    BY <1>7, <1>t, <2>4, <2>5, <2>6 DEF ApplyEvent
  <2> QED
    BY <1>7, <1>t, <2>3, <2>7 DEF ApplyEvent, TypeOK, Turned, Steps
<1>8. ASSUME NEW r \in Turns, ApplyFails(r) PROVE TypeOK'
  BY <1>8, <1>t, <1>e, <1>f, TypesFrom DEF ApplyFails
<1>9. ASSUME NEW r \in Turns, Finish(r) PROVE TypeOK'
  <2>2. turn[r].check.plan \in SUBSET Items /\ turn[r].run \in Turns \cup {NoTurn}
    BY <1>t DEF Check, Turned
  <2>3. paused' \in Paused /\ shown' \subseteq Items
    BY <1>9, <1>t, <1>p, <2>2 DEF Finish, Cleared
  <2> QED
    BY <1>9, <1>t, <1>e, <2>3, TypesFrom DEF Finish
<1>10. ASSUME NEW t \in rows, Remove(t) PROVE TypeOK'
  BY <1>10, <1>t, TypesFrom DEF Remove
<1>11. ASSUME NEW t \in rows, NEW s \in Marks, Mark(t, s) PROVE TypeOK'
  <2>1. [t EXCEPT !.status = s] \in Row
    BY <1>t, KindsAssumption DEF KindsAssumption, Row
  <2> QED
    BY <1>11, <1>t, <2>1, TypesFrom DEF Mark
<1>12. CASE Restart
  <2>1. turn' \in [Turns -> Turned]
    BY <1>12, <1>t, TurnsTyped DEF Restart
  <2>2. runs' \in [Turns -> Check]
    BY <1>12, Checkpoints DEF Restart
  <2> QED
    BY <1>12, <1>t, <1>f, <1>p, <2>1, <2>2, TypesFrom DEF Restart
<1>13. CASE UNCHANGED vars
  BY <1>13, <1>t, TypesFrom DEF vars
<1> QED
  BY <1>1, <1>2, <1>3, <1>4, <1>5, <1>6, <1>7, <1>8, <1>9, <1>10, <1>11, <1>12, <1>13
     DEF Next, ServerStep, FaultStep
-----------------------------------------------------------------------------
(* What each action does to the turns, field by field. *)

\* A turn ends as Over says, and the others stay as they are.
LEMMA EndsDoes ==
  ASSUME TypeOK, NEW r \in Turns, Ends(r)
  PROVE  /\ turn'[r].pc = "ended" /\ turn'[r].check = Nothing
         /\ turn'[r].say = turn[r].say /\ turn'[r].run = turn[r].run
         /\ \A q \in Turns \ {r} : turn'[q] = turn[q]
BY DEF Ends, Over, Fresh, TypeOK

\* An arriving turn has said something, and read the plan shown and the tasks.
LEMMA ArriveDoes ==
  ASSUME TypeOK, NEW r \in Turns, NEW say, Arrive(r, say)
  PROVE  /\ turn[r].pc = "new"
         /\ turn'[r].pc = "arrived" /\ turn'[r].say = say /\ turn'[r].saw = shown
         /\ turn'[r].snap = {t \in rows : t.status # "skipped"}
         /\ turn'[r].run = NoTurn /\ turn'[r].check = Nothing
         /\ \A q \in Turns \ {r} : turn'[q] = turn[q]
BY DEF Arrive, At, Fresh, TypeOK

\* A turn that is to resume a run, or to start its own, is queued.
LEMMA BeginDoes ==
  ASSUME TypeOK, NEW r \in Turns, Begin(r)
  PROVE  /\ turn[r].pc = "arrived"
         /\ \A q \in Turns \ {r} : turn'[q] = turn[q]
         /\ \/ Ends(r) /\ UNCHANGED paused
            \/ /\ turn'[r].pc = "queued" /\ turn'[r].check = turn[r].check
               /\ turn'[r].say = turn[r].say /\ turn'[r].saw = turn[r].saw
               /\ turn'[r].snap = turn[r].snap
               /\ \/ turn'[r].run = r /\ paused' = NoRun
                  \/ turn'[r].run = paused.run /\ paused # NoRun /\ UNCHANGED paused
<1>1. ASSUME NEW n, turn' = [turn EXCEPT ![r].pc = "queued", ![r].run = n]
      PROVE  /\ turn'[r].pc = "queued" /\ turn'[r].check = turn[r].check
             /\ turn'[r].say = turn[r].say /\ turn'[r].saw = turn[r].saw
             /\ turn'[r].snap = turn[r].snap /\ turn'[r].run = n
             /\ \A q \in Turns \ {r} : turn'[q] = turn[q]
  BY <1>1 DEF TypeOK
<1>2. CASE NewRun(r)
  BY <1>1, <1>2 DEF Begin, At, NewRun
<1>3. CASE /\ paused # NoRun /\ UNCHANGED paused
           /\ turn' = [turn EXCEPT ![r].pc = "queued", ![r].run = paused.run]
  BY <1>1, <1>3 DEF Begin, At
<1>4. CASE Ends(r) /\ UNCHANGED paused
  BY <1>4, EndsDoes DEF Begin, At
<1> QED
  BY <1>2, <1>3, <1>4 DEF Begin

\* The graph reads the checkpoint of its run.
LEMMA StartDoes ==
  ASSUME TypeOK, NEW r \in Turns, GraphStarts(r)
  PROVE  /\ turn[r].pc = "queued" /\ turn'[r].pc = "running"
         /\ turn'[r].check = runs[turn[r].run]
         /\ turn'[r].say = turn[r].say /\ turn'[r].saw = turn[r].saw
         /\ turn'[r].snap = turn[r].snap /\ turn'[r].run = turn[r].run
         /\ \A q \in Turns \ {r} : turn'[q] = turn[q]
BY DEF GraphStarts, At, TypeOK

\* The graph stores its result and, unless its client is gone, returns it.
LEMMA ReturnDoes ==
  ASSUME TypeOK, NEW r \in Turns, GraphReturns(r)
  PROVE  \E c \in Results(turn[r]) :
           /\ turn[r].pc \in {"running", "orphan"}
           /\ runs' = [runs EXCEPT ![turn[r].run] = c]
           /\ \/ At(r, "orphan") /\ Ends(r)
              \/ /\ At(r, "running") /\ turn'[r].pc = "returned" /\ turn'[r].check = c
                 /\ turn'[r].say = turn[r].say /\ turn'[r].saw = turn[r].saw
                 /\ turn'[r].snap = turn[r].snap /\ turn'[r].run = turn[r].run
           /\ \A q \in Turns \ {r} : turn'[q] = turn[q]
<1>1. PICK c \in Results(turn[r]) :
        /\ runs' = [runs EXCEPT ![turn[r].run] = c]
        /\ IF At(r, "orphan") THEN Ends(r)
           ELSE turn' = [turn EXCEPT ![r].check = c, ![r].pc = "returned"]
  BY DEF GraphReturns
<1>2. turn[r].pc \in {"running", "orphan"}
  BY DEF GraphReturns
<1>3. CASE At(r, "orphan")
  BY <1>1, <1>2, <1>3, EndsDoes
<1>4. CASE ~At(r, "orphan")
  <2>1. turn' = [turn EXCEPT ![r].check = c, ![r].pc = "returned"]
    BY <1>1, <1>4
  <2>2. /\ turn'[r].pc = "returned" /\ turn'[r].check = c
        /\ turn'[r].say = turn[r].say /\ turn'[r].saw = turn[r].saw
        /\ turn'[r].snap = turn[r].snap /\ turn'[r].run = turn[r].run
        /\ \A q \in Turns \ {r} : turn'[q] = turn[q]
    BY <2>1 DEF TypeOK
  <2> QED
    BY <1>1, <1>2, <1>4, <2>2 DEF At
<1> QED
  BY <1>3, <1>4

\* An event that is written leaves the checkpoint the turn holds.
LEMMA ApplyDoes ==
  ASSUME TypeOK, NEW r \in Turns, ApplyEvent(r)
  PROVE  \E e \in turn[r].check.events :
           /\ Upsert(e)
           /\ turn[r].pc = "returned" /\ turn'[r].pc = "returned"
           /\ turn'[r].check = [turn[r].check EXCEPT !.events = @ \ {e}]
           /\ turn'[r].say = turn[r].say /\ turn'[r].saw = turn[r].saw
           /\ turn'[r].snap = turn[r].snap /\ turn'[r].run = turn[r].run
           /\ \A q \in Turns \ {r} : turn'[q] = turn[q]
<1>1. PICK e \in turn[r].check.events :
        Upsert(e) /\ turn' = [turn EXCEPT ![r].check.events = @ \ {e}]
  BY DEF ApplyEvent
<1>2. turn[r].pc = "returned"
  BY DEF ApplyEvent, At
<1>3. /\ turn'[r] = [turn[r] EXCEPT !.check.events = @ \ {e}]
      /\ \A q \in Turns \ {r} : turn'[q] = turn[q]
  BY <1>1 DEF TypeOK
<1>4. turn'[r].check = [turn[r].check EXCEPT !.events = @ \ {e}]
  BY <1>3 DEF TypeOK, Check
<1>5. /\ turn'[r].pc = turn[r].pc
      /\ turn'[r].say = turn[r].say /\ turn'[r].saw = turn[r].saw
      /\ turn'[r].snap = turn[r].snap /\ turn'[r].run = turn[r].run
  BY <1>3 DEF TypeOK
<1> QED
  BY <1>1, <1>2, <1>3, <1>4, <1>5

\* The client goes: the turn ends, or its thread goes on without it.
LEMMA CancelDoes ==
  ASSUME TypeOK, NEW r \in Turns, Disconnect(r)
  PROVE  /\ turn[r].pc \in {"arrived", "queued", "running"}
         /\ \/ Ends(r)
            \/ /\ turn[r].pc = "running" /\ turn'[r].pc = "orphan"
               /\ turn'[r].check = turn[r].check
               /\ turn'[r].say = turn[r].say /\ turn'[r].saw = turn[r].saw
               /\ turn'[r].snap = turn[r].snap /\ turn'[r].run = turn[r].run
         /\ \A q \in Turns \ {r} : turn'[q] = turn[q]
<1>1. CASE Ends(r)
  BY <1>1, EndsDoes DEF Disconnect
<1>2. CASE Move(r, "orphan") /\ At(r, "running")
  BY <1>2 DEF Move, At, TypeOK
<1> QED
  BY <1>1, <1>2 DEF Disconnect

\* A restart ends every turn that had begun.
LEMMA RestartDoes ==
  ASSUME TypeOK, Restart
  PROVE  /\ paused' = NoRun
         /\ \A r \in Turns :
              /\ runs'[r] = Nothing
              /\ \/ turn[r].pc \in {"new", "ended"} /\ turn'[r] = turn[r]
                 \/ /\ Active(r) /\ turn'[r].pc = "ended" /\ turn'[r].check = Nothing
                    /\ turn'[r].say = turn[r].say /\ turn'[r].run = turn[r].run
BY DEF Restart, Over, Fresh, Active, TypeOK

-----------------------------------------------------------------------------
(* Placed and Consented. *)

\* Turns stay placed.
LEMMA PlacedStep ==
  ASSUME TypeOK, Placed, [Next]_vars
  PROVE  Placed'
<1> USE DEF Placed, At
<1>0. Nothing = Fresh.check
  BY DEF Fresh
<1>e. ASSUME NEW r \in Turns, Ends(r), UNCHANGED paused
      PROVE  Placed'
  BY <1>e, EndsDoes
<1>1. ASSUME NEW r \in Turns, NEW say \in {"plan", "change", "yes", "no"}, Arrive(r, say)
      PROVE  Placed'
  <2>1. UNCHANGED paused
    BY <1>1 DEF Arrive
  <2> QED
    BY <1>1, <2>1, ArriveDoes
<1>2. ASSUME NEW r \in Turns, Begin(r) PROVE Placed'
  BY <1>2, <1>e, BeginDoes
<1>3. ASSUME NEW r \in Turns, GraphStarts(r) PROVE Placed'
  <2>1. UNCHANGED paused
    BY <1>3 DEF GraphStarts
  <2> QED
    BY <1>3, <2>1, StartDoes
<1>4. ASSUME NEW r \in Turns, GraphReturns(r) PROVE Placed'
  <2>1. UNCHANGED paused
    BY <1>4 DEF GraphReturns
  <2> QED
    BY <1>4, <1>e, <2>1, ReturnDoes
<1>5. ASSUME NEW r \in Turns, ModelFails(r) \/ ApplyFails(r) PROVE Placed'
  BY <1>5, <1>e DEF ModelFails, ApplyFails
<1>6. ASSUME NEW r \in Turns, Disconnect(r) PROVE Placed'
  <2>1. UNCHANGED paused
    BY <1>6 DEF Disconnect
  <2> QED
    BY <1>6, <1>e, <2>1, CancelDoes
<1>7. ASSUME NEW r \in Turns, ApplyEvent(r) PROVE Placed'
  <2>1. UNCHANGED paused
    BY <1>7 DEF ApplyEvent
  <2>2. /\ turn[r].pc = "returned" /\ turn'[r].pc = "returned"
        /\ turn'[r].run = turn[r].run /\ \A q \in Turns \ {r} : turn'[q] = turn[q]
    BY <1>7, ApplyDoes
  <2> QED
    BY <2>1, <2>2
<1>9. ASSUME NEW r \in Turns, Finish(r) PROVE Placed'
  <2>1. paused' # NoRun => paused'.run \in Turns
    BY <1>9 DEF Finish, Cleared
  <2>2. Ends(r)
    BY <1>9 DEF Finish
  <2> QED
    BY <2>1, <2>2, EndsDoes
<1>10. ASSUME NEW t \in rows, Remove(t) PROVE Placed'
  BY <1>10 DEF Remove
<1>11. ASSUME NEW t \in rows, NEW s \in Marks, Mark(t, s) PROVE Placed'
  BY <1>11 DEF Mark
<1>12. CASE Restart
  BY <1>12, RestartDoes
<1>13. CASE UNCHANGED vars
  BY <1>13 DEF vars
<1> QED
  BY <1>1, <1>2, <1>3, <1>4, <1>5, <1>6, <1>7, <1>9, <1>10, <1>11, <1>12, <1>13
     DEF Next, ServerStep, FaultStep

\* A yes stays said: only the turn that says something new changes it.
LEMMA YesStays ==
  ASSUME TypeOK, Placed, [Next]_vars, NEW n \in Turns, SomeYes(n)
  PROVE  SomeYes(n)'
<1>0. NoTurn \notin Turns
  BY TurnsAssumption DEF TurnsAssumption, NoTurn
<1> PICK q \in Turns : turn[q].say = "yes" /\ turn[q].run = n
  BY DEF SomeYes
<1>1. turn[q].pc \notin {"new", "arrived"}
  BY <1>0 DEF Placed, At
<1> SUFFICES turn'[q].say = "yes" /\ turn'[q].run = n
  BY DEF SomeYes
<1>2. ASSUME NEW r \in Turns, Ends(r) PROVE turn'[q].say = "yes" /\ turn'[q].run = n
  BY <1>2, EndsDoes
<1>3. ASSUME NEW r \in Turns, Begin(r)
      PROVE  turn'[q].say = "yes" /\ turn'[q].run = n
  BY <1>1, <1>2, <1>3, BeginDoes
<1>4. ASSUME NEW r \in Turns, NEW say \in {"plan", "change", "yes", "no"}, Arrive(r, say)
      PROVE  turn'[q].say = "yes" /\ turn'[q].run = n
  BY <1>1, <1>4, ArriveDoes
<1>5. ASSUME NEW r \in Turns,
             GraphStarts(r) \/ GraphReturns(r) \/ ApplyEvent(r) \/ Disconnect(r)
      PROVE  turn'[q].say = "yes" /\ turn'[q].run = n
  <2>1. CASE GraphStarts(r)
    BY <2>1, StartDoes
  <2>2. CASE GraphReturns(r)
    BY <1>2, <2>2, ReturnDoes
  <2>3. CASE ApplyEvent(r)
    BY <2>3, ApplyDoes
  <2>4. CASE Disconnect(r)
    BY <1>2, <2>4, CancelDoes
  <2> QED
    BY <1>5, <2>1, <2>2, <2>3, <2>4
<1>6. ASSUME NEW r \in Turns, Finish(r) \/ ModelFails(r) \/ ApplyFails(r)
      PROVE  turn'[q].say = "yes" /\ turn'[q].run = n
  BY <1>2, <1>6 DEF Finish, ModelFails, ApplyFails
<1>7. CASE Restart
  BY <1>7, RestartDoes
<1>8. CASE \/ UNCHANGED vars
           \/ \E t \in rows : Remove(t) \/ \E s \in Marks : Mark(t, s)
  BY <1>8 DEF vars, Remove, Mark
<1> QED
  BY <1>3, <1>4, <1>5, <1>6, <1>7, <1>8 DEF Next, ServerStep, FaultStep

\* The planning node only makes events of an answer that is a yes.
LEMMA EventsByYes ==
  ASSUME NEW t \in Turned, NEW c \in Results(t), c.events # {}, t.check.events = {}
  PROVE  /\ t.say = "yes" /\ t.check.pc = "asking" /\ t.check.ask # "plan_input"
         /\ c = Finished(Calendar(t.check.plan, t.snap))
<1>1. \A d \in Planned : d.events = {}
  BY DEF Planned, Asking, Nothing
<1>2. Finished({}).events = {}
  BY DEF Finished, Nothing
<1>3. t.check.pc \in {"none", "asking", "finished", "broken"}
  BY DEF Turned, Check
<1>4. t.check.pc = "asking"
  BY <1>1, <1>2, <1>3 DEF Results
<1>5. c \in Answered(t.check, t)
  BY <1>4 DEF Results
<1> QED
  BY <1>1, <1>2, <1>4, <1>5 DEF Answered
\* A step keeps the events accounted for.
LEMMA ConsentedStep ==
  ASSUME TypeOK, Placed, Consented, [Next]_vars
  PROVE  Consented'
<1>y. \A n \in Turns : SomeYes(n) => SomeYes(n)'
  BY YesStays
<1>n. Nothing.events = {} /\ Broken.events = {}
  BY DEF Nothing, Broken
<1>p. \A q \in Turns : turn[q].check.events # {} => turn[q].run \in Turns /\ SomeYes(turn[q].run)
  <2>1. \A q \in Turns : turn[q].pc \in Steps
    BY DEF TypeOK, Steps
  <2> QED
    BY <1>n, <2>1 DEF Placed, Consented, Steps
<1>a. ASSUME NEW r \in Turns, UNCHANGED runs, \A q \in Turns \ {r} : turn'[q] = turn[q],
             \/ turn'[r].check.events = {}
             \/ turn'[r].run = turn[r].run /\ turn[r].check.events # {}
      PROVE  Consented'
  BY <1>a, <1>y, <1>p DEF Consented
<1>e. ASSUME NEW r \in Turns, UNCHANGED runs, Ends(r)
      PROVE  Consented'
  BY <1>e, <1>a, <1>n, EndsDoes
<1>1. ASSUME NEW r \in Turns, NEW say \in {"plan", "change", "yes", "no"}, Arrive(r, say)
      PROVE  Consented'
  <2>1. UNCHANGED runs
    BY <1>1 DEF Arrive
  <2> QED
    BY <1>1, <1>a, <1>n, <2>1, ArriveDoes
<1>2. ASSUME NEW r \in Turns, Begin(r) PROVE Consented'
  <2>1. UNCHANGED runs
    BY <1>2 DEF Begin
  <2>2. turn[r].check = Nothing
    BY <1>2 DEF Begin, At, Placed
  <2> QED
    BY <1>2, <1>a, <1>e, <1>n, <2>1, <2>2, BeginDoes
<1>3. ASSUME NEW r \in Turns, GraphStarts(r) PROVE Consented'
  <2>1. UNCHANGED runs
    BY <1>3 DEF GraphStarts
  <2>2. turn[r].run \in Turns
    BY <1>3 DEF GraphStarts, At, Placed
  <2> QED
    BY <1>3, <1>y, <1>p, <2>1, <2>2, StartDoes DEF Consented
<1>4. ASSUME NEW r \in Turns, GraphReturns(r) PROVE Consented'
  <2>1. turn[r].run \in Turns
    BY <1>4 DEF GraphReturns, Placed
  <2>2. PICK c \in Results(turn[r]) :
          /\ runs' = [runs EXCEPT ![turn[r].run] = c]
          /\ \/ turn'[r].check = Nothing
             \/ turn'[r].check = c /\ turn'[r].run = turn[r].run
          /\ \A q \in Turns \ {r} : turn'[q] = turn[q]
    BY <1>4, ReturnDoes, EndsDoes
  <2>3. c.events # {} => SomeYes(turn[r].run)
    <3>1. turn[r] \in Turned
      BY DEF TypeOK, Turned, Steps
    <3>2. CASE turn[r].check.events = {}
      BY <3>1, <3>2, EventsByYes DEF SomeYes
    <3> QED
      BY <1>p, <3>2
  <2>4. \A n \in Turns : runs'[n].events # {} => SomeYes(n)'
    BY <1>y, <2>1, <2>2, <2>3 DEF Consented, TypeOK
  <2>5. \A q \in Turns : turn'[q].check.events # {} => SomeYes(turn[q].run)'
    BY <1>y, <1>p, <1>n, <2>1, <2>2, <2>3
  <2> QED
    BY <2>4, <2>5 DEF Consented
<1>5. ASSUME NEW r \in Turns, ModelFails(r) PROVE Consented'
  <2>1. \A n \in Turns : runs'[n].events # {} => SomeYes(n)'
    BY <1>5, <1>y, <1>n DEF ModelFails, Consented, TypeOK
  <2>2. Ends(r)
    BY <1>5 DEF ModelFails
  <2>3. \A q \in Turns : turn'[q].check.events # {} => SomeYes(turn[q].run)'
    BY <1>y, <1>p, <1>n, <2>2, EndsDoes
  <2> QED
    BY <2>1, <2>3 DEF Consented
<1>6. ASSUME NEW r \in Turns, Disconnect(r) PROVE Consented'
  <2>1. UNCHANGED runs
    BY <1>6 DEF Disconnect
  <2> QED
    BY <1>6, <1>a, <1>e, <2>1, CancelDoes
<1>7. ASSUME NEW r \in Turns, ApplyEvent(r) PROVE Consented'
  <2>1. UNCHANGED runs
    BY <1>7 DEF ApplyEvent
  <2>2. /\ turn[r].check.events # {} /\ turn'[r].run = turn[r].run
        /\ \A q \in Turns \ {r} : turn'[q] = turn[q]
    BY <1>7, ApplyDoes
  <2> QED
    BY <1>a, <2>1, <2>2
<1>8. ASSUME NEW r \in Turns, ApplyFails(r) \/ Finish(r) PROVE Consented'
  BY <1>8, <1>e DEF ApplyFails, Finish
<1>9. CASE Restart
  <2>1. \A r \in Turns : runs'[r].events = {} /\ turn'[r].check.events = {}
    BY <1>9, <1>n, RestartDoes DEF Placed, At
  <2> QED
    BY <2>1 DEF Consented
<1>10. CASE \/ UNCHANGED vars
            \/ \E t \in rows : Remove(t) \/ \E s \in Marks : Mark(t, s)
  BY <1>10, <1>y DEF vars, Remove, Mark, Consented, SomeYes
<1> QED
  BY <1>1, <1>2, <1>3, <1>4, <1>5, <1>6, <1>7, <1>8, <1>9, <1>10
     DEF Next, ServerStep, FaultStep

\* The types and both invariants hold initially.
LEMMA Initially == Init => TypeOK /\ Placed /\ Consented
<1> SUFFICES ASSUME Init PROVE TypeOK /\ Placed /\ Consented
  OBVIOUS
<1>1. TypeOK
  <2>1. lastId \in Nat
    BY DEF Init
  <2>2. Fresh \in Turned /\ Nothing \in Check
    BY <2>1, TurnsTyped, Checkpoints
  <2>3. turn \in [Turns -> Turned] /\ runs \in [Turns -> Check]
    BY <2>2 DEF Init
  <2>4. faults \in 0..MaxFaults
    BY BoundsAssumption DEF Init, BoundsAssumption
  <2> QED
    BY <2>1, <2>3, <2>4 DEF Init, TypeOK, Turned, Steps, NoRun
<1>2. Placed
  BY DEF Init, Placed, At, Fresh
<1>3. Consented
  BY DEF Init, Consented, Fresh, Nothing
<1> QED
  BY <1>1, <1>2, <1>3

\* They hold in every reachable state.
LEMMA Invariant == Spec => [](TypeOK /\ Placed /\ Consented)
<1>1. TypeOK /\ Placed /\ Consented /\ [Next]_vars => (TypeOK /\ Placed /\ Consented)'
  BY TypeStep, PlacedStep, ConsentedStep
<1> QED
  BY <1>1, Initially, PTL DEF Spec

\* Every state the specification reaches has its types: whichever faults
\* happen, a turn resumes a run there is and an event names a task id given out.
THEOREM Typing == Spec => []TypeOK
BY Invariant, PTL

\* handle, approval_node: with turns in parallel and under every fault, a run
\* writes to the calendar only after some turn of the run said yes.
THEOREM SomeYesFirst == Spec => []WrittenAfterSomeYes
<1>1. Consented => WrittenAfterSomeYes
  BY DEF Consented, WrittenAfterSomeYes, Writing, SomeYes
<1> QED
  BY <1>1, Invariant, PTL
-----------------------------------------------------------------------------
(* InOrder. *)

\* A request is only accepted while no other is served.
LEMMA NobodyServed ==
  ASSUME OneByOne, InOrder, Cardinality(Serving) < InFlight
  PROVE  \A q \in Turns : ~Active(q)
<1> SUFFICES ASSUME NEW p \in Turns, Active(p) PROVE FALSE
  OBVIOUS
<1>1. Serving = {p}
  BY DEF InOrder, Serving, At
<1>2. Cardinality(Serving) = 1
  BY <1>1, FS_Singleton
<1> QED
  BY <1>2 DEF OneByOne

\* The others are idle while a turn is served.
LEMMA OthersIdle ==
  ASSUME InOrder, NEW r \in Turns, Active(r)
  PROVE  \A q \in Turns \ {r} : ~Active(q)
BY DEF InOrder

\* With the others idle, it is enough to look at the turn that is served.
LEMMA InOrderFrom ==
  ASSUME NEW r \in Turns,
         \A q \in Turns \ {r} : ~Active(q) /\ turn'[q] = turn[q],
         turn'[r].pc # "orphan", OnTrack(r)',
         \A q \in Turns : turn'[q].pc \in {"new", "arrived"} => runs'[q] = Nothing,
         \A q \in Turns : runs'[q].pc # "finished" => runs'[q].events = {},
         paused' # NoRun => paused'.plan = shown',
         paused' # NoRun /\ turn'[r].pc # "returned" => Fits'
  PROVE  InOrder'
<1>1. ASSUME NEW q \in Turns \ {r}
      PROVE  ~Active(q)' /\ turn'[q].pc \in {"new", "ended"}
  BY <1>1 DEF Active
<1>2. \A q \in Turns \ {r} : OnTrack(q)' /\ ~At(q, "orphan")'
  BY <1>1 DEF OnTrack, At
<1>3. \A p, q \in Turns : Active(p)' /\ Active(q)' => p = q
  BY <1>1
<1>4. ~At(r, "orphan")'
  BY DEF At
<1>5. (\A q \in Turns : ~At(q, "returned"))' => turn'[r].pc # "returned"
  BY DEF At
<1> QED
  BY <1>2, <1>3, <1>4, <1>5 DEF InOrder

\* A turn that is over is on track.
LEMMA OverOnTrack ==
  ASSUME NEW r \in Turns, turn'[r].pc = "ended" PROVE OnTrack(r)'
BY DEF OnTrack, Active, At

\* A graph run that is not over ends an invocation with a question, with a
\* plan nobody wants, or with the events of the plan approved.
LEMMA ResultsShape ==
  ASSUME NEW t \in Turned, NEW c \in Results(t), t.check.pc # "finished"
  PROVE  /\ c.pc \in {"asking", "finished"}
         /\ c.pc = "asking" => c.events = {}
<1>1. \A d \in Planned : d.pc = "asking" /\ d.events = {}
  BY DEF Planned, Asking, Nothing
<1>2. \A events : Finished(events).pc = "finished"
  BY DEF Finished, Nothing
<1>3. t.check.pc \in {"none", "asking", "broken"}
  BY DEF Turned, Check
<1>4. \A d \in Answered(t.check, t) : d \in Planned \/ d.pc = "finished"
  BY <1>2 DEF Answered
<1> QED
  BY <1>1, <1>2, <1>3, <1>4 DEF Results

\* While a graph works for a turn, its run waits or is new.
LEMMA NotOver ==
  ASSUME TypeOK, Placed, InOrder, NEW r \in Turns, At(r, "running")
  PROVE  /\ turn[r].check.pc # "finished" /\ turn[r].check.events = {}
         /\ turn[r].check.pc # "none" => paused # NoRun /\ turn[r].run = paused.run
         /\ turn[r].check.pc = "asking" => turn[r].check.plan = turn[r].saw
         /\ turn[turn[r].run].pc \notin {"new", "arrived"}
<1>1. turn[r].check = runs[turn[r].run] /\ turn[r].run \in Turns
  BY DEF InOrder, OnTrack, Placed, At
<1>2. Nothing.pc = "none" /\ Nothing.events = {}
  BY DEF Nothing
<1>3. CASE paused = NoRun /\ turn[r].run = r /\ runs[r] = Nothing
  BY <1>1, <1>2, <1>3 DEF At
<1>4. CASE paused # NoRun /\ turn[r].run = paused.run
  <2>1. Active(r)
    BY DEF Active, At
  <2>2. \A q \in Turns : ~At(q, "returned")
    BY <2>1, OthersIdle DEF At, Active
  <2>3. Fits /\ paused.plan = shown /\ turn[r].saw = shown
    BY <1>4, <2>1, <2>2 DEF InOrder, OnTrack
  <2>4. /\ runs[paused.run].pc \in {"asking", "broken"}
        /\ runs[paused.run].pc = "asking" => runs[paused.run].plan = paused.plan
    BY <2>3 DEF Fits
  <2>5. \A q \in Turns : runs[q].pc # "finished" => runs[q].events = {}
    BY DEF InOrder
  <2>6. \A q \in Turns : turn[q].pc \in {"new", "arrived"} => runs[q] = Nothing
    BY DEF InOrder
  <2> QED
    BY <1>1, <1>2, <1>4, <2>3, <2>4, <2>5, <2>6
<1> QED
  BY <1>3, <1>4 DEF InOrder, OnTrack, At
\* A step of turns one after the other keeps them in order.
LEMMA InOrderStep ==
  ASSUME OneByOne, TypeOK, Placed, InOrder, [Next]_vars
  PROVE  InOrder'
<1>r. \A q \in Turns : runs[q].pc # "finished" => runs[q].events = {}
  BY DEF InOrder
<1>n. \A q \in Turns : turn[q].pc \in {"new", "arrived"} => runs[q] = Nothing
  BY DEF InOrder
<1>c. NoTurn \notin Turns
  BY TurnsAssumption DEF TurnsAssumption, NoTurn
<1>f. ~Fault("cancel") /\ ~Fault("apply")
  BY DEF OneByOne, Fault
<1>w. ASSUME NEW r \in Turns, Active(r), ~At(r, "returned"), paused # NoRun
      PROVE  Fits /\ paused.plan = shown
  <2>1. \A q \in Turns : ~At(q, "returned")
    BY <1>w, OthersIdle DEF At, Active
  <2> QED
    BY <1>w, <2>1 DEF InOrder
<1>1. ASSUME NEW r \in Turns, NEW say \in {"plan", "change", "yes", "no"}, Arrive(r, say)
      PROVE  InOrder'
  <2>1. \A q \in Turns : ~Active(q)
    BY <1>1, NobodyServed DEF Arrive
  <2>2. /\ turn[r].pc = "new" /\ turn'[r].pc = "arrived" /\ turn'[r].saw = shown
        /\ \A q \in Turns \ {r} : turn'[q] = turn[q]
    BY <1>1, ArriveDoes
  <2>3. UNCHANGED <<runs, paused, shown>>
    BY <1>1 DEF Arrive
  <2>4. OnTrack(r)'
    BY <2>2, <2>3 DEF OnTrack, At
  <2>5. paused # NoRun => Fits /\ paused.plan = shown
    BY <2>1 DEF InOrder, Active, At
  <2>6. Fits => Fits'
    BY <2>3 DEF Fits
  <2> QED
    BY <1>r, <1>n, <2>1, <2>2, <2>3, <2>4, <2>5, <2>6, InOrderFrom
<1>2. ASSUME NEW r \in Turns, Begin(r) PROVE InOrder'
  <2>1. UNCHANGED <<runs, shown>> /\ Active(r) /\ At(r, "arrived")
    BY <1>2 DEF Begin, At, Active
  <2>2. \A q \in Turns \ {r} : ~Active(q)
    BY <2>1, OthersIdle
  <2>3. paused # NoRun => Fits /\ paused.plan = shown
    BY <1>w, <2>1 DEF At
  <2>4. turn[r].saw = shown /\ runs[r] = Nothing
    BY <2>1 DEF InOrder, OnTrack, At
  <2>5. /\ turn[r].pc = "arrived" /\ \A q \in Turns \ {r} : turn'[q] = turn[q]
        /\ paused' = paused \/ paused' = NoRun
        /\ turn'[r].pc \in {"ended", "queued"}
        /\ turn'[r].pc = "queued" =>
             /\ turn'[r].saw = turn[r].saw
             /\ \/ turn'[r].run = r /\ paused' = NoRun
                \/ turn'[r].run = paused'.run /\ paused' # NoRun
    BY <1>2, BeginDoes, EndsDoes
  <2>6. OnTrack(r)'
    BY <2>1, <2>4, <2>5 DEF OnTrack, At, Active
  <2>7. Fits /\ paused' = paused => Fits'
    BY <2>1 DEF Fits
  <2> QED
    BY <1>r, <1>n, <2>1, <2>2, <2>3, <2>5, <2>6, <2>7, InOrderFrom
<1>3. ASSUME NEW r \in Turns, GraphStarts(r) PROVE InOrder'
  <2>1. UNCHANGED <<runs, shown, paused>> /\ Active(r) /\ At(r, "queued")
    BY <1>3 DEF GraphStarts, At, Active
  <2>2. \A q \in Turns \ {r} : ~Active(q)
    BY <2>1, OthersIdle
  <2>3. paused # NoRun => Fits /\ paused.plan = shown
    BY <1>w, <2>1 DEF At
  <2>4. /\ turn[r].saw = shown
        /\ \/ paused = NoRun /\ turn[r].run = r /\ runs[r] = Nothing
           \/ paused # NoRun /\ turn[r].run = paused.run
    BY <2>1 DEF InOrder, OnTrack, At
  <2>5. /\ turn'[r].pc = "running" /\ turn'[r].run = turn[r].run
        /\ turn'[r].saw = turn[r].saw /\ turn'[r].check = runs[turn[r].run]
        /\ \A q \in Turns \ {r} : turn'[q] = turn[q]
    BY <1>3, StartDoes
  <2>6. OnTrack(r)'
    BY <2>1, <2>4, <2>5 DEF OnTrack, At
  <2>7. Fits => Fits'
    BY <2>1 DEF Fits
  <2> QED
    BY <1>r, <1>n, <2>1, <2>2, <2>3, <2>5, <2>6, <2>7, InOrderFrom
<1>4. ASSUME NEW r \in Turns, GraphReturns(r) PROVE InOrder'
  <2>1. UNCHANGED <<shown, paused>> /\ Active(r) /\ At(r, "running")
    BY <1>4 DEF GraphReturns, At, Active, InOrder
  <2>2. \A q \in Turns \ {r} : ~Active(q)
    BY <2>1, OthersIdle
  <2>3. paused # NoRun => paused.plan = shown
    BY <1>w, <2>1 DEF At
  <2>4. /\ turn[r].saw = shown /\ turn[r].run \in Turns
        /\ paused = NoRun \/ paused.run = turn[r].run
    BY <2>1 DEF InOrder, OnTrack, At, Placed
  <2>5. /\ turn[r].check.pc # "finished" /\ turn[r].check.events = {}
        /\ turn[r].check.pc = "asking" => turn[r].check.plan = turn[r].saw
        /\ turn[turn[r].run].pc \notin {"new", "arrived"}
    BY <2>1, NotOver
  <2>6. PICK c \in Results(turn[r]) :
          /\ runs' = [runs EXCEPT ![turn[r].run] = c]
          /\ turn'[r].pc = "returned" /\ turn'[r].check = c
          /\ turn'[r].say = turn[r].say /\ turn'[r].saw = turn[r].saw
          /\ turn'[r].run = turn[r].run
          /\ \A q \in Turns \ {r} : turn'[q] = turn[q]
    BY <1>4, <2>1, ReturnDoes DEF At
  <2>7. turn[r] \in Turned
    BY DEF TypeOK, Turned, Steps
  <2>8. c.pc \in {"asking", "finished"} /\ (c.pc = "asking" => c.events = {})
    BY <2>5, <2>7, ResultsShape
  <2>9. c.events # {} =>
          turn[r].say = "yes" /\ {e.item : e \in c.events} \subseteq turn[r].saw
    <3>1. SUFFICES ASSUME c.events # {}
                   PROVE  turn[r].say = "yes" /\ {e.item : e \in c.events} \subseteq turn[r].saw
      OBVIOUS
    <3>2. /\ turn[r].say = "yes" /\ turn[r].check.pc = "asking"
          /\ c = Finished(Calendar(turn[r].check.plan, turn[r].snap))
      BY <2>5, <2>7, <3>1, EventsByYes
    <3>3. c.events = Calendar(turn[r].check.plan, turn[r].snap)
      BY <3>2 DEF Finished, Nothing
    <3>4. {e.item : e \in c.events} \subseteq turn[r].check.plan
      BY <3>3 DEF Calendar
    <3> QED
      BY <2>5, <3>2, <3>4
  <2>10. runs'[turn[r].run] = c /\ \A q \in Turns \ {turn[r].run} : runs'[q] = runs[q]
    BY <2>4, <2>6 DEF TypeOK
  <2>11. {e.item : e \in c.events} \subseteq turn[r].saw
    BY <2>9
  <2>12. OnTrack(r)'
    BY <2>1, <2>4, <2>6, <2>8, <2>9, <2>10, <2>11 DEF OnTrack, At, Active, Writing
  <2>13. \A q \in Turns : turn'[q].pc \in {"new", "arrived"} => runs'[q] = Nothing
    BY <1>n, <2>5, <2>6, <2>10
  <2>14. \A q \in Turns : runs'[q].pc # "finished" => runs'[q].events = {}
    BY <1>r, <2>8, <2>10
  <2> QED
    BY <2>1, <2>2, <2>3, <2>6, <2>12, <2>13, <2>14, InOrderFrom
<1>5. ASSUME NEW r \in Turns, ModelFails(r) PROVE InOrder'
  <2>1. UNCHANGED <<shown, paused>> /\ Active(r) /\ Ends(r) /\ turn[r].pc \in {"arrived", "running"}
    BY <1>5 DEF ModelFails, At, Active, InOrder
  <2>2. \A q \in Turns \ {r} : ~Active(q)
    BY <2>1, OthersIdle
  <2>3. paused # NoRun => Fits /\ paused.plan = shown
    BY <1>w, <2>1 DEF At
  <2>4. turn'[r].pc = "ended" /\ \A q \in Turns \ {r} : turn'[q] = turn[q]
    BY <2>1, EndsDoes
  <2>5. OnTrack(r)'
    BY <2>4, OverOnTrack
  <2>6. CASE runs' = runs
    <3>1. Fits => Fits'
      BY <2>1, <2>6 DEF Fits
    <3> QED
      BY <1>r, <1>n, <2>1, <2>2, <2>3, <2>4, <2>5, <2>6, <3>1, InOrderFrom
  <2>7. CASE runs' # runs
    <3>1. /\ At(r, "running") /\ turn[r].check.pc = "asking"
          /\ runs' = [runs EXCEPT ![turn[r].run] = Broken]
      BY <1>5, <2>1, <2>7 DEF ModelFails, At
    <3>2. turn[r].run = paused.run /\ turn[turn[r].run].pc \notin {"new", "arrived"}
      BY <3>1, NotOver
    <3>3. /\ runs'[turn[r].run] = Broken
          /\ \A q \in Turns \ {turn[r].run} : runs'[q] = runs[q]
      BY <3>1 DEF TypeOK, Placed, At
    <3>4. Broken.pc = "broken" /\ Broken.events = {}
      BY DEF Broken, Nothing
    <3>5. Fits'
      BY <2>1, <3>2, <3>3, <3>4 DEF Fits
    <3> QED
      BY <1>r, <1>n, <2>1, <2>2, <2>3, <2>4, <2>5, <3>2, <3>3, <3>4, <3>5, InOrderFrom
  <2> QED
    BY <2>6, <2>7
<1>7. ASSUME NEW r \in Turns, ApplyEvent(r) PROVE InOrder'
  <2>1. UNCHANGED <<shown, paused, runs>> /\ Active(r) /\ At(r, "returned")
    BY <1>7 DEF ApplyEvent, At, Active
  <2>2. \A q \in Turns \ {r} : ~Active(q)
    BY <2>1, OthersIdle
  <2>3. PICK e \in turn[r].check.events :
          /\ turn'[r].pc = "returned"
          /\ turn'[r].check = [turn[r].check EXCEPT !.events = @ \ {e}]
          /\ turn'[r].say = turn[r].say /\ turn'[r].saw = turn[r].saw
          /\ turn'[r].run = turn[r].run
          /\ \A q \in Turns \ {r} : turn'[q] = turn[q]
    BY <1>7, ApplyDoes
  <2>4. turn[r].check \in Check
    BY DEF TypeOK
  <2>5. /\ turn'[r].check.pc = turn[r].check.pc
        /\ turn'[r].check.events \subseteq turn[r].check.events
    BY <2>3, <2>4 DEF Check
  <2>6. OnTrack(r) /\ turn[r].run \in Turns
    BY <2>1 DEF InOrder, Placed, At
  <2>7. turn[r].check.pc # "asking"
    BY <1>r, <2>1, <2>3, <2>6 DEF OnTrack
  <2>8. Writing(r) /\ {x.item : x \in turn[r].check.events} \subseteq turn[r].saw
    BY <2>1, <2>3, <2>6 DEF OnTrack, Writing
  <2>9. {x.item : x \in turn'[r].check.events} \subseteq turn[r].saw
    BY <2>5, <2>8
  <2>10. OnTrack(r)'
    BY <2>1, <2>3, <2>5, <2>6, <2>7, <2>8, <2>9 DEF OnTrack, At, Active, Writing
  <2>11. paused # NoRun => paused.plan = shown
    BY DEF InOrder
  <2> QED
    BY <1>r, <1>n, <2>1, <2>2, <2>3, <2>10, <2>11, InOrderFrom
<1>8. ASSUME NEW r \in Turns, Finish(r) PROVE InOrder'
  <2>1. UNCHANGED runs /\ Active(r) /\ Ends(r) /\ At(r, "returned")
    BY <1>8 DEF Finish, At, Active
  <2>2. \A q \in Turns \ {r} : ~Active(q)
    BY <2>1, OthersIdle
  <2>3. turn'[r].pc = "ended" /\ \A q \in Turns \ {r} : turn'[q] = turn[q]
    BY <2>1, EndsDoes
  <2>4. OnTrack(r)'
    BY <2>3, OverOnTrack
  <2>5. /\ OnTrack(r) /\ turn[r].run \in Turns
        /\ paused = NoRun \/ paused.run = turn[r].run
    BY <2>1 DEF InOrder, Placed, OnTrack, At
  <2>6. paused' # NoRun => Fits' /\ paused'.plan = shown'
    <3>1. CASE turn[r].check.pc = "asking"
      <4>1. paused' = [run |-> turn[r].run, plan |-> turn[r].check.plan] /\ shown' = turn[r].check.plan
        BY <1>8, <3>1 DEF Finish
      <4>2. runs[turn[r].run] = turn[r].check
        BY <2>1, <2>5, <3>1 DEF OnTrack
      <4> QED
        BY <2>1, <3>1, <4>1, <4>2 DEF Fits
    <3>2. CASE turn[r].check.pc # "asking"
      BY <1>8, <2>5, <3>2 DEF Finish, Cleared
    <3> QED
      BY <3>1, <3>2
  <2> QED
    BY <1>r, <1>n, <2>1, <2>2, <2>3, <2>4, <2>6, InOrderFrom
<1>9. CASE Restart
  <2>1. paused' = NoRun /\ \A q \in Turns : runs'[q] = Nothing
    BY <1>9, RestartDoes
  <2>2. \A q \in Turns : turn'[q].pc \in {"new", "ended"}
    BY <1>9, RestartDoes
  <2>3. \A q \in Turns : Nothing.events = {}
    BY DEF Nothing
  <2>4. \A q \in Turns : ~Active(q)' /\ OnTrack(q)' /\ ~At(q, "orphan")'
    BY <2>2 DEF Active, OnTrack, At
  <2> QED
    BY <2>1, <2>2, <2>3, <2>4 DEF InOrder
<1>10. CASE \/ UNCHANGED vars
            \/ \E t \in rows : Remove(t) \/ \E s \in Marks : Mark(t, s)
  <2>1. UNCHANGED <<turn, paused, runs, shown>>
    BY <1>10 DEF vars, Remove, Mark
  <2> QED
    BY <2>1 DEF InOrder, OnTrack, Active, At, Writing, Fits
<1> QED
  BY <1>1, <1>2, <1>3, <1>4, <1>5, <1>7, <1>8, <1>9, <1>10, <1>f
     DEF Next, ServerStep, FaultStep, Disconnect, ApplyFails
-----------------------------------------------------------------------------
(* OneEach. *)

\* What a turn knows stays true while tasks only go or change their status.
LEMMA KnownStays ==
  ASSUME NEW r \in Turns, Known(r), turn'[r] = turn[r],
         \A t \in rows' : \E u \in rows : u.id = t.id /\ u.item = t.item
  PROVE  Known(r)'
BY DEF Known, At

\* What a turn knows carries on while it keeps its snapshot and has no events.
LEMMA KnownCarries ==
  ASSUME NEW r \in Turns, Known(r), rows' = rows,
         \/ turn'[r].pc \in {"new", "orphan", "ended"}
         \/ /\ turn[r].pc \in {"arrived", "queued", "running"}
            /\ turn'[r].pc \in {"queued", "running"} /\ turn'[r].snap = turn[r].snap
  PROVE  Known(r)'
BY DEF Known, At

\* _calendar_events: the events of a plan name the tasks of its items, and
\* name no task twice.
LEMMA CalendarKnown ==
  ASSUME TypeOK, NEW r \in Turns, Known(r), At(r, "running"),
         NEW plan \in SUBSET Items, NEW e \in Calendar(plan, turn[r].snap)
  PROVE  /\ \A t \in rows : t.item = e.item <=> t.id = e.id
         /\ \A f \in Calendar(plan, turn[r].snap) :
              e.item = f.item \/ (e.id # 0 /\ e.id = f.id) => e = f
<1> DEFINE snap == turn[r].snap
<1>1. /\ \A t \in rows : \E s \in snap : s.id = t.id /\ s.item = t.item
      /\ \A s, u \in snap : s.item = u.item <=> s.id = u.id
      /\ \A t \in rows, s \in snap : t.id = s.id => t.item = s.item
  BY DEF Known, At
<1>2. rows \subseteq Row /\ snap \subseteq Row
  BY DEF TypeOK
<1>3. \A i \in plan : \/ KnownId(i, snap) = 0 /\ ~\E s \in snap : s.item = i
                      \/ \E s \in snap : s.item = i /\ s.id = KnownId(i, snap)
  BY DEF KnownId
<1>4. \A t \in rows : t.id # 0
  BY <1>2 DEF TypeOK, Row
<1>5. PICK i \in plan : e = [id |-> KnownId(i, snap), item |-> i]
  BY DEF Calendar
<1>6. \A t \in rows : t.item = e.item <=> t.id = e.id
  BY <1>1, <1>3, <1>4, <1>5
<1>7. ASSUME NEW f \in Calendar(plan, snap), e.item = f.item \/ (e.id # 0 /\ e.id = f.id)
      PROVE  e = f
  <2>1. PICK j \in plan : f = [id |-> KnownId(j, snap), item |-> j]
    BY DEF Calendar
  <2>2. i = j
    BY <1>1, <1>3, <1>5, <1>7, <2>1
  <2> QED
    BY <1>5, <2>1, <2>2
<1> QED
  BY <1>6, <1>7

\* A step of turns one after the other, with no task skipped, keeps each item
\* in the calendar once.
LEMMA OneEachStep ==
  ASSUME OneByOne, "skipped" \notin Marks, TypeOK, Placed, InOrder, OneEach, [Next]_vars
  PROVE  OneEach'
<1>k. \A q \in Turns : Known(q)
  BY DEF OneEach
<1>r. ASSUME UNCHANGED rows, \A q \in Turns : Known(q)' PROVE OneEach'
  BY <1>r DEF OneEach
<1>q. ASSUME NEW r \in Turns, UNCHANGED rows, Known(r)',
             \A q \in Turns \ {r} : turn'[q] = turn[q]
      PROVE  OneEach'
  <2>1. \A q \in Turns \ {r} : Known(q)'
    BY <1>k, <1>q, KnownStays
  <2> QED
    BY <1>q, <1>r, <2>1
<1>e. ASSUME NEW r \in Turns, UNCHANGED rows, Ends(r) PROVE OneEach'
  BY <1>e, <1>k, <1>q, EndsDoes, KnownCarries
<1>1. ASSUME NEW r \in Turns, NEW say \in {"plan", "change", "yes", "no"}, Arrive(r, say)
      PROVE  OneEach'
  <2>1. UNCHANGED rows
    BY <1>1 DEF Arrive
  <2>2. /\ turn'[r].pc = "arrived" /\ turn'[r].snap = {t \in rows : t.status # "skipped"}
        /\ \A q \in Turns \ {r} : turn'[q] = turn[q]
    BY <1>1, ArriveDoes
  <2>3. turn'[r].snap = rows
    BY <2>2 DEF OneEach
  <2>4. Known(r)'
    BY <2>1, <2>2, <2>3 DEF Known, OneEach, At
  <2> QED
    BY <1>q, <2>1, <2>2, <2>4
<1>2. ASSUME NEW r \in Turns, Begin(r) \/ GraphStarts(r) PROVE OneEach'
  <2>1. UNCHANGED rows
    BY <1>2 DEF Begin, GraphStarts
  <2>2. /\ \A q \in Turns \ {r} : turn'[q] = turn[q]
        /\ \/ Ends(r)
           \/ /\ turn[r].pc \in {"arrived", "queued"}
              /\ turn'[r].pc \in {"queued", "running"} /\ turn'[r].snap = turn[r].snap
    BY <1>2, BeginDoes, StartDoes
  <2> QED
    BY <1>e, <1>k, <1>q, <2>1, <2>2, KnownCarries
<1>4. ASSUME NEW r \in Turns, GraphReturns(r) PROVE OneEach'
  <2>1. UNCHANGED rows /\ At(r, "running")
    BY <1>4 DEF GraphReturns, At, InOrder
  <2>2. PICK c \in Results(turn[r]) :
          /\ turn'[r].pc = "returned" /\ turn'[r].check = c
          /\ \A q \in Turns \ {r} : turn'[q] = turn[q]
    BY <1>4, <2>1, ReturnDoes DEF At
  <2>3. turn[r] \in Turned
    BY DEF TypeOK, Turned, Steps
  <2>4. \/ c.events = {}
        \/ c.events = Calendar(turn[r].check.plan, turn[r].snap)
    <3>1. turn[r].check.events = {}
      BY <2>1, NotOver
    <3> QED
      BY <2>3, <3>1, EventsByYes DEF Finished, Nothing
  <2>5. turn[r].check.plan \in SUBSET Items
    BY <2>3 DEF Turned, Check
  <2>6. \A e \in c.events :
          /\ \A t \in rows : t.item = e.item <=> t.id = e.id
          /\ \A f \in c.events : e.item = f.item \/ (e.id # 0 /\ e.id = f.id) => e = f
    <3>1. CASE c.events = {}
      BY <3>1
    <3>2. CASE c.events = Calendar(turn[r].check.plan, turn[r].snap)
      <4>1. Known(r)
        BY <1>k
      <4> SUFFICES ASSUME NEW e \in Calendar(turn[r].check.plan, turn[r].snap)
                   PROVE  /\ \A t \in rows : t.item = e.item <=> t.id = e.id
                          /\ \A f \in Calendar(turn[r].check.plan, turn[r].snap) :
                               e.item = f.item \/ (e.id # 0 /\ e.id = f.id) => e = f
        BY <3>2
      <4> QED
        BY <2>1, <2>5, <4>1, CalendarKnown
    <3> QED
      BY <2>4, <3>1, <3>2
  <2>7. Known(r)'
    BY <2>1, <2>2, <2>6 DEF Known, At
  <2> QED
    BY <1>q, <2>1, <2>2, <2>7
<1>5. ASSUME NEW r \in Turns, ModelFails(r) \/ ApplyFails(r) \/ Finish(r) PROVE OneEach'
  BY <1>5, <1>e DEF ModelFails, ApplyFails, Finish
<1>6. ASSUME NEW r \in Turns, Disconnect(r) PROVE OneEach'
  <2>1. UNCHANGED rows
    BY <1>6 DEF Disconnect
  <2> QED
    BY <1>6, <1>e, <1>k, <1>q, <2>1, CancelDoes, KnownCarries
<1>7. ASSUME NEW r \in Turns, ApplyEvent(r) PROVE OneEach'
  <2>1. Active(r) /\ At(r, "returned")
    BY <1>7 DEF ApplyEvent, At, Active
  <2>2. PICK e \in turn[r].check.events :
          /\ Upsert(e) /\ turn'[r].pc = "returned"
          /\ turn'[r].check = [turn[r].check EXCEPT !.events = @ \ {e}]
          /\ \A q \in Turns \ {r} : turn'[q] = turn[q]
    BY <1>7, ApplyDoes
  <2>3. turn[r].check \in Check /\ rows \subseteq Row /\ lastId \in Nat
    BY DEF TypeOK
  <2>4. turn'[r].check.events = turn[r].check.events \ {e}
    BY <2>2, <2>3 DEF Check
  <2>5. \A f \in turn[r].check.events :
          /\ \A t \in rows : t.item = f.item <=> t.id = f.id
          /\ \A g \in turn[r].check.events :
               f.item = g.item \/ (f.id # 0 /\ f.id = g.id) => f = g
          /\ f.id \in 0..lastId
    BY <1>k, <2>1, <2>3 DEF Known, Check, Event
  <2>6. \A t \in rows : t.id \in 1..lastId
    BY <2>3 DEF Row
  <2> DEFINE id == IF e.id = 0 THEN lastId + 1 ELSE e.id
             new == Written(id, e.item)
  <2>7. rows' = {t \in rows : t.id # e.id} \cup {new}
    <3>1. CASE e.id = 0
      <4>1. {t \in rows : t.id # e.id} = rows
        BY <2>6, <3>1
      <4> QED
        BY <2>2, <3>1, <4>1 DEF Upsert
    <3>2. CASE e.id # 0
      BY <2>2, <3>2 DEF Upsert
    <3> QED
      BY <3>1, <3>2
  <2>8. new.id = id /\ new.item = e.item /\ new.status = "todo"
    BY DEF Written
  <2>9. \A t \in rows' : t = new \/ (t \in rows /\ t.item # e.item /\ t.id # id)
    <3>1. SUFFICES ASSUME NEW t \in rows, t.id # e.id PROVE t.item # e.item /\ t.id # id
      BY <2>7
    <3>2. t.item # e.item /\ t.id \in 1..lastId
      BY <2>5, <2>6, <3>1
    <3> QED
      BY <2>3, <3>1, <3>2
  <2>10. \A t, u \in rows' : t.item = u.item \/ t.id = u.id => t = u
    BY <2>8, <2>9 DEF OneEach
  <2>11. \A t \in rows' : t.status # "skipped"
    BY <2>8, <2>9 DEF OneEach
  <2>12. \A f \in turn'[r].check.events : f.item # e.item /\ f.id # id
    BY <2>3, <2>4, <2>5
  <2>13. \A f \in turn'[r].check.events : \A t \in rows' : t.item = f.item <=> t.id = f.id
    BY <2>4, <2>5, <2>8, <2>9, <2>12
  <2>14. Known(r)'
    BY <2>2, <2>4, <2>5, <2>13 DEF Known, At
  <2>15. \A q \in Turns \ {r} : Known(q)'
    <3>1. \A q \in Turns \ {r} : turn'[q].pc \notin {"arrived", "queued", "running", "returned"}
      BY <2>1, <2>2, OthersIdle DEF Active, TypeOK
    <3> QED
      BY <3>1 DEF Known, At
  <2> QED
    BY <2>10, <2>11, <2>14, <2>15 DEF OneEach
<1>8. ASSUME NEW t \in rows, Remove(t) PROVE OneEach'
  <2>1. rows' \subseteq rows /\ UNCHANGED turn
    BY <1>8 DEF Remove
  <2>2. \A q \in Turns : Known(q)'
    BY <1>k, <2>1, KnownStays
  <2> QED
    BY <2>1, <2>2 DEF OneEach
<1>9. ASSUME NEW t \in rows, NEW s \in Marks, Mark(t, s) PROVE OneEach'
  <2> DEFINE new == [t EXCEPT !.status = s]
  <2>1. rows' = (rows \ {t}) \cup {new} /\ UNCHANGED turn
    BY <1>9 DEF Mark
  <2>2. new.id = t.id /\ new.item = t.item /\ new.status = s
    <3>1. t \in Row
      BY DEF TypeOK
    <3> QED
      BY <3>1 DEF Row
  <2>3. \A u \in rows' : u = new \/ (u \in rows /\ u # t)
    BY <2>1
  <2>4. \A q \in Turns : Known(q)'
    <3>1. \A u \in rows' : \E v \in rows : v.id = u.id /\ v.item = u.item
      BY <2>2, <2>3
    <3> QED
      BY <1>k, <2>1, <3>1, KnownStays
  <2>5. \A u, v \in rows' : u.item = v.item \/ u.id = v.id => u = v
    BY <2>2, <2>3 DEF OneEach
  <2>6. \A u \in rows' : u.status # "skipped"
    BY <2>2, <2>3 DEF OneEach
  <2> QED
    BY <2>4, <2>5, <2>6 DEF OneEach
<1>10. CASE Restart
  <2>1. \A q \in Turns : turn'[q].pc \in {"new", "ended"}
    BY <1>10, RestartDoes
  <2>2. UNCHANGED rows
    BY <1>10 DEF Restart
  <2> QED
    BY <1>r, <2>1, <2>2 DEF Known, At
<1>11. CASE UNCHANGED vars
  BY <1>11, <1>k, <1>r, KnownStays DEF vars
<1> QED
  BY <1>1, <1>2, <1>4, <1>5, <1>6, <1>7, <1>8, <1>9, <1>10, <1>11
     DEF Next, ServerStep, FaultStep
\* With turns one after the other every reachable state is in order.
LEMMA InOrderAlways ==
  ASSUME OneByOne
  PROVE  Spec => []InOrder
<1>1. Init => InOrder
  BY DEF Init, InOrder, OnTrack, Active, At, Fresh, Nothing
<1>2. TypeOK /\ Placed /\ InOrder /\ [Next]_vars => InOrder'
  BY InOrderStep
<1> QED
  BY <1>1, <1>2, Invariant, PTL DEF Spec

\* handle, approval_node: with turns one after the other, failing models and
\* restarts, a turn writes to the calendar only if the student said yes in it.
THEOREM OnlyByYes ==
  ASSUME OneByOne
  PROVE  Spec => []WrittenOnlyByYes
<1>1. InOrder => WrittenOnlyByYes
  BY DEF InOrder, OnTrack, WrittenOnlyByYes, Writing
<1> QED
  BY <1>1, InOrderAlways, PTL

\* handle, calendar_node: nothing is written that was not in the plan on the
\* student's screen when the yes was sent.
THEOREM OnlyWhatWasShown ==
  ASSUME OneByOne
  PROVE  Spec => []OnlyShownPlansWritten
<1>1. InOrder => OnlyShownPlansWritten
  BY DEF InOrder, OnTrack, OnlyShownPlansWritten, Writing
<1> QED
  BY <1>1, InOrderAlways, PTL

\* _paused_threads: between turns the question on record is the one the graph
\* waits on, whichever way the last turn ended.
THEOREM PausedFits ==
  ASSUME OneByOne
  PROVE  Spec => []PausedMatchesGraph
<1>1. InOrder => PausedMatchesGraph
  <2> SUFFICES ASSUME InOrder, Serving = {}, paused # NoRun PROVE Fits
    BY DEF PausedMatchesGraph, Fits
  <2>1. \A r \in Turns : ~At(r, "returned")
    BY DEF Serving, Active, At
  <2> QED
    BY <2>1 DEF InOrder
<1> QED
  BY <1>1, InOrderAlways, PTL

\* With turns one after the other, and no task skipped, OneEach always holds.
LEMMA OneEachAlways ==
  ASSUME OneByOne, "skipped" \notin Marks
  PROVE  Spec => []OneEach
<1>1. Init => OneEach
  BY DEF Init, OneEach, Known, At, Fresh
<1>2. TypeOK /\ Placed /\ InOrder /\ OneEach /\ [Next]_vars => OneEach'
  BY OneEachStep
<1> QED
  BY <1>1, <1>2, Invariant, InOrderAlways, PTL DEF Spec

\* _calendar_events, _apply_event: however often plans overlap, are approved
\* again, cut short by a restart or edited by the student, each item has one
\* task, unless a task of it was skipped.
THEOREM EachItemOnce ==
  ASSUME OneByOne, "skipped" \notin Marks
  PROVE  Spec => []OneTaskPerItem
<1>1. OneEach => OneTaskPerItem
  BY DEF OneEach, OneTaskPerItem
<1> QED
  BY <1>1, OneEachAlways, PTL
-----------------------------------------------------------------------------
(* ApprovalWorkflow implements ApprovalSpec. *)

\* A run that waits does so as the planning node left it.
Asked == \A n \in Turns : runs[n].pc = "asking" => runs[n] \in Planned

\* Nothing but the planning node makes a run wait.
LEMMA AskedStep ==
  ASSUME TypeOK, Placed, Asked, [Next]_vars
  PROVE  Asked'
<1>n. Nothing.pc # "asking" /\ Broken.pc # "asking"
  BY DEF Nothing, Broken
<1>0. CASE UNCHANGED runs
  BY <1>0 DEF Asked
<1>1. ASSUME NEW r \in Turns, GraphReturns(r) PROVE Asked'
  <2>1. PICK c \in Results(turn[r]) : runs' = [runs EXCEPT ![turn[r].run] = c]
    BY <1>1, ReturnDoes
  <2>2. turn[r].check.pc \in {"none", "asking", "finished", "broken"}
    BY DEF TypeOK, Check
  <2>3. \A events : Finished(events).pc = "finished"
    BY DEF Finished, Nothing
  <2>4. \A d \in Answered(turn[r].check, turn[r]) : d \in Planned \/ d.pc = "finished"
    BY <2>3 DEF Answered
  <2>5. c.pc = "asking" => c \in Planned
    BY <2>2, <2>3, <2>4 DEF Results
  <2> QED
    BY <2>1, <2>5 DEF Asked, TypeOK
<1>2. ASSUME NEW r \in Turns, ModelFails(r) PROVE Asked'
  <2>1. runs' = runs \/ runs' = [runs EXCEPT ![turn[r].run] = Broken]
    BY <1>2 DEF ModelFails
  <2> QED
    BY <1>n, <2>1 DEF Asked, TypeOK
<1>3. CASE Restart
  BY <1>3, <1>n, RestartDoes DEF Asked
<1> QED
  BY <1>0, <1>1, <1>2, <1>3
     DEF Next, ServerStep, FaultStep, Arrive, Begin, GraphStarts, ApplyEvent, Finish,
         Disconnect, ApplyFails, Remove, Mark, vars

\* With each item once among the tasks, an item has one task or none.
LEMMA Counts ==
  ASSUME NEW tasks, \A t, u \in tasks : t.item = u.item => t = u, NEW i
  PROVE  Cardinality({t \in tasks : t.item = i})
           = IF \E t \in tasks : t.item = i THEN 1 ELSE 0
<1>1. CASE \E t \in tasks : t.item = i
  <2> PICK u \in tasks : u.item = i
    BY <1>1
  <2>1. {t \in tasks : t.item = i} = {u}
    OBVIOUS
  <2> QED
    BY <1>1, <2>1, FS_Singleton
<1>2. CASE ~\E t \in tasks : t.item = i
  <2>1. {t \in tasks : t.item = i} = {}
    BY <1>2
  <2> QED
    BY <1>2, <2>1, FS_EmptySet
<1> QED
  BY <1>1, <1>2

\* The abstract calendar: while each item is there once, it says which are.
Entered == [i \in Items |-> IF \E t \in rows : t.item = i THEN 1 ELSE 0]

\* Where nothing is due before or after, an offer may come or go.
LEMMA NothingDue ==
  ASSUME Due = {}, Due' = {}, Entered' = Entered, OneEach, OneEach',
         NEW p \in SUBSET Items, OnOffer \in {{}, {p}}, OnOffer' \in {{}, {p}}
  PROVE  [Promise!Next]_(Promise!vars)
<1>0. /\ \A t, u \in rows : t.item = u.item => t = u
      /\ \A t, u \in rows' : t.item = u.item => t = u
  BY DEF OneEach
<1>1. [i \in Items |-> Cardinality({t \in rows : t.item = i})]'
        = [i \in Items |-> Cardinality({t \in rows : t.item = i})]
  <2>1. /\ \A i \in Items : Entered[i] = IF \E t \in rows : t.item = i THEN 1 ELSE 0
        /\ \A i \in Items : Entered'[i] = IF \E t \in rows' : t.item = i THEN 1 ELSE 0
    BY DEF Entered
  <2>2. ASSUME NEW i \in Items
        PROVE  Cardinality({t \in rows' : t.item = i}) = Cardinality({t \in rows : t.item = i})
    <3>1. Cardinality({t \in rows : t.item = i})
            = IF \E t \in rows : t.item = i THEN 1 ELSE 0
      BY <1>0, Counts
    <3>2. Cardinality({t \in rows' : t.item = i})
            = IF \E t \in rows' : t.item = i THEN 1 ELSE 0
      BY <1>0, Counts
    <3>3. Entered'[i] = Entered[i]
      OBVIOUS
    <3> QED
      BY <2>1, <3>1, <3>2, <3>3
  <2> QED
    BY <2>2
<1>2. CASE OnOffer' = OnOffer
  BY <1>1, <1>2 DEF Promise!vars
<1>3. CASE OnOffer = {} /\ OnOffer' = {p}
  <2>1. Promise!Offer(p)
    BY <1>1, <1>3 DEF Promise!Offer
  <2> QED
    BY <2>1 DEF Promise!Next
<1>4. CASE OnOffer = {p} /\ OnOffer' = {}
  <2>1. Promise!Withdraw
    BY <1>1, <1>4 DEF Promise!Withdraw
  <2> QED
    BY <2>1 DEF Promise!Next
<1> QED
  BY <1>2, <1>3, <1>4
\* Every step of turns one after the other is a step of ApprovalSpec, or none.
LEMMA PromiseStep ==
  ASSUME OneByOne, TypeOK, Placed, InOrder, Asked, OneEach, TypeOK', InOrder', OneEach',
         [Next]_vars
  PROVE  [Promise!Next]_(Promise!vars)
<1>o. /\ OnOffer = {} \/ (paused # NoRun /\ OnOffer = {paused.plan})
      /\ paused.plan \in SUBSET Items
  BY DEF OnOffer, TypeOK
<1>p. /\ OnOffer' = {} \/ (paused' # NoRun /\ OnOffer' = {paused'.plan})
      /\ paused'.plan \in SUBSET Items
  BY DEF OnOffer, TypeOK
<1>f. ~Fault("cancel") /\ ~Fault("apply")
  BY DEF OneByOne, Fault
<1>d. ASSUME NEW r \in Turns, \A q \in Turns \ {r} : ~Active(q) /\ turn'[q] = turn[q]
      PROVE  /\ Due = IF At(r, "returned")
                      THEN {e.item : e \in turn[r].check.events} ELSE {}
             /\ Due' = IF turn'[r].pc = "returned"
                       THEN {e.item : e \in turn'[r].check.events} ELSE {}
  <2>1. \A q \in Turns \ {r} : turn[q].pc # "returned" /\ turn'[q].pc # "returned"
    BY <1>d DEF Active
  <2>2. Due = IF At(r, "returned") THEN {e.item : e \in turn[r].check.events} ELSE {}
    BY <2>1 DEF Due, At
  <2>3. Due' = IF turn'[r].pc = "returned"
               THEN {e.item : e \in turn'[r].check.events} ELSE {}
    BY <2>1 DEF Due, At
  <2> QED
    BY <2>2, <2>3
<1>c. /\ [i \in Items |-> Cardinality({t \in rows : t.item = i})] = Entered
      /\ [i \in Items |-> Cardinality({t \in rows : t.item = i})]' = Entered'
  BY Counts DEF Entered, OneEach
<1>s. ASSUME UNCHANGED rows PROVE Entered' = Entered
  BY <1>s DEF Entered
\* As long as nothing is due and the plan on record is the same, or is gone.
<1>q. ASSUME NEW r \in Turns, \A q \in Turns \ {r} : ~Active(q) /\ turn'[q] = turn[q],
             ~At(r, "returned") \/ turn[r].check.events = {},
             turn'[r].pc = "returned" => turn'[r].check.events = {},
             UNCHANGED rows, paused' \in {paused, NoRun}
      PROVE  [Promise!Next]_(Promise!vars)
  <2>1. Due = {} /\ Due' = {}
    BY <1>d, <1>q
  <2>2. OnOffer \in {{}, {paused.plan}} /\ OnOffer' \in {{}, {paused.plan}}
    BY <1>o, <1>p, <1>q
  <2> QED
    BY <1>o, <1>s, <1>q, <2>1, <2>2, NothingDue
<1>1. ASSUME NEW r \in Turns, NEW say \in {"plan", "change", "yes", "no"}, Arrive(r, say)
      PROVE  [Promise!Next]_(Promise!vars)
  <2>1. \A q \in Turns : ~Active(q)
    BY <1>1, NobodyServed DEF Arrive
  <2>2. /\ turn[r].pc = "new" /\ turn'[r].pc = "arrived"
        /\ \A q \in Turns \ {r} : turn'[q] = turn[q]
    BY <1>1, ArriveDoes
  <2>3. UNCHANGED <<paused, rows>>
    BY <1>1 DEF Arrive
  <2> QED
    BY <1>q, <2>1, <2>2, <2>3 DEF At
<1>2. ASSUME NEW r \in Turns, Begin(r) \/ GraphStarts(r) \/ ModelFails(r)
      PROVE  [Promise!Next]_(Promise!vars)
  <2>1. /\ Active(r) /\ ~At(r, "returned") /\ UNCHANGED rows
    BY <1>2 DEF Begin, GraphStarts, ModelFails, Active, At
  <2>2. \A q \in Turns \ {r} : ~Active(q)
    BY <2>1, OthersIdle
  <2>3. /\ turn'[r].pc # "returned" /\ paused' \in {paused, NoRun}
        /\ \A q \in Turns \ {r} : turn'[q] = turn[q]
    BY <1>2, BeginDoes, StartDoes, EndsDoes DEF GraphStarts, ModelFails
  <2> QED
    BY <1>q, <2>1, <2>2, <2>3
<1>4. ASSUME NEW r \in Turns, GraphReturns(r)
      PROVE  [Promise!Next]_(Promise!vars)
  <2>1. UNCHANGED <<rows, paused>> /\ Active(r) /\ At(r, "running")
    BY <1>4 DEF GraphReturns, At, Active, InOrder
  <2>2. \A q \in Turns \ {r} : ~Active(q)
    BY <2>1, OthersIdle
  <2>3. PICK c \in Results(turn[r]) :
          /\ runs' = [runs EXCEPT ![turn[r].run] = c]
          /\ turn'[r].pc = "returned" /\ turn'[r].check = c
          /\ \A q \in Turns \ {r} : turn'[q] = turn[q]
    BY <1>4, <2>1, ReturnDoes DEF At
  <2>4. CASE c.events = {}
    BY <1>q, <2>1, <2>2, <2>3, <2>4 DEF At
  <2>5. CASE c.events # {}
    <3> DEFINE plan == turn[r].check.plan
    <3>1. turn[r] \in Turned /\ turn[r].run \in Turns
      BY <2>1 DEF TypeOK, Turned, Steps, Placed, At
    <3>2. /\ turn[r].check.pc = "asking" /\ turn[r].check.ask # "plan_input"
          /\ c = Finished(Calendar(plan, turn[r].snap))
      BY <2>1, <2>5, <3>1, NotOver, EventsByYes
    <3>3. /\ paused # NoRun /\ turn[r].run = paused.run
          /\ turn[r].check = runs[paused.run] /\ plan = paused.plan
      BY <2>1, <3>2, NotOver DEF InOrder, OnTrack, At, Active
    <3>4. turn[r].check = Asking("calendar_approval", plan)
      <4>1. turn[r].check \in Planned
        BY <2>1, <3>2, <3>3, <3>1 DEF Asked
      <4> QED
        BY <3>2, <4>1 DEF Planned, Asking, Nothing
    <3>5. OnOffer = {plan}
      BY <3>3, <3>4 DEF OnOffer
    <3>6. runs'[paused.run] = c /\ c.pc = "finished"
      BY <2>3, <3>1, <3>2, <3>3 DEF TypeOK, Finished, Nothing
    <3>7. OnOffer' = {}
      BY <2>1, <3>6 DEF OnOffer, Asking, Nothing
    <3>8. c.events = Calendar(plan, turn[r].snap)
      BY <3>2 DEF Finished, Nothing
    <3>9. {e.item : e \in c.events} = plan
      <4>1. \A e \in c.events : e.item \in plan
        BY <3>8 DEF Calendar
      <4>2. ASSUME NEW i \in plan PROVE \E e \in c.events : e.item = i
        <5>1. [id |-> KnownId(i, turn[r].snap), item |-> i] \in c.events
          BY <3>8 DEF Calendar
        <5> QED
          BY <5>1
      <4> QED
        BY <4>1, <4>2
    <3>10. Due = {} /\ Due' = plan
      BY <1>d, <2>1, <2>2, <2>3, <3>9 DEF At
    <3>11. [i \in Items |-> Cardinality({t \in rows : t.item = i})]'
            = [i \in Items |-> Cardinality({t \in rows : t.item = i})]
      BY <2>1
    <3>12. plan \in SUBSET Items
      BY <3>1 DEF Turned, Check
    <3>13. Promise!Approve(plan)
      BY <3>5, <3>7, <3>10, <3>11 DEF Promise!Approve
    <3> QED
      BY <3>12, <3>13 DEF Promise!Next
  <2> QED
    BY <2>4, <2>5
<1>7. ASSUME NEW r \in Turns, ApplyEvent(r)
      PROVE  [Promise!Next]_(Promise!vars)
  <2>1. UNCHANGED <<runs, paused>> /\ Active(r) /\ At(r, "returned")
    BY <1>7 DEF ApplyEvent, At, Active
  <2>2. \A q \in Turns \ {r} : ~Active(q)
    BY <2>1, OthersIdle
  <2>3. PICK e \in turn[r].check.events :
          /\ Upsert(e) /\ turn'[r].pc = "returned"
          /\ turn'[r].check = [turn[r].check EXCEPT !.events = @ \ {e}]
          /\ \A q \in Turns \ {r} : turn'[q] = turn[q]
    BY <1>7, ApplyDoes
  <2>4. turn[r].check \in Check /\ rows \subseteq Row
    BY DEF TypeOK
  <2>5. turn'[r].check.events = turn[r].check.events \ {e} /\ e.item \in Items
    BY <2>3, <2>4 DEF Check, Event
  <2>6. /\ \A t \in rows : t.item = e.item <=> t.id = e.id
        /\ \A f \in turn[r].check.events : e.item = f.item => e = f
    BY <2>1, <2>3 DEF OneEach, Known
  <2>7. Due = {x.item : x \in turn[r].check.events} /\ Due' = {x.item : x \in turn'[r].check.events}
    BY <1>d, <2>1, <2>2, <2>3
  <2>8. e.item \in Due /\ Due' = Due \ {e.item}
    BY <2>3, <2>5, <2>6, <2>7
  <2>9. Entered' = [Entered EXCEPT ![e.item] = 1]
    <3>1. \A i \in Items \ {e.item} :
            (\E t \in rows' : t.item = i) <=> (\E t \in rows : t.item = i)
      BY <2>3, <2>6 DEF Upsert, Written
    <3>2. \E t \in rows' : t.item = e.item
      <4>1. Written(lastId + 1, e.item) \in rows' \/ Written(e.id, e.item) \in rows'
        BY <2>3 DEF Upsert
      <4> QED
        BY <4>1 DEF Written
    <3> QED
      BY <3>1, <3>2 DEF Entered
  <2>10. OnOffer' = OnOffer
    BY <2>1 DEF OnOffer
  <2>11. Promise!Enter(e.item)
    BY <2>8, <2>9, <1>c, <2>10 DEF Promise!Enter
  <2> QED
    BY <2>5, <2>11 DEF Promise!Next
<1>8. ASSUME NEW r \in Turns, Finish(r)
      PROVE  [Promise!Next]_(Promise!vars)
  <2>1. /\ UNCHANGED <<runs, rows>> /\ Active(r) /\ Ends(r) /\ At(r, "returned")
        /\ turn[r].check.events = {}
    BY <1>8 DEF Finish, At, Active
  <2>2. \A q \in Turns \ {r} : ~Active(q)
    BY <2>1, OthersIdle
  <2>3. turn'[r].pc = "ended" /\ \A q \in Turns \ {r} : turn'[q] = turn[q]
    BY <2>1, EndsDoes
  <2>4. CASE turn[r].check.pc # "asking"
    <3>1. paused' \in {paused, NoRun}
      BY <1>8, <2>4 DEF Finish, Cleared
    <3> QED
      BY <1>q, <2>1, <2>2, <2>3, <3>1
  <2>5. CASE turn[r].check.pc = "asking"
    <3>1. paused' = [run |-> turn[r].run, plan |-> turn[r].check.plan]
      BY <1>8, <2>5 DEF Finish
    <3>2. /\ paused = NoRun \/ paused.run = turn[r].run
          /\ runs[turn[r].run] = turn[r].check
      BY <2>1, <2>5 DEF InOrder, OnTrack
    <3>3. OnOffer \in {{}, {paused'.plan}}
      BY <3>1, <3>2 DEF OnOffer, Asking, Nothing
    <3>4. Due = {} /\ Due' = {}
      BY <1>d, <2>1, <2>2, <2>3
    <3> QED
      BY <1>p, <1>s, <2>1, <3>3, <3>4, NothingDue
  <2> QED
    BY <2>4, <2>5
<1>9. CASE Restart
  <2>1. paused' = NoRun /\ \A q \in Turns : turn'[q].pc \in {"new", "ended"}
    BY <1>9, RestartDoes
  <2>2. Due' = {}
    BY <2>1 DEF Due, At
  <2>3. OnOffer' = {}
    BY <2>1 DEF OnOffer
  <2>4. UNCHANGED rows
    BY <1>9 DEF Restart
  <2>5. Promise!Forget
    BY <2>2, <2>3, <2>4 DEF Promise!Forget
  <2> QED
    BY <2>5 DEF Promise!Next
<1>10. ASSUME NEW t \in rows, Remove(t)
       PROVE  [Promise!Next]_(Promise!vars)
  <2>1. UNCHANGED <<turn, paused, runs>> /\ rows' = rows \ {t}
    BY <1>10 DEF Remove
  <2>2. Due' = Due /\ OnOffer' = OnOffer
    BY <2>1 DEF Due, OnOffer, At
  <2>3. t.item \in Items
    BY DEF TypeOK, Row
  <2>4. \A u \in rows' : u.item # t.item
    BY <2>1 DEF OneEach
  <2>5. \A i \in Items \ {t.item} :
          (\E u \in rows' : u.item = i) <=> (\E u \in rows : u.item = i)
    BY <2>1
  <2>6. Entered[t.item] = 1 /\ Entered' = [Entered EXCEPT ![t.item] = 0]
    BY <2>3, <2>4, <2>5 DEF Entered
  <2>7. Promise!Remove(t.item)
    BY <2>2, <2>6, <1>c DEF Promise!Remove
  <2> QED
    BY <2>3, <2>7 DEF Promise!Next
<1>11. CASE UNCHANGED vars \/ \E t \in rows, s \in Marks : Mark(t, s)
  <2>1. UNCHANGED <<turn, paused, runs>>
    BY <1>11 DEF vars, Mark
  <2>2. Due' = Due /\ OnOffer' = OnOffer
    BY <2>1 DEF Due, OnOffer, At
  <2>3. \A i : (\E t \in rows' : t.item = i) <=> (\E t \in rows : t.item = i)
    <3>1. CASE UNCHANGED vars
      BY <3>1 DEF vars
    <3>2. ASSUME NEW t \in rows, NEW s \in Marks, Mark(t, s)
          PROVE  \A i : (\E u \in rows' : u.item = i) <=> (\E u \in rows : u.item = i)
      <4>1. [t EXCEPT !.status = s].item = t.item
        BY DEF TypeOK, Row
      <4> QED
        BY <3>2, <4>1 DEF Mark
    <3> QED
      BY <1>11, <3>1, <3>2
  <2>4. Entered' = Entered
    BY <2>3 DEF Entered
  <2> QED
    BY <2>2, <2>4, <1>c DEF Promise!vars
<1> QED
  BY <1>1, <1>2, <1>4, <1>7, <1>8, <1>9, <1>10, <1>11, <1>f
     DEF Next, ServerStep, FaultStep, Disconnect, ApplyFails

\* handle, graph, _apply_event: through drafts, changes, answers given twice,
\* failing models and restarts, what is written is the plan that stood on offer
\* when it was approved, whole unless the process stops, and no item twice.
THEOREM PromiseKept ==
  ASSUME OneByOne, "skipped" \notin Marks
  PROVE  Spec => KeepsPromise
<1>1. Init => Asked
  BY DEF Init, Asked, Nothing
<1>2. Init => Promise!Init
  <2> SUFFICES ASSUME Init PROVE Promise!Init
    OBVIOUS
  <2>1. OnOffer = {} /\ Due = {}
    BY DEF Init, OnOffer, Due, At, Fresh
  <2>2. \A i \in Items : Cardinality({t \in rows : t.item = i}) = 0
    <3>1. \A i \in Items : {t \in rows : t.item = i} = {}
      BY DEF Init
    <3> QED
      BY <3>1, FS_EmptySet
  <2> QED
    BY <2>1, <2>2 DEF Promise!Init
<1>3. TypeOK /\ Placed /\ Asked /\ [Next]_vars => Asked'
  BY AskedStep
<1>4. Spec => []Asked
  BY <1>1, <1>3, Invariant, PTL DEF Spec
<1>5. /\ TypeOK /\ Placed /\ InOrder /\ Asked /\ OneEach
      /\ TypeOK' /\ InOrder' /\ OneEach' /\ [Next]_vars
      => [Promise!Next]_(Promise!vars)
  BY PromiseStep
<1> QED
  BY <1>2, <1>4, <1>5, Invariant, InOrderAlways, OneEachAlways, PTL
     DEF Spec, KeepsPromise, Promise!Spec
=============================================================================
