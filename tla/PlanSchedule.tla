----------------------------- MODULE PlanSchedule -----------------------------
(***************************************************************************)
(* planning_agent.plan: from the candidates it collected and the design a  *)
(* model returned to the study sessions of a semester, one session at a    *)
(* time.  A model's design is validated, topped up and backfilled; without *)
(* a usable design the rule scheduler places everything.                   *)
(*                                                                         *)
(* Days are numbered, Start is the first one that can be scheduled, and a  *)
(* candidate is the number in its id ("c1", "c2", ...).  The design comes  *)
(* from a language model and may be anything its schema admits.            *)
(***************************************************************************)
EXTENDS Integers, Sequences, FiniteSets, FiniteSetsExt

CONSTANTS
  Candidates,   \* the numbers of the collected candidates
  Start,        \* schedule_start
  Year,         \* the days _next_open_day looks past the window: 365
  MaxPerDay,    \* MAX_SESSIONS_PER_DAY: 8
  MaxDepth,     \* MAX_SESSIONS_PER_ITEM + 2: 8
  BaseLoads,    \* what _capacity returns: 1..6
  Efforts,      \* the effort_units of a candidate
  Deadlines,    \* the days a candidate's deadline may be
  SemesterEnds, \* the days the semester may end on
  Designs       \* the designs the model may return

NoDay  == -1    \* a day that is missing or does not parse

ASSUME CandidatesAssumption ==
  Candidates \subseteq Nat \ {0} /\ Candidates # {} /\ IsFiniteSet(Candidates)
ASSUME BoundsAssumption ==
  /\ Start \in Nat /\ Year \in Nat
  /\ MaxPerDay \in Nat \ {0} /\ MaxDepth \in Nat \ {0}
ASSUME InputsAssumption ==
  /\ BaseLoads \subseteq 1..MaxPerDay /\ Efforts \subseteq Nat \ {0}
  /\ Deadlines \subseteq Nat \cup {NoDay} /\ SemesterEnds \subseteq Nat
ASSUME DesignsAssumption ==
  \A d \in Designs :
    /\ d.sessions \in Seq([cand : Nat, day : Nat \cup {NoDay},
                           session : Int, of : Int])
    /\ d.horizon \in Nat \cup {NoDay} /\ d.perDay \in Int

VARIABLES
  effort, deadline, base, semesterEnd, design,   \* the inputs of plan
  scope,       \* the candidates the request leaves in
  windowEnd,   \* the last day of the plan window
  capacity,    \* the sessions a day may hold
  pc,          \* the pass under way
  next,        \* the design session validated next
  seen,        \* the <<candidate, session>> pairs validated so far
  placed,      \* the sessions placed so far
  serial,      \* how many were placed: their order in the list
  current,     \* the candidate the rule scheduler is placing, or 0
  own          \* the days the rule scheduler gave it

inputs == <<effort, deadline, base, semesterEnd, design>>
window == <<scope, windowEnd, capacity>>
vars   == <<inputs, window, pc, next, seen, placed, serial, current, own>>

-----------------------------------------------------------------------------
\* min and max of two days
Earlier(a, b) == IF a < b THEN a ELSE b
Later(a, b)   == IF a < b THEN b ELSE a

Of(c)    == {p \in placed : p.cand = c}
On(x)    == {p \in placed : p.day = x}
Load(x)  == Cardinality(On(x))

\* Mutant of Open: a day takes one session more than its capacity.
OpenToOneMore(x) == Load(x) <= capacity

Open(x)  == Load(x) < capacity

\* Of the load the rule scheduler keeps for one candidate.
OpenInOwn(x) == Cardinality({i \in DOMAIN own : own[i] = x}) < capacity

\* Where _next_open_day looks: up to the deadline, then up to a year past
\* the window, or past the day it starts from if that is beyond the window.
HardStop(from) == IF windowEnd >= from THEN windowEnd ELSE from + Year
Limit(from, due) ==
  IF windowEnd >= from THEN Earlier(due, windowEnd) ELSE due
Near(from, due) ==
  IF due # NoDay /\ due >= from THEN from..Limit(from, due) ELSE {}
Far(from) == from..(HardStop(from) + Year)

\* The day after the whole search is returned without a look at its load.
FirstOpen(from, near, far) ==
  IF near # {} THEN Min(near)
  ELSE IF far # {} THEN Min(far)
  ELSE HardStop(from) + Year + 1

NextOpenDay(from, due) ==
  FirstOpen(from, {x \in Near(from, due) : Open(x)}, {x \in Far(from) : Open(x)})

\* The same search in the load of one candidate.
NextOwnDay(from, due) ==
  FirstOpen(from, {x \in Near(from, due) : OpenInOwn(x)},
            {x \in Far(from) : OpenInOwn(x)})

\* Python's round: halves go to the even neighbour.
RoundDiv(a, b) ==
  LET q == a \div b
      r == a % b
  IN  IF 2 * r > b \/ (2 * r = b /\ q % 2 = 1) THEN q + 1 ELSE q

\* The day the rule scheduler aims at for session number i (from 0) of c.
Target(c, i) ==
  LET last == IF deadline[c] # NoDay /\ deadline[c] >= Start
              THEN deadline[c] ELSE windowEnd
      span == IF last >= Start THEN last - Start ELSE 0
  IN  IF effort[c] > 1 THEN Start + RoundDiv(i * span, effort[c]) ELSE Start

\* _declared_depth: the most the model stated or placed, between 1 and MaxDepth.
Depth(c) ==
  LET mine == {j \in DOMAIN design.sessions : design.sessions[j].cand = c}
  IN  Max({1} \cup {k \in 1..MaxDepth :
            k <= Cardinality(mine) \/ \E j \in mine : k <= design.sessions[j].of})

Placing(c, day) ==
  /\ placed' = placed \cup {[cand |-> c, day |-> day, n |-> serial]}
  /\ serial' = serial + 1

-----------------------------------------------------------------------------
TypeOK ==
  /\ effort \in [Candidates -> Nat \ {0}]
  /\ deadline \in [Candidates -> Nat \cup {NoDay}]
  /\ base \in 1..MaxPerDay /\ semesterEnd \in Nat
  /\ design \in Designs
  /\ scope \subseteq Candidates /\ scope # {}
  /\ windowEnd \in Nat
  /\ capacity \in 1..MaxPerDay
  /\ pc \in {"design", "validate", "topup", "backfill", "rules",
             "renumber", "done"}
  /\ next \in Nat \ {0}
  /\ placed \subseteq [cand : Candidates, day : Nat, n : Nat]
  /\ serial \in Nat
  /\ current \in Candidates \cup {0}
  /\ own \in Seq(Nat)

Init ==
  /\ effort \in [Candidates -> Efforts] /\ deadline \in [Candidates -> Deadlines]
  /\ base \in BaseLoads /\ semesterEnd \in SemesterEnds
  /\ design \in Designs
  /\ scope = Candidates /\ windowEnd = semesterEnd /\ capacity = base
  /\ pc = "design" /\ next = 1 /\ seen = {}
  /\ placed = {} /\ serial = 0 /\ current = 0 /\ own = <<>>

\* _apply_scope: excluding every candidate excludes none.
InScope(excluded) ==
  IF Candidates \subseteq excluded THEN Candidates ELSE Candidates \ excluded

\* A horizon before the first day that can be scheduled is dropped.
WindowEnd(d) ==
  IF d.horizon # NoDay /\ d.horizon >= Start
  THEN Earlier(d.horizon, semesterEnd) ELSE semesterEnd

\* Mutant of DesignCapacity: the load has no hard ceiling.
UncappedCapacity(d, in, last) == IF d.perDay > 0 THEN d.perDay ELSE base

TotalEffort(in) ==
  LET units(c) == effort[c] IN MapThenSumSet(units, in)

\* _design_capacity: the load the model chose, raised until the effort fits
\* the days up to a horizon that is inside the window, between 1 and
\* MaxPerDay.  The horizon is the stated one, dropped above or not.
DesignCapacity(d, in, last) ==
  LET chosen == IF d.perDay > 0 THEN d.perDay ELSE base
      days   == Later(1, last - Start + 1)
      bound  == d.horizon # NoDay /\ d.horizon <= last
  IN  Max({1} \cup {k \in 1..MaxPerDay :
            k <= chosen \/ (bound /\ (k - 1) * days < TotalEffort(in))})

Design ==
  /\ pc = "design"
  /\ scope' = InScope(design.excluded)
  /\ windowEnd' = WindowEnd(design)
  /\ capacity' = DesignCapacity(design, scope', windowEnd')
  /\ pc' = "validate"
  /\ UNCHANGED <<inputs, next, seen, placed, serial, current, own>>

-----------------------------------------------------------------------------
\* Mutant of InWindow: only the end of the window is looked at.
BeforeEnd(day) == day <= windowEnd

InWindow(day) == Start <= day /\ day <= windowEnd

Usable(s) ==
  /\ s.cand \in scope /\ s.day # NoDay
  /\ <<s.cand, s.session>> \notin seen
  /\ Cardinality(Of(s.cand)) < Depth(s.cand)

\* A date outside the window, then a day that is full, sends the session on.
ValidDay(s) ==
  LET day == IF InWindow(s.day) THEN s.day
             ELSE NextOpenDay(Start, deadline[s.cand])
  IN  IF Open(day) THEN day ELSE NextOpenDay(day, deadline[s.cand])

\* Mutant of Advance: a rejected session is looked at again.
AdvanceUsable == next' = IF Usable(design.sessions[next]) THEN next + 1 ELSE next

Advance == next' = next + 1

ValidateSession ==
  /\ pc = "validate" /\ next <= Len(design.sessions)
  /\ LET s == design.sessions[next] IN
       IF Usable(s)
       THEN /\ Placing(s.cand, ValidDay(s))
            /\ seen' = seen \cup {<<s.cand, s.session>>}
       ELSE UNCHANGED <<placed, serial, seen>>
  /\ Advance
  /\ UNCHANGED <<inputs, window, pc, current, own>>

Validated ==
  /\ pc = "validate" /\ next > Len(design.sessions)
  /\ pc' = IF placed = {} THEN "rules" ELSE "topup"
  /\ UNCHANGED <<inputs, window, next, seen, placed, serial, current, own>>

-----------------------------------------------------------------------------
\* The placed candidates that have fewer sessions than the model asked for.
Short == {c \in scope : Of(c) # {} /\ Cardinality(Of(c)) < Depth(c)}

\* The first day of the window after the candidate's sessions, or the first
\* day again when they reach its end.
Preferred(c) ==
  LET after == {x \in Start..windowEnd : \A p \in Of(c) : p.day < x}
  IN  IF after = {} THEN Start ELSE Min(after)

TopUp(c) ==
  /\ pc = "topup" /\ c \in Short /\ \A d \in Short : c <= d
  /\ Placing(c, NextOpenDay(Preferred(c), deadline[c]))
  /\ UNCHANGED <<inputs, window, pc, next, seen, current, own>>

ToppedUp ==
  /\ pc = "topup" /\ Short = {}
  /\ pc' = "backfill"
  /\ UNCHANGED <<inputs, window, next, seen, placed, serial, current, own>>

-----------------------------------------------------------------------------
(* The rule scheduler takes candidates in order of a priority that depends *)
(* on data not modelled, so any order is possible.  When it backfills, it  *)
(* first spreads a candidate over days of its own, then moves each session *)
(* to a day with room in the plan.                                         *)

Missing == {c \in scope : Of(c) = {}}

TakeCandidate(c) ==
  /\ pc \in {"backfill", "rules"} /\ current = 0 /\ c \in Missing
  /\ current' = c /\ own' = <<>>
  /\ UNCHANGED <<inputs, window, pc, next, seen, placed, serial>>

\* Mutant of LastIndex: a candidate gets one session whatever its effort.
FirstIndex == 1

LastIndex == effort[current]

PlaceByRule ==
  /\ pc \in {"backfill", "rules"} /\ current # 0
  /\ LET due    == deadline[current]
         target == Target(current, Len(own))
         day    == IF pc = "rules" THEN target ELSE NextOwnDay(target, due)
     IN  /\ Placing(current, NextOpenDay(day, due))
         /\ own' = Append(own, day)
  /\ current' = IF Len(own) + 1 >= LastIndex THEN 0 ELSE current
  /\ UNCHANGED <<inputs, window, pc, next, seen>>

RulesDone ==
  /\ pc \in {"backfill", "rules"} /\ current = 0 /\ Missing = {}
  /\ pc' = "renumber"
  /\ UNCHANGED <<inputs, window, next, seen, placed, serial, current, own>>

-----------------------------------------------------------------------------
\* The sort by day and candidate is stable.
Before(q, p) == q.day < p.day \/ (q.day = p.day /\ q.n < p.n)

\* _renumber: session k of the candidate, in the order of the days.
Renumber ==
  /\ pc = "renumber"
  /\ placed' = {[p EXCEPT !.n = 1 + Cardinality({q \in Of(p.cand) : Before(q, p)})]
                  : p \in placed}
  /\ pc' = "done"
  /\ UNCHANGED <<inputs, window, next, seen, serial, current, own>>

Finished == pc = "done" /\ UNCHANGED vars

Step ==
  \/ Design \/ ValidateSession \/ Validated
  \/ \E c \in Candidates : TopUp(c) \/ TakeCandidate(c)
  \/ ToppedUp \/ PlaceByRule \/ RulesDone \/ Renumber

Next == Step \/ Finished

Spec == Init /\ [][Next]_vars
\* plan is one function call: it runs to its end.
FairSpec == Spec /\ WF_vars(Step)

-----------------------------------------------------------------------------
(* Properties *)

\* "The daily session limit is never exceeded": not by validation, top-up,
\* backfill or the rules, as long as the plan has less than a year's sessions
\* (the search for a free day ends a year after the window).
DailyLimit == serial <= Year => \A p \in placed : Load(p.day) <= capacity

\* No session lands before the first day that can be scheduled, whatever
\* dates the design and the deadlines name.
NothingBeforeStart == \A p \in placed : p.day >= Start

\* At the end every candidate that was not excluded has its sessions 1, 2, ...
\* in the order of their days, as many as the depth the model declared, or its
\* full effort if the model left it out; an excluded one has none.
Modelled == {pair[1] : pair \in seen}
Due(c)   == IF c \in Modelled THEN Depth(c) ELSE IF c \in scope THEN effort[c] ELSE 0
DepthHonoured ==
  pc = "done" =>
    \A c \in Candidates :
      /\ Cardinality(Of(c)) = Due(c)
      /\ {p.n : p \in Of(c)} = 1..Due(c)
      /\ \A p, q \in Of(c) : p.n < q.n => p.day <= q.day

\* Planning ends with a plan that is not empty.
PlanCompletes == <>(pc = "done" /\ placed # {})
=============================================================================
