------------------------- MODULE PlanSchedule_proofs -------------------------
(***************************************************************************)
(* Proofs about PlanSchedule for any candidates, designs, deadlines and    *)
(* bounds: the types, that nothing is placed in the past, that the daily   *)
(* limit holds through every pass of the planner, and that every candidate *)
(* gets the sessions due to it.                                            *)
(***************************************************************************)
EXTENDS PlanSchedule, FiniteSetTheorems, SequenceTheorems, WellFoundedInduction, TLAPS

(* Least and greatest elements. *)

Below == {ss \in Nat \X Nat : ss[1] < ss[2]}

\* A set of days that is not empty has a first day, and Min is that day.
LEMMA MinIsFirst ==
  ASSUME NEW S \in SUBSET Nat, S # {}
  PROVE  Min(S) \in S /\ \A x \in S : Min(S) <= x
<1>1. IsWellFoundedOn(Below, Nat)
  BY NatLessThanWellFounded DEF OpToRel, Below
<1>2. \E x \in S : \A y \in S : ~(<<y, x>> \in Below)
  BY <1>1, WFMin
<1>3. \A x, y \in Nat : ~(<<y, x>> \in Below) => x <= y
  BY DEF Below
<1>4. \E x \in S : \A y \in S : x <= y
  BY <1>2, <1>3
<1> QED
  BY <1>4 DEF Min

\* A set of loads that is not empty has a greatest one, and Max is that load.
LEMMA MaxIsIn ==
  ASSUME NEW n \in Nat, NEW S \in SUBSET (1..n), S # {}
  PROVE  Max(S) \in S
<1> DEFINE R == {n - x : x \in S}
<1>1. R \in SUBSET Nat /\ R # {}
  OBVIOUS
<1>2. PICK x \in S : n - x = Min(R)
  BY <1>1, MinIsFirst
<1>3. \A y \in S : n - x <= n - y
  BY <1>1, <1>2, MinIsFirst
<1>4. \A y \in S : x >= y
  BY <1>3
<1> QED
  BY <1>4 DEF Max

-----------------------------------------------------------------------------
(* What the search for a day returns. *)

\* _next_open_day: never a day before the one it starts from.
LEMMA NextOpenDayFrom ==
  ASSUME TypeOK, NEW from \in Nat, NEW due \in Nat \cup {NoDay}
  PROVE  NextOpenDay(from, due) \in Nat /\ NextOpenDay(from, due) >= from
<1> DEFINE near == {x \in Near(from, due) : Open(x)}
           far  == {x \in Far(from) : Open(x)}
<1>1. HardStop(from) \in Nat /\ HardStop(from) >= from
  BY BoundsAssumption DEF HardStop, TypeOK, BoundsAssumption
<1>2. \A x \in near \cup far : x \in Nat /\ x >= from
  BY DEF Near, Far
<1>3. CASE near # {}
  BY <1>2, <1>3, MinIsFirst DEF NextOpenDay, FirstOpen
<1>4. CASE near = {} /\ far # {}
  BY <1>2, <1>4, MinIsFirst DEF NextOpenDay, FirstOpen
<1>5. CASE near = {} /\ far = {}
  BY <1>1, <1>5, BoundsAssumption DEF NextOpenDay, FirstOpen, BoundsAssumption
<1> QED
  BY <1>3, <1>4, <1>5

\* The day the rule scheduler tries within one candidate's own sessions.
LEMMA NextOwnDayFrom ==
  ASSUME TypeOK, NEW from \in Nat, NEW due \in Nat \cup {NoDay}
  PROVE  NextOwnDay(from, due) \in Nat /\ NextOwnDay(from, due) >= from
<1> DEFINE near == {x \in Near(from, due) : OpenInOwn(x)}
           far  == {x \in Far(from) : OpenInOwn(x)}
<1>1. HardStop(from) \in Nat /\ HardStop(from) >= from
  BY BoundsAssumption DEF HardStop, TypeOK, BoundsAssumption
<1>2. \A x \in near \cup far : x \in Nat /\ x >= from
  BY DEF Near, Far
<1>3. CASE near # {}
  BY <1>2, <1>3, MinIsFirst DEF NextOwnDay, FirstOpen
<1>4. CASE near = {} /\ far # {}
  BY <1>2, <1>4, MinIsFirst DEF NextOwnDay, FirstOpen
<1>5. CASE near = {} /\ far = {}
  BY <1>1, <1>5, BoundsAssumption DEF NextOwnDay, FirstOpen, BoundsAssumption
<1> QED
  BY <1>3, <1>4, <1>5

\* A search that starts in the future stays there.
LEMMA NoDayInThePast ==
  ASSUME TypeOK, NEW from \in Nat, from >= Start, NEW due \in Nat \cup {NoDay}
  PROVE  /\ NextOpenDay(from, due) \in Nat /\ NextOpenDay(from, due) >= Start
         /\ NextOwnDay(from, due) \in Nat /\ NextOwnDay(from, due) >= Start
<1>1. \A x \in Nat : x >= from => x >= Start
  BY BoundsAssumption DEF BoundsAssumption
<1> QED
  BY <1>1, NextOpenDayFrom, NextOwnDayFrom

\* Rounding a quotient of naturals gives a natural.
LEMMA RoundDivNatural ==
  ASSUME NEW a \in Nat, NEW b \in Nat \ {0}
  PROVE  RoundDiv(a, b) \in Nat
<1>1. a \div b \in Nat
  OBVIOUS
<1> QED
  BY <1>1 DEF RoundDiv

\* _rule_schedule: no session is aimed at a day in the past.
LEMMA TargetFromStart ==
  ASSUME TypeOK, NEW c \in Candidates, NEW i \in Nat
  PROVE  Target(c, i) \in Nat /\ Target(c, i) >= Start
<1> DEFINE last == IF deadline[c] # NoDay /\ deadline[c] >= Start
                   THEN deadline[c] ELSE windowEnd
           span == IF last >= Start THEN last - Start ELSE 0
<1>1. span \in Nat
  BY BoundsAssumption DEF TypeOK, BoundsAssumption, NoDay
<1>2. i * span \in Nat
  BY <1>1
<1>3. effort[c] \in Nat \ {0}
  BY DEF TypeOK
<1>4. RoundDiv(i * span, effort[c]) \in Nat
  BY <1>2, <1>3, RoundDivNatural
<1>5. Target(c, i) = IF effort[c] > 1
                     THEN Start + RoundDiv(i * span, effort[c]) ELSE Start
  BY DEF Target
<1> QED
  BY <1>4, <1>5, BoundsAssumption DEF BoundsAssumption

\* _top_up: no session is aimed at a day in the past.
LEMMA PreferredFromStart ==
  ASSUME TypeOK, NEW c \in Candidates
  PROVE  Preferred(c) \in Nat /\ Preferred(c) >= Start
<1> DEFINE after == {x \in Start..windowEnd : \A p \in Of(c) : p.day < x}
<1>1. after \in SUBSET Nat /\ \A x \in after : x >= Start
  BY BoundsAssumption DEF TypeOK, BoundsAssumption
<1>2. CASE after # {}
  BY <1>1, <1>2, MinIsFirst DEF Preferred
<1>3. CASE after = {}
  BY <1>3, BoundsAssumption DEF Preferred, BoundsAssumption
<1> QED
  BY <1>2, <1>3

\* A session of the design that is used names a candidate and a day.
LEMMA SessionTyped ==
  ASSUME TypeOK, next \in DOMAIN design.sessions, Usable(design.sessions[next])
  PROVE  /\ design.sessions[next].cand \in Candidates
         /\ design.sessions[next].day \in Nat
<1> DEFINE R == [cand : Nat, day : Nat \cup {NoDay}, session : Int, of : Int]
<1>1. design.sessions \in Seq(R)
  BY DesignsAssumption DEF TypeOK, DesignsAssumption
<1>2. design.sessions[next] \in R
  <2> HIDE DEF R
  <2> QED
    BY <1>1, ElementOfSeq
<1> QED
  BY <1>2 DEF TypeOK, Usable

\* _validate_sessions: a date in the past is moved, whatever the model said.
LEMMA ValidDayFromStart ==
  ASSUME TypeOK, next \in DOMAIN design.sessions, Usable(design.sessions[next])
  PROVE  /\ design.sessions[next].cand \in Candidates
         /\ ValidDay(design.sessions[next]) \in Nat
         /\ ValidDay(design.sessions[next]) >= Start
<1> DEFINE s == design.sessions[next]
<1>1. s.cand \in Candidates /\ s.day \in Nat
  BY SessionTyped
<1>2. deadline[s.cand] \in Nat \cup {NoDay} /\ Start \in Nat
  BY <1>1, BoundsAssumption DEF TypeOK, BoundsAssumption
<1> DEFINE day == IF InWindow(s.day) THEN s.day
                  ELSE NextOpenDay(Start, deadline[s.cand])
<1>3. day \in Nat /\ day >= Start
  BY <1>1, <1>2, NextOpenDayFrom DEF InWindow
<1>4. /\ NextOpenDay(day, deadline[s.cand]) \in Nat
      /\ NextOpenDay(day, deadline[s.cand]) >= Start
  BY <1>2, <1>3, NextOpenDayFrom
<1>5. ValidDay(s) = IF Open(day) THEN day ELSE NextOpenDay(day, deadline[s.cand])
  BY DEF ValidDay
<1> HIDE DEF day
<1> QED
  BY <1>1, <1>3, <1>4, <1>5

-----------------------------------------------------------------------------
(* Types, and nothing in the past. *)

TypeInv ==
  /\ TypeOK
  /\ pc # "done" => IsFiniteSet(placed)
  /\ NothingBeforeStart

\* Placing a session from Start on keeps the types and the past empty.
LEMMA PlacingTyped ==
  ASSUME TypeInv, pc # "done", NEW c \in Candidates, NEW day \in Nat,
         day >= Start, Placing(c, day)
  PROVE  /\ placed' \subseteq [cand : Candidates, day : Nat, n : Nat]
         /\ serial' \in Nat
         /\ IsFiniteSet(placed')
         /\ NothingBeforeStart'
<1> DEFINE new == [cand |-> c, day |-> day, n |-> serial]
<1>1. new \in [cand : Candidates, day : Nat, n : Nat] /\ new.day >= Start
  BY DEF TypeInv, TypeOK
<1>2. placed' = placed \cup {new} /\ serial' = serial + 1
  BY DEF Placing
<1>3. IsFiniteSet(placed')
  BY <1>2, FS_AddElement DEF TypeInv
<1> HIDE DEF new
<1> QED
  BY <1>1, <1>2, <1>3 DEF TypeInv, TypeOK, NothingBeforeStart

\* Whatever the design, the window and the capacity are within bounds.
LEMMA DesignTyped == TypeInv /\ Design => TypeInv'
<1> SUFFICES ASSUME TypeInv, Design PROVE TypeInv'
  OBVIOUS
<1> USE DEF TypeInv, TypeOK
<1>1. scope' \subseteq Candidates /\ scope' # {}
  BY CandidatesAssumption DEF Design, InScope, CandidatesAssumption
<1>2. windowEnd' \in Nat
  BY DesignsAssumption DEF Design, WindowEnd, Earlier, DesignsAssumption
<1>3. capacity' \in 1..MaxPerDay
  <2>1. ASSUME NEW in, NEW last PROVE DesignCapacity(design, in, last) \in 1..MaxPerDay
    <3> DEFINE chosen == IF design.perDay > 0 THEN design.perDay ELSE base
               days   == Later(1, last - Start + 1)
               bound  == design.horizon # NoDay /\ design.horizon <= last
               loads  == {1} \cup {k \in 1..MaxPerDay :
                           k <= chosen \/ (bound /\ (k - 1) * days < TotalEffort(in))}
    <3>1. DesignCapacity(design, in, last) = Max(loads)
      BY DEF DesignCapacity
    <3>2. loads \in SUBSET (1..MaxPerDay) /\ loads # {} /\ MaxPerDay \in Nat
      BY BoundsAssumption DEF BoundsAssumption
    <3> HIDE DEF loads
    <3> QED
      BY <3>1, <3>2, MaxIsIn
  <2> QED
    BY <2>1 DEF Design
<1> QED
  BY <1>1, <1>2, <1>3 DEF Design, inputs, NothingBeforeStart

\* TypeInv is inductive.
LEMMA TypeInvStep == TypeInv /\ [Next]_vars => TypeInv'
<1> SUFFICES ASSUME TypeInv, [Next]_vars PROVE TypeInv'
  OBVIOUS
<1> USE DEF inputs, window
<1>1. CASE Design
  BY <1>1, DesignTyped
<1>2. CASE ValidateSession
  <2> DEFINE s == design.sessions[next]
  <2>1. UNCHANGED <<inputs, window, pc, current, own>> /\ next' = next + 1
    BY <1>2 DEF ValidateSession, Advance
  <2>2. CASE Usable(s)
    <3>1. next \in DOMAIN design.sessions
      BY <1>2, DesignsAssumption DEF ValidateSession, TypeInv, TypeOK, DesignsAssumption
    <3>2. Placing(s.cand, ValidDay(s)) /\ pc # "done"
      BY <1>2, <2>2 DEF ValidateSession
    <3>3. s.cand \in Candidates /\ ValidDay(s) \in Nat /\ ValidDay(s) >= Start
      BY <2>2, <3>1, ValidDayFromStart DEF TypeInv
    <3> HIDE DEF s
    <3>4. /\ placed' \subseteq [cand : Candidates, day : Nat, n : Nat]
          /\ serial' \in Nat /\ IsFiniteSet(placed') /\ NothingBeforeStart'
      BY <3>2, <3>3, PlacingTyped
    <3> QED
      BY <2>1, <3>4 DEF TypeInv, TypeOK
  <2>3. CASE ~Usable(s)
    <3>1. UNCHANGED <<placed, serial>>
      BY <1>2, <2>3 DEF ValidateSession
    <3> QED
      BY <2>1, <3>1 DEF TypeInv, TypeOK, NothingBeforeStart
  <2> QED
    BY <2>2, <2>3
<1>3. CASE Validated
  BY <1>3 DEF Validated, TypeInv, TypeOK, NothingBeforeStart
<1>4. ASSUME NEW c \in Candidates, TopUp(c) PROVE TypeInv'
  <2> DEFINE day == NextOpenDay(Preferred(c), deadline[c])
  <2>1. deadline[c] \in Nat \cup {NoDay}
    BY DEF TypeInv, TypeOK
  <2>2. day \in Nat /\ day >= Start
    <3>1. Preferred(c) \in Nat /\ Preferred(c) >= Start
      BY PreferredFromStart DEF TypeInv
    <3> QED
      BY <2>1, <3>1, NoDayInThePast DEF TypeInv
  <2>3. Placing(c, day) /\ pc # "done"
    BY <1>4 DEF TopUp
  <2>4. UNCHANGED <<inputs, window, pc, next, current, own>>
    BY <1>4 DEF TopUp
  <2> HIDE DEF day
  <2> QED
    BY <2>2, <2>3, <2>4, PlacingTyped DEF TypeInv, TypeOK
<1>5. CASE ToppedUp
  BY <1>5 DEF ToppedUp, TypeInv, TypeOK, NothingBeforeStart
<1>6. ASSUME NEW c \in Candidates, TakeCandidate(c) PROVE TypeInv'
  BY <1>6 DEF TakeCandidate, TypeInv, TypeOK, NothingBeforeStart
<1>7. CASE PlaceByRule
  <2> DEFINE due    == deadline[current]
             target == Target(current, Len(own))
             first  == IF pc = "rules" THEN target ELSE NextOwnDay(target, due)
             day    == NextOpenDay(first, due)
  <2>1. current \in Candidates /\ due \in Nat \cup {NoDay} /\ Len(own) \in Nat
    BY <1>7 DEF PlaceByRule, TypeInv, TypeOK
  <2>2. target \in Nat /\ target >= Start
    BY <2>1, TargetFromStart DEF TypeInv
  <2>3. first \in Nat /\ first >= Start
    <3> HIDE DEF target, due
    <3> QED
      BY <2>1, <2>2, NoDayInThePast DEF TypeInv
  <2>4. day \in Nat /\ day >= Start
    <3> HIDE DEF first, due
    <3> QED
      BY <2>1, <2>3, NoDayInThePast DEF TypeInv
  <2>5. Placing(current, day) /\ own' = Append(own, first) /\ pc # "done"
    BY <1>7 DEF PlaceByRule
  <2>6. current' \in Candidates \cup {0}
    BY <1>7, <2>1 DEF PlaceByRule
  <2>7. UNCHANGED <<inputs, window, pc, next>>
    BY <1>7 DEF PlaceByRule
  <2> HIDE DEF first, day
  <2>8. own' \in Seq(Nat)
    BY <2>3, <2>5 DEF TypeInv, TypeOK
  <2> QED
    BY <2>1, <2>4, <2>5, <2>6, <2>7, <2>8, PlacingTyped DEF TypeInv, TypeOK
<1>8. CASE RulesDone
  BY <1>8 DEF RulesDone, TypeInv, TypeOK, NothingBeforeStart
<1>9. CASE Renumber
  <2> DEFINE number(p) == 1 + Cardinality({q \in Of(p.cand) : Before(q, p)})
  <2>1. ASSUME NEW p \in placed PROVE number(p) \in Nat
    <3>1. {q \in Of(p.cand) : Before(q, p)} \in SUBSET placed
      BY DEF Of
    <3> QED
      BY <1>9, <3>1, FS_Subset, FS_CardinalityType DEF Renumber, TypeInv
  <2>2. placed' = {[p EXCEPT !.n = number(p)] : p \in placed} /\ pc' = "done"
    BY <1>9 DEF Renumber
  <2>3. UNCHANGED <<inputs, window, next, serial, current, own>>
    BY <1>9 DEF Renumber
  <2> HIDE DEF number
  <2>4. \A p \in placed :
          /\ [p EXCEPT !.n = number(p)] \in [cand : Candidates, day : Nat, n : Nat]
          /\ [p EXCEPT !.n = number(p)].day = p.day
    BY <2>1 DEF TypeInv, TypeOK
  <2>5. placed' \subseteq [cand : Candidates, day : Nat, n : Nat]
    BY <2>2, <2>4
  <2>6. NothingBeforeStart'
    <3> SUFFICES ASSUME NEW q \in placed' PROVE q.day >= Start'
      BY DEF NothingBeforeStart
    <3>1. PICK p \in placed : q = [p EXCEPT !.n = number(p)]
      BY <2>2
    <3>2. q.day = p.day /\ p.day >= Start
      BY <2>4, <3>1 DEF TypeInv, NothingBeforeStart
    <3> QED
      BY <3>2
  <2> QED
    BY <2>2, <2>3, <2>5, <2>6 DEF TypeInv, TypeOK
<1>10. CASE UNCHANGED vars
  BY <1>10 DEF vars, TypeInv, TypeOK, NothingBeforeStart
<1> QED
  BY <1>1, <1>2, <1>3, <1>4, <1>5, <1>6, <1>7, <1>8, <1>9, <1>10
     DEF Next, Step, Finished

\* Planning starts in TypeInv.
LEMMA TypeInvInit == Init => TypeInv
<1> SUFFICES ASSUME Init PROVE TypeInv
  OBVIOUS
<1>1. /\ effort \in [Candidates -> Nat \ {0}]
      /\ deadline \in [Candidates -> Nat \cup {NoDay}]
      /\ base \in 1..MaxPerDay /\ semesterEnd \in Nat
  BY InputsAssumption DEF Init, InputsAssumption
<1>2. own \in Seq(Nat)
  BY DEF Init
<1>3. IsFiniteSet(placed)
  BY FS_EmptySet DEF Init
<1> QED
  BY <1>1, <1>2, <1>3, CandidatesAssumption
     DEF Init, TypeInv, TypeOK, NothingBeforeStart, CandidatesAssumption

\* Every state of the planner satisfies TypeInv.
LEMMA TypeInvKept == Spec => []TypeInv
BY TypeInvInit, TypeInvStep, PTL DEF Spec

\* Every state of planning has its types; in particular the capacity stays
\* between 1 and the ceiling whatever load the model asked for.
THEOREM Typing == Spec => []TypeOK
BY TypeInvKept, PTL DEF TypeInv

\* planning_agent.plan never schedules a session in the past.
THEOREM NoPastSessions == Spec => []NothingBeforeStart
BY TypeInvKept, PTL DEF TypeInv

-----------------------------------------------------------------------------
(* The daily limit.  A day returned by the search has room, or the search  *)
(* found more than a year of full days; then more than a year's sessions   *)
(* are placed, which the limit excludes.                                   *)

LoadInv ==
  /\ pc = "design" => placed = {}
  /\ pc # "done" => Cardinality(placed) <= serial
  /\ serial <= Year => \A x \in Nat : Load(x) <= capacity

\* The day the search returns has room, or all the days it looked at are full.
LEMMA OpenOrAllFull ==
  ASSUME TypeOK, NEW from \in Nat, NEW due \in Nat \cup {NoDay}
  PROVE  Open(NextOpenDay(from, due)) \/ \A x \in Far(from) : ~Open(x)
<1> DEFINE near == {x \in Near(from, due) : Open(x)}
           far  == {x \in Far(from) : Open(x)}
<1>1. near \in SUBSET Nat /\ far \in SUBSET Nat
  BY DEF Near, Far
<1>2. CASE near # {}
  BY <1>1, <1>2, MinIsFirst DEF NextOpenDay, FirstOpen
<1>3. CASE near = {} /\ far # {}
  BY <1>1, <1>3, MinIsFirst DEF NextOpenDay, FirstOpen
<1> QED
  BY <1>2, <1>3

\* The load of a day is a number, as long as the plan is finite.
LEMMA LoadTyped ==
  ASSUME IsFiniteSet(placed), NEW x
  PROVE  IsFiniteSet(On(x)) /\ Load(x) \in Nat
<1>1. On(x) \in SUBSET placed
  BY DEF On
<1> QED
  BY <1>1, FS_Subset, FS_CardinalityType DEF Load

\* One session on each of a year of full days.
LEMMA FullYear ==
  ASSUME TypeOK, IsFiniteSet(placed), NEW from \in Nat,
         \A x \in Far(from) : ~Open(x)
  PROVE  Cardinality(placed) > Year
<1> DEFINE last == HardStop(from) + Year
           f    == [x \in Far(from) |-> CHOOSE p \in placed : p.day = x]
<1>1. last \in Nat /\ last >= from + Year
  BY BoundsAssumption DEF HardStop, TypeOK, BoundsAssumption
<1>2. \A x \in Far(from) : \E p \in placed : p.day = x
  <2> SUFFICES ASSUME NEW x \in Far(from) PROVE \E p \in placed : p.day = x
    OBVIOUS
  <2>1. Load(x) # 0
    BY LoadTyped DEF Open, TypeOK
  <2>2. On(x) # {}
    BY <2>1, FS_EmptySet DEF Load
  <2> QED
    BY <2>2 DEF On
<1>3. \A x \in Far(from) : f[x] \in placed /\ f[x].day = x
  BY <1>2
<1>4. f \in Injection(Far(from), placed)
  BY <1>3 DEF Injection, IsInjective
<1>5. Cardinality(Far(from)) <= Cardinality(placed)
  BY <1>4, FS_Injection
<1>6. Cardinality(Far(from)) = last - from + 1
  BY <1>1, FS_Interval, BoundsAssumption DEF Far, BoundsAssumption
<1>7. Cardinality(placed) \in Nat /\ Year \in Nat
  BY FS_CardinalityType, BoundsAssumption DEF BoundsAssumption
<1> QED
  BY <1>1, <1>5, <1>6, <1>7

\* Placing a session where the search said keeps the limit.
LEMMA PlacingKeepsLimit ==
  ASSUME TypeInv, LoadInv, pc # "done", capacity' = capacity, pc' # "design",
         NEW c \in Candidates, NEW day \in Nat, Placing(c, day),
         Open(day) \/ Cardinality(placed) > Year
  PROVE  LoadInv'
<1> DEFINE new == [cand |-> c, day |-> day, n |-> serial]
<1>1. placed' = placed \cup {new} /\ serial' = serial + 1 /\ new.day = day
  BY DEF Placing
<1>2. IsFiniteSet(placed) /\ Cardinality(placed) \in Nat /\ serial \in Nat
  BY FS_CardinalityType DEF TypeInv, TypeOK
<1> HIDE DEF new
<1>3. Cardinality(placed') <= serial'
  <2>1. Cardinality(placed') \in {Cardinality(placed), Cardinality(placed) + 1}
    BY <1>1, <1>2, FS_AddElement
  <2>2. Cardinality(placed) <= serial
    BY DEF LoadInv
  <2> QED
    BY <1>1, <1>2, <2>1, <2>2
<1>4. ASSUME serial' <= Year, NEW x \in Nat PROVE Load(x)' <= capacity
  <2>1. Load(x) <= capacity /\ Open(day)
    BY <1>1, <1>2, <1>4, BoundsAssumption DEF LoadInv, BoundsAssumption
  <2>2. CASE x = day
    <3>1. On(x)' = On(x) \cup {new}
      BY <1>1, <2>2 DEF On
    <3>2. Load(x)' <= Load(x) + 1
      <4>1. Cardinality(On(x)) \in Nat /\ IsFiniteSet(On(x))
        BY <1>2, LoadTyped DEF Load
      <4>2. Cardinality(On(x) \cup {new}) <= Cardinality(On(x)) + 1
        BY <4>1, FS_AddElement
      <4> QED
        BY <3>1, <4>2 DEF Load
    <3>3. IsFiniteSet(On(x)')
      BY <1>2, <3>1, LoadTyped, FS_AddElement
    <3>4. Load(x) \in Nat /\ Load(x)' \in Nat /\ capacity \in Nat
      BY <1>2, <3>3, LoadTyped, FS_CardinalityType DEF Load, TypeInv, TypeOK
    <3> QED
      BY <2>1, <2>2, <3>2, <3>4 DEF Open
  <2>3. CASE x # day
    <3>1. On(x)' = On(x)
      BY <1>1, <2>3 DEF On
    <3> QED
      BY <2>1, <3>1 DEF Load
  <2> QED
    BY <2>2, <2>3
<1> QED
  BY <1>3, <1>4 DEF LoadInv

\* Renumbering moves no session.
LEMMA RenumberKeepsLimit == TypeInv /\ LoadInv /\ Renumber => LoadInv'
<1> SUFFICES ASSUME TypeInv, LoadInv, Renumber PROVE LoadInv'
  OBVIOUS
<1> DEFINE renumbered(p) ==
      [p EXCEPT !.n = 1 + Cardinality({q \in Of(p.cand) : Before(q, p)})]
<1>1. placed' = {renumbered(p) : p \in placed}
  BY DEF Renumber
<1>2. \A p \in placed : renumbered(p).day = p.day
  BY DEF TypeInv, TypeOK
<1>3. IsFiniteSet(placed)
  BY DEF Renumber, TypeInv
<1> HIDE DEF renumbered
<1>4. ASSUME NEW x \in Nat PROVE Load(x)' <= Load(x)
  <2> DEFINE f == [p \in On(x) |-> renumbered(p)]
  <2>1. \A p \in On(x) : f[p] \in On(x)'
    BY <1>1, <1>2 DEF On
  <2>2. \A q \in On(x)' : \E p \in On(x) : f[p] = q
    BY <1>1, <1>2 DEF On
  <2>3. f \in Surjection(On(x), On(x)')
    BY <2>1, <2>2 DEF Surjection
  <2> QED
    BY <1>3, <2>3, LoadTyped, FS_Surjection DEF Load
<1>5. ASSUME serial' <= Year, NEW x \in Nat PROVE Load(x)' <= capacity'
  <2>1. Load(x) <= capacity /\ capacity' = capacity
    BY <1>5 DEF LoadInv, Renumber, window
  <2>2. IsFiniteSet(On(x)')
    <3> DEFINE f == [p \in On(x) |-> renumbered(p)]
    <3>1. f \in Surjection(On(x), On(x)')
      BY <1>1, <1>2 DEF Surjection, On
    <3> QED
      BY <1>3, <3>1, LoadTyped, FS_Surjection
  <2>3. Load(x) \in Nat /\ Load(x)' \in Nat /\ capacity \in Nat
    BY <1>3, <2>2, LoadTyped, FS_CardinalityType DEF Load, TypeInv, TypeOK
  <2> QED
    BY <1>4, <2>1, <2>3
<1> QED
  BY <1>5 DEF LoadInv, Renumber

\* LoadInv is inductive, given the types.
LEMMA LoadInvStep == TypeInv /\ LoadInv /\ [Next]_vars => LoadInv'
<1> SUFFICES ASSUME TypeInv, LoadInv, [Next]_vars PROVE LoadInv'
  OBVIOUS
<1> USE DEF inputs, window
<1>1. CASE Design
  <2>1. placed' = {} /\ serial' \in Nat /\ pc' # "design"
    BY <1>1 DEF Design, LoadInv, TypeInv, TypeOK
  <2>2. \A x : On(x)' = {}
    BY <2>1 DEF On
  <2>3. \A x : Load(x)' = 0
    BY <2>2, FS_EmptySet DEF Load
  <2>4. Cardinality(placed') = 0
    BY <2>1, FS_EmptySet
  <2>5. capacity' \in Nat
    BY <1>1, DesignTyped DEF TypeInv, TypeOK
  <2> QED
    BY <2>1, <2>3, <2>4, <2>5 DEF LoadInv
<1>2. CASE ValidateSession
  <2> DEFINE s == design.sessions[next]
  <2>1. CASE Usable(s)
    <3>1. next \in DOMAIN design.sessions
      BY <1>2, DesignsAssumption DEF ValidateSession, TypeInv, TypeOK, DesignsAssumption
    <3>2. s.cand \in Candidates /\ ValidDay(s) \in Nat
      BY <2>1, <3>1, ValidDayFromStart DEF TypeInv
    <3>3. Placing(s.cand, ValidDay(s)) /\ pc # "done" /\ pc' # "design" /\ capacity' = capacity
      BY <1>2, <2>1 DEF ValidateSession
    <3>4. Open(ValidDay(s)) \/ Cardinality(placed) > Year
      <4> DEFINE day == IF InWindow(s.day) THEN s.day
                        ELSE NextOpenDay(Start, deadline[s.cand])
      <4>1. deadline[s.cand] \in Nat \cup {NoDay} /\ Start \in Nat
        BY <3>2, BoundsAssumption DEF TypeInv, TypeOK, BoundsAssumption
      <4>2. day \in Nat
        <5>1. CASE InWindow(s.day)
          BY <2>1, <3>1, <5>1, SessionTyped DEF TypeInv, Usable
        <5>2. CASE ~InWindow(s.day)
          BY <4>1, <5>2, NextOpenDayFrom DEF TypeInv
        <5> QED
          BY <5>1, <5>2
      <4>3. ValidDay(s) = IF Open(day) THEN day ELSE NextOpenDay(day, deadline[s.cand])
        BY DEF ValidDay
      <4> HIDE DEF day
      <4>4. IsFiniteSet(placed)
        BY <3>3 DEF TypeInv
      <4> QED
        BY <4>1, <4>2, <4>3, <4>4, OpenOrAllFull, FullYear DEF TypeInv
    <3> HIDE DEF s
    <3> QED
      BY <3>2, <3>3, <3>4, PlacingKeepsLimit
  <2>2. CASE ~Usable(s)
    <3>1. UNCHANGED <<placed, serial, capacity, pc>>
      BY <1>2, <2>2 DEF ValidateSession
    <3> QED
      BY <3>1 DEF LoadInv, Load, On
  <2> QED
    BY <2>1, <2>2
<1>3. CASE Validated
  BY <1>3 DEF Validated, LoadInv, Load, On
<1>4. ASSUME NEW c \in Candidates, TopUp(c) PROVE LoadInv'
  <2> DEFINE from == Preferred(c)
             day  == NextOpenDay(from, deadline[c])
  <2>1. deadline[c] \in Nat \cup {NoDay} /\ from \in Nat
    BY PreferredFromStart DEF TypeInv, TypeOK
  <2>2. pc # "done" /\ pc' # "design" /\ capacity' = capacity /\ Placing(c, day)
    BY <1>4 DEF TopUp
  <2> HIDE DEF from
  <2>3. day \in Nat
    BY <2>1, NextOpenDayFrom DEF TypeInv
  <2>4. Open(day) \/ Cardinality(placed) > Year
    BY <2>1, <2>2, OpenOrAllFull, FullYear DEF TypeInv
  <2> HIDE DEF day
  <2> QED
    BY <2>2, <2>3, <2>4, PlacingKeepsLimit
<1>5. CASE ToppedUp
  BY <1>5 DEF ToppedUp, LoadInv, Load, On
<1>6. ASSUME NEW c \in Candidates, TakeCandidate(c) PROVE LoadInv'
  BY <1>6 DEF TakeCandidate, LoadInv, Load, On
<1>7. CASE PlaceByRule
  <2> DEFINE due    == deadline[current]
             target == Target(current, Len(own))
             first  == IF pc = "rules" THEN target ELSE NextOwnDay(target, due)
             day    == NextOpenDay(first, due)
  <2>1. current \in Candidates /\ due \in Nat \cup {NoDay} /\ Len(own) \in Nat
    BY <1>7 DEF PlaceByRule, TypeInv, TypeOK
  <2>2. target \in Nat
    BY <2>1, TargetFromStart DEF TypeInv
  <2>3. pc # "done" /\ pc' # "design" /\ capacity' = capacity /\ Placing(current, day)
    BY <1>7 DEF PlaceByRule
  <2> HIDE DEF target, due
  <2>4. first \in Nat
    BY <2>1, <2>2, NextOwnDayFrom DEF TypeInv
  <2> HIDE DEF first
  <2>5. day \in Nat
    BY <2>1, <2>4, NextOpenDayFrom DEF TypeInv
  <2>6. Open(day) \/ Cardinality(placed) > Year
    BY <2>1, <2>3, <2>4, OpenOrAllFull, FullYear DEF TypeInv
  <2> HIDE DEF day
  <2> QED
    BY <2>1, <2>3, <2>5, <2>6, PlacingKeepsLimit
<1>8. CASE RulesDone
  BY <1>8 DEF RulesDone, LoadInv, Load, On
<1>9. CASE Renumber
  BY <1>9, RenumberKeepsLimit
<1>10. CASE UNCHANGED vars
  BY <1>10 DEF vars, LoadInv, Load, On
<1> QED
  BY <1>1, <1>2, <1>3, <1>4, <1>5, <1>6, <1>7, <1>8, <1>9, <1>10
     DEF Next, Step, Finished

\* "The daily session limit is never exceeded": in every plan of less than a
\* year's sessions no day holds more than the capacity, whatever the model
\* designed and whichever pass placed them.
THEOREM DailyLimitHolds == Spec => []DailyLimit
<1>1. Init => LoadInv
  <2> SUFFICES ASSUME Init PROVE LoadInv
    OBVIOUS
  <2>1. \A x : Load(x) = 0
    BY FS_EmptySet DEF Init, Load, On
  <2>2. Cardinality(placed) = 0 /\ capacity \in Nat
    BY FS_EmptySet, InputsAssumption DEF Init, InputsAssumption
  <2> QED
    BY <2>1, <2>2 DEF Init, LoadInv
<1>2. TypeInv /\ LoadInv => DailyLimit
  BY DEF TypeInv, TypeOK, LoadInv, DailyLimit
<1> QED
  BY <1>1, <1>2, LoadInvStep, TypeInvKept, PTL DEF Spec

-----------------------------------------------------------------------------
(* The depth of every candidate.  Of and Modelled tell how many sessions   *)
(* a candidate has and who gave it the first; a pass goes on until none is *)
(* short of its due, and the serial numbers keep the sessions apart.       *)

Apart ==
  /\ \A p \in placed : p.n < serial
  /\ \A p, q \in placed : p.n = q.n => p = q

\* By the design and the top-up: a candidate has at most its depth, and has
\* sessions only if the model gave it some.
ByDesign(c) ==
  /\ c \in Modelled <=> Of(c) # {}
  /\ Cardinality(Of(c)) <= Depth(c)

\* By the rules: a candidate has its due, none yet, or is the one at hand.
ByRules(c) ==
  IF c = current
  THEN Cardinality(Of(c)) = Len(own) /\ Len(own) < effort[c]
  ELSE /\ Cardinality(Of(c)) \in {0, Due(c)}
       /\ c \in Modelled => Cardinality(Of(c)) = Due(c)

\* After the renumbering: sessions 1 to the due, in the order of the days.
Numbered(c) ==
  /\ Cardinality(Of(c)) = Due(c)
  /\ {p.n : p \in Of(c)} = 1..Due(c)
  /\ \A p, q \in Of(c) : p.n < q.n => p.day <= q.day

CountInv ==
  /\ pc # "done" => Apart
  /\ pc = "design" => placed = {} /\ seen = {}
  /\ Modelled \subseteq scope
  /\ current # 0 =>
       pc \in {"backfill", "rules"} /\ current \in scope /\ current \notin Modelled
  /\ \A c \in Candidates :
       /\ pc \in {"design", "validate", "topup"} => ByDesign(c)
       /\ pc \in {"backfill", "rules"} => ByRules(c)
       /\ pc = "renumber" => Cardinality(Of(c)) = Due(c)
       /\ pc = "done" => Numbered(c)

\* _declared_depth: at least one session.
LEMMA DepthPositive ==
  ASSUME TypeOK, NEW c
  PROVE  Depth(c) \in Nat \ {0}
<1> DEFINE mine   == {j \in DOMAIN design.sessions : design.sessions[j].cand = c}
           depths == {1} \cup {k \in 1..MaxDepth :
                       k <= Cardinality(mine) \/ \E j \in mine : k <= design.sessions[j].of}
<1>1. depths \in SUBSET (1..MaxDepth) /\ depths # {} /\ MaxDepth \in Nat
  BY BoundsAssumption DEF BoundsAssumption
<1>2. Depth(c) = Max(depths)
  BY DEF Depth
<1>3. Max(depths) \in 1..MaxDepth
  <2> HIDE DEF depths
  <2> QED
    BY <1>1, MaxIsIn
<1> QED
  BY <1>1, <1>2, <1>3

\* The due of a candidate is a number, and positive for one in scope.
LEMMA DueTyped ==
  ASSUME TypeOK, NEW c \in Candidates
  PROVE  Due(c) \in Nat /\ (c \in Modelled \cup scope => Due(c) # 0)
BY DepthPositive DEF Due, TypeOK

\* The sessions of a candidate can be counted, as long as the plan is finite.
LEMMA OfTyped ==
  ASSUME IsFiniteSet(placed), NEW c
  PROVE  /\ IsFiniteSet(Of(c)) /\ Cardinality(Of(c)) \in Nat
         /\ Cardinality(Of(c)) = 0 <=> Of(c) = {}
<1>1. Of(c) \in SUBSET placed
  BY DEF Of
<1> QED
  BY <1>1, FS_Subset, FS_CardinalityType, FS_EmptySet

\* Placing a session gives its candidate one more, and the others none.
LEMMA PlacesOne ==
  ASSUME TypeInv, Apart, pc # "done",
         NEW c \in Candidates, NEW day \in Nat, Placing(c, day)
  PROVE  /\ Apart'
         /\ Of(c)' # {} /\ Cardinality(Of(c)') = Cardinality(Of(c)) + 1
         /\ \A d \in Candidates \ {c} : Of(d)' = Of(d)
<1> DEFINE new == [cand |-> c, day |-> day, n |-> serial]
<1>1. placed' = placed \cup {new} /\ serial' = serial + 1
  BY DEF Placing
<1>2. new.cand = c /\ new.n = serial /\ serial \in Nat
  BY DEF TypeInv, TypeOK
<1> HIDE DEF new
<1>3. new \notin placed
  BY <1>2 DEF Apart
<1>4. Apart'
  <2>1. \A p \in placed : p.n \in Nat
    BY DEF TypeInv, TypeOK
  <2> QED
    BY <1>1, <1>2, <2>1 DEF Apart
<1>5. Of(c)' = Of(c) \cup {new} /\ new \notin Of(c)
  BY <1>1, <1>2, <1>3 DEF Of
<1>6. Cardinality(Of(c)') = Cardinality(Of(c)) + 1
  BY <1>5, OfTyped, FS_AddElement DEF TypeInv
<1>7. \A d \in Candidates \ {c} : Of(d)' = Of(d)
  BY <1>1, <1>2 DEF Of
<1> QED
  BY <1>4, <1>5, <1>6, <1>7

\* Of two sessions of a candidate one is before the other, so they get
\* different numbers, the earlier one the smaller.
LEMMA NumbersInOrder ==
  ASSUME TypeInv, Apart, IsFiniteSet(placed), NEW c
  PROVE  LET number(p) == 1 + Cardinality({q \in Of(c) : Before(q, p)}) IN
         /\ \A p \in Of(c) : number(p) \in 1..Cardinality(Of(c))
         /\ \A p, q \in Of(c) : Before(q, p) => number(q) < number(p)
<1> DEFINE earlier(p) == {q \in Of(c) : Before(q, p)}
           number(p)  == 1 + Cardinality(earlier(p))
<1>1. \A p \in Of(c) : p.day \in Nat /\ p.n \in Nat
  BY DEF Of, TypeInv, TypeOK
<1>2. \A p : earlier(p) \in SUBSET Of(c)
  OBVIOUS
<1>3. \A p : IsFiniteSet(earlier(p)) /\ Cardinality(earlier(p)) \in Nat
  BY <1>2, OfTyped, FS_Subset, FS_CardinalityType
<1>4. ASSUME NEW p \in Of(c) PROVE number(p) \in 1..Cardinality(Of(c))
  <2>1. p \notin earlier(p)
    BY <1>1 DEF Before
  <2>2. Cardinality(earlier(p)) <= Cardinality(Of(c)) /\ Cardinality(earlier(p)) # Cardinality(Of(c))
    BY <1>2, <2>1, OfTyped, FS_Subset
  <2> HIDE DEF earlier
  <2> QED
    BY <1>3, <2>2, OfTyped
<1>5. ASSUME NEW p \in Of(c), NEW q \in Of(c), Before(q, p)
      PROVE  number(q) < number(p)
  <2>1. earlier(q) \in SUBSET earlier(p)
    BY <1>1, <1>5 DEF Before
  <2>2. q \in earlier(p) /\ q \notin earlier(q)
    BY <1>1, <1>5 DEF Before
  <2> HIDE DEF earlier
  <2>3. Cardinality(earlier(q)) <= Cardinality(earlier(p)) /\ Cardinality(earlier(q)) # Cardinality(earlier(p))
    BY <1>3, <2>1, <2>2, FS_Subset
  <2> QED
    BY <1>3, <2>3
<1> QED
  BY <1>4, <1>5

\* Giving every member of a set another number up to its count uses them all.
LEMMA NumbersFill ==
  ASSUME NEW S, IsFiniteSet(S), NEW T, NEW f \in [S -> T],
         NEW num \in [S -> 1..Cardinality(S)],
         \A p, q \in S : num[p] = num[q] => p = q,
         \A t \in T : \E p \in S : t = f[p],
         \A p \in S : f[p].n = num[p]
  PROVE  Cardinality(T) = Cardinality(S) /\ {t.n : t \in T} = 1..Cardinality(S)
<1> DEFINE count == Cardinality(S)
<1>1. f \in Surjection(S, T)
  BY DEF Surjection
<1>2. f \in Injection(S, T)
  BY DEF Injection, IsInjective
<1>3. Cardinality(T) = count
  BY <1>1, <1>2, FS_Surjection
<1>4. num \in Injection(S, 1..count)
  BY DEF Injection, IsInjective
<1>5. count \in Nat
  BY FS_CardinalityType
<1>6. IsFiniteSet(1..count) /\ Cardinality(1..count) = count
  BY <1>5, FS_Interval
<1>7. num \in Surjection(S, 1..count)
  BY <1>4, <1>6, FS_Injection
<1>8. \A k \in 1..count : \E p \in S : num[p] = k
  BY <1>7 DEF Surjection
<1>9. \A k \in 1..count : \E t \in T : t.n = k
  BY <1>8
<1>10. \A t \in T : t.n \in 1..count
  OBVIOUS
<1> HIDE DEF count
<1>11. {t.n : t \in T} = 1..count
  BY <1>9, <1>10
<1> QED
  BY <1>3, <1>11 DEF count

\* _renumber: a candidate's sessions keep their days and get the numbers from
\* 1 to their count, in the order of the days.
LEMMA Renumbered ==
  ASSUME TypeInv, Apart, Renumber, NEW c \in Candidates
  PROVE  /\ Cardinality(Of(c)') = Cardinality(Of(c))
         /\ {p.n : p \in Of(c)'} = 1..Cardinality(Of(c))
         /\ \A p, q \in Of(c)' : p.n < q.n => p.day <= q.day
<1> DEFINE number(p) == 1 + Cardinality({q \in Of(c) : Before(q, p)})
           R    == [cand : Candidates, day : Nat, n : Nat]
<1>0. IsFiniteSet(placed) /\ IsFiniteSet(Of(c)) /\ Cardinality(Of(c)) \in Nat
  BY OfTyped DEF Renumber, TypeInv
<1>1. /\ \A p \in Of(c) : number(p) \in 1..Cardinality(Of(c))
      /\ \A p, q \in Of(c) : Before(q, p) => number(q) < number(p)
  BY <1>0, NumbersInOrder
<1>2. \A p \in placed : p \in R
  BY DEF TypeInv, TypeOK
<1>3. \A p : p \in Of(c) <=> p \in placed /\ p.cand = c
  BY DEF Of
<1>4. \A t : t \in Of(c)' <=> t \in placed' /\ t.cand = c
  BY DEF Of
<1>5. \A t : t \in placed' <=> \E p \in placed :
               t = [p EXCEPT !.n = 1 + Cardinality({q \in Of(p.cand) : Before(q, p)})]
  BY DEF Renumber
<1>6. \A p \in placed : \A m :
        /\ [p EXCEPT !.n = m].cand = p.cand /\ [p EXCEPT !.n = m].day = p.day
        /\ [p EXCEPT !.n = m].n = m
  BY <1>2
<1> DEFINE ranked(p) == [p EXCEPT !.n = 1 + Cardinality({q \in Of(p.cand) : Before(q, p)})]
<1>7. \A p \in placed : p.cand = c => ranked(p) = [p EXCEPT !.n = number(p)]
  OBVIOUS
<1>8. \A p \in placed : ranked(p).cand = p.cand
  BY <1>6
<1>n. \A t : t \in placed' <=> \E p \in placed : t = ranked(p)
  BY <1>5
<1> HIDE DEF number, ranked
<1>s. \A t \in Of(c)' : \E p \in Of(c) : t = [p EXCEPT !.n = number(p)]
  BY <1>3, <1>4, <1>7, <1>8, <1>n
<1>i. \A p \in Of(c) : [p EXCEPT !.n = number(p)] \in Of(c)'
  BY <1>3, <1>4, <1>7, <1>8, <1>n
<1>9. \A p, q \in Of(c) : number(p) = number(q) => p = q
  <2> SUFFICES ASSUME NEW p \in Of(c), NEW q \in Of(c), number(p) = number(q)
               PROVE  p = q
    OBVIOUS
  <2>1. number(p) \in Nat /\ number(q) \in Nat
    BY <1>0, <1>1
  <2>2. ~Before(q, p) /\ ~Before(p, q)
    BY <1>1, <2>1
  <2>3. p.n = q.n /\ p \in placed /\ q \in placed
    BY <1>2, <1>3, <2>2 DEF Before
  <2> QED
    BY <2>3 DEF Apart
<1>10. ASSUME NEW p \in Of(c), NEW q \in Of(c), number(p) < number(q)
       PROVE  p.day <= q.day
  <2>1. number(p) \in Nat /\ number(q) \in Nat
    BY <1>0, <1>1
  <2>2. ~Before(q, p)
    BY <1>1, <1>10, <2>1
  <2> QED
    BY <1>2, <1>3, <2>2 DEF Before
<1>11. ASSUME NEW s \in Of(c)', NEW t \in Of(c)', s.n < t.n PROVE s.day <= t.day
  <2>1. PICK p \in Of(c) : s = [p EXCEPT !.n = number(p)]
    BY <1>s
  <2>2. PICK q \in Of(c) : t = [q EXCEPT !.n = number(q)]
    BY <1>s
  <2>3. s.n = number(p) /\ s.day = p.day /\ t.n = number(q) /\ t.day = q.day
    BY <1>3, <1>6, <2>1, <2>2
  <2> QED
    BY <1>10, <1>11, <2>3
<1>12. /\ Cardinality(Of(c)') = Cardinality(Of(c))
       /\ {p.n : p \in Of(c)'} = 1..Cardinality(Of(c))
  <2> DEFINE f   == [p \in Of(c) |-> [p EXCEPT !.n = number(p)]]
             num == [p \in Of(c) |-> number(p)]
  <2>1. f \in [Of(c) -> Of(c)']
    BY <1>i
  <2>2. num \in [Of(c) -> 1..Cardinality(Of(c))]
    BY <1>1
  <2>3. \A p \in Of(c) : f[p].n = num[p]
    BY <1>3, <1>6
  <2>4. \A t \in Of(c)' : \E p \in Of(c) : t = f[p]
    BY <1>s
  <2>5. \A p, q \in Of(c) : num[p] = num[q] => p = q
    BY <1>9
  <2> HIDE DEF f, num
  <2> QED
    BY <1>0, <2>1, <2>2, <2>3, <2>4, <2>5, NumbersFill
<1> QED
  BY <1>11, <1>12

\* What a step that places nothing leaves as it is.
LEMMA NothingPlaced ==
  ASSUME UNCHANGED <<effort, design, scope, seen, placed, serial>>
  PROVE  /\ Modelled' = Modelled /\ (Apart' <=> Apart)
         /\ \A c : Of(c)' = Of(c) /\ Due(c)' = Due(c) /\ Depth(c)' = Depth(c)
         /\ \A c : (ByDesign(c)' <=> ByDesign(c))
<1>1. Modelled' = Modelled
  BY DEF Modelled
<1>2. Apart' <=> Apart
  BY DEF Apart
<1>3. \A c : Of(c)' = Of(c) /\ Depth(c)' = Depth(c)
  BY DEF Of, Depth
<1>4. \A c : Due(c)' = Due(c)
  BY <1>1, <1>3 DEF Due
<1> QED
  BY <1>1, <1>2, <1>3, <1>4 DEF ByDesign

\* CountInv is inductive, given the types.
LEMMA CountInvStep == TypeInv /\ CountInv /\ [Next]_vars => CountInv'
<1> SUFFICES ASSUME TypeInv, CountInv, [Next]_vars PROVE CountInv'
  OBVIOUS
<1> USE DEF inputs, window
<1>0. 0 \notin Candidates /\ \A c \in Candidates : effort[c] \in Nat \ {0}
  BY CandidatesAssumption DEF CandidatesAssumption, TypeInv, TypeOK
<1>a. \A c \in Candidates : Due(c) \in Nat /\ (c \in Modelled \cup scope => Due(c) # 0)
  BY DueTyped DEF TypeInv
<1>b. pc # "done" => \A c : Cardinality(Of(c)) \in Nat /\ (Cardinality(Of(c)) = 0 <=> Of(c) = {})
  BY OfTyped DEF TypeInv
<1>c. \A c : Depth(c) \in Nat \ {0}
  BY DepthPositive DEF TypeInv
<1>d. \A c \in Modelled : Due(c) = Depth(c)
  BY DEF Due
<1>1. CASE Design
  <2>1. placed' = {} /\ seen' = {} /\ pc' = "validate" /\ current' = current /\ current = 0
    BY <1>1 DEF Design, CountInv
  <2>2. Modelled' = {} /\ \A c : Of(c)' = {}
    BY <2>1 DEF Modelled, Of
  <2>3. \A c : Depth(c)' = Depth(c)
    BY <1>1 DEF Design, Depth
  <2>4. \A c : ByDesign(c)'
    BY <1>c, <2>2, <2>3, FS_EmptySet DEF ByDesign
  <2> QED
    BY <2>1, <2>2, <2>4 DEF CountInv, Apart
<1>2. CASE ValidateSession
  <2> DEFINE s == design.sessions[next]
  <2>1. /\ pc = "validate" /\ pc' = pc /\ current' = current /\ current = 0
        /\ UNCHANGED <<effort, design, scope>>
    BY <1>2 DEF ValidateSession, CountInv
  <2>2. CASE Usable(s)
    <3>1. next \in DOMAIN design.sessions
      BY <1>2, DesignsAssumption DEF ValidateSession, TypeInv, TypeOK, DesignsAssumption
    <3>2. PICK c \in Candidates : c = s.cand
      BY <2>2, <3>1, ValidDayFromStart DEF TypeInv
    <3>3. PICK day \in Nat : day = ValidDay(s)
      BY <2>2, <3>1, ValidDayFromStart DEF TypeInv
    <3>4. PICK number : number = s.session
      OBVIOUS
    <3>5. Placing(c, day) /\ seen' = seen \cup {<<c, number>>}
      BY <1>2, <2>2, <3>2, <3>3, <3>4 DEF ValidateSession
    <3>6. c \in scope /\ Cardinality(Of(c)) < Depth(c)
      BY <2>2, <3>2 DEF Usable
    <3>7. Apart /\ pc # "done"
      BY <2>1 DEF CountInv
    <3>8. /\ Apart'
          /\ Of(c)' # {} /\ Cardinality(Of(c)') = Cardinality(Of(c)) + 1
          /\ \A d \in Candidates \ {c} : Of(d)' = Of(d)
      BY <3>5, <3>7, PlacesOne
    <3>9. Modelled' = Modelled \cup {c}
      <4> DEFINE pair == <<c, number>>
      <4>1. pair[1] = c /\ seen' = seen \cup {pair}
        BY <3>5
      <4> HIDE DEF pair
      <4>2. Modelled' = {x[1] : x \in seen'}
        BY DEF Modelled
      <4> QED
        BY <4>1, <4>2 DEF Modelled
    <3>10. \A d : Depth(d)' = Depth(d)
      BY <2>1 DEF Depth
    <3>11. ASSUME NEW d \in Candidates PROVE ByDesign(d)'
      <4>1. ByDesign(d)
        BY <2>1 DEF CountInv
      <4>2. CASE d = c
        BY <1>b, <1>c, <3>6, <3>7, <3>8, <3>9, <3>10, <4>2 DEF ByDesign
      <4>3. CASE d # c
        BY <3>8, <3>9, <3>10, <4>1, <4>3 DEF ByDesign
      <4> QED
        BY <4>2, <4>3
    <3> QED
      BY <2>1, <3>6, <3>8, <3>9, <3>11 DEF CountInv
  <2>3. CASE ~Usable(s)
    <3>1. UNCHANGED <<effort, design, scope, seen, placed, serial>>
      BY <1>2, <2>1, <2>3 DEF ValidateSession
    <3> QED
      BY <2>1, <3>1, NothingPlaced DEF CountInv
  <2> QED
    BY <2>2, <2>3
<1>3. CASE Validated
  <2>1. /\ UNCHANGED <<effort, design, scope, seen, placed, serial, own, current>>
        /\ pc = "validate" /\ pc' = IF placed = {} THEN "rules" ELSE "topup"
        /\ current = 0
    BY <1>3 DEF Validated, CountInv
  <2>2. CASE placed = {}
    <3>1. \A c : Of(c) = {} /\ Cardinality(Of(c)) = 0
      BY <2>2, FS_EmptySet DEF Of
    <3>2. \A c \in Candidates : c \notin Modelled
      BY <2>1, <3>1 DEF CountInv, ByDesign
    <3>3. ASSUME NEW c \in Candidates PROVE ByRules(c)'
      <4>1. c # current' /\ Cardinality(Of(c)') = 0 /\ c \notin Modelled'
        BY <1>0, <2>1, <3>1, <3>2, NothingPlaced
      <4> QED
        BY <4>1 DEF ByRules
    <3> QED
      BY <2>1, <2>2, <3>3, NothingPlaced DEF CountInv
  <2>3. CASE placed # {}
    BY <2>1, <2>3, NothingPlaced DEF CountInv
  <2> QED
    BY <2>2, <2>3
<1>4. ASSUME NEW c \in Candidates, TopUp(c) PROVE CountInv'
  <2> DEFINE day == NextOpenDay(Preferred(c), deadline[c])
  <2>1. /\ UNCHANGED <<effort, design, scope, seen, pc, current>> /\ pc = "topup" /\ current = 0
        /\ Placing(c, day)
    BY <1>4 DEF TopUp, CountInv
  <2>2. Of(c) # {} /\ Cardinality(Of(c)) < Depth(c)
    BY <1>4 DEF TopUp, Short
  <2>3. day \in Nat
    BY PreferredFromStart, NextOpenDayFrom DEF TypeInv, TypeOK
  <2> HIDE DEF day
  <2>4. /\ Apart'
        /\ Of(c)' # {} /\ Cardinality(Of(c)') = Cardinality(Of(c)) + 1
        /\ \A d \in Candidates \ {c} : Of(d)' = Of(d)
    BY <2>1, <2>3, PlacesOne DEF CountInv
  <2>5. Modelled' = Modelled /\ \A d : Depth(d)' = Depth(d)
    BY <2>1 DEF Modelled, Depth
  <2>6. ASSUME NEW d \in Candidates PROVE ByDesign(d)'
    <3>1. ByDesign(d)
      BY <2>1 DEF CountInv
    <3>2. CASE d = c
      BY <1>b, <1>c, <2>1, <2>2, <2>4, <2>5, <3>1, <3>2 DEF ByDesign
    <3>3. CASE d # c
      BY <2>4, <2>5, <3>1, <3>3 DEF ByDesign
    <3> QED
      BY <3>2, <3>3
  <2> QED
    BY <2>1, <2>4, <2>5, <2>6 DEF CountInv
<1>5. CASE ToppedUp
  <2>1. /\ UNCHANGED <<effort, design, scope, seen, placed, serial, own, current>>
        /\ pc = "topup" /\ pc' = "backfill" /\ current = 0 /\ Short = {}
    BY <1>5 DEF ToppedUp, CountInv
  <2>2. ASSUME NEW c \in Candidates PROVE ByRules(c)'
    <3>1. ByDesign(c) /\ Modelled \subseteq scope
      BY <2>1 DEF CountInv
    <3>2. CASE c \in Modelled
      <4>1. Cardinality(Of(c)) = Due(c)
        BY <1>b, <1>c, <1>d, <2>1, <3>1, <3>2 DEF ByDesign, Short
      <4> QED
        BY <1>0, <2>1, <4>1, NothingPlaced DEF ByRules
    <3>3. CASE c \notin Modelled
      <4>1. Cardinality(Of(c)) = 0
        BY <3>1, <3>3, FS_EmptySet DEF ByDesign
      <4>2. c # current' /\ Cardinality(Of(c)') = 0 /\ c \notin Modelled'
        BY <1>0, <2>1, <3>3, <4>1, NothingPlaced
      <4> QED
        BY <4>2 DEF ByRules
    <3> QED
      BY <3>2, <3>3
  <2> QED
    BY <2>1, <2>2, NothingPlaced DEF CountInv
<1>6. ASSUME NEW c \in Candidates, TakeCandidate(c) PROVE CountInv'
  <2>1. /\ UNCHANGED <<effort, design, scope, seen, placed, serial, pc>>
        /\ pc \in {"backfill", "rules"} /\ current = 0
        /\ current' = c /\ own' = <<>> /\ c \in scope /\ Of(c) = {}
    BY <1>6 DEF TakeCandidate, Missing
  <2>2. Cardinality(Of(c)) = 0
    BY <2>1, FS_EmptySet
  <2>3. \A d \in Candidates : ByRules(d)
    BY <2>1 DEF CountInv
  <2>4. c \notin Modelled
    BY <1>0, <1>a, <2>1, <2>2, <2>3 DEF ByRules
  <2>5. ASSUME NEW d \in Candidates PROVE ByRules(d)'
    <3>1. CASE d = c
      <4>1. Of(d)' = Of(d) /\ effort'[d] = effort[d] /\ effort[d] \in Nat \ {0}
        BY <1>0, <2>1, NothingPlaced
      <4>2. Cardinality(Of(d)') = 0 /\ Len(own') = 0 /\ Len(own') < effort'[d]
        BY <2>1, <2>2, <3>1, <4>1
      <4> QED
        BY <2>1, <3>1, <4>2 DEF ByRules
    <3>2. CASE d # c
      <4>1. d # current /\ d # current' /\ ByRules(d)
        BY <1>0, <2>1, <2>3, <3>2
      <4>2. Of(d)' = Of(d) /\ Due(d)' = Due(d) /\ Modelled' = Modelled
        BY <2>1, NothingPlaced
      <4> QED
        BY <4>1, <4>2 DEF ByRules
    <3> QED
      BY <3>1, <3>2
  <2> QED
    BY <2>1, <2>4, <2>5, NothingPlaced DEF CountInv
<1>7. CASE PlaceByRule
  <2> DEFINE due    == deadline[current]
             target == Target(current, Len(own))
             first  == IF pc = "rules" THEN target ELSE NextOwnDay(target, due)
             free   == NextOpenDay(first, due)
  <2>1. PICK c \in Candidates : c = current
    BY <1>7 DEF PlaceByRule, TypeInv, TypeOK
  <2>a. due \in Nat \cup {NoDay} /\ Len(own) \in Nat
    BY <2>1 DEF TypeInv, TypeOK
  <2>2. free \in Nat
    <3>1. target \in Nat
      BY <2>1, <2>a, TargetFromStart DEF TypeInv
    <3> HIDE DEF target, due
    <3>2. first \in Nat
      BY <2>a, <3>1, NextOwnDayFrom DEF TypeInv
    <3> HIDE DEF first
    <3> QED
      BY <2>a, <3>2, NextOpenDayFrom DEF TypeInv
  <2>b. PICK day \in Nat : day = free
    BY <2>2
  <2>3. /\ UNCHANGED <<effort, design, scope, seen, pc>>
        /\ pc \in {"backfill", "rules"}
        /\ Placing(c, day) /\ own' = Append(own, first)
        /\ current' = IF Len(own) + 1 >= effort[c] THEN 0 ELSE c
    BY <1>7, <2>1, <2>b DEF PlaceByRule, LastIndex
  <2> HIDE DEF first, free
  <2>4. Len(own') = Len(own) + 1
    BY <2>3 DEF TypeInv, TypeOK
  <2>c. Apart /\ pc # "done"
    BY <2>3 DEF CountInv
  <2>5. /\ Apart'
        /\ Of(c)' # {} /\ Cardinality(Of(c)') = Cardinality(Of(c)) + 1
        /\ \A d \in Candidates \ {c} : Of(d)' = Of(d)
    BY <2>3, <2>c, PlacesOne
  <2>6. Modelled' = Modelled
    BY <2>3 DEF Modelled
  <2>d. \A d : Depth(d)' = Depth(d)
    BY <2>3 DEF Depth
  <2>7. \A d : Due(d)' = Due(d)
    BY <2>3, <2>6, <2>d DEF Due
  <2>8. \A d \in Candidates : ByRules(d)
    BY <2>3 DEF CountInv
  <2>9. c \in scope /\ c \notin Modelled /\ c # 0
    BY <1>0, <2>1 DEF CountInv
  <2>10. /\ Cardinality(Of(c)) = Len(own) /\ Len(own) < effort[c]
         /\ effort[c] \in Nat /\ Due(c) = effort[c]
    BY <1>0, <2>1, <2>8, <2>9 DEF ByRules, Due
  <2>11. ByRules(c)'
    <3>1. CASE Len(own) + 1 >= effort[c]
      <4>1. current' # c /\ Cardinality(Of(c)') = Due(c)'
        BY <2>a, <2>3, <2>5, <2>7, <2>9, <2>10, <3>1
      <4> QED
        BY <4>1 DEF ByRules
    <3>2. CASE ~(Len(own) + 1 >= effort[c])
      <4>1. current' = c /\ Cardinality(Of(c)') = Len(own') /\ Len(own') < effort'[c]
        BY <2>a, <2>3, <2>4, <2>5, <2>10, <3>2
      <4> QED
        BY <4>1 DEF ByRules
    <3> QED
      BY <3>1, <3>2
  <2>12. ASSUME NEW d \in Candidates, d # c PROVE ByRules(d)'
    <3>1. d # current /\ d # current' /\ ByRules(d)
      BY <1>0, <2>1, <2>3, <2>8, <2>12
    <3> QED
      BY <2>5, <2>6, <2>7, <2>12, <3>1 DEF ByRules
  <2> QED
    BY <2>3, <2>5, <2>6, <2>9, <2>11, <2>12 DEF CountInv
<1>8. CASE RulesDone
  <2>1. /\ UNCHANGED <<effort, design, scope, seen, placed, serial, own, current>>
        /\ pc \in {"backfill", "rules"} /\ pc' = "renumber" /\ current = 0 /\ Missing = {}
    BY <1>8 DEF RulesDone
  <2>2. ASSUME NEW c \in Candidates PROVE Cardinality(Of(c)) = Due(c)
    <3>1. ByRules(c) /\ Modelled \subseteq scope
      BY <2>1 DEF CountInv
    <3>2. CASE c \in scope
      <4>1. Cardinality(Of(c)) # 0
        BY <1>b, <2>1, <3>2 DEF Missing
      <4> QED
        BY <1>0, <2>1, <3>1, <4>1 DEF ByRules
    <3>3. CASE c \notin scope
      <4>1. Due(c) = 0
        BY <3>1, <3>3 DEF Due
      <4> QED
        BY <1>0, <2>1, <3>1, <4>1 DEF ByRules
    <3> QED
      BY <3>2, <3>3
  <2> QED
    BY <2>1, <2>2, NothingPlaced DEF CountInv
<1>9. CASE Renumber
  <2>1. /\ UNCHANGED <<effort, design, scope, seen, current>>
        /\ pc = "renumber" /\ pc' = "done" /\ current = 0
    BY <1>9 DEF Renumber, CountInv
  <2>2. Modelled' = Modelled /\ \A d : Depth(d)' = Depth(d)
    BY <2>1 DEF Modelled, Depth
  <2>3. \A d : Due(d)' = Due(d)
    BY <2>1, <2>2 DEF Due
  <2>4. ASSUME NEW c \in Candidates PROVE Numbered(c)'
    <3>1. Apart /\ Cardinality(Of(c)) = Due(c)
      BY <2>1 DEF CountInv
    <3>2. /\ Cardinality(Of(c)') = Cardinality(Of(c))
          /\ {p.n : p \in Of(c)'} = 1..Cardinality(Of(c))
          /\ \A p, q \in Of(c)' : p.n < q.n => p.day <= q.day
      BY <1>9, <3>1, Renumbered
    <3> QED
      BY <2>3, <3>1, <3>2 DEF Numbered
  <2> QED
    BY <2>1, <2>2, <2>4 DEF CountInv
<1>10. CASE UNCHANGED vars
  <2>1. UNCHANGED <<effort, design, scope, seen, placed, serial, own, current, pc>>
    BY <1>10 DEF vars
  <2>2. /\ Modelled' = Modelled /\ (Apart' <=> Apart)
        /\ \A c : Of(c)' = Of(c) /\ Due(c)' = Due(c) /\ (ByDesign(c)' <=> ByDesign(c))
    BY <2>1, NothingPlaced
  <2>3. ASSUME NEW c
        PROVE  (ByRules(c)' <=> ByRules(c)) /\ (Numbered(c)' <=> Numbered(c))
    BY <2>1, <2>2 DEF ByRules, Numbered
  <2> QED
    BY <2>1, <2>2, <2>3 DEF CountInv
<1> QED
  BY <1>1, <1>2, <1>3, <1>4, <1>5, <1>6, <1>7, <1>8, <1>9, <1>10
     DEF Next, Step, Finished

\* _declared_depth, _top_up and _rule_schedule: the plan has every candidate
\* that was not excluded as often as the model declared, or as its effort asks
\* if the model left it out, numbered in the order of the days.
THEOREM DepthsHold == Spec => []DepthHonoured
<1>1. Init => CountInv
  <2> SUFFICES ASSUME Init PROVE CountInv
    OBVIOUS
  <2>1. Modelled = {} /\ \A c : Of(c) = {} /\ Cardinality(Of(c)) = 0
    BY FS_EmptySet DEF Init, Modelled, Of
  <2>2. TypeInv
    BY TypeInvInit
  <2>3. \A c : Depth(c) \in Nat
    BY <2>2, DepthPositive DEF TypeInv
  <2>4. \A c : ByDesign(c)
    BY <2>1, <2>3 DEF ByDesign
  <2> QED
    BY <2>1, <2>4 DEF Init, CountInv, Apart
<1>2. CountInv => DepthHonoured
  BY DEF CountInv, Numbered, DepthHonoured
<1> QED
  BY <1>1, <1>2, CountInvStep, TypeInvKept, PTL DEF Spec
=============================================================================
