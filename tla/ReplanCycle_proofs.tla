-------------------------- MODULE ReplanCycle_proofs --------------------------
(***************************************************************************)
(* Proofs about ReplanCycle for any names, edits and bounds: the types,    *)
(* and that no task is on twice; and, where the rules plan and the names   *)
(* of tasks, slide decks and topics are apart, that work is not            *)
(* multiplied, that replanning changes nothing, and that the tasks the     *)
(* student entered are respected.                                          *)
(***************************************************************************)
EXTENDS ReplanCycle, FiniteSetTheorems, SequenceTheorems,
        WellFoundedInduction, TLAPS

(* Titles. *)

\* A name is a title.
LEMMA PlainTyped == ASSUME NEW n \in Names PROVE Plain(n) \in Title
<1>1. <<>> \in Seq(Verbs) /\ <<>> \in Seq(Mark)
  OBVIOUS
<1> QED
  BY <1>1 DEF Plain, Title

\* A verb before a title keeps its name and its marks.
LEMMA WithTyped ==
  ASSUME NEW t \in Title, NEW verb \in Verbs
  PROVE  /\ With(verb, t) \in Title
         /\ With(verb, t).name = t.name /\ With(verb, t).marks = t.marks
         /\ With(verb, t).verbs = <<verb>> \o t.verbs
<1>1. <<verb>> \o t.verbs \in Seq(Verbs)
  BY DEF Title
<1> QED
  BY <1>1 DEF With, Title

\* _base_title keeps the verbs and the name.
LEMMA BaseTyped ==
  ASSUME NEW t \in Title
  PROVE  Base(t) \in Title /\ Base(t).name = t.name /\ Base(t).verbs = t.verbs
<1>1. CASE t.marks = <<>>
  BY <1>1 DEF Base
<1>2. CASE t.marks # <<>>
  <2>1. t.marks \in Seq(Mark)
    BY DEF Title
  <2>2. \A i \in 1..(Len(t.marks) - 1) : t.marks[i] \in Mark
    BY <2>1
  <2>3. Front(t.marks) \in Seq(Mark)
    BY <2>1, <2>2, SubSeqProperties DEF Front
  <2> QED
    BY <1>2, <2>3 DEF Base, Title
<1> QED
  BY <1>1, <1>2

\* The session number changes neither the verbs nor the name.
LEMMA NumberedTyped ==
  ASSUME NEW t \in Title, NEW k \in Nat, NEW n \in Nat
  PROVE  /\ Numbered(t, k, n) \in Title
         /\ Numbered(t, k, n).name = t.name /\ Numbered(t, k, n).verbs = t.verbs
         /\ Numbered(t, k, n).marks =
              IF n > 1 THEN Append(t.marks, [k |-> k, n |-> n]) ELSE t.marks
<1>1. Append(t.marks, [k |-> k, n |-> n]) \in Seq(Mark)
  BY DEF Title, Mark
<1> QED
  BY <1>1 DEF Numbered, Title

\* A title without numbers is the base of its sessions.
LEMMA BaseOfNumbered ==
  ASSUME NEW t \in Title, t.marks = <<>>, NEW k \in Nat, NEW n \in Nat
  PROVE  Base(Numbered(t, k, n)) = t
<1> DEFINE mark == [k |-> k, n |-> n]
           long == [t EXCEPT !.marks = Append(@, mark)]
<1>1. CASE n > 1
  <2>1. Append(t.marks, mark) = <<mark>>
    OBVIOUS
  <2>2. long.marks = <<mark>>
    BY <2>1 DEF Title
  <2>3. Front(<<mark>>) = <<>>
    BY SubSeqEmpty DEF Front
  <2>4. Base(long) = [long EXCEPT !.marks = <<>>]
    BY <2>2, <2>3 DEF Base
  <2>5. [long EXCEPT !.marks = <<>>] = t
    BY DEF Title
  <2>6. Numbered(t, k, n) = long
    BY <1>1 DEF Numbered
  <2> QED
    BY <2>4, <2>5, <2>6
<1>2. CASE ~(n > 1)
  BY <1>2 DEF Numbered, Base
<1> QED
  BY <1>1, <1>2

-----------------------------------------------------------------------------
(* Efforts and candidates. *)

Below == {ss \in Nat \X Nat : ss[1] < ss[2]}

\* A set of numbers that is not empty has a least one.
LEMMA LeastNatural ==
  ASSUME NEW S, S \subseteq Nat, S # {}
  PROVE  \E n \in S : \A m \in S : n <= m
<1>1. IsWellFoundedOn(Below, Nat)
  BY NatLessThanWellFounded DEF OpToRel, Below
<1>2. \E x \in S : \A y \in S : ~(<<y, x>> \in Below)
  BY <1>1, WFMin
<1>3. \A x, y \in Nat : ~(<<y, x>> \in Below) => x <= y
  BY DEF Below
<1> QED
  BY <1>2, <1>3

\* _effort_units: at least one session.
LEMMA EffortTyped ==
  ASSUME NEW sessions \in Nat \ {0}, NEW t
  PROVE  Effort(sessions, t) \in Nat \ {0}
<1>1. (7 * sessions + 2) \div 4 \in Nat \ {0}
  OBVIOUS
<1> QED
  BY <1>1 DEF Effort

\* The preparation for an exam: at least one session, in fact two.
LEMMA TwoAtLeast ==
  ASSUME NEW e \in Nat \ {0} PROVE Larger(2, e) \in Nat \ {0}
BY DEF Larger

\* A title and a number of sessions make a candidate.
LEMMA ItemTyped ==
  ASSUME NEW t \in Title, NEW e \in Nat \ {0}
  PROVE  Item(t, e) \in [title : Title, effort : Nat \ {0}]
BY DEF Item

\* The page count of any title asks for at least one session.
LEMMA PagesTyped == ASSUME NEW t PROVE Pages(t) \in Nat \ {0}
BY DepthsAssumption DEF Pages, DepthsAssumption

TypeInv == TypeOK /\ IsFiniteSet(rows)

\* What a function makes of a finite set is finite.
LEMMA FiniteImage ==
  ASSUME NEW S, IsFiniteSet(S), NEW f
  PROVE  IsFiniteSet({f[x] : x \in S})
<1> DEFINE T == {f[x] : x \in S}
           g == [x \in S |-> f[x]]
<1>1. g \in Surjection(S, T)
  BY DEF Surjection
<1> HIDE DEF g, T
<1>2. IsFiniteSet(T)
  BY <1>1, FS_Surjection
<1> QED
  BY <1>2 DEF T

\* The tasks of any kind can be counted.
LEMMA CountTyped ==
  ASSUME IsFiniteSet(rows), NEW b
  PROVE  Count(b) \in Nat /\ IsFiniteSet(Known(b))
<1>1. {r \in rows : r.status = "todo" /\ Base(r.title) = b} \in SUBSET rows
  OBVIOUS
<1>2. Known(b) \in SUBSET rows
  BY DEF Known
<1> QED
  BY <1>1, <1>2, FS_Subset, FS_CardinalityType DEF Count

\* Every base the list of tasks is grouped by is a title.
LEMMA GroupedTyped ==
  ASSUME TypeInv
  PROVE  Grouped \subseteq Title /\ IsFiniteSet(Grouped)
<1>1. \A r \in rows : r.title \in Title
  BY DEF TypeInv, TypeOK
<1>2. \A r \in rows : Base(r.title) \in Title
  BY <1>1, BaseTyped
<1> DEFINE base == [r \in rows |-> Base(r.title)]
           all  == {base[r] : r \in rows}
<1>3. Grouped \in SUBSET all
  BY DEF Grouped, Todo, Titled
<1>4. Grouped \subseteq Title
  BY <1>2, <1>3
<1> HIDE DEF base
<1>5. IsFiniteSet(all)
  BY FiniteImage DEF TypeInv
<1> QED
  BY <1>3, <1>4, <1>5, FS_Subset

\* The titles of the tasks are titles.
LEMMA RowTyped ==
  ASSUME TypeInv, NEW r \in rows
  PROVE  /\ r.title \in Title /\ r.status \in Statuses /\ r.copy \in Nat \ {0}
         /\ r = [title |-> r.title, status |-> r.status, copy |-> r.copy]
BY DEF TypeInv, TypeOK

\* _collect_candidates: a finite list of titles, each with its sessions.
LEMMA CandidatesTyped ==
  ASSUME TypeInv
  PROVE  /\ Candidates \subseteq [title : Title, effort : Nat \ {0}]
         /\ IsFiniteSet(Candidates)
<1> DEFINE C == [title : Title, effort : Nat \ {0}]
<1>1. IsFiniteSet(Remaining) /\ Remaining \subseteq C
  <2> DEFINE f == [b \in Grouped |-> Item(b, Larger(Count(b), Effort(Pages(b), b)))]
  <2>1. Remaining = {f[b] : b \in Grouped}
    BY DEF Remaining
  <2>2. ASSUME NEW b \in Grouped PROVE f[b] \in C
    <3>1. Count(b) \in Nat /\ Effort(Pages(b), b) \in Nat \ {0} /\ b \in Title
      BY CountTyped, PagesTyped, EffortTyped, GroupedTyped DEF TypeInv
    <3> QED
      BY <3>1 DEF Item, Larger
  <2> HIDE DEF f
  <2> QED
    BY <2>1, <2>2, GroupedTyped, FiniteImage
<1>2. IsFiniteSet(Preparation) /\ Preparation \subseteq C
  <2> DEFINE title == [r \in rows |-> r.title]
             f == [d \in ToPrepare |-> Item(With("Prepare for", d), Larger(2, Effort(1, d)))]
  <2>1. ToPrepare \in SUBSET {title[r] : r \in rows} /\ ToPrepare \subseteq Title
    BY RowTyped DEF ToPrepare, Deadlines
  <2>2. IsFiniteSet(ToPrepare)
    <3> HIDE DEF title
    <3>1. IsFiniteSet({title[r] : r \in rows})
      BY FiniteImage DEF TypeInv
    <3> QED
      BY <2>1, <3>1, FS_Subset
  <2>3. Preparation = {f[d] : d \in ToPrepare}
    BY DEF Preparation
  <2>4. ASSUME NEW d \in ToPrepare PROVE f[d] \in C
    <3>1. "Prepare for" \in Verbs /\ 1 \in Nat \ {0} /\ d \in Title
      BY <2>1 DEF Verbs
    <3>2. With("Prepare for", d) \in Title /\ Effort(1, d) \in Nat \ {0}
      BY <3>1, WithTyped, EffortTyped
    <3> QED
      BY <3>2, TwoAtLeast, ItemTyped
  <2> HIDE DEF f
  <2> QED
    BY <2>2, <2>3, <2>4, FiniteImage
<1>3. IsFiniteSet(Study) /\ Study \subseteq C
  <2> DEFINE S == {m \in Materials : New("Study", m)}
             f == [m \in S |-> Item(With("Study", Plain(m)), Effort(Sessions[m], Plain(m)))]
  <2>1. S \in SUBSET Names
    BY DEF Names
  <2>2. IsFiniteSet(S)
    BY <2>1, NamesAssumption, FS_Subset DEF NamesAssumption
  <2>3. Study = {f[m] : m \in S}
    BY DEF Study
  <2>4. ASSUME NEW m \in S PROVE f[m] \in C
    <3>1. Sessions[m] \in Nat \ {0} /\ m \in Names
      BY <2>1, DepthsAssumption DEF DepthsAssumption
    <3>2. With("Study", Plain(m)) \in Title /\ Effort(Sessions[m], Plain(m)) \in Nat \ {0}
      BY <3>1, PlainTyped, WithTyped, EffortTyped DEF Verbs
    <3> QED
      BY <3>2 DEF Item
  <2> HIDE DEF f, S
  <2> QED
    BY <2>2, <2>3, <2>4, FiniteImage
<1>4. IsFiniteSet(Revision) /\ Revision \subseteq C
  <2> DEFINE S == {n \in weak : New("Review", n)}
             f == [n \in S |-> Item(With("Review", Plain(n)), Effort(1, Plain(n)))]
  <2>1. S \in SUBSET Names
    BY DEF Names, TypeInv, TypeOK
  <2>2. IsFiniteSet(S)
    BY <2>1, NamesAssumption, FS_Subset DEF NamesAssumption
  <2>3. Revision = {f[n] : n \in S}
    BY DEF Revision
  <2>4. ASSUME NEW n \in S PROVE f[n] \in C
    <3>1. "Review" \in Verbs /\ 1 \in Nat \ {0} /\ Plain(n) \in Title
      BY <2>1, PlainTyped DEF Verbs
    <3>2. With("Review", Plain(n)) \in Title /\ Effort(1, Plain(n)) \in Nat \ {0}
      BY <3>1, WithTyped, EffortTyped
    <3> QED
      BY <3>2 DEF Item
  <2> HIDE DEF f, S
  <2> QED
    BY <2>2, <2>3, <2>4, FiniteImage
<1> QED
  BY <1>1, <1>2, <1>3, <1>4, FS_Union DEF Candidates

\* A plan is of candidates, at least one session of each.
LEMMA PlanTyped ==
  ASSUME TypeInv, NEW scope \in Scopes, NEW depth \in DepthsOf(scope)
  PROVE  /\ scope \subseteq Candidates /\ IsFiniteSet(scope)
         /\ scope \subseteq [title : Title, effort : Nat \ {0}]
         /\ depth \in [scope -> Nat \ {0}]
<1>1. scope \in SUBSET Candidates
  BY DEF Scopes
<1>2. scope \subseteq [title : Title, effort : Nat \ {0}]
  BY <1>1, CandidatesTyped
<1>f. IsFiniteSet(scope)
  <2>1. IsFiniteSet(Candidates)
    BY CandidatesTyped
  <2> QED
    BY <1>1, <2>1, FS_Subset
<1>3. \E designed : \E f \in [designed -> Depths] :
        depth = [c \in scope |-> IF c \in designed THEN f[c] ELSE c.effort]
  BY DEF DepthsOf
<1>p. PICK designed : \E f \in [designed -> Depths] :
        depth = [c \in scope |-> IF c \in designed THEN f[c] ELSE c.effort]
  BY <1>3
<1>q. PICK f \in [designed -> Depths] :
        depth = [c \in scope |-> IF c \in designed THEN f[c] ELSE c.effort]
  BY <1>p
<1>4. \A c \in designed : f[c] \in Nat \ {0}
  BY <1>q, DepthsAssumption DEF DepthsAssumption
<1>5. \A c \in scope : c.effort \in Nat \ {0}
  BY <1>2
<1> QED
  BY <1>1, <1>2, <1>f, <1>q, <1>4, <1>5

\* _assemble: a finite number of sessions, numbered from 1.
LEMMA SessionsTyped ==
  ASSUME NEW scope, IsFiniteSet(scope),
         scope \subseteq [title : Title, effort : Nat \ {0}],
         NEW depth \in [scope -> Nat \ {0}]
  PROVE  /\ SessionTitles(scope, depth) \subseteq Title
         /\ IsFiniteSet(SessionTitles(scope, depth))
         /\ \A t \in SessionTitles(scope, depth) : \E c \in scope : \E k \in 1..depth[c] :
              t = Numbered(c.title, k, depth[c])
<1> DEFINE of(c) == {Numbered(c.title, k, depth[c]) : k \in 1..depth[c]}
           all   == [c \in scope |-> of(c)]
<1>1. SessionTitles(scope, depth) = UNION {all[c] : c \in scope}
  BY DEF SessionTitles
<1>2. ASSUME NEW c \in scope PROVE IsFiniteSet(all[c])
  <2> DEFINE f == [k \in 1..depth[c] |-> Numbered(c.title, k, depth[c])]
  <2>1. all[c] = {f[k] : k \in 1..depth[c]}
    OBVIOUS
  <2>2. IsFiniteSet(1..depth[c])
    BY FS_Interval
  <2> HIDE DEF f, all
  <2> QED
    BY <2>1, <2>2, FiniteImage
<1>3. \A t \in SessionTitles(scope, depth) : \E c \in scope : \E k \in 1..depth[c] :
        t = Numbered(c.title, k, depth[c])
  BY DEF SessionTitles
<1>4. \A c \in scope : \A k \in 1..depth[c] : Numbered(c.title, k, depth[c]) \in Title
  <2> SUFFICES ASSUME NEW c \in scope, NEW k \in 1..depth[c]
               PROVE  Numbered(c.title, k, depth[c]) \in Title
    OBVIOUS
  <2>1. c.title \in Title /\ k \in Nat /\ depth[c] \in Nat
    OBVIOUS
  <2> QED
    BY <2>1, NumberedTyped
<1> HIDE DEF all
<1>5. IsFiniteSet({all[c] : c \in scope})
  BY FiniteImage
<1>6. IsFiniteSet(UNION {all[c] : c \in scope})
  BY <1>2, <1>5, FS_UNION
<1> QED
  BY <1>1, <1>3, <1>4, <1>6

-----------------------------------------------------------------------------
(* What _calendar_events does to the tasks. *)

\* The events of a plan have the titles of its sessions and of the deadlines.
EventTitles(sessions) == sessions \cup {r.title : r \in Deadlines}

ToDoAgain(r) == [r EXCEPT !.status = "todo"]

\* The number of events of a title is a number, 1 for a session of the plan
\* that is no deadline.
LEMMA EventsTyped ==
  ASSUME TypeInv, NEW t, NEW sessions
  PROVE  /\ Events(t, sessions) \in Nat
         /\ (t \in sessions /\ ~Exam(t) => Events(t, sessions) = 1)
<1> DEFINE D == {r \in Deadlines : r.title = t}
<1>1. D \in SUBSET rows
  BY DEF Deadlines
<1>2. Cardinality(D) \in Nat
  BY <1>1, FS_Subset, FS_CardinalityType DEF TypeInv
<1>3. ~Exam(t) => D = {}
  BY DEF Deadlines
<1>4. ~Exam(t) => Cardinality(D) = 0
  BY <1>3, FS_EmptySet
<1> HIDE DEF D
<1> QED
  BY <1>2, <1>4 DEF Events, D

\* There is always a number for a new task; for one task there is just one.
LEMMA UnusedTyped ==
  ASSUME TypeInv, NEW t, NEW k \in Nat
  PROVE  /\ Unused(t, k) \subseteq Nat \ {0} /\ IsFiniteSet(Unused(t, k))
         /\ (k = 1 => \E n : Unused(t, k) = {n})
<1> DEFINE copies == {r.copy : r \in {x \in rows : x.title = t}}
           all    == 1..(k + Cardinality(rows))
           free   == all \ copies
           under(n) == {m \in free : m < n}
<1>1. Cardinality(rows) \in Nat
  BY FS_CardinalityType DEF TypeInv
<1>2. IsFiniteSet(all) /\ all \subseteq Nat \ {0} /\ Cardinality(all) = k + Cardinality(rows)
  <2> DEFINE last == k + Cardinality(rows)
  <2>1. last \in Nat
    BY <1>1
  <2> HIDE DEF last
  <2>2. IsFiniteSet(1..last) /\ Cardinality(1..last) = last /\ 1..last \subseteq Nat \ {0}
    BY <2>1, FS_Interval
  <2> QED
    BY <2>2 DEF last
<1>3. Unused(t, k) = {n \in free : Cardinality(under(n)) < k}
  BY DEF Unused
<1>4. free \in SUBSET all
  OBVIOUS
<1>5. IsFiniteSet(free) /\ free \subseteq Nat \ {0}
  <2> HIDE DEF all, free
  <2> QED
    BY <1>2, <1>4, FS_Subset
<1>6. Unused(t, k) \in SUBSET free
  BY <1>3
<1>7. IsFiniteSet(Unused(t, k))
  BY <1>5, <1>6, FS_Subset
<1>8. ASSUME k = 1 PROVE \E n : Unused(t, k) = {n}
  <2>1. free # {}
    <3>1. SUFFICES ASSUME all \subseteq copies PROVE FALSE
      OBVIOUS
    <3> DEFINE own  == {x \in rows : x.title = t}
               copy == [r \in own |-> r.copy]
    <3>2. IsFiniteSet(own) /\ Cardinality(own) <= Cardinality(rows)
      <4>1. own \in SUBSET rows
        OBVIOUS
      <4> QED
        BY <4>1, FS_Subset DEF TypeInv
    <3>3. copy \in Surjection(own, copies)
      BY DEF Surjection
    <3> HIDE DEF own, copy, copies, all
    <3>4. IsFiniteSet(copies) /\ Cardinality(copies) <= Cardinality(own)
      BY <3>2, <3>3, FS_Surjection
    <3>5. Cardinality(all) <= Cardinality(copies)
      BY <3>1, <3>4, FS_Subset
    <3>6. Cardinality(own) \in Nat /\ Cardinality(copies) \in Nat
      BY <3>2, <3>4, FS_CardinalityType
    <3> QED
      BY <1>1, <1>2, <1>8, <3>2, <3>4, <3>5, <3>6
  <2>2. PICK n \in free : \A m \in free : n <= m
    <3> HIDE DEF free
    <3> QED
      BY <1>5, <2>1, LeastNatural
  <2>3. \A m \in free : Cardinality(under(m)) < 1 <=> under(m) = {}
    <3> SUFFICES ASSUME NEW m \in free PROVE Cardinality(under(m)) < 1 <=> under(m) = {}
      OBVIOUS
    <3>1. under(m) \in SUBSET free
      OBVIOUS
    <3> HIDE DEF under, free
    <3>2. IsFiniteSet(under(m))
      BY <1>5, <3>1, FS_Subset
    <3>3. Cardinality(under(m)) \in Nat /\ (Cardinality(under(m)) = 0 <=> under(m) = {})
      BY <3>2, FS_CardinalityType, FS_EmptySet
    <3> QED
      BY <3>3
  <2>4. \A m \in free : under(m) = {} <=> m = n
    <3> HIDE DEF free
    <3>1. \A m \in free : m \in Nat
      BY <1>5
    <3> QED
      BY <2>2, <3>1
  <2> HIDE DEF under, free
  <2> QED
    BY <1>3, <1>8, <2>2, <2>3, <2>4
<1> QED
  BY <1>5, <1>6, <1>7, <1>8

\* Whatever tasks of a title are picked, one that is skipped stays, one that
\* has no event stays, and any other is either as it was or still to do.
LEMMA WrittenRows ==
  ASSUME TypeInv, NEW sessions, NEW new \in Written(sessions)
  PROVE  /\ \A r \in rows : r.status = "skipped" \/ r.title \notin EventTitles(sessions) => r \in new
         /\ \A r \in rows : r.title \in EventTitles(sessions) /\ Known(r.title) = {r} =>
              ToDoAgain(r) \in new /\ (r \in new => r.status = "todo")
         /\ \A t \in EventTitles(sessions) : Known(t) = {} =>
              \A n \in Unused(t, Events(t, sessions)) : Row(t, n) \in new
         /\ \A r \in new :
              \/ r \in rows
              \/ \E x \in rows : x.title \in EventTitles(sessions) /\ x.status # "skipped" /\ r = ToDoAgain(x)
              \/ \E t \in EventTitles(sessions) :
                   Known(t) = {} /\ \E n \in Unused(t, Events(t, sessions)) : r = Row(t, n)
<1> DEFINE titles  == EventTitles(sessions)
           alone   == UNION {Known(t) : t \in {u \in titles : Cardinality(Known(u)) = 1}}
           several == UNION {Known(t) : t \in titles} \ alone
           entered == UNION {{Row(t, n) : n \in Unused(t, Events(t, sessions))} :
                               t \in {u \in titles : Known(u) = {}}}
           written(some) == (rows \ (alone \cup some)) \cup entered
                              \cup {[r EXCEPT !.status = "todo"] : r \in alone \cup some}
<1>1. \E some \in SUBSET several : new = written(some)
  BY DEF Written, EventTitles
<1>2. PICK some \in SUBSET several : new = written(some)
  BY <1>1
<1>3. \A r : r \in new <=>
        \/ r \in rows /\ r \notin alone /\ r \notin some
        \/ r \in entered
        \/ \E x \in alone \cup some : r = ToDoAgain(x)
  BY <1>2 DEF ToDoAgain
<1>4. \A r : r \in entered <=> \E t \in titles :
        Known(t) = {} /\ \E n \in Unused(t, Events(t, sessions)) : r = Row(t, n)
  OBVIOUS
<1>5. \A r \in alone \cup some :
        r \in rows /\ r.status # "skipped" /\ r.title \in titles
  <2>1. \A r \in alone \cup some : \E t \in titles : r \in Known(t)
    BY <1>2
  <2> HIDE DEF alone, titles
  <2> QED
    BY <2>1 DEF Known
<1>6. \A r : Known(r.title) = {r} /\ r.title \in titles => r \in alone
  <2> SUFFICES ASSUME NEW r, Known(r.title) = {r}, r.title \in titles PROVE r \in alone
    OBVIOUS
  <2>1. Cardinality(Known(r.title)) = 1
    BY FS_Singleton
  <2> QED
    BY <2>1
<1> HIDE DEF alone, several, entered
<1>7. ASSUME NEW r \in rows, r.title \in titles, Known(r.title) = {r}, r \in new
      PROVE  r.status = "todo"
  <2>1. r \in alone
    BY <1>6, <1>7
  <2>2. r \notin entered
    <3> SUFFICES ASSUME r \in entered PROVE FALSE
      OBVIOUS
    <3>1. PICK t \in titles : Known(t) = {} /\ \E n : r = Row(t, n)
      BY <1>4
    <3>2. r.title = t
      BY <3>1 DEF Row
    <3> QED
      BY <1>7, <3>1, <3>2
  <2>3. PICK x \in alone \cup some : r = ToDoAgain(x)
    BY <1>3, <1>7, <2>1, <2>2
  <2>4. x \in rows
    BY <1>5
  <2> QED
    BY <2>3, <2>4, RowTyped DEF ToDoAgain
<1>8. \A r \in rows : r.status = "skipped" \/ r.title \notin titles => r \in new
  BY <1>3, <1>5
<1>9. \A r \in rows : r.title \in titles /\ Known(r.title) = {r} => ToDoAgain(r) \in new
  BY <1>3, <1>6
<1>10. \A t \in titles : Known(t) = {} =>
         \A n \in Unused(t, Events(t, sessions)) : Row(t, n) \in new
  BY <1>3, <1>4
<1>11. \A r \in new :
         \/ r \in rows
         \/ \E x \in rows : x.title \in titles /\ x.status # "skipped" /\ r = ToDoAgain(x)
         \/ \E t \in titles :
              Known(t) = {} /\ \E n \in Unused(t, Events(t, sessions)) : r = Row(t, n)
  BY <1>3, <1>4, <1>5
<1> QED
  BY <1>7, <1>8, <1>9, <1>10, <1>11

\* Writing the events leaves a finite list of tasks.
LEMMA WrittenTyped ==
  ASSUME TypeInv, NEW sessions, sessions \subseteq Title, IsFiniteSet(sessions),
         NEW new \in Written(sessions)
  PROVE  /\ new \subseteq [title : Title, status : Statuses, copy : Nat \ {0}]
         /\ IsFiniteSet(new)
<1> DEFINE titles == EventTitles(sessions)
           R      == [title : Title, status : Statuses, copy : Nat \ {0}]
           again  == [r \in rows |-> ToDoAgain(r)]
           entries(t) == {Row(t, n) : n \in Unused(t, Events(t, sessions))}
           entry  == [t \in titles |-> entries(t)]
           title  == [r \in Deadlines |-> r.title]
<1>1. titles \subseteq Title /\ IsFiniteSet(titles)
  <2>1. Deadlines \in SUBSET rows
    BY DEF Deadlines
  <2>2. titles = sessions \cup {title[r] : r \in Deadlines} /\ \A r \in Deadlines : title[r] \in Title
    BY <2>1, RowTyped DEF EventTitles
  <2>3. IsFiniteSet(Deadlines)
    BY <2>1, FS_Subset DEF TypeInv
  <2> HIDE DEF title
  <2>4. IsFiniteSet({title[r] : r \in Deadlines})
    BY <2>3, FiniteImage
  <2>5. IsFiniteSet(sessions \cup {title[r] : r \in Deadlines})
    BY <2>4, FS_Union
  <2> QED
    BY <2>2, <2>5
<1> HIDE DEF titles
<1>2. \A t \in titles : IsFiniteSet(entry[t]) /\ entry[t] \subseteq R
  <2> SUFFICES ASSUME NEW t \in titles
               PROVE  IsFiniteSet(entry[t]) /\ entry[t] \subseteq R
    OBVIOUS
  <2> DEFINE free == Unused(t, Events(t, sessions))
             f    == [n \in free |-> Row(t, n)]
  <2>1. IsFiniteSet(free) /\ free \subseteq Nat \ {0}
    BY EventsTyped, UnusedTyped
  <2>2. entry[t] = {f[n] : n \in free}
    OBVIOUS
  <2>3. \A n \in free : f[n] \in R
    BY <1>1, <2>1 DEF Row, Statuses
  <2> HIDE DEF free, f, entry
  <2>4. IsFiniteSet({f[n] : n \in free})
    BY <2>1, FiniteImage
  <2> QED
    BY <2>2, <2>3, <2>4
<1>3. \A r \in rows : r \in R /\ ToDoAgain(r) \in R
  BY RowTyped DEF ToDoAgain, Statuses
<1>4. \A r \in new : r \in rows \/ r \in {again[x] : x \in rows} \/ r \in UNION {entry[t] : t \in titles}
  <2>1. \A r \in new :
          \/ r \in rows
          \/ \E x \in rows : r = ToDoAgain(x)
          \/ \E t \in titles : \E n \in Unused(t, Events(t, sessions)) : r = Row(t, n)
    BY WrittenRows DEF titles
  <2> QED
    BY <2>1
<1> HIDE DEF entry
<1>5. IsFiniteSet(UNION {entry[t] : t \in titles})
  <2>1. IsFiniteSet({entry[t] : t \in titles})
    BY <1>1, FiniteImage
  <2> QED
    BY <1>2, <2>1, FS_UNION
<1>6. new \subseteq R
  BY <1>2, <1>3, <1>4
<1> HIDE DEF again
<1>7. IsFiniteSet({again[x] : x \in rows})
  BY FiniteImage DEF TypeInv
<1>8. IsFiniteSet((rows \cup {again[x] : x \in rows}) \cup UNION {entry[t] : t \in titles})
  BY <1>5, <1>7, FS_Union DEF TypeInv
<1>9. new \in SUBSET ((rows \cup {again[x] : x \in rows}) \cup UNION {entry[t] : t \in titles})
  BY <1>4
<1> QED
  BY <1>6, <1>8, <1>9, FS_Subset

-----------------------------------------------------------------------------
(* Types. *)

\* A plan gives every title in it at least one session.
LEMMA PlannedTyped ==
  ASSUME TypeInv, NEW scope \in Scopes, NEW depth \in DepthsOf(scope), Approve(scope, depth)
  PROVE  /\ DOMAIN planned' = {c.title : c \in scope}
         /\ \A t \in DOMAIN planned' :
              \E c \in scope : c.title = t /\ planned'[t] = depth[c]
<1> DEFINE of(t) == CHOOSE c \in scope : c.title = t
<1>1. planned' = [t \in {c.title : c \in scope} |-> depth[of(t)]]
  BY DEF Approve
<1>2. \A t \in {c.title : c \in scope} : of(t) \in scope /\ of(t).title = t
  OBVIOUS
<1> HIDE DEF of
<1> QED
  BY <1>1, <1>2

\* Approving a plan keeps the types.
LEMMA ApproveTyped ==
  ASSUME TypeInv, NEW scope \in Scopes, NEW depth \in DepthsOf(scope), Approve(scope, depth)
  PROVE  TypeInv'
<1> DEFINE sessions == SessionTitles(scope, depth)
<1>1. sessions \subseteq Title /\ IsFiniteSet(sessions)
  BY PlanTyped, SessionsTyped
<1>2. rows' \in Written(sessions)
  BY DEF Approve
<1> HIDE DEF sessions
<1>3. /\ rows' \subseteq [title : Title, status : Statuses, copy : Nat \ {0}]
      /\ IsFiniteSet(rows')
  BY <1>1, <1>2, WrittenTyped
<1>4. \A t \in DOMAIN planned' : t \in Title /\ planned'[t] \in Nat \ {0}
  <2>1. \A c \in scope : c.title \in Title /\ depth[c] \in Nat \ {0}
    BY PlanTyped
  <2>2. \A t \in DOMAIN planned' : \E c \in scope : c.title = t /\ planned'[t] = depth[c]
    BY PlannedTyped
  <2> QED
    BY <2>1, <2>2
<1>5. calm' \in {"no", "part", "all"}
  BY DEF Approve
<1>6. plans' \in 0..MaxPlans /\ UNCHANGED <<weak, lost, edits>>
  BY BoundsAssumption DEF Approve, TypeInv, TypeOK, BoundsAssumption
<1> QED
  BY <1>3, <1>4, <1>5, <1>6 DEF TypeInv, TypeOK

\* What every edit of the student keeps of the types.
LEMMA EditTyped ==
  ASSUME TypeInv, NEW kind, Edit(kind)
  PROVE  /\ \A t \in DOMAIN planned' : t \in Title /\ planned'[t] \in Nat \ {0}
         /\ calm' \in {"no", "part", "all"}
         /\ plans' \in 0..MaxPlans /\ edits' \in 0..MaxEdits
BY BoundsAssumption DEF Edit, TypeInv, TypeOK, BoundsAssumption

\* The titles lost count of when a task is deleted or renamed are titles.
LEMMA GoneTyped ==
  ASSUME TypeInv, NEW r \in rows PROVE Gone(r) \subseteq Title
BY RowTyped, BaseTyped DEF Gone

\* Entering a task brings one task.
LEMMA EnterTyped ==
  ASSUME TypeInv, NEW n \in Own, Enter(n)
  PROVE  \E k \in Nat \ {0} : rows' = rows \cup {Row(Plain(n), k)}
<1>1. PICK k : Unused(Plain(n), 1) = {k}
  BY UnusedTyped
<1>2. k \in Nat \ {0}
  BY <1>1, UnusedTyped
<1>3. rows' = rows \cup {Row(Plain(n), k)}
  BY <1>1 DEF Enter
<1> QED
  BY <1>2, <1>3

\* Renaming a task changes its title alone, and the number that tells it apart.
LEMMA RenameTyped ==
  ASSUME TypeInv, NEW r \in rows, NEW n \in Own, Rename(r, n)
  PROVE  \E x \in [title : Title, status : Statuses, copy : Nat \ {0}] :
           /\ rows' = (rows \ {r}) \cup {x}
           /\ x.title = Plain(n) /\ x.status = r.status
<1>1. PICK k : Unused(Plain(n), 1) = {k}
  BY UnusedTyped
<1>2. k \in Nat \ {0}
  BY <1>1, UnusedTyped
<1> DEFINE x == [r EXCEPT !.title = Plain(n), !.copy = k]
<1>3. rows' = (rows \ {r}) \cup {x}
  BY <1>1 DEF Rename
<1>4. Plain(n) \in Title
  BY PlainTyped DEF Names
<1>5. /\ x \in [title : Title, status : Statuses, copy : Nat \ {0}]
      /\ x.title = Plain(n) /\ x.status = r.status
  <2>1. r \in [title : Title, status : Statuses, copy : Nat \ {0}]
    BY RowTyped
  <2> HIDE DEF Title
  <2> QED
    BY <1>2, <1>4, <2>1
<1> QED
  BY <1>3, <1>5

\* TypeInv is inductive.
LEMMA TypeInvStep == TypeInv /\ [Next]_vars => TypeInv'
<1> SUFFICES ASSUME TypeInv, [Next]_vars PROVE TypeInv'
  OBVIOUS
<1> DEFINE R == [title : Title, status : Statuses, copy : Nat \ {0}]
<1>1. ASSUME NEW scope \in Scopes, NEW depth \in DepthsOf(scope), Approve(scope, depth)
      PROVE  TypeInv'
  BY <1>1, ApproveTyped
<1>2. ASSUME NEW r \in rows, Delete(r) PROVE TypeInv'
  <2>1. rows' = rows \ {r} /\ weak' = weak /\ Edit("delete") /\ lost' = lost \cup Gone(r)
    BY <1>2 DEF Delete
  <2>2. IsFiniteSet(rows') /\ rows' \subseteq R
    BY <2>1, FS_RemoveElement DEF TypeInv, TypeOK
  <2>3. lost' \subseteq Title
    BY <2>1, GoneTyped DEF TypeInv, TypeOK
  <2> QED
    BY <2>1, <2>2, <2>3, EditTyped DEF TypeInv, TypeOK
<1>3. ASSUME NEW r \in rows, NEW s \in Statuses, SetStatus(r, s) PROVE TypeInv'
  <2> DEFINE new == [r EXCEPT !.status = s]
  <2>1. rows' = (rows \ {r}) \cup {new} /\ weak' = weak /\ Edit(s)
    BY <1>3 DEF SetStatus
  <2>2. new \in R
    BY RowTyped
  <2> HIDE DEF new
  <2>3. IsFiniteSet(rows')
    BY <2>1, FS_RemoveElement, FS_AddElement DEF TypeInv
  <2>4. rows' \subseteq R
    BY <2>1, <2>2 DEF TypeInv, TypeOK
  <2>5. lost' \subseteq Title
    BY <1>3, RowTyped, BaseTyped DEF SetStatus, TypeInv, TypeOK
  <2> QED
    BY <2>1, <2>3, <2>4, <2>5, EditTyped DEF TypeInv, TypeOK
<1>4. ASSUME NEW n \in Own, Enter(n) PROVE TypeInv'
  <2>1. PICK k \in Nat \ {0} : rows' = rows \cup {Row(Plain(n), k)}
    BY <1>4, EnterTyped
  <2>2. weak' = weak /\ Edit("enter") /\ lost' = lost \cup Repeated(Plain(n))
    BY <1>4 DEF Enter
  <2>3. Row(Plain(n), k) \in R /\ Repeated(Plain(n)) \subseteq Title
    BY PlainTyped DEF Row, Statuses, Names, Repeated
  <2>4. IsFiniteSet(rows')
    BY <2>1, FS_AddElement DEF TypeInv
  <2> QED
    BY <2>1, <2>2, <2>3, <2>4, EditTyped DEF TypeInv, TypeOK
<1>5. ASSUME NEW n \in Topics, Quiz(n) PROVE TypeInv'
  <2>1. weak' \subseteq Topics /\ UNCHANGED <<rows, lost>> /\ Edit("quiz")
    BY <1>5 DEF Quiz, TypeInv, TypeOK
  <2> QED
    BY <2>1, EditTyped DEF TypeInv, TypeOK
<1>6. ASSUME NEW r \in rows, NEW n \in Own, Rename(r, n) PROVE TypeInv'
  <2>1. PICK x : /\ rows' = (rows \ {r}) \cup {x}
                 /\ x.title = Plain(n) /\ x.status = r.status /\ x \in R
    BY <1>6, RenameTyped
  <2>2. weak' = weak /\ Edit("rename") /\ lost' = lost \cup Repeated(Plain(n)) \cup Gone(r)
    BY <1>6 DEF Rename
  <2>3. Repeated(Plain(n)) \subseteq Title
    BY PlainTyped DEF Names, Repeated
  <2>4. lost' \subseteq Title
    BY <2>2, <2>3, GoneTyped DEF TypeInv, TypeOK
  <2>5. IsFiniteSet(rows')
    BY <2>1, FS_RemoveElement, FS_AddElement DEF TypeInv
  <2> QED
    BY <2>1, <2>2, <2>4, <2>5, EditTyped DEF TypeInv, TypeOK
<1>7. CASE UNCHANGED vars
  BY <1>7 DEF vars, TypeInv, TypeOK
<1> QED
  BY <1>1, <1>2, <1>3, <1>4, <1>5, <1>6, <1>7 DEF Next

\* The course starts in TypeInv.
LEMMA TypeInvInit == Init => TypeInv
<1> SUFFICES ASSUME Init PROVE TypeInv
  OBVIOUS
<1>1. PICK copies \in Copies :
        rows = UNION {{Row(Plain(n), k) : k \in 1..copies[n]} : n \in Own}
  BY DEF Init
<1> copies \in [Own -> Nat]
  BY BoundsAssumption DEF BoundsAssumption
<1>2. \A n \in Own : \A k \in 1..copies[n] :
        Row(Plain(n), k) \in [title : Title, status : Statuses, copy : Nat \ {0}]
  BY PlainTyped DEF Row, Statuses, Names
<1>3. IsFiniteSet(rows)
  <2> DEFINE these(n) == {Row(Plain(n), k) : k \in 1..copies[n]}
             all == [n \in Own |-> these(n)]
  <2>1. rows = UNION {all[n] : n \in Own}
    BY <1>1
  <2>2. IsFiniteSet(Own)
    <3>1. Own \in SUBSET Names
      BY DEF Names
    <3> QED
      BY <3>1, NamesAssumption, FS_Subset DEF NamesAssumption
  <2>3. ASSUME NEW n \in Own PROVE IsFiniteSet(all[n])
    <3> DEFINE f == [k \in 1..copies[n] |-> Row(Plain(n), k)]
    <3>1. all[n] = {f[k] : k \in 1..copies[n]}
      OBVIOUS
    <3>2. IsFiniteSet(1..copies[n])
      BY BoundsAssumption, FS_Interval DEF BoundsAssumption
    <3> HIDE DEF f, all
    <3> QED
      BY <3>1, <3>2, FiniteImage
  <2> HIDE DEF all
  <2>4. IsFiniteSet({all[n] : n \in Own})
    BY <2>2, FiniteImage
  <2> QED
    BY <2>1, <2>3, <2>4, FS_UNION
<1>4. \A t \in DOMAIN planned : t \in Title /\ planned[t] \in Nat \ {0}
  BY DEF Init
<1>5. calm \in {"no", "part", "all"} /\ lost \subseteq Title /\ weak \subseteq Topics
  BY PlainTyped DEF Init, Names
<1>6. plans \in 0..MaxPlans /\ edits \in 0..MaxEdits
  BY BoundsAssumption DEF Init, BoundsAssumption
<1> QED
  BY <1>1, <1>2, <1>3, <1>4, <1>5, <1>6 DEF TypeInv, TypeOK

\* Every state of the course satisfies TypeInv.
LEMMA TypeInvKept == Spec => []TypeInv
BY TypeInvInit, TypeInvStep, PTL DEF Spec

\* Every state of the course has its types, whatever depths a design states:
\* in particular every title is planned for at least one session.
THEOREM Typing == Spec => []TypeOK
BY TypeInvKept, PTL DEF TypeInv

-----------------------------------------------------------------------------
(* No task twice. *)

\* A title is an exam's as its base is.
LEMMA SameExam ==
  ASSUME NEW t \in Title PROVE Exam(Base(t)) <=> Exam(t)
BY BaseTyped DEF Exam

\* At most one task of a title that has not been lost count of is on.
LEMMA OneKnown ==
  ASSUME TypeInv, NoTaskTwice, NEW t, ~Miscounted(Base(t))
  PROVE  Known(t) = {} \/ \E r \in rows : Known(t) = {r} /\ r.title = t /\ r.status # "skipped"
<1>1. \A r, s \in Known(t) : r = s
  BY DEF NoTaskTwice, Known
<1> QED
  BY <1>1 DEF Known

\* _calendar_events: the title of a session or deadline goes to the one task
\* that has it, or to one new task.
LEMMA ApproveOnce ==
  ASSUME TypeInv, NoTaskTwice, NEW scope \in Scopes, NEW depth \in DepthsOf(scope),
         Approve(scope, depth)
  PROVE  NoTaskTwice'
<1> DEFINE sessions == SessionTitles(scope, depth)
<1>1. sessions \subseteq Title /\ rows' \in Written(sessions) /\ lost' = lost
  BY PlanTyped, SessionsTyped DEF Approve
<1> HIDE DEF sessions
<1>2. SUFFICES ASSUME NEW r \in rows', NEW s \in rows', r.title = s.title,
                      "skipped" \notin {r.status, s.status}, ~Miscounted(Base(r.title))
               PROVE  r = s
  BY <1>1 DEF NoTaskTwice, Miscounted
<1> DEFINE t == r.title
<1>3. \A x \in rows' : x.title = t =>
        \/ x \in rows
        \/ \E y \in rows : t \in EventTitles(sessions) /\ y \in Known(t) /\ x = ToDoAgain(y)
        \/ /\ t \in EventTitles(sessions) /\ Known(t) = {}
           /\ \E n \in Unused(t, Events(t, sessions)) : x = Row(t, n)
  <2> SUFFICES ASSUME NEW x \in rows', x.title = t, x \notin rows
               PROVE  \/ \E y \in rows : t \in EventTitles(sessions) /\ y \in Known(t) /\ x = ToDoAgain(y)
                      \/ /\ t \in EventTitles(sessions) /\ Known(t) = {}
                         /\ \E n \in Unused(t, Events(t, sessions)) : x = Row(t, n)
    OBVIOUS
  <2>1. \/ \E y \in rows : y.title \in EventTitles(sessions) /\ y.status # "skipped" /\ x = ToDoAgain(y)
        \/ \E u \in EventTitles(sessions) :
             Known(u) = {} /\ \E n \in Unused(u, Events(u, sessions)) : x = Row(u, n)
    BY <1>1, WrittenRows
  <2>2. \A y \in rows : ToDoAgain(y).title = y.title
    BY RowTyped DEF ToDoAgain
  <2>3. \A u, n : Row(u, n).title = u
    BY DEF Row
  <2> QED
    BY <2>1, <2>2, <2>3 DEF Known
<1>4. CASE t \notin EventTitles(sessions)
  BY <1>2, <1>3, <1>4 DEF NoTaskTwice
<1>5. CASE t \in EventTitles(sessions) /\ Known(t) = {}
  <2>1. t \in Title /\ ~Exam(t)
    <3>1. t \in Title
      BY <1>1, <1>5, RowTyped DEF EventTitles, Deadlines
    <3> QED
      BY <1>2, <3>1, SameExam DEF Miscounted
  <2>2. Events(t, sessions) = 1
    <3>1. t \in sessions
      BY <1>5, <2>1 DEF EventTitles, Deadlines
    <3> QED
      BY <2>1, <3>1, EventsTyped
  <2>3. PICK n : Unused(t, 1) = {n}
    BY UnusedTyped
  <2>4. \A x \in rows' : x.title = t /\ x.status # "skipped" => x = Row(t, n)
    BY <1>3, <1>5, <2>2, <2>3 DEF Known
  <2> QED
    BY <1>2, <2>4
<1>6. CASE t \in EventTitles(sessions) /\ Known(t) # {}
  <2>1. PICK y \in rows : Known(t) = {y} /\ y.title = t
    BY <1>2, <1>6, OneKnown
  <2>2. y \in rows' => y = ToDoAgain(y)
    <3>1. y \in rows' => y.status = "todo"
      BY <1>1, <1>6, <2>1, WrittenRows
    <3> QED
      BY <3>1, RowTyped DEF ToDoAgain
  <2>3. \A x \in rows' : x.title = t /\ x.status # "skipped" => x = ToDoAgain(y)
    BY <1>3, <1>6, <2>1, <2>2 DEF Known
  <2> QED
    BY <1>2, <2>3
<1> QED
  BY <1>4, <1>5, <1>6

\* A task the student puts beside another of its title is one too many, and
\* the code loses count of the title.
LEMMA BesideAnother ==
  ASSUME NoTaskTwice, NEW n \in Own, NEW old \in SUBSET rows, NEW x, x.title = Plain(n),
         rows' = old \cup {x}, lost \subseteq lost', Repeated(Plain(n)) \subseteq lost'
  PROVE  NoTaskTwice'
<1>1. SUFFICES ASSUME NEW r \in rows', NEW s \in rows', r.title = s.title, r # s,
                      "skipped" \notin {r.status, s.status}
               PROVE  Miscounted(Base(r.title))'
  BY DEF NoTaskTwice
<1>2. Base(Plain(n)) = Plain(n)
  BY DEF Base, Plain
<1>3. CASE r \in old /\ s \in old
  BY <1>1, <1>3 DEF NoTaskTwice, Miscounted
<1>4. CASE r = x \/ s = x
  <2>1. Plain(n) \in Repeated(Plain(n)) /\ r.title = Plain(n)
    BY <1>1, <1>4 DEF Repeated
  <2> QED
    BY <1>2, <2>1 DEF Miscounted
<1> QED
  BY <1>3, <1>4

\* NoTaskTwice is inductive, given the types.
LEMMA OnceStep == TypeInv /\ NoTaskTwice /\ [Next]_vars => NoTaskTwice'
<1> SUFFICES ASSUME TypeInv, NoTaskTwice, [Next]_vars PROVE NoTaskTwice'
  OBVIOUS
<1>1. ASSUME NEW scope \in Scopes, NEW depth \in DepthsOf(scope), Approve(scope, depth)
      PROVE  NoTaskTwice'
  BY <1>1, ApproveOnce
<1>2. ASSUME NEW r \in rows, Delete(r) PROVE NoTaskTwice'
  <2>1. rows' = rows \ {r} /\ lost \subseteq lost'
    BY <1>2 DEF Delete
  <2> QED
    BY <2>1 DEF NoTaskTwice, Miscounted
<1>3. ASSUME NEW r \in rows, NEW status \in Statuses, SetStatus(r, status) PROVE NoTaskTwice'
  <2> DEFINE new == [r EXCEPT !.status = status]
  <2>1. rows' = (rows \ {r}) \cup {new} /\ lost \subseteq lost'
    BY <1>3 DEF SetStatus
  <2>2. new.title = r.title /\ new.status = status
    BY RowTyped
  <2>3. BackTwice(r) => Base(r.title) \in lost'
    BY <1>3 DEF SetStatus
  <2> HIDE DEF new
  <2>4. ASSUME NEW s \in rows, s # r, s.title = r.title, s.status # "skipped", status # "skipped"
        PROVE  Miscounted(Base(r.title))'
    <3>1. CASE r.status = "skipped"
      <4>1. s \in Known(r.title)
        BY <2>4 DEF Known
      <4> QED
        BY <2>3, <3>1, <4>1 DEF BackTwice, Miscounted
    <3>2. CASE r.status # "skipped"
      BY <2>1, <2>4, <3>2 DEF NoTaskTwice, Miscounted
    <3> QED
      BY <3>1, <3>2
  <2>5. ASSUME NEW x \in rows', NEW y \in rows', x.title = y.title, x # y,
               "skipped" \notin {x.status, y.status}
        PROVE  Miscounted(Base(x.title))'
    <3>1. CASE x \in rows /\ y \in rows
      BY <2>1, <2>5, <3>1 DEF NoTaskTwice, Miscounted
    <3>2. CASE x = new /\ y \in rows /\ y # r
      BY <2>2, <2>4, <2>5, <3>2
    <3>3. CASE y = new /\ x \in rows /\ x # r
      BY <2>2, <2>4, <2>5, <3>3
    <3> QED
      BY <2>1, <2>5, <3>1, <3>2, <3>3
  <2> QED
    BY <2>5 DEF NoTaskTwice
<1>4. ASSUME NEW n \in Own, Enter(n) PROVE NoTaskTwice'
  <2>1. PICK k \in Nat \ {0} : rows' = rows \cup {Row(Plain(n), k)}
    BY <1>4, EnterTyped
  <2>2. Row(Plain(n), k).title = Plain(n)
    BY DEF Row
  <2>3. lost' = lost \cup Repeated(Plain(n))
    BY <1>4 DEF Enter
  <2>4. rows \subseteq rows /\ lost \subseteq lost' /\ Repeated(Plain(n)) \subseteq lost'
    BY <2>3
  <2> QED
    BY <2>1, <2>2, <2>4, BesideAnother
<1>5. ASSUME NEW n \in Topics, Quiz(n) PROVE NoTaskTwice'
  BY <1>5 DEF Quiz, NoTaskTwice, Miscounted
<1>6. ASSUME NEW r \in rows, NEW n \in Own, Rename(r, n) PROVE NoTaskTwice'
  <2>1. PICK x : rows' = (rows \ {r}) \cup {x} /\ x.title = Plain(n)
    BY <1>6, RenameTyped
  <2>2. lost \subseteq lost' /\ Repeated(Plain(n)) \subseteq lost'
    BY <1>6 DEF Rename
  <2>3. rows \ {r} \subseteq rows
    OBVIOUS
  <2> QED
    BY <2>1, <2>2, <2>3, BesideAnother
<1>7. CASE UNCHANGED vars
  BY <1>7 DEF vars, NoTaskTwice, Miscounted
<1> QED
  BY <1>1, <1>2, <1>3, <1>4, <1>5, <1>6, <1>7 DEF Next

\* Of a title the student has several tasks of the code has lost count.
LEMMA OnceInit == Init => NoTaskTwice
<1> SUFFICES ASSUME Init PROVE NoTaskTwice
  OBVIOUS
<1>1. PICK copies \in Copies :
        /\ rows = UNION {{Row(Plain(n), k) : k \in 1..copies[n]} : n \in Own}
        /\ lost = {Plain(n) : n \in {m \in Own : copies[m] > 1}}
  BY DEF Init
<1> copies \in [Own -> Nat]
  BY BoundsAssumption DEF BoundsAssumption
<1>2. SUFFICES ASSUME NEW r \in rows, NEW s \in rows, r.title = s.title, r # s
               PROVE  Base(r.title) \in lost
  BY DEF NoTaskTwice, Miscounted
<1>3. PICK n \in Own : \E k \in 1..copies[n] : r = Row(Plain(n), k)
  BY <1>1
<1>4. PICK m \in Own : \E k \in 1..copies[m] : s = Row(Plain(m), k)
  BY <1>1
<1>5. n = m /\ r.title = Plain(n)
  BY <1>2, <1>3, <1>4 DEF Row, Plain
<1>6. copies[n] > 1
  <2>1. PICK k \in 1..copies[n] : r = Row(Plain(n), k)
    BY <1>3
  <2>2. PICK l \in 1..copies[n] : s = Row(Plain(n), l)
    BY <1>4, <1>5
  <2>3. k # l
    BY <1>2, <2>1, <2>2
  <2>4. copies[n] \in Nat
    BY BoundsAssumption DEF BoundsAssumption
  <2> QED
    BY <2>3, <2>4
<1>7. Base(Plain(n)) = Plain(n)
  BY DEF Base, Plain
<1> QED
  BY <1>1, <1>5, <1>6, <1>7

\* "Convert approved events into idempotent task updates": however often plans
\* are made, in whatever depths, and whatever the student does between them,
\* no task is on twice, unless the student took up one that was skipped, or
\* gave two tasks one title.
THEOREM NoTaskIsTwice == Spec => []NoTaskTwice
BY OnceInit, OnceStep, TypeInvKept, PTL DEF Spec

-----------------------------------------------------------------------------
(* Where the rules plan and the names of tasks, slide decks and topics are *)
(* apart, the title of a piece of work tells how many sessions it has.     *)

RulesPlan  == Depths = {}
NamesApart ==
  Own \cap (Materials \cup Topics) = {} /\ Materials \cap Topics = {}

\* The titles work goes by before its sessions are numbered.
OwnTitles == {Plain(n) : n \in Own}
Studies   == {With("Study", Plain(m)) : m \in Materials}
Reviews   == {With("Review", Plain(n)) : n \in Topics}
Works     == OwnTitles \cup Studies \cup Reviews

\* How many sessions the work of a title has, and what they are called.
Size(t) == IF t \in Studies THEN Sessions[t.name] ELSE IF t \in Reviews THEN 2 ELSE 1
Kit(t)  == {Numbered(t, k, Size(t)) : k \in 1..Size(t)}

\* Exams aside, a task is a session of some work, and one of those it was
\* first planned with as long as the code has not lost count of them.
InKit(r) ==
  ~Exam(r.title) =>
    /\ Base(r.title) \in Works
    /\ Base(r.title) \notin lost => r.title \in Kit(Base(r.title))

\* A task of the student's is there once, unless the code has lost count of it.
OwnOnce ==
  \A r, s \in rows :
    r.title = s.title /\ r.title \in OwnTitles /\ ~Miscounted(r.title) => r = s

\* The sessions of a review are all there, and none is skipped.
ReviewsWhole ==
  \A r \in rows : Base(r.title) \in Reviews /\ ~Miscounted(Base(r.title)) =>
    /\ r.status # "skipped"
    /\ \A t \in Kit(Base(r.title)) : \E s \in rows : s.title = t

\* After a plan of everything the sessions of all there is to study and to
\* review are still to do.
AllToDo ==
  calm = "all" =>
    \A t \in Studies \cup {With("Review", Plain(n)) : n \in weak} :
      ~Miscounted(t) => Kit(t) \subseteq Todo

\* The last plan had the sessions of each piece of work.
PlannedWhole ==
  calm # "no" => \A t \in DOMAIN planned : ~Miscounted(t) => t \in Works /\ planned[t] = Size(t)

KitInv ==
  /\ \A r \in rows : InKit(r)
  /\ OwnOnce /\ ReviewsWhole /\ AllToDo /\ PlannedWhole

\* What the title of a piece of work says of it.
LEMMA WorkTyped ==
  ASSUME NamesApart, NEW t \in Works
  PROVE  /\ t \in Title /\ t.marks = <<>> /\ Base(t) = t
         /\ t \in OwnTitles => /\ t.verbs = <<>> /\ t.name \in Own
                               /\ t \notin Studies /\ t \notin Reviews
         /\ t \in Studies => /\ t.verbs = <<"Study">> /\ t.name \in Materials
                             /\ t \notin Reviews
         /\ t \in Reviews => /\ t.verbs = <<"Review">> /\ t.name \in Topics
                             /\ t \notin Studies
<1>1. \A n \in Own : Plain(n) \in Title /\ Plain(n).marks = <<>>
                     /\ Plain(n).verbs = <<>> /\ Plain(n).name = n
  BY PlainTyped DEF Plain, Names
<1>2. \A m \in Materials : LET u == With("Study", Plain(m)) IN
        u \in Title /\ u.marks = <<>> /\ u.verbs = <<"Study">> /\ u.name = m
  <2> SUFFICES ASSUME NEW m \in Materials
               PROVE  LET u == With("Study", Plain(m)) IN
                      u \in Title /\ u.marks = <<>> /\ u.verbs = <<"Study">> /\ u.name = m
    OBVIOUS
  <2>1. Plain(m) \in Title /\ "Study" \in Verbs
    BY PlainTyped DEF Names, Verbs
  <2>2. Plain(m).marks = <<>> /\ Plain(m).verbs = <<>> /\ Plain(m).name = m
    BY DEF Plain
  <2>3. <<"Study">> \o <<>> = <<"Study">>
    OBVIOUS
  <2> QED
    BY <2>1, <2>2, <2>3, WithTyped
<1>3. \A n \in Topics : LET u == With("Review", Plain(n)) IN
        u \in Title /\ u.marks = <<>> /\ u.verbs = <<"Review">> /\ u.name = n
  <2> SUFFICES ASSUME NEW n \in Topics
               PROVE  LET u == With("Review", Plain(n)) IN
                      u \in Title /\ u.marks = <<>> /\ u.verbs = <<"Review">> /\ u.name = n
    OBVIOUS
  <2>1. Plain(n) \in Title /\ "Review" \in Verbs
    BY PlainTyped DEF Names, Verbs
  <2>2. Plain(n).marks = <<>> /\ Plain(n).verbs = <<>> /\ Plain(n).name = n
    BY DEF Plain
  <2>3. <<"Review">> \o <<>> = <<"Review">>
    OBVIOUS
  <2> QED
    BY <2>1, <2>2, <2>3, WithTyped
<1>4. \A u \in OwnTitles : u \in Title /\ u.marks = <<>> /\ u.verbs = <<>> /\ u.name \in Own
  BY <1>1 DEF OwnTitles
<1>5. \A u \in Studies : u \in Title /\ u.marks = <<>> /\ u.verbs = <<"Study">> /\ u.name \in Materials
  BY <1>2 DEF Studies
<1>6. \A u \in Reviews : u \in Title /\ u.marks = <<>> /\ u.verbs = <<"Review">> /\ u.name \in Topics
  BY <1>3 DEF Reviews
<1>7. Own \cap Materials = {} /\ Own \cap Topics = {} /\ Materials \cap Topics = {}
  BY DEF NamesApart
<1>8. t \in Title /\ t.marks = <<>> /\ Base(t) = t
  BY <1>4, <1>5, <1>6 DEF Works, Base
<1> QED
  BY <1>4, <1>5, <1>6, <1>7, <1>8

\* A piece of work has at least one session, and its sessions are recognised.
LEMMA KitTyped ==
  ASSUME NamesApart, NEW t \in Works
  PROVE  /\ Size(t) \in Nat \ {0}
         /\ \A u \in Kit(t) : u \in Title /\ Base(u) = t /\ u.name = t.name
         /\ t \in OwnTitles => Kit(t) = {t} /\ Size(t) = 1
<1>1. Size(t) \in Nat \ {0}
  BY WorkTyped, DepthsAssumption DEF Size, DepthsAssumption
<1>2. ASSUME NEW u \in Kit(t) PROVE u \in Title /\ Base(u) = t /\ u.name = t.name
  <2>1. PICK k \in 1..Size(t) : u = Numbered(t, k, Size(t))
    BY DEF Kit
  <2>2. k \in Nat /\ Size(t) \in Nat /\ t \in Title /\ t.marks = <<>>
    BY <1>1, WorkTyped
  <2> QED
    BY <2>1, <2>2, NumberedTyped, BaseOfNumbered
<1>3. t \in OwnTitles => Kit(t) = {t} /\ Size(t) = 1
  <2> SUFFICES ASSUME t \in OwnTitles PROVE Kit(t) = {t} /\ Size(t) = 1
    OBVIOUS
  <2>1. Size(t) = 1
    BY WorkTyped DEF Size
  <2>2. \A k : Numbered(t, k, 1) = t
    BY DEF Numbered
  <2> QED
    BY <2>1, <2>2 DEF Kit
<1> QED
  BY <1>1, <1>2, <1>3

\* There are at most as many open sessions of a piece of work as it has.
LEMMA CountAtMost ==
  ASSUME NamesApart, TypeInv, NoTaskTwice, \A r \in rows : InKit(r),
         NEW t \in Works, ~Miscounted(t)
  PROVE  Count(t) \in Nat /\ Count(t) <= Size(t)
<1> DEFINE open == {r \in rows : r.status = "todo" /\ Base(r.title) = t}
           f    == [r \in open |-> CHOOSE k \in 1..Size(t) : r.title = Numbered(t, k, Size(t))]
<1>1. \A r \in open : r.title \in Kit(t)
  <2> SUFFICES ASSUME NEW r \in open PROVE r.title \in Kit(t)
    OBVIOUS
  <2>1. ~Exam(r.title)
    BY RowTyped, SameExam DEF Miscounted
  <2> QED
    BY <2>1 DEF InKit, Miscounted
<1>2. \A r \in open : f[r] \in 1..Size(t) /\ r.title = Numbered(t, f[r], Size(t))
  BY <1>1 DEF Kit
<1> HIDE DEF f
<1>3. \A r, s \in open : f[r] = f[s] => r = s
  <2> SUFFICES ASSUME NEW r \in open, NEW s \in open, f[r] = f[s] PROVE r = s
    OBVIOUS
  <2>1. r.title = s.title
    BY <1>2
  <2> QED
    BY <2>1 DEF NoTaskTwice
<1>4. f \in Injection(open, 1..Size(t))
  <2>1. f = [r \in open |-> f[r]]
    BY DEF f
  <2> QED
    BY <1>2, <1>3, <2>1 DEF Injection, IsInjective
<1>5. Size(t) \in Nat /\ IsFiniteSet(1..Size(t)) /\ Cardinality(1..Size(t)) = Size(t)
  BY KitTyped, FS_Interval
<1> HIDE DEF open
<1>6. Cardinality(open) <= Size(t)
  BY <1>4, <1>5, FS_Injection
<1> QED
  BY <1>6, CountTyped DEF TypeInv, Count, open

\* A review that is not finished has both its sessions to do.
LEMMA ReviewToDo ==
  ASSUME NamesApart, TypeInv, NoTaskTwice, KitInv,
         NEW t \in Reviews, ~Miscounted(t), t \in Grouped
  PROVE  Kit(t) \subseteq Todo /\ Count(t) = 2
<1>1. t \in Works /\ Size(t) = 2
  BY WorkTyped DEF Works, Size
<1>2. PICK r \in rows : r.status = "todo" /\ Base(r.title) = t
  BY DEF Grouped, Todo, Titled
<1>3. ASSUME NEW u \in Kit(t)
      PROVE  \E s \in rows : s.title = u /\ s.status = "todo" /\ Base(s.title) = t
  <2>1. PICK s \in rows : s.title = u
    BY <1>2, <1>3 DEF KitInv, ReviewsWhole
  <2>2. Base(s.title) = t
    BY <1>1, <2>1, KitTyped
  <2>3. s.status # "skipped"
    BY <2>2 DEF KitInv, ReviewsWhole
  <2>4. s.status # "done"
    <3>1. ~Completed(t) /\ Base(t) = t
      BY <1>1, WorkTyped DEF Grouped
    <3> QED
      BY <2>2, <3>1 DEF Completed, Done, Titled
  <2> QED
    BY <2>1, <2>2, <2>3, <2>4, RowTyped DEF Statuses
<1>4. Kit(t) \subseteq Todo
  BY <1>3 DEF Todo, Titled
<1>5. Count(t) >= 2
  <2> DEFINE open == {x \in rows : x.status = "todo" /\ Base(x.title) = t}
             u1 == Numbered(t, 1, 2)
             u2 == Numbered(t, 2, 2)
  <2>1. u1 \in Kit(t) /\ u2 \in Kit(t)
    <3>1. 1 \in 1..2 /\ 2 \in 1..2
      OBVIOUS
    <3> QED
      BY <1>1, <3>1 DEF Kit
  <2>2. u1 # u2
    <3>1. t \in Title /\ t.marks = <<>>
      BY <1>1, WorkTyped
    <3>2. \A k : Numbered(t, k, 2).marks = Append(t.marks, [k |-> k, n |-> 2])
      BY <3>1 DEF Numbered, Title
    <3>m. \A k : Append(<<>>, [k |-> k, n |-> 2]) = <<[k |-> k, n |-> 2]>>
      OBVIOUS
    <3>3. \A k : Numbered(t, k, 2).marks = <<[k |-> k, n |-> 2]>>
      BY <3>1, <3>2, <3>m
    <3>4. <<[k |-> 1, n |-> 2]>> # <<[k |-> 2, n |-> 2]>>
      OBVIOUS
    <3> QED
      BY <3>3, <3>4
  <2>3. PICK r1 \in open : r1.title = u1
    BY <1>3, <2>1
  <2>4. PICK r2 \in open : r2.title = u2
    BY <1>3, <2>1
  <2>5. r1 # r2
    BY <2>2, <2>3, <2>4
  <2>6. IsFiniteSet(open) /\ Cardinality(open) \in Nat
    <3>1. open \in SUBSET rows
      OBVIOUS
    <3> QED
      BY <3>1, FS_Subset, FS_CardinalityType DEF TypeInv
  <2>7. Cardinality(open) # 0
    BY <2>3, <2>6, FS_EmptySet
  <2>8. Cardinality(open) # 1
    BY <2>3, <2>4, <2>5, <2>6, FS_Singleton
  <2> HIDE DEF open
  <2>9. Cardinality(open) >= 2
    BY <2>6, <2>7, <2>8
  <2> QED
    BY <2>9 DEF open, Count
<1>6. Count(t) \in Nat /\ Count(t) <= 2
  BY <1>1, CountAtMost DEF KitInv
<1> QED
  BY <1>4, <1>5, <1>6

\* A preparation is an exam itself, by its name.
LEMMA PreparationIsExam ==
  ASSUME TypeInv, NEW c \in Preparation
  PROVE  Exam(c.title)
<1>1. PICK d \in ToPrepare : c = Item(With("Prepare for", d), Larger(2, Effort(1, d)))
  BY DEF Preparation
<1>2. PICK r \in rows : d = r.title /\ Exam(r.title)
  BY DEF ToPrepare, Deadlines
<1>3. d \in Title /\ "Prepare for" \in Verbs
  BY <1>2, RowTyped DEF Verbs
<1>4. With("Prepare for", d).name = d.name
  BY <1>3, WithTyped
<1>5. c.title = With("Prepare for", d)
  BY <1>1 DEF Item
<1> QED
  BY <1>2, <1>4, <1>5 DEF Exam

\* _collect_candidates: exams aside, a candidate is a piece of work, and a
\* task of the student's is a candidate only while it is open.
LEMMA CandidateWork ==
  ASSUME NamesApart, TypeInv, KitInv, NEW c \in Candidates, ~Exam(c.title)
  PROVE  /\ c.title \in Works
         /\ c.title \in OwnTitles /\ ~Miscounted(c.title) =>
              \E r \in rows : r.status = "todo" /\ r.title = c.title
<1>1. CASE c \in Remaining
  <2>1. c.title \in Grouped
    BY <1>1 DEF Remaining, Item
  <2>2. PICK r \in rows : r.status = "todo" /\ Base(r.title) = c.title
    BY <2>1 DEF Grouped, Todo, Titled
  <2>3. ~Exam(r.title)
    BY <2>2, RowTyped, SameExam
  <2>4. c.title \in Works
    BY <2>2, <2>3 DEF KitInv, InKit
  <2>5. ASSUME c.title \in OwnTitles, ~Miscounted(c.title) PROVE r.title = c.title
    <3>1. c.title \notin lost
      BY <2>5 DEF Miscounted
    <3> QED
      BY <2>2, <2>3, <2>4, <2>5, <3>1, KitTyped DEF KitInv, InKit
  <2> QED
    BY <2>2, <2>4, <2>5
<1>2. CASE c \in Study
  <2>1. c.title \in Studies
    BY <1>2 DEF Study, Item, Studies
  <2> QED
    BY <2>1, WorkTyped DEF Works
<1>3. CASE c \in Revision
  <2>1. c.title \in Reviews
    BY <1>3 DEF Revision, Item, Reviews, TypeInv, TypeOK
  <2> QED
    BY <2>1, WorkTyped DEF Works
<1> QED
  BY <1>1, <1>2, <1>3, PreparationIsExam DEF Candidates

\* _effort_units: the sessions left of a piece of work are as many as it has.
LEMMA LeftOver ==
  ASSUME NamesApart, TypeInv, NoTaskTwice, KitInv, NEW t \in Grouped, t \in Works, ~Miscounted(t)
  PROVE  Larger(Count(t), Effort(Pages(t), t)) = Size(t)
<1>1. Count(t) \in Nat /\ Count(t) <= Size(t) /\ Size(t) \in Nat \ {0}
  BY CountAtMost, KitTyped DEF KitInv
<1>2. weak \subseteq Topics
  BY DEF TypeInv, TypeOK
<1>3. CASE t \in OwnTitles
  <2>1. t.name \in Own /\ t.name \notin Materials /\ t.name \notin weak /\ Size(t) = 1
    BY <1>2, <1>3, WorkTyped, KitTyped DEF NamesApart
  <2>2. Effort(Pages(t), t) = 1
    BY <2>1 DEF Pages, Effort
  <2> QED
    BY <1>1, <2>1, <2>2 DEF Larger
<1>4. CASE t \in Studies
  <2>1. /\ t.name \in Materials /\ t.name \notin weak
        /\ t.verbs = <<"Study">> /\ t.marks = <<>>
    BY <1>2, <1>4, WorkTyped DEF NamesApart
  <2>2. Pages(t) = Sessions[t.name] /\ Size(t) = Sessions[t.name]
    BY <1>4, <2>1 DEF Pages, Size
  <2>3. Effort(Pages(t), t) = Size(t)
    BY <2>1, <2>2 DEF Effort
  <2> QED
    BY <1>1, <2>3 DEF Larger
<1>5. CASE t \in Reviews
  <2>1. t.name \in Topics /\ t.name \notin Materials /\ Size(t) = 2
    BY <1>5, WorkTyped DEF NamesApart, Size
  <2>2. Pages(t) = 1
    BY <2>1 DEF Pages
  <2>3. Effort(1, t) \in {1, 2}
    BY DEF Effort
  <2>4. Count(t) = 2
    BY <1>5, ReviewToDo
  <2> QED
    BY <2>1, <2>2, <2>3, <2>4 DEF Larger
<1> QED
  BY <1>3, <1>4, <1>5 DEF Works

\* Every candidate the code has not lost count of has the effort of its work.
LEMMA EffortIsSize ==
  ASSUME NamesApart, TypeInv, NoTaskTwice, KitInv, NEW c \in Candidates, ~Miscounted(c.title)
  PROVE  c.effort = Size(c.title)
<1>1. c.title \in Works /\ ~Exam(c.title)
  BY CandidateWork DEF Miscounted
<1>2. CASE c \in Remaining
  <2>1. PICK b \in Grouped : c = Item(b, Larger(Count(b), Effort(Pages(b), b)))
    BY <1>2 DEF Remaining
  <2>2. c.title = b /\ c.effort = Larger(Count(b), Effort(Pages(b), b))
    BY <2>1 DEF Item
  <2> QED
    BY <1>1, <2>1, <2>2, LeftOver
<1>3. CASE c \in Study
  <2>1. PICK m \in Materials : c = Item(With("Study", Plain(m)), Effort(Sessions[m], Plain(m)))
    BY <1>3 DEF Study
  <2>2. c.title = With("Study", Plain(m)) /\ c.effort = Effort(Sessions[m], Plain(m))
    BY <2>1 DEF Item
  <2>3. c.title \in Studies
    BY <2>2 DEF Studies
  <2>4. c.title.name = m
    BY <2>2 DEF With, Plain
  <2>5. Plain(m).name \notin weak
    BY DEF Plain, NamesApart, TypeInv, TypeOK
  <2> QED
    BY <2>2, <2>3, <2>4, <2>5 DEF Effort, Size
<1>4. CASE c \in Revision
  <2>1. PICK n \in weak : c = Item(With("Review", Plain(n)), Effort(1, Plain(n)))
    BY <1>4 DEF Revision
  <2>2. c.title = With("Review", Plain(n)) /\ c.effort = Effort(1, Plain(n))
    BY <2>1 DEF Item
  <2>3. c.title \in Reviews
    BY <2>2 DEF Reviews, TypeInv, TypeOK
  <2>4. Size(c.title) = 2
    BY <1>1, <2>3, WorkTyped DEF Size
  <2>5. Plain(n).name \in weak
    BY DEF Plain
  <2>6. Effort(1, Plain(n)) = 2
    BY <2>5 DEF Effort
  <2> QED
    BY <2>2, <2>4, <2>6
<1> QED
  BY <1>1, <1>2, <1>3, <1>4, PreparationIsExam DEF Candidates

-----------------------------------------------------------------------------
(* The sessions of a plan the rules make. *)

\* The rules give every candidate its effort.
LEMMA RulesDepth ==
  ASSUME RulesPlan, TypeInv, NEW scope \in Scopes, NEW depth \in DepthsOf(scope)
  PROVE  \A c \in scope : depth[c] = c.effort
<1>1. DepthsOf(scope) =
        UNION {{[c \in scope |-> IF c \in designed THEN f[c] ELSE c.effort] :
                  f \in [designed -> Depths]} : designed \in {{}}}
  BY DEF DepthsOf, RulesPlan
<1>2. \E f : depth = [c \in scope |-> IF c \in {} THEN f[c] ELSE c.effort]
  BY <1>1
<1> QED
  BY <1>2

\* _assemble: exams aside, the sessions are of pieces of work that are
\* candidates, and of each one that is counted they are all there.
LEMMA SessionsInKit ==
  ASSUME RulesPlan, NamesApart, TypeInv, NoTaskTwice, KitInv,
         NEW scope \in Scopes, NEW depth \in DepthsOf(scope)
  PROVE  LET sessions == SessionTitles(scope, depth) IN
         /\ \A u \in sessions : ~Exam(u) =>
              \E c \in scope : Base(u) = c.title /\ c.title \in Works /\ ~Exam(c.title)
         /\ \A u \in sessions : ~Miscounted(Base(u)) => u \in Kit(Base(u))
         /\ \A c \in scope : ~Miscounted(c.title) => Kit(c.title) \subseteq sessions
<1> DEFINE sessions == SessionTitles(scope, depth)
<1>1. /\ scope \subseteq Candidates
      /\ \A c \in scope : c.title \in Title /\ depth[c] \in Nat \ {0}
      /\ sessions \subseteq Title
      /\ \A u \in sessions : \E c \in scope : \E k \in 1..depth[c] :
           u = Numbered(c.title, k, depth[c])
  BY PlanTyped, SessionsTyped
<1>2. \A c \in scope : ~Miscounted(c.title) => depth[c] = Size(c.title)
  BY <1>1, RulesDepth, EffortIsSize
<1>3. ASSUME NEW u \in sessions, ~Exam(u)
      PROVE  \E c \in scope : /\ Base(u) = c.title /\ c.title \in Works /\ ~Exam(c.title)
                              /\ ~Miscounted(c.title) => u \in Kit(c.title)
  <2>1. PICK c \in scope : \E k \in 1..depth[c] : u = Numbered(c.title, k, depth[c])
    BY <1>1, <1>3
  <2>2. PICK k \in 1..depth[c] : u = Numbered(c.title, k, depth[c])
    BY <2>1
  <2>3. k \in Nat /\ depth[c] \in Nat /\ c.title \in Title
    BY <1>1
  <2>4. ~Exam(c.title)
    BY <1>3, <2>2, <2>3, NumberedTyped DEF Exam
  <2>5. c.title \in Works
    BY <1>1, <2>4, CandidateWork
  <2>6. Base(u) = c.title
    BY <2>2, <2>3, <2>5, WorkTyped, BaseOfNumbered
  <2>7. ~Miscounted(c.title) => u \in Kit(c.title)
    BY <1>2, <2>2 DEF Kit
  <2> QED
    BY <2>4, <2>5, <2>6, <2>7
<1>4. \A u \in sessions : ~Miscounted(Base(u)) => u \in Kit(Base(u))
  <2> SUFFICES ASSUME NEW u \in sessions, ~Miscounted(Base(u)) PROVE u \in Kit(Base(u))
    OBVIOUS
  <2>1. ~Exam(u)
    BY <1>1, SameExam DEF Miscounted
  <2> QED
    BY <1>3, <2>1
<1>5. \A c \in scope : ~Miscounted(c.title) => Kit(c.title) \subseteq sessions
  BY <1>2 DEF Kit, SessionTitles
<1> QED
  BY <1>3, <1>4, <1>5

-----------------------------------------------------------------------------
(* Approving a plan the rules make. *)

\* A session is to do once its plan is approved.
LEMMA SessionsToDo ==
  ASSUME TypeInv, NoTaskTwice, NEW sessions, NEW new \in Written(sessions),
         NEW t \in sessions, t \in Title, ~Miscounted(Base(t))
  PROVE  \E x \in new : x.title = t /\ x.status = "todo"
<1>1. t \in EventTitles(sessions)
  BY DEF EventTitles
<1>2. CASE Known(t) = {}
  <2>1. Events(t, sessions) = 1
    BY EventsTyped, SameExam DEF Miscounted
  <2>2. PICK n : Unused(t, 1) = {n}
    BY UnusedTyped
  <2>3. Row(t, n) \in new
    BY <1>1, <1>2, <2>1, <2>2, WrittenRows
  <2> QED
    BY <2>3 DEF Row
<1>3. CASE Known(t) # {}
  <2>1. PICK y \in rows : Known(t) = {y} /\ y.title = t
    BY <1>3, OneKnown
  <2>2. ToDoAgain(y) \in new
    BY <1>1, <2>1, WrittenRows
  <2> QED
    BY <2>1, <2>2, RowTyped DEF ToDoAgain
<1> QED
  BY <1>2, <1>3

\* Approving a plan takes no title off the list, and brings those of the
\* sessions, to do.
LEMMA TitlesStay ==
  ASSUME TypeInv, NoTaskTwice, NEW sessions, NEW new \in Written(sessions)
  PROVE  /\ \A x \in rows : ~Miscounted(Base(x.title)) => \E y \in new : y.title = x.title
         /\ \A y \in new : y \in rows \/ y.status = "todo"
         /\ \A y \in new : (\E x \in rows : x.title = y.title) \/ y.title \in sessions
<1>1. ASSUME NEW x \in rows, ~Miscounted(Base(x.title))
      PROVE  \E y \in new : y.title = x.title
  <2>1. CASE x.status = "skipped" \/ x.title \notin EventTitles(sessions)
    BY <2>1, WrittenRows
  <2>2. CASE x.status # "skipped" /\ x.title \in EventTitles(sessions)
    <3>1. Known(x.title) = {x}
      BY <1>1, <2>2, OneKnown DEF Known
    <3>2. ToDoAgain(x) \in new
      BY <2>2, <3>1, WrittenRows
    <3> QED
      BY <3>2, RowTyped DEF ToDoAgain
  <2> QED
    BY <2>1, <2>2
<1>2. ASSUME NEW y \in new, y \notin rows
      PROVE  y.status = "todo" /\ ((\E x \in rows : x.title = y.title) \/ y.title \in sessions)
  <2>1. CASE \E x \in rows : y = ToDoAgain(x)
    BY <2>1, RowTyped DEF ToDoAgain
  <2>2. CASE \E t \in EventTitles(sessions) : \E n : y = Row(t, n)
    BY <2>2 DEF Row, EventTitles, Deadlines
  <2> QED
    BY <1>2, <2>1, <2>2, WrittenRows
<1> QED
  BY <1>1, <1>2

\* Everything there is to study or to review is a candidate.
LEMMA WorkIsCandidate ==
  ASSUME NamesApart, TypeInv, KitInv,
         NEW t \in Studies \cup {With("Review", Plain(n)) : n \in weak}, ~Miscounted(t)
  PROVE  \E c \in Candidates : c.title = t
<1>1. weak \subseteq Topics
  BY DEF TypeInv, TypeOK
<1>2. t \in Works /\ ~Exam(t)
  BY <1>1 DEF Works, Reviews, Miscounted
<1>3. CASE t \in Grouped
  <2>1. Item(t, Larger(Count(t), Effort(Pages(t), t))) \in Candidates
    BY <1>3 DEF Candidates, Remaining
  <2> QED
    BY <2>1 DEF Item
<1>4. ASSUME NEW n \in Materials \cup Topics, n \notin Assessed PROVE ~Completed(Plain(n))
  <2>1. Plain(n) \in Title /\ Plain(n).name = n /\ Plain(n).verbs = <<>> /\ Base(Plain(n)) = Plain(n)
    BY PlainTyped DEF Plain, Names, Base
  <2>2. Plain(n) \notin Works
    <3>1. Plain(n) \notin OwnTitles
      BY <2>1 DEF OwnTitles, Plain, NamesApart
    <3>2. Plain(n) \notin Studies \cup Reviews
      BY <2>1, WorkTyped DEF Works
    <3> QED
      BY <3>1, <3>2 DEF Works
  <2>3. ASSUME NEW d \in rows, Base(d.title) = Plain(n) PROVE FALSE
    <3>1. ~Exam(d.title)
      BY <1>4, <2>1, <2>3, RowTyped, BaseTyped DEF Exam
    <3> QED
      BY <2>2, <2>3, <3>1 DEF KitInv, InKit
  <2> QED
    BY <2>1, <2>3 DEF Completed, Done, Titled
<1>5. CASE t \notin Grouped /\ t \in Studies
  <2>1. PICK m \in Materials : t = With("Study", Plain(m))
    BY <1>5 DEF Studies
  <2>2. m \notin Assessed
    BY <1>2, <2>1 DEF Exam, With, Plain
  <2>3. New("Study", m)
    BY <1>4, <1>5, <2>1, <2>2 DEF New
  <2>4. Item(t, Effort(Sessions[m], Plain(m))) \in Candidates
    BY <2>1, <2>3 DEF Candidates, Study
  <2> QED
    BY <2>4 DEF Item
<1>6. CASE t \notin Grouped /\ t \in {With("Review", Plain(n)) : n \in weak}
  <2>1. PICK n \in weak : t = With("Review", Plain(n))
    BY <1>6
  <2>2. n \notin Assessed
    BY <1>2, <2>1 DEF Exam, With, Plain
  <2>3. New("Review", n)
    BY <1>1, <1>4, <1>6, <2>1, <2>2 DEF New
  <2>4. Item(t, Effort(1, Plain(n))) \in Candidates
    BY <2>1, <2>3 DEF Candidates, Revision
  <2> QED
    BY <2>4 DEF Item
<1> QED
  BY <1>3, <1>5, <1>6

\* The tasks a plan brings are sessions of some work.
LEMMA ApproveInKit ==
  ASSUME RulesPlan, NamesApart, TypeInv, NoTaskTwice, KitInv,
         NEW scope \in Scopes, NEW depth \in DepthsOf(scope), Approve(scope, depth)
  PROVE  \A r \in rows' : InKit(r)'
<1> DEFINE sessions == SessionTitles(scope, depth)
<1>1. rows' \in Written(sessions) /\ lost' = lost
  BY DEF Approve
<1>2. /\ \A u \in sessions : ~Exam(u) => \E c \in scope : Base(u) = c.title /\ c.title \in Works
      /\ \A u \in sessions : ~Miscounted(Base(u)) => u \in Kit(Base(u))
      /\ sessions \subseteq Title
  BY SessionsInKit, PlanTyped, SessionsTyped
<1> HIDE DEF sessions
<1>3. SUFFICES ASSUME NEW r \in rows', ~Exam(r.title)
               PROVE  /\ Base(r.title) \in Works
                      /\ Base(r.title) \notin lost => r.title \in Kit(Base(r.title))
  BY <1>1 DEF InKit
<1>4. CASE \E x \in rows : x.title = r.title
  BY <1>3, <1>4 DEF KitInv, InKit
<1>5. CASE r.title \in sessions
  <2>1. Base(r.title) \in Works
    BY <1>2, <1>3, <1>5
  <2>2. Base(r.title) \notin lost => ~Miscounted(Base(r.title))
    BY <1>2, <1>3, <1>5, SameExam DEF Miscounted
  <2> QED
    BY <1>2, <1>5, <2>1, <2>2
<1> QED
  BY <1>1, <1>4, <1>5, TitlesStay

\* A plan brings no second task of a title the student entered.
LEMMA ApproveOwnOnce ==
  ASSUME RulesPlan, NamesApart, TypeInv, NoTaskTwice, KitInv,
         NEW scope \in Scopes, NEW depth \in DepthsOf(scope), Approve(scope, depth)
  PROVE  OwnOnce'
<1> DEFINE sessions == SessionTitles(scope, depth)
<1>1. rows' \in Written(sessions) /\ lost' = lost
  BY DEF Approve
<1>2. /\ \A u \in sessions : ~Exam(u) => \E c \in scope : Base(u) = c.title
      /\ scope \subseteq Candidates
  BY SessionsInKit, PlanTyped
<1> HIDE DEF sessions
<1>3. ASSUME NEW t \in OwnTitles, ~Miscounted(t)
      PROVE  \A r, s \in rows' : r.title = t /\ s.title = t => r = s
  <2>x. ~Exam(t)
    BY <1>3 DEF Miscounted
  <2>1. t \in Works /\ Base(t) = t
    BY WorkTyped DEF Works
  <2>2. \A r, s \in rows : r.title = t /\ s.title = t => r = s
    BY <1>3 DEF KitInv, OwnOnce
  <2>3. t \in EventTitles(sessions) => \E y \in rows : Known(t) = {y} /\ y.title = t
    <3> SUFFICES ASSUME t \in EventTitles(sessions)
                 PROVE  \E y \in rows : Known(t) = {y} /\ y.title = t
      OBVIOUS
    <3>1. t \in sessions
      BY <2>x DEF EventTitles, Deadlines
    <3>2. PICK c \in Candidates : c.title = t
      BY <1>2, <2>x, <2>1, <3>1
    <3>3. PICK y \in rows : y.status = "todo" /\ y.title = t
      BY <1>3, <2>x, <3>2, CandidateWork
    <3> QED
      BY <2>2, <3>3 DEF Known
  <2>4. CASE t \notin EventTitles(sessions)
    <3>1. \A r \in rows' : r.title = t => r \in rows
      <4>1. \A x \in rows : ToDoAgain(x).title = x.title
        BY RowTyped DEF ToDoAgain
      <4>2. \A u, n : Row(u, n).title = u
        BY DEF Row
      <4> QED
        BY <1>1, <2>4, <4>1, <4>2, WrittenRows
    <3> QED
      BY <2>2, <3>1
  <2>5. CASE t \in EventTitles(sessions)
    <3>1. PICK y \in rows : Known(t) = {y} /\ y.title = t
      BY <2>3, <2>5
    <3>2. y \in rows' => y = ToDoAgain(y)
      <4>1. y \in rows' => y.status = "todo"
        BY <1>1, <2>5, <3>1, WrittenRows
      <4> QED
        BY <4>1, RowTyped DEF ToDoAgain
    <3>3. \A r \in rows' : r.title = t => r = ToDoAgain(y)
      <4> SUFFICES ASSUME NEW r \in rows', r.title = t PROVE r = ToDoAgain(y)
        OBVIOUS
      <4>1. CASE r \in rows
        BY <2>2, <3>1, <3>2, <4>1
      <4>2. CASE \E x \in rows : r = ToDoAgain(x)
        <5>1. PICK x \in rows : r = ToDoAgain(x)
          BY <4>2
        <5>2. x.title = t
          BY <5>1, RowTyped DEF ToDoAgain
        <5> QED
          BY <2>2, <3>1, <5>1, <5>2
      <4>3. CASE \E u : Known(u) = {} /\ \E n : r = Row(u, n)
        BY <3>1, <4>3 DEF Row
      <4> QED
        BY <1>1, <4>1, <4>2, <4>3, WrittenRows
    <3> QED
      BY <3>3
  <2> QED
    BY <2>4, <2>5
<1> QED
  BY <1>1, <1>3 DEF OwnOnce, Miscounted

\* A plan brings all the sessions of a review or none, and skips none.
LEMMA ApproveReviews ==
  ASSUME RulesPlan, NamesApart, TypeInv, NoTaskTwice, KitInv,
         NEW scope \in Scopes, NEW depth \in DepthsOf(scope), Approve(scope, depth)
  PROVE  ReviewsWhole'
<1> DEFINE sessions == SessionTitles(scope, depth)
<1>1. rows' \in Written(sessions) /\ lost' = lost
  BY DEF Approve
<1>2. /\ \A u \in sessions : ~Exam(u) => \E c \in scope : Base(u) = c.title
      /\ \A c \in scope : ~Miscounted(c.title) => Kit(c.title) \subseteq sessions
      /\ sessions \subseteq Title
  BY SessionsInKit, PlanTyped, SessionsTyped
<1> HIDE DEF sessions
<1>3. SUFFICES ASSUME NEW r \in rows', Base(r.title) \in Reviews, ~Miscounted(Base(r.title))
               PROVE  /\ r.status # "skipped"
                      /\ \A t \in Kit(Base(r.title)) : \E s \in rows' : s.title = t
  BY <1>1 DEF ReviewsWhole, Miscounted
<1> DEFINE b == Base(r.title)
<1>4. b \in Works /\ \A t \in Kit(b) : Base(t) = b /\ t \in Title
  BY <1>3, KitTyped DEF Works
<1>5. r.status # "skipped"
  BY <1>1, <1>3, TitlesStay DEF KitInv, ReviewsWhole
<1>6. CASE \E x \in rows : x.title = r.title
  <2>1. \A t \in Kit(b) : \E s \in rows : s.title = t
    BY <1>3, <1>6 DEF KitInv, ReviewsWhole
  <2>2. \A s \in rows : Base(s.title) = b => \E y \in rows' : y.title = s.title
    BY <1>1, <1>3, TitlesStay
  <2> QED
    BY <1>4, <1>5, <2>1, <2>2
<1>7. CASE r.title \in sessions
  <2>1. ~Exam(r.title)
    BY <1>2, <1>3, <1>7, SameExam DEF Miscounted
  <2>2. Kit(b) \subseteq sessions
    BY <1>2, <1>3, <1>7, <2>1
  <2>3. \A t \in Kit(b) : \E s \in rows' : s.title = t
    BY <1>1, <1>2, <1>3, <1>4, <2>2, SessionsToDo
  <2> QED
    BY <1>5, <2>3
<1> QED
  BY <1>1, <1>6, <1>7, TitlesStay

\* A plan of everything has all there is to study and to review, each piece
\* of work with all its sessions.
LEMMA ApproveAll ==
  ASSUME RulesPlan, NamesApart, TypeInv, NoTaskTwice, KitInv,
         NEW scope \in Scopes, NEW depth \in DepthsOf(scope), Approve(scope, depth)
  PROVE  AllToDo' /\ PlannedWhole'
<1> DEFINE sessions == SessionTitles(scope, depth)
<1>1. /\ rows' \in Written(sessions) /\ lost' = lost /\ weak' = weak
      /\ calm' = (IF scope = Candidates THEN "all" ELSE "part")
  BY DEF Approve
<1>2. /\ \A c \in scope : ~Miscounted(c.title) => Kit(c.title) \subseteq sessions
      /\ scope \subseteq Candidates
  BY SessionsInKit, PlanTyped
<1>3. AllToDo'
  <2> SUFFICES ASSUME scope = Candidates,
                      NEW t \in Studies \cup {With("Review", Plain(n)) : n \in weak}, ~Miscounted(t)
               PROVE  Kit(t) \subseteq Todo'
    BY <1>1 DEF AllToDo, Miscounted
  <2>1. t \in Works /\ \A u \in Kit(t) : Base(u) = t /\ u \in Title
    BY KitTyped DEF Works, Reviews, TypeInv, TypeOK
  <2>2. Kit(t) \subseteq sessions
    BY <1>2, WorkIsCandidate
  <2> HIDE DEF sessions
  <2>3. \A u \in Kit(t) : \E x \in rows' : x.title = u /\ x.status = "todo"
    BY <1>1, <2>1, <2>2, SessionsToDo
  <2> QED
    BY <2>3 DEF Todo, Titled
<1>4. PlannedWhole'
  <2> SUFFICES ASSUME NEW t \in DOMAIN planned', ~Miscounted(t)
               PROVE  t \in Works /\ planned'[t] = Size(t)
    BY <1>1 DEF PlannedWhole, Miscounted
  <2>1. PICK c \in scope : c.title = t /\ planned'[t] = depth[c]
    BY PlannedTyped
  <2>2. depth[c] = c.effort
    BY RulesDepth
  <2>3. c \in Candidates /\ ~Exam(c.title)
    BY <1>2, <2>1 DEF Miscounted
  <2> QED
    BY <2>1, <2>2, <2>3, EffortIsSize, CandidateWork
<1> QED
  BY <1>3, <1>4

-----------------------------------------------------------------------------
(* What the student does between plans. *)

\* A review has no page count: the code loses count of it with any session.
LEMMA ReviewCounted ==
  ASSUME NamesApart, TypeInv, KitInv, NEW r \in rows,
         Base(r.title) \in Reviews, ~Miscounted(Base(r.title))
  PROVE  LosesCount(r)
<1> DEFINE b == Base(r.title)
<1>1. b \in Works /\ ~Exam(r.title) /\ b \notin lost /\ Size(b) = 2
  BY RowTyped, SameExam, WorkTyped DEF Works, Miscounted, Size
<1>2. PICK k \in 1..2 : r.title = Numbered(b, k, 2)
  BY <1>1 DEF KitInv, InKit, Kit
<1>3. r.title.marks # <<>>
  <2>1. b \in Title /\ b.marks = <<>> /\ k \in Nat
    BY <1>1, WorkTyped
  <2>2. r.title.marks = Append(<<>>, [k |-> k, n |-> 2])
    <3>1. 2 \in Nat /\ 2 > 1
      OBVIOUS
    <3>2. Numbered(b, k, 2).marks = Append(b.marks, [k |-> k, n |-> 2])
      BY <2>1, <3>1, NumberedTyped
    <3> QED
      BY <1>2, <2>1, <3>2
  <2>3. Append(<<>>, [k |-> k, n |-> 2]) = <<[k |-> k, n |-> 2]>>
    OBVIOUS
  <2> QED
    BY <2>2, <2>3
<1>4. Pages(b) = 1
  BY <1>1, WorkTyped DEF Pages, NamesApart
<1> QED
  BY <1>3, <1>4 DEF LosesCount

\* What every edit keeps that adds no titles but of the student's own.
LEMMA EditKit ==
  ASSUME NamesApart, TypeInv, KitInv, calm' = "no", lost \subseteq lost',
         \A y \in rows' : y.title \in OwnTitles \/ \E x \in rows : x.title = y.title,
         OwnOnce', ReviewsWhole'
  PROVE  KitInv'
<1>1. \A y \in rows' : InKit(y)'
  <2> SUFFICES ASSUME NEW y \in rows', ~Exam(y.title)
               PROVE  /\ Base(y.title) \in Works
                      /\ Base(y.title) \notin lost' => y.title \in Kit(Base(y.title))
    BY DEF InKit
  <2>1. CASE y.title \in OwnTitles
    <3>1. y.title \in Works
      BY <2>1 DEF Works
    <3> QED
      BY <2>1, <3>1, WorkTyped, KitTyped
  <2>2. CASE \E x \in rows : x.title = y.title
    BY <2>2 DEF KitInv, InKit
  <2> QED
    BY <2>1, <2>2
<1>2. AllToDo' /\ PlannedWhole'
  BY DEF AllToDo, PlannedWhole
<1> QED
  BY <1>1, <1>2 DEF KitInv

\* A review of which a session is deleted or renamed is one the code loses
\* count of; any other is whole as before.
LEMMA ReviewLoses ==
  ASSUME NamesApart, TypeInv, KitInv, NEW r \in rows,
         rows \ {r} \subseteq rows',
         \A x \in rows' : x \in rows \/ x.title \in OwnTitles,
         r \notin rows', lost \subseteq lost', Gone(r) \subseteq lost'
  PROVE  ReviewsWhole'
<1> SUFFICES ASSUME NEW x \in rows', Base(x.title) \in Reviews,
                    ~Exam(Base(x.title)), Base(x.title) \notin lost'
             PROVE  /\ x.status # "skipped"
                    /\ \A t \in Kit(Base(x.title)) : \E s \in rows' : s.title = t
  BY DEF ReviewsWhole, Miscounted
<1>1. x \in rows
  <2>1. x.title \in OwnTitles => Base(x.title) \notin Reviews
    BY WorkTyped DEF Works
  <2> QED
    BY <2>1
<1>2. ~Miscounted(Base(x.title))
  BY DEF Miscounted
<1>3. Base(r.title) # Base(x.title)
  <2> SUFFICES ASSUME Base(r.title) = Base(x.title) PROVE FALSE
    OBVIOUS
  <2>1. LosesCount(r)
    BY <1>2, ReviewCounted
  <2> QED
    BY <2>1 DEF Gone
<1>4. \A t \in Kit(Base(x.title)) : Base(t) = Base(x.title)
  BY KitTyped DEF Works
<1>5. /\ x.status # "skipped"
      /\ \A t \in Kit(Base(x.title)) : \E s \in rows : s.title = t
  BY <1>1, <1>2 DEF KitInv, ReviewsWhole
<1> QED
  BY <1>3, <1>4, <1>5

\* Deleting a task.
LEMMA DeleteKit ==
  ASSUME NamesApart, TypeInv, KitInv, NEW r \in rows, Delete(r)
  PROVE  KitInv'
<1>1. /\ calm' = "no" /\ rows' = rows \ {r}
      /\ lost \subseteq lost' /\ Gone(r) \subseteq lost'
  BY DEF Delete, Edit
<1>2. OwnOnce'
  BY <1>1 DEF KitInv, OwnOnce, Miscounted
<1>3. ReviewsWhole'
  BY <1>1, ReviewLoses
<1> QED
  BY <1>1, <1>2, <1>3, EditKit

\* Setting the status of a task.
LEMMA StatusKit ==
  ASSUME NamesApart, TypeInv, KitInv, NEW r \in rows, NEW status \in Statuses,
         SetStatus(r, status)
  PROVE  KitInv'
<1> DEFINE b   == Base(r.title)
           new == [r EXCEPT !.status = status]
<1>1. /\ calm' = "no" /\ rows' = (rows \ {r}) \cup {new}
      /\ lost' = IF BackTwice(r) \/ (status = "skipped" /\ LosesCount(r))
                 THEN lost \cup {b} ELSE lost
  BY DEF SetStatus, Edit
<1>2. new.title = r.title /\ new.status = status
  BY RowTyped
<1> HIDE DEF new
<1>3. \A y \in rows' : \E x \in rows : x.title = y.title
  BY <1>1, <1>2
<1>4. OwnOnce'
  <2>1. lost \subseteq lost'
    BY <1>1
  <2>2. \A x, y \in rows' :
          x.title = y.title /\ x.title \in OwnTitles /\ ~Miscounted(x.title) => x = y
    BY <1>1, <1>2 DEF KitInv, OwnOnce
  <2> QED
    BY <2>1, <2>2 DEF OwnOnce, Miscounted
<1>5. ReviewsWhole'
  <2> SUFFICES ASSUME NEW x \in rows', Base(x.title) \in Reviews,
                      ~Exam(Base(x.title)), Base(x.title) \notin lost'
               PROVE  /\ x.status # "skipped"
                      /\ \A t \in Kit(Base(x.title)) : \E s \in rows' : s.title = t
    BY DEF ReviewsWhole, Miscounted
  <2>1. ~Miscounted(Base(x.title))
    BY <1>1 DEF Miscounted
  <2>2. PICK z \in rows : z.title = x.title
    BY <1>3
  <2>3. \A t \in Kit(Base(x.title)) : \E s \in rows : s.title = t
    BY <2>1, <2>2 DEF KitInv, ReviewsWhole
  <2>4. \A s \in rows : \E y \in rows' : y.title = s.title
    BY <1>1, <1>2
  <2>5. CASE x = new
    <3>1. LosesCount(r)
      BY <1>2, <2>1, <2>5, ReviewCounted
    <3>2. status # "skipped"
      BY <1>1, <1>2, <2>5, <3>1
    <3> QED
      BY <1>2, <2>3, <2>4, <2>5, <3>2
  <2>6. CASE x # new
    BY <1>1, <2>1, <2>3, <2>4, <2>6 DEF KitInv, ReviewsWhole
  <2> QED
    BY <2>5, <2>6
<1> QED
  BY <1>1, <1>3, <1>4, <1>5, EditKit

\* A task the student puts beside those there.
LEMMA OwnOnceBeside ==
  ASSUME KitInv, NEW n \in Own, NEW old \in SUBSET rows, NEW x, x.title = Plain(n),
         rows' = old \cup {x}, lost \subseteq lost', Repeated(Plain(n)) \subseteq lost'
  PROVE  OwnOnce'
<1> SUFFICES ASSUME NEW r \in rows', NEW s \in rows', r.title = s.title,
                    r.title \in OwnTitles, ~Miscounted(r.title)'
             PROVE  r = s
  BY DEF OwnOnce
<1>1. CASE r \in old /\ s \in old
  BY <1>1 DEF KitInv, OwnOnce, Miscounted
<1>2. CASE r = x \/ s = x
  BY <1>2 DEF Repeated, Miscounted
<1> QED
  BY <1>1, <1>2

\* Entering a task.
LEMMA EnterKit ==
  ASSUME NamesApart, TypeInv, KitInv, NEW n \in Own, Enter(n)
  PROVE  KitInv'
<1>1. PICK k \in Nat \ {0} : rows' = rows \cup {Row(Plain(n), k)}
  BY EnterTyped
<1> DEFINE new == Row(Plain(n), k)
<1>2. calm' = "no" /\ lost \subseteq lost' /\ Repeated(Plain(n)) \subseteq lost'
  BY DEF Enter, Edit
<1>3. new.title = Plain(n) /\ Plain(n) \in OwnTitles
  BY DEF Row, OwnTitles
<1> HIDE DEF new
<1>4. rows' = rows \cup {new} /\ rows \in SUBSET rows
  BY <1>1 DEF new
<1>5. OwnOnce'
  BY <1>2, <1>3, <1>4, OwnOnceBeside
<1>6. ReviewsWhole'
  <2> SUFFICES ASSUME NEW x \in rows', Base(x.title) \in Reviews,
                      ~Exam(Base(x.title)), Base(x.title) \notin lost'
               PROVE  /\ x.status # "skipped"
                      /\ \A t \in Kit(Base(x.title)) : \E s \in rows' : s.title = t
    BY DEF ReviewsWhole, Miscounted
  <2>1. Base(new.title) \notin Reviews
    BY <1>3, WorkTyped DEF Works
  <2>2. x \in rows /\ ~Miscounted(Base(x.title))
    BY <1>2, <1>4, <2>1 DEF Miscounted
  <2> QED
    BY <1>4, <2>2 DEF KitInv, ReviewsWhole
<1>7. \A y \in rows' : y.title \in OwnTitles \/ \E x \in rows : x.title = y.title
  BY <1>3, <1>4
<1> QED
  BY <1>2, <1>5, <1>6, <1>7, EditKit

\* Renaming a task.
LEMMA RenameKit ==
  ASSUME NamesApart, TypeInv, KitInv, NEW r \in rows, NEW n \in Own, Rename(r, n)
  PROVE  KitInv'
<1>1. PICK x : rows' = (rows \ {r}) \cup {x} /\ x.title = Plain(n)
  BY RenameTyped
<1>2. /\ calm' = "no" /\ lost \subseteq lost' /\ r.title # Plain(n)
      /\ Repeated(Plain(n)) \subseteq lost' /\ Gone(r) \subseteq lost'
  BY DEF Rename, Edit
<1>3. rows \ {r} \in SUBSET rows /\ Plain(n) \in OwnTitles
  BY DEF OwnTitles
<1>4. OwnOnce'
  BY <1>1, <1>2, <1>3, OwnOnceBeside
<1>5. /\ r \notin rows' /\ rows \ {r} \subseteq rows'
      /\ \A y \in rows' : y \in rows \/ y.title \in OwnTitles
  BY <1>1, <1>2, <1>3
<1>6. ReviewsWhole'
  BY <1>2, <1>5, ReviewLoses
<1>7. \A y \in rows' : y.title \in OwnTitles \/ \E z \in rows : z.title = y.title
  BY <1>5
<1> QED
  BY <1>2, <1>4, <1>6, <1>7, EditKit

\* A quiz changes no task.
LEMMA QuizKit ==
  ASSUME NamesApart, TypeInv, KitInv, NEW n \in Topics, Quiz(n)
  PROVE  KitInv'
<1>1. calm' = "no" /\ rows' = rows /\ lost' = lost
  BY DEF Quiz, Edit
<1>2. OwnOnce' /\ ReviewsWhole'
  BY <1>1 DEF KitInv, OwnOnce, ReviewsWhole, Miscounted
<1> QED
  BY <1>1, <1>2, EditKit

\* Every step keeps the work in order.
LEMMA KitStep ==
  ASSUME RulesPlan, NamesApart
  PROVE  TypeInv /\ NoTaskTwice /\ KitInv /\ [Next]_vars => KitInv'
<1> SUFFICES ASSUME TypeInv, NoTaskTwice, KitInv, [Next]_vars PROVE KitInv'
  OBVIOUS
<1>1. ASSUME NEW scope \in Scopes, NEW depth \in DepthsOf(scope), Approve(scope, depth)
      PROVE  KitInv'
  BY <1>1, ApproveInKit, ApproveOwnOnce, ApproveReviews, ApproveAll DEF KitInv
<1>2. ASSUME NEW r \in rows, Delete(r) PROVE KitInv'
  BY <1>2, DeleteKit
<1>3. ASSUME NEW r \in rows, NEW status \in Statuses, SetStatus(r, status) PROVE KitInv'
  BY <1>3, StatusKit
<1>4. ASSUME NEW n \in Own, Enter(n) PROVE KitInv'
  BY <1>4, EnterKit
<1>5. ASSUME NEW n \in Topics, Quiz(n) PROVE KitInv'
  BY <1>5, QuizKit
<1>6. ASSUME NEW r \in rows, NEW n \in Own, Rename(r, n) PROVE KitInv'
  BY <1>6, RenameKit
<1>7. CASE UNCHANGED vars
  <2>1. OwnOnce' /\ ReviewsWhole' /\ AllToDo' /\ PlannedWhole'
    BY <1>7 DEF vars, KitInv, OwnOnce, ReviewsWhole, AllToDo, PlannedWhole, Miscounted,
                Todo, Titled
  <2>2. \A r \in rows' : InKit(r)'
    BY <1>7 DEF vars, KitInv, InKit
  <2> QED
    BY <2>1, <2>2 DEF KitInv
<1> QED
  BY <1>1, <1>2, <1>3, <1>4, <1>5, <1>6, <1>7 DEF Next

\* At first there are only tasks the student has entered.
LEMMA KitInit ==
  ASSUME NamesApart
  PROVE  Init => KitInv
<1> SUFFICES ASSUME Init PROVE KitInv
  OBVIOUS
<1>1. calm = "no" /\ \A r \in rows : \E n \in Own : \E k \in Nat : r = Row(Plain(n), k)
  BY BoundsAssumption DEF Init, BoundsAssumption
<1>2. ASSUME NEW r \in rows
      PROVE  /\ r.title \in OwnTitles /\ Base(r.title) = r.title /\ r.title \in Works
             /\ r.title \in Kit(r.title) /\ r.title \notin Reviews /\ r.status = "todo"
  <2>1. PICK n \in Own : \E k \in Nat : r = Row(Plain(n), k)
    BY <1>1
  <2>2. r.title = Plain(n) /\ r.status = "todo"
    BY <2>1 DEF Row
  <2>3. r.title \in OwnTitles /\ r.title \in Works
    BY <2>2 DEF OwnTitles, Works
  <2> QED
    BY <2>2, <2>3, WorkTyped, KitTyped
<1>3. OwnOnce
  <2>1. \A r \in rows : r.status # "skipped"
    BY <1>2
  <2> QED
    BY <1>2, <2>1, OnceInit DEF OwnOnce, NoTaskTwice
<1>4. ReviewsWhole
  BY <1>2 DEF ReviewsWhole
<1>5. AllToDo /\ PlannedWhole
  BY <1>1 DEF AllToDo, PlannedWhole
<1> QED
  BY <1>2, <1>3, <1>4, <1>5 DEF KitInv, InKit

\* The invariant of the plans the rules make.
LEMMA KitKept ==
  ASSUME RulesPlan, NamesApart
  PROVE  Spec => [](TypeInv /\ NoTaskTwice /\ KitInv)
<1>1. Init => KitInv
  BY KitInit
<1>2. TypeInv /\ NoTaskTwice /\ KitInv /\ [Next]_vars => KitInv'
  BY KitStep
<1> QED
  BY <1>1, <1>2, TypeInvKept, NoTaskIsTwice, PTL DEF Spec

\* "so replanning does not multiply the work": after a plan the rules made the
\* calendar has no more open sessions of a title than the plan gave it.
THEOREM WorkIsNotMultiplied ==
  ASSUME RulesPlan, NamesApart
  PROVE  Spec => []WorkNotMultiplied
<1>1. TypeInv /\ NoTaskTwice /\ KitInv => WorkNotMultiplied
  <2> SUFFICES ASSUME TypeInv, NoTaskTwice, KitInv, calm # "no",
                      NEW t \in DOMAIN planned, ~Miscounted(t)
               PROVE  Count(t) <= planned[t]
    BY DEF WorkNotMultiplied
  <2>1. t \in Works /\ planned[t] = Size(t)
    BY DEF KitInv, PlannedWhole
  <2> QED
    BY <2>1, CountAtMost DEF KitInv
<1> QED
  BY <1>1, KitKept, PTL

-----------------------------------------------------------------------------
(* What a plan the rules make does to the calendar of the plan before. *)

\* Only approving a plan makes one.
LEMMA PlanningApproves ==
  ASSUME [Next]_vars, Planning
  PROVE  \E scope \in Scopes : \E depth \in DepthsOf(scope) : Approve(scope, depth)
BY DEF Planning, vars, Next, Delete, SetStatus, Enter, Rename, Quiz, Edit

\* While nothing has changed since a plan of everything, each session of the
\* next plan is there already, still to do.
LEMMA SessionThere ==
  ASSUME RulesPlan, NamesApart, TypeInv, NoTaskTwice, KitInv, calm = "all",
         NEW scope \in Scopes, NEW depth \in DepthsOf(scope),
         NEW u \in SessionTitles(scope, depth), ~Miscounted(Base(u))
  PROVE  \E y \in rows : Known(u) = {y} /\ y.status = "todo"
<1> DEFINE b == Base(u)
<1>1. u \in Title /\ scope \subseteq Candidates
  BY PlanTyped, SessionsTyped
<1>2. ~Exam(u)
  BY <1>1, SameExam DEF Miscounted
<1>3. PICK c \in scope : b = c.title /\ b \in Works /\ ~Exam(c.title)
  BY <1>2, SessionsInKit
<1>4. u \in Kit(b)
  BY SessionsInKit
<1>5. c \in Candidates
  BY <1>1
<1>6. u \in Todo
  <2>1. CASE b \in OwnTitles
    <3>1. u = b
      BY <1>3, <1>4, <2>1, KitTyped
    <3>2. \E r \in rows : r.status = "todo" /\ r.title = c.title
      BY <1>3, <1>5, <2>1, CandidateWork
    <3> QED
      BY <1>3, <3>1, <3>2 DEF Todo, Titled
  <2>2. CASE b \in Studies
    BY <1>4, <2>2 DEF KitInv, AllToDo
  <2>3. CASE b \in Reviews
    <3>1. CASE b \in Grouped
      BY <1>4, <2>3, <3>1, ReviewToDo
    <3>2. CASE b \notin Grouped
      <4>1. c \notin Remaining
        BY <1>3, <3>2 DEF Remaining, Item
      <4>2. c \notin Study
        <5> SUFFICES ASSUME c \in Study PROVE FALSE
          OBVIOUS
        <5>1. c.title \in Studies
          BY DEF Study, Item, Studies
        <5> QED
          BY <1>3, <2>3, <5>1, WorkTyped
      <4>3. c \in Revision
        BY <1>3, <1>5, <4>1, <4>2, PreparationIsExam DEF Candidates
      <4>4. b \in {With("Review", Plain(n)) : n \in weak}
        BY <1>3, <4>3 DEF Revision, Item
      <4> QED
        BY <1>4, <4>4 DEF KitInv, AllToDo
    <3> QED
      BY <3>1, <3>2
  <2> QED
    BY <1>3, <2>1, <2>2, <2>3 DEF Works
<1>7. PICK r \in rows : r.title = u /\ r.status = "todo"
  BY <1>6 DEF Todo, Titled
<1>8. r \in Known(u)
  BY <1>7 DEF Known
<1>9. PICK y \in rows : Known(u) = {y}
  BY <1>8, OneKnown
<1> QED
  BY <1>7, <1>8, <1>9

\* So the plan writes every task as it is, and enters none.
LEMMA NothingChanges ==
  ASSUME RulesPlan, NamesApart, TypeInv, NoTaskTwice, KitInv, calm = "all",
         NEW scope \in Scopes, NEW depth \in DepthsOf(scope), Approve(scope, depth)
  PROVE  Counted(rows') = Counted(rows)
<1> DEFINE sessions == SessionTitles(scope, depth)
<1>1. rows' \in Written(sessions) /\ sessions \subseteq Title
  BY PlanTyped, SessionsTyped DEF Approve
<1>2. \A u \in sessions : ~Miscounted(Base(u)) =>
        \E y \in rows : Known(u) = {y} /\ y.status = "todo"
  BY SessionThere
<1> HIDE DEF sessions
<1>3. \A u \in EventTitles(sessions) : u \in Title /\ ~Miscounted(Base(u)) =>
        \E y \in rows : Known(u) = {y} /\ y.status = "todo"
  <2>1. \A u \in EventTitles(sessions) : u \in sessions \/ Exam(u)
    BY DEF EventTitles, Deadlines
  <2> QED
    BY <1>2, <2>1, SameExam DEF Miscounted
<1>4. \A r \in rows : r.status = "todo" => ToDoAgain(r) = r
  BY RowTyped DEF ToDoAgain
<1>5. ASSUME NEW r \in rows, ~Miscounted(Base(r.title)) PROVE r \in rows'
  <2>1. CASE r.status = "skipped" \/ r.title \notin EventTitles(sessions)
    BY <1>1, <2>1, WrittenRows
  <2>2. CASE r.status # "skipped" /\ r.title \in EventTitles(sessions)
    <3>1. r.title \in Title /\ r \in Known(r.title)
      BY <2>2, RowTyped DEF Known
    <3>2. Known(r.title) = {r} /\ r.status = "todo"
      BY <1>3, <1>5, <2>2, <3>1
    <3>3. ToDoAgain(r) \in rows'
      BY <1>1, <2>2, <3>2, WrittenRows
    <3> QED
      BY <1>4, <3>2, <3>3
  <2> QED
    BY <2>1, <2>2
<1>6. ASSUME NEW r \in rows', ~Miscounted(Base(r.title)) PROVE r \in rows
  <2>1. CASE \E x \in rows : x.title \in EventTitles(sessions) /\ x.status # "skipped" /\ r = ToDoAgain(x)
    <3>1. PICK x \in rows : x.title \in EventTitles(sessions) /\ x.status # "skipped" /\ r = ToDoAgain(x)
      BY <2>1
    <3>2. x.title = r.title /\ x.title \in Title /\ x \in Known(x.title)
      BY <3>1, RowTyped DEF ToDoAgain, Known
    <3>3. x.status = "todo"
      BY <1>3, <1>6, <3>1, <3>2
    <3> QED
      BY <1>4, <3>1, <3>3
  <2>2. CASE \E t \in EventTitles(sessions) : Known(t) = {} /\ \E n : r = Row(t, n)
    <3>1. PICK t \in EventTitles(sessions) : Known(t) = {} /\ \E n : r = Row(t, n)
      BY <2>2
    <3>2. r.title = t
      BY <3>1 DEF Row
    <3>3. t \in Title
      BY <1>1, RowTyped DEF EventTitles, Deadlines
    <3> QED
      BY <1>3, <1>6, <3>1, <3>2, <3>3
  <2> QED
    BY <1>1, <2>1, <2>2, WrittenRows
<1> QED
  BY <1>5, <1>6 DEF Counted

\* "replanning staying idempotent": a plan the rules make of everything, made
\* and approved when nothing has changed since the last one, leaves the
\* calendar as it is.
THEOREM ReplanningIsIdempotent ==
  ASSUME RulesPlan, NamesApart
  PROVE  Spec => ReplanIsIdempotent
<1>1. TypeInv /\ NoTaskTwice /\ KitInv /\ [Next]_vars =>
        [calm = "all" /\ Planning /\ calm' = "all" => Counted(rows') = Counted(rows)]_vars
  BY PlanningApproves, NothingChanges
<1> QED
  BY <1>1, KitKept, PTL DEF Spec, ReplanIsIdempotent

\* Tasks the student entered: while one is open it is a candidate, once it is
\* not a plan leaves it alone.
LEMMA OwnTaskPlanned ==
  ASSUME RulesPlan, NamesApart, TypeInv, NoTaskTwice, KitInv,
         NEW scope \in Scopes, NEW depth \in DepthsOf(scope), Approve(scope, depth),
         NEW r \in rows, StudentsOwn(r.title)
  PROVE  IF r.status = "todo" THEN calm' = "part" \/ r.title \in DOMAIN planned'
         ELSE r.title \notin DOMAIN planned' /\ r \in rows'
<1> DEFINE t == r.title
           sessions == SessionTitles(scope, depth)
<1>1. t \in OwnTitles /\ ~Exam(t) /\ ~Miscounted(t)
  <2>1. /\ t \in Title /\ t.verbs = <<>> /\ t.marks = <<>> /\ t.name \in Own
        /\ ~Exam(t) /\ ~Miscounted(t)
    BY RowTyped DEF StudentsOwn, Miscounted
  <2>2. t = Plain(t.name)
    BY <2>1 DEF Title, Plain
  <2> QED
    BY <2>1, <2>2 DEF OwnTitles
<1>2. t \in Works /\ Base(t) = t /\ Kit(t) = {t} /\ t \notin lost
  BY <1>1, WorkTyped, KitTyped DEF Works, Miscounted
<1>3. \A x \in rows : Base(x.title) = t => x = r
  <2> SUFFICES ASSUME NEW x \in rows, Base(x.title) = t PROVE x = r
    OBVIOUS
  <2>1. ~Exam(x.title)
    BY <1>1, RowTyped, SameExam
  <2>2. x.title = t
    BY <1>2, <2>1 DEF KitInv, InKit
  <2> QED
    BY <1>1, <2>2 DEF KitInv, OwnOnce
<1>4. /\ DOMAIN planned' = {c.title : c \in scope} /\ scope \subseteq Candidates
      /\ calm' = (IF scope = Candidates THEN "all" ELSE "part")
      /\ rows' \in Written(sessions)
  BY PlannedTyped, PlanTyped DEF Approve
<1>5. ASSUME r.status = "todo" PROVE calm' = "part" \/ t \in DOMAIN planned'
  <2>1. t \in Grouped
    <3>1. t \in Todo
      BY <1>5 DEF Todo, Titled
    <3>2. ~Completed(t)
      BY <1>2, <1>3, <1>5 DEF Completed, Done, Titled
    <3> QED
      BY <1>2, <3>1, <3>2 DEF Grouped
  <2>2. \E c \in Candidates : c.title = t
    <3>1. Item(t, Larger(Count(t), Effort(Pages(t), t))) \in Candidates
      BY <2>1 DEF Candidates, Remaining
    <3> QED
      BY <3>1 DEF Item
  <2> QED
    BY <1>4, <2>2
<1>6. ASSUME r.status # "todo" PROVE t \notin DOMAIN planned' /\ r \in rows'
  <2>1. \A c \in scope : c.title # t
    <3> SUFFICES ASSUME NEW c \in scope, c.title = t PROVE FALSE
      OBVIOUS
    <3>1. PICK x \in rows : x.status = "todo" /\ x.title = t
      BY <1>1, <1>4, CandidateWork
    <3>2. Base(x.title) = t
      BY <1>2, <3>1
    <3> QED
      BY <1>3, <1>6, <3>1, <3>2
  <2>2. t \notin sessions
    BY <1>1, <1>2, <2>1, SessionsInKit
  <2>3. t \notin EventTitles(sessions)
    BY <1>1, <2>2 DEF EventTitles, Deadlines
  <2>4. r \in rows'
    BY <1>4, <2>3, WrittenRows
  <2> QED
    BY <1>4, <2>1, <2>4
<1> QED
  BY <1>5, <1>6

\* The tasks the student entered, exams and those of one title aside, are
\* planned by the rules while they are open, unless the request leaves something out, and left alone once
\* they are done or skipped.
THEOREM OwnTasksAreRespected ==
  ASSUME RulesPlan, NamesApart
  PROVE  Spec => OwnTasksRespected
<1>1. TypeInv /\ NoTaskTwice /\ KitInv /\ [Next]_vars =>
        [Planning => \A r \in rows : StudentsOwn(r.title) =>
           IF r.status = "todo" THEN calm' = "part" \/ r.title \in DOMAIN planned'
           ELSE r.title \notin DOMAIN planned' /\ r \in rows']_vars
  BY PlanningApproves, OwnTaskPlanned
<1> QED
  BY <1>1, KitKept, PTL DEF Spec, OwnTasksRespected
===============================================================================
