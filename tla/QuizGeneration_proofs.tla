------------------------ MODULE QuizGeneration_proofs ------------------------
(***************************************************************************)
(* Proofs about QuizGeneration for any courses, documents, texts, models   *)
(* and requests: what is in the index and what is read of it (with the     *)
(* lemmas of CourseIndex_proofs), what a quiz is made of and where it is   *)
(* filed, which candidates are selected and how they are graded.           *)
(***************************************************************************)
EXTENDS QuizGeneration, CourseIndex_proofs

-----------------------------------------------------------------------------
(* The index and its readers                                               *)

\* A step writes the index as CourseIndex says, or reads it, or leaves it.
LEMMA IndexStep == IndexInv /\ ReaderInv /\ [Next]_vars => IndexInv' /\ ReaderInv'
<1> SUFFICES ASSUME IndexInv, ReaderInv, [Next]_vars PROVE IndexInv' /\ ReaderInv'
  OBVIOUS
<1>1. CASE Write
  <2>1. UNCHANGED reader
    BY <1>1 DEF Write, ReadFile, Upsert, IngestFails, Purge,
                  RemoveChunks, RemoveRow, RemoveFails
  <2> QED
    BY <1>1, <2>1, WriteKeeps, ReaderStays
<1>2. CASE Read
  <2>1. UNCHANGED <<live, index, job, text, removing, withdrawn>>
    BY <1>2 DEF Read, Fetch, Query, Answered
  <2> QED
    BY <1>2, <2>1, ReadKeeps, IndexStays
<1>3. CASE UNCHANGED <<live, index, job, text, removing, withdrawn, reader>>
  BY <1>3, IndexStays, ReaderStays
<1>4. Write \/ Read \/ UNCHANGED <<live, index, job, text, removing, withdrawn, reader>>
  BY DEF Next, WriteMeanwhile, ReadMeanwhile, StartTurn, Seek, SeekOn, Generate, GiveUp, Store,
         EndTurn, DeleteCourse, vars, indexVars
<1> QED
  BY <1>1, <1>2, <1>3, <1>4

\* At first the indexes are empty and nothing is being read.
LEMMA IndexFirst == Init => IndexInv /\ ReaderInv
<1> SUFFICES ASSUME Init PROVE IndexInv /\ ReaderInv
  OBVIOUS
<1>1. IndexInit /\ reader = [pc |-> "idle"]
  BY DEF Init, IndexInit, NoReader
<1>2. IndexInv
  BY <1>1, IndexAtFirst
<1>3. ReaderInv
  BY <1>1 DEF ReaderInv, RankingRespected, RemovedNotCited
<1> QED
  BY <1>2, <1>3

\* So the index and its reader are always as CourseIndex_proofs says.
LEMMA IndexKept == Spec => [](IndexInv /\ ReaderInv)
BY IndexFirst, IndexStep, PTL DEF Spec

\* ingest_document: once no ingestion of a document is under way, its index is
\* its last text, whatever failed or was indexed before, and no word of it is
\* lost, for every size of pieces, overlap and bound on short ones.  The
\* exception is in FullyIndexed: a document whose deletion stopped after
\* main.py:982 has no chunks until it is ingested again.
THEOREM WhatIsReadIsIndexed == Spec => []FullyIndexed
BY IndexKept, WholeIsIndexed, PTL

\* retrieve: a record both rankings put ahead of another is returned before it,
\* whatever the collection answers and however the index changed in between.
THEOREM RankingsAgree == Spec => []RankingRespected
<1>1. IndexInv /\ ReaderInv => RankingRespected
  BY DEF ReaderInv
<1> QED
  BY <1>1, IndexKept, PTL

\* delete_document: a document that was withdrawn before a question, with no
\* ingestion of it under way, is not quoted in the answer.
THEOREM WithdrawnIsGone == Spec => []RemovedNotCited
<1>1. IndexInv /\ ReaderInv => RemovedNotCited
  BY DEF ReaderInv
<1> QED
  BY <1>1, IndexKept, PTL

-----------------------------------------------------------------------------
(* Finding the material                                                    *)

Somewhere == Courses \cup {NoCourse}

SeekingTurns ==
  [pc : {"seeking"}, count : Int, chosen : Somewhere, at : Somewhere,
   left : SUBSET Courses, library : SUBSET Courses, steady : SUBSET Courses,
   failed : BOOLEAN]

\* The search goes through the library: what it has passed over without a
\* failure was empty at that moment, so it is not steady any more, and what is
\* steady can still be searched.
Seeking ==
  /\ turn \in SeekingTurns
  /\ turn.left \subseteq turn.library
  /\ turn.library # {} => turn.at \in turn.library
  /\ turn.steady \subseteq Searchable(index)
  /\ ~turn.failed =>
       /\ turn.steady \cap turn.library \subseteq turn.left \cup {turn.at}
       /\ turn.chosen \in turn.steady => turn.at = turn.chosen

Sought ==
  /\ courses \subseteq Courses
  /\ turn.pc = "seeking" => Seeking
  /\ MadeOfMaterial

\* The clamped count of a request is a number.
LEMMA ClampedTyped == \A n \in Counts : Clamped(n) \in Nat
BY QuizAssumption DEF QuizAssumption, Clamped

\* What cannot be searched any more is steady no longer.
LEMMA SearchableIn == Searchable(index) \subseteq Courses
BY DEF Searchable

\* The steps of a search that goes on with another course.
LEMMA NextCourse ==
  ASSUME turn \in SeekingTurns, NEW failed \in BOOLEAN, NEW c \in turn.left,
         turn' = [turn EXCEPT !.at = c, !.left = @ \ {c}, !.failed = @ \/ failed]
  PROVE  /\ turn' \in SeekingTurns
         /\ turn'.at = c /\ turn'.left = turn.left \ {c}
         /\ turn'.failed <=> turn.failed \/ failed
         /\ turn'.chosen = turn.chosen /\ turn'.library = turn.library
         /\ turn'.steady = turn.steady /\ turn'.pc = "seeking"
<1>1. /\ (turn.failed \/ failed) \in BOOLEAN
      /\ c \in Somewhere /\ turn.left \ {c} \in SUBSET Courses
  BY DEF SeekingTurns, Somewhere
<1>2. /\ turn'.at = c /\ turn'.left = turn.left \ {c}
      /\ turn'.failed = (turn.failed \/ failed)
      /\ turn'.chosen = turn.chosen /\ turn'.library = turn.library
      /\ turn'.steady = turn.steady /\ turn'.pc = "seeking"
  BY DEF SeekingTurns
<1>3. turn' \in SeekingTurns
  BY <1>1 DEF SeekingTurns
<1> QED
  BY <1>2, <1>3

\* A search that has found its material, or given up, says what it is.
LEMMA FoundDoes ==
  ASSUME NEW source, NEW failed \in BOOLEAN, turn' = Found(source, failed)
  PROVE  /\ turn'.pc = "asking" /\ turn'.source = source
         /\ turn'.chosen = turn.chosen /\ turn'.library = turn.library
         /\ turn'.steady = turn.steady
         /\ turn'.failed <=> failed
<1>1. turn'.failed = failed
  BY DEF Found
<1> QED
  BY <1>1 DEF Found

\* Every step goes on with the search as Sought says.
LEMMA SoughtStep == Sought /\ [Next]_vars => Sought'
<1> SUFFICES ASSUME Sought, [Next]_vars PROVE Sought'
  OBVIOUS
<1>n. NoCourse \notin Courses
  BY QuizAssumption DEF QuizAssumption
<1>c. courses \subseteq Courses
  BY DEF Sought
\* A turn of which the invariant says nothing.
<1>o. ASSUME courses' \subseteq Courses, turn'.pc \notin {"seeking", "asking", "stored"}
      PROVE  Sought'
  BY <1>o DEF Sought, MadeOfMaterial
<1>s. ASSUME courses' \subseteq Courses, turn' = turn, turn.pc # "seeking"
      PROVE  Sought'
  BY <1>s DEF Sought, MadeOfMaterial
<1>1. CASE WriteMeanwhile
  <2>1. courses' = courses
    BY <1>1 DEF WriteMeanwhile
  <2>2. CASE turn.pc # "seeking"
    BY <1>1, <1>c, <1>s, <2>1, <2>2 DEF WriteMeanwhile
  <2>3. CASE turn.pc = "seeking"
    <3>1. Seeking
      BY <2>3 DEF Sought
    <3>2. turn' = [turn EXCEPT !.steady = @ \cap Searchable(index')]
      BY <1>1, <2>3 DEF WriteMeanwhile
    <3>3. /\ turn' \in SeekingTurns /\ turn'.pc = "seeking"
          /\ turn'.steady = turn.steady \cap Searchable(index')
          /\ turn'.left = turn.left /\ turn'.library = turn.library
          /\ turn'.at = turn.at /\ turn'.failed = turn.failed
          /\ turn'.chosen = turn.chosen
      BY <3>1, <3>2 DEF Seeking, SeekingTurns
    <3>4. Seeking'
      BY <3>1, <3>3 DEF Seeking, Searchable
    <3> QED
      BY <1>c, <2>1, <3>3, <3>4 DEF Sought, MadeOfMaterial
  <2> QED
    BY <2>2, <2>3
<1>2. CASE ReadMeanwhile
  BY <1>2, <1>c, <1>s DEF ReadMeanwhile, quizVars
<1>3. ASSUME NEW n \in Counts, NEW e \in Somewhere, NEW c \in Somewhere, StartTurn(n, e, c)
      PROVE  Sought'
  <2>1. turn' = [pc |-> "seeking", count |-> Clamped(n), chosen |-> c,
                 at |-> c, left |-> OtherCourses(c),
                 library |-> courses, steady |-> Searchable(index), failed |-> FALSE]
    BY <1>3 DEF StartTurn
  <2>2. UNCHANGED <<courses, index>>
    BY <1>3 DEF StartTurn
  <2>3. courses # {} => c \in courses
    BY <1>3 DEF StartTurn, Resolved
  <2>4. turn' \in SeekingTurns
    BY <1>c, <2>1, ClampedTyped, SearchableIn DEF SeekingTurns, OtherCourses
  <2>5. Seeking'
    BY <2>1, <2>2, <2>3, <2>4 DEF Seeking, OtherCourses
  <2> QED
    BY <1>c, <2>1, <2>2, <2>5 DEF Sought, MadeOfMaterial
<1>4. CASE Seek
  <2>1. Seeking
    BY <1>4 DEF Seek, Sought
  <2>2. /\ turn.at # NoCourse /\ index[turn.at] # <<>>
        /\ turn' = Found(turn.at, turn.failed) /\ courses' = courses
    BY <1>4 DEF Seek
  <2>3. /\ turn'.pc = "asking" /\ turn'.source = turn.at
        /\ turn'.chosen = turn.chosen /\ turn'.library = turn.library
        /\ turn'.steady = turn.steady
        /\ turn'.failed <=> turn.failed
    BY <2>1, <2>2, FoundDoes DEF Seeking, SeekingTurns
  <2>4. MadeOfMaterial'
    BY <2>1, <2>3 DEF Seeking, MadeOfMaterial
  <2> QED
    BY <1>c, <2>2, <2>3, <2>4 DEF Sought
<1>5. ASSUME NEW failed \in BOOLEAN, SeekOn(failed) PROVE Sought'
  <2>1. Seeking
    BY <1>5 DEF SeekOn, Sought
  <2>2. courses' = courses /\ index' = index
    BY <1>5 DEF SeekOn, indexVars
  <2>3. failed \/ turn.at \notin turn.steady
    BY <1>5, <1>n, <2>1 DEF SeekOn, Seeking, SeekingTurns, Searchable
  <2>4. ASSUME NEW c \in turn.left,
               turn' = [turn EXCEPT !.at = c, !.left = @ \ {c}, !.failed = @ \/ failed]
        PROVE  Sought'
    <3>1. /\ turn' \in SeekingTurns
          /\ turn'.at = c /\ turn'.left = turn.left \ {c}
          /\ turn'.failed <=> turn.failed \/ failed
          /\ turn'.chosen = turn.chosen /\ turn'.library = turn.library
          /\ turn'.steady = turn.steady /\ turn'.pc = "seeking"
      BY <2>1, <2>4, NextCourse DEF Seeking
    <3>2. Seeking'
      <4>1. ASSUME ~turn'.failed
            PROVE  /\ turn'.steady \cap turn'.library \subseteq turn'.left \cup {turn'.at}
                   /\ turn'.chosen \in turn'.steady => turn'.at = turn'.chosen
        BY <2>1, <2>3, <3>1, <4>1 DEF Seeking
      <4> QED
        BY <2>1, <2>2, <3>1, <4>1 DEF Seeking
    <3> QED
      BY <1>c, <2>2, <3>1, <3>2 DEF Sought, MadeOfMaterial
  <2>5. ASSUME turn.left = {}, turn' = Found(NoCourse, turn.failed \/ failed)
        PROVE  Sought'
    <3>1. (turn.failed \/ failed) \in BOOLEAN
      OBVIOUS
    <3>2. /\ turn'.pc = "asking" /\ turn'.source = NoCourse
          /\ turn'.chosen = turn.chosen /\ turn'.library = turn.library
          /\ turn'.steady = turn.steady
          /\ turn'.failed <=> turn.failed \/ failed
      BY <2>5, <3>1, FoundDoes
    <3>3. MadeOfMaterial'
      BY <2>1, <2>3, <2>5, <3>2 DEF Seeking, MadeOfMaterial
    <3> QED
      BY <1>c, <2>2, <3>2, <3>3 DEF Sought
  <2> QED
    BY <1>5, <2>4, <2>5 DEF SeekOn
<1>6. ASSUME NEW pool \in Pools, Generate(pool) PROVE Sought'
  <2>1. turn'.pc = "made" /\ courses' = courses
    BY <1>6 DEF Generate
  <2> QED
    BY <1>c, <1>o, <2>1
<1>7. CASE GiveUp \/ EndTurn
  BY <1>7, <1>c, <1>o DEF GiveUp, EndTurn, NoTurn
<1>8. CASE Store
  <2>1. courses' = courses
    BY <1>8 DEF Store
  <2>2. CASE ~Storable
    BY <1>8, <1>c, <1>o, <2>1, <2>2 DEF Store, NoTurn
  <2>3. CASE Storable
    <3>1. /\ turn'.pc = "stored" /\ turn'.source = turn.source /\ turn'.filed = Filed
      BY <1>8, <2>3 DEF Store
    <3> QED
      BY <1>c, <2>1, <3>1 DEF Sought, MadeOfMaterial, Filed
  <2> QED
    BY <2>2, <2>3
<1>9. ASSUME NEW c \in Courses, DeleteCourse(c) PROVE Sought'
  <2>1. courses' \subseteq Courses /\ turn' = turn /\ index' = index
    BY <1>9, <1>c DEF DeleteCourse, indexVars
  <2>2. CASE turn.pc # "seeking"
    BY <1>s, <2>1, <2>2
  <2>3. CASE turn.pc = "seeking"
    BY <2>1, <2>3 DEF Sought, Seeking, MadeOfMaterial
  <2> QED
    BY <2>2, <2>3
<1>10. CASE UNCHANGED vars
  <2>1. courses' = courses /\ turn' = turn /\ index' = index
    BY <1>10 DEF vars, quizVars, indexVars
  <2> QED
    BY <2>1 DEF Sought, Seeking, MadeOfMaterial
<1> QED
  BY <1>1, <1>2, <1>3, <1>4, <1>5, <1>6, <1>7, <1>8, <1>9, <1>10 DEF Next, Somewhere

\* _course_material and quiz_create: a quiz is made of the course asked for if
\* its index could be searched all along, of another of the library that could
\* if not, however indexes change meanwhile, and filed under what it is made of.
THEOREM MadeOfItsCourse == Spec => []MadeOfMaterial
<1>1. Init => Sought
  BY DEF Init, Sought, MadeOfMaterial, NoTurn
<1>2. Sought => MadeOfMaterial
  BY DEF Sought
<1> QED
  BY <1>1, <1>2, SoughtStep, PTL DEF Spec

-----------------------------------------------------------------------------
(* Selecting candidates                                                    *)

\* Smaller numbers come before larger ones, and that is well-founded.
Below == {ss \in Nat \X Nat : ss[1] < ss[2]}

\* A set of numbers that is not empty has a least one.
LEMMA LeastNatural ==
  ASSUME NEW S, S \subseteq Nat, S # {}
  PROVE  \E n \in S : \A m \in S : n <= m
<1>1. IsWellFoundedOn(Below, Nat)
  BY NatLessThanWellFounded DEF OpToRel, Below
<1>2. \E x \in S : \A y \in S : ~(<<y, x>> \in Below)
  BY <1>1, WFMin
<1>3. \A x, y \in Nat : ~(<<y, x>> \in Below) => x <= y
  BY DEF Below
<1> QED
  BY <1>2, <1>3

\* The rounds of the loop, as a function of their number.
NextRound(before) ==
  IF before.remaining = <<>> THEN before
  ELSE [chosen    |-> Append(before.chosen, before.remaining[Chosen(before.remaining)]),
        remaining |-> Others(before.remaining)]

FirstRound(candidates) == [chosen |-> <<>>, remaining |-> candidates]

Rounds(f, candidates, k) ==
  f = [n \in 0..k |-> IF n = 0 THEN FirstRound(candidates) ELSE NextRound(f[n - 1])]

\* There are such functions.
LEMMA RoundsExist ==
  ASSUME NEW candidates, NEW k \in Nat
  PROVE  \E f : Rounds(f, candidates, k)
<1> DEFINE lacking == {n \in Nat : ~\E f : Rounds(f, candidates, n)}
<1> SUFFICES ASSUME lacking # {} PROVE FALSE
  OBVIOUS
<1>1. PICK n \in lacking : \A m \in lacking : n <= m
  <2>1. lacking \subseteq Nat
    OBVIOUS
  <2> HIDE DEF lacking
  <2> QED
    BY <2>1, LeastNatural
<1>2. CASE n = 0
  <2> DEFINE f == [m \in 0..0 |-> FirstRound(candidates)]
  <2>1. f = [m \in 0..0 |-> IF m = 0 THEN FirstRound(candidates) ELSE NextRound(f[m - 1])]
    OBVIOUS
  <2>2. Rounds(f, candidates, 0)
    BY <2>1 DEF Rounds
  <2> QED
    BY <1>2, <2>2
<1>3. CASE n # 0
  <2>1. n - 1 \in Nat /\ n \in Nat /\ ~(n - 1 \in lacking)
    BY <1>1, <1>3
  <2>2. PICK g : Rounds(g, candidates, n - 1)
    BY <2>1
  <2>3. g = [m \in 0..(n - 1) |->
              IF m = 0 THEN FirstRound(candidates) ELSE NextRound(g[m - 1])]
    BY <2>2 DEF Rounds
  <2> DEFINE f == [m \in 0..n |-> IF m = n THEN NextRound(g[n - 1]) ELSE g[m]]
             h == [m \in 0..n |-> IF m = 0 THEN FirstRound(candidates) ELSE NextRound(f[m - 1])]
  <2>4. \A m \in 0..n : f[m] = h[m]
    <3> SUFFICES ASSUME NEW m \in 0..n PROVE f[m] = h[m]
      OBVIOUS
    <3>1. CASE m = n
      <4>1. f[m - 1] = g[n - 1] /\ m # 0
        BY <1>3, <2>1, <3>1
      <4> QED
        BY <3>1, <4>1
    <3>2. CASE m # n /\ m = 0
      <4>1. g[0] = FirstRound(candidates)
        BY <2>1, <2>3
      <4> QED
        BY <3>2, <4>1
    <3>3. CASE m # n /\ m # 0
      <4>1. m \in 0..(n - 1) /\ m - 1 \in 0..n /\ m - 1 # n
        BY <2>1, <3>3
      <4>2. g[m] = NextRound(g[m - 1]) /\ f[m - 1] = g[m - 1] /\ f[m] = g[m]
        BY <2>3, <3>3, <4>1
      <4> QED
        BY <3>3, <4>2
    <3> QED
      BY <3>1, <3>2, <3>3
  <2>5. f = h
    <3>1. f = [m \in 0..n |-> f[m]] /\ h = [m \in 0..n |-> h[m]]
      OBVIOUS
    <3> HIDE DEF f, h
    <3> QED
      BY <2>4, <3>1
  <2>6. Rounds(f, candidates, n)
    <3> HIDE DEF f
    <3> QED
      BY <2>5 DEF Rounds
  <2> QED
    BY <2>6
<1> QED
  BY <1>2, <1>3

Loop(f, candidates, count) ==
  /\ f[0] = FirstRound(candidates)
  /\ \A n \in 1..count : f[n] = NextRound(f[n - 1])
  /\ Selection(candidates, count) = f[count].chosen

\* generate_quiz: what the loop chooses, it chooses in such rounds.
LEMMA SelectionIs ==
  ASSUME NEW candidates, NEW count \in Nat
  PROVE  \E f : Loop(f, candidates, count)
<1> DEFINE round == CHOOSE f : Rounds(f, candidates, count)
<1>1. Rounds(round, candidates, count)
  BY RoundsExist
<1>2. Selection(candidates, count) = round[count].chosen
  BY DEF Selection, Rounds, NextRound, FirstRound
<1> HIDE DEF round
<1>3. round = [n \in 0..count |->
                IF n = 0 THEN FirstRound(candidates) ELSE NextRound(round[n - 1])]
  BY <1>1 DEF Rounds
<1>4. round[0] = FirstRound(candidates)
  BY <1>3
<1>5. \A n \in 1..count : round[n] = NextRound(round[n - 1])
  BY <1>3
<1> QED
  BY <1>2, <1>4, <1>5 DEF Loop

\* One candidate is taken rather than another.
Preferred(s, i, j) ==
  \/ s[j].score < s[i].score
  \/ s[j].score = s[i].score /\ i <= j

\* choose_candidate: there is a first of those with the highest score.
LEMMA ChosenIs ==
  ASSUME NEW s \in Seq(Candidate), s # <<>>
  PROVE  /\ Chosen(s) \in DOMAIN s
         /\ \A j \in DOMAIN s : s[j].score <= s[Chosen(s)].score
<1> DEFINE N == Len(s)
           S == 1..N
           R == {e \in S \X S : e[1] # e[2] /\ Preferred(s, e[1], e[2])}
<1>1. N \in Nat /\ N >= 1 /\ DOMAIN s = S
  BY LenProperties, EmptySeq
<1>2. \A i \in S : s[i].score \in Int /\ i \in Nat
  <2> SUFFICES ASSUME NEW i \in S PROVE s[i].score \in Int /\ i \in Nat
    OBVIOUS
  <2>1. s[i] \in Candidate
    BY ElementOfSeq
  <2> QED
    BY <2>1 DEF Candidate
<1>3. \A i, j \in S : <<i, j>> \in R <=> i # j /\ Preferred(s, i, j)
  OBVIOUS
<1>4. IsFiniteSet(S) /\ Cardinality(S) = N
  BY <1>1, UpTo
<1> HIDE DEF R, S
<1>5. Orders(R, S)
  <2>1. \A i, j \in S : i # j => <<i, j>> \in R \/ <<j, i>> \in R
    BY <1>2, <1>3 DEF Preferred
  <2>2. \A i \in S : <<i, i>> \notin R
    BY <1>3
  <2>3. ASSUME NEW i \in S, NEW j \in S, NEW k \in S, <<i, j>> \in R, <<j, k>> \in R
        PROVE  <<i, k>> \in R
    <3>1. i # j /\ Preferred(s, i, j) /\ j # k /\ Preferred(s, j, k)
      BY <1>3, <2>3
    <3>2. /\ s[i].score \in Int /\ s[j].score \in Int /\ s[k].score \in Int
          /\ i \in Nat /\ j \in Nat /\ k \in Nat
      BY <1>2
    <3>3. i # k /\ Preferred(s, i, k)
      BY <3>1, <3>2 DEF Preferred
    <3> QED
      BY <1>3, <3>3
  <2> QED
    BY <2>1, <2>2, <2>3 DEF Orders
<1>6. PICK at : Lines(at, R, S)
  BY <1>4, <1>5, Ranks
<1> DEFINE first == at[1]
<1>7. /\ first \in S
      /\ \A j \in S : j = first \/ <<first, j>> \in R
  <2>1. 1 \in 1..N
    BY <1>1
  <2>2. \A j \in S : \E n \in 1..N : at[n] = j
    BY <1>4, <1>6 DEF Lines
  <2>3. \A n \in 1..N : 1 < n => <<at[1], at[n]>> \in R
    BY <1>4, <1>6, <2>1 DEF Lines
  <2>4. \A n \in 1..N : n = 1 \/ 1 < n
    BY <1>1
  <2>5. at[1] \in S
    BY <1>4, <1>6, <2>1 DEF Lines
  <2> QED
    BY <2>2, <2>3, <2>4, <2>5
<1> HIDE DEF first
<1>8. ASSUME NEW j \in S PROVE Preferred(s, first, j)
  <2>1. j = first \/ Preferred(s, first, j)
    BY <1>3, <1>7
  <2>2. s[first].score \in Int /\ first \in Nat
    BY <1>2, <1>7
  <2>3. Preferred(s, first, first)
    BY <2>2 DEF Preferred
  <2> QED
    BY <2>1, <2>3
<1> DEFINE Best(i) == \A j \in DOMAIN s : Preferred(s, i, j)
<1>9. first \in DOMAIN s /\ Best(first)
  BY <1>1, <1>7, <1>8
<1>10. Chosen(s) = CHOOSE i \in DOMAIN s : Best(i)
  BY DEF Chosen, Preferred
<1> HIDE DEF Best
<1>11. Chosen(s) \in DOMAIN s /\ Best(Chosen(s))
  BY <1>9, <1>10
<1>12. \A j \in S : Preferred(s, Chosen(s), j)
  BY <1>1, <1>11 DEF Best
<1> QED
  BY <1>1, <1>2, <1>11, <1>12 DEF Preferred

IdsOf(s) == {s[i].id : i \in DOMAIN s}

\* What is chosen has ids of its own; what is left has all the others; and
\* nothing suits better than a choice but what was chosen before it.
BestFirst(pool, chosen, remaining) ==
  /\ \A i, j \in DOMAIN chosen : chosen[i].id = chosen[j].id => i = j
  /\ IdsOf(chosen) \subseteq IdsOf(pool)
  /\ ToSet(remaining) = {x \in ToSet(pool) : x.id \notin IdsOf(chosen)}
  /\ \A x \in ToSet(pool), k \in DOMAIN chosen :
       x.score > chosen[k].score => \E m \in 1..k : chosen[m].id = x.id

\* After n rounds n are chosen, unless nothing is left.
Progress(r, pool, n) ==
  /\ r.chosen \in Seq(Candidate) /\ r.remaining \in Seq(Candidate)
  /\ Len(r.chosen) <= n /\ (r.remaining # <<>> => Len(r.chosen) = n)
  /\ BestFirst(pool, r.chosen, r.remaining)

\* The first round has chosen nothing yet.
LEMMA ProgressAtFirst ==
  ASSUME NEW pool \in Seq(Candidate)
  PROVE  Progress(FirstRound(pool), pool, 0)
<1>1. FirstRound(pool).chosen = <<>> /\ FirstRound(pool).remaining = pool
  BY DEF FirstRound
<1>2. <<>> \in Seq(Candidate) /\ Len(<<>>) = 0 /\ DOMAIN <<>> = {}
  OBVIOUS
<1>3. IdsOf(<<>>) = {}
  BY DEF IdsOf
<1> QED
  BY <1>1, <1>2, <1>3 DEF Progress, BestFirst

\* What a round does: one of the highest scores is chosen, all of its id go.
Highest(left, best) == best \in ToSet(left) /\ \A x \in ToSet(left) : x.score <= best.score

IdRemoved(left, rest, best) == ToSet(rest) = {x \in ToSet(left) : x.id # best.id}

Extended(old, new, best) ==
  /\ Len(new) = Len(old) + 1 /\ new[Len(old) + 1] = best
  /\ \A i \in 1..Len(old) : new[i] = old[i]

\* What one more choice makes of the ids and of the others, whatever sequences
\* they are.
LEMMA OneMore ==
  ASSUME NEW pool \in Seq(Candidate), NEW old \in Seq(Candidate), NEW new \in Seq(Candidate),
         NEW left, NEW rest, NEW best \in Candidate, BestFirst(pool, old, left),
         Highest(left, best), IdRemoved(left, rest, best), Extended(old, new, best)
  PROVE  BestFirst(pool, new, rest)
<1> USE DEF BestFirst, Highest, IdRemoved, Extended
<1>1. /\ Len(old) \in Nat /\ DOMAIN old = 1..Len(old)
      /\ DOMAIN new = 1..(Len(old) + 1)
  BY LenProperties
<1>2. best \in ToSet(pool) /\ best.id \notin IdsOf(old)
  OBVIOUS
<1>3. \A i \in DOMAIN new : i \in DOMAIN old \/ i = Len(old) + 1
  BY <1>1
<1>4. ASSUME NEW i \in DOMAIN old
      PROVE  i \in DOMAIN new /\ new[i] = old[i] /\ old[i].id # best.id
  <2>1. old[i].id \in IdsOf(old)
    BY DEF IdsOf
  <2> QED
    BY <1>1, <1>2, <2>1
<1>5. Len(old) + 1 \in DOMAIN new
  BY <1>1
<1>6. IdsOf(new) = IdsOf(old) \cup {best.id}
  BY <1>3, <1>4, <1>5 DEF IdsOf
<1>7. \A i, j \in DOMAIN new : new[i].id = new[j].id => i = j
  BY <1>3, <1>4
<1>8. IdsOf(new) \subseteq IdsOf(pool)
  <2>1. best.id \in IdsOf(pool)
    BY <1>2 DEF IdsOf, ToSet
  <2> QED
    BY <1>6, <2>1
<1>9. ToSet(rest) = {x \in ToSet(pool) : x.id \notin IdsOf(new)}
  BY <1>6
<1>10. ASSUME NEW x \in ToSet(pool), NEW k \in DOMAIN new, x.score > new[k].score
       PROVE  \E m \in 1..k : new[m].id = x.id
  <2>1. CASE k \in DOMAIN old
    <3>1. PICK m \in 1..k : old[m].id = x.id
      BY <1>4, <1>10, <2>1
    <3>2. m \in DOMAIN old
      BY <1>1, <2>1
    <3> QED
      BY <1>4, <3>1, <3>2
  <2>2. CASE k = Len(old) + 1
    <3>1. x.score > best.score
      BY <1>10, <2>2
    <3>2. x.score \in Int /\ best.score \in Int
      <4>1. x \in Candidate
        BY LenProperties, ElementOfSeq DEF ToSet
      <4> QED
        BY <4>1 DEF Candidate
    <3>3. ~(x.score <= best.score)
      BY <3>1, <3>2
    <3>4. x.id \in IdsOf(old)
      BY <3>3
    <3>5. PICK m \in DOMAIN old : old[m].id = x.id
      BY <3>4 DEF IdsOf
    <3>6. m \in 1..k
      BY <1>1, <2>2
    <3> QED
      BY <1>4, <3>5, <3>6
  <2> QED
    BY <1>3, <2>1, <2>2
<1> QED
  BY <1>7, <1>8, <1>9, <1>10

\* And each makes one more choice, if it can.
LEMMA ProgressGoesOn ==
  ASSUME NEW pool \in Seq(Candidate), NEW n \in Nat, NEW r, Progress(r, pool, n)
  PROVE  Progress(NextRound(r), pool, n + 1)
<1>1. CASE r.remaining = <<>>
  <2>1. NextRound(r) = r
    BY <1>1 DEF NextRound
  <2>2. Len(r.chosen) <= n + 1
    <3>1. Len(r.chosen) \in Nat /\ Len(r.chosen) <= n
      BY LenProperties DEF Progress
    <3> QED
      BY <3>1
  <2> QED
    BY <1>1, <2>1, <2>2 DEF Progress
<1>2. CASE r.remaining # <<>>
  <2>1. PICK old, left : old = r.chosen /\ left = r.remaining
    OBVIOUS
  <2>2. /\ old \in Seq(Candidate) /\ left \in Seq(Candidate) /\ left # <<>> /\ Len(old) = n
        /\ BestFirst(pool, old, left)
    BY <1>2, <2>1 DEF Progress
  <2>3. PICK best : best = left[Chosen(left)]
    OBVIOUS
  <2>4. PICK P : P = {i \in DOMAIN left : left[i].id # best.id}
    OBVIOUS
  <2>5. PICK new, rest : new = Append(old, best) /\ rest = Picked(left, P)
    OBVIOUS
  <2>6. NextRound(r) = [chosen |-> new, remaining |-> rest]
    BY <1>2, <2>1, <2>3, <2>4, <2>5 DEF NextRound, Others
  <2>7. /\ Chosen(left) \in DOMAIN left
        /\ \A j \in DOMAIN left : left[j].score <= best.score
    BY <2>2, <2>3, ChosenIs
  <2>8. best \in ToSet(left) /\ \A x \in ToSet(left) : x.score <= best.score
    BY <2>3, <2>7 DEF ToSet
  <2>9. best \in Candidate
    BY <2>2, <2>3, <2>7, ElementOfSeq, LenProperties
  <2>10. rest \in Seq(Candidate) /\ ToSet(rest) = {left[i] : i \in P}
    <3>1. P \in SUBSET DOMAIN left
      BY <2>4
    <3> QED
      BY <2>2, <2>5, <3>1, PickedFrom
  <2>11. ToSet(rest) = {x \in ToSet(left) : x.id # best.id}
    BY <2>4, <2>10 DEF ToSet
  <2>12. /\ new \in Seq(Candidate) /\ Len(new) = Len(old) + 1
         /\ \A i \in 1..Len(old) : new[i] = old[i]
         /\ new[Len(old) + 1] = best
    BY <2>2, <2>5, <2>9, AppendProperties
  <2>13. BestFirst(pool, new, rest)
    <3>1. Highest(left, best) /\ IdRemoved(left, rest, best) /\ Extended(old, new, best)
      BY <2>8, <2>11, <2>12 DEF Highest, IdRemoved, Extended
    <3> QED
      BY <2>2, <2>9, <2>12, <3>1, OneMore
  <2>14. Len(new) = n + 1 /\ Len(new) <= n + 1
    BY <2>2, <2>12
  <2>15. NextRound(r).chosen = new /\ NextRound(r).remaining = rest
    BY <2>6
  <2> QED
    BY <2>10, <2>12, <2>13, <2>14, <2>15 DEF Progress
<1> QED
  BY <1>1, <1>2

\* What the loop has chosen in the end.
LEMMA SelectionProgress ==
  ASSUME NEW pool \in Seq(Candidate), NEW count \in Nat
  PROVE  \E r : Progress(r, pool, count) /\ Selection(pool, count) = r.chosen
<1>0. PICK f : Loop(f, pool, count)
  BY SelectionIs
<1>1. /\ f[0] = FirstRound(pool)
      /\ \A n \in 1..count : f[n] = NextRound(f[n - 1])
      /\ Selection(pool, count) = f[count].chosen
  BY <1>0 DEF Loop
<1> DEFINE lacking == {n \in 0..count : ~Progress(f[n], pool, n)}
<1>2. lacking = {}
  <2> SUFFICES ASSUME lacking # {} PROVE FALSE
    OBVIOUS
  <2>1. lacking \subseteq Nat
    OBVIOUS
  <2>2. PICK n \in lacking : \A m \in lacking : n <= m
    <3> HIDE DEF lacking
    <3> QED
      BY <2>1, LeastNatural
  <2>3. n # 0
    BY <1>1, <2>2, ProgressAtFirst
  <2>4. n - 1 \in 0..count /\ n - 1 \in Nat /\ n \in 1..count /\ ~(n - 1 \in lacking)
    BY <2>2, <2>3
  <2>5. Progress(f[n - 1], pool, n - 1)
    BY <2>4
  <2>6. Progress(NextRound(f[n - 1]), pool, n - 1 + 1)
    BY <2>4, <2>5, ProgressGoesOn
  <2>7. f[n] = NextRound(f[n - 1]) /\ n - 1 + 1 = n
    BY <1>1, <2>4
  <2> QED
    BY <2>2, <2>6, <2>7
<1>3. Progress(f[count], pool, count)
  BY <1>2
<1> QED
  BY <1>1, <1>3

\* generate_quiz: what BestSelected says, of the loop alone.
SelectedWell(taken, pool, count) ==
  LET short == Len(taken) < count IN
    /\ taken \in Seq(Candidate)
    /\ Cardinality(IdsOf(taken)) = Len(taken)
    /\ short <=> Cardinality(IdsOf(pool)) < count
    /\ short => IdsOf(taken) = IdsOf(pool)
    /\ ~short => Len(taken) = count
    /\ \A x \in ToSet(pool), k \in DOMAIN taken :
         x.score > taken[k].score => \E m \in 1..k : taken[m].id = x.id

\* The loop stops when nothing is left, and then it has taken every id.
LEMMA SelectionBest ==
  ASSUME NEW pool \in Seq(Candidate), NEW count \in Nat
  PROVE  SelectedWell(Selection(pool, count), pool, count)
<1>1. PICK r : Progress(r, pool, count) /\ Selection(pool, count) = r.chosen
  BY SelectionProgress
<1>2. PICK taken, left : taken = r.chosen /\ left = r.remaining
  OBVIOUS
<1>3. /\ taken \in Seq(Candidate) /\ left \in Seq(Candidate)
      /\ Len(taken) <= count /\ (left # <<>> => Len(taken) = count)
      /\ BestFirst(pool, taken, left)
  BY <1>1, <1>2 DEF Progress
<1>4. Len(taken) \in Nat /\ DOMAIN taken = 1..Len(taken)
  BY <1>3, LenProperties
<1>l. Len(taken) \in Nat /\ Len(taken) <= count /\ (Len(taken) < count => left = <<>>)
  <2>1. Len(taken) \in Nat
    BY <1>4
  <2>2. Len(taken) <= count /\ (left # <<>> => Len(taken) = count)
    BY <1>3
  <2> QED
    BY <2>1, <2>2
<1>5. IsFiniteSet(IdsOf(taken)) /\ Cardinality(IdsOf(taken)) = Len(taken)
  <2> DEFINE f == [i \in 1..Len(taken) |-> taken[i].id]
             T == IdsOf(taken)
  <2>1. T = {f[i] : i \in 1..Len(taken)}
    BY <1>4 DEF IdsOf
  <2>2. \A i, j \in 1..Len(taken) : f[i] = f[j] => i = j
    BY <1>3, <1>4 DEF BestFirst
  <2>3. DOMAIN f = 1..Len(taken) /\ f = [i \in 1..Len(taken) |-> f[i]]
    OBVIOUS
  <2> HIDE DEF f, T
  <2>4. f \in Bijection(1..Len(taken), T)
    BY <2>1, <2>2, <2>3 DEF Bijection, Injection, Surjection, IsInjective
  <2>5. IsFiniteSet(1..Len(taken)) /\ Cardinality(1..Len(taken)) = Len(taken)
    BY <1>4, UpTo
  <2>6. IsFiniteSet(T) /\ Cardinality(T) = Len(taken)
    BY <2>4, <2>5, FS_Bijection DEF ExistsBijection
  <2> QED
    BY <2>6 DEF T
<1>6. IsFiniteSet(IdsOf(pool)) /\ Cardinality(IdsOf(pool)) \in Nat
  <2> DEFINE f == [i \in DOMAIN pool |-> pool[i].id]
  <2>1. IdsOf(pool) = {f[i] : i \in DOMAIN pool}
    BY DEF IdsOf
  <2>2. IsFiniteSet(DOMAIN pool)
    BY LenProperties, UpTo
  <2> HIDE DEF f
  <2>3. IsFiniteSet(IdsOf(pool))
    BY <2>1, <2>2, FiniteImage
  <2> QED
    BY <2>3, FS_CardinalityType
<1>7. Cardinality(IdsOf(taken)) <= Cardinality(IdsOf(pool))
  BY <1>3, <1>6, FS_Subset DEF BestFirst
<1>8. ASSUME Len(taken) < count PROVE IdsOf(taken) = IdsOf(pool)
  <2>1. left = <<>>
    BY <1>8, <1>l
  <2>2. ToSet(left) = {}
    BY <2>1 DEF ToSet
  <2>3. \A x \in ToSet(pool) : x.id \in IdsOf(taken)
    BY <1>3, <2>2 DEF BestFirst
  <2>4. \A i \in DOMAIN pool : pool[i].id \in IdsOf(taken)
    BY <2>3 DEF ToSet
  <2>5. IdsOf(taken) \subseteq IdsOf(pool)
    BY <1>3 DEF BestFirst
  <2>6. IdsOf(pool) \subseteq IdsOf(taken)
    BY <2>4 DEF IdsOf
  <2> QED
    BY <2>5, <2>6
<1>9. Len(taken) < count <=> Cardinality(IdsOf(pool)) < count
  BY <1>5, <1>6, <1>7, <1>8, <1>l
<1>10. ~(Len(taken) < count) => Len(taken) = count
  BY <1>l
<1> QED
  BY <1>1, <1>2, <1>3, <1>5, <1>8, <1>9, <1>10 DEF SelectedWell, BestFirst

-----------------------------------------------------------------------------
(* From a candidate to a question                                          *)

\* A sequence cut off after its fourth element has the first four.
LEMMA FirstFour ==
  ASSUME NEW u
  PROVE  /\ DOMAIN SubSeq(u, 1, 4) = 1..4
         /\ \A i \in 1..4 : SubSeq(u, 1, 4)[i] = u[i]
<1> DEFINE T == {u[i] : i \in 1..4}
<1>1. \A i \in 1..4 : u[i] \in T
  OBVIOUS
<1> HIDE DEF T
<1>2. /\ SubSeq(u, 1, 4) \in Seq(T) /\ Len(SubSeq(u, 1, 4)) = 4
      /\ \A i \in 1..4 : SubSeq(u, 1, 4)[i] = u[1 + i - 1]
  BY <1>1, SubSeqProperties
<1>3. \A i \in 1..4 : 1 + i - 1 = i
  OBVIOUS
<1> QED
  BY <1>2, <1>3, LenProperties

\* No option is empty.
Filled(options) == "" \notin ToSet(options)

\* Any four values form a sequence of them.
LEMMA FourInSeq ==
  ASSUME NEW a, NEW b, NEW c, NEW d
  PROVE  <<a, b, c, d>> \in Seq({a, b, c, d})
OBVIOUS

\* The four fillers of _normalise_candidate are a sequence.
LEMMA FillersTyped == \E S : Fillers \in Seq(S)
BY FourInSeq, Zenon DEF Fillers

\* Without an empty option and with at most four, the options that are shown
\* begin with those that were given, in their places.
LEMMA OptionsInPlace ==
  ASSUME NEW raw \in Candidate, Filled(raw.options), Len(raw.options) <= 4
  PROVE  /\ DOMAIN Options(raw) = 1..4 /\ DOMAIN raw.options \subseteq 1..4
         /\ \A i \in DOMAIN raw.options : Options(raw)[i] = Stripped(raw.options[i])
<1>1. PICK s : s = raw.options
  OBVIOUS
<1>2. s \in Seq(STRING) /\ Filled(s) /\ Len(s) <= 4
  BY <1>1 DEF Candidate
<1>3. DOMAIN s = 1..Len(s) /\ Len(s) \in Nat
  BY <1>2, LenProperties
<1>4. {i \in DOMAIN s : s[i] # ""} = DOMAIN s
  BY <1>2, Zenon DEF ToSet, Filled
<1>5. Picked(s, {i \in DOMAIN s : s[i] # ""}) = s
  <2>1. Picked(s, DOMAIN s) = s
    BY <1>2, PickedAll
  <2> QED
    BY <1>4, <2>1, Zenon
<1>6. Given(raw) = [i \in DOMAIN s |-> Stripped(s[i])]
  BY <1>1, <1>5, Zenon DEF Given
<1>7. PICK given, more : given = Given(raw) /\ more = Missing(given)
  OBVIOUS
<1>8. PICK F : Fillers \in Seq(F)
  BY FillersTyped
<1> DEFINE S == F \cup {Stripped(s[i]) : i \in 1..Len(s)}
<1>9. given = [i \in 1..Len(s) |-> Stripped(s[i])]
  BY <1>3, <1>6, <1>7, Zenon
<1>10. given \in Seq(S) /\ Len(given) = Len(s)
  <2>1. \A i \in 1..Len(s) : given[i] \in S
    BY <1>9
  <2>2. DOMAIN given = 1..Len(s) /\ given = [i \in 1..Len(s) |-> given[i]]
    BY <1>9
  <2> HIDE DEF S
  <2> QED
    BY <1>3, <2>1, <2>2
<1>11. more \in Seq(S)
  <2>1. PICK P : P = {i \in DOMAIN Fillers : Fillers[i] \notin ToSet(given)}
    OBVIOUS
  <2>2. P \in SUBSET DOMAIN Fillers
    BY <2>1
  <2>3. more = Picked(Fillers, P)
    BY <1>7, <2>1, Zenon DEF Missing
  <2>4. more \in Seq(F)
    BY <1>8, <2>2, <2>3, PickedFrom
  <2>5. F \subseteq S
    OBVIOUS
  <2> HIDE DEF S
  <2> QED
    BY <2>4, <2>5
<1> HIDE DEF S
<1>12. PICK u : u = given \o more
  OBVIOUS
<1>13. \A i \in 1..Len(s) : u[i] = given[i]
  <2>1. Len(more) \in Nat
    BY <1>11, LenProperties
  <2>2. \A i \in 1..(Len(s) + Len(more)) : u[i] = IF i <= Len(s) THEN given[i] ELSE more[i - Len(s)]
    BY <1>10, <1>11, <1>12, ConcatProperties
  <2>3. \A i \in 1..Len(s) : i <= Len(s) /\ i \in 1..(Len(s) + Len(more))
    BY <1>3, <2>1
  <2> QED
    BY <2>2, <2>3
<1>14. Options(raw) = SubSeq(u, 1, 4)
  BY <1>7, <1>12, Zenon DEF Options
<1>15. 1..Len(s) \subseteq 1..4
  BY <1>2, <1>3
<1>16. \A i \in 1..Len(s) : SubSeq(u, 1, 4)[i] = Stripped(s[i])
  BY <1>9, <1>13, <1>15, FirstFour
<1> QED
  BY <1>1, <1>3, <1>14, <1>15, <1>16, FirstFour

\* The first option with a text is found where the text is one of the options.
LEMMA FirstOf ==
  ASSUME NEW options, DOMAIN options = 1..4, NEW x \in ToSet(options)
  PROVE  LET first == CHOOSE i \in 1..4 :
                        /\ options[i] = x
                        /\ \A j \in 1..(i - 1) : options[j] # x
         IN options[first] = x
<1> DEFINE S == {i \in 1..4 : options[i] = x}
<1>1. S \subseteq Nat /\ S # {}
  BY DEF ToSet
<1>2. PICK n \in S : \A m \in S : n <= m
  <2> HIDE DEF S
  <2> QED
    BY <1>1, LeastNatural
<1>3. n \in 1..4 /\ options[n] = x
  OBVIOUS
<1>4. \A j \in 1..(n - 1) : options[j] # x
  BY <1>2, <1>3
<1> QED
  BY <1>3, <1>4

\* A question that could be stored is graded by the option that was marked.
LEMMA KeyRight ==
  ASSUME NEW raw \in Candidate, Filled(Options(raw)),
         Filled(raw.options), Len(raw.options) <= 4, Clear(raw)
  PROVE  Marked(raw) \subseteq {Options(raw)[Key(Options(raw), raw.mark)]}
<1>1. PICK options, mark, given : options = Options(raw) /\ mark = raw.mark /\ given = raw.options
  OBVIOUS
<1>2. /\ DOMAIN options = 1..4 /\ DOMAIN given \subseteq 1..4
      /\ \A i \in DOMAIN given : options[i] = Stripped(given[i])
      /\ Filled(options)
  BY <1>1, OptionsInPlace
<1>3. SUFFICES ASSUME NEW i \in DOMAIN given, given[i] = mark \/ i \in Named(mark)
               PROVE  options[Key(options, mark)] = Stripped(given[i])
  BY <1>1 DEF Marked
<1>4. i \in 1..4 /\ options[i] = Stripped(given[i])
  BY <1>2
<1>5. given[i] = mark => Named(mark) = {}
  BY <1>1 DEF Clear, ToSet
<1>6. CASE mark \in DOMAIN Numerals
  <2>d. mark \notin DOMAIN Letters
    BY <1>6, QuizAssumption DEF QuizAssumption
  <2>n. Named(mark) = {Numerals[mark] + 1}
    BY <1>6, <2>d, Zenon DEF Named
  <2>1. i = Numerals[mark] + 1
    BY <1>3, <1>5, <2>n
  <2>2. Numerals[mark] \in Nat
    BY <1>6, QuizAssumption DEF QuizAssumption
  <2>3. Numerals[mark] < 4
    BY <1>4, <2>1, <2>2
  <2>4. Key(options, mark) = IF Numerals[mark] < 4 THEN Numerals[mark] + 1 ELSE 1
    BY <1>6, <2>d, Zenon DEF Key
  <2> QED
    BY <1>4, <2>1, <2>3, <2>4
<1>7. CASE mark \in DOMAIN Letters
  <2>1. mark \notin DOMAIN Numerals
    BY <1>7, QuizAssumption DEF QuizAssumption
  <2>2. i = Letters[mark]
    BY <1>3, <1>5, <1>7, <2>1 DEF Named
  <2>3. Key(options, mark) = i
    BY <1>7, <2>1, <2>2 DEF Key
  <2> QED
    BY <1>4, <2>3
<1>8. CASE mark \notin DOMAIN Numerals /\ mark \notin DOMAIN Letters
  <2>1. given[i] = mark
    BY <1>3, <1>8 DEF Named
  <2>2. options[i] \in ToSet(options)
    BY <1>2, <1>4 DEF ToSet
  <2>3. PICK x : x = Stripped(mark)
    OBVIOUS
  <2>4. x \in ToSet(options)
    BY <1>4, <2>1, <2>2, <2>3
  <2>5. Key(options, mark) = CHOOSE n \in 1..4 :
                               /\ options[n] = x
                               /\ \A j \in 1..(n - 1) : options[j] # x
    BY <1>8, <2>3, <2>4, Zenon DEF Key
  <2> QED
    BY <1>2, <2>1, <2>3, <2>4, <2>5, FirstOf
<1> QED
  BY <1>6, <1>7, <1>8

-----------------------------------------------------------------------------
(* The quiz that is made                                                   *)

\* A quiz has the questions of candidates, the best ones, and once it is
\* stored none of their options is empty.
Judged ==
  /\ turn.pc \in {"seeking", "asking"} => turn.count \in Nat
  /\ turn.pc \in {"made", "stored"} =>
       \A i \in DOMAIN turn.questions : \E raw \in Candidate : turn.questions[i] = Question(raw)
  /\ turn.pc = "stored" => \A i \in DOMAIN turn.questions : Filled(turn.questions[i].options)
  /\ BestSelected

\* BestSelected, of the parts of a quiz, before and after a step.
BestOf(taken, pool, count, short) ==
  /\ Cardinality(IdsOf(taken)) = Len(taken)
  /\ short <=> Cardinality(IdsOf(pool)) < count
  /\ short => IdsOf(taken) = IdsOf(pool)
  /\ ~short => Len(taken) = count
  /\ \A i \in DOMAIN pool, k \in DOMAIN taken :
       pool[i].score > taken[k].score => \E m \in 1..k : taken[m].id = pool[i].id

\* BestSelected is BestOf of the quiz that is made.
LEMMA BestIs ==
  /\ BestSelected <=>
       (turn.pc = "made" =>
          BestOf([i \in DOMAIN turn.questions |-> turn.questions[i].raw],
                 turn.pool, turn.count, turn.short))
  /\ BestSelected' <=>
       (turn'.pc = "made" =>
          BestOf([i \in DOMAIN turn'.questions |-> turn'.questions[i].raw],
                 turn'.pool, turn'.count, turn'.short))
BY DEF BestSelected, BestOf, IdsOf

\* A question keeps the candidate it is made of.
LEMMA QuestionIs ==
  ASSUME NEW raw
  PROVE  /\ Question(raw).raw = raw /\ Question(raw).options = Options(raw)
         /\ Question(raw).key = Key(Options(raw), raw.mark)
BY DEF Question

\* What the selection promises, it promises of the quiz.
LEMMA GenerateDoes ==
  ASSUME Judged, NEW pool \in Pools, Generate(pool)
  PROVE  Judged'
<1>1. PICK candidates : candidates = Prompted(pool)
  OBVIOUS
<1>2. candidates \in Seq(Candidate)
  <2>1. pool \in Seq(Candidate)
    BY QuizAssumption DEF QuizAssumption
  <2>2. PICK P : P = {i \in DOMAIN pool : pool[i].prompt # "empty"}
    OBVIOUS
  <2>3. P \in SUBSET DOMAIN pool
    BY <2>2
  <2>4. candidates = Picked(pool, P)
    BY <1>1, <2>2 DEF Prompted
  <2> QED
    BY <2>1, <2>3, <2>4, PickedFrom
<1>3. turn.count \in Nat
  BY DEF Judged, Generate
<1>4. PICK taken : taken = Selection(candidates, turn.count)
  OBVIOUS
<1>5. SelectedWell(taken, candidates, turn.count)
  BY <1>2, <1>3, <1>4, SelectionBest
<1>6. turn' = [pc |-> "made", count |-> turn.count, chosen |-> turn.chosen,
               source |-> turn.source, pool |-> candidates,
               questions |-> [i \in DOMAIN taken |-> Question(taken[i])],
               short |-> Len(taken) < turn.count]
  BY <1>1, <1>4 DEF Generate
<1>7. /\ turn'.pc = "made" /\ turn'.count = turn.count /\ turn'.pool = candidates
      /\ turn'.questions = [i \in DOMAIN taken |-> Question(taken[i])]
      /\ turn'.short = (Len(taken) < turn.count)
  BY <1>6
<1>8. taken \in Seq(Candidate)
  BY <1>5 DEF SelectedWell
<1>9. \A i \in DOMAIN taken : taken[i] \in Candidate
  BY <1>8, ElementOfSeq, LenProperties
<1>10. \A i \in DOMAIN turn'.questions : \E raw \in Candidate : turn'.questions[i] = Question(raw)
  BY <1>7, <1>9
<1>11. [i \in DOMAIN turn'.questions |-> turn'.questions[i].raw] = taken
  <2>1. DOMAIN turn'.questions = DOMAIN taken
    BY <1>7
  <2>2. \A i \in DOMAIN taken : turn'.questions[i].raw = taken[i]
    BY <1>7, QuestionIs
  <2>3. taken = [i \in DOMAIN taken |-> taken[i]]
    BY <1>8, LenProperties
  <2> QED
    BY <2>1, <2>2, <2>3
<1>13. \A i \in DOMAIN candidates, k \in DOMAIN taken :
         candidates[i].score > taken[k].score =>
           \E m \in 1..k : taken[m].id = candidates[i].id
  <2>1. \A i \in DOMAIN candidates : candidates[i] \in ToSet(candidates)
    BY DEF ToSet
  <2> QED
    BY <1>5, <2>1 DEF SelectedWell
<1>14. BestSelected'
  <2>1. /\ Cardinality(IdsOf(taken)) = Len(taken)
        /\ turn'.short <=> Cardinality(IdsOf(candidates)) < turn'.count
        /\ turn'.short => IdsOf(taken) = IdsOf(candidates)
        /\ ~turn'.short => Len(taken) = turn'.count
    BY <1>5, <1>7 DEF SelectedWell
  <2>2. BestOf(taken, candidates, turn'.count, turn'.short)
    BY <1>13, <2>1 DEF BestOf
  <2> QED
    BY <1>7, <1>11, <2>2, BestIs
<1> QED
  BY <1>7, <1>10, <1>14 DEF Judged

\* What is stored has been found without empty options.
LEMMA StorableFilled ==
  Storable => \A i \in DOMAIN turn.questions : Filled(turn.questions[i].options)
BY Zenon DEF Storable, Filled

\* The steps before and after keep the quiz as it is.
LEMMA JudgedStep == Judged /\ [Next]_vars => Judged'
<1> SUFFICES ASSUME Judged, [Next]_vars PROVE Judged'
  OBVIOUS
<1>s. ASSUME turn' = turn PROVE Judged'
  <2>1. BestSelected'
    BY <1>s, BestIs DEF Judged
  <2> QED
    BY <1>s, <2>1 DEF Judged
<1>o. ASSUME turn'.pc = "idle" PROVE Judged'
  BY <1>o DEF Judged, BestSelected
<1>c. ASSUME turn'.pc \in {"seeking", "asking"}, turn'.count \in Nat PROVE Judged'
  BY <1>c DEF Judged, BestSelected
<1>1. CASE WriteMeanwhile
  <2>1. CASE turn.pc # "seeking"
    BY <1>1, <1>s, <2>1 DEF WriteMeanwhile
  <2>2. CASE turn.pc = "seeking"
    <3>1. turn' = [turn EXCEPT !.steady = @ \cap Searchable(index')]
      BY <1>1, <2>2 DEF WriteMeanwhile
    <3>2. turn'.pc = turn.pc /\ turn'.count = turn.count
      BY <3>1
    <3> QED
      BY <1>c, <2>2, <3>2 DEF Judged
  <2> QED
    BY <2>1, <2>2
<1>2. CASE ReadMeanwhile
  BY <1>2, <1>s DEF ReadMeanwhile, quizVars
<1>3. ASSUME NEW n \in Counts, NEW e, NEW c, StartTurn(n, e, c) PROVE Judged'
  <2>1. turn'.pc = "seeking" /\ turn'.count = Clamped(n)
    BY <1>3 DEF StartTurn
  <2> QED
    BY <1>c, <2>1, ClampedTyped
<1>4. CASE Seek
  <2>1. turn'.pc = "asking" /\ turn'.count = turn.count
    BY <1>4 DEF Seek, Found
  <2> QED
    BY <1>4, <1>c, <2>1 DEF Seek, Judged
<1>5. ASSUME NEW failed \in BOOLEAN, SeekOn(failed) PROVE Judged'
  <2>1. turn.pc = "seeking"
    BY <1>5 DEF SeekOn
  <2>2. turn'.pc \in {"seeking", "asking"} /\ turn'.count = turn.count
    <3>1. ASSUME NEW c, turn' = [turn EXCEPT !.at = c, !.left = @ \ {c}, !.failed = @ \/ failed]
          PROVE  turn'.pc = turn.pc /\ turn'.count = turn.count
      BY <3>1
    <3>2. ASSUME turn' = Found(NoCourse, turn.failed \/ failed)
          PROVE  turn'.pc = "asking" /\ turn'.count = turn.count
      BY <3>2 DEF Found
    <3> QED
      BY <1>5, <2>1, <3>1, <3>2 DEF SeekOn
  <2> QED
    BY <1>c, <2>1, <2>2 DEF Judged
<1>6. ASSUME NEW pool \in Pools, Generate(pool) PROVE Judged'
  BY <1>6, GenerateDoes
<1>7. CASE GiveUp \/ EndTurn
  BY <1>7, <1>o DEF GiveUp, EndTurn, NoTurn
<1>8. CASE Store
  <2>1. CASE ~Storable
    BY <1>8, <1>o, <2>1 DEF Store, NoTurn
  <2>2. CASE Storable
    <3>1. turn.pc = "made" /\ turn'.pc = "stored" /\ turn'.questions = turn.questions
      BY <1>8, <2>2 DEF Store
    <3> QED
      BY <2>2, <3>1, StorableFilled DEF Judged, BestSelected
  <2> QED
    BY <2>1, <2>2
<1>9. ASSUME NEW c \in Courses, DeleteCourse(c) PROVE Judged'
  BY <1>9, <1>s DEF DeleteCourse
<1>10. CASE UNCHANGED vars
  BY <1>10, <1>s DEF vars, quizVars
<1> QED
  BY <1>1, <1>2, <1>3, <1>4, <1>5, <1>6, <1>7, <1>8, <1>9, <1>10 DEF Next

\* Every quiz is judged so, from the first state on.
LEMMA JudgedAlways == Spec => []Judged
<1>1. Init => Judged
  BY DEF Init, Judged, BestSelected, NoTurn
<1> QED
  BY <1>1, JudgedStep, PTL DEF Spec

\* generate_quiz: whatever the model returns, the questions are of the best
\* candidates, each id once, as many as were asked for or as there are, and a
\* quiz says that it is short exactly when the ids run out.
THEOREM TheBestAreTaken == Spec => []BestSelected
<1>1. Judged => BestSelected
  BY DEF Judged
<1> QED
  BY <1>1, JudgedAlways, PTL

\* _normalise_candidate and quiz_create: however the model marks the correct
\* option, a stored question is graded by it, if none given was empty, none was
\* cut off, and the mark is not the text of an option that has the form of a
\* position, which is what the code then takes it for.
THEOREM GradedAsMarked == Spec => []KeyAsMarked
<1>1. Judged => KeyAsMarked
  <2>1. ASSUME Judged, turn.pc = "stored", NEW i \in DOMAIN turn.questions,
               Filled(turn.questions[i].raw.options),
               Len(turn.questions[i].raw.options) <= 4, Clear(turn.questions[i].raw)
        PROVE  Marked(turn.questions[i].raw)
                 \subseteq {turn.questions[i].options[turn.questions[i].key]}
    <3>1. PICK raw \in Candidate : turn.questions[i] = Question(raw)
      BY <2>1 DEF Judged
    <3>2. Filled(turn.questions[i].options)
      BY <2>1 DEF Judged
    <3> QED
      BY <2>1, <3>1, <3>2, QuestionIs, KeyRight
  <2> QED
    BY <2>1, Zenon DEF KeyAsMarked, Filled
<1> QED
  BY <1>1, JudgedAlways, PTL
=============================================================================
