------------------------- MODULE QuizAttempt_proofs -------------------------
(***************************************************************************)
(* Proofs about QuizAttempt for any questions, options and threads: the    *)
(* types, that whatever races its completion, a completed attempt has every *)
(* question answered, and that a client which waits for its answers gets   *)
(* their grades and their score.                                           *)
(***************************************************************************)
EXTENDS QuizAttempt, FiniteSetTheorems, TLAPS

Requests ==
  {Idle}
  \cup [op : {"checked", "answering"}, q : Questions, opt : Options,
        row : Answer \cup {NoAnswer}]
  \cup [op : {"completing"}, read : [Questions -> Answer]]

\* Serving a request keeps the table of requests typed.
LEMMA ServeTyped ==
  ASSUME TypeOK, NEW t \in Threads, NEW r \in Requests, Serve(t, r)
  PROVE  request' \in [Threads -> Requests]
BY DEF TypeOK, Serve, Requests

\* What is stored for an answer is an answer, whatever was read and changed.
LEMMA StoredTyped ==
  ASSUME NEW row \in Answer \cup {NoAnswer}, NEW now, NEW o \in Options,
         row = NoAnswer \/ now \in Answer
  PROVE  Stored(row, now, o) \in Answer
<1>1. (o = Right) \in BOOLEAN
  OBVIOUS
<1> QED
  BY <1>1 DEF Stored, Answer

\* A number of questions is within the bounds of the score.
LEMMA Counted ==
  ASSUME NEW S, S \subseteq Questions
  PROVE  Cardinality(S) \in 0..Cardinality(Questions)
<1>1. IsFiniteSet(Questions)
  BY QuestionsAssumption DEF QuestionsAssumption
<1>2. /\ Cardinality(S) <= Cardinality(Questions) /\ IsFiniteSet(S)
  BY <1>1, FS_Subset
<1>3. Cardinality(S) \in Nat /\ Cardinality(Questions) \in Nat
  BY <1>1, <1>2, FS_CardinalityType
<1> QED
  BY <1>2, <1>3

-----------------------------------------------------------------------------
(* The inductive invariant: as long as the quiz is there, an answer row    *)
(* that a request has read stays, and so do the answers of an attempt that *)
(* is complete or about to be.                                             *)

Kept ==
  status # "gone" =>
    /\ \A t \in Threads :
         request[t].op \in {"checked", "answering"} /\ request[t].row # NoAnswer
           => answers[request[t].q] # NoAnswer
    /\ status = "completed" \/ (\E t \in Threads : request[t].op = "completing")
         => Complete

\* The types are kept, given the invariant Kept.
LEMMA TypeStep == TypeOK /\ Kept /\ [Next]_vars => TypeOK'
<1> SUFFICES ASSUME TypeOK, Kept, [Next]_vars PROVE TypeOK'
  OBVIOUS
<1>1. CASE StartAttempt
  BY <1>1 DEF StartAttempt, TypeOK
<1>2. CASE DeleteQuiz
  BY <1>2 DEF DeleteQuiz, TypeOK
<1>3. ASSUME NEW t \in Threads, NEW q \in Questions, NEW o \in Options,
             AnswerChecks(t, q, o)
      PROVE  TypeOK'
  <2>1. [op |-> "checked", q |-> q, opt |-> o, row |-> answers[q]] \in Requests
    BY DEF TypeOK, Requests
  <2>2. request' \in [Threads -> Requests]
    BY <1>3, <2>1, ServeTyped DEF AnswerChecks
  <2>3. raced' \in BOOLEAN
    BY <1>3 DEF AnswerChecks
  <2> QED
    BY <1>3, <2>2, <2>3 DEF AnswerChecks, TypeOK, Requests
<1>4. ASSUME NEW t \in Threads, AnswerReads(t) PROVE TypeOK'
  <2> DEFINE r == request[t]
  <2>1. r \in [op : {"checked", "answering"}, q : Questions, opt : Options,
               row : Answer \cup {NoAnswer}]
    BY <1>4 DEF AnswerReads, TypeOK, Idle
  <2>2. [r EXCEPT !.op = "answering",
                  !.row = IF @ = NoAnswer THEN answers[r.q] ELSE @] \in Requests
    BY <2>1 DEF TypeOK, Requests
  <2>3. request' \in [Threads -> Requests]
    BY <1>4, <2>2, ServeTyped DEF AnswerReads
  <2> QED
    BY <1>4, <2>3 DEF AnswerReads, TypeOK, Requests
<1>5. ASSUME NEW t \in Threads, AnswerCommits(t) PROVE TypeOK'
  <2>1. request' \in [Threads -> Requests]
    BY <1>5, ServeTyped DEF AnswerCommits, Requests
  <2>2. answers' \in [Questions -> Answer \cup {NoAnswer}]
    <3> DEFINE r == request[t]
    <3>1. r \in [op : {"checked", "answering"}, q : Questions, opt : Options,
                 row : Answer \cup {NoAnswer}]
      BY <1>5 DEF AnswerCommits, TypeOK, Idle
    <3>2. CASE Inserts(r) \/ Updates(r)
      <4>1. r.row = NoAnswer \/ answers[r.q] \in Answer
        BY <3>1, <3>2 DEF Inserts, Updates, TypeOK
      <4>2. Stored(r.row, answers[r.q], r.opt) \in Answer
        BY <3>1, <4>1, StoredTyped
      <4> QED
        BY <1>5, <3>1, <4>2 DEF AnswerCommits, TypeOK
    <3>3. CASE UNCHANGED answers
      BY <3>3 DEF TypeOK
    <3> QED
      BY <1>5, <3>2, <3>3 DEF AnswerCommits
  <2> QED
    BY <1>5, <2>1, <2>2 DEF AnswerCommits, TypeOK, Requests
<1>6. ASSUME NEW t \in Threads, CompleteChecks(t) PROVE TypeOK'
  <2>1. [op |-> "completing", read |-> answers] \in Requests
    BY <1>6 DEF CompleteChecks, Complete, TypeOK, Requests
  <2>2. request' \in [Threads -> Requests]
    BY <1>6, <2>1, ServeTyped DEF CompleteChecks
  <2>3. raced' \in BOOLEAN
    BY <1>6 DEF CompleteChecks
  <2> QED
    BY <1>6, <2>2, <2>3 DEF CompleteChecks, TypeOK, Requests
<1>7. ASSUME NEW t \in Threads, CompleteCommits(t) PROVE TypeOK'
  <2>1. request' \in [Threads -> Requests]
    BY <1>7, ServeTyped DEF CompleteCommits, Requests
  <2>2. score' \in 0..Cardinality(Questions)
    BY <1>7, Counted DEF CompleteCommits, TypeOK
  <2> QED
    BY <1>7, <2>1, <2>2 DEF CompleteCommits, WeakIn, TypeOK, Requests
<1>8. CASE UNCHANGED vars
  BY <1>8 DEF vars, TypeOK
<1> QED
  BY <1>1, <1>2, <1>3, <1>4, <1>5, <1>6, <1>7, <1>8 DEF Next

\* A missing answer is not an answer, since "none" is no option.
LEMMA NoAnswerIsNone == NoAnswer \notin Answer
BY OptionsAssumption DEF OptionsAssumption, NoAnswer, Answer

\* An answer row stays as long as the quiz does.
LEMMA AnswersStay ==
  ASSUME TypeOK, Kept, [Next]_vars, status' # "gone", NEW q \in Questions,
         answers[q] # NoAnswer
  PROVE  answers'[q] # NoAnswer /\ status # "gone"
<1>1. status # "gone"
  BY DEF Next, StartAttempt, DeleteQuiz, AnswerChecks, AnswerReads, AnswerCommits,
         CompleteChecks, CompleteCommits, vars
<1>2. ASSUME NEW t \in Threads, AnswerCommits(t) PROVE answers'[q] # NoAnswer
  <2> DEFINE r == request[t]
  <2>1. r \in [op : {"checked", "answering"}, q : Questions, opt : Options,
               row : Answer \cup {NoAnswer}]
    BY <1>2 DEF AnswerCommits, TypeOK, Idle
  <2>2. CASE Inserts(r) \/ Updates(r)
    <3>1. r.row = NoAnswer \/ answers[r.q] \in Answer
      BY <2>1, <2>2 DEF Inserts, Updates, TypeOK
    <3>2. Stored(r.row, answers[r.q], r.opt) \in Answer
      BY <2>1, <3>1, StoredTyped
    <3> QED
      BY <1>2, <2>1, <3>2, NoAnswerIsNone DEF AnswerCommits, TypeOK
  <2>3. CASE UNCHANGED answers
    BY <2>3
  <2> QED
    BY <1>2, <2>2, <2>3 DEF AnswerCommits
<1>3. CASE \A t \in Threads : ~AnswerCommits(t)
  <2>1. ~DeleteQuiz
    BY DEF DeleteQuiz
  <2> QED
    BY <1>3, <2>1 DEF Next, StartAttempt, AnswerChecks, AnswerReads,
                      CompleteChecks, CompleteCommits, vars
<1> QED
  BY <1>1, <1>2, <1>3

\* Kept is inductive, given the types.
LEMMA KeptStep == TypeOK /\ Kept /\ [Next]_vars => Kept'
<1> SUFFICES ASSUME TypeOK, Kept, [Next]_vars, status' # "gone" PROVE Kept'
  BY DEF Kept
<1>1. status # "gone"
  BY DEF Next, StartAttempt, DeleteQuiz, AnswerChecks, AnswerReads, AnswerCommits,
         CompleteChecks, CompleteCommits, vars
<1>2. ASSUME NEW t \in Threads,
             request'[t].op \in {"checked", "answering"},
             request'[t].row # NoAnswer
      PROVE  answers'[request'[t].q] # NoAnswer
  <2>1. CASE request'[t] = request[t]
    <3>1. request[t].q \in Questions
      BY <1>2, <2>1 DEF TypeOK, Idle
    <3> QED
      BY <1>1, <1>2, <2>1, <3>1, AnswersStay DEF Kept
  <2>2. ASSUME NEW q \in Questions, NEW o \in Options, AnswerChecks(t, q, o)
        PROVE  answers'[request'[t].q] # NoAnswer
    <3>1. request'[t] = [op |-> "checked", q |-> q, opt |-> o, row |-> answers[q]]
      BY <2>2 DEF AnswerChecks, Serve, TypeOK
    <3> QED
      BY <1>2, <2>2, <3>1, AnswersStay
  <2>3. CASE AnswerReads(t)
    <3>1. request[t] \in [op : {"checked", "answering"}, q : Questions,
                          opt : Options, row : Answer \cup {NoAnswer}]
      BY <2>3 DEF AnswerReads, TypeOK, Idle
    <3>2. request'[t].q = request[t].q
      BY <2>3, <3>1 DEF AnswerReads, Serve, TypeOK
    <3>3. request[t].row = NoAnswer => request'[t].row = answers[request[t].q]
      BY <2>3, <3>1 DEF AnswerReads, Serve, TypeOK
    <3>4. answers[request[t].q] # NoAnswer
      BY <1>1, <1>2, <3>1, <3>3 DEF Kept
    <3> QED
      BY <3>1, <3>2, <3>4, AnswersStay
  <2>4. CASE AnswerCommits(t) \/ CompleteChecks(t) \/ CompleteCommits(t)
    BY <1>2, <2>4 DEF AnswerCommits, CompleteChecks, CompleteCommits, Serve,
                      TypeOK, Idle
  <2> QED
    <3>1. CASE StartAttempt \/ DeleteQuiz \/ UNCHANGED vars
      BY <2>1, <3>1 DEF StartAttempt, DeleteQuiz, vars
    <3>2. ASSUME NEW u \in Threads, u # t,
                 \/ AnswerReads(u) \/ AnswerCommits(u)
                 \/ CompleteChecks(u) \/ CompleteCommits(u)
                 \/ \E q \in Questions, o \in Options : AnswerChecks(u, q, o)
          PROVE  request'[t] = request[t]
      BY <3>2 DEF AnswerReads, AnswerCommits, CompleteChecks, CompleteCommits,
                  AnswerChecks, Serve, TypeOK
    <3> QED
      BY <2>1, <2>2, <2>3, <2>4, <3>1, <3>2 DEF Next
<1>3. ASSUME status' = "completed" \/ \E t \in Threads : request'[t].op = "completing"
      PROVE  Complete'
  <2>1. ASSUME Complete PROVE Complete'
    BY <2>1, AnswersStay DEF Complete
  <2>2. CASE \E t \in Threads : CompleteChecks(t)
    BY <2>1, <2>2 DEF CompleteChecks
  <2>3. CASE \A t \in Threads : ~CompleteChecks(t)
    <3>1. ASSUME NEW t \in Threads, request'[t].op = "completing"
          PROVE  request[t].op = "completing"
      <4>1. CASE AnswerReads(t)
        <5>1. request[t] \in [op : {"checked", "answering"}, q : Questions,
                              opt : Options, row : Answer \cup {NoAnswer}]
          BY <4>1 DEF AnswerReads, TypeOK, Idle
        <5>2. request'[t].op = "answering"
          BY <4>1, <5>1 DEF AnswerReads, Serve, TypeOK
        <5> QED
          BY <3>1, <5>2
      <4>2. CASE AnswerCommits(t) \/ CompleteCommits(t)
        BY <3>1, <4>2 DEF AnswerCommits, CompleteCommits, Serve, TypeOK, Idle
      <4>3. ASSUME NEW q \in Questions, NEW o \in Options, AnswerChecks(t, q, o)
            PROVE  FALSE
        BY <3>1, <4>3 DEF AnswerChecks, Serve, TypeOK
      <4>4. CASE StartAttempt \/ DeleteQuiz \/ UNCHANGED vars
        BY <3>1, <4>4 DEF StartAttempt, DeleteQuiz, vars
      <4>5. ASSUME NEW u \in Threads, u # t,
                   \/ AnswerReads(u) \/ AnswerCommits(u) \/ CompleteCommits(u)
                   \/ \E q \in Questions, o \in Options : AnswerChecks(u, q, o)
            PROVE  request'[t] = request[t]
        BY <4>5 DEF AnswerReads, AnswerCommits, CompleteCommits, AnswerChecks,
                    Serve, TypeOK
      <4> QED
        BY <2>3, <3>1, <4>1, <4>2, <4>3, <4>4, <4>5 DEF Next
    <3>2. ASSUME status' = "completed"
          PROVE  status = "completed" \/ \E t \in Threads : request[t].op = "completing"
      BY <2>3, <3>2 DEF Next, StartAttempt, DeleteQuiz, AnswerChecks, AnswerReads,
         AnswerCommits, CompleteCommits, vars
    <3> QED
      BY <1>1, <1>3, <2>1, <3>1, <3>2 DEF Kept
  <2> QED
    BY <2>2, <2>3
<1> QED
  BY <1>2, <1>3 DEF Kept

\* Every reachable state satisfies both.
LEMMA Invariant == Spec => [](TypeOK /\ Kept)
<1>1. Init => TypeOK
  <2> SUFFICES ASSUME Init PROVE TypeOK
    OBVIOUS
  <2>1. score \in 0..Cardinality(Questions)
    <3>1. Cardinality({}) = 0
      BY FS_EmptySet
    <3> QED
      BY <3>1, Counted DEF Init
  <2> QED
    BY <2>1 DEF Init, TypeOK
<1>2. Init => Kept
  BY DEF Init, Kept, Idle
<1> QED
  BY <1>1, <1>2, TypeStep, KeptStep, PTL DEF Spec

\* Every state the specification reaches has its types: whatever two changes
\* of an answer leave of each other, it is an answer.
THEOREM Typing == Spec => []TypeOK
BY Invariant, PTL

\* complete_attempt: a completed attempt has every question answered.
THEOREM CompletedAnswered == Spec => []CompletedIsAnswered
<1>1. Kept => CompletedIsAnswered
  BY DEF Kept, CompletedIsAnswered, Complete
<1> QED
  BY <1>1, Invariant, PTL

-----------------------------------------------------------------------------
(* A client that waits: what its requests have read is what is stored.     *)

Asks(t) == request[t].op \in {"checked", "answering"}
Graded(a) == a # NoAnswer => (a.ok <=> a.sel = Right)

\* The score and the weak topics are those of the answers stored.
Tallied ==
  /\ score = Cardinality({q \in Questions : answers[q].ok})
  /\ weak = {q \in Questions : ~answers[q].ok}

Calm ==
  /\ \A q \in Questions : Graded(answers[q])
  /\ \A t, u \in Threads :
       Asks(t) /\ Asks(u) /\ request[t].q = request[u].q => t = u
  /\ \A t \in Threads : Asks(t) =>
       /\ ~Completing /\ status # "completed"
       /\ status # "gone" => request[t].row = answers[request[t].q]
       /\ status = "gone" => answers[request[t].q] = NoAnswer
  /\ \A t \in Threads :
       request[t].op = "completing" /\ status # "gone" => request[t].read = answers
  /\ status = "completed" => Tallied

Settled ==
  /\ status \in {"none", "in_progress"} => weak = {}
  /\ ~raced => Calm

\* A request that is served is the only one that changes.
LEMMA ServesOne ==
  ASSUME TypeOK, NEW t \in Threads, NEW r, Serve(t, r)
  PROVE  request'[t] = r /\ \A u \in Threads \ {t} : request'[u] = request[u]
BY DEF Serve, TypeOK

\* What an answer in flight has.
LEMMA AsksTyped ==
  ASSUME TypeOK, NEW t \in Threads, Asks(t)
  PROVE  request[t] \in [op : {"checked", "answering"}, q : Questions, opt : Options,
                         row : Answer \cup {NoAnswer}]
BY DEF TypeOK, Asks, Idle

\* A request whose answer row is read keeps its question and its option.
LEMMA ReadsDoes ==
  ASSUME TypeOK, NEW t \in Threads, AnswerReads(t)
  PROVE  /\ Asks(t) /\ request'[t].op = "answering"
         /\ request'[t].q = request[t].q
         /\ request'[t].row = IF request[t].row = NoAnswer THEN answers[request[t].q]
                              ELSE request[t].row
         /\ \A u \in Threads \ {t} : request'[u] = request[u]
<1> DEFINE new == [request[t] EXCEPT !.op = "answering",
                     !.row = IF @ = NoAnswer THEN answers[request[t].q] ELSE @]
<1>1. Asks(t)
  BY DEF AnswerReads, Asks
<1>2. /\ new.op = "answering" /\ new.q = request[t].q
      /\ new.row = IF request[t].row = NoAnswer THEN answers[request[t].q]
                   ELSE request[t].row
  BY <1>1, AsksTyped
<1>3. Serve(t, new)
  BY DEF AnswerReads
<1>4. request'[t] = new /\ \A u \in Threads \ {t} : request'[u] = request[u]
  BY <1>3, ServesOne
<1> QED
  BY <1>1, <1>2, <1>4

\* A client that waits gets the new selection stored with its grade.
LEMMA StoresNew ==
  ASSUME NEW row, NEW o, row \in [sel : Options, ok : BOOLEAN] \cup {NoAnswer}
  PROVE  Stored(row, row, o) = [sel |-> o, ok |-> o = Right]
<1>1. CASE row = NoAnswer
  BY <1>1 DEF Stored
<1>2. CASE row # NoAnswer
  <2>1. Stored(row, row, o) = [sel |-> o, ok |-> IF (o = Right) = row.ok THEN row.ok
                                                 ELSE o = Right]
    BY <1>2 DEF Stored
  <2>2. (IF (o = Right) = row.ok THEN row.ok ELSE o = Right) = (o = Right)
    OBVIOUS
  <2> QED
    BY <2>1, <2>2
<1> QED
  BY <1>1, <1>2

\* Every step of a client that waits leaves what its requests have read true.
LEMMA SettledStep == TypeOK /\ Settled /\ [Next]_vars => Settled'
<1> SUFFICES ASSUME TypeOK, Settled, [Next]_vars PROVE Settled'
  OBVIOUS
<1>i. Idle.op = "idle"
  BY DEF Idle
<1>n. Graded(NoAnswer)
  BY DEF Graded
<1>1. CASE StartAttempt
  <2>1. status = "none" /\ status' = "in_progress"
        /\ UNCHANGED <<answers, score, weak, request, raced>>
    BY <1>1 DEF StartAttempt
  <2>2. Calm => Calm'
    BY <2>1 DEF Calm, Asks, Graded, Completing
  <2> QED
    BY <2>1, <2>2 DEF Settled
<1>2. CASE DeleteQuiz
  <2>1. /\ status' = "gone" /\ UNCHANGED <<score, weak, request, raced>>
        /\ \A q \in Questions : answers'[q] = NoAnswer
    BY <1>2 DEF DeleteQuiz
  <2>2. \A q \in Questions : Graded(answers'[q])
    BY <1>n, <2>1
  <2>r. \A u \in Threads : Asks(u) => answers'[request[u].q] = NoAnswer
    BY <2>1, AsksTyped
  <2>3. Calm => Calm'
    BY <2>1, <2>2, <2>r DEF Calm, Asks, Graded, Completing
  <2> QED
    BY <2>1, <2>3 DEF Settled
<1>3. ASSUME NEW t \in Threads, NEW q \in Questions, NEW o \in Options,
             AnswerChecks(t, q, o)
      PROVE  Settled'
  <2>1. /\ request[t] = Idle /\ status = "in_progress"
        /\ UNCHANGED <<status, answers, score, weak>>
        /\ raced' = (raced \/ Answering(q) \/ Completing)
    BY <1>3 DEF AnswerChecks, Open
  <2>2. /\ request'[t] = [op |-> "checked", q |-> q, opt |-> o, row |-> answers[q]]
        /\ \A u \in Threads \ {t} : request'[u] = request[u]
    BY <1>3, ServesOne DEF AnswerChecks
  <2> SUFFICES ASSUME ~raced' PROVE Calm'
    BY <2>1 DEF Settled
  <2>3. Calm /\ ~Answering(q) /\ ~Completing
    BY <2>1 DEF Settled
  <2>4. ~Completing'
    BY <2>2, <2>3 DEF Completing
  <2>5. \A u \in Threads \ {t} : Asks(u) => request[u].q # q
    BY <2>3 DEF Answering, Asks
  <2>6. ASSUME NEW u \in Threads, NEW v \in Threads, Asks(u)', Asks(v)',
               request'[u].q = request'[v].q
        PROVE  u = v
    BY <2>2, <2>3, <2>5, <2>6 DEF Calm, Asks
  <2>7. ASSUME NEW u \in Threads, Asks(u)'
        PROVE  request'[u].row = answers[request'[u].q]
    BY <2>1, <2>2, <2>3, <2>7 DEF Calm, Asks
  <2> QED
    BY <2>1, <2>3, <2>4, <2>6, <2>7 DEF Calm, Completing
<1>4. ASSUME NEW t \in Threads, AnswerReads(t) PROVE Settled'
  <2>1. UNCHANGED <<status, answers, score, weak, raced>>
    BY <1>4 DEF AnswerReads
  <2> SUFFICES ASSUME ~raced PROVE Calm'
    BY <2>1 DEF Settled
  <2>2. Calm
    BY DEF Settled
  <2>3. /\ Asks(t) /\ request'[t].op = "answering"
        /\ request'[t].q = request[t].q
        /\ request'[t].row = IF request[t].row = NoAnswer THEN answers[request[t].q]
                             ELSE request[t].row
        /\ \A u \in Threads \ {t} : request'[u] = request[u]
    BY <1>4, ReadsDoes
  <2>4. \A u \in Threads : /\ Asks(u)' <=> Asks(u)
                           /\ request'[u].op = "completing" =>
                                request[u].op = "completing" /\ request'[u] = request[u]
                           /\ Asks(u) => request'[u].q = request[u].q
    BY <2>3 DEF Asks
  <2>5. Completing' => Completing
    BY <2>4 DEF Completing
  <2>6. ASSUME NEW u \in Threads, NEW v \in Threads, Asks(u)', Asks(v)',
               request'[u].q = request'[v].q
        PROVE  u = v
    BY <2>2, <2>4, <2>6 DEF Calm
  <2>7. ASSUME NEW u \in Threads, Asks(u)'
        PROVE  /\ ~Completing' /\ status # "completed"
               /\ status # "gone" => request'[u].row = answers[request'[u].q]
               /\ status = "gone" => answers[request'[u].q] = NoAnswer
    BY <2>2, <2>3, <2>4, <2>5, <2>7 DEF Calm
  <2>8. ASSUME NEW u \in Threads, request'[u].op = "completing", status # "gone"
        PROVE  request'[u].read = answers
    BY <2>2, <2>4, <2>8 DEF Calm
  <2>9. /\ \A q \in Questions : Graded(answers'[q])
        /\ Tallied => Tallied'
    BY <2>1, <2>2 DEF Calm, Tallied
  <2> QED
    BY <2>1, <2>2, <2>6, <2>7, <2>8, <2>9 DEF Calm
<1>5. ASSUME NEW t \in Threads, AnswerCommits(t) PROVE Settled'
  <2>0. Asks(t)
    BY <1>5 DEF AnswerCommits, Asks
  <2>q. request[t].q \in Questions /\ request[t].row \in Answer \cup {NoAnswer}
    BY <2>0, AsksTyped
  <2>1. UNCHANGED <<status, score, weak, raced>>
    BY <1>5 DEF AnswerCommits
  <2>2. request'[t] = Idle /\ \A u \in Threads \ {t} : request'[u] = request[u]
    BY <1>5, ServesOne DEF AnswerCommits
  <2> SUFFICES ASSUME ~raced PROVE Calm'
    BY <2>1 DEF Settled
  <2>4. Calm
    BY DEF Settled
  <2>5. ~Completing /\ status # "completed"
    BY <2>0, <2>4 DEF Calm
  <2>6. \A u \in Threads : /\ request'[u].op # "completing"
                           /\ Asks(u)' => u # t /\ Asks(u) /\ request'[u] = request[u]
    BY <1>i, <2>2, <2>5 DEF Asks, Completing
  <2>7. CASE UNCHANGED answers
    <3>1. \A q \in Questions : Graded(answers'[q])
      BY <2>4, <2>7 DEF Calm
    <3>2. ASSUME NEW u \in Threads, Asks(u)'
          PROVE  /\ status # "gone" => request'[u].row = answers'[request'[u].q]
                 /\ status = "gone" => answers'[request'[u].q] = NoAnswer
      BY <2>4, <2>6, <2>7, <3>2 DEF Calm
    <3>3. ASSUME NEW u \in Threads, NEW v \in Threads, Asks(u)', Asks(v)',
                 request'[u].q = request'[v].q
          PROVE  u = v
      BY <2>4, <2>6, <3>3 DEF Calm
    <3> QED
      BY <2>1, <2>5, <2>6, <3>1, <3>2, <3>3 DEF Calm, Completing
  <2>8. CASE Inserts(request[t]) \/ Updates(request[t])
    <3>0. CASE UNCHANGED answers
      BY <2>7, <3>0
    <3>c. CASE answers' = [answers EXCEPT ![request[t].q] =
                             Stored(request[t].row, @, request[t].opt)]
      <4>1. request[t].row = answers[request[t].q]
        BY <2>0, <2>4, <2>8 DEF Calm, Inserts, Updates
      <4>2. answers'[request[t].q] = Stored(request[t].row, request[t].row, request[t].opt)
        BY <2>q, <3>c, <4>1 DEF TypeOK
      <4>3. answers'[request[t].q] = [sel |-> request[t].opt, ok |-> request[t].opt = Right]
        BY <2>q, <4>2, StoresNew DEF Answer
      <4>4. \A q \in Questions \ {request[t].q} : answers'[q] = answers[q]
        BY <2>q, <3>c DEF TypeOK
      <4>5. Graded(answers'[request[t].q])
        <5>1. /\ answers'[request[t].q].sel = request[t].opt
              /\ answers'[request[t].q].ok = (request[t].opt = Right)
          BY <4>3
        <5>2. answers'[request[t].q].ok <=> request[t].opt = Right
          BY <5>1
        <5> QED
          BY <5>1, <5>2 DEF Graded
      <4>6. \A q \in Questions : Graded(answers'[q])
        BY <2>4, <4>4, <4>5 DEF Calm
      <4>7. ASSUME NEW u \in Threads, Asks(u)'
            PROVE  /\ status # "gone" => request'[u].row = answers'[request'[u].q]
                   /\ status = "gone" => answers'[request'[u].q] = NoAnswer
        <5>1. u # t /\ Asks(u) /\ request'[u] = request[u]
          BY <2>6, <4>7
        <5>2. /\ request[u].q # request[t].q
              /\ status # "gone" => request[u].row = answers[request[u].q]
              /\ status = "gone" => answers[request[u].q] = NoAnswer
          BY <2>0, <2>4, <5>1 DEF Calm
        <5>3. request[u].q \in Questions
          BY <5>1, AsksTyped
        <5> QED
          BY <4>4, <5>1, <5>2, <5>3
      <4> QED
        BY <2>1, <2>4, <2>5, <2>6, <4>6, <4>7 DEF Calm, Completing
    <3> QED
      BY <1>5, <3>0, <3>c DEF AnswerCommits
  <2> QED
    BY <1>5, <2>7, <2>8 DEF AnswerCommits
<1>6. ASSUME NEW t \in Threads, CompleteChecks(t) PROVE Settled'
  <2>1. /\ status = "in_progress" /\ UNCHANGED <<status, answers, score, weak>>
        /\ raced' = (raced \/ \E q \in Questions : Answering(q))
    BY <1>6 DEF CompleteChecks
  <2>2. /\ request'[t] = [op |-> "completing", read |-> answers]
        /\ \A u \in Threads \ {t} : request'[u] = request[u]
    BY <1>6, ServesOne DEF CompleteChecks
  <2> SUFFICES ASSUME ~raced' PROVE Calm'
    BY <2>1 DEF Settled
  <2>3. Calm
    BY <2>1 DEF Settled
  <2>4. \A u \in Threads : ~Asks(u)
    <3> SUFFICES ASSUME NEW u \in Threads, Asks(u) PROVE FALSE
      OBVIOUS
    <3>1. request[u].q \in Questions
      BY AsksTyped
    <3>2. Answering(request[u].q)
      BY DEF Answering, Asks
    <3> QED
      BY <2>1, <3>1, <3>2
  <2>5. \A u \in Threads : ~Asks(u)'
    BY <2>2, <2>4 DEF Asks
  <2>6. \A u \in Threads : request'[u].op = "completing" => request'[u].read = answers
    BY <2>1, <2>2, <2>3 DEF Calm
  <2> QED
    BY <2>1, <2>3, <2>5, <2>6 DEF Calm
<1>7. ASSUME NEW t \in Threads, CompleteCommits(t) PROVE Settled'
  <2>1. /\ request[t].op = "completing" /\ UNCHANGED <<answers, raced>>
    BY <1>7 DEF CompleteCommits
  <2>2. request'[t] = Idle /\ \A u \in Threads \ {t} : request'[u] = request[u]
    BY <1>7, ServesOne DEF CompleteCommits
  <2>3. status = "gone" => UNCHANGED <<status, score, weak>>
    BY <1>7 DEF CompleteCommits
  <2>4. status # "gone" =>
          /\ status' = "completed"
          /\ score' = Cardinality({q \in Questions : request[t].read[q].ok})
          /\ weak' = IF WeakIn(request[t].read) = {} THEN weak
                     ELSE WeakIn(request[t].read)
    BY <1>7 DEF CompleteCommits
  <2>5. status' \in {"none", "in_progress"} => weak' = {}
    BY <2>3, <2>4 DEF Settled
  <2> SUFFICES ASSUME ~raced PROVE Calm'
    BY <2>1, <2>5 DEF Settled
  <2>6. Calm
    BY DEF Settled
  <2>7. \A u \in Threads : ~Asks(u)
    BY <2>1, <2>6 DEF Calm, Completing
  <2>8. \A u \in Threads : ~Asks(u)'
    BY <1>i, <2>2, <2>7 DEF Asks
  <2>9. status' = "completed" => Tallied'
    <3>1. CASE status = "gone"
      BY <2>3, <3>1
    <3>2. CASE status # "gone"
      <4>1. request[t].read = answers
        BY <2>1, <2>6, <3>2 DEF Calm
      <4>2. score' = Cardinality({q \in Questions : answers[q].ok})
        BY <2>4, <3>2, <4>1
      <4>3. WeakIn(answers) = {} => weak = {}
        BY <2>6, <3>2 DEF Calm, Settled, Tallied, WeakIn, TypeOK
      <4>4. weak' = WeakIn(answers)
        BY <2>4, <3>2, <4>1, <4>3
      <4> QED
        BY <2>1, <4>2, <4>4 DEF Tallied, WeakIn
    <3> QED
      BY <3>1, <3>2
  <2>10. \A u \in Threads : request'[u].op = "completing" /\ status' # "gone"
           => request'[u].read = answers'
    BY <1>i, <2>1, <2>2, <2>3, <2>6 DEF Calm
  <2> QED
    BY <2>1, <2>6, <2>8, <2>9, <2>10 DEF Calm
<1>8. CASE UNCHANGED vars
  <2>1. UNCHANGED <<status, answers, score, weak, request, raced>>
    BY <1>8 DEF vars
  <2>2. Calm => Calm'
    BY <2>1 DEF Calm, Asks, Graded, Completing, Tallied
  <2> QED
    BY <2>1, <2>2 DEF Settled
<1> QED
  BY <1>1, <1>2, <1>3, <1>4, <1>5, <1>6, <1>7, <1>8 DEF Next

\* The state of every client that waits.
LEMMA SettledAlways == Spec => []Settled
<1>1. Init => Settled
  BY DEF Init, Settled, Calm, Asks, Graded, Idle, Completing
<1> QED
  BY <1>1, SettledStep, Invariant, PTL DEF Spec

\* submit_answer, complete_attempt: the score, the weak topics and the grades
\* are those of the selections stored with the attempt, if the client waits for
\* its answers.
THEOREM ScoresRight == Spec => []ScoreMatchesAnswers
<1>1. TypeOK /\ Settled => ScoreMatchesAnswers
  <2> SUFFICES ASSUME TypeOK, Settled, status = "completed", ~raced
               PROVE  /\ score = Cardinality({q \in Questions : answers[q].sel = Right})
                      /\ weak = {q \in Questions : answers[q].sel # Right}
                      /\ \A q \in Questions : answers[q].ok <=> answers[q].sel = Right
    BY DEF ScoreMatchesAnswers
  <2>1. Tallied /\ \A q \in Questions : Graded(answers[q])
    BY DEF Settled, Calm
  <2>2. NoAnswer.ok = FALSE /\ NoAnswer.sel # Right
    BY OptionsAssumption DEF NoAnswer, OptionsAssumption
  <2>3. \A q \in Questions : answers[q].ok <=> answers[q].sel = Right
    BY <2>1, <2>2 DEF Graded
  <2>4. /\ {q \in Questions : answers[q].ok} = {q \in Questions : answers[q].sel = Right}
        /\ {q \in Questions : ~answers[q].ok} = {q \in Questions : answers[q].sel # Right}
    BY <2>3
  <2> QED
    BY <2>1, <2>3, <2>4 DEF Tallied
<1> QED
  BY <1>1, SettledAlways, Typing, PTL
=============================================================================
