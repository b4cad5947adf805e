----------------------------- MODULE QuizAttempt -----------------------------
(***************************************************************************)
(* One attempt at a quiz: start_attempt, submit_answer, complete_attempt   *)
(* and delete_quiz are plain handlers, so requests run in threads of their *)
(* own.  Each reads the attempt with its answers in one query, and commits *)
(* later; nothing locks the attempt in between.  An UPDATE writes only the *)
(* columns whose value differs from the one that was read.                 *)
(***************************************************************************)
EXTENDS Naturals, FiniteSets

CONSTANTS
  Questions,   \* the questions of the quiz
  Options,     \* the option ids
  Right,       \* correct_option_id, the same for every question
  Threads,     \* bound: the requests served at the same time
  ForeignKeys  \* whether the database enforces them: PostgreSQL does, SQLite
               \* as it is configured does not

ASSUME ForeignKeysAssumption == ForeignKeys \in BOOLEAN
ASSUME QuestionsAssumption == IsFiniteSet(Questions) /\ Questions # {}
ASSUME OptionsAssumption == Right \in Options /\ "none" \notin Options

VARIABLES
  status,      \* of the attempt: "none", "in_progress", "completed", "gone"
  answers,     \* the answer row of each question
  score,       \* score_percent, as the number of right answers
  weak,        \* weak_topics, as the questions they come from
  request,     \* what each thread is serving
  raced        \* history: the client did not wait for its answers: it changed
               \* one that was on its way, or completed the attempt meanwhile

vars == <<status, answers, score, weak, request, raced>>

NoAnswer == [sel |-> "none", ok |-> FALSE]
Answer   == [sel : Options, ok : BOOLEAN]
Idle     == [op |-> "idle"]

TypeOK ==
  /\ status \in {"none", "in_progress", "completed", "gone"}
  /\ answers \in [Questions -> Answer \cup {NoAnswer}]
  /\ score \in 0..Cardinality(Questions)
  /\ weak \subseteq Questions /\ raced \in BOOLEAN
  /\ request \in [Threads ->
       {Idle}
       \cup [op : {"checked", "answering"}, q : Questions, opt : Options,
             row : Answer \cup {NoAnswer}]
       \cup [op : {"completing"}, read : [Questions -> Answer]]]

Init ==
  /\ status = "none" /\ answers = [q \in Questions |-> NoAnswer]
  /\ score = 0 /\ weak = {} /\ raced = FALSE
  /\ request = [t \in Threads |-> Idle]

Serve(t, r) == request' = [request EXCEPT ![t] = r]

Answering(q) ==
  \E t \in Threads : request[t].op \in {"checked", "answering"} /\ request[t].q = q
Completing == \E t \in Threads : request[t].op = "completing"

-----------------------------------------------------------------------------
StartAttempt ==
  /\ status = "none"
  /\ status' = "in_progress"
  /\ UNCHANGED <<answers, score, weak, request, raced>>

\* A completed attempt refuses answers.
Open == status = "in_progress"

AnswerChecks(t, q, o) ==
  /\ request[t] = Idle /\ Open
  /\ raced' = (raced \/ Answering(q) \/ Completing)
  /\ Serve(t, [op |-> "checked", q |-> q, opt |-> o, row |-> answers[q]])
  /\ UNCHANGED <<status, answers, score, weak>>

\* The query for the answer row: a row that was read before is not refreshed.
AnswerReads(t) ==
  /\ request[t].op = "checked"
  /\ LET r == request[t] IN
       Serve(t, [r EXCEPT !.op = "answering",
                          !.row = IF @ = NoAnswer THEN answers[r.q] ELSE @])
  /\ UNCHANGED <<status, answers, score, weak, raced>>

\* Mutant of Stored: the selection is updated without its grade.
StoredUngraded(row, now, o) ==
  IF row = NoAnswer THEN [sel |-> o, ok |-> o = Right]
  ELSE [now EXCEPT !.sel = o]

\* An insert, or an UPDATE of the columns that differ from the row read.
Stored(row, now, o) ==
  LET new == [sel |-> o, ok |-> o = Right] IN
  IF row = NoAnswer THEN new
  ELSE [sel |-> IF new.sel = row.sel THEN now.sel ELSE new.sel,
        ok  |-> IF new.ok = row.ok THEN now.ok ELSE new.ok]

\* An insert that breaks the unique constraint raises, or the foreign key if
\* the database enforces it: else a row stays behind without its attempt.
\* An UPDATE of a row that is gone raises; after the quiz is deleted, only a row
\* that was left behind can still be there, and it is the one read, or not.
Inserts(r) == r.row = NoAnswer /\ answers[r.q] = NoAnswer /\ (status = "gone" => ~ForeignKeys)
Updates(r) == r.row # NoAnswer /\ answers[r.q] # NoAnswer
Raises(r)  == ~Inserts(r) /\ (status = "gone" \/ ~Updates(r))

AnswerCommits(t) ==
  /\ request[t].op = "answering"
  /\ LET r == request[t] IN
       \/ /\ Inserts(r) \/ Updates(r)
          /\ answers' = [answers EXCEPT ![r.q] = Stored(r.row, @, r.opt)]
       \/ Raises(r) /\ UNCHANGED answers
  /\ Serve(t, Idle)
  /\ UNCHANGED <<status, score, weak, raced>>

-----------------------------------------------------------------------------
\* Mutant of Complete: one answer is enough.
CompleteSome == \E q \in Questions : answers[q] # NoAnswer

Complete == \A q \in Questions : answers[q] # NoAnswer

\* Reads the status and the answers; with one missing it answers 409.
CompleteChecks(t) ==
  /\ request[t] = Idle /\ status = "in_progress" /\ Complete
  /\ raced' = (raced \/ \E q \in Questions : Answering(q))
  /\ Serve(t, [op |-> "completing", read |-> answers])
  /\ UNCHANGED <<status, answers, score, weak>>

WeakIn(read) == {q \in Questions : ~read[q].ok}

\* An empty weak_topics equals what was read, and is not written.
CompleteCommits(t) ==
  /\ request[t].op = "completing"
  /\ LET read == request[t].read IN
       IF status # "gone"
       THEN /\ status' = "completed"
            /\ score' = Cardinality({q \in Questions : read[q].ok})
            /\ weak' = IF WeakIn(read) = {} THEN weak ELSE WeakIn(read)
       ELSE UNCHANGED <<status, score, weak>>
  /\ Serve(t, Idle)
  /\ UNCHANGED <<answers, raced>>

\* The quiz goes, with its attempts and the answers they have.
DeleteQuiz ==
  /\ status \in {"in_progress", "completed"}
  /\ status' = "gone"
  /\ answers' = [q \in Questions |-> NoAnswer]
  /\ UNCHANGED <<score, weak, request, raced>>

Next ==
  \/ StartAttempt \/ DeleteQuiz
  \/ \E t \in Threads, q \in Questions, o \in Options : AnswerChecks(t, q, o)
  \/ \E t \in Threads : \/ AnswerReads(t) \/ AnswerCommits(t)
                        \/ CompleteChecks(t) \/ CompleteCommits(t)

Spec == Init /\ [][Next]_vars

-----------------------------------------------------------------------------
(* Properties *)

\* A completed attempt has every question answered: its result page has a
\* selection to show for each, however requests were interleaved.
CompletedIsAnswered ==
  status = "completed" => \A q \in Questions : answers[q] # NoAnswer

\* The score and the weak topics of a completed attempt are those of the
\* selections stored with it, and so is the grade of each, if the client waited
\* for its answers: the progress page, which reads the score, agrees with the
\* mastery estimates, which read the grades, and both with the selections the
\* result shows.  (Completing twice at a time does no harm.)
ScoreMatchesAnswers ==
  status = "completed" /\ ~raced =>
    /\ score = Cardinality({q \in Questions : answers[q].sel = Right})
    /\ weak = {q \in Questions : answers[q].sel # Right}
    /\ \A q \in Questions : answers[q].ok <=> answers[q].sel = Right
=============================================================================
