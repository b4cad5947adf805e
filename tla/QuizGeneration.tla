---------------------------- MODULE QuizGeneration ----------------------------
(***************************************************************************)
(* One request for a quiz at a time, while documents of the courses are    *)
(* ingested and deleted: the course is chosen, its index and then those of *)
(* the other courses are searched for material, the model writes a pool of *)
(* candidates, the best are selected, and the quiz is stored.              *)
(*                                                                         *)
(* A candidate as the model wrote it is its id, how well it suits the      *)
(* learner (score), whether its prompt is there ("set"), empty or only     *)
(* spaces ("blank"), its options and what it marked as correct, which is a *)
(* text as the options are: a position by its form, or else the text of an *)
(* option.  Texts are tokens: "" is an empty one, " " one of spaces only.  *)
(***************************************************************************)
EXTENDS CourseIndex

CONSTANTS
  NoCourse,
  Pools,       \* what the model may return: a set of sequences of candidates
  Counts,      \* what the scope of a request may give as a count
  DefaultCount, MaxCount,  \* 3 and 30
  Numerals,    \* the texts that are all digits, with the number each is
  Letters      \* those that are one letter from A to D, with its position

Candidate ==
  [id : Nat, score : Int, prompt : {"set", "empty", "blank"}, options : Seq(STRING), mark : STRING]

ASSUME QuizAssumption ==
  /\ Numerals \in [DOMAIN Numerals -> Nat] /\ Letters \in [DOMAIN Letters -> 1..4]
  /\ DOMAIN Numerals \cap DOMAIN Letters = {}
  /\ NoCourse \notin Courses /\ Counts \subseteq Int /\ Pools \subseteq Seq(Candidate)
  /\ MaxCount \in Nat /\ DefaultCount \in 1..MaxCount

VARIABLES
  courses,    \* the courses that have a row
  quizzed,    \* those that have a quiz
  turn        \* the request for a quiz

quizVars == <<courses, quizzed, turn>>
vars     == <<indexVars, quizVars>>

NoTurn == [pc |-> "idle"]

\* Courses whose index has something to read.
Searchable(idx) == {c \in Courses : idx[c] # <<>>}

-----------------------------------------------------------------------------
(* Finding the material                                                    *)

\* scope: no count is the default one, others are brought into range.
Clamped(n) ==
  IF n = 0 THEN DefaultCount ELSE IF n < 1 THEN 1 ELSE IF n > MaxCount THEN MaxCount ELSE n

\* _resolve_course_id: the course of the request's context if the student has
\* it, else the one the words of the request suit best, which may be any.
Resolved(explicit) ==
  IF courses = {} \/ explicit \in courses THEN {explicit} ELSE courses

\* Mutant of OtherCourses: the search ends with the chosen course.
NoOtherCourses(chosen) == {}

OtherCourses(chosen) == courses \ {chosen}

\* _quiz_node.  The turn remembers which courses of the library have been
\* searchable all along, and whether a search failed.
StartTurn(n, explicit, chosen) ==
  /\ turn.pc = "idle" /\ reader.pc = "idle" /\ edits < MaxEdits
  /\ chosen \in Resolved(explicit)
  /\ turn' = [pc |-> "seeking", count |-> Clamped(n), chosen |-> chosen,
              at |-> chosen, left |-> OtherCourses(chosen),
              library |-> courses, steady |-> Searchable(index), failed |-> FALSE]
  /\ edits' = edits + 1
  /\ UNCHANGED <<live, index, job, text, removing, withdrawn, reader, courses, quizzed>>

Found(source, failed) ==
  [pc |-> "asking", count |-> turn.count, chosen |-> turn.chosen,
   source |-> source, library |-> turn.library, steady |-> turn.steady,
   failed |-> failed]

\* _course_material: chunks that pass the filter end the search.  It goes on
\* with another course if there are none, or if it fails: it raises, or the
\* filter leaves none.
Seek ==
  /\ turn.pc = "seeking"
  /\ turn.at # NoCourse /\ index[turn.at] # <<>>
  /\ turn' = Found(turn.at, turn.failed)
  /\ UNCHANGED <<indexVars, courses, quizzed>>

SeekOn(failed) ==
  /\ turn.pc = "seeking"
  /\ failed \/ turn.at = NoCourse \/ index[turn.at] = <<>>
  /\ \/ \E c \in turn.left :
          turn' = [turn EXCEPT !.at = c, !.left = @ \ {c}, !.failed = @ \/ failed]
     \/ turn.left = {} /\ turn' = Found(NoCourse, turn.failed \/ failed)
  /\ UNCHANGED <<indexVars, courses, quizzed>>

-----------------------------------------------------------------------------
(* From candidates to questions                                            *)

Fillers == <<"the title", "unrelated", "outside", "none of the above">>

Stripped(option) == IF option = " " THEN "" ELSE option
Given(raw) ==
  LET kept == Picked(raw.options, {i \in DOMAIN raw.options : raw.options[i] # ""}) IN
    [i \in DOMAIN kept |-> Stripped(kept[i])]

\* The fillers that are not among the options.
Missing(given) ==
  LET used == ToSet(given) IN
    Picked(Fillers, {i \in DOMAIN Fillers : Fillers[i] \notin used})

\* Mutant of Options: the options that fill up come first.
OptionsAfterFillers(raw) ==
  LET given == Given(raw) IN
    SubSeq(SubSeq(Missing(given), 1, 4 - Len(given)) \o given, 1, 4)

\* Options that are there, filled up to four; more than four are cut off.
Options(raw) == LET given == Given(raw) IN SubSeq(given \o Missing(given), 1, 4)

\* The position of the correct option, by the form of the mark: digits count
\* from 0, then a letter, then the text of an option; the first position if it
\* is none of these.
Key(options, mark) ==
  LET first == CHOOSE i \in 1..4 :
                 /\ options[i] = Stripped(mark)
                 /\ \A j \in 1..(i - 1) : options[j] # Stripped(mark)
  IN CASE mark \in DOMAIN Numerals -> IF Numerals[mark] < 4 THEN Numerals[mark] + 1 ELSE 1
       [] mark \in DOMAIN Letters  -> Letters[mark]
       [] OTHER -> IF Stripped(mark) \in ToSet(options) THEN first ELSE 1

Question(raw) ==
  LET options == Options(raw) IN
    [raw |-> raw, options |-> options, key |-> Key(options, raw.mark)]

\* choose_candidate: the first of those with the highest score.
Chosen(candidates) ==
  CHOOSE i \in DOMAIN candidates :
    \A j \in DOMAIN candidates :
      \/ candidates[j].score < candidates[i].score
      \/ candidates[j].score = candidates[i].score /\ i <= j

\* Mutant of Others: only the chosen candidate itself leaves the pool.
OthersThanThis(candidates) == RemoveAt(candidates, Chosen(candidates))

Others(candidates) ==
  LET id == candidates[Chosen(candidates)].id IN
    Picked(candidates, {i \in DOMAIN candidates : candidates[i].id # id})

\* The loop of generate_quiz: what is chosen and what remains after n rounds.
Selection(candidates, count) ==
  LET round[n \in 0..count] ==
        IF n = 0 THEN [chosen |-> <<>>, remaining |-> candidates]
        ELSE LET before == round[n - 1] IN
               IF before.remaining = <<>> THEN before
               ELSE [chosen    |-> Append(before.chosen,
                                     before.remaining[Chosen(before.remaining)]),
                     remaining |-> Others(before.remaining)]
  IN round[count].chosen

\* The model answers.  Candidates without a prompt are left out; one of spaces
\* only is nothing that can be chosen from, and the generation fails.
Prompted(pool) == Picked(pool, {i \in DOMAIN pool : pool[i].prompt # "empty"})

Generate(pool) ==
  LET candidates == Prompted(pool)
      selected   == Selection(candidates, turn.count)
  IN /\ turn.pc = "asking"
     /\ candidates # <<>> /\ \A i \in DOMAIN candidates : candidates[i].prompt = "set"
     /\ turn' = [pc |-> "made", count |-> turn.count, chosen |-> turn.chosen,
                 source |-> turn.source, pool |-> candidates,
                 questions |-> [i \in DOMAIN selected |-> Question(selected[i])],
                 short |-> Len(selected) < turn.count]
     /\ UNCHANGED <<indexVars, courses, quizzed>>

\* A model that fails, no candidates, one that is blank; or the client is
\* gone, and nothing of what the turn does is recorded.
GiveUp ==
  /\ turn.pc \in {"seeking", "asking", "made"}
  /\ turn' = NoTurn
  /\ UNCHANGED <<indexVars, courses, quizzed>>

-----------------------------------------------------------------------------
(* Storing                                                                 *)

Filed == IF turn.source # NoCourse THEN turn.source ELSE turn.chosen

Storable ==
  /\ Filed \in courses \cup {NoCourse}
  /\ \A i \in DOMAIN turn.questions : "" \notin ToSet(turn.questions[i].options)

\* quiz_create is all or nothing: an unknown course and an invalid question
\* are refused.
Store ==
  /\ turn.pc = "made"
  /\ IF Storable
     THEN turn' = [pc |-> "stored", source |-> turn.source, filed |-> Filed,
                   questions |-> turn.questions]
          /\ quizzed' = quizzed \cup ({Filed} \ {NoCourse})
     ELSE turn' = NoTurn /\ UNCHANGED quizzed
  /\ UNCHANGED <<indexVars, courses>>

EndTurn ==
  /\ turn.pc = "stored"
  /\ turn' = NoTurn
  /\ UNCHANGED <<indexVars, courses, quizzed>>

\* A course goes when it has neither documents nor quizzes.
DeleteCourse(c) ==
  /\ c \in courses \ quizzed /\ \A d \in live : CourseOf[d] # c
  /\ courses' = courses \ {c}
  /\ UNCHANGED <<indexVars, quizzed, turn>>

-----------------------------------------------------------------------------

\* The index changes and is read by others meanwhile.
WriteMeanwhile ==
  /\ Write
  /\ turn' = IF turn.pc = "seeking"
             THEN [turn EXCEPT !.steady = @ \cap Searchable(index')] ELSE turn
  /\ UNCHANGED <<courses, quizzed>>

ReadMeanwhile == turn.pc = "idle" /\ Read /\ UNCHANGED quizVars

Init == IndexInit /\ courses = Courses /\ quizzed = {} /\ turn = NoTurn

Next ==
  \/ WriteMeanwhile \/ ReadMeanwhile
  \/ \E n \in Counts, e \in Courses \cup {NoCourse}, c \in Courses \cup {NoCourse} :
       StartTurn(n, e, c)
  \/ Seek \/ \E failed \in BOOLEAN : SeekOn(failed)
  \/ \E pool \in Pools : Generate(pool)
  \/ GiveUp \/ Store \/ EndTurn
  \/ \E c \in Courses : DeleteCourse(c)

Spec == Init /\ [][Next]_vars

-----------------------------------------------------------------------------
(* Properties *)

\* A quiz is made of the course that was asked for if its index could be
\* searched all along, of another one that could if not, and it is filed under
\* the course it is made of.
MadeOfMaterial ==
  /\ turn.pc = "asking" /\ ~turn.failed =>
       /\ turn.steady \cap turn.library # {} => turn.source \in turn.library
       /\ turn.chosen \in turn.steady => turn.source = turn.chosen
  /\ turn.pc = "stored" /\ turn.source # NoCourse => turn.filed = turn.source

\* The selected questions are the best of the pool: no two of one id, as many
\* as were asked for unless the ids run out, which is said, and nothing left
\* behind suits the learner better than what was taken.
BestSelected ==
  turn.pc = "made" =>
    LET taken == [i \in DOMAIN turn.questions |-> turn.questions[i].raw]
        ids   == {taken[i].id : i \in DOMAIN taken}
        all   == {turn.pool[i].id : i \in DOMAIN turn.pool}
    IN /\ Cardinality(ids) = Len(taken)
       /\ turn.short <=> Cardinality(all) < turn.count
       /\ turn.short => ids = all
       /\ ~turn.short => Len(taken) = turn.count
       /\ \A i \in DOMAIN turn.pool, k \in DOMAIN taken :
            turn.pool[i].score > taken[k].score =>
              \E m \in 1..k : taken[m].id = turn.pool[i].id

\* Whatever order, form and number the model gives the options in, a stored
\* question is graded by the option the model marked, if it gave no empty one
\* and at most four (an empty one shifts the letters of those behind it, the
\* fifth is cut off even if it is the correct one), and if it did not mark an
\* option by a text that looks like a position: of 1, 2, 3 and 4 marked by "3"
\* the fourth is correct.
Named(mark) ==
  CASE mark \in DOMAIN Numerals -> {Numerals[mark] + 1}
    [] mark \in DOMAIN Letters  -> {Letters[mark]}
    [] OTHER -> {}
Marked(raw) ==
  {Stripped(raw.options[i]) :
     i \in {j \in DOMAIN raw.options : raw.options[j] = raw.mark \/ j \in Named(raw.mark)}}
Clear(raw) == Named(raw.mark) = {} \/ raw.mark \notin ToSet(raw.options)
KeyAsMarked ==
  turn.pc = "stored" =>
    \A i \in DOMAIN turn.questions :
      LET q == turn.questions[i] IN
        "" \notin ToSet(q.raw.options) /\ Len(q.raw.options) <= 4 /\ Clear(q.raw) =>
          Marked(q.raw) \subseteq {q.options[q.key]}
=============================================================================
