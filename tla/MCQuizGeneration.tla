--------------------------- MODULE MCQuizGeneration ---------------------------
(***************************************************************************)
(* Instances of QuizGeneration, and with it of CourseIndex, for TLC: pieces*)
(* of 4 items that share 1, two documents in a course and one in another.  *)
(***************************************************************************)
EXTENDS QuizGeneration

CONSTANTS c1, c2, d1, d2, d3

TwoCourses == {c1, c2}
FirstOnly  == {c1}
ThreeDocs  == {d1, d2, d3}
InCourses  == d1 :> c1 @@ d2 :> c1 @@ d3 :> c2
Bits       == {0, 1}

General(words)       == [title |-> 0, body |-> words]
Titled(title, words) == [title |-> title, body |-> words]

\* No text, one section worth a piece, two of which one takes two pieces; for
\* the third document, a section too short for a piece, one that fills a piece
\* exactly, and one of three pieces, the last of them shorter.
SomeTexts ==
  d1 :> {<<>>, <<Titled(1, 1)>>, <<Titled(2, 1), General(5)>>}
    @@ d2 :> {<<Titled(1, 1)>>}
    @@ d3 :> {<<General(1)>>, <<General(4)>>, <<Titled(2, 7)>>}

\* Chapter 1 is the second section of the first document, and the second one.
ChapterOne == {<<d1, 2>>, <<d2, 1>>}

-----------------------------------------------------------------------------
Digits    == "0" :> 0 @@ "1" :> 1 @@ "2" :> 2 @@ "3" :> 3 @@ "4" :> 4
OneLetter == "A" :> 1 @@ "B" :> 2 @@ "b" :> 2 @@ "C" :> 3 @@ "D" :> 4

Raw(id, score, prompt, options, mark) ==
  [id |-> id, score |-> score, prompt |-> prompt, options |-> options, mark |-> mark]

\* Repeated ids, every score and every kind of mark; too few and too many
\* options, empty and blank ones.
Written ==
  {Raw(1, 0, "set", <<"x", "r", "y", "z">>, "r"),
   Raw(1, 2, "set", <<"x", "r">>, "B"),
   Raw(2, 1, "set", <<"x", "y", "r">>, "2"),
   Raw(2, 1, "set", <<"x", "", "r">>, "C"),
   Raw(3, 2, "set", <<"x", "y", "z", "outside", "r">>, "r"),
   Raw(3, 0, "set", <<"x", " ", "r", "y">>, "r")}

\* Prompts that are empty or blank.
Unwritten == {Raw(3, 0, p, <<>>, "A") : p \in {"empty", "blank"}}

\* Options that are numbers.
Numbered == {Raw(1, 1, "set", <<"1", "2", "3", "4">>, m) : m \in {"b", "3"}}

\* Two and three of them matter by ids, scores and prompts, whatever the
\* options: some of each id and score, those without empty or blank options.
Scored == {raw \in Written : {"", " "} \cap ToSet(raw.options) = {}}

SmallPools ==
  [1..0 -> Written] \cup [1..1 -> Written \cup Unwritten \cup Numbered]
    \cup [1..2 -> Scored \cup Unwritten] \cup [1..3 -> Scored]
SomeCounts == {0, 9}
=============================================================================
