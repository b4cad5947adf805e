---------------------------- MODULE MCReplanCycle ----------------------------
(***************************************************************************)
(* Instances of ReplanCycle for TLC.                                       *)
(***************************************************************************)
EXTENDS ReplanCycle

None         == {}
NoSessions   == [m \in None |-> 1]
EssayAndExam == {"essay", "midterm"}
Midterm      == {"midterm"}
Slides       == {"slides"}
Graphs       == {"graphs"}
TwoEach      == [m \in Slides |-> 2]
DoneOnly     == {"done"}
NoTasks      == {[n \in None |-> 0]}
UpToTwo      == {[n \in EssayAndExam |-> IF n \in Midterm THEN 0 ELSE k] : k \in 0..2}
AllEdits     == {"done", "todo", "skipped", "enter", "rename", "delete", "quiz"}
=============================================================================
