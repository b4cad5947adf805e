---------------------------- MODULE MCQuizAttempt ----------------------------
(***************************************************************************)
(* Instances of QuizAttempt for TLC.                                       *)
(***************************************************************************)
EXTENDS QuizAttempt, TLC

CONSTANTS q1, q2, t1, t2, t3

TwoQuestions   == {q1, q2}
ThreeOptions   == {"A", "B", "C"}
ThreeThreads   == {t1, t2, t3}
ThreadSymmetry == Permutations({t1, t2, t3})
=============================================================================
