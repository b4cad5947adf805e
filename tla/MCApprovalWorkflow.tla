-------------------------- MODULE MCApprovalWorkflow --------------------------
(***************************************************************************)
(* Instances of ApprovalWorkflow for TLC.                                  *)
(***************************************************************************)
EXTENDS ApprovalRefinement, TLC

CONSTANTS i1, i2

OneItem    == {i1}
TwoItems   == {i1, i2}
ThreeTurns == {1, 2, 3}
FourTurns  == {1, 2, 3, 4}
NoMarks    == {}
DoneMark   == {"done"}
Benign     == {"llm", "crash"}
Cancels    == {"cancel"}
AllFaults  == {"llm", "crash", "cancel", "apply"}
ItemSymmetry == Permutations(TwoItems)
=============================================================================
