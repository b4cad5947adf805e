-------------------------- MODULE ApprovalRefinement --------------------------
(***************************************************************************)
(* ApprovalWorkflow, with turns one after the other, keeps the promise of  *)
(* ApprovalSpec.                                                           *)
(***************************************************************************)
EXTENDS ApprovalWorkflow

\* A plan is on offer while the question on record is the one its graph run
\* waits with: during a turn that answers it, neither is any more.
OnOffer ==
  IF paused # NoRun /\ runs[paused.run] = Asking("calendar_approval", paused.plan)
  THEN {paused.plan} ELSE {}

\* The events the turns of the conversation still have to write.
Due == UNION {{e.item : e \in turn[r].check.events} :
                r \in {q \in Turns : At(q, "returned")}}

Promise == INSTANCE ApprovalSpec WITH
  offer    <- OnOffer,
  due      <- Due,
  calendar <- [i \in Items |-> Cardinality({t \in rows : t.item = i})]

\* Through drafts, changes, answers given twice, failing models and restarts,
\* what is written is the plan that stood on offer when it was approved, whole
\* unless the process stops, and no item twice.
KeepsPromise == Promise!Spec
=============================================================================
