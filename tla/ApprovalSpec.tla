----------------------------- MODULE ApprovalSpec -----------------------------
(***************************************************************************)
(* What approval promises of the calendar, without turns, threads, graph   *)
(* runs or checkpoints: a plan is offered, and what becomes due is exactly *)
(* the plan that stood offered when it was approved.  Only what is due is  *)
(* entered, each item once; the student may remove or keep what is there.  *)
(***************************************************************************)
EXTENDS Naturals

CONSTANTS Items

VARIABLES
  offer,      \* the plan that waits for an answer: none or one, as a set
  due,        \* what was approved and is not entered yet
  calendar    \* how many tasks the calendar has of each item

vars == <<offer, due, calendar>>

Init == offer = {} /\ due = {} /\ calendar = [i \in Items |-> 0]

Offer(plan) ==
  /\ offer = {} /\ due = {}
  /\ offer' = {plan}
  /\ UNCHANGED <<due, calendar>>

Approve(plan) ==
  /\ plan \in offer
  /\ offer' = {} /\ due' = plan
  /\ UNCHANGED calendar

\* A refusal, a revision, or the loss of the question.
Withdraw ==
  /\ offer # {}
  /\ offer' = {}
  /\ UNCHANGED <<due, calendar>>

Enter(i) ==
  /\ i \in due
  /\ due' = due \ {i} /\ calendar' = [calendar EXCEPT ![i] = 1]
  /\ UNCHANGED offer

\* The process restarts half-way: what was due is not entered any more.
Forget ==
  /\ offer' = {} /\ due' = {}
  /\ UNCHANGED calendar

Remove(i) ==
  /\ calendar[i] > 0
  /\ calendar' = [calendar EXCEPT ![i] = @ - 1]
  /\ UNCHANGED <<offer, due>>

Next ==
  \/ \E plan \in SUBSET Items : Offer(plan) \/ Approve(plan)
  \/ \E i \in Items : Enter(i) \/ Remove(i)
  \/ Withdraw \/ Forget

Spec == Init /\ [][Next]_vars
=============================================================================
