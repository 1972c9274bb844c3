------------------------------ MODULE TaskLoop ------------------------------
(***************************************************************************)
(* What TaskOrchestrator.run promises its caller, without saying how: the  *)
(* model is asked, the tools it calls are executed, and the run returns    *)
(* after finitely many questions because each of them uses up some of a    *)
(* budget fixed when the run starts.                                       *)
(***************************************************************************)
EXTENDS Integers

VARIABLES
  status, \* where the run is: "idle", "calling", "executing" or "returned"
  budget  \* what is left to spend on questions to the model

loopVars == <<status, budget>>

Init == status = "idle" /\ budget \in Nat

\* Starting asks nothing, but may already leave no more than the forced question.
Start == status = "idle" /\ status' = "calling" /\ budget' \in 0..budget

\* A question to the model after which the run goes on.
Ask ==
  /\ status = "calling"
  /\ status' \in {"calling", "executing"}
  /\ budget' \in 0..(budget - 1)

\* The last question: an answer, or an error that ends the run.
Finish ==
  /\ status = "calling"
  /\ status' = "returned"
  /\ budget' \in 0..budget

\* The tools of one answer: executing them never makes the budget grow.  The run may
\* stop there, at its safety limit or through an exception.
Execute ==
  /\ status = "executing"
  /\ status' \in {"calling", "returned"}
  /\ budget' \in 0..budget

Next == Start \/ Ask \/ Finish \/ Execute

Safety == Init /\ [][Next]_loopVars

Spec == Safety /\ WF_loopVars(Next)
=============================================================================
