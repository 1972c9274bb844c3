----------------------------- MODULE MCEvaluation -----------------------------
(***************************************************************************)
(* Small instances for TLC of what is done with the answers of a run, side *)
(* by side: the judging of its directory and the F1 verifier, of which one *)
(* moves in a behaviour and the other stands still.  Tasks are alike, and  *)
(* so are settings of the judge: nothing orders or chooses among them.     *)
(***************************************************************************)
EXTENDS JudgeExisting, DsqaVerify, TLC

\* Every answer found and one too many, or none found.
TwoGrades == {[found |-> TRUE, missed |-> FALSE, extra |-> TRUE], [found |-> FALSE, missed |-> TRUE, extra |-> FALSE]}

VARIABLE subject \* the part that moves; never changes

EvaluationInit ==
  /\ subject \in {"judging", "grading"}
  /\ JudgeInit /\ DsqaInit

\* The part of the given name moves, every other stands still.
Alone(moving) ==
  /\ subject = moving /\ UNCHANGED subject
  /\ moving # "judging" => UNCHANGED judgeVars
  /\ moving # "grading" => UNCHANGED dsqaVars

EvaluationNext ==
  \/ Alone("judging") /\ JudgeNext
  \/ Alone("grading") /\ DsqaNext

EvaluationSpec == EvaluationInit /\ [][EvaluationNext]_<<judgeVars, dsqaVars, subject>>

Symmetry == Permutations(Items) \cup Permutations(Judges) \cup Permutations(DsqaRows)
=============================================================================
