-------------------------- MODULE AttemptProvenance --------------------------
(***************************************************************************)
(* What a result of the web-search orchestrator tells of the attempts      *)
(* behind it (recipe/web_search/agent/orchestrator.py):                    *)
(* retry_attempt_provenance, one entry per attempt with the decision taken *)
(* after it, and rollback_storm_shadow, whether its rollbacks came in a    *)
(* storm.  In a sweep every budget has a list of its own, made from the    *)
(* one list of the series, where the attempt of the budget is the last     *)
(* one though the series went on.                                          *)
(*                                                                         *)
(* The actions are those of WebSearchRetry, each with what it records.  An *)
(* entry leaves out the fields that restate others: attempt ids, previews, *)
(* and the launch and block reasons, which repeat decision and why.        *)
(***************************************************************************)
EXTENDS WebSearchRetry, Sequences

CONSTANTS
  Storms,              \* sequences of rollbacks an attempt may have, [reason, turn]
  DuplicateThreshold,  \* rollback_storm_duplicate_threshold
  ToolErrorThreshold,  \* rollback_storm_tool_error_threshold
  LateTurn             \* rollback_storm_late_turn_threshold

VARIABLES
  recorded,     \* retry_attempt_provenance_enabled and rollback_storm_shadow_enabled
  rollbacks,    \* _rollback_storm_events
  suffered,     \* history: per attempt, the rollbacks of its own
  provenance,   \* attempt_provenance of the series
  previous,     \* previous_terminal_reason
  carried       \* per budget, retry_attempt_provenance of its result

recordVars == <<recorded, rollbacks, suffered, provenance, previous, carried>>
provenanceVars == <<retryVars, recordVars>>

-----------------------------------------------------------------------------
(***************************************************************************)
(* _rollback_storm_shadow_metadata.                                        *)
(***************************************************************************)
Turns(events, reason) == {events[i].turn : i \in {j \in DOMAIN events : events[j].reason = reason}}
CountOf(events, reason) == Cardinality({i \in DOMAIN events : events[i].reason = reason})
Late(turns) == \E t \in turns : t >= LateTurn

LateDuplicates(events) ==
  CountOf(events, "duplicate_query") >= DuplicateThreshold /\ Late(Turns(events, "duplicate_query"))
LateToolErrors(events) ==
  CountOf(events, "tool_error") >= ToolErrorThreshold /\ Late(Turns(events, "tool_error"))
\* Both kinds together, against the threshold of the duplicates.
LateMixed(events) ==
  /\ CountOf(events, "duplicate_query") + CountOf(events, "tool_error") >= DuplicateThreshold
  /\ Late(Turns(events, "duplicate_query") \cup Turns(events, "tool_error"))

\* shadow_candidate_type: the mixed storm is named only beside none or both of the others.
Storm(events) ==
  CASE LateDuplicates(events) /\ ~LateToolErrors(events) -> "late_duplicate_query"
    [] ~LateDuplicates(events) /\ LateToolErrors(events) -> "late_tool_error"
    [] LateDuplicates(events) /\ LateToolErrors(events) -> "multiple"
    [] OTHER -> IF LateMixed(events) THEN "late_mixed_rollback" ELSE "none"

\* _attach_rollback_storm_shadow, to the result, its entry and its trace
AttachedStorm == Storm(rollbacks)

\* Defect in the operator below: an attempt goes on with the rollbacks of the last one.
NotReset(events) == rollbacks \o events

\* _reset_rollback_storm_shadow_state, and what the attempt records.  A branch starts
\* from what it was forked from and leaves nothing behind.
FreshRollbacks(events) == events

-----------------------------------------------------------------------------
(***************************************************************************)
(* _summarize_retry_attempt.                                               *)
(***************************************************************************)
Status(output) == IF Valid(output) THEN "valid" ELSE "format_error"

Entry(o, status, count, final, decision, why) ==
  [attempt |-> attempt, budget |-> MaxAttempts, final |-> final, reason |-> o.reason, status |-> status,
   previous |-> previous, noBox |-> count, decision |-> decision, why |-> why,
   launched |-> decision = "retry", afterLimit |-> o.reason = "turn_limit" /\ ~final,
   storm |-> AttachedStorm]

SuccessEntry(o, count, final) == Entry(o, "valid", count, final, "return_success", "valid_output")

\* _return_final_attempt_result
FinalEntry(o, output, count) ==
  LET answer == Fallback(output, summary)
  IN  IF ~Valid(answer) THEN Entry(o, "format_error", count, TRUE, "return_final_failure", "final_attempt")
      ELSE Entry(o, "valid", count, TRUE, "return_final_fallback",
                 IF Valid(boxed) THEN "intermediate_boxed_fallback" ELSE "compression_state_answer_attempt")

\* _return_no_box_turn_limit_cap_result: a guess at the limit is not an answer here,
\* though it is the output of the result.
CapEntry(o, count) ==
  Entry(o, "format_error", count, FALSE, "block_no_box_turn_limit_cap", "no_box_turn_limit_cap")

\* _retry_reason_for_failed_attempt
RetryReason(o) ==
  CASE o.reason = "turn_limit" -> "non_final_turn_limit"
    [] o.reason = "prompted" -> "non_final_prompted_final_answer"
    [] o.reason = "cut" -> "non_final_token_exhaustion"
    [] OTHER -> "format_error_retry_available"

RetryEntry(o, count) == Entry(o, "format_error", count, FALSE, "retry", RetryReason(o))

\* _append_retry_attempt_provenance
With(list, entry) == IF recorded THEN Append(list, entry) ELSE list

\* Defect in the operator below: the entries keep the size of the series.
NotNormalized(list, budget) == [i \in DOMAIN list |-> [list[i] EXCEPT !.budget = budget]]

\* _normalize_attempt_budget_provenance
Normalized(list, budget) ==
  [i \in DOMAIN list |->
    [list[i] EXCEPT !.budget = budget,
                    !.final = IF list[i].attempt <= budget THEN list[i].attempt = budget ELSE @]]

\* The result for the budgets bs carries a copy of the list.
Carry(list, bs) ==
  carried' = [b \in Budgets |-> IF b \notin bs THEN carried[b]
                                ELSE IF options.sweep THEN Normalized(list, b) ELSE list]

-----------------------------------------------------------------------------
RecordInit ==
  /\ recorded \in BOOLEAN
  /\ rollbacks = <<>> /\ suffered = <<>>
  /\ provenance = <<>> /\ previous = "none"
  /\ carried = [b \in Budgets |-> <<>>]

ProvenanceInit == RetryInit /\ RecordInit

RecordedAttempt ==
  /\ RunAttempt
  /\ \E events \in IF recorded THEN Storms ELSE {<<>>} :
       rollbacks' = FreshRollbacks(events) /\ suffered' = IF recorded THEN Append(suffered, events) ELSE suffered
  /\ UNCHANGED <<recorded, provenance, previous, carried>>

\* The attempt's last entry, in every result from it.
Close(entry, bs) ==
  /\ provenance' = With(provenance, entry)
  /\ Carry(provenance', bs)
  /\ UNCHANGED previous

\* Another attempt follows.
GoOn(o, count) ==
  /\ provenance' = With(provenance, RetryEntry(o, count))
  /\ previous' = o.reason
  /\ UNCHANGED carried

RecordedPrepare ==
  /\ Prepare
  /\ LET success == settled' /\ Valid(result'.output)
     IN  \/ /\ success
            /\ Close(SuccessEntry(result', noBox', IsFinal), BudgetsServed)
         \/ /\ ~success /\ options.sweep
            /\ UNCHANGED <<provenance, previous, carried>>
         \/ /\ ~success /\ ~options.sweep /\ IsFinal
            /\ Close(FinalEntry(result', result'.output, noBox'), {MaxAttempts})
         \/ /\ ~success /\ ~options.sweep /\ Capped(noBox')
            /\ Close(CapEntry(result, noBox'), {MaxAttempts})
         \/ /\ ~success /\ ~options.sweep /\ ~IsFinal /\ ~Capped(noBox')
            /\ GoOn(result, noBox')
  /\ UNCHANGED <<recorded, rollbacks, suffered>>

\* _finalize_attempt_budget_result works on a copy of the list.  A branch that reached
\* the turn limit counts as one such attempt at least.
RecordedFinalize ==
  /\ \E source \in FinalSources : \E output \in PreparedOutputs(source, TRUE) :
       /\ FinalizeFrom(source, output)
       /\ LET count == IF source.reason = "turn_limit" /\ noBox = 0 THEN 1 ELSE noBox
              entry == IF Valid(output) THEN SuccessEntry(source, noBox, TRUE) ELSE FinalEntry(source, output, count)
          IN  Carry(With(provenance, entry), {attempt})
  /\ UNCHANGED <<recorded, rollbacks, suffered, provenance, previous>>

RecordedAdvance ==
  /\ Advance
  /\ \/ settled /\ UNCHANGED <<provenance, previous, carried>>
     \/ ~settled /\ Capped(noBox) /\ Close(CapEntry(result, noBox), (attempt + 1)..MaxAttempts)
     \/ ~settled /\ ~Capped(noBox) /\ GoOn(result, noBox)
  /\ UNCHANGED <<recorded, rollbacks, suffered>>

\* Auxiliary attempts restore the rollbacks; the verified result is a copy with the
\* same list.
RecordedVerification == (Verify \/ Reanswer) /\ UNCHANGED recordVars

ProvenanceNext ==
  RecordedAttempt \/ RecordedPrepare \/ RecordedFinalize \/ RecordedAdvance \/ RecordedVerification

ProvenanceSpec == ProvenanceInit /\ [][ProvenanceNext]_provenanceVars

-----------------------------------------------------------------------------
(***************************************************************************)
(* Properties.                                                             *)
(***************************************************************************)

\* The attempts from the first one on, each of which but the last was followed by the
\* next one, after the reason it ended for.
Chained(list) ==
  \A i \in DOMAIN list :
    /\ list[i].attempt = i
    /\ list[i].launched = (i < Len(list))
    /\ list[i].previous = IF i = 1 THEN "none" ELSE list[i - 1].reason

\* Attempts at the turn limit without an answer are counted while no other comes between.
CountsRuns(list) ==
  \A i \in DOMAIN list : list[i].decision \in {"retry", "block_no_box_turn_limit_cap"} =>
    list[i].noBox = IF list[i].reason # "turn_limit" THEN 0
                    ELSE IF i = 1 THEN 1
                    ELSE list[i - 1].noBox + 1

OfBudget(list, b) == \A i \in DOMAIN list : list[i].budget = b /\ list[i].final = (i = b)

OwnStorms(list) == \A i \in DOMAIN list : list[i].storm = Storm(suffered[i])

\* What the result for a budget tells of its attempts is true of that budget alone: they
\* are chained, the attempt of the budget is its final one, the storms are those of the
\* attempts themselves, an answer is told exactly where there is one (but for a capped
\* guess), and two budgets tell the same of the attempts before both.
ProvenanceTrue ==
  (recorded /\ phase = "returned") =>
    /\ \A b \in Budgets : options.sweep \/ b = MaxAttempts =>
         /\ carried[b] # <<>>
         /\ Chained(carried[b]) /\ CountsRuns(carried[b]) /\ OfBudget(carried[b], b) /\ OwnStorms(carried[b])
         /\ LET last == carried[b][Len(carried[b])]
            IN  (last.status = "valid") = Valid(submitted[b]) \/ last.decision = "block_no_box_turn_limit_cap"
    /\ \A b, c \in Budgets : options.sweep /\ b < c => \A i \in 1..(b - 1) :
         i \in DOMAIN carried[b] =>
           [carried[b][i] EXCEPT !.budget = c, !.final = i = c] = carried[c][i]
=============================================================================
