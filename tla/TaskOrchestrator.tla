-------------------------- MODULE TaskOrchestrator --------------------------
(***************************************************************************)
(* The loop that drives one task conversation                              *)
(* (agentic/orchestration/task_orchestrator.py, class TaskOrchestrator):   *)
(* it asks the model, hands the answer to the ConversationRuntime, runs    *)
(* the tools the runtime asks for, recovers from the model client's errors *)
(* and returns with a reason.  The runtime's actions are those of          *)
(* ConversationRuntime, performed when the loop calls them and otherwise   *)
(* not at all.                                                             *)
(***************************************************************************)
EXTENDS ConversationRuntime, FiniteSets

CONSTANTS
  LoopLimit,  \* max_loop_iterations: max_turns plus the safety margin
  ModelErrors \* the errors acomplete may raise

ASSUME OrchestratorAssumption ==
  /\ LoopLimit \in Nat \ {0}
  /\ ModelErrors \subseteq {"context_limit", "empty_response", "other"}
  /\ ~OrchestratorRollbacks

VARIABLES
  phase,   \* what run() is doing
  turnIdx, \* turn_count of the loop
  reason   \* reason, of the result once it returns

taskVars == <<runtimeVars, phase, turnIdx, reason>>

NoReason == "none"
SafetyLimit == "terminated_loop_safety_limit"

-----------------------------------------------------------------------------
\* The end of a turn of the loop: a reason ends the run, as does the last iteration.
Continue ==
  IF turnIdx' >= LoopLimit
    THEN phase' = "returned" /\ reason' = SafetyLimit
    ELSE phase' = "calling" /\ UNCHANGED reason

Return(why) == phase' = "returned" /\ reason' = why

\* An exception nobody in run() catches: the result and the trace stay unfinished.
Escape == phase' = "escaped" /\ UNCHANGED reason

\* The reason a forced answer is reported with.
TerminatedBy(trigger) ==
  CASE trigger = "turn_limit" -> "terminated_turn_limit"
    [] trigger = "tools_exhausted" -> "terminated_tools_exhausted"
    [] trigger = "context_limit" -> "terminated_context_limit"
    [] trigger = "empty_response" -> "terminated_empty_response"
    [] OTHER -> "terminated_force_completed"

\* Defect in the operator below: a rejected forced answer is reported as an answer.
DoneReasonLenient(at, trigger) ==
  CASE at \in {"completed", "calls_rejected"} -> "assistant_final_answer"
    [] at = "force_completed" -> TerminatedBy(trigger)
    [] at = "token_exceed" -> "terminated_token_exceed"

\* _done_reason_for_stage
DoneReason(at, trigger) ==
  CASE at = "completed" -> "assistant_final_answer"
    [] at = "force_completed" -> TerminatedBy(trigger)
    [] at = "calls_rejected" -> "assistant_tool_calls_rejected_due_to_force_finalization"
    [] at = "token_exceed" -> "terminated_token_exceed"

TaskInit ==
  /\ Init
  /\ phase = "idle"
  /\ turnIdx = 0
  /\ reason = NoReason

\* run, up to the loop.
StartTask ==
  /\ phase = "idle"
  /\ InitializeConversation
  /\ phase' = "calling"
  /\ UNCHANGED <<turnIdx, reason>>

\* Defect in the action below: a terminal action is not told from CALL_MODEL.
AnswerTurnKeepsAsking ==
  /\ phase = "calling"
  /\ turnIdx' = turnIdx + 1
  /\ AssistantStep
  /\ \/ raised' /\ Escape
     \/ ~raised' /\ stage' = "await_tools" /\ phase' = "executing" /\ UNCHANGED reason
     \/ ~raised' /\ stage' # "await_tools" /\ Continue

\* _run_turn with an answer: the action of the step result decides what comes next.
AnswerTurn ==
  /\ phase = "calling"
  /\ turnIdx' = turnIdx + 1
  /\ AssistantStep
  /\ \/ raised' /\ Escape
     \/ ~raised' /\ stage' = "await_tools" /\ phase' = "executing" /\ UNCHANGED reason
     \/ ~raised' /\ stage' \in DoneStages /\ Return(DoneReason(stage', finalTrigger))
     \/ ~raised' /\ stage' \in CallModelStages /\ Continue

\* _run_tool_phase: never done, whatever stage the runtime ends in.
ToolPhase ==
  /\ phase = "executing"
  /\ ToolStep
  /\ UNCHANGED turnIdx
  /\ IF raised' THEN Escape ELSE Continue

\* Defect in the action below: a forced round that does not fit is forgotten.
ContextLimitErrorReopens ==
  /\ phase = "calling" /\ stage \in CallModelStages
  /\ turnIdx' = turnIdx + 1
  /\ Continue
  /\ \/ ContextErrorStep /\ ~raised' /\ stage' \in CallModelStages
     \/ /\ stage = "force_final" /\ stage' = "tool_messages"
        /\ UNCHANGED <<counters, finalVars, fullConversation, visibleConversation, raised>>

\* _handle_model_context_limit_error: one forced round, and no second one.
ContextLimitError ==
  /\ phase = "calling" /\ stage \in CallModelStages
  /\ turnIdx' = turnIdx + 1
  /\ \/ /\ ContextErrorStep
        /\ \/ raised' /\ Escape
           \/ ~raised' /\ stage' \in CallModelStages /\ Continue
           \/ ~raised' /\ stage' \notin CallModelStages /\ Return("terminated_context_limit")
     \/ /\ stage = "force_final"
        /\ Return("terminated_context_limit")
        /\ UNCHANGED runtimeVars

\* _handle_empty_response_error: drop the latest exchange, or give up without one.
EmptyResponseError ==
  /\ phase = "calling" /\ stage \in CallModelStages
  /\ turnIdx' = turnIdx + 1
  /\ \/ DropLatestExchange("empty_response") /\ Continue
     \/ ~CanDropLatestExchange /\ Return("terminated_empty_response") /\ UNCHANGED runtimeVars

\* Any other ValueError or RuntimeError of the client.
OtherModelError ==
  /\ phase = "calling"
  /\ turnIdx' = turnIdx + 1
  /\ Return("model_error")
  /\ UNCHANGED runtimeVars

\* The model was asked although the conversation is over: the runtime refuses an
\* answer, a rollback and a forced answer alike.
CallAfterEnd ==
  /\ phase = "calling" /\ stage \in DoneStages
  /\ turnIdx' = turnIdx + 1
  /\ Escape
  /\ UNCHANGED runtimeVars

ModelErrorTurn ==
  \/ "context_limit" \in ModelErrors /\ ContextLimitError
  \/ "empty_response" \in ModelErrors /\ EmptyResponseError
  \/ "other" \in ModelErrors /\ OtherModelError

RunEnded == phase \in {"returned", "escaped"} /\ UNCHANGED taskVars

TaskStep == StartTask \/ AnswerTurn \/ ToolPhase \/ ModelErrorTurn \/ CallAfterEnd

TaskNext == TaskStep \/ RunEnded

\* Every await of the loop returns: clients and tools time out.
TaskSpec == TaskInit /\ [][TaskNext]_taskVars /\ WF_taskVars(TaskStep)

-----------------------------------------------------------------------------
(***************************************************************************)
(* Properties.                                                             *)
(***************************************************************************)

\* The loop and the runtime agree on who acts next: the model is only asked in a
\* stage that awaits it, and tools only run for calls that are pending.
InStep ==
  /\ phase = "calling" => stage \in CallModelStages
  /\ phase = "executing" => stage = "await_tools" /\ pendingCalls > 0

\* The reason is true of the conversation: it is reported as answered only when a
\* normal answer was accepted, as forced only when a forced round took place.
ReasonTrue ==
  /\ reason = "assistant_final_answer" => stage = "completed"
  /\ \A t \in {"turn_limit", "tools_exhausted"} : reason = TerminatedBy(t) => finalTrigger = t
  /\ (phase = "returned" /\ stage \notin DoneStages) =>
       reason \in {"terminated_context_limit", "terminated_empty_response", "model_error", SafetyLimit}

\* Tool results ended the conversation: they were recorded last, or the marker that hides
\* them again (_maybe_stop_or_warn_before_generation).
EndedByResults ==
  /\ stage = "token_exceed" /\ pendingCalls = 0
  /\ fullConversation[Len(fullConversation)].kind \in {"tool", "rollback"}

\* The loop and the runtime agree on who acts next and, in the end, on why the run is over:
\* the model is only asked where it is awaited, or where tool results have ended the
\* conversation behind the loop's back (_run_tool_phase); tools only run for pending calls;
\* and the reason is true.
LoopInStep ==
  /\ ReasonTrue
  /\ phase = "calling" => stage \in CallModelStages \/ EndedByResults
  /\ phase = "executing" => stage = "await_tools" /\ pendingCalls > 0

\* Every question to the model uses up part of a budget fixed at the start: counted
\* turns first, then the rollbacks left, the exchanges that can still be dropped and
\* the one forced round.  A counted turn may give back all the rest.
CallsVisible == Cardinality({i \in DOMAIN visibleConversation : visibleConversation[i].kind = "calls"})

Budget ==
  (MaxRollbacks + 2) * (MaxTurns - turnCount) + (MaxRollbacks - rollbackCount) + CallsVisible
    + (IF stage = "force_final" THEN 0 ELSE 1)

\* An exception leaves run() as well.
Loop ==
  INSTANCE TaskLoop WITH status <- IF phase = "escaped" THEN "returned" ELSE phase, budget <- Budget

ImplementsTaskLoop == Loop!Spec

\* "Terminal -- stop orchestration": no question follows a terminal stage.
DoneStopsTheLoop == phase = "calling" => stage \notin DoneStages
=============================================================================
