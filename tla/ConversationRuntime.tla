------------------------ MODULE ConversationRuntime ------------------------
(***************************************************************************)
(* The state machine of one task conversation                              *)
(* (agentic/conversations/conversation_runtime.py, class                   *)
(* ConversationRuntime).  Every public step method is one action, with all *)
(* the limit checks and prompt injections it performs before it returns.   *)
(*                                                                         *)
(* The model's answers, and the outcomes of the token-budget estimates,    *)
(* are chosen by the environment; everything else follows the code.        *)
(***************************************************************************)
EXTENDS ConversationContracts

CONSTANTS
  MaxTurns,            \* config.max_turns
  MaxRollbacks,        \* config.assistant_rollback.max_rollbacks
  CallCounts,          \* numbers of tool calls one assistant message may request
  SystemPrompt,        \* a system prompt is configured
  EarlyStopPrompt,     \* early_stop_announcement_prompt is configured
  FinalResponsePrompt, \* final_response_prompt is configured
  FormatStrategy,      \* config.format_error.strategy
  RefusalKeywords,     \* refusal keywords are configured
  DirectAnswers,       \* hook: the subclass recognises direct final answers
  AsksFinalResponse,   \* hook: a plain answer is followed by final_response_prompt
  HidesResultsOnly,    \* hook: a context rollback hides tool results but keeps their call
  AggregateRejected,   \* config.agg_reject_tool_message
  Preflight,           \* local context estimates are made (window set, preflight enabled)
  MinTokens,           \* config.min_tokens_for_generation > 0
  OrchestratorRollbacks \* the orchestrator may withdraw tool calls it has not answered

ASSUME ConfigAssumption ==
  /\ MaxTurns \in Nat \ {0}
  /\ MaxRollbacks \in Nat
  /\ CallCounts \subseteq Nat \ {0}
  /\ FormatStrategy \in {"ignore", "rollback", "reprompt"}
  /\ \A flag \in {SystemPrompt, EarlyStopPrompt, FinalResponsePrompt, RefusalKeywords, DirectAnswers,
                  AsksFinalResponse, HidesResultsOnly, AggregateRejected, Preflight, MinTokens,
                  OrchestratorRollbacks} : flag \in BOOLEAN

VARIABLES
  stage,               \* self.stage
  turnCount,           \* self._assistant_turn_count
  pendingCalls,        \* len(self._pending_tool_calls)
  rollbackCount,       \* self._assistant_rollback_count
  finalTrigger,        \* self._force_final_trigger
  finalHasPrompt,      \* self._force_final_has_prompt
  fullConversation,    \* self._full_conversation
  visibleConversation, \* self._visible_context
  raised               \* a step raised: its stage change is not in the table

counters == <<turnCount, pendingCalls, rollbackCount>>
finalVars == <<finalTrigger, finalHasPrompt>>
runtimeVars == <<stage, counters, finalVars, fullConversation, visibleConversation, raised>>

-----------------------------------------------------------------------------
(***************************************************************************)
(* What the environment may answer.                                        *)
(***************************************************************************)
Response ==
  {r \in [calls : CallCounts \cup {0}, content : BOOLEAN, length : BOOLEAN,
          refusal : BOOLEAN, markup : BOOLEAN, direct : BOOLEAN] :
     /\ (r.refusal \/ r.markup \/ r.direct) => r.content
     /\ r.refusal => RefusalKeywords
     /\ r.direct => DirectAnswers}

AssistantMessage(r) ==
  Message(IF r.calls > 0 THEN "calls" ELSE IF r.content THEN "text" ELSE "empty", r.calls)

HasForcePrompt == EarlyStopPrompt \/ FinalResponsePrompt

\* The generation budget checked after an assistant message and before the next one.
AfterAssistantBudgets == IF Preflight /\ MinTokens THEN {"ok", "warn", "hard_stop"} ELSE {"ok"}
BeforeGenerationBudgets ==
  IF ~Preflight THEN {"ok"} ELSE IF MinTokens THEN {"ok", "warn", "hard_stop"} ELSE {"ok", "warn"}

\* Whether the force-final prompt still fits; consulted only with a minimum budget.
WarningFits == IF Preflight /\ MinTokens /\ HasForcePrompt THEN BOOLEAN ELSE {TRUE}

\* Tool results after rejected ones with the same text are merged into one message.
ToolResultBatches(n) ==
  LET single(k) == [i \in 1..k |-> Message("tool", 1)]
  IN  {single(n)} \cup
      (IF AggregateRejected THEN {Append(single(n - k), Message("tool", k)) : k \in 2..n} ELSE {})

-----------------------------------------------------------------------------
(***************************************************************************)
(* Building blocks of a step.                                              *)
(***************************************************************************)

\* _append_messages: "before", then a marker hiding the last "hidden" messages
\* (none for 0), then "after".  The full log only grows, the visible view follows.
Log(before, hidden, after) ==
  /\ fullConversation' =
       fullConversation \o before \o (IF hidden > 0 THEN <<RollbackMarker(hidden)>> ELSE << >>) \o after
  /\ visibleConversation' = RollbackLast(visibleConversation \o before, hidden) \o after

\* _transit_stage along a path, as far as the table allows: a missing hop raises.
Hop(path, i) == <<path[i], path[i + 1]>> \in ValidStageTransition

TransitAlong(path) ==
  \E last \in 1..Len(path) :
    /\ \A i \in 1..(last - 1) : Hop(path, i)
    /\ stage' = path[last]
    /\ \/ last = Len(path) /\ raised' = FALSE
       \/ last < Len(path) /\ ~Hop(path, last) /\ raised' = TRUE

ForcePrompt == IF HasForcePrompt THEN <<Message("force_prompt", 0)>> ELSE << >>

\* _inject_force_finalization, after the messages of the same step.
ForceFinal(entries, hidden, path, trigger) ==
  /\ Log(entries, hidden, ForcePrompt)
  /\ finalTrigger' = trigger
  /\ finalHasPrompt' = HasForcePrompt
  /\ TransitAlong(Append(path, "force_final"))

\* A step that ends in the last stage of "path" without forcing the answer.
Settle(entries, hidden, path) ==
  /\ Log(entries, hidden, << >>)
  /\ TransitAlong(path)
  /\ UNCHANGED finalVars

\* _should_force_finalize_due_to_turn_limit: an equality, not an inequality.
\* Defect: the limit is noticed one turn late.
TurnLimitReachedLate(turns) == turns = MaxTurns

TurnLimitReached(turns) == turns + 1 = MaxTurns

\* _handle_wait_for_assistant_stage: only the turn budget can still force the answer.
AwaitAssistant(entries, path, turns) ==
  IF TurnLimitReached(turns) THEN ForceFinal(entries, 0, path, "turn_limit") ELSE Settle(entries, 0, path)

\* Whether a context rollback is a legal change here.
MayRollBackFrom(at) == <<at, "context_rollback">> \in ValidStageTransition

CanRollBack == rollbackCount < MaxRollbacks

\* _compute_rollback_message_count: back through the latest assistant message, or
\* all that follows the system message when there is none; the web-search override
\* stops before the assistant message when tool results are the tail.
ContextRollbackCount(visible, at) ==
  LET lastSystem == SelectLastInSeq(visible, LAMBDA m : m.kind = "system")
      lastAssistant == SelectLastInSeq(visible, IsAssistant)
      results == Len(visible) - SelectLastInSeq(visible, LAMBDA m : m.kind # "tool")
  IN  CASE HidesResultsOnly /\ at = "tool_messages" /\ results > 0 -> results
        [] OTHER -> IF lastAssistant > lastSystem THEN Len(visible) - lastAssistant + 1
                                                  ELSE Len(visible) - lastSystem

\* Defect in the count below: the calling message is left behind.
LatestToolExchangeResultsOnly(visible) ==
  Len(visible) - SelectLastInSeq(visible, LAMBDA m : m.kind \notin {"tool", "force_prompt"})

\* _compute_latest_tool_exchange_rollback_count: an optional force-final prompt,
\* one or more tool results, and the assistant message that called them.
LatestToolExchange(visible) ==
  LET prompted == HasForcePrompt /\ Len(visible) > 0
                    /\ \/ visible[Len(visible)].kind = "force_prompt"
                       \/ ~EarlyStopPrompt /\ visible[Len(visible)].kind = "final_prompt"
      lastResult == Len(visible) - (IF prompted THEN 1 ELSE 0)
      caller == SelectLastInSubSeq(visible, 1, lastResult, LAMBDA m : m.kind # "tool")
  IN  IF caller > 0 /\ caller < lastResult /\ visible[caller].kind = "calls"
        THEN Len(visible) - caller + 1
        ELSE 0

\* Defect in the operator below: whether the stage can be left that way is not asked.
ForceFinalRollsBackAnywhere(entries, path, mayRollBack, fits) ==
  LET hidden == IF mayRollBack
                  THEN ContextRollbackCount(visibleConversation \o entries, path[Len(path)]) ELSE 0
      reached == IF hidden > 0 THEN Append(path, "context_rollback") ELSE path
  IN  IF fits THEN ForceFinal(entries, hidden, reached, "context_limit")
              ELSE Settle(entries, hidden, Append(reached, "token_exceed"))

\* _force_finalize_due_to_context_limit, after the messages of the same step: a
\* rollback where the stage allows one, then the forced answer if its prompt fits.
ForceFinalDueToContext(entries, path, mayRollBack, fits) ==
  LET at == path[Len(path)]
      hidden == IF mayRollBack /\ MayRollBackFrom(at)
                  THEN ContextRollbackCount(visibleConversation \o entries, at) ELSE 0
      reached == IF hidden > 0 THEN Append(path, "context_rollback") ELSE path
  IN  IF fits THEN ForceFinal(entries, hidden, reached, "context_limit")
              ELSE Settle(entries, hidden, Append(reached, "token_exceed"))

-----------------------------------------------------------------------------
(***************************************************************************)
(* Initialization.                                                         *)
(***************************************************************************)
Init ==
  /\ stage = "not_initialized"
  /\ turnCount = 0
  /\ pendingCalls = 0
  /\ rollbackCount = 0
  /\ finalTrigger = NoTrigger
  /\ finalHasPrompt = FALSE
  /\ fullConversation = << >>
  /\ visibleConversation = << >>
  /\ raised = FALSE

\* initialize_conversation
InitializeConversation ==
  /\ stage = "not_initialized"
  /\ IF SystemPrompt
       THEN AwaitAssistant(<<SystemMessage, TaskMessage>>,
                           <<"not_initialized", "system_set", "initial_user">>, turnCount)
       ELSE AwaitAssistant(<<TaskMessage>>, <<"not_initialized", "initial_user">>, turnCount)
  /\ UNCHANGED counters

-----------------------------------------------------------------------------
(***************************************************************************)
(* apply_assistant_message: one action per way a response is dispatched,   *)
(* in the order of the code.  "Received(r)" holds of every response, the   *)
(* later dispatch steps are reached only past the earlier ones.            *)
(***************************************************************************)
Received(r) == ~raised /\ stage \in CallModelStages /\ r \in Response

Spent(r) == r.length /\ ~r.content /\ r.calls = 0

\* Past token exhaustion, force finalization, truncation and the budget check.
Accepted(r, budget) ==
  Received(r) /\ stage # "force_final" /\ ~r.length /\ budget = "ok"

\* Past the tool-call dispatch, and a retry of the message is still possible.
Judged(r, budget) == Accepted(r, budget) /\ r.calls = 0 /\ stage # "final_prompt"

Withdrawn(r) == CanRollBack /\ (r.refusal \/ (r.markup /\ FormatStrategy = "rollback"))
Reprompted(r) == ~(r.refusal /\ CanRollBack) /\ r.markup /\ FormatStrategy = "reprompt"

\* 1. Nothing was generated: the context window is full.
TokenExhausted(r) ==
  /\ Received(r) /\ Spent(r)
  /\ Settle(<<AssistantMessage(r)>>, 0, <<stage, "received", "token_exceed">>)
  /\ turnCount' = turnCount + 1
  /\ UNCHANGED <<pendingCalls, rollbackCount>>

\* _resolve_force_completed_stage: a silent forced round ends like a normal one.
ForceCompletedStage == IF finalHasPrompt THEN "force_completed" ELSE "completed"

\* 2. The force-final round: any text is the answer, tool calls are rejected.
ForceFinalResponse(r) ==
  /\ Received(r) /\ stage = "force_final" /\ ~Spent(r)
  /\ Settle(<<AssistantMessage(r)>>, 0,
            <<stage, "received", IF r.calls > 0 THEN "calls_rejected" ELSE ForceCompletedStage>>)
  /\ turnCount' = turnCount + 1
  /\ UNCHANGED <<pendingCalls, rollbackCount>>

\* A truncated response is terminal; a direct final answer in it still counts.
TruncatedResponse(r) ==
  /\ Received(r) /\ stage # "force_final" /\ r.length /\ ~Spent(r)
  /\ Settle(<<AssistantMessage(r)>>, 0, <<stage, "received", IF r.direct THEN "completed" ELSE "token_exceed">>)
  /\ turnCount' = turnCount + 1
  /\ rollbackCount' = IF r.direct THEN 0 ELSE rollbackCount
  /\ UNCHANGED pendingCalls

\* _maybe_stop_or_warn_after_assistant: no rollback, the message stays visible.
BudgetAfterAssistant(r, budget, fits) ==
  /\ Received(r) /\ stage # "force_final" /\ ~r.length
  /\ \/ /\ budget = "hard_stop"
        /\ Settle(<<AssistantMessage(r)>>, 0, <<stage, "received", "token_exceed">>)
     \/ /\ budget = "warn"
        /\ ForceFinalDueToContext(<<AssistantMessage(r)>>, <<stage, "received">>, FALSE, fits)
  /\ turnCount' = turnCount + 1
  /\ UNCHANGED <<pendingCalls, rollbackCount>>

\* 3. Tool calls.
RequestTools(r, budget) ==
  /\ Accepted(r, budget) /\ r.calls > 0
  /\ Settle(<<AssistantMessage(r)>>, 0, <<stage, "received", "await_tools">>)
  /\ turnCount' = turnCount + 1
  /\ pendingCalls' = r.calls
  /\ UNCHANGED rollbackCount

\* 4a and 4b (rollback): hide the message and ask again; the turn is not counted.
WithdrawAssistantMessage(r, budget) ==
  /\ Judged(r, budget) /\ Withdrawn(r)
  /\ Settle(<<AssistantMessage(r)>>, 1,
            <<stage, "received", "assistant_rollback",
              IF stage = "initial_user" THEN "initial_user" ELSE "tool_messages">>)
  /\ rollbackCount' = rollbackCount + 1
  /\ UNCHANGED <<turnCount, pendingCalls>>

\* 4b (reprompt).
RepromptFormatError(r, budget) ==
  /\ Judged(r, budget) /\ Reprompted(r)
  /\ AwaitAssistant(<<AssistantMessage(r), Message("reprompt", 0)>>,
                    <<stage, "received", "format_error">>, turnCount + 1)
  /\ turnCount' = turnCount + 1
  /\ UNCHANGED <<pendingCalls, rollbackCount>>

\* 6. Ask for the final response.
AskFinalResponse(r, budget) ==
  /\ Judged(r, budget) /\ ~Withdrawn(r) /\ ~Reprompted(r)
  /\ ~r.direct /\ FinalResponsePrompt /\ AsksFinalResponse
  /\ AwaitAssistant(<<AssistantMessage(r), Message("final_prompt", 0)>>,
                    <<stage, "received", "final_prompt">>, turnCount + 1)
  /\ turnCount' = turnCount + 1
  /\ rollbackCount' = 0
  /\ UNCHANGED pendingCalls

\* 5 and 7. The answer is accepted.
CompleteNormally(r, budget) ==
  /\ Accepted(r, budget) /\ r.calls = 0
  /\ \/ stage = "final_prompt"
     \/ /\ ~Withdrawn(r) /\ ~Reprompted(r)
        /\ r.direct \/ ~FinalResponsePrompt \/ ~AsksFinalResponse
  /\ Settle(<<AssistantMessage(r)>>, 0, <<stage, "received", "completed">>)
  /\ turnCount' = turnCount + 1
  /\ rollbackCount' = 0
  /\ UNCHANGED pendingCalls

ApplyAssistantMessage(r, budget, fits) ==
  \/ TokenExhausted(r)
  \/ ForceFinalResponse(r)
  \/ TruncatedResponse(r)
  \/ BudgetAfterAssistant(r, budget, fits)
  \/ RequestTools(r, budget)
  \/ WithdrawAssistantMessage(r, budget)
  \/ RepromptFormatError(r, budget)
  \/ AskFinalResponse(r, budget)
  \/ CompleteNormally(r, budget)

-----------------------------------------------------------------------------
(***************************************************************************)
(* apply_batch_tool_messages: the pending calls are settled, the results   *)
(* recorded (rejected ones merged), then tool exhaustion, the generation   *)
(* budget and the turn limit are checked in this order.                    *)
(***************************************************************************)
ApplyBatchToolMessages(results, exhausted, budget, fits) ==
  LET path == <<stage, "tool_messages">>
  IN  /\ ~raised /\ stage = "await_tools"
      /\ results \in ToolResultBatches(pendingCalls)
      /\ \/ /\ exhausted
            /\ ForceFinal(results, 0, path, "tools_exhausted")
         \/ /\ ~exhausted /\ budget = "hard_stop"
            /\ Settle(results, 0, Append(path, "token_exceed"))
         \/ /\ ~exhausted /\ budget = "warn"
            /\ ForceFinalDueToContext(results, path, TRUE, fits)
         \/ /\ ~exhausted /\ budget = "ok"
            /\ AwaitAssistant(results, path, turnCount)
      /\ pendingCalls' = 0
      /\ UNCHANGED <<turnCount, rollbackCount>>

-----------------------------------------------------------------------------
(***************************************************************************)
(* Recoveries the orchestrator asks for.                                   *)
(***************************************************************************)

\* force_finalize_due_to_context_limit_after_error: the provider rejected the
\* prompt.  In the force-final round nothing changes and the caller gives up.
ForceFinalAfterContextError(fits) ==
  /\ ~raised /\ stage \in CallModelStages \ {"force_final"}
  /\ ForceFinalDueToContext(<< >>, <<stage>>, TRUE, fits)
  /\ UNCHANGED counters

\* rollback_latest_tool_exchange_and_force_finalize
CanDropLatestExchange ==
  /\ stage \in CallModelStages
  /\ LatestToolExchange(visibleConversation) > 0
  /\ MayRollBackFrom(stage)

DropLatestExchange(trigger) ==
  /\ ~raised /\ CanDropLatestExchange
  /\ ForceFinal(<< >>, LatestToolExchange(visibleConversation),
                <<stage, "context_rollback">>, trigger)
  /\ UNCHANGED counters

\* rollback_assistant_tool_calls: withdraw calls that were not executed or failed.
RollbackAssistantToolCalls ==
  /\ OrchestratorRollbacks
  /\ ~raised /\ stage = "await_tools" /\ CanRollBack
  /\ Settle(<< >>, 1, <<stage, "assistant_rollback", "tool_messages">>)
  /\ rollbackCount' = rollbackCount + 1
  /\ pendingCalls' = 0
  /\ turnCount' = IF turnCount > 0 THEN turnCount - 1 ELSE 0

\* reset_rollback_counter: such an orchestrator forgives after answered calls.
ResetRollbackCounter ==
  /\ OrchestratorRollbacks
  /\ ~raised /\ stage \notin {"not_initialized", "await_tools"}
  /\ fullConversation[Len(fullConversation)].kind = "tool"
  /\ rollbackCount' = 0
  /\ UNCHANGED <<stage, turnCount, pendingCalls, finalVars, fullConversation, visibleConversation, raised>>

-----------------------------------------------------------------------------
AssistantStep ==
  \E r \in Response, budget \in AfterAssistantBudgets, fits \in WarningFits :
    ApplyAssistantMessage(r, budget, fits)

ToolStep ==
  \E results \in ToolResultBatches(pendingCalls), exhausted \in BOOLEAN,
     budget \in BeforeGenerationBudgets, fits \in WarningFits :
    ApplyBatchToolMessages(results, exhausted, budget, fits)

ContextErrorStep == \E fits \in WarningFits : ForceFinalAfterContextError(fits)

DropExchangeStep == \E trigger \in {"empty_response", "context_limit"} : DropLatestExchange(trigger)

Next ==
  \/ InitializeConversation
  \/ AssistantStep
  \/ ToolStep
  \/ ContextErrorStep
  \/ DropExchangeStep
  \/ RollbackAssistantToolCalls
  \/ ResetRollbackCounter

Spec == Init /\ [][Next]_runtimeVars

-----------------------------------------------------------------------------
(***************************************************************************)
(* Properties.                                                             *)
(***************************************************************************)
VisibleMessage == [kind : AssistantKinds \cup UserPromptKinds \cup {"system", "tool"}, n : Nat]
Entry == VisibleMessage \cup [kind : MarkerKinds, n : Nat]

\* Every variable stays in its type; markers are recorded but never shown to the model.
TypeOK ==
  /\ stage \in Stages \cup InternalStages
  /\ turnCount \in Nat
  /\ pendingCalls \in Nat
  /\ rollbackCount \in 0..MaxRollbacks
  /\ finalTrigger \in Triggers \cup {NoTrigger}
  /\ finalHasPrompt \in BOOLEAN
  /\ fullConversation \in Seq(Entry)
  /\ visibleConversation \in Seq(VisibleMessage)
  /\ raised \in BOOLEAN

\* The turn budget is never exceeded, although the code tests "turn + 1 == max_turns"
\* and rollbacks take turns back: tools only run while a turn is left for the
\* answer, and a normal (not forced) prompt always leaves at least two.
TurnBudget ==
  /\ turnCount <= MaxTurns
  /\ stage \in CallModelStages => turnCount < MaxTurns
  /\ stage \in CallModelStages \ {"force_final"} => turnCount + 1 < MaxTurns
  /\ stage = "await_tools" => turnCount < MaxTurns

\* Every stage change a step makes is in VALID_STAGE_TRANSITION: no step raises.
NoInvalidTransition == ~raised

\* Calls are pending exactly while the runtime waits for tools, and they are the
\* calls of the assistant message that the model sees last.
PendingCallsMatch ==
  /\ (pendingCalls > 0) <=> (stage = "await_tools")
  /\ stage = "await_tools" =>
       visibleConversation[Len(visibleConversation)] = Message("calls", pendingCalls)

\* No rollback, whatever its reason, takes the system prompt or the task away
\* from the model.
TaskAlwaysVisible ==
  stage # "not_initialized" =>
    IsPrefix(IF SystemPrompt THEN <<SystemMessage, TaskMessage>> ELSE <<TaskMessage>>, visibleConversation)

\* In every prompt sent to the model each assistant call is answered in full
\* directly after it, and no tool result stands without its call.
Answered(visible, i) ==
  \E results \in ToolResultBatches(visible[i].n) :
    LET last == i + Len(results)
    IN  /\ last <= Len(visible) /\ SubSeq(visible, i + 1, last) = results
        /\ last < Len(visible) => visible[last + 1].kind # "tool"

ToolExchangesComplete(visible) ==
  \A i \in 1..Len(visible) :
    /\ visible[i].kind = "calls" => Answered(visible, i)
    /\ visible[i].kind = "tool" => i > 1 /\ visible[i - 1].kind \in {"tool", "calls"}

PromptsWellFormed == stage \in CallModelStages => ToolExchangesComplete(visibleConversation)

\* A prompt never ends in an assistant message: a withdrawn message is hidden, and
\* every other one is followed by results or by a user prompt.
PromptEndsWithInput ==
  stage \in CallModelStages =>
    ~IsAssistant(visibleConversation[Len(visibleConversation)])

\* Replaying the append-only log from the start, as the full rebuild, a clone and a
\* reader of the trace do, gives the conversation the runtime kept incrementally.
ReplayAgrees == visibleConversation = Replay(<< >>, fullConversation)

\* PendingCallsMatch everywhere, and NoInvalidTransition but for a forced answer that
\* need not fit (_force_finalize_due_to_context_limit): whatever hid messages or moved
\* the stage from outside the table's main path, the next step finds the calls it
\* expects and a legal way on.  A step that raises does so where nothing came back from
\* a tool since the task or the last prompt, and leaves that stage as it was.
StageTableRespected ==
  /\ PendingCallsMatch
  /\ ~(Preflight /\ MinTokens /\ HasForcePrompt) => NoInvalidTransition
  /\ raised => stage \in {"initial_user", "format_error", "final_prompt"}

\* ReplayAgrees everywhere, TaskAlwaysVisible but where the orchestrator withdraws calls,
\* and PromptsWellFormed and PromptEndsWithInput but where a rollback may hide results
\* without their call or the answer be forced on calls that are not answered (the budget
\* checked after an assistant message): whatever has been withdrawn, the model is asked
\* about its task, with every call followed by its results, and the log replays to what
\* it is asked about (_compute_rollback_message_count, rollback_assistant_tool_calls).
PromptsReadable ==
  /\ ReplayAgrees
  /\ ~OrchestratorRollbacks => TaskAlwaysVisible
  /\ ~HidesResultsOnly /\ ~(Preflight /\ MinTokens) =>
       PromptsWellFormed /\ (~OrchestratorRollbacks => PromptEndsWithInput)

=============================================================================
