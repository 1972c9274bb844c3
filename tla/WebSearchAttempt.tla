-------------------------- MODULE WebSearchAttempt --------------------------
(***************************************************************************)
(* One attempt of the web-search orchestrator at a task                    *)
(* (recipe/web_search/agent/orchestrator.py, _run_single_attempt), around  *)
(* the web-search conversation runtime (runtime.py): duplicate-query and   *)
(* tool-error rollbacks, the budget of distinct queries, recovery from     *)
(* generation limits, and the two policies that shrink the prompt between  *)
(* turns, periodic summaries (context_compression_manager.py) and          *)
(* discard-all resets (discard_all_manager.py).                            *)
(*                                                                         *)
(* The conversation is the runtime's; the loop keeps a copy of its last    *)
(* step ("loopStep") and decides from the copy, so the two can disagree.   *)
(*                                                                         *)
(* Messages are those of ConversationContracts.  The web-search settings   *)
(* are fixed: native tool calls (no format errors), a boxed or plain text  *)
(* ends the conversation, no announcement prompt but a prompt for the      *)
(* final response, no minimum generation budget.                           *)
(***************************************************************************)
EXTENDS ConversationContracts, FiniteSets

CONSTANTS
  Queries,             \* search queries a message can ask for; none: one other call
  MaxTurns,            \* conversation.max_turns
  MaxAssistantRollbacks, \* conversation.assistant_rollback.max_rollbacks
  SemanticBudget,      \* semantic_query_budget_max_unique
  MaxToolCalls,        \* discard_all.max_tool_calls
  MinTurnsBetween,     \* discard_all.min_turns_between
  CompressEvery,       \* context_compression.interval
  RecentMessages,      \* twice context_compression.recent_window
  SafetyMargin         \* what the loop adds to max_turns (200)

ASSUME AttemptAssumption ==
  /\ MaxTurns \in Nat \ {0} /\ MaxToolCalls \in Nat \ {0}
  /\ {MaxAssistantRollbacks, SemanticBudget, MinTurnsBetween, SafetyMargin} \subseteq Nat
  /\ CompressEvery \in Nat \ {0} /\ RecentMessages \in Nat \ {0}

VARIABLES
  attemptPolicy, \* what run() fixed for this attempt: skip, recover, context
  chat,          \* the conversation runtime
  loopStep,      \* the loop's copy of the runtime's last step
  usedQueries,   \* _used_queries and _semantic_query_keys: queries of answered calls
  toolCalls,     \* tool_manager.task_total_calls, where discard-all resets look at it
  discard,       \* discard-all bookkeeping: resets, lastTurn, lastAttempt, high
  lastSummary,   \* the turn of the latest compression trigger
  asked,         \* total_attempts
  verdict        \* Running, or the reason the attempt ended for

attemptVars == <<attemptPolicy, chat, loopStep, usedQueries, toolCalls, discard, lastSummary, asked, verdict>>

Running == "running"
LimitTriggers == {"context_limit", "turn_limit", "tools_exhausted"}
NeverReset == -1
Prefix == <<SystemMessage, TaskMessage>>

\* "skip" is _skip_turn_limit_final_response_this_attempt (a retry will follow),
\* "recover" is _recover_generation_limits_this_attempt.
AttemptPolicies == [skip : BOOLEAN, recover : BOOLEAN, context : {"plain", "discard_all", "summaries"}]
Discards == attemptPolicy.context = "discard_all"

-----------------------------------------------------------------------------
(***************************************************************************)
(* The runtime's operations the loop uses, as functions of the runtime.    *)
(***************************************************************************)
Logged(rt, messages) == [rt EXCEPT !.visible = @ \o messages]

\* _inject_force_finalization, web-search version: on an attempt that will be retried
\* a limit forces the final round without adding a prompt.
ForceFinalRound(rt, trigger) ==
  LET silent == rt.skip /\ trigger \in LimitTriggers
  IN  [rt EXCEPT !.stage = "force_final", !.trigger = trigger, !.prompted = ~silent,
                 !.visible = IF silent THEN @ ELSE Append(@, Message("force_prompt", 0))]

AwaitModel(rt) == IF rt.turns + 1 = rt.limit THEN ForceFinalRound(rt, "turn_limit") ELSE rt

InitialChat(skip) ==
  AwaitModel([stage |-> "initial_user", turns |-> 0, limit |-> MaxTurns, rollbacks |-> 0, trigger |-> NoTrigger,
              prompted |-> FALSE, skip |-> skip, visible |-> Prefix])

MayRollBack(rt) == rt.rollbacks < MaxAssistantRollbacks

\* rollback_assistant_tool_calls, and the rollback of a refusal: hide the message.
Withdraw(rt) ==
  [rt EXCEPT !.stage = IF @ = "initial_user" THEN @ ELSE "tool_messages", !.rollbacks = @ + 1,
             !.visible = RollbackLast(@, 1)]

\* rollback_assistant_tool_calls also takes back the turn of the calls.
WithdrawCalls(rt) == [Withdraw(rt) EXCEPT !.turns = IF @ > 0 THEN @ - 1 ELSE 0]

\* apply_assistant_message.
Hear(rt, reply, n) ==
  LET heard == [Logged(rt, <<Message(IF reply = "calls" THEN "calls" ELSE IF reply = "nothing" THEN "empty" ELSE "text", n)>>)
                  EXCEPT !.turns = @ + 1]
  IN  IF reply = "nothing" THEN [heard EXCEPT !.stage = "token_exceed"]
      ELSE IF reply = "calls"
        THEN [heard EXCEPT !.stage = IF rt.stage = "force_final" THEN "calls_rejected" ELSE "await_tools"]
      ELSE IF rt.stage = "force_final"
        THEN [heard EXCEPT !.stage = IF rt.prompted THEN "force_completed" ELSE "completed"]
      ELSE IF reply = "refusal" /\ MayRollBack(rt) THEN [Withdraw(heard) EXCEPT !.turns = rt.turns]
      ELSE [heard EXCEPT !.stage = "completed", !.rollbacks = 0]

\* _compute_rollback_message_count, web-search version: the tool results at the tail.
TrailingResults(visible) == Len(visible) - SelectLastInSeq(visible, LAMBDA m : m.kind # "tool")

\* apply_batch_tool_messages: exhaustion, then the preflight estimate, then the turn limit.
AnswerCalls(rt, n, outcome) ==
  LET answered == [Logged(rt, [i \in 1..n |-> Message("tool", 1)]) EXCEPT !.stage = "tool_messages"]
      trimmed == [answered EXCEPT !.visible = RollbackLast(@, TrailingResults(@))]
  IN  IF outcome = "exhausted" THEN ForceFinalRound(answered, "tools_exhausted")
      ELSE IF outcome = "full" THEN ForceFinalRound(IF rt.skip THEN answered ELSE trimmed, "context_limit")
      ELSE AwaitModel(answered)

\* _compute_latest_tool_exchange_rollback_count: a trailing force prompt, the results
\* before it and the message that called for them.
ExchangeLength(visible) ==
  LET last == Len(visible) - (IF Last(visible).kind = "force_prompt" THEN 1 ELSE 0)
      caller == SelectLastInSubSeq(visible, 1, last, LAMBDA m : m.kind # "tool")
  IN  IF caller < last /\ visible[caller].kind = "calls" THEN Len(visible) - caller + 1 ELSE 0

\* rollback_latest_tool_exchange_and_force_finalize
CanDropExchange(rt) == rt.stage \in {"tool_messages", "force_final"} /\ ExchangeLength(rt.visible) > 0

DropExchange(rt, trigger) ==
  ForceFinalRound([rt EXCEPT !.visible = RollbackLast(@, ExchangeLength(@))], trigger)

\* Defect in the operator below: the prefix is the system message alone.
ReopenedWithoutTask(rt) ==
  [rt EXCEPT !.stage = "initial_user", !.rollbacks = 0, !.trigger = NoTrigger, !.prompted = FALSE,
             !.visible = SpliceDiscardAll(@, 1)]

\* reopen_after_context_reset, after the discard-all marker.  The turns stay counted.
Reopened(rt) ==
  [rt EXCEPT !.stage = "initial_user", !.rollbacks = 0, !.trigger = NoTrigger, !.prompted = FALSE,
             !.visible = SpliceDiscardAll(@, Len(Prefix))]

-----------------------------------------------------------------------------
(***************************************************************************)
(* The turn.  It yields the runtime, the loop's new copy of the step, the  *)
(* counters it changed and how it ended.                                   *)
(***************************************************************************)
StepOf(rt) == [stage |-> rt.stage, trigger |-> rt.trigger, visible |-> rt.visible]

Turn(rt, ending) ==
  [chat |-> rt, step |-> StepOf(rt), used |-> usedQueries, calls |-> toolCalls, discard |-> discard,
   ending |-> ending]

\* _maybe_enter_discard_all_last_attempt: out of tool calls, no more resets and a
\* fresh turn limit.
OutOfCalls(calls) == Discards /\ calls >= MaxToolCalls

\* Defect in the operator below: the turn limit of the attempt stays in force.
EnterLastAttemptSameLimit(t) ==
  IF OutOfCalls(t.calls) /\ ~t.discard.lastAttempt THEN [t EXCEPT !.discard.lastAttempt = TRUE] ELSE t

EnterLastAttempt(t) ==
  IF OutOfCalls(t.calls) /\ ~t.discard.lastAttempt
    THEN [t EXCEPT !.discard.lastAttempt = TRUE, !.chat.limit = t.chat.turns + MaxTurns]
    ELSE t

\* _apply_discard_all_reset's conditions; build_marker wants something to discard.
ResetAllowed(t) ==
  /\ Discards /\ ~t.discard.lastAttempt /\ t.calls < MaxToolCalls
  /\ Len(t.chat.visible) > Len(Prefix)

\* _apply_discard_all_reset; of the loop's copy only the visible conversation is refreshed.
Reset(t) ==
  LET rt == Reopened(t.chat)
  IN  [t EXCEPT !.chat = rt, !.step.visible = rt.visible,
                !.discard.resets = @ + 1, !.discard.lastTurn = rt.turns]

\* _done_reason_for_stage
EndedBy(step) ==
  CASE step.stage = "completed" -> "assistant_final_answer"
    [] step.stage = "force_completed" -> step.trigger
    [] step.stage = "calls_rejected" -> "calls_rejected"
    [] step.stage = "token_exceed" -> "token_exceed"
    [] OTHER -> Running

\* A silent final round is never put to the model: the retry takes over.
SkipsFinalRound == loopStep.stage = "force_final" /\ chat.skip /\ loopStep.trigger \in LimitTriggers

\* Defect in the operator below: the loop is not told that it is done.
SkippedTurnGoesOn == [Turn(chat, Running) EXCEPT !.step = loopStep]

SkippedTurn ==
  [Turn(chat, loopStep.trigger) EXCEPT !.step = loopStep]

\* _handle_web_search_context_limit_error: last attempt, reset, recovery or the end.
ContextErrorTurn ==
  LET t == EnterLastAttempt([Turn(chat, Running) EXCEPT !.step = loopStep])
      reset == Reset(t)
      dropped == DropExchange([t.chat EXCEPT !.skip = FALSE], "context_limit")
  IN  IF ResetAllowed(t) THEN [reset EXCEPT !.step = StepOf(reset.chat)]
      ELSE IF attemptPolicy.recover /\ CanDropExchange(t.chat)
        THEN [t EXCEPT !.chat = dropped, !.step = StepOf(dropped)]
      ELSE [t EXCEPT !.ending = "context_limit"]

\* _handle_empty_response_error of the base orchestrator: no usable choice at all.
NoChoiceTurn ==
  IF CanDropExchange(chat) THEN Turn(DropExchange(chat, "empty_response"), Running)
                           ELSE [Turn(chat, "empty_response") EXCEPT !.step = loopStep]

\* Any other ValueError or RuntimeError of the client.
FailedTurn == [Turn(chat, "model_error") EXCEPT !.step = loopStep]

\* _maybe_recover_length_generation: a truncated reply is never used.
TruncatedTurn ==
  IF attemptPolicy.recover /\ CanDropExchange(chat)
    THEN Turn(DropExchange([chat EXCEPT !.skip = FALSE], "context_limit"), Running)
    ELSE Turn(Hear(chat, "nothing", 0), "token_exceed")

\* An empty reply that is not truncated: ask again, nothing is recorded.
EmptyTurn == [Turn(chat, Running) EXCEPT !.step = loopStep]

\* A reply without tool calls, or one whose calls the final round rejects.
PlainTurn(reply) ==
  LET rt == Hear(chat, reply, IF reply = "calls" THEN 1 ELSE 0)
  IN  Turn(rt, EndedBy(StepOf(rt)))

-----------------------------------------------------------------------------
(***************************************************************************)
(* The tool phase.                                                         *)
(***************************************************************************)
\* What one message asks for: finitely many queries, whatever their number.
Requests == {queries \in SUBSET Queries : IsFiniteSet(queries)}

CallCount(queries) == IF queries = {} THEN 1 ELSE Cardinality(queries)

\* _duplicate_tool_requests
Duplicated(queries) == queries \cap usedQueries # {}

\* _semantic_query_budget_exceeded, counting the queries of this message as well.
OverSemanticBudget(queries) == queries # {} /\ Cardinality(usedQueries \cup queries) > SemanticBudget

\* _apply_duplicate_query_rollback; past the rollback limit a duplicate is executed.
RefuseDuplicate(rt, queries) == Duplicated(queries) /\ MayRollBack(rt)

\* _maybe_terminate_for_semantic_query_budget
SemanticEnd(rt) ==
  IF MayRollBack(rt)
    THEN Turn(WithdrawCalls(rt), "semantic_query_budget")
    ELSE [Turn(rt, "semantic_query_budget") EXCEPT !.step.visible = RollbackLast(@, 1)]

\* How an execution comes out: some call failed or found nothing, every tool is out of
\* calls afterwards, the results fill the context window, or none of these.  Counted are
\* the calls whose tool returned, not one that raised, that the manager rejected or that
\* names no tool; only the discard-all policy looks at their number.
ToolOutcomes == {"ok", "failed", "exhausted", "full"}
Executions(queries) ==
  IF RefuseDuplicate(chat, queries) \/ OverSemanticBudget(queries) THEN {[outcome |-> "none", counted |-> 0]}
  ELSE [outcome : ToolOutcomes, counted : IF Discards THEN 0..CallCount(queries) ELSE {0}]

\* Execute the calls.  Failed ones are taken back while rollbacks are left, rejected ones
\* stay; all that are answered are remembered as used.
ExecutedTurn(rt, queries, execution) ==
  LET executed == EnterLastAttempt([Turn(rt, Running) EXCEPT !.calls = @ + execution.counted])
      answered == AnswerCalls(executed.chat, CallCount(queries), execution.outcome)
      withdrawn == WithdrawCalls(executed.chat)
  IN  IF execution.outcome = "failed" /\ MayRollBack(rt)
        THEN [executed EXCEPT !.chat = withdrawn, !.step = StepOf(withdrawn)]
        ELSE [executed EXCEPT !.chat = [answered EXCEPT !.rollbacks = 0], !.step = StepOf(answered),
                              !.used = @ \cup queries]

\* _run_tool_phase
ToolTurn(queries, execution) ==
  LET rt == Hear(chat, "calls", CallCount(queries))
  IN  IF RefuseDuplicate(rt, queries) THEN Turn(WithdrawCalls(rt), Running)
      ELSE IF OverSemanticBudget(queries) THEN SemanticEnd(rt)
      ELSE ExecutedTurn(rt, queries, execution)

-----------------------------------------------------------------------------
(***************************************************************************)
(* Between turns: summaries, the last attempt, discard-all resets.         *)
(***************************************************************************)
SummaryDue(t) ==
  /\ attemptPolicy.context = "summaries" /\ t.ending = Running
  /\ t.chat.turns >= CompressEvery /\ t.chat.turns # lastSummary
  /\ t.chat.turns % CompressEvery = 0

\* _split_history keeps a number of recent messages, whatever they are.
OlderMessages(visible) == Len(visible) - Len(Prefix) - RecentMessages

Compacted(t) ==
  LET visible == SpliceCompaction(t.chat.visible, Len(Prefix), OlderMessages(t.chat.visible))
  IN  [t EXCEPT !.chat.visible = visible, !.step.visible = visible]

\* A summary may fail; one whose older messages are all summaries is not tried.
Summarizable(t) ==
  \E i \in (Len(Prefix) + 1)..(Len(Prefix) + OlderMessages(t.chat.visible)) : t.chat.visible[i].kind # "summary"

AfterSummary(t, succeeds) == IF SummaryDue(t) /\ succeeds /\ Summarizable(t) THEN Compacted(t) ELSE t

\* _preemptable_force_final_reason reads the runtime, not the loop's copy.
Preempts(t) == t.chat.stage = "force_final" /\ t.chat.trigger \in {"context_limit", "turn_limit"}

\* DiscardAllManager.should_trigger: the latest observed prompt was large, and the
\* cooldown since the previous reset is over.
ThresholdReached(t) ==
  t.discard.high /\ (t.discard.lastTurn # NeverReset => t.chat.turns - t.discard.lastTurn >= MinTurnsBetween)

AfterDiscard(t) ==
  IF t.ending = Running /\ (Preempts(t) \/ ThresholdReached(t)) /\ ResetAllowed(t) THEN Reset(t) ELSE t

AfterTurn(t, succeeds) ==
  LET compacted == AfterSummary(t, succeeds)
      entered == IF t.ending = Running THEN EnterLastAttempt(compacted) ELSE compacted
  IN  AfterDiscard(entered)

-----------------------------------------------------------------------------
AttemptInit ==
  \E policy \in AttemptPolicies :
    /\ attemptPolicy = policy
    /\ chat = InitialChat(policy.skip)
    /\ loopStep = StepOf(InitialChat(policy.skip))
    /\ usedQueries = {}
    /\ toolCalls = 0
    /\ discard = [resets |-> 0, lastTurn |-> NeverReset, lastAttempt |-> FALSE, high |-> FALSE]
    /\ lastSummary = 0
    /\ asked = 0
    /\ verdict = Running

\* One pass of the loop, from the turn to the end of the pass.
Pass(turn) ==
  \E t \in {turn} :
    /\ verdict' = t.ending /\ usedQueries' = t.used /\ toolCalls' = t.calls
    /\ lastSummary' = IF SummaryDue(t) THEN t.chat.turns ELSE lastSummary
    /\ \E succeeds \in {FALSE, SummaryDue(t)} : \E after \in {AfterTurn(t, succeeds)} :
         chat' = after.chat /\ loopStep' = after.step /\ discard' = after.discard
    /\ UNCHANGED attemptPolicy

\* max_attempts is the turn limit plus a margin, and follows it into the last attempt.
CanLoop == verdict = Running /\ asked < chat.limit + SafetyMargin

\* The loop's safety limit.
GiveUpLooping ==
  /\ verdict = Running /\ asked >= chat.limit + SafetyMargin
  /\ verdict' = "loop_safety_limit"
  /\ UNCHANGED <<attemptPolicy, chat, loopStep, usedQueries, toolCalls, discard, lastSummary, asked>>

\* A skipped final round does not count as a question to the model.
SkipFinalRound ==
  /\ CanLoop /\ SkipsFinalRound
  /\ Pass(SkippedTurn)
  /\ UNCHANGED asked

AskModel == CanLoop /\ ~SkipsFinalRound /\ asked' = asked + 1

\* The provider reports how many tokens the prompt had: above the ratio or not.  Only
\* the discard-all policy looks.
Observations == IF Discards THEN BOOLEAN ELSE {FALSE}
Observed(t, high) == [t EXCEPT !.discard.high = high]

ContextError == AskModel /\ Pass(ContextErrorTurn)
NoChoice == AskModel /\ Pass(NoChoiceTurn)
ModelFailure == AskModel /\ Pass(FailedTurn)
Truncation == AskModel /\ Pass(TruncatedTurn)
EmptyReply == AskModel /\ \E high \in Observations : Pass(Observed(EmptyTurn, high))

PlainReply ==
  /\ AskModel
  /\ \E reply \in {"text", "refusal", "calls"}, high \in Observations :
       /\ reply = "calls" => chat.stage = "force_final"
       /\ Pass(Observed(PlainTurn(reply), high))

ToolReply ==
  /\ AskModel /\ chat.stage # "force_final"
  /\ \E queries \in Requests, high \in Observations : \E execution \in Executions(queries) :
       Pass(Observed(ToolTurn(queries, execution), high))

(***************************************************************************)
(* Branches.  A sweep over budgets also continues an attempt that will be  *)
(* retried as if it were the last one, from a copy of its state; the       *)
(* behaviour then follows the copy.                                        *)
(***************************************************************************)
BecomeFinal ==
  /\ attemptPolicy.skip /\ chat.skip /\ verdict = Running
  /\ \E recover \in BOOLEAN : attemptPolicy' = [attemptPolicy EXCEPT !.skip = FALSE, !.recover = recover]
  /\ UNCHANGED <<usedQueries, toolCalls, discard, lastSummary, verdict>>

\* _prepare_silent_final_branch_step_result: the prompt the skipped round did without.
BranchFromFinalRound ==
  /\ BecomeFinal /\ SkipsFinalRound
  /\ chat' = [Logged(chat, <<Message("force_prompt", 0)>>) EXCEPT !.skip = FALSE, !.prompted = TRUE]
  /\ loopStep' = [loopStep EXCEPT !.visible = chat'.visible]
  /\ UNCHANGED asked

\* The checkpoint of a turn that met a generation limit; the question is put again.
BranchFromCheckpoint ==
  /\ BecomeFinal /\ CanLoop /\ ~SkipsFinalRound
  /\ chat' = [chat EXCEPT !.skip = FALSE]
  /\ asked' = asked + 1
  /\ UNCHANGED loopStep

\* The passes of the loop itself.
LoopPass ==
  \/ GiveUpLooping \/ SkipFinalRound \/ ModelFailure \/ NoChoice \/ ContextError
  \/ Truncation \/ EmptyReply \/ PlainReply \/ ToolReply

AttemptNext == BranchFromFinalRound \/ BranchFromCheckpoint \/ LoopPass

\* The loop goes on by itself; nothing obliges a sweep to branch.
AttemptSpec == AttemptInit /\ [][AttemptNext]_attemptVars /\ WF_attemptVars(LoopPass)

-----------------------------------------------------------------------------
(***************************************************************************)
(* Properties.                                                             *)
(***************************************************************************)
Verdicts == {Running, "assistant_final_answer", "calls_rejected", "token_exceed", "model_error",
             "empty_response", "semantic_query_budget", "loop_safety_limit"} \cup LimitTriggers

\* The one type invariant of the module.
AttemptTypeOK ==
  /\ attemptPolicy \in AttemptPolicies
  /\ chat.stage \in Stages /\ chat.turns \in Nat /\ chat.rollbacks \in 0..MaxAssistantRollbacks
  /\ chat.trigger \in Triggers \cup {NoTrigger}
  /\ loopStep.stage \in Stages
  /\ usedQueries \subseteq Queries
  /\ toolCalls \in Nat /\ asked \in Nat
  /\ verdict \in Verdicts

\* Rollbacks, dropped exchanges, summaries and resets change the runtime behind the loop's
\* back, in any order: what the loop will send to the model next is still what the runtime
\* holds, and that still begins with the system prompt and the task.
TaskSurvives ==
  /\ verdict = Running => loopStep.visible = chat.visible
  /\ IsPrefix(Prefix, chat.visible)

\* Until the first reset, and again in the last attempt, the turn limit in force is
\* not exceeded, although it is tested for equality and rollbacks move the count.
\* Every reset but a first one is paid for with a turn of its own: neither a prompt that
\* is large with only the task in it nor a final round that is pre-empted again and again
\* can reset forever, even where no call is ever counted against the tool budget.
AttemptBounded ==
  /\ discard.resets = 0 \/ discard.lastAttempt => chat.turns <= chat.limit
  /\ discard.resets <= chat.turns + 1

\* The context reset reopens the task: the attempt is not ended by the limit whose
\* forced answer the reset has just pre-empted.
ResetReopensTask == verdict = "turn_limit" => chat.trigger = "turn_limit"

\* Every attempt ends.
AttemptEnds == <>(verdict # Running)
=============================================================================
