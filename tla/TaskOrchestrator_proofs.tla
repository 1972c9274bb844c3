---------------------- MODULE TaskOrchestrator_proofs ----------------------
(***************************************************************************)
(* The loop uses the runtime as the runtime's specification allows, so     *)
(* everything proved of ConversationRuntime holds of every task; loop and  *)
(* runtime stay in step; the loop implements the safety part of TaskLoop,  *)
(* and it ends for a reason that is true.  Beside them, the model client   *)
(* the loop asks.                                                          *)
(***************************************************************************)
EXTENDS TaskOrchestrator, ModelClient, ConversationRuntime_proofs

\* A step that does not raise ends in the last stage of its path.
LEMMA Arrival ==
  ASSUME NEW path, TransitAlong(path), ~raised'
  PROVE  stage' = path[Len(path)]
BY DEF TransitAlong

LEMMA SettleArrives ==
  ASSUME NEW entries, NEW hidden, NEW path, Settle(entries, hidden, path), ~raised'
  PROVE  stage' = path[Len(path)]
BY Arrival DEF Settle

LEMMA ForceFinalArrives ==
  ASSUME NEW entries, NEW hidden, NEW path \in Seq(AllStages), NEW trigger,
         ForceFinal(entries, hidden, path, trigger), ~raised'
  PROVE  stage' = "force_final"
<1>1. stage' = Append(path, "force_final")[Len(Append(path, "force_final"))]
  BY Arrival DEF ForceFinal
<1>2. Append(path, "force_final")[Len(Append(path, "force_final"))] = "force_final"
  <2>1. Len(path) \in Nat /\ Len(Append(path, "force_final")) = Len(path) + 1
    OBVIOUS
  <2>2. QED
    BY <2>1
<1>3. QED
  BY <1>1, <1>2

LEMMA AwaitArrives ==
  ASSUME NEW entries, NEW path \in Seq(AllStages), NEW turns, AwaitAssistant(entries, path, turns), ~raised'
  PROVE  stage' \in {"force_final", path[Len(path)]}
BY ForceFinalArrives, SettleArrives DEF AwaitAssistant

-----------------------------------------------------------------------------
\* Every step of the loop is one step of the runtime, or leaves the runtime alone.
LEMMA StepIsRuntimeStep == [TaskNext]_taskVars => [Next]_runtimeVars
<1>1. SUFFICES ASSUME [TaskNext]_taskVars PROVE [Next]_runtimeVars
  OBVIOUS
<1>2. CASE StartTask
  BY <1>2 DEF StartTask, Next
<1>3. CASE AnswerTurn
  BY <1>3 DEF AnswerTurn, Next
<1>4. CASE ToolPhase
  BY <1>4 DEF ToolPhase, Next
<1>5. CASE ModelErrorTurn
  <2>1. ContextLimitError => ContextErrorStep \/ UNCHANGED runtimeVars
    BY DEF ContextLimitError
  <2>2. EmptyResponseError => DropExchangeStep \/ UNCHANGED runtimeVars
    BY DEF EmptyResponseError, DropExchangeStep
  <2>3. OtherModelError => UNCHANGED runtimeVars
    BY DEF OtherModelError
  <2>4. QED
    BY <1>5, <2>1, <2>2, <2>3 DEF ModelErrorTurn, Next
<1>6. CASE CallAfterEnd
  BY <1>6 DEF CallAfterEnd
<1>7. CASE RunEnded \/ UNCHANGED taskVars
  BY <1>7 DEF RunEnded, taskVars
<1>8. QED
  BY <1>1, <1>2, <1>3, <1>4, <1>5, <1>6, <1>7 DEF TaskNext, TaskStep

\* TaskOrchestrator.run drives the runtime only in ways its own specification allows.
THEOREM RuntimeUsedAsSpecified == TaskSpec => Spec
<1>1. TaskInit => Init
  BY DEF TaskInit
<1>2. QED
  BY <1>1, StepIsRuntimeStep, PTL DEF TaskSpec, Spec

\* No task exceeds the turn budget that the runtime's single equality test guards.
THEOREM TaskTurnBudget == TaskSpec => []TurnBudget
BY RuntimeUsedAsSpecified, TurnBudgetHolds, PTL

-----------------------------------------------------------------------------
(***************************************************************************)
(* Loop and runtime stay in step when no minimum generation budget is set: *)
(* with one, tool results may end the conversation behind the loop's back. *)
(***************************************************************************)

LEMMA StartInStep ==
  ASSUME ConfigAssumption, Inv, StartTask
  PROVE  InStep'
<1>1. phase' = "calling" /\ InitializeConversation
  BY DEF StartTask
<1>2. ~raised'
  BY <1>1, InitializeInv
<1>3. /\ <<"not_initialized", "system_set", "initial_user">> \in Seq(AllStages)
      /\ <<"not_initialized", "initial_user">> \in Seq(AllStages)
  <2>1. {"not_initialized", "system_set", "initial_user"} \subseteq AllStages
    BY DEF AllStages, Stages, CallModelStages, InternalStages
  <2>2. QED
    BY <2>1
<1>4. stage' \in {"force_final", "initial_user"}
  <2>1. CASE SystemPrompt
    BY <1>1, <1>2, <1>3, <2>1, AwaitArrives DEF InitializeConversation
  <2>2. CASE ~SystemPrompt
    BY <1>1, <1>2, <1>3, <2>2, AwaitArrives DEF InitializeConversation
  <2>3. QED
    BY <2>1, <2>2
<1>5. QED
  BY <1>1, <1>4 DEF InStep, CallModelStages

\* Only a message with tool calls makes the runtime wait for tools.
LEMMA AwaitingToolsHasCalls ==
  ASSUME ConfigAssumption, Inv, ~(Preflight /\ MinTokens), AssistantStep, ~raised', stage' = "await_tools"
  PROVE  pendingCalls' > 0
<1>1. PICK r \in Response, budget \in AfterAssistantBudgets, fits \in WarningFits :
        ApplyAssistantMessage(r, budget, fits)
  BY DEF AssistantStep
<1>2. budget = "ok"
  BY DEF AfterAssistantBudgets
<1>3. r.calls \in Nat
  BY ResponseCalls
<1>4. CASE RequestTools(r, budget)
  BY <1>3, <1>4 DEF RequestTools
<1>5. ASSUME NEW entries, NEW hidden, NEW next, Settle(entries, hidden, <<stage, "received", next>>)
      PROVE  stage' = next
  <2>1. stage' = <<stage, "received", next>>[Len(<<stage, "received", next>>)]
    BY <1>5, SettleArrives
  <2>2. QED
    BY <2>1
<1>6. ~TokenExhausted(r) /\ ~TruncatedResponse(r) /\ ~CompleteNormally(r, budget)
  BY <1>5 DEF TokenExhausted, TruncatedResponse, CompleteNormally
<1>7. ~ForceFinalResponse(r)
  BY <1>5 DEF ForceFinalResponse, ForceCompletedStage
<1>8. ~BudgetAfterAssistant(r, budget, fits)
  BY <1>2 DEF BudgetAfterAssistant
<1>9. ~WithdrawAssistantMessage(r, budget)
  <2>1. SUFFICES ASSUME WithdrawAssistantMessage(r, budget) PROVE FALSE
    OBVIOUS
  <2> DEFINE path == <<stage, "received", "assistant_rollback",
                       IF stage = "initial_user" THEN "initial_user" ELSE "tool_messages">>
  <2>2. stage' = path[Len(path)]
    BY <2>1, SettleArrives DEF WithdrawAssistantMessage
  <2>3. QED
    BY <2>2
<1>10. ~RepromptFormatError(r, budget) /\ ~AskFinalResponse(r, budget)
  <2>1. ASSUME NEW entries, NEW next \in {"format_error", "final_prompt"}, NEW turns,
               AwaitAssistant(entries, <<stage, "received", next>>, turns),
               stage \in CallModelStages
        PROVE  FALSE
    <3>1. next \in AfterReceived
      BY DEF AfterReceived
    <3>2. <<stage, "received", next>> \in Seq(AllStages)
      BY <2>1, <3>1, ReceivedPath
    <3>3. stage' \in {"force_final", <<stage, "received", next>>[Len(<<stage, "received", next>>)]}
      BY <2>1, <3>2, AwaitArrives
    <3>4. QED
      BY <3>3
  <2>2. QED
    BY <2>1 DEF RepromptFormatError, AskFinalResponse, Judged, Accepted, Received
<1>11. QED
  BY <1>1, <1>4, <1>6, <1>7, <1>8, <1>9, <1>10 DEF ApplyAssistantMessage

\* Tool results leave a stage that awaits the model.
LEMMA ResultsAwaitModel ==
  ASSUME ConfigAssumption, Inv, ~(Preflight /\ MinTokens), ToolStep, ~raised'
  PROVE  stage' \in CallModelStages
<1>1. PICK results \in ToolResultBatches(pendingCalls), exhausted \in BOOLEAN,
           budget \in BeforeGenerationBudgets, fits \in WarningFits :
        ApplyBatchToolMessages(results, exhausted, budget, fits)
  BY DEF ToolStep
<1>2. budget # "hard_stop" /\ fits = TRUE
  BY DEF BeforeGenerationBudgets, WarningFits
<1> DEFINE path == <<stage, "tool_messages">>
<1>3. stage = "await_tools" /\ path \in Seq(AllStages) /\ Len(path) = 2 /\ path[2] = "tool_messages"
  <2>1. stage = "await_tools"
    BY <1>1 DEF ApplyBatchToolMessages
  <2>2. stage \in AllStages /\ "tool_messages" \in AllStages
    BY <2>1 DEF AllStages, Stages, CallModelStages, ExecuteToolsStages
  <2>3. QED
    BY <2>1, <2>2
<1>4. \/ ForceFinal(results, 0, path, "tools_exhausted")
      \/ ForceFinalDueToContext(results, path, TRUE, fits)
      \/ AwaitAssistant(results, path, turnCount)
  BY <1>1, <1>2 DEF ApplyBatchToolMessages
<1> HIDE DEF path
<1>5. CASE ForceFinal(results, 0, path, "tools_exhausted")
  BY <1>3, <1>5, ForceFinalArrives DEF CallModelStages
<1>6. CASE AwaitAssistant(results, path, turnCount)
  BY <1>3, <1>6, AwaitArrives DEF CallModelStages
<1>7. CASE ForceFinalDueToContext(results, path, TRUE, fits)
  <2> DEFINE at == path[Len(path)]
             hidden == IF TRUE /\ MayRollBackFrom(at)
                         THEN ContextRollbackCount(visibleConversation \o results, at) ELSE 0
             reached == IF hidden > 0 THEN Append(path, "context_rollback") ELSE path
  <2>1. ForceFinal(results, hidden, reached, "context_limit")
    BY <1>2, <1>7 DEF ForceFinalDueToContext
  <2>2. reached \in Seq(AllStages)
    <3>1. "context_rollback" \in AllStages
      BY DEF AllStages, InternalStages
    <3>2. Append(path, "context_rollback") \in Seq(AllStages)
      BY <1>3, <3>1
    <3>3. QED
      BY <1>3, <3>2
  <2> HIDE DEF hidden, reached
  <2>3. QED
    BY <2>1, <2>2, ForceFinalArrives DEF CallModelStages
<1>8. QED
  BY <1>4, <1>5, <1>6, <1>7

\* A dropped exchange always reaches the forced round.
LEMMA DropReachesForceFinal ==
  ASSUME NEW trigger, DropLatestExchange(trigger)
  PROVE  stage' = "force_final"
<1> DEFINE path == <<stage, "context_rollback">>
<1>1. stage \in CallModelStages /\ <<stage, "context_rollback">> \in ValidStageTransition
  BY DEF DropLatestExchange, CanDropLatestExchange, MayRollBackFrom
<1>2. <<"context_rollback", "force_final">> \in ValidStageTransition
  BY DEF ValidStageTransition
<1>3. PICK last \in 1..Len(Append(path, "force_final")) :
        /\ stage' = Append(path, "force_final")[last]
        /\ \/ last = Len(Append(path, "force_final"))
           \/ last < Len(Append(path, "force_final")) /\ ~Hop(Append(path, "force_final"), last)
  BY DEF DropLatestExchange, ForceFinal, TransitAlong
<1>4. /\ Len(Append(path, "force_final")) = 3
      /\ Append(path, "force_final")[1] = stage
      /\ Append(path, "force_final")[2] = "context_rollback"
      /\ Append(path, "force_final")[3] = "force_final"
  OBVIOUS
<1> HIDE DEF path
<1>5. last = 3
  <2>1. last \in {1, 2, 3}
    BY <1>3, <1>4
  <2>2. last = 1 => Hop(Append(path, "force_final"), last)
    BY <1>1, <1>4 DEF Hop
  <2>3. last = 2 => Hop(Append(path, "force_final"), last)
    BY <1>2, <1>4 DEF Hop
  <2>4. QED
    BY <1>3, <1>4, <2>1, <2>2, <2>3
<1>6. QED
  BY <1>3, <1>4, <1>5

LEMMA InStepPreserved ==
  ASSUME ConfigAssumption, ~(Preflight /\ MinTokens), Inv, InStep, [TaskNext]_taskVars
  PROVE  InStep'
<1>1. CASE StartTask
  BY <1>1, StartInStep
<1>2. CASE AnswerTurn
  <2>1. CASE raised' /\ Escape
    BY <2>1 DEF Escape, InStep
  <2>2. CASE ~raised' /\ stage' = "await_tools" /\ phase' = "executing"
    BY <1>2, <2>2, AwaitingToolsHasCalls DEF AnswerTurn, InStep
  <2>3. CASE ~raised' /\ stage' \in DoneStages /\ Return(DoneReason(stage', finalTrigger))
    BY <2>3 DEF Return, InStep
  <2>4. CASE stage' \in CallModelStages /\ Continue
    BY <2>4 DEF Continue, InStep
  <2>5. QED
    BY <1>2, <2>1, <2>2, <2>3, <2>4 DEF AnswerTurn
<1>3. CASE ToolPhase
  <2>1. CASE raised'
    BY <1>3, <2>1 DEF ToolPhase, Escape, InStep
  <2>2. CASE ~raised'
    <3>1. stage' \in CallModelStages /\ Continue
      BY <1>3, <2>2, ResultsAwaitModel DEF ToolPhase
    <3>2. QED
      BY <3>1 DEF Continue, InStep
  <2>3. QED
    BY <2>1, <2>2
<1>4. CASE ContextLimitError
  <2>1. \/ Escape
        \/ stage' \in CallModelStages /\ Continue
        \/ Return("terminated_context_limit")
    BY <1>4 DEF ContextLimitError
  <2>2. QED
    BY <2>1 DEF Escape, Continue, Return, InStep
<1>5. CASE EmptyResponseError
  <2>1. \/ stage' = "force_final" /\ Continue
        \/ Return("terminated_empty_response")
    BY <1>5, DropReachesForceFinal DEF EmptyResponseError
  <2>2. QED
    BY <2>1 DEF Continue, Return, InStep, CallModelStages
<1>6. CASE OtherModelError \/ CallAfterEnd
  BY <1>6 DEF OtherModelError, CallAfterEnd, Return, Escape, InStep
<1>7. CASE RunEnded \/ UNCHANGED taskVars
  BY <1>7 DEF RunEnded, taskVars, runtimeVars, counters, InStep
<1>8. QED
  BY <1>1, <1>2, <1>3, <1>4, <1>5, <1>6, <1>7 DEF TaskNext, TaskStep, ModelErrorTurn

\* Without a minimum generation budget the loop only asks the model in stages that
\* await it, and only executes calls that are pending: run() never meets the
\* ValueError and RuntimeError of a conversation that is already over.
THEOREM LoopStaysInStep ==
  ASSUME ~(Preflight /\ MinTokens)
  PROVE  TaskSpec => []InStep
<1>1. TaskInit => InStep
  BY DEF TaskInit, InStep
<1>2. Inv /\ InStep /\ [TaskNext]_taskVars => InStep'
  BY ConfigAssumption, InStepPreserved
<1>3. TaskSpec => []Inv
  BY RuntimeUsedAsSpecified, Invariance, PTL
<1>4. QED
  BY <1>1, <1>2, <1>3, PTL DEF TaskSpec

-----------------------------------------------------------------------------
(***************************************************************************)
(* The window of endpoint errors that the calls of one client share: the   *)
(* process is only ended for an endpoint that really failed all the time,  *)
(* and no call sleeps beyond the moment at which it would be ended.  Both  *)
(* hold for any number of calls, any waits and any period.                 *)
(***************************************************************************)
Answers == {"none", "good", "truncated", "repeating", "empty", "refused"}
Call == [at : {"request", "retry", "again", "returned", "raised"}, attempt : Nat, tokens : Nat,
         room : Rooms, sleep : Nat, answer : Answers]

ClientTypeOK ==
  /\ exited \in BOOLEAN
  /\ window \in {NoWindow} \cup 0..ExitAfter
  /\ quiet \in 0..ExitAfter
  /\ calls \in [Callers -> Call]

\* The window is open no longer than the endpoint has been failing, whichever call
\* opened it.
WindowWithinQuiet == window <= quiet

\* A sleep that outlives the window it began in is no longer than the next window.
SleepsWithinPeriod == \A c \in Callers : calls[c].at = "again" => calls[c].sleep <= ExitAfter

ClientInv == ClientTypeOK /\ WindowWithinQuiet /\ SleepsWithinPeriod /\ ExitJustified /\ SleepsEndInTime

-----------------------------------------------------------------------------
\* What the tokens of a request are cut to is a number of tokens.
LEMMA RoomIsNat ==
  ASSUME NEW requested \in Nat, NEW room \in Int
  PROVE  WithinRoom(requested, room) \in Nat
  BY DEF WithinRoom, Greatest, Least

LEMMA GrownIsNat ==
  ASSUME NEW tokens \in Nat, NEW room \in Int
  PROVE  Grown(tokens, room) \in Nat
  <1>1. Growth(tokens) \in Nat
    <2>1. tokens * ScalePercent \in Nat
      BY ClientAssumption
    <2> QED BY <2>1 DEF Growth
  <1>2. Greatest(tokens + 1, Growth(tokens)) \in Nat
    BY <1>1 DEF Greatest
  <1> QED BY <1>2, RoomIsNat DEF Grown

\* The next answer a call may be given is more than the last, or all there is room for.
LEMMA GrownGrows ==
  ASSUME NEW tokens \in Nat, NEW room \in Int
  PROVE  Grown(tokens, room) > tokens \/ Grown(tokens, room) = Greatest(1, room)
  <1>1. Growth(tokens) \in Nat
    <2>1. tokens * ScalePercent \in Nat
      BY ClientAssumption
    <2> QED BY <2>1 DEF Growth
  <1> HIDE DEF Growth
  <1> QED BY <1>1 DEF Grown, WithinRoom, Greatest, Least

\* A call that has its answer is over or waits to ask again, and has not fallen asleep
\* over the endpoint.
LEMMA AfterAnswerType ==
  ASSUME NEW call \in Call, NEW answer \in {"good", "truncated", "repeating", "empty"}
  PROVE  AfterAnswer(call, answer) \in Call /\ AfterAnswer(call, answer).at # "again"
  <1>1. call.tokens \in Nat /\ call.room \in Int /\ call.attempt \in Nat
    BY ClientAssumption DEF Call
  <1>2. Grown(call.tokens, call.room) \in Nat
    BY <1>1, GrownIsNat
  <1>3. CASE answer # "good" /\ call.attempt < MaxRetries - 1
    <2> DEFINE tokens == IF answer = "truncated" THEN Grown(call.tokens, call.room) ELSE call.tokens
    <2>1. AfterAnswer(call, answer) = [call EXCEPT !.at = "retry", !.attempt = call.attempt + 1, !.sleep = RetryWait,
                                                   !.answer = answer, !.tokens = tokens]
      BY <1>3 DEF AfterAnswer
    <2>2. tokens \in Nat
      BY <1>1, <1>2
    <2> HIDE DEF tokens
    <2>3. AfterAnswer(call, answer) = [at |-> "retry", attempt |-> call.attempt + 1, tokens |-> tokens,
                                       room |-> call.room, sleep |-> RetryWait, answer |-> answer]
      BY <2>1 DEF Call
    <2>4. call.room \in Rooms /\ call.attempt + 1 \in Nat /\ RetryWait \in Nat /\ answer \in Answers
      BY <1>1, ClientAssumption DEF Call, Answers
    <2> QED BY <2>2, <2>3, <2>4 DEF Call
  <1>4. CASE ~(answer # "good" /\ call.attempt < MaxRetries - 1)
    <2>1. AfterAnswer(call, answer) = [call EXCEPT !.at = IF answer = "empty" THEN "raised" ELSE "returned", !.answer = answer]
      BY <1>4 DEF AfterAnswer
    <2> QED BY <2>1 DEF Call, Answers
  <1> QED BY <1>3, <1>4

\* Answers and refusals close the window for everyone.
LEMMA AnswerKeeps ==
  ASSUME ClientInv, NEW c \in Callers, Responded(c) \/ Refused(c)
  PROVE  ClientInv'
  <1> USE DEF ClientInv
  <1>1. PICK new \in Call : calls' = [calls EXCEPT ![c] = new] /\ new.at # "again"
    <2>0. calls[c] \in Call
      BY DEF ClientTypeOK
    <2>1. CASE Responded(c)
      <3>1. PICK answer \in {"good", "truncated", "repeating", "empty"} :
              calls' = [calls EXCEPT ![c] = AfterAnswer(calls[c], answer)]
        BY <2>1 DEF Responded
      <3> QED BY <2>0, <3>1, AfterAnswerType
    <2>2. CASE Refused(c)
      <3> DEFINE new == [calls[c] EXCEPT !.at = "raised", !.answer = "refused"]
      <3>1. calls' = [calls EXCEPT ![c] = new]
        BY <2>2 DEF Refused
      <3>2. new \in Call /\ new.at # "again"
        BY <2>0 DEF Call, Answers
      <3> QED BY <3>1, <3>2
    <2> QED BY <2>1, <2>2
  <1>2. ~exited /\ exited' = exited /\ quiet' = 0 /\ window' = NoWindow
    BY DEF Responded, Refused, Requesting, CloseWindow
  <1>3. \A d \in Callers : calls'[d].at = "again" => calls'[d].sleep <= ExitAfter
    BY <1>1 DEF ClientTypeOK, SleepsWithinPeriod
  <1> QED BY <1>1, <1>2, <1>3, ClientAssumption
          DEF ClientTypeOK, WindowWithinQuiet, SleepsWithinPeriod, ExitJustified, SleepsEndInTime, NoWindow

\* An error of one call finds a window open or opens one; the sleep it begins ends in it.
LEMMA ErrorKeeps ==
  ASSUME ClientInv, NEW c \in Callers, TransientError(c)
  PROVE  ClientInv'
  <1> USE DEF ClientInv
  <1>1. /\ ~exited /\ quiet' = quiet /\ window' = WindowAtError
        /\ window' \in 0..ExitAfter /\ window' <= quiet'
        /\ window # NoWindow => window' = window
    BY ClientAssumption DEF TransientError, Requesting, WindowAtError, ClientTypeOK, WindowWithinQuiet, NoWindow
  <1>2. CASE window' >= ExitAfter
    <2>1. exited' = TRUE /\ calls' = calls
      BY <1>2 DEF TransientError
    <2>2. \A d \in Callers : calls[d].at = "again" => calls[d].sleep <= ExitAfter - window'
      BY <1>1, ClientAssumption DEF ClientTypeOK, Call, SleepsWithinPeriod, SleepsEndInTime, WindowAtError
    <2> QED BY <1>1, <1>2, <2>1, <2>2, ClientAssumption
            DEF ClientTypeOK, WindowWithinQuiet, SleepsWithinPeriod, ExitJustified, SleepsEndInTime, NoWindow
  <1>3. CASE ~(window' >= ExitAfter)
    <2>1. PICK wait \in Waits : calls' = [calls EXCEPT ![c].at = "again", ![c].sleep = SleepFor(wait)]
      BY <1>3 DEF TransientError
    <2>2. exited' = exited
      BY <1>3 DEF TransientError
    <2>3. SleepFor(wait) \in Nat /\ SleepFor(wait) <= ExitAfter - window'
      BY <1>1, ClientAssumption DEF SleepFor, Least
    <2> DEFINE new == [calls[c] EXCEPT !.at = "again", !.sleep = SleepFor(wait)]
    <2>4. calls' = [calls EXCEPT ![c] = new]
      BY <2>1
    <2>5. calls[c] \in Call
      BY DEF ClientTypeOK
    <2>6. new \in Call /\ new.sleep = SleepFor(wait)
      BY <2>3, <2>5 DEF Call
    <2> HIDE DEF new
    <2>7. ASSUME NEW d \in Callers, calls'[d].at = "again"
          PROVE  calls'[d].sleep <= ExitAfter - window' /\ calls'[d].sleep <= ExitAfter
      <3>1. CASE d = c
        BY <1>1, <2>3, <2>4, <2>6, <3>1, ClientAssumption DEF ClientTypeOK
      <3>2. CASE d # c
        <4>1. calls'[d] = calls[d] /\ calls[d] \in Call
          BY <2>4, <3>2 DEF ClientTypeOK
        <4> QED BY <1>1, <2>7, <4>1, ClientAssumption DEF Call, SleepsWithinPeriod, SleepsEndInTime, WindowAtError
      <3> QED BY <3>1, <3>2
    <2>8. calls' \in [Callers -> Call]
      BY <2>4, <2>6 DEF ClientTypeOK
    <2> QED BY <1>1, <2>2, <2>7, <2>8
            DEF ClientTypeOK, WindowWithinQuiet, SleepsWithinPeriod, ExitJustified, SleepsEndInTime, NoWindow
  <1> QED BY <1>2, <1>3

LEMMA WakeKeeps ==
  ASSUME ClientInv, NEW c \in Callers, Wake(c)
  PROVE  ClientInv'
  <1> USE DEF ClientInv
  <1> DEFINE new == [calls[c] EXCEPT !.at = "request"]
  <1>1. calls' = [calls EXCEPT ![c] = new] /\ UNCHANGED <<exited, window, quiet>>
    BY DEF Wake
  <1>2. new \in Call /\ new.at = "request"
    <2>1. calls[c] \in Call
      BY DEF ClientTypeOK
    <2> QED BY <2>1 DEF Call
  <1> HIDE DEF new
  <1>3. calls' \in [Callers -> Call]
    BY <1>1, <1>2 DEF ClientTypeOK
  <1>4. \A d \in Callers : calls'[d].at = "again" => calls'[d] = calls[d]
    BY <1>1, <1>2 DEF ClientTypeOK
  <1> QED BY <1>1, <1>3, <1>4
          DEF ClientTypeOK, WindowWithinQuiet, SleepsWithinPeriod, ExitJustified, SleepsEndInTime

\* The window and every sleep in it grow shorter together.
LEMMA TickKeeps ==
  ASSUME ClientInv, Tick
  PROVE  ClientInv'
  <1> USE DEF ClientInv
  <1>1. /\ ~exited /\ exited' = exited
        /\ quiet' = Least(quiet + 1, ExitAfter)
        /\ window' = IF window = NoWindow THEN NoWindow ELSE Least(window + 1, ExitAfter)
    BY DEF Tick
  <1>2. /\ quiet' \in 0..ExitAfter /\ window' \in {NoWindow} \cup 0..ExitAfter /\ window' <= quiet'
    BY <1>1, ClientAssumption DEF ClientTypeOK, WindowWithinQuiet, Least, NoWindow
  <1>3. ASSUME NEW d \in Callers
        PROVE  /\ calls'[d] \in Call
               /\ calls'[d].at = "again" => calls'[d].sleep <= ExitAfter
               /\ calls'[d].at = "again" /\ window' # NoWindow => calls'[d].sleep <= ExitAfter - window'
    <2>1. calls[d] \in Call /\ calls[d].sleep \in Nat
      BY DEF ClientTypeOK, Call
    <2>2. calls'[d] = [calls[d] EXCEPT !.sleep = Greatest(calls[d].sleep - 1, 0)]
      BY DEF Tick
    <2>3. /\ Greatest(calls[d].sleep - 1, 0) \in Nat
          /\ Greatest(calls[d].sleep - 1, 0) = 0 \/ Greatest(calls[d].sleep - 1, 0) = calls[d].sleep - 1
      BY <2>1 DEF Greatest
    <2>4. calls'[d] \in Call /\ calls'[d].at = calls[d].at /\ calls'[d].sleep = Greatest(calls[d].sleep - 1, 0)
      BY <2>1, <2>2, <2>3 DEF Call
    <2>5. calls[d].at = "again" => calls[d].sleep <= ExitAfter
      BY DEF SleepsWithinPeriod
    <2>6. calls[d].at = "again" /\ window # NoWindow => calls[d].sleep <= ExitAfter - window
      BY DEF SleepsEndInTime
    <2>7. window' # NoWindow => window # NoWindow /\ window' <= window + 1 /\ window \in 0..ExitAfter /\ window' <= ExitAfter
      BY <1>1, ClientAssumption DEF ClientTypeOK, Least, NoWindow
    <2>8. window' # NoWindow => window' \in Int
      BY <1>2, ClientAssumption
    <2> HIDE DEF Greatest
    <2> QED BY <2>1, <2>3, <2>4, <2>5, <2>6, <2>7, <2>8, ClientAssumption
  <1>4. calls' \in [Callers -> Call]
    <2>1. calls' = [d \in Callers |-> calls'[d]]
      BY DEF Tick
    <2> QED BY <1>3, <2>1
  <1> QED BY <1>1, <1>2, <1>3, <1>4
          DEF ClientTypeOK, WindowWithinQuiet, SleepsWithinPeriod, ExitJustified, SleepsEndInTime

-----------------------------------------------------------------------------
LEMMA ClientStarts == ClientInit => ClientInv
  <1> SUFFICES ASSUME ClientInit PROVE ClientInv
    OBVIOUS
  <1>1. PICK room \in [Callers -> Rooms] : calls = [c \in Callers |-> NewCall(room[c])]
    BY DEF ClientInit
  <1>2. \A c \in Callers : calls[c] \in Call /\ calls[c].at = "request"
    <2> TAKE c \in Callers
    <2>1. room[c] \in Rooms /\ room[c] \in Int
      BY ClientAssumption
    <2>2. WithinRoom(MaxTokens, room[c]) \in Nat
      BY <2>1, RoomIsNat, ClientAssumption
    <2> HIDE DEF WithinRoom
    <2> QED BY <1>1, <2>1, <2>2 DEF NewCall, Call, Answers
  <1>3. calls \in [Callers -> Call]
    BY <1>1, <1>2
  <1>4. exited = FALSE /\ window = NoWindow /\ quiet = 0
    BY DEF ClientInit
  <1>5. ClientTypeOK
    <2>1. exited \in BOOLEAN
      BY <1>4, Zenon
    <2>2. quiet \in 0..ExitAfter /\ window \in {NoWindow} \cup 0..ExitAfter
      BY <1>4, ClientAssumption
    <2> QED BY <1>3, <2>1, <2>2 DEF ClientTypeOK
  <1>6. WindowWithinQuiet /\ ExitJustified
    BY <1>4 DEF WindowWithinQuiet, ExitJustified, NoWindow
  <1>7. SleepsWithinPeriod /\ SleepsEndInTime
    BY <1>2 DEF SleepsWithinPeriod, SleepsEndInTime
  <1> QED BY <1>5, <1>6, <1>7 DEF ClientInv

LEMMA ClientRests == ClientInv /\ UNCHANGED clientVars => ClientInv'
  BY DEF ClientInv, ClientTypeOK, WindowWithinQuiet, SleepsWithinPeriod, ExitJustified, SleepsEndInTime, clientVars

LEMMA ClientSteps == ClientInv /\ [ClientNext]_clientVars => ClientInv'
  <1> SUFFICES ASSUME ClientInv, ClientNext PROVE ClientInv'
    BY ClientRests
  <1>1. ASSUME NEW c \in Callers, CallEnds(c) \/ Wake(c) PROVE ClientInv'
    BY <1>1, AnswerKeeps, ErrorKeeps, WakeKeeps DEF CallEnds
  <1> QED BY <1>1, TickKeeps DEF ClientNext

LEMMA ClientInvariant == ClientSpec => []ClientInv
  BY ClientStarts, ClientSteps, PTL DEF ClientSpec

\* The process is ended only if no request of any call has ended otherwise than by a
\* transient error for the whole period.
THEOREM ExitIsJustified == ClientSpec => []ExitJustified
  <1>1. ClientInv => ExitJustified
    BY DEF ClientInv
  <1> QED BY <1>1, ClientInvariant, PTL

\* No call sleeps past the moment at which the endpoint is given up, although other
\* calls close and open the window while it sleeps.
THEOREM SleepsEnd == ClientSpec => []SleepsEndInTime
  <1>1. ClientInv => SleepsEndInTime
    BY DEF ClientInv
  <1> QED BY <1>1, ClientInvariant, PTL

\* A truncated answer is asked for again with more room, or with all the room there is,
\* whatever the scale and the context leave.
THEOREM TruncatedAnswersGrow == ClientSpec => TruncatedGrows
  <1>1. ASSUME ClientInv, [ClientNext]_clientVars, NEW c \in Callers,
               calls[c].at = "request", calls'[c].at = "retry", calls'[c].answer = "truncated"
        PROVE  calls'[c].tokens > calls[c].tokens \/ calls'[c].tokens = Greatest(1, calls[c].room)
    <2>1. PICK d \in Callers : Responded(d)
      <3>1. calls' # calls
        BY <1>1
      <3>2. ~Tick
        <4>1. calls[c] \in Call
          BY <1>1 DEF ClientInv, ClientTypeOK
        <4> QED BY <1>1, <4>1 DEF Tick, Call
      <3>3. ASSUME NEW d \in Callers PROVE ~Refused(d) /\ ~TransientError(d) /\ ~Wake(d)
        <4>1. calls[c] \in Call /\ calls \in [Callers -> Call]
          BY <1>1 DEF ClientInv, ClientTypeOK
        <4>2. ~Refused(d)
          BY <1>1, <4>1 DEF Refused, Call
        <4>3. ~TransientError(d)
          BY <1>1, <4>1 DEF TransientError, Call
        <4>4. ~Wake(d)
          BY <1>1, <4>1 DEF Wake, Call
        <4> QED BY <4>2, <4>3, <4>4
      <3> QED BY <1>1, <3>1, <3>2, <3>3 DEF ClientNext, CallEnds, clientVars
    <2>2. calls[c] \in Call /\ calls \in [Callers -> Call]
      BY <1>1 DEF ClientInv, ClientTypeOK
    <2>3. PICK answer \in {"good", "truncated", "repeating", "empty"} :
            calls' = [calls EXCEPT ![d] = AfterAnswer(calls[d], answer)]
      BY <2>1 DEF Responded
    <2>4. d = c /\ calls'[c] = AfterAnswer(calls[c], answer)
      BY <1>1, <2>2, <2>3
    <2>5. answer # "good" /\ calls[c].attempt < MaxRetries - 1
      <3> SUFFICES ASSUME ~(answer # "good" /\ calls[c].attempt < MaxRetries - 1) PROVE FALSE
        OBVIOUS
      <3>1. AfterAnswer(calls[c], answer)
              = [calls[c] EXCEPT !.at = IF answer = "empty" THEN "raised" ELSE "returned", !.answer = answer]
        BY DEF AfterAnswer
      <3> QED BY <1>1, <2>2, <2>4, <3>1 DEF Call
    <2>6. AfterAnswer(calls[c], answer)
            = [calls[c] EXCEPT !.at = "retry", !.attempt = calls[c].attempt + 1, !.sleep = RetryWait, !.answer = answer,
                               !.tokens = IF answer = "truncated" THEN Grown(calls[c].tokens, calls[c].room) ELSE calls[c].tokens]
      BY <2>5 DEF AfterAnswer
    <2> DEFINE grown == Grown(calls[c].tokens, calls[c].room)
    <2> HIDE DEF grown
    <2>7. answer = "truncated" /\ calls'[c].tokens = grown
      BY <1>1, <2>2, <2>4, <2>6 DEF Call, grown
    <2>8. calls[c].tokens \in Nat /\ calls[c].room \in Int
      BY <2>2, ClientAssumption DEF Call
    <2>9. grown > calls[c].tokens \/ grown = Greatest(1, calls[c].room)
      BY <2>8, GrownGrows DEF grown
    <2> QED BY <2>7, <2>9
  <1> DEFINE Grows == \A c \in Callers :
               (calls[c].at = "request" /\ calls'[c].at = "retry" /\ calls'[c].answer = "truncated") =>
                 calls'[c].tokens > calls[c].tokens \/ calls'[c].tokens = Greatest(1, calls[c].room)
  <1>2. ClientInv /\ [ClientNext]_clientVars => [Grows]_clientVars
    BY <1>1
  <1>3. ClientInv /\ [ClientNext]_clientVars =>
          [\A c \in Callers :
             (calls[c].at = "request" /\ calls'[c].at = "retry" /\ calls'[c].answer = "truncated") =>
               calls'[c].tokens > calls[c].tokens \/ calls'[c].tokens = Greatest(1, calls[c].room)]_clientVars
    BY <1>2
  <1> QED BY <1>3, ClientInvariant, PTL DEF ClientSpec, TruncatedGrows

-----------------------------------------------------------------------------
(***************************************************************************)
(* The budget of questions.  The log decides what is visible, so what a    *)
(* step logs bounds what it adds to the messages with calls.               *)
(***************************************************************************)

\* A step logs these messages, hides some of the latest ones, and may append the prompt
\* for the final answer.
Logs(entries) == \E hidden \in Nat, after \in {<< >>, ForcePrompt} : Log(entries, hidden, after)

\* The only system message is the first one.
SystemFirst == \A i \in 1..Len(visibleConversation) : visibleConversation[i].kind = "system" => i = 1

CallsIn(visible) == {i \in 1..Len(visible) : visible[i].kind = "calls"}

\* A rollback keeps a prefix.
LEMMA RollbackKeepsPrefix ==
  ASSUME NEW S, NEW v \in Seq(S), NEW count \in Nat
  PROVE  \E end \in 0..Len(v) : RollbackLast(v, count) = SubSeq(v, 1, end)
<1> DEFINE lastSystem == SelectLastInSeq(v, LAMBDA m : m.kind = "system")
           kept == Len(v) - count
           end == IF kept > lastSystem THEN kept ELSE lastSystem
<1>1. lastSystem \in 0..Len(v)
  BY LastSystemPosition
<1>2. RollbackLast(v, count) = SubSeq(v, 1, end)
  BY DEF RollbackLast
<1> HIDE DEF lastSystem
<1>3. end \in 0..Len(v)
  BY <1>1
<1> HIDE DEF end
<1>4. QED
  BY <1>2, <1>3

LEMMA ConcatenationElements ==
  ASSUME NEW v \in Seq(VisibleMessage), NEW e \in Seq(VisibleMessage)
  PROVE  /\ Len(v \o e) = Len(v) + Len(e)
         /\ \A k \in 1..(Len(v) + Len(e)) : (v \o e)[k] = IF k <= Len(v) THEN v[k] ELSE e[k - Len(v)]
OBVIOUS

\* Every message of new is one of v, in its place, one of e, after those of v, or one of after.
ComesFrom(new, v, e, after) ==
  \A i \in 1..Len(new) :
    \/ i \in 1..Len(v) /\ new[i] = v[i]
    \/ \E j \in 1..Len(e) : i = Len(v) + j /\ new[i] = e[j]
    \/ \E j \in 1..Len(after) : new[i] = after[j]

\* What follows a prefix of the conversation and of what is logged.
LEMMA LoggedMessages ==
  ASSUME NEW v \in Seq(VisibleMessage), NEW e \in Seq(VisibleMessage), NEW after \in Seq(VisibleMessage),
         NEW hidden \in Nat
  PROVE  ComesFrom(RollbackLast(v \o e, hidden) \o after, v, e, after)
<1>0. PICK all : all = v \o e
  OBVIOUS
<1>1. PICK nv \in Nat, ne \in Nat, na \in Nat : nv = Len(v) /\ ne = Len(e) /\ na = Len(after)
  OBVIOUS
<1>2. all \in Seq(VisibleMessage) /\ Len(all) = nv + ne
  BY <1>0, <1>1
<1>3. \A k \in 1..(nv + ne) : all[k] = IF k <= nv THEN v[k] ELSE e[k - nv]
  BY <1>0, <1>1, ConcatenationElements
<1>4. PICK end \in 0..(nv + ne) : RollbackLast(all, hidden) = SubSeq(all, 1, end)
  BY <1>2, RollbackKeepsPrefix
<1>5. PICK head : head = SubSeq(all, 1, end)
  OBVIOUS
<1>6. head \in Seq(VisibleMessage) /\ Len(head) = end /\ \A k \in 1..end : head[k] = all[k]
  BY <1>2, <1>4, <1>5
<1>7. PICK new : new = head \o after
  OBVIOUS
<1>8. new = RollbackLast(v \o e, hidden) \o after
  BY <1>0, <1>4, <1>5, <1>7
<1>9. Len(new) = end + na /\ \A k \in 1..(end + na) : new[k] = IF k <= end THEN head[k] ELSE after[k - end]
  <2>1. /\ Len(head \o after) = Len(head) + Len(after)
        /\ \A k \in 1..(Len(head) + Len(after)) :
             (head \o after)[k] = IF k <= Len(head) THEN head[k] ELSE after[k - Len(head)]
    BY <1>6, ConcatenationElements
  <2> QED BY <1>1, <1>6, <1>7, <2>1
<1>10. ASSUME NEW i \in 1..(end + na)
       PROVE  \/ i \in 1..nv /\ new[i] = v[i]
              \/ \E j \in 1..ne : i = nv + j /\ new[i] = e[j]
              \/ \E j \in 1..na : new[i] = after[j]
  <2>1. CASE i <= end
    <3>1. new[i] = all[i] /\ i \in 1..(nv + ne)
      BY <1>4, <1>6, <1>9, <2>1
    <3>2. CASE i <= nv
      BY <1>3, <3>1, <3>2
    <3>3. CASE i > nv
      <4>1. i - nv \in 1..ne /\ i = nv + (i - nv)
        BY <3>1, <3>3
      <4>2. all[i] = e[i - nv]
        BY <1>3, <3>1, <3>3
      <4> QED BY <3>1, <4>1, <4>2
    <3> QED BY <3>2, <3>3
  <2>2. CASE i > end
    <3>1. i - end \in 1..na
      BY <1>4, <2>2
    <3>2. new[i] = after[i - end]
      <4>1. new[i] = IF i <= end THEN head[i] ELSE after[i - end]
        BY <1>9
      <4>2. ~(i <= end)
        BY <1>4, <2>2
      <4> QED BY <4>1, <4>2
    <3> QED BY <3>1, <3>2
  <2> QED BY <1>4, <2>1, <2>2
<1>11. ComesFrom(new, v, e, after)
  BY <1>1, <1>9, <1>10 DEF ComesFrom
<1>12. QED
  BY <1>8, <1>11

LEMMA CallsCounted ==
  ASSUME NEW v \in Seq(VisibleMessage)
  PROVE  /\ CallsIn(v) = {i \in DOMAIN v : v[i].kind = "calls"}
         /\ IsFiniteSet(CallsIn(v)) /\ Cardinality(CallsIn(v)) \in Nat
<1>1. DOMAIN v = 1..Len(v) /\ Len(v) \in Nat
  OBVIOUS
<1>2. IsFiniteSet(1..Len(v))
  BY <1>1, FS_Interval
<1>3. CallsIn(v) \subseteq 1..Len(v)
  BY DEF CallsIn
<1>4. IsFiniteSet(CallsIn(v))
  BY <1>2, <1>3, FS_Subset
<1> QED BY <1>1, <1>4, FS_CardinalityType DEF CallsIn

\* One message with calls is one more that can be dropped; nothing else is.
LEMMA LogsCalls ==
  ASSUME Inv, Inv', SystemFirst, NEW entries \in Seq(VisibleMessage), Logs(entries),
         \A i \in 1..Len(entries) : entries[i].kind = "system" => Len(visibleConversation) + i = 1
  PROVE  /\ SystemFirst' /\ CallsVisible \in Nat /\ CallsVisible' \in Nat
         /\ (\A i \in 1..Len(entries) : entries[i].kind = "calls" => i = 1) => CallsVisible' <= CallsVisible + 1
         /\ (\A i \in 1..Len(entries) : entries[i].kind # "calls") => CallsVisible' <= CallsVisible
<1>1. PICK hidden \in Nat, after \in {<< >>, ForcePrompt} :
        visibleConversation' = RollbackLast(visibleConversation \o entries, hidden) \o after
  BY DEF Logs, Log
<1>2. after \in Seq(VisibleMessage) /\ \A j \in 1..Len(after) : after[j].kind = "force_prompt"
  <2>1. CASE after = << >>
    BY <2>1
  <2>2. CASE after = <<Message("force_prompt", 0)>>
    <3>1. Len(after) = 1 /\ after[1] = Message("force_prompt", 0)
      BY <2>2
    <3>2. after[1].kind = "force_prompt"
      BY <3>1 DEF Message
    <3>3. Message("force_prompt", 0) \in VisibleMessage
      BY DEF Message, VisibleMessage, UserPromptKinds
    <3> QED BY <2>2, <3>1, <3>2, <3>3
  <2> QED BY <2>1, <2>2 DEF ForcePrompt
<1>3. visibleConversation \in Seq(VisibleMessage) /\ visibleConversation' \in Seq(VisibleMessage)
  BY TypeOKParts DEF Inv, TypeOK
<1>4. PICK v, new : v = visibleConversation /\ new = visibleConversation'
  OBVIOUS
<1>5. v \in Seq(VisibleMessage) /\ new \in Seq(VisibleMessage) /\ new = RollbackLast(v \o entries, hidden) \o after
  BY <1>1, <1>3, <1>4
<1>6. ComesFrom(new, v, entries, after)
  BY <1>2, <1>5, LoggedMessages
<1>7. SystemFirst'
  <2>1. \A i \in 1..Len(v) : v[i].kind = "system" => i = 1
    BY <1>4 DEF SystemFirst
  <2>2. \A i \in 1..Len(new) : new[i].kind = "system" => i = 1
    BY <1>2, <1>4, <1>6, <2>1 DEF ComesFrom
  <2> QED BY <1>4, <2>2 DEF SystemFirst
<1>8. CallsVisible = Cardinality(CallsIn(v)) /\ CallsVisible' = Cardinality(CallsIn(new))
  BY <1>4, <1>5, CallsCounted DEF CallsVisible
<1>9. IsFiniteSet(CallsIn(v)) /\ Cardinality(CallsIn(v)) \in Nat /\ Cardinality(CallsIn(new)) \in Nat
  BY <1>5, CallsCounted
<1>10. ASSUME \A i \in 1..Len(entries) : entries[i].kind # "calls"
       PROVE  CallsVisible' <= CallsVisible
  <2>1. CallsIn(new) \subseteq CallsIn(v)
    BY <1>2, <1>6, <1>10 DEF CallsIn, ComesFrom
  <2>2. Cardinality(CallsIn(new)) <= Cardinality(CallsIn(v))
    BY <1>9, <2>1, FS_Subset
  <2> QED BY <1>8, <2>2
<1>11. ASSUME \A i \in 1..Len(entries) : entries[i].kind = "calls" => i = 1
       PROVE  CallsVisible' <= CallsVisible + 1
  <2>1. CallsIn(new) \subseteq CallsIn(v) \cup {Len(v) + 1}
    BY <1>2, <1>6, <1>11 DEF CallsIn, ComesFrom
  <2>2. /\ IsFiniteSet(CallsIn(v) \cup {Len(v) + 1})
        /\ Cardinality(CallsIn(v) \cup {Len(v) + 1}) \in {Cardinality(CallsIn(v)), Cardinality(CallsIn(v)) + 1}
    BY <1>9, FS_AddElement
  <2>3. Cardinality(CallsIn(new)) <= Cardinality(CallsIn(v) \cup {Len(v) + 1})
    BY <2>1, <2>2, FS_Subset
  <2> QED BY <1>8, <1>9, <2>2, <2>3
<1> QED BY <1>7, <1>8, <1>9, <1>10, <1>11

-----------------------------------------------------------------------------
(***************************************************************************)
(* What the building blocks of a step log.                                 *)
(***************************************************************************)
LEMMA SettleLogs ==
  ASSUME NEW entries, NEW hidden \in Nat, NEW path, Settle(entries, hidden, path)
  PROVE  Logs(entries)
BY DEF Settle, Logs

LEMMA ForceFinalLogs ==
  ASSUME NEW entries, NEW hidden \in Nat, NEW path, NEW trigger, ForceFinal(entries, hidden, path, trigger)
  PROVE  Logs(entries)
BY DEF ForceFinal, Logs

LEMMA AwaitLogs ==
  ASSUME NEW entries, NEW path, NEW turns, AwaitAssistant(entries, path, turns)
  PROVE  Logs(entries)
BY SettleLogs, ForceFinalLogs DEF AwaitAssistant

\* Without an exception the context limit leaves the forced round, or the end.
LEMMA ContextForced ==
  ASSUME Inv, NEW entries \in Seq(VisibleMessage), NEW path \in Seq(AllStages), NEW mayRollBack, NEW fits,
         ForceFinalDueToContext(entries, path, mayRollBack, fits)
  PROVE  Logs(entries) /\ (raised' \/ stage' \in {"force_final", "token_exceed"})
<1>1. visibleConversation \o entries \in Seq(VisibleMessage)
  BY TypeOKParts DEF Inv, LogsOK
<1> DEFINE at == path[Len(path)]
           hidden == IF mayRollBack /\ MayRollBackFrom(at)
                       THEN ContextRollbackCount(visibleConversation \o entries, at) ELSE 0
           reached == IF hidden > 0 THEN Append(path, "context_rollback") ELSE path
<1>2. hidden \in Nat
  BY <1>1, ContextRollbackCountType, ConfigAssumption
<1>3. IF fits THEN ForceFinal(entries, hidden, reached, "context_limit")
      ELSE Settle(entries, hidden, Append(reached, "token_exceed"))
  BY DEF ForceFinalDueToContext
<1> HIDE DEF hidden
<1>4. reached \in Seq(AllStages)
  <2>1. "context_rollback" \in AllStages
    BY DEF AllStages, InternalStages
  <2>2. Append(path, "context_rollback") \in Seq(AllStages)
    BY <2>1
  <2> QED BY <2>2
<1> HIDE DEF reached
<1>5. CASE fits
  BY <1>2, <1>3, <1>4, <1>5, ForceFinalLogs, ForceFinalArrives
<1>6. CASE ~fits
  <2>1. Len(reached) \in Nat /\ Len(Append(reached, "token_exceed")) = Len(reached) + 1
    BY <1>4
  <2>2. Append(reached, "token_exceed")[Len(reached) + 1] = "token_exceed"
    BY <1>4
  <2>3. raised' \/ stage' = "token_exceed"
    BY <1>3, <1>6, <2>1, <2>2, SettleArrives
  <2> QED BY <1>2, <1>3, <1>6, <2>3, SettleLogs
<1>7. QED
  BY <1>5, <1>6

-----------------------------------------------------------------------------
(***************************************************************************)
(* What each step spends.                                                  *)
(***************************************************************************)

\* Tool results are neither calls nor system messages.
LEMMA ResultsAreTools ==
  ASSUME NEW n \in Nat, NEW results \in ToolResultBatches(n)
  PROVE  \A i \in 1..Len(results) : results[i].kind = "tool"
<1> DEFINE single(k) == [i \in 1..k |-> Message("tool", 1)]
<1>1. \A k \in Nat : Message("tool", k).kind = "tool"
  BY DEF Message
<1>2. ASSUME NEW k \in Nat
      PROVE  single(k) \in Seq({Message("tool", 1)}) /\ Len(single(k)) = k
             /\ \A i \in 1..k : single(k)[i] = Message("tool", 1)
  OBVIOUS
<1>3. \/ results = single(n)
      \/ \E k \in 2..n : results = Append(single(n - k), Message("tool", k))
  BY DEF ToolResultBatches
<1> HIDE DEF single
<1>4. CASE results = single(n)
  BY <1>1, <1>2, <1>4
<1>5. CASE \E k \in 2..n : results = Append(single(n - k), Message("tool", k))
  <2>1. PICK k \in 2..n : results = Append(single(n - k), Message("tool", k))
    BY <1>5
  <2>2. n - k \in Nat /\ k \in Nat
    OBVIOUS
  <2>3. PICK first, last : first = single(n - k) /\ last = Message("tool", k)
    OBVIOUS
  <2>4. first \in Seq({Message("tool", 1)}) /\ last.kind = "tool" /\ \A i \in 1..Len(first) : first[i].kind = "tool"
    BY <1>1, <1>2, <2>2, <2>3
  <2>5. Len(Append(first, last)) = Len(first) + 1
        /\ \A i \in 1..(Len(first) + 1) : Append(first, last)[i] = IF i <= Len(first) THEN first[i] ELSE last
    BY <2>4
  <2> QED BY <2>1, <2>3, <2>4, <2>5
<1> QED BY <1>3, <1>4, <1>5

\* What one answer logs: an assistant message, which may have calls, and a prompt.
AnswerEntries(entries) ==
  /\ entries \in Seq(VisibleMessage)
  /\ \A i \in 1..Len(entries) : entries[i].kind # "system" /\ (entries[i].kind = "calls" => i = 1)

LEMMA AnswerLogged ==
  ASSUME NEW r \in Response
  PROVE  /\ AnswerEntries(<<AssistantMessage(r)>>)
         /\ r.calls = 0 => \A i \in 1..Len(<<AssistantMessage(r)>>) : <<AssistantMessage(r)>>[i].kind # "calls"
         /\ \A kind \in {"reprompt", "final_prompt"} : AnswerEntries(<<AssistantMessage(r), Message(kind, 0)>>)
<1>1. r.calls \in Nat
  BY ResponseCalls, ConfigAssumption
<1>2. PICK m : m = AssistantMessage(r)
  OBVIOUS
<1>3. m \in VisibleMessage /\ m.kind \in {"calls", "text", "empty"} /\ (r.calls = 0 => m.kind # "calls")
  BY <1>1, <1>2 DEF AssistantMessage, Message, VisibleMessage, AssistantKinds
<1>4. AnswerEntries(<<m>>) /\ (r.calls = 0 => \A i \in 1..Len(<<m>>) : <<m>>[i].kind # "calls")
  BY <1>3 DEF AnswerEntries
<1>5. ASSUME NEW kind \in {"reprompt", "final_prompt"}
      PROVE  AnswerEntries(<<m, Message(kind, 0)>>)
  <2>1. PICK p : p = Message(kind, 0)
    OBVIOUS
  <2>2. p \in VisibleMessage /\ p.kind \notin {"system", "calls"}
    BY <2>1 DEF Message, VisibleMessage, UserPromptKinds
  <2>3. AnswerEntries(<<m, p>>)
    BY <1>3, <2>2 DEF AnswerEntries
  <2> QED BY <2>1, <2>3
<1> QED BY <1>2, <1>4, <1>5

LEMMA AnswerCalls ==
  ASSUME Inv, Inv', SystemFirst, NEW entries, AnswerEntries(entries), Logs(entries)
  PROVE  SystemFirst' /\ CallsVisible \in Nat /\ CallsVisible' \in Nat /\ CallsVisible' <= CallsVisible + 1
<1>1. entries \in Seq(VisibleMessage)
  BY DEF AnswerEntries
<1>2. /\ \A i \in 1..Len(entries) : entries[i].kind = "system" => Len(visibleConversation) + i = 1
      /\ \A i \in 1..Len(entries) : entries[i].kind = "calls" => i = 1
  BY DEF AnswerEntries
<1> QED BY <1>1, <1>2, LogsCalls

LEMMA OtherCalls ==
  ASSUME Inv, Inv', SystemFirst, NEW entries \in Seq(VisibleMessage), Logs(entries),
         \A i \in 1..Len(entries) : entries[i].kind \notin {"system", "calls"}
  PROVE  SystemFirst' /\ CallsVisible \in Nat /\ CallsVisible' \in Nat /\ CallsVisible' <= CallsVisible
<1>1. /\ \A i \in 1..Len(entries) : entries[i].kind = "system" => Len(visibleConversation) + i = 1
      /\ \A i \in 1..Len(entries) : entries[i].kind # "calls"
  OBVIOUS
<1> QED BY <1>1, LogsCalls

\* An answer in a normal round counts a turn, or is withdrawn and counted as such; the
\* answer of the forced round ends the conversation.
CountedTurn == stage # "force_final" /\ turnCount' = turnCount + 1 /\ CallsVisible' <= CallsVisible + 1
WithdrawnTurn ==
  /\ stage # "force_final" /\ turnCount' = turnCount /\ rollbackCount' = rollbackCount + 1
  /\ CallsVisible' <= CallsVisible
ForcedTurn ==
  /\ stage = "force_final" /\ turnCount' = turnCount + 1 /\ rollbackCount' = rollbackCount
  /\ CallsVisible' <= CallsVisible + 1
  /\ raised' \/ stage' \in DoneStages

LEMMA AnswerSpends ==
  ASSUME Inv, Inv', SystemFirst, AssistantStep
  PROVE  SystemFirst' /\ (CountedTurn \/ WithdrawnTurn \/ ForcedTurn)
<1>1. PICK r \in Response, budget \in AfterAssistantBudgets, fits \in WarningFits :
        ApplyAssistantMessage(r, budget, fits)
  BY DEF AssistantStep
<1>2. PICK one : one = <<AssistantMessage(r)>>
  OBVIOUS
<1>3. AnswerEntries(one) /\ (r.calls = 0 => \A i \in 1..Len(one) : one[i].kind \notin {"system", "calls"})
  BY <1>2, AnswerLogged DEF AnswerEntries
<1>4. 0 \in Nat /\ 1 \in Nat
  OBVIOUS
<1>5. ASSUME stage # "force_final", turnCount' = turnCount + 1, NEW entries, AnswerEntries(entries), Logs(entries)
      PROVE  SystemFirst' /\ CountedTurn
  BY <1>5, AnswerCalls DEF CountedTurn
<1>6. ASSUME stage = "force_final", turnCount' = turnCount + 1, rollbackCount' = rollbackCount,
             NEW next \in DoneStages, Settle(one, 0, <<stage, "received", next>>)
      PROVE  SystemFirst' /\ ForcedTurn
  <2>1. Logs(one)
    BY <1>4, <1>6, SettleLogs
  <2>2. raised' \/ stage' = <<stage, "received", next>>[Len(<<stage, "received", next>>)]
    BY <1>6, SettleArrives
  <2>3. raised' \/ stage' \in DoneStages
    BY <2>2
  <2> QED BY <1>3, <1>6, <2>1, <2>3, AnswerCalls DEF ForcedTurn
<1>7. CASE TokenExhausted(r)
  <2>1. /\ Settle(one, 0, <<stage, "received", "token_exceed">>)
        /\ turnCount' = turnCount + 1 /\ rollbackCount' = rollbackCount
    BY <1>2, <1>7 DEF TokenExhausted
  <2>2. Logs(one) /\ "token_exceed" \in DoneStages
    BY <1>4, <2>1, SettleLogs DEF DoneStages
  <2> QED BY <1>3, <1>5, <1>6, <2>1, <2>2
<1>8. CASE ForceFinalResponse(r)
  <2>1. PICK next : next = IF r.calls > 0 THEN "calls_rejected" ELSE ForceCompletedStage
    OBVIOUS
  <2>2. /\ stage = "force_final" /\ Settle(one, 0, <<stage, "received", next>>)
        /\ turnCount' = turnCount + 1 /\ rollbackCount' = rollbackCount
    BY <1>2, <1>8, <2>1 DEF ForceFinalResponse
  <2>3. next \in DoneStages
    BY <2>1 DEF ForceCompletedStage, DoneStages
  <2> QED BY <1>6, <2>2, <2>3
<1>9. CASE TruncatedResponse(r)
  <2>1. stage # "force_final" /\ turnCount' = turnCount + 1 /\ \E path : Settle(one, 0, path)
    BY <1>2, <1>9 DEF TruncatedResponse
  <2> QED BY <1>3, <1>4, <1>5, <2>1, SettleLogs
<1>10. CASE BudgetAfterAssistant(r, budget, fits)
  <2>1. stage # "force_final" /\ turnCount' = turnCount + 1 /\ stage \in CallModelStages
    BY <1>10 DEF BudgetAfterAssistant, Received
  <2>2. \/ Settle(one, 0, <<stage, "received", "token_exceed">>)
        \/ ForceFinalDueToContext(one, <<stage, "received">>, FALSE, fits)
    BY <1>2, <1>10 DEF BudgetAfterAssistant
  <2>3. <<stage, "received">> \in Seq(AllStages) /\ one \in Seq(VisibleMessage)
    BY <1>3, <2>1, ReceivedPath DEF AnswerEntries, AfterReceived
  <2>4. Logs(one)
    BY <1>4, <2>2, <2>3, SettleLogs, ContextForced
  <2> QED BY <1>3, <1>5, <2>1, <2>4
<1>11. CASE RequestTools(r, budget)
  <2>1. stage # "force_final" /\ turnCount' = turnCount + 1 /\ \E path : Settle(one, 0, path)
    BY <1>2, <1>11 DEF RequestTools, Accepted
  <2> QED BY <1>3, <1>4, <1>5, <2>1, SettleLogs
<1>12. CASE WithdrawAssistantMessage(r, budget)
  <2>1. /\ stage # "force_final" /\ turnCount' = turnCount /\ rollbackCount' = rollbackCount + 1
        /\ r.calls = 0 /\ \E path : Settle(one, 1, path)
    BY <1>2, <1>12 DEF WithdrawAssistantMessage, Judged, Accepted
  <2>2. Logs(one) /\ one \in Seq(VisibleMessage)
    BY <1>3, <1>4, <2>1, SettleLogs DEF AnswerEntries
  <2> QED BY <1>3, <2>1, <2>2, OtherCalls DEF WithdrawnTurn
<1>13. CASE RepromptFormatError(r, budget) \/ AskFinalResponse(r, budget)
  <2>1. /\ stage # "force_final" /\ turnCount' = turnCount + 1
        /\ \E kind \in {"reprompt", "final_prompt"} : \E path, turns :
             AwaitAssistant(<<AssistantMessage(r), Message(kind, 0)>>, path, turns)
    BY <1>13 DEF RepromptFormatError, AskFinalResponse, Judged, Accepted
  <2>2. PICK kind \in {"reprompt", "final_prompt"} : Logs(<<AssistantMessage(r), Message(kind, 0)>>)
    BY <2>1, AwaitLogs
  <2>3. AnswerEntries(<<AssistantMessage(r), Message(kind, 0)>>)
    BY AnswerLogged
  <2> QED BY <1>5, <2>1, <2>2, <2>3
<1>14. CASE CompleteNormally(r, budget)
  <2>1. stage # "force_final" /\ turnCount' = turnCount + 1 /\ \E path : Settle(one, 0, path)
    BY <1>2, <1>14 DEF CompleteNormally, Accepted
  <2> QED BY <1>3, <1>4, <1>5, <2>1, SettleLogs
<1> QED BY <1>1, <1>7, <1>8, <1>9, <1>10, <1>11, <1>12, <1>13, <1>14 DEF ApplyAssistantMessage

LEMMA ResultsSpend ==
  ASSUME Inv, Inv', SystemFirst, ToolStep
  PROVE  /\ SystemFirst' /\ stage = "await_tools" /\ UNCHANGED <<turnCount, rollbackCount>>
         /\ CallsVisible' <= CallsVisible
<1>1. PICK results \in ToolResultBatches(pendingCalls), exhausted \in BOOLEAN,
           budget \in BeforeGenerationBudgets, fits \in WarningFits :
        ApplyBatchToolMessages(results, exhausted, budget, fits)
  BY DEF ToolStep
<1>2. stage = "await_tools" /\ UNCHANGED <<turnCount, rollbackCount>>
  BY <1>1 DEF ApplyBatchToolMessages
<1>3. pendingCalls \in Nat
  BY DEF Inv, TypeOK
<1>4. results \in Seq(VisibleMessage) /\ \A i \in 1..Len(results) : results[i].kind \notin {"system", "calls"}
  <2>1. \A i \in 1..Len(results) : results[i].kind = "tool"
    BY <1>3, ResultsAreTools
  <2> QED BY <1>3, <2>1, ToolResultBatchesType
<1>5. Logs(results)
  <2> DEFINE path == <<stage, "tool_messages">>
  <2>1. path \in Seq(AllStages)
    BY <1>2 DEF AllStages, Stages, CallModelStages, ExecuteToolsStages
  <2>2. \/ ForceFinal(results, 0, path, "tools_exhausted")
        \/ Settle(results, 0, Append(path, "token_exceed"))
        \/ ForceFinalDueToContext(results, path, TRUE, fits)
        \/ AwaitAssistant(results, path, turnCount)
    BY <1>1 DEF ApplyBatchToolMessages
  <2> HIDE DEF path
  <2>3. 0 \in Nat
    OBVIOUS
  <2> QED BY <1>4, <2>1, <2>2, <2>3, SettleLogs, ForceFinalLogs, AwaitLogs, ContextForced
<1> QED BY <1>2, <1>4, <1>5, OtherCalls

LEMMA NothingLogged ==
  /\ << >> \in Seq(VisibleMessage)
  /\ \A i \in 1..Len(<< >>) : << >>[i].kind \notin {"system", "calls"}
OBVIOUS

LEMMA ContextErrorSpends ==
  ASSUME Inv, Inv', SystemFirst, ContextErrorStep
  PROVE  /\ SystemFirst' /\ stage # "force_final" /\ UNCHANGED <<turnCount, rollbackCount>>
         /\ CallsVisible' <= CallsVisible
         /\ raised' \/ stage' \in {"force_final", "token_exceed"}
<1>1. PICK fits \in WarningFits : ForceFinalAfterContextError(fits)
  BY DEF ContextErrorStep
<1>2. stage \in CallModelStages \ {"force_final"} /\ UNCHANGED <<turnCount, rollbackCount>>
  BY <1>1 DEF ForceFinalAfterContextError, counters
<1>3. ForceFinalDueToContext(<< >>, <<stage>>, TRUE, fits)
  BY <1>1 DEF ForceFinalAfterContextError
<1>4. <<stage>> \in Seq(AllStages)
  BY <1>2 DEF AllStages, Stages
<1>5. Logs(<< >>) /\ (raised' \/ stage' \in {"force_final", "token_exceed"})
  BY <1>3, <1>4, NothingLogged, ContextForced
<1> QED BY <1>2, <1>5, NothingLogged, OtherCalls

\* The exchange that is dropped takes its message with calls along.
LEMMA DropSpends ==
  ASSUME Inv, Inv', SystemFirst, NEW trigger, DropLatestExchange(trigger)
  PROVE  /\ SystemFirst' /\ UNCHANGED <<turnCount, rollbackCount>> /\ stage' = "force_final"
         /\ CallsVisible \in Nat /\ CallsVisible' \in Nat /\ CallsVisible' < CallsVisible
<1>1. PICK v, new : v = visibleConversation /\ new = visibleConversation'
  OBVIOUS
<1>2. v \in Seq(VisibleMessage) /\ new \in Seq(VisibleMessage)
  BY <1>1 DEF Inv, TypeOK
<1>3. PICK hidden \in Nat : hidden = LatestToolExchange(v)
  BY <1>2, LatestToolExchangeType
<1>4. hidden > 0 /\ ForceFinal(<< >>, hidden, <<stage, "context_rollback">>, trigger)
      /\ UNCHANGED <<turnCount, rollbackCount>>
  BY <1>1, <1>3 DEF DropLatestExchange, CanDropLatestExchange, counters
<1>5. stage' = "force_final" /\ Logs(<< >>)
  BY <1>4, DropReachesForceFinal, ForceFinalLogs
<1>6. SystemFirst'
  BY <1>5, NothingLogged, OtherCalls
<1>7. PICK n \in Nat : n = Len(v)
  BY <1>2
<1>8. PICK caller \in 1..n : v[caller].kind = "calls" /\ hidden = n - caller + 1
  <2> DEFINE prompted == HasForcePrompt /\ Len(v) > 0
                           /\ \/ v[Len(v)].kind = "force_prompt"
                              \/ ~EarlyStopPrompt /\ v[Len(v)].kind = "final_prompt"
             one == IF prompted THEN 1 ELSE 0
             lastResult == Len(v) - one
             last == SelectLastInSubSeq(v, 1, lastResult, LAMBDA m : m.kind # "tool")
             I == {i \in 1..lastResult : v[i].kind # "tool"}
  <2>1. hidden = IF last > 0 /\ last < lastResult /\ v[last].kind = "calls" THEN Len(v) - last + 1 ELSE 0
    BY <1>3 DEF LatestToolExchange
  <2>2. last = IF I # {} THEN Max(I) ELSE 0
    BY DEF SelectLastInSubSeq
  <2>3. one \in {0, 1} /\ I \in SUBSET (1..lastResult)
    OBVIOUS
  <2>4. lastResult \in 0..n
    <3>1. prompted => n > 0
      BY <1>7
    <3>2. one = 1 => n > 0
      BY <3>1
    <3> HIDE DEF one
    <3> QED BY <1>7, <2>3, <3>2
  <2> HIDE DEF I, last, lastResult, one
  <2>5. last \in 0..lastResult
    BY <2>2, <2>3, <2>4, LastPosition
  <2>6. last > 0 /\ v[last].kind = "calls" /\ hidden = n - last + 1
    BY <1>4, <1>7, <2>1
  <2> QED BY <2>4, <2>5, <2>6
<1>9. PICK end \in 0..n : RollbackLast(v, hidden) = SubSeq(v, 1, end) /\ end < caller
  <2> DEFINE lastSystem == SelectLastInSeq(v, LAMBDA m : m.kind = "system")
             S == {i \in 1..Len(v) : v[i].kind = "system"}
  <2>1. RollbackLast(v, hidden) = SubSeq(v, 1, IF Len(v) - hidden > lastSystem THEN Len(v) - hidden ELSE lastSystem)
    BY DEF RollbackLast
  <2>2. lastSystem = IF S # {} THEN Max(S) ELSE 0
    BY DEF SelectLastInSeq
  <2>3. \A i \in S : i = 1 /\ v[1].kind = "system"
    BY <1>1 DEF SystemFirst
  <2>4. S \in SUBSET (1..n)
    BY <1>7
  <2> HIDE DEF S, lastSystem
  <2>5. lastSystem \in 0..n /\ (S # {} => lastSystem \in S)
    <3>1. CASE S = {}
      BY <2>2, <3>1
    <3>2. CASE S # {}
      <4>1. Max(S) \in S
        BY <2>4, <3>2, MaxOfPositions
      <4>2. lastSystem \in S
        BY <2>2, <3>2, <4>1
      <4>3. \A i \in S : i \in 0..n
        BY <2>4
      <4> QED BY <4>2, <4>3
    <3> QED BY <3>1, <3>2
  <2>6. lastSystem < caller
    <3>1. CASE S = {}
      BY <2>2, <3>1
    <3>2. CASE S # {}
      <4>1. lastSystem = 1 /\ v[1].kind = "system"
        BY <2>3, <2>5, <3>2
      <4>2. caller # 1
        BY <1>8, <4>1
      <4> QED BY <4>1, <4>2
    <3> QED BY <3>1, <3>2
  <2>7. PICK e : e = IF Len(v) - hidden > lastSystem THEN Len(v) - hidden ELSE lastSystem
    OBVIOUS
  <2>8. e \in 0..n /\ e < caller
    BY <1>7, <1>8, <2>5, <2>6, <2>7
  <2> QED BY <2>1, <2>7, <2>8
<1>10. new = RollbackLast(v, hidden) \o ForcePrompt
  <2>1. v \o << >> = v
    BY <1>2
  <2> QED BY <1>1, <1>4, <2>1 DEF ForceFinal, Log
<1>11. PICK head, after : head = SubSeq(v, 1, end) /\ after = ForcePrompt
  OBVIOUS
<1>12. head \in Seq(VisibleMessage) /\ Len(head) = end /\ \A i \in 1..end : head[i] = v[i]
  BY <1>2, <1>7, <1>9, <1>11
<1>13. after \in Seq(VisibleMessage) /\ \A i \in 1..Len(after) : after[i].kind # "calls"
  <2>1. CASE after = << >>
    BY <2>1
  <2>2. CASE after = <<Message("force_prompt", 0)>>
    <3>1. Message("force_prompt", 0).kind # "calls"
      BY DEF Message
    <3>2. Message("force_prompt", 0) \in VisibleMessage
      BY DEF Message, VisibleMessage, UserPromptKinds
    <3>3. PICK m : m = Message("force_prompt", 0)
      OBVIOUS
    <3> QED BY <2>2, <3>1, <3>2, <3>3
  <2> QED BY <1>11, <2>1, <2>2 DEF ForcePrompt
<1>14. CallsIn(new) \subseteq CallsIn(v) \ {caller}
  <2>1. PICK na \in Nat : na = Len(after)
    BY <1>13
  <2>2. new = head \o after
    BY <1>9, <1>10, <1>11
  <2>3. Len(new) = end + na /\ \A i \in 1..(end + na) : new[i] = IF i <= end THEN head[i] ELSE after[i - end]
    BY <1>12, <1>13, <2>1, <2>2, ConcatenationElements
  <2>4. ASSUME NEW i \in CallsIn(new)
        PROVE  i \in CallsIn(v) \ {caller}
    <3>1. i \in 1..(end + na) /\ new[i].kind = "calls"
      BY <2>3, <2>4 DEF CallsIn
    <3>2. new[i] = IF i <= end THEN head[i] ELSE after[i - end]
      BY <2>3, <3>1
    <3>3. i <= end
      <4>1. SUFFICES ASSUME ~(i <= end) PROVE FALSE
        OBVIOUS
      <4>2. new[i] = after[i - end]
        BY <3>2, <4>1
      <4>3. i - end \in 1..na
        BY <1>9, <3>1, <4>1
      <4> QED BY <1>13, <2>1, <3>1, <4>2, <4>3
    <3>4. i \in 1..end /\ new[i] = v[i]
      BY <1>9, <1>12, <3>1, <3>2, <3>3
    <3>5. i \in 1..Len(v) /\ i # caller
      BY <1>7, <1>8, <1>9, <3>4
    <3> QED BY <3>1, <3>4, <3>5 DEF CallsIn
  <2> QED BY <2>4
<1>15. IsFiniteSet(CallsIn(v)) /\ Cardinality(CallsIn(v)) \in Nat /\ Cardinality(CallsIn(new)) \in Nat
  BY <1>2, CallsCounted
<1>16. caller \in CallsIn(v)
  BY <1>7, <1>8 DEF CallsIn
<1>17. IsFiniteSet(CallsIn(v) \ {caller}) /\ Cardinality(CallsIn(v) \ {caller}) = Cardinality(CallsIn(v)) - 1
  BY <1>15, <1>16, FS_RemoveElement
<1>18. Cardinality(CallsIn(new)) <= Cardinality(CallsIn(v) \ {caller})
  BY <1>14, <1>17, FS_Subset
<1>19. CallsVisible = Cardinality(CallsIn(v)) /\ CallsVisible' = Cardinality(CallsIn(new))
  BY <1>1, <1>2, CallsCounted DEF CallsVisible
<1> QED BY <1>4, <1>5, <1>6, <1>15, <1>17, <1>18, <1>19

-----------------------------------------------------------------------------
(***************************************************************************)
(* The budget, as a product and three numbers.                             *)
(***************************************************************************)
ForcedRoundLeft == IF stage = "force_final" THEN 0 ELSE 1

LEMMA Difference == \A a, b \in Nat : b <= a => a - b \in Nat /\ a - b <= a
OBVIOUS

LEMMA BudgetParts ==
  ASSUME Inv, CallsVisible \in Nat
  PROVE  /\ Budget = (MaxRollbacks + 2) * (MaxTurns - turnCount) + (MaxRollbacks - rollbackCount)
                       + CallsVisible + ForcedRoundLeft
         /\ (MaxRollbacks + 2) * (MaxTurns - turnCount) \in Nat
         /\ MaxRollbacks \in Nat /\ MaxTurns \in Nat /\ turnCount \in Nat /\ rollbackCount \in 0..MaxRollbacks
         /\ ForcedRoundLeft \in {0, 1} /\ Budget \in Nat
<1>1. MaxRollbacks \in Nat /\ MaxTurns \in Nat /\ turnCount \in Nat /\ rollbackCount \in 0..MaxRollbacks
      /\ turnCount <= MaxTurns
  BY ConfigAssumption DEF ConfigAssumption, Inv, TypeOK, TurnInv, TurnBudget
<1>2. PICK left \in Nat, weight \in Nat : left = MaxTurns - turnCount /\ weight = MaxRollbacks + 2
  BY <1>1
<1>3. weight * left \in Nat
  OBVIOUS
<1>4. PICK product \in Nat : product = (MaxRollbacks + 2) * (MaxTurns - turnCount)
  BY <1>2, <1>3
<1>5. Budget = (MaxRollbacks + 2) * (MaxTurns - turnCount) + (MaxRollbacks - rollbackCount)
                 + CallsVisible + ForcedRoundLeft
  BY DEF Budget, ForcedRoundLeft
<1>6. ForcedRoundLeft \in {0, 1}
  BY DEF ForcedRoundLeft
<1>7. Budget = product + (MaxRollbacks - rollbackCount) + CallsVisible + ForcedRoundLeft
  BY <1>4, <1>5
<1>8. Budget \in Nat
  BY <1>1, <1>6, <1>7
<1> QED BY <1>1, <1>4, <1>5, <1>6, <1>8

LEMMA BudgetSpent ==
  ASSUME Inv, Inv', CallsVisible \in Nat, CallsVisible' \in Nat
  PROVE  /\ Budget \in Nat /\ Budget' \in Nat
         /\ CountedTurn \/ WithdrawnTurn => Budget' < Budget
         /\ ForcedTurn => Budget' <= Budget
         /\ UNCHANGED <<turnCount, rollbackCount>> /\ CallsVisible' <= CallsVisible =>
              /\ stage # "force_final" => Budget' <= Budget
              /\ stage # "force_final" /\ stage' = "force_final" => Budget' < Budget
              /\ CallsVisible' < CallsVisible /\ stage' = "force_final" => Budget' < Budget
<1>1. PICK p \in Nat, q \in Nat : /\ p = (MaxRollbacks + 2) * (MaxTurns - turnCount)
                                  /\ q = (MaxRollbacks + 2) * (MaxTurns - turnCount')
  <2>1. (MaxRollbacks + 2) * (MaxTurns - turnCount) \in Nat
    BY BudgetParts
  <2>2. (MaxRollbacks + 2) * (MaxTurns - turnCount') \in Nat
    <3>1. MaxRollbacks \in Nat /\ MaxTurns \in Nat /\ turnCount' \in Nat /\ turnCount' <= MaxTurns
      BY ConfigAssumption DEF ConfigAssumption, Inv, TypeOK, TurnInv, TurnBudget
    <3>2. MaxTurns - turnCount' \in Nat
      BY <3>1, Difference, Zenon
    <3>3. PICK left \in Nat : left = MaxTurns - turnCount'
      BY <3>2
    <3>4. PICK weight \in Nat : weight = MaxRollbacks + 2
      BY <3>1
    <3>5. weight * left \in Nat
      OBVIOUS
    <3> QED BY <3>3, <3>4, <3>5
  <2> QED BY <2>1, <2>2
<1>2. PICK c \in Nat, d \in Nat : c = CallsVisible /\ d = CallsVisible'
  OBVIOUS
<1>3. PICK f \in 0..1, g \in 0..1 : f = ForcedRoundLeft /\ g = ForcedRoundLeft'
  BY DEF ForcedRoundLeft
<1>4. /\ stage = "force_final" <=> f = 0
      /\ stage' = "force_final" <=> g = 0
  BY <1>3 DEF ForcedRoundLeft
<1>5. /\ MaxRollbacks \in Nat /\ MaxTurns \in Nat /\ turnCount \in Nat
      /\ rollbackCount \in 0..MaxRollbacks /\ rollbackCount' \in 0..MaxRollbacks
  BY ConfigAssumption DEF ConfigAssumption, Inv, TypeOK
<1>6. PICK m \in Nat, r \in Nat, s \in Nat :
        m = MaxRollbacks /\ r = rollbackCount /\ s = rollbackCount' /\ r <= m /\ s <= m
  BY <1>5
<1>7. PICK b, a : b = Budget /\ a = Budget'
  OBVIOUS
<1>8. b = p + (m - r) + c + f
  BY <1>1, <1>2, <1>3, <1>6, <1>7 DEF Budget, ForcedRoundLeft
<1>9. a = q + (m - s) + d + g
  BY <1>1, <1>2, <1>3, <1>6, <1>7 DEF Budget, ForcedRoundLeft
<1>10. turnCount' = turnCount => q = p
  BY <1>1
<1>11. turnCount' = turnCount + 1 => q = p - m - 2
  <2>1. SUFFICES ASSUME turnCount' = turnCount + 1 PROVE q = p - m - 2
    OBVIOUS
  <2>2. PICK left \in Int, weight \in Nat : left = MaxTurns - turnCount /\ weight = MaxRollbacks + 2
    BY <1>5
  <2>3. MaxTurns - turnCount' = left - 1
    BY <1>5, <2>1, <2>2
  <2>4. q = weight * (left - 1) /\ p = weight * left
    BY <1>1, <2>2, <2>3
  <2>5. weight * (left - 1) = weight * left - weight
    OBVIOUS
  <2>6. weight = m + 2
    BY <1>6, <2>2
  <2> QED BY <2>4, <2>5, <2>6
<1>12. b \in Nat /\ a \in Nat
  <2>1. m - r \in Nat /\ m - s \in Nat
    BY <1>6, Difference
  <2> QED BY <1>8, <1>9, <2>1
<1>13. CountedTurn => a < b
  <2>1. SUFFICES ASSUME CountedTurn PROVE a < b
    OBVIOUS
  <2>2. f = 1 /\ q = p - m - 2 /\ d <= c + 1
    BY <1>2, <1>4, <1>11, <2>1 DEF CountedTurn
  <2>3. PICK u \in Nat, w \in Nat : u = m - r /\ w = m - s /\ w <= m
    BY <1>6, Difference
  <2>4. b = p + u + c + 1 /\ a = p - m - 2 + w + d + g
    BY <1>8, <1>9, <2>2, <2>3
  <2> QED BY <2>2, <2>3, <2>4
<1>14. WithdrawnTurn => a < b
  <2>1. SUFFICES ASSUME WithdrawnTurn PROVE a < b
    OBVIOUS
  <2>2. f = 1 /\ q = p /\ d <= c /\ s = r + 1
    BY <1>2, <1>4, <1>6, <1>10, <2>1 DEF WithdrawnTurn
  <2> QED BY <1>4, <1>6, <1>8, <1>9, <2>2
<1>15. ForcedTurn => a <= b
  <2>1. SUFFICES ASSUME ForcedTurn PROVE a <= b
    OBVIOUS
  <2>2. q = p - m - 2 /\ d <= c + 1 /\ s = r
    BY <1>2, <1>6, <1>11, <2>1 DEF ForcedTurn
  <2> QED BY <1>4, <1>6, <1>8, <1>9, <2>2
<1>16. ASSUME UNCHANGED <<turnCount, rollbackCount>>, CallsVisible' <= CallsVisible
       PROVE  /\ f = 1 => a <= b
              /\ f = 1 /\ g = 0 => a < b
              /\ d < c /\ g = 0 => a < b
  <2>1. q = p /\ s = r /\ d <= c
    BY <1>2, <1>6, <1>10, <1>16
  <2> QED BY <1>4, <1>6, <1>8, <1>9, <2>1
<1>17. UNCHANGED <<turnCount, rollbackCount>> /\ CallsVisible' <= CallsVisible =>
         /\ stage # "force_final" => a <= b
         /\ stage # "force_final" /\ stage' = "force_final" => a < b
         /\ CallsVisible' < CallsVisible /\ stage' = "force_final" => a < b
  BY <1>2, <1>4, <1>16
<1> QED BY <1>7, <1>12, <1>13, <1>14, <1>15, <1>17

-----------------------------------------------------------------------------
(***************************************************************************)
(* The refinement.  What its steps rest on besides the runtime's           *)
(* invariant: the system message only ever comes first, so no dropped      *)
(* exchange stops short of its message with calls; and before the run      *)
(* there is no conversation.                                               *)
(***************************************************************************)
NotBegun == phase = "idle" => stage = "not_initialized" /\ visibleConversation = << >>

TaskInv == Inv /\ SystemFirst /\ NotBegun

\* What a step of the run does to the abstract loop.
LoopStep ==
  \/ phase = "idle" /\ phase' = "calling" /\ Budget' <= Budget
  \/ phase = "calling" /\ phase' \in {"calling", "executing", "returned", "escaped"} /\ Budget' < Budget
  \/ phase = "calling" /\ phase' \in {"returned", "escaped"} /\ Budget' <= Budget
  \/ phase = "executing" /\ phase' \in {"calling", "returned", "escaped"} /\ Budget' <= Budget
  \/ UNCHANGED <<phase, Budget>>

LEMMA TaskInitInv == TaskInit => TaskInv /\ CallsVisible \in Nat
<1>1. SUFFICES ASSUME TaskInit PROVE TaskInv /\ CallsVisible \in Nat
  OBVIOUS
<1>2. Inv /\ SystemFirst /\ NotBegun
  <2>1. Inv
    BY <1>1, ConfigAssumption, InitInv DEF TaskInit
  <2>2. visibleConversation = << >> /\ stage = "not_initialized"
    BY <1>1 DEF TaskInit, Init
  <2>3. Len(visibleConversation) = 0
    BY <2>2
  <2> QED BY <2>1, <2>2, <2>3 DEF SystemFirst, NotBegun
<1>3. CallsVisible \in Nat
  BY <1>2, TypeOKParts, CallsCounted DEF Inv, LogsOK, CallsVisible
<1> QED BY <1>2, <1>3 DEF TaskInv

LEMMA CallsVisibleType ==
  ASSUME Inv
  PROVE  CallsVisible \in Nat
BY TypeOKParts, CallsCounted DEF Inv, LogsOK, CallsVisible

LEMMA CallsVisibleTypeNext ==
  ASSUME Inv'
  PROVE  CallsVisible' \in Nat
<1>1. PICK new : new = visibleConversation'
  OBVIOUS
<1>2. new \in Seq(VisibleMessage)
  BY <1>1 DEF Inv, TypeOK
<1>3. CallsVisible' = Cardinality({i \in DOMAIN new : new[i].kind = "calls"})
  BY <1>1 DEF CallsVisible
<1> QED BY <1>2, <1>3, CallsCounted

LEMMA StartTaskStep ==
  ASSUME TaskInv, Inv', StartTask
  PROVE  SystemFirst' /\ NotBegun' /\ LoopStep
<1>1. /\ phase = "idle" /\ phase' = "calling" /\ InitializeConversation /\ stage = "not_initialized"
      /\ visibleConversation = << >> /\ Inv /\ SystemFirst
  BY DEF TaskInv, StartTask, NotBegun
<1>2. UNCHANGED <<turnCount, rollbackCount>>
  BY <1>1 DEF InitializeConversation, counters
<1>3. ASSUME NEW entries \in Seq(VisibleMessage), Logs(entries),
             \A i \in 1..Len(entries) : entries[i].kind # "calls",
             \A i \in 1..Len(entries) : entries[i].kind = "system" => i = 1
      PROVE  SystemFirst' /\ CallsVisible' <= CallsVisible
  <2>1. Len(visibleConversation) = 0
    BY <1>1
  <2>2. \A i \in 1..Len(entries) : entries[i].kind = "system" => Len(visibleConversation) + i = 1
    BY <1>3, <2>1
  <2> QED BY <1>1, <1>3, <2>2, LogsCalls
<1>4. PICK sys, task : sys = SystemMessage /\ task = TaskMessage
  OBVIOUS
<1>5. sys \in VisibleMessage /\ task \in VisibleMessage /\ sys.kind = "system" /\ task.kind = "task"
  BY <1>4 DEF SystemMessage, TaskMessage, Message, VisibleMessage, UserPromptKinds
<1>6. SystemFirst' /\ CallsVisible' <= CallsVisible
  <2>1. CASE SystemPrompt
    <3>1. Logs(<<sys, task>>)
      BY <1>1, <1>4, <2>1, AwaitLogs DEF InitializeConversation
    <3>2. <<sys, task>> \in Seq(VisibleMessage) /\ Len(<<sys, task>>) = 2
          /\ <<sys, task>>[1] = sys /\ <<sys, task>>[2] = task
      BY <1>5
    <3>3. PICK entries : entries = <<sys, task>>
      OBVIOUS
    <3>4. \A i \in 1..Len(entries) : entries[i].kind # "calls" /\ (entries[i].kind = "system" => i = 1)
      BY <1>5, <3>2, <3>3
    <3> QED BY <1>3, <3>1, <3>2, <3>3, <3>4
  <2>2. CASE ~SystemPrompt
    <3>1. Logs(<<task>>)
      BY <1>1, <1>4, <2>2, AwaitLogs DEF InitializeConversation
    <3>2. <<task>> \in Seq(VisibleMessage) /\ Len(<<task>>) = 1 /\ <<task>>[1] = task
      BY <1>5
    <3>3. PICK entries : entries = <<task>>
      OBVIOUS
    <3>4. \A i \in 1..Len(entries) : entries[i].kind # "calls" /\ (entries[i].kind = "system" => i = 1)
      BY <1>5, <3>2, <3>3
    <3> QED BY <1>3, <3>1, <3>2, <3>3, <3>4
  <2> QED BY <2>1, <2>2
<1>7. Budget' <= Budget
  BY <1>1, <1>2, <1>6, CallsVisibleType, CallsVisibleTypeNext, BudgetSpent
<1> QED BY <1>1, <1>6, <1>7 DEF NotBegun, LoopStep

LEMMA AnswerTurnStep ==
  ASSUME TaskInv, Inv', AnswerTurn
  PROVE  SystemFirst' /\ NotBegun' /\ LoopStep
<1>1. phase = "calling" /\ AssistantStep /\ Inv /\ SystemFirst
  BY DEF TaskInv, AnswerTurn
<1>2. \/ raised' /\ phase' = "escaped"
      \/ ~raised' /\ stage' = "await_tools" /\ phase' = "executing"
      \/ ~raised' /\ stage' \in DoneStages /\ phase' = "returned"
      \/ ~raised' /\ stage' \in CallModelStages /\ phase' \in {"calling", "returned"}
  BY DEF AnswerTurn, Escape, Return, Continue
<1>3. SystemFirst' /\ (CountedTurn \/ WithdrawnTurn \/ ForcedTurn)
  BY <1>1, AnswerSpends
<1>4. /\ CountedTurn \/ WithdrawnTurn => Budget' < Budget
      /\ ForcedTurn => Budget' <= Budget
  BY <1>1, CallsVisibleType, CallsVisibleTypeNext, BudgetSpent
<1>5. ForcedTurn => phase' \in {"returned", "escaped"}
  BY <1>2 DEF ForcedTurn, DoneStages, CallModelStages
<1>6. phase' \in {"calling", "executing", "returned", "escaped"}
  BY <1>2
<1> QED BY <1>1, <1>3, <1>4, <1>5, <1>6 DEF NotBegun, LoopStep

LEMMA ToolPhaseStep ==
  ASSUME TaskInv, Inv', ToolPhase
  PROVE  SystemFirst' /\ NotBegun' /\ LoopStep
<1>1. phase = "executing" /\ ToolStep /\ Inv /\ SystemFirst /\ phase' \in {"calling", "returned", "escaped"}
  BY DEF TaskInv, ToolPhase, Escape, Continue
<1>2. /\ SystemFirst' /\ stage = "await_tools" /\ UNCHANGED <<turnCount, rollbackCount>>
      /\ CallsVisible' <= CallsVisible
  BY <1>1, ResultsSpend
<1>3. Budget' <= Budget
  BY <1>1, <1>2, CallsVisibleType, CallsVisibleTypeNext, BudgetSpent
<1> QED BY <1>1, <1>2, <1>3 DEF NotBegun, LoopStep

\* A step that leaves the runtime alone leaves the budget alone.
LEMMA RuntimeAtRest ==
  ASSUME TaskInv, UNCHANGED runtimeVars
  PROVE  SystemFirst' /\ Budget' = Budget /\ stage' = stage /\ visibleConversation' = visibleConversation
BY DEF TaskInv, SystemFirst, runtimeVars, counters, Budget, CallsVisible

LEMMA BudgetOrdered ==
  ASSUME Inv, Inv', Budget' = Budget
  PROVE  Budget' <= Budget
BY CallsVisibleType, CallsVisibleTypeNext, BudgetSpent

LEMMA ErrorTurnStep ==
  ASSUME TaskInv, Inv', ContextLimitError \/ EmptyResponseError \/ OtherModelError \/ CallAfterEnd
  PROVE  SystemFirst' /\ NotBegun' /\ LoopStep
<1>1. phase = "calling" /\ Inv /\ SystemFirst
  BY DEF TaskInv, ContextLimitError, EmptyResponseError, OtherModelError, CallAfterEnd
<1>2. ASSUME UNCHANGED runtimeVars, phase' \in {"returned", "escaped"}
      PROVE  SystemFirst' /\ NotBegun' /\ LoopStep
  BY <1>1, <1>2, RuntimeAtRest, BudgetOrdered DEF NotBegun, LoopStep
<1>3. CASE ContextErrorStep /\ ContextLimitError
  <2>1. /\ SystemFirst' /\ stage # "force_final" /\ UNCHANGED <<turnCount, rollbackCount>>
        /\ CallsVisible' <= CallsVisible
        /\ raised' \/ stage' \in {"force_final", "token_exceed"}
    BY <1>1, <1>3, ContextErrorSpends
  <2>2. Budget' <= Budget /\ (stage' = "force_final" => Budget' < Budget)
    BY <1>1, <2>1, CallsVisibleType, CallsVisibleTypeNext, BudgetSpent
  <2>3. phase' \in {"calling", "returned", "escaped"} /\ (phase' = "calling" => stage' = "force_final")
    <3>1. \/ phase' = "escaped"
          \/ ~raised' /\ stage' \in CallModelStages /\ phase' \in {"calling", "returned"}
          \/ phase' = "returned"
      BY <1>3 DEF ContextLimitError, Escape, Continue, Return
    <3> QED BY <2>1, <3>1 DEF CallModelStages
  <2> QED BY <1>1, <2>1, <2>2, <2>3 DEF NotBegun, LoopStep
<1>4. CASE ContextLimitError /\ UNCHANGED runtimeVars /\ phase' = "returned"
  BY <1>2, <1>4
<1>5. CASE EmptyResponseError
  <2>1. CASE DropLatestExchange("empty_response") /\ Continue
    <3>1. /\ SystemFirst' /\ UNCHANGED <<turnCount, rollbackCount>> /\ stage' = "force_final"
          /\ CallsVisible' < CallsVisible
          /\ CallsVisible \in Nat /\ CallsVisible' \in Nat
      BY <1>1, <2>1, DropSpends
    <3>2. CallsVisible' <= CallsVisible
      BY <3>1
    <3>3. Budget' < Budget
      BY <1>1, <3>1, <3>2, BudgetSpent
    <3>4. phase' \in {"calling", "returned"}
      BY <2>1 DEF Continue
    <3> QED BY <1>1, <3>1, <3>3, <3>4 DEF NotBegun, LoopStep
  <2>2. CASE UNCHANGED runtimeVars /\ phase' = "returned"
    BY <1>2, <2>2
  <2> QED BY <1>5, <2>1, <2>2 DEF EmptyResponseError, Return
<1>6. CASE OtherModelError \/ CallAfterEnd
  BY <1>2, <1>6 DEF OtherModelError, CallAfterEnd, Return, Escape
<1>7. ContextLimitError => ContextErrorStep \/ (UNCHANGED runtimeVars /\ phase' = "returned")
  BY DEF ContextLimitError, Return
<1> QED BY <1>3, <1>4, <1>5, <1>6, <1>7

LEMMA TaskStepSpends ==
  ASSUME TaskInv, Inv', [TaskNext]_taskVars
  PROVE  TaskInv' /\ LoopStep
<1>1. CASE RunEnded \/ UNCHANGED taskVars
  <2>1. UNCHANGED runtimeVars /\ phase' = phase
    BY <1>1 DEF RunEnded, taskVars
  <2> QED BY <2>1, RuntimeAtRest DEF TaskInv, NotBegun, LoopStep
<1>2. CASE TaskStep
  BY <1>2, StartTaskStep, AnswerTurnStep, ToolPhaseStep, ErrorTurnStep DEF TaskStep, ModelErrorTurn, TaskInv
<1> QED BY <1>1, <1>2 DEF TaskNext

LEMMA AbstractStep ==
  ASSUME Inv, Inv', LoopStep
  PROVE  [Loop!Next]_(Loop!loopVars)
<1>1. Budget \in Nat /\ Budget' \in Nat
  BY CallsVisibleType, CallsVisibleTypeNext, BudgetSpent
<1>2. PICK b \in Nat, a \in Nat : b = Budget /\ a = Budget'
  BY <1>1
<1>3. /\ a < b => a \in 0..(b - 1)
      /\ a <= b => a \in 0..b
  OBVIOUS
<1>4. /\ Budget' < Budget => Budget' \in 0..(Budget - 1)
      /\ Budget' <= Budget => Budget' \in 0..Budget
  BY <1>2, <1>3
<1>5. CASE phase = "idle" /\ phase' = "calling" /\ Budget' \in 0..Budget
  BY <1>5 DEF Loop!Next, Loop!Start
<1>6. CASE phase = "calling" /\ phase' \in {"calling", "executing"} /\ Budget' \in 0..(Budget - 1)
  BY <1>6 DEF Loop!Next, Loop!Ask
<1>7. CASE phase = "calling" /\ phase' \in {"returned", "escaped"} /\ Budget' \in 0..Budget
  BY <1>7 DEF Loop!Next, Loop!Finish
<1>8. CASE phase = "executing" /\ phase' \in {"calling", "returned", "escaped"} /\ Budget' \in 0..Budget
  BY <1>8 DEF Loop!Next, Loop!Execute
<1>9. CASE UNCHANGED <<phase, Budget>>
  BY <1>9 DEF Loop!loopVars
<1>10. Budget' < Budget => Budget' <= Budget
  BY <1>1
<1> QED BY <1>4, <1>5, <1>6, <1>7, <1>8, <1>9, <1>10 DEF LoopStep

\* Every run of the orchestrator is a run of the abstract loop: whatever the model, its
\* provider and the tools do, each question uses up part of the budget, each other
\* step leaves it as it is or smaller, and so no run can ask without end.
THEOREM RunsSpendTheirBudget == TaskSpec => Loop!Safety
<1>1. TaskInit => Loop!Init
  <2>1. TaskInit => Budget \in Nat
    BY TaskInitInv, BudgetParts DEF TaskInv
  <2> QED BY <2>1 DEF Loop!Init, TaskInit
<1>2. TaskInit => TaskInv
  BY TaskInitInv
<1>3. TaskInv /\ Inv' /\ [TaskNext]_taskVars => TaskInv' /\ [Loop!Next]_(Loop!loopVars)
  BY TaskStepSpends, AbstractStep DEF TaskInv
<1>4. TaskSpec => []Inv
  BY RuntimeUsedAsSpecified, Invariance, PTL
<1>5. QED
  BY <1>1, <1>2, <1>3, <1>4, PTL DEF TaskSpec, Loop!Safety

-----------------------------------------------------------------------------
(***************************************************************************)
(* The reason a run is reported to have ended for.  An answer that ends    *)
(* the conversation leaves the trigger of a forced round as it is, and no  *)
(* run has a reason before it returns.                                     *)
(***************************************************************************)
NotEndedYet == phase \in {"idle", "calling", "executing"} => reason = NoReason

ReasonInv == NotEndedYet /\ ReasonTrue

\* A conversation that ends with an answer ends for what forced the answer, if anything did.
LEMMA AnswerEnds ==
  ASSUME Inv, AssistantStep, ~raised', stage' \in DoneStages
  PROVE  UNCHANGED finalVars
<1>1. PICK r \in Response, budget \in AfterAssistantBudgets, fits \in WarningFits :
        ApplyAssistantMessage(r, budget, fits)
  BY DEF AssistantStep
<1>2. stage \in CallModelStages
  BY <1>1 DEF ApplyAssistantMessage, TokenExhausted, ForceFinalResponse, TruncatedResponse,
       BudgetAfterAssistant, RequestTools, WithdrawAssistantMessage, RepromptFormatError,
       AskFinalResponse, CompleteNormally, Judged, Accepted, Received
<1>3. <<AssistantMessage(r)>> \in Seq(VisibleMessage) /\ <<stage, "received">> \in Seq(AllStages)
  BY <1>2, ConfigAssumption, AssistantMessageType, ReceivedPath DEF AfterReceived
<1>4. ASSUME NEW entries, NEW hidden, NEW path, Settle(entries, hidden, path)
      PROVE  UNCHANGED finalVars
  BY <1>4 DEF Settle
<1>5. stage' # "force_final"
  BY DEF DoneStages
<1>6. CASE BudgetAfterAssistant(r, budget, fits)
  <2>1. CASE ForceFinalDueToContext(<<AssistantMessage(r)>>, <<stage, "received">>, FALSE, fits)
    <3> DEFINE path == <<stage, "received">>
               hidden == IF FALSE /\ MayRollBackFrom(path[Len(path)])
                           THEN ContextRollbackCount(visibleConversation \o <<AssistantMessage(r)>>, path[Len(path)]) ELSE 0
               reached == IF hidden > 0 THEN Append(path, "context_rollback") ELSE path
    <3>1. hidden = 0 /\ reached = path
      OBVIOUS
    <3>2. IF fits THEN ForceFinal(<<AssistantMessage(r)>>, 0, path, "context_limit")
          ELSE Settle(<<AssistantMessage(r)>>, 0, Append(path, "token_exceed"))
      BY <2>1, <3>1 DEF ForceFinalDueToContext
    <3> HIDE DEF path
    <3>3. ~fits
      BY <1>3, <1>5, <3>2, ForceFinalArrives DEF path
    <3> QED BY <1>4, <3>2, <3>3
  <2> QED BY <1>4, <1>6, <2>1 DEF BudgetAfterAssistant
<1>7. CASE RepromptFormatError(r, budget) \/ AskFinalResponse(r, budget)
  <2>1. PICK next \in {"format_error", "final_prompt"} :
          \E entries, turns : AwaitAssistant(entries, <<stage, "received", next>>, turns)
    <3>1. RepromptFormatError(r, budget) =>
            \E entries, turns : AwaitAssistant(entries, <<stage, "received", "format_error">>, turns)
      BY DEF RepromptFormatError
    <3>2. AskFinalResponse(r, budget) =>
            \E entries, turns : AwaitAssistant(entries, <<stage, "received", "final_prompt">>, turns)
      BY DEF AskFinalResponse
    <3> QED BY <1>7, <3>1, <3>2
  <2>2. <<stage, "received", next>> \in Seq(AllStages)
    BY <1>2, ReceivedPath DEF AfterReceived
  <2>3. stage' \in {"force_final", next}
    BY <2>1, <2>2, AwaitArrives
  <2> QED BY <2>3 DEF DoneStages
<1>8. CASE \/ TokenExhausted(r) \/ ForceFinalResponse(r) \/ TruncatedResponse(r) \/ RequestTools(r, budget)
           \/ WithdrawAssistantMessage(r, budget) \/ CompleteNormally(r, budget)
  BY <1>4, <1>8 DEF TokenExhausted, ForceFinalResponse, TruncatedResponse, RequestTools,
       WithdrawAssistantMessage, CompleteNormally
<1> QED BY <1>1, <1>6, <1>7, <1>8 DEF ApplyAssistantMessage

LEMMA DoneReasons ==
  ASSUME NEW at \in DoneStages, NEW trigger
  PROVE  /\ DoneReason(at, trigger) = "assistant_final_answer" => at = "completed"
         /\ \A t \in {"turn_limit", "tools_exhausted"} : DoneReason(at, trigger) = TerminatedBy(t) => trigger = t
         /\ DoneReason(at, trigger) \notin {NoReason}
<1>1. TerminatedBy("turn_limit") = "terminated_turn_limit" /\ TerminatedBy("tools_exhausted") = "terminated_tools_exhausted"
  BY DEF TerminatedBy
<1>2. /\ TerminatedBy(trigger) \in {"terminated_turn_limit", "terminated_tools_exhausted", "terminated_context_limit",
           "terminated_empty_response", "terminated_force_completed"}
      /\ TerminatedBy(trigger) = "terminated_turn_limit" => trigger = "turn_limit"
      /\ TerminatedBy(trigger) = "terminated_tools_exhausted" => trigger = "tools_exhausted"
  BY DEF TerminatedBy
<1>3. CASE at = "completed"
  BY <1>1, <1>3 DEF DoneReason, NoReason
<1>4. CASE at = "force_completed"
  <2>1. DoneReason(at, trigger) = TerminatedBy(trigger)
    BY <1>4 DEF DoneReason
  <2> QED BY <1>1, <1>2, <2>1 DEF NoReason
<1>5. CASE at = "calls_rejected"
  BY <1>1, <1>5 DEF DoneReason, NoReason
<1>6. CASE at = "token_exceed"
  BY <1>1, <1>6 DEF DoneReason, NoReason
<1> QED BY <1>3, <1>4, <1>5, <1>6 DEF DoneStages

\* The other reasons say nothing of an answer.
OtherReasons == {"terminated_context_limit", "terminated_empty_response", "model_error", SafetyLimit}

LEMMA OtherReasonsSayNothing ==
  ASSUME NEW why \in OtherReasons \cup {NoReason}
  PROVE  why # "assistant_final_answer" /\ \A t \in {"turn_limit", "tools_exhausted"} : why # TerminatedBy(t)
BY DEF OtherReasons, SafetyLimit, NoReason, TerminatedBy

\* A step that leaves the run without an answer.
LEMMA WithoutAnswer ==
  ASSUME reason' \in OtherReasons \/ (reason' = NoReason /\ phase' # "returned"),
         phase' \in {"idle", "calling", "executing"} => reason' = NoReason
  PROVE  ReasonInv'
BY OtherReasonsSayNothing DEF ReasonInv, NotEndedYet, ReasonTrue, OtherReasons

LEMMA ContinueKeepsReason ==
  ASSUME reason = NoReason, Continue
  PROVE  ReasonInv'
<1>1. \/ reason' = SafetyLimit /\ phase' = "returned"
      \/ reason' = NoReason /\ phase' = "calling"
  BY DEF Continue
<1> QED BY <1>1, WithoutAnswer DEF OtherReasons

LEMMA ReasonSteps ==
  ASSUME Inv, ReasonInv, [TaskNext]_taskVars
  PROVE  ReasonInv'
<1>1. phase \in {"idle", "calling", "executing"} => reason = NoReason
  BY DEF ReasonInv, NotEndedYet
<1>2. ASSUME reason = NoReason, Escape
      PROVE  ReasonInv'
  BY <1>2, WithoutAnswer DEF Escape
<1>3. ASSUME NEW why \in OtherReasons, Return(why)
      PROVE  ReasonInv'
  BY <1>3, WithoutAnswer DEF Return
<1>4. CASE StartTask
  <2>1. reason' = NoReason /\ phase' = "calling"
    BY <1>1, <1>4 DEF StartTask
  <2> QED BY <2>1, WithoutAnswer
<1>5. CASE AnswerTurn
  <2>1. reason = NoReason
    BY <1>1, <1>5 DEF AnswerTurn
  <2>2. CASE ~raised' /\ stage' = "await_tools" /\ phase' = "executing" /\ UNCHANGED reason
    BY <2>1, <2>2, WithoutAnswer
  <2>3. CASE ~raised' /\ stage' \in DoneStages /\ Return(DoneReason(stage', finalTrigger))
    <3>1. finalTrigger' = finalTrigger
      BY <1>5, <2>3, AnswerEnds DEF AnswerTurn, finalVars
    <3>2. reason' = DoneReason(stage', finalTrigger') /\ phase' = "returned"
      BY <2>3, <3>1 DEF Return
    <3>3. PICK at \in DoneStages : at = stage'
      BY <2>3
    <3>4. PICK trigger : trigger = finalTrigger'
      OBVIOUS
    <3>5. reason' = DoneReason(at, trigger)
      BY <3>2, <3>3, <3>4
    <3> QED BY <2>3, <3>2, <3>3, <3>4, <3>5, DoneReasons DEF ReasonInv, NotEndedYet, ReasonTrue
  <2> QED BY <1>2, <1>5, <2>1, <2>2, <2>3, ContinueKeepsReason DEF AnswerTurn
<1>6. CASE ToolPhase
  <2>1. reason = NoReason /\ (Escape \/ Continue)
    BY <1>1, <1>6 DEF ToolPhase
  <2> QED BY <1>2, <2>1, ContinueKeepsReason
<1>7. CASE ContextLimitError \/ EmptyResponseError \/ OtherModelError \/ CallAfterEnd
  <2>1. reason = NoReason
    BY <1>1, <1>7 DEF ContextLimitError, EmptyResponseError, OtherModelError, CallAfterEnd
  <2>2. Escape \/ Continue \/ \E why \in OtherReasons : Return(why)
    BY <1>7 DEF ContextLimitError, EmptyResponseError, OtherModelError, CallAfterEnd, OtherReasons
  <2> QED BY <1>2, <1>3, <2>1, <2>2, ContinueKeepsReason
<1>8. CASE RunEnded \/ UNCHANGED taskVars
  BY <1>8 DEF RunEnded, taskVars, runtimeVars, finalVars, ReasonInv, NotEndedYet, ReasonTrue
<1> QED BY <1>4, <1>5, <1>6, <1>7, <1>8 DEF TaskNext, TaskStep, ModelErrorTurn

\* Whatever the model and its provider do, the reason a run returns is true of its
\* conversation: it is reported as answered only if a normal answer was accepted, as
\* forced by the turn limit or by the tools only if that forced it, and a conversation
\* that has not ended is reported by the error, or the limit, that left it there.
THEOREM ReasonsAreTrue == TaskSpec => []ReasonTrue
<1>1. TaskInit => ReasonInv
  <2>1. TaskInit => reason = NoReason /\ phase = "idle"
    BY DEF TaskInit
  <2> QED BY <2>1, OtherReasonsSayNothing DEF ReasonInv, NotEndedYet, ReasonTrue
<1>2. Inv /\ ReasonInv /\ [TaskNext]_taskVars => ReasonInv'
  BY ReasonSteps
<1>3. TaskSpec => []Inv
  BY RuntimeUsedAsSpecified, Invariance, PTL
<1>4. ReasonInv => ReasonTrue
  BY DEF ReasonInv
<1>5. QED
  BY <1>1, <1>2, <1>3, <1>4, PTL DEF TaskSpec

-----------------------------------------------------------------------------
(***************************************************************************)
(* Loop and runtime in every configuration: where tool results end the     *)
(* conversation, they are what the log ends with.                          *)
(***************************************************************************)
TurnsTaken ==
  /\ phase = "calling" => stage \in CallModelStages \/ EndedByResults
  /\ phase = "executing" => stage = "await_tools"

\* Results are what the log ends with, or the marker that hides them.
LEMMA ResultsLogged ==
  ASSUME LogsOK, NEW asked \in Nat \ {0}, NEW results \in ToolResultBatches(asked), NEW hidden \in Nat,
         Log(results, hidden, << >>)
  PROVE  fullConversation'[Len(fullConversation')].kind \in {"tool", "rollback"}
<1>1. PICK full : full = fullConversation
  OBVIOUS
<1>2. PICK n \in Nat : full \in Seq(Entry) /\ n = Len(full)
  BY <1>1 DEF LogsOK
<1>3. PICK k \in Nat \ {0} : k = Len(results)
  BY ResultsOfCalls
<1>4. results \in Seq(VisibleMessage) /\ \A j \in 1..k : results[j].kind = "tool"
  BY <1>3, ResultsOfCalls
<1>5. CASE hidden > 0
  <2>1. PICK marker : marker = RollbackMarker(hidden)
    OBVIOUS
  <2>2. fullConversation' = full \o results \o <<marker>> \o << >>
    BY <1>1, <1>5, <2>1 DEF Log
  <2>3. Len(fullConversation') = n + k + 1 /\ fullConversation'[n + k + 1] = marker
    BY <1>2, <1>3, <1>4, <2>2
  <2> QED BY <2>1, <2>3 DEF RollbackMarker, Message
<1>6. CASE hidden = 0
  <2>1. fullConversation' = full \o results \o << >> \o << >>
    BY <1>1, <1>6 DEF Log
  <2>2. Len(fullConversation') = n + k /\ fullConversation'[n + k] = results[k]
    BY <1>2, <1>3, <1>4, <2>1
  <2> QED BY <1>3, <1>4, <2>2
<1> QED BY <1>5, <1>6

\* Tool results leave a stage that awaits the model, or end the conversation.
LEMMA ResultsGoOnOrEnd ==
  ASSUME ConfigAssumption, Inv, SightInv, ToolStep, ~raised'
  PROVE  stage' \in CallModelStages \/ EndedByResults'
<1>1. PICK results \in ToolResultBatches(pendingCalls), exhausted \in BOOLEAN,
           budget \in BeforeGenerationBudgets, fits \in WarningFits :
        ApplyBatchToolMessages(results, exhausted, budget, fits)
  BY DEF ToolStep
<1> DEFINE path == <<stage, "tool_messages">>
<1>2. stage = "await_tools" /\ pendingCalls' = 0
  BY <1>1 DEF ApplyBatchToolMessages
<1>3. PICK asked \in Nat \ {0} : asked = pendingCalls
  BY <1>2, SightNow DEF SightInv, PendingCallsMatch
<1>4. LogsOK /\ results \in ToolResultBatches(asked)
  BY <1>1, <1>3, SightNow
<1>5. path \in Seq(AllStages) /\ Len(path) = 2 /\ path[2] = "tool_messages"
  <2>1. stage \in AllStages /\ "tool_messages" \in AllStages
    BY <1>2 DEF AllStages, Stages, CallModelStages, ExecuteToolsStages
  <2> QED BY <2>1
<1>6. ASSUME NEW hidden \in Nat, NEW before, Settle(results, hidden, Append(before, "token_exceed")),
             before \in Seq(AllStages)
      PROVE  EndedByResults'
  <2>1. stage' = "token_exceed"
    <3>1. PICK whole : whole = Append(before, "token_exceed")
      OBVIOUS
    <3>2. whole[Len(whole)] = "token_exceed"
      BY <1>6, <3>1
    <3>3. stage' = whole[Len(whole)]
      BY <1>6, <3>1, SettleArrives
    <3> QED BY <3>2, <3>3
  <2>2. Log(results, hidden, << >>)
    BY <1>6 DEF Settle
  <2> QED BY <1>2, <1>4, <2>1, <2>2, ResultsLogged DEF EndedByResults
<1>7. \/ ForceFinal(results, 0, path, "tools_exhausted")
      \/ Settle(results, 0, Append(path, "token_exceed"))
      \/ ForceFinalDueToContext(results, path, TRUE, fits)
      \/ AwaitAssistant(results, path, turnCount)
  BY <1>1 DEF ApplyBatchToolMessages
<1> HIDE DEF path
<1>8. CASE ForceFinal(results, 0, path, "tools_exhausted")
  BY <1>5, <1>8, ForceFinalArrives DEF CallModelStages
<1>9. CASE Settle(results, 0, Append(path, "token_exceed"))
  BY <1>5, <1>6, <1>9
<1>10. CASE AwaitAssistant(results, path, turnCount)
  BY <1>5, <1>10, AwaitArrives DEF CallModelStages
<1>11. CASE ForceFinalDueToContext(results, path, TRUE, fits)
  <2> DEFINE at == path[Len(path)]
             hidden == IF TRUE /\ MayRollBackFrom(at)
                         THEN ContextRollbackCount(visibleConversation \o results, at) ELSE 0
             reached == IF hidden > 0 THEN Append(path, "context_rollback") ELSE path
  <2>1. IF fits THEN ForceFinal(results, hidden, reached, "context_limit")
                ELSE Settle(results, hidden, Append(reached, "token_exceed"))
    BY <1>11 DEF ForceFinalDueToContext
  <2>2. reached \in Seq(AllStages)
    <3>1. "context_rollback" \in AllStages
      BY DEF AllStages, InternalStages
    <3>2. Append(path, "context_rollback") \in Seq(AllStages)
      BY <1>5, <3>1
    <3> QED BY <1>5, <3>2
  <2>3. hidden \in Nat
    <3>1. visibleConversation \o results \in Seq(VisibleMessage)
      BY <1>4, ResultsOfCalls DEF LogsOK
    <3> QED BY <3>1, ContextRollbackCountType
  <2> HIDE DEF hidden, reached
  <2>4. CASE fits
    BY <2>1, <2>2, <2>4, ForceFinalArrives DEF CallModelStages
  <2>5. CASE ~fits
    BY <1>6, <2>1, <2>2, <2>3, <2>5
  <2> QED BY <2>4, <2>5
<1> QED BY <1>7, <1>8, <1>9, <1>10, <1>11

LEMMA TurnsTakenStep ==
  ASSUME ConfigAssumption, Inv, SightInv, TurnsTaken, [TaskNext]_taskVars
  PROVE  TurnsTaken'
<1>1. CASE StartTask
  BY <1>1, StartInStep DEF InStep, TurnsTaken
<1>2. CASE AnswerTurn
  BY <1>2 DEF AnswerTurn, Escape, Return, Continue, TurnsTaken
<1>3. CASE ToolPhase
  <2>1. CASE raised'
    BY <1>3, <2>1 DEF ToolPhase, Escape, TurnsTaken
  <2>2. CASE ~raised'
    BY <1>3, <2>2, ResultsGoOnOrEnd DEF ToolPhase, Continue, TurnsTaken
  <2> QED BY <2>1, <2>2
<1>4. CASE ContextLimitError
  BY <1>4 DEF ContextLimitError, Escape, Continue, Return, TurnsTaken
<1>5. CASE EmptyResponseError
  <2>1. \/ stage' = "force_final" /\ Continue
        \/ Return("terminated_empty_response")
    BY <1>5, DropReachesForceFinal DEF EmptyResponseError
  <2> QED BY <2>1 DEF Continue, Return, TurnsTaken, CallModelStages
<1>6. CASE OtherModelError \/ CallAfterEnd
  BY <1>6 DEF OtherModelError, CallAfterEnd, Return, Escape, TurnsTaken
<1>7. CASE RunEnded \/ UNCHANGED taskVars
  BY <1>7 DEF RunEnded, taskVars, runtimeVars, counters, TurnsTaken, EndedByResults
<1> QED BY <1>1, <1>2, <1>3, <1>4, <1>5, <1>6, <1>7 DEF TaskNext, TaskStep, ModelErrorTurn

\* In every configuration the loop asks the model where it is awaited, or where tool results
\* have just ended the conversation without the loop being told; it runs tools for the calls
\* that are pending, and in the end it tells the true reason.
THEOREM LoopAlwaysInStep == TaskSpec => []LoopInStep
<1>1. TaskInit => TurnsTaken
  BY DEF TaskInit, TurnsTaken
<1>2. Inv /\ SightInv /\ TurnsTaken /\ [TaskNext]_taskVars => TurnsTaken'
  BY ConfigAssumption, TurnsTakenStep
<1>3. TaskSpec => [](Inv /\ SightInv)
  BY RuntimeUsedAsSpecified, SightHolds, PTL
<1>4. Inv /\ SightInv /\ TurnsTaken /\ ReasonTrue => LoopInStep
  BY SightNow DEF TurnsTaken, LoopInStep, SightInv, PendingCallsMatch
<1>5. QED
  BY <1>1, <1>2, <1>3, <1>4, ReasonsAreTrue, PTL DEF TaskSpec
=============================================================================
