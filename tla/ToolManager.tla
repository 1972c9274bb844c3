---------------------------- MODULE ToolManager ----------------------------
(***************************************************************************)
(* The tool manager of one task (agentic/tools/manager.py, class           *)
(* ToolManager): it executes the calls of one assistant message, a round,  *)
(* one after another under four limits, and keeps the counters that decide *)
(* when no tool can be called any more.  The arguments of a call are those *)
(* left by argument repair.                                                *)
(***************************************************************************)
EXTENDS Integers, Sequences, FiniteSets, FiniteSetsExt

CONSTANTS
  Tools,          \* the registered tools
  UnknownTool,    \* stands for any other name a model may ask for
  Args,           \* argument values
  ValidArgs,      \* those the tools' schemas accept
  NoLimit,        \* an absent limit
  None,           \* no arguments recorded, no snapshot taken
  MaxPerStep,     \* config.max_tool_calls_per_step
  MaxPerTask,     \* config.max_tool_calls_per_task
  MaxPerTool,     \* effective max_calls_per_task of each tool
  MaxConsecutive, \* effective max_consecutive_calls_with_same_args of each tool
  MaxBatch,       \* bound: the most calls in one assistant message
  MaxRequests     \* bound: the most calls in one task

IsLimit(limit) == limit = NoLimit \/ limit \in Nat \ {0}

ASSUME ToolAssumption ==
  /\ IsFiniteSet(Tools) /\ UnknownTool \notin Tools
  /\ ValidArgs \subseteq Args /\ None \notin Args
  /\ NoLimit \notin Nat
  /\ IsLimit(MaxPerStep) /\ IsLimit(MaxPerTask)
  /\ \A t \in Tools : IsLimit(MaxPerTool[t]) /\ IsLimit(MaxConsecutive[t])
  /\ MaxBatch \in Nat /\ MaxRequests \in Nat

VARIABLES
  callCounts, \* self._task_call_counts
  totalCalls, \* self._task_total_calls
  lastArgs,   \* self._prev_round_args: arguments of the last success, of the previous round
  lastRepeat, \* self._prev_round_args: for how many rounds in a row (0: no entry)
  requested,  \* self._metrics: num_requested, of "__unknown__" too
  became,     \* self._metrics: num_success, num_failed and num_rejected
  inRound,    \* execute_tool_calls is running
  requests,   \* its requests not yet handled
  stepCount,  \* its step_count
  roundArgs,  \* its current_round_args
  saved       \* the last snapshot_task_state, or none

counts == <<callCounts, totalCalls>>
previous == <<lastArgs, lastRepeat>>
metrics == <<requested, became>>
roundVars == <<inRound, requests, stepCount, roundArgs>>
toolVars == <<counts, previous, metrics, roundVars, saved>>

Names == Tools \cup {UnknownTool}
Request == [tool : Names, args : Args]
Outcomes == {"success", "failed", "rejected"}

Reached(n, limit) == limit # NoLimit /\ n >= limit

-----------------------------------------------------------------------------
(***************************************************************************)
(* Executing one request.                                                  *)
(***************************************************************************)
Current == requests[1]

\* The metrics of a request: that it was made, and what became of it.
Count(name, outcome) ==
  /\ requested' = [requested EXCEPT ![name] = @ + 1]
  /\ became' = [became EXCEPT ![name][outcome] = @ + 1]

StepLimitReached == Reached(stepCount, MaxPerStep)

TaskBudgetReached == Reached(totalCalls, MaxPerTask)

ToolBudgetReached(t) == Reached(callCounts[t], MaxPerTool[t])

\* Defect: one round too many is let through.
RepeatsFarTooOften(t, args) ==
  lastRepeat[t] > 1 /\ lastArgs[t] = args /\ Reached(lastRepeat[t] - 1, MaxConsecutive[t])

RepeatsTooOften(t, args) ==
  lastRepeat[t] > 0 /\ lastArgs[t] = args /\ Reached(lastRepeat[t], MaxConsecutive[t])

\* Defect: the shared budget is not asked.
AllowedPastTaskBudget(r) ==
  /\ r.tool \in Tools
  /\ ~StepLimitReached /\ ~ToolBudgetReached(r.tool)
  /\ ~RepeatsTooOften(r.tool, r.args)

\* The request is for a known tool and passes the four limits.
Allowed(r) ==
  /\ r.tool \in Tools
  /\ ~StepLimitReached /\ ~TaskBudgetReached /\ ~ToolBudgetReached(r.tool)
  /\ ~RepeatsTooOften(r.tool, r.args)

NextRequest == inRound /\ requests # << >> /\ requests' = Tail(requests)

\* Any limit, or an unknown tool: nothing runs and no budget is used.
RejectCall ==
  /\ NextRequest /\ ~Allowed(Current)
  /\ Count(Current.tool, "rejected")
  /\ UNCHANGED <<counts, previous, inRound, stepCount, roundArgs, saved>>

\* The arguments break the schema, or the tool raises: counted in the step only.
FailCall ==
  /\ NextRequest /\ Allowed(Current)
  /\ Count(Current.tool, "failed")
  /\ stepCount' = stepCount + 1
  /\ UNCHANGED <<counts, previous, inRound, roundArgs, saved>>

\* The tool returns a result, which may itself say that it failed.
RunCall(succeeds) ==
  /\ NextRequest /\ Allowed(Current) /\ Current.args \in ValidArgs
  /\ Count(Current.tool, IF succeeds THEN "success" ELSE "failed")
  /\ callCounts' = [callCounts EXCEPT ![Current.tool] = @ + 1]
  /\ totalCalls' = totalCalls + 1
  /\ stepCount' = stepCount + 1
  /\ roundArgs' = IF succeeds THEN [roundArgs EXCEPT ![Current.tool] = Current.args] ELSE roundArgs
  /\ UNCHANGED <<previous, inRound, saved>>

-----------------------------------------------------------------------------
(***************************************************************************)
(* Rounds and tasks.                                                       *)
(***************************************************************************)
SumOf(f) == MapThenSumSet(LAMBDA x : f[x], DOMAIN f)

StartRound(batch) ==
  /\ ~inRound /\ batch # << >> /\ SumOf(requested) + Len(batch) <= MaxRequests
  /\ inRound' = TRUE
  /\ requests' = batch
  /\ UNCHANGED <<counts, previous, metrics, stepCount, roundArgs, saved>>

\* The tools that succeeded this round replace those of the previous one, and the
\* locals of the round go with it.
EndRound ==
  /\ inRound /\ requests = << >>
  /\ inRound' = FALSE
  /\ lastArgs' = roundArgs
  /\ lastRepeat' = [t \in Tools |->
       CASE roundArgs[t] = None -> 0
         [] roundArgs[t] # None /\ lastRepeat[t] > 0 /\ lastArgs[t] = roundArgs[t] -> lastRepeat[t] + 1
         [] OTHER -> 1]
  /\ stepCount' = 0
  /\ roundArgs' = [t \in Tools |-> None]
  /\ UNCHANGED <<counts, metrics, requests, saved>>

\* record_rejection: a call rejected before it reached the manager.
RecordRejection(name) ==
  /\ ~inRound /\ SumOf(requested) < MaxRequests
  /\ Count(name, "rejected")
  /\ UNCHANGED <<counts, previous, roundVars, saved>>

NoMetrics ==
  /\ requested' = [n \in Names |-> 0]
  /\ became' = [n \in Names |-> [o \in Outcomes |-> 0]]

\* reset_task_state, at the start of a task.
ResetTaskState ==
  /\ ~inRound
  /\ callCounts' = [t \in Tools |-> 0]
  /\ totalCalls' = 0
  /\ lastArgs' = [t \in Tools |-> None]
  /\ lastRepeat' = [t \in Tools |-> 0]
  /\ NoMetrics
  /\ UNCHANGED <<roundVars, saved>>

\* snapshot_task_state
SnapshotTaskState ==
  /\ ~inRound
  /\ saved' = [callCounts |-> callCounts, totalCalls |-> totalCalls, lastArgs |-> lastArgs,
               lastRepeat |-> lastRepeat, requested |-> requested, became |-> became]
  /\ UNCHANGED <<counts, previous, metrics, roundVars>>

\* restore_task_state: every copy is taken anew, so a snapshot can be restored again.
RestoreTaskState ==
  /\ ~inRound /\ saved # None
  /\ callCounts' = saved.callCounts
  /\ totalCalls' = saved.totalCalls
  /\ lastArgs' = saved.lastArgs
  /\ lastRepeat' = saved.lastRepeat
  /\ requested' = saved.requested
  /\ became' = saved.became
  /\ UNCHANGED <<roundVars, saved>>

Init ==
  /\ callCounts = [t \in Tools |-> 0]
  /\ totalCalls = 0
  /\ lastArgs = [t \in Tools |-> None]
  /\ lastRepeat = [t \in Tools |-> 0]
  /\ requested = [n \in Names |-> 0]
  /\ became = [n \in Names |-> [o \in Outcomes |-> 0]]
  /\ inRound = FALSE
  /\ requests = << >>
  /\ stepCount = 0
  /\ roundArgs = [t \in Tools |-> None]
  /\ saved = None

\* all_tools_exhausted, read by the orchestrator after each round.
AllToolsExhausted == TaskBudgetReached \/ (Tools # {} /\ \A t \in Tools : ToolBudgetReached(t))

ExecuteRequest == RejectCall \/ FailCall \/ \E succeeds \in BOOLEAN : RunCall(succeeds)

Next ==
  \/ \E n \in 1..MaxBatch : \E batch \in [1..n -> Request] : StartRound(batch)
  \/ ExecuteRequest
  \/ EndRound
  \/ \E name \in Names : RecordRejection(name)
  \/ ResetTaskState
  \/ SnapshotTaskState
  \/ RestoreTaskState

Spec == Init /\ [][Next]_toolVars

-----------------------------------------------------------------------------
(***************************************************************************)
(* Properties.                                                             *)
(***************************************************************************)
Snapshot == [callCounts : [Tools -> Nat], totalCalls : Nat, lastArgs : [Tools -> Args \cup {None}],
             lastRepeat : [Tools -> Nat], requested : [Names -> Nat], became : [Names -> [Outcomes -> Nat]]]

TypeOK ==
  /\ callCounts \in [Tools -> Nat]
  /\ totalCalls \in Nat
  /\ lastArgs \in [Tools -> Args \cup {None}]
  /\ lastRepeat \in [Tools -> Nat]
  /\ requested \in [Names -> Nat]
  /\ became \in [Names -> [Outcomes -> Nat]]
  /\ inRound \in BOOLEAN
  /\ requests \in Seq(Request)
  /\ stepCount \in Nat
  /\ roundArgs \in [Tools -> Args \cup {None}]
  /\ saved = None \/ saved \in Snapshot

\* Every request is accounted for exactly once, whichever way it ends.
Accounting ==
  \A n \in Names : requested[n] = became[n]["success"] + became[n]["failed"] + became[n]["rejected"]

Within(n, limit) == limit = NoLimit \/ n <= limit

\* The step, task and tool budgets hold at every moment, also after the snapshot of an
\* earlier attempt is restored, whatever mix of failures and rejections came before.
BudgetsRespected ==
  /\ Within(stepCount, MaxPerStep)
  /\ Within(totalCalls, MaxPerTask)
  /\ \A t \in Tools : Within(callCounts[t], MaxPerTool[t])

\* No tool has been called with the same last arguments in more rounds in a row than
\* its limit, however its rounds were mixed with other arguments and rejections.
RepeatsBounded ==
  \A t \in Tools :
    /\ Within(lastRepeat[t], MaxConsecutive[t])
    /\ lastRepeat[t] = 0 <=> lastArgs[t] = None

\* The four limits, which the code checks in two functions against counters that
\* rejections, failures, rollbacks and restored snapshots all move.
LimitsRespected == BudgetsRespected /\ RepeatsBounded

\* Once the manager reports that all tools are exhausted, which the orchestrator asks
\* when a round is over, no call of that round could still have run, and none will
\* before the task is reset or restored.
ExhaustionFinal ==
  [][AllToolsExhausted /\ (inRound \/ inRound') => AllToolsExhausted' /\ UNCHANGED counts]_toolVars
=============================================================================
