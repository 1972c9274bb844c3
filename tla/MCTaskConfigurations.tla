------------------------- MODULE MCTaskConfigurations -------------------------
(***************************************************************************)
(* A task and the calls to its model endpoint, one after the other: calls  *)
(* of the model client until all have ended or the process has; then, from *)
(* a client at rest, the task loop, either as the cfg configures it or     *)
(* with a minimum generation budget and a safety limit low enough to be    *)
(* reached.  The errors the loop is given are those the calls may raise.   *)
(***************************************************************************)
EXTENDS MCTaskOrchestrator, ModelClient

Budgeted ==
  INSTANCE TaskOrchestrator WITH FormatStrategy <- "reprompt", MinTokens <- TRUE, LoopLimit <- 4

VARIABLE subject \* "calls", "base" or "budget"

mcVars == <<subject, taskVars, clientVars>>

MCInit == subject = "calls" /\ ClientInit /\ TaskInit

CallStep == subject = "calls" /\ ClientNext /\ UNCHANGED <<subject, taskVars>>

CallsOver == exited \/ \A c \in Callers : calls[c].at \in {"returned", "raised"}

TakeUpTask ==
  /\ subject = "calls" /\ CallsOver
  /\ subject' \in {"base", "budget"}
  /\ exited' = FALSE /\ window' = NoWindow /\ quiet' = 0
  /\ calls' = [c \in Callers |-> [NewCall(1) EXCEPT !.at = "returned"]]
  /\ UNCHANGED taskVars

LoopStep ==
  /\ \/ subject = "base" /\ TaskStep
     \/ subject = "budget" /\ Budgeted!TaskStep
  /\ UNCHANGED <<subject, clientVars>>

LoopOver == RunEnded /\ UNCHANGED <<subject, clientVars>>

MCNext == CallStep \/ TakeUpTask \/ LoopStep \/ LoopOver

MCSpec == MCInit /\ [][MCNext]_mcVars /\ ClientFairness /\ WF_mcVars(TakeUpTask) /\ WF_mcVars(LoopStep)

\* Whatever the endpoint answers, and although the successes of other calls keep closing the
\* window, the calls end or the process does (RetryingModelClient.acomplete_raw); then the
\* loop returns for a reason of its own, except where its safety limit is set so low that it
\* may be reached or errors may escape (TaskOrchestrator.run).
EverythingEnds ==
  <>[](/\ subject # "calls"
       /\ subject = "base" => phase = "returned" /\ reason # SafetyLimit)
=============================================================================
