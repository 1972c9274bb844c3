--------------------------- MODULE WebSearchRetry ---------------------------
(***************************************************************************)
(* How the web-search orchestrator turns attempts into an answer           *)
(* (recipe/web_search/agent/orchestrator.py): run, which retries until an  *)
(* attempt gives a boxed answer, run_attempt_budget_sweep, which answers   *)
(* for every budget of attempts from one series of attempts, and           *)
(* _maybe_apply_self_verification, which checks an answer and may replace  *)
(* it before it is returned.                                               *)
(*                                                                         *)
(* An attempt is the outcome WebSearchAttempt leaves: why it ended, the    *)
(* boxed answer of its last message if any, and the latest boxed answer    *)
(* seen in it.  In a sweep a non-final attempt that was cut short is also  *)
(* continued on a branch, as if it had been the last one.                  *)
(***************************************************************************)
EXTENDS Integers, FiniteSets

CONSTANTS
  Answers,           \* boxed answers
  MaxAttempts,       \* max_task_retries + 1
  NoBoxCap,          \* retry_no_box_turn_limit_cap, 0 when disabled
  MaxReanswers       \* self_verification_max_reanswer_attempts

ASSUME RetryAssumption ==
  /\ MaxAttempts \in Nat \ {0} /\ NoBoxCap \in Nat /\ MaxReanswers \in Nat
  /\ {"format_error", "no_answer", "unset"} \cap Answers = {}

VARIABLES
  options,    \* sweep: run_attempt_budget_sweep instead of run; verifies: self-verification;
              \* summarizes: context compression; asksAgain: max_final_answer_attempts > 1
  phase,      \* "attempt", "prepare", "finalize", "verify", "reanswer", "advance" or "returned"
  attempt,    \* the attempt, from 1
  result,     \* its outcome, as prepared so far
  branched,   \* whether it was also continued on a final branch
  boxed,      \* the latest of _intermediate_boxed_answers
  summary,    \* the answer the compression manager's summary would rescue
  ownSummary, \* history: the same, had only the attempts themselves renewed it
  settled,    \* the attempt gave an answer, or was the last one
  noBox,      \* consecutive attempts at the turn limit without an answer
  goal,       \* the budgets the result being verified is for
  check,      \* self-verification: answer, used, passed
  submitted,  \* per budget, the answer before verification
  returned,   \* per budget, the answer returned
  plain       \* history: what run would have submitted, given the same attempts

retryVars == <<options, phase, attempt, result, branched, boxed, summary, ownSummary, settled,
               noBox, goal, check, submitted, returned, plain>>

FormatError == "format_error"   \* FORMAT_ERROR_MESSAGE, and the empty output
NoAnswer == "no_answer"
NoOutcome == [reason |-> "none", output |-> FormatError, boxed |-> NoAnswer, recovered |-> FALSE]
Unset == "unset"
Valid(output) == output \in Answers
Budgets == 1..MaxAttempts
IsFinal == attempt = MaxAttempts

\* What an attempt may end for.  "prompted" stands for the other final rounds a limit
\* forced (context, tools, rejected calls), "cut" for a truncated reply, "other" for
\* an answer given freely, a spent query budget or an error.
Reasons == {"turn_limit", "prompted", "cut", "other"}

\* extract_final_output reads the last assistant message, the boxed list all of them.
OutputIsLatest(o) == Valid(o.output) => o.boxed = o.output

Outcomes ==
  {o \in [reason : Reasons, output : Answers \cup {FormatError}, boxed : Answers \cup {NoAnswer}, recovered : BOOLEAN] :
     /\ OutputIsLatest(o)
     /\ o.reason = "cut" => ~Valid(o.output)
     /\ o.recovered => o.reason \in {"prompted", "cut"}}

\* A branch runs when a final round was skipped or a generation limit was met.
MayBranch(o) == options.sweep /\ ~IsFinal /\ (o.reason # "other" \/ o.recovered)

-----------------------------------------------------------------------------
(***************************************************************************)
(* _fallback_answer_from_compression_state: the candidate of the last      *)
(* summary that is put forward when an attempt ends without an answer.     *)
(***************************************************************************)

\* An item of answer_attempts; without an answer it is as good as absent.
Candidates ==
  [answer : Answers \cup {NoAnswer}, wrongTarget : BOOLEAN, confidence : 0..1, support : 0..1,
   decision : {"ready_if_verified", "needs_verification", "not_answered", "rejected"}]

\* Only one that evidence or a decision supports.
Vetted(c) ==
  /\ c.answer # NoAnswer /\ ~c.wrongTarget
  /\ c.decision \in {"ready_if_verified", "needs_verification"} \/ (c.decision = "not_answered" /\ c.support > 0)

DecisionRank(c) == CASE c.decision = "ready_if_verified" -> 3 [] c.decision = "needs_verification" -> 2 [] OTHER -> 0

Outranks(c, d) ==
  \/ DecisionRank(c) > DecisionRank(d)
  \/ DecisionRank(c) = DecisionRank(d) /\ c.confidence > d.confidence
  \/ DecisionRank(c) = DecisionRank(d) /\ c.confidence = d.confidence /\ c.support > d.support

\* Of equal candidates the first one.
Rescued(first, second) ==
  CASE Vetted(second) /\ (Vetted(first) => Outranks(second, first)) -> second.answer
    [] Vetted(first) /\ (Vetted(second) => ~Outranks(second, first)) -> first.answer
    [] OTHER -> NoAnswer

RescuedAnswers == {Rescued(c[1], c[2]) : c \in Candidates \X Candidates}

\* What compression may leave as the answer to rescue; the manager keeps its summary
\* from attempt to attempt, through branches and verifications.
Renewals(old) == IF options.summarizes THEN RescuedAnswers \cup {old} ELSE {old}

-----------------------------------------------------------------------------
RetryInit ==
  /\ options \in [sweep : BOOLEAN, verifies : BOOLEAN, summarizes : BOOLEAN, asksAgain : BOOLEAN]
  /\ phase = "attempt" /\ attempt = 1
  /\ result = NoOutcome /\ branched = FALSE
  /\ boxed = NoAnswer /\ summary = NoAnswer /\ ownSummary = NoAnswer
  /\ settled = FALSE /\ noBox = 0
  /\ goal = {}
  /\ check = [answer |-> NoAnswer, used |-> 0, passed |-> FALSE]
  /\ submitted = [b \in Budgets |-> Unset]
  /\ returned = [b \in Budgets |-> Unset]
  /\ plain = Unset

resultVars == <<goal, check, submitted, returned>>

\* _run_single_attempt between begin_task and end_task.  The state of the attempt is
\* its own, and restored after a branch; the summary of the manager is neither.
RunAttempt ==
  /\ phase = "attempt"
  /\ \E o \in Outcomes, renewed \in Renewals(summary) :
       \E b \in IF MayBranch(o) THEN BOOLEAN ELSE {FALSE} :
         /\ result' = o
         /\ boxed' = o.boxed
         /\ branched' = b
         /\ ownSummary' = IF renewed # summary THEN renewed ELSE ownSummary
         /\ summary' \in IF b THEN Renewals(renewed) ELSE {renewed}
  /\ phase' = "prepare"
  /\ UNCHANGED <<options, attempt, settled, noBox, plain, resultVars>>

-----------------------------------------------------------------------------
(***************************************************************************)
(* _prepare_retry_attempt_output and what follows it.                      *)
(***************************************************************************)

\* A guess a limit forced is not accepted while a retry is left.
Rejected(o, final) ==
  /\ MaxAttempts > 1 /\ ~final
  /\ \/ o.reason = "turn_limit"
     \/ o.reason \in {"prompted"} /\ ~o.recovered

\* _retry_final_answer: the final question is put again, without tools.
FinalRetries(o, final) ==
  IF final /\ ~Valid(o.output) /\ options.asksAgain THEN Answers \cup {o.output} ELSE {o.output}

PreparedOutputs(o, final) == IF Rejected(o, final) THEN {FormatError} ELSE FinalRetries(o, final)

\* _return_final_attempt_result: the latest boxed answer, else the summary's candidate.
Fallback(output, fromSummary) ==
  IF Valid(output) THEN output
  ELSE IF Valid(boxed) THEN boxed
  ELSE IF Valid(fromSummary) THEN fromSummary ELSE output

\* _next_no_box_turn_limit_attempt_count and _should_block_retry_for_no_box_turn_limit
NextNoBox(o, output) == IF o.reason = "turn_limit" /\ ~Valid(output) THEN noBox + 1 ELSE 0
Capped(count) == ~IsFinal /\ NoBoxCap > 0 /\ count >= NoBoxCap

\* What run submits on this outcome, if it does.
RunAnswer(output, count) ==
  IF Valid(output) THEN output
  ELSE IF IsFinal THEN Fallback(output, ownSummary)
  ELSE IF Capped(count) THEN result.output ELSE plain

\* Answers for the budgets bs: valid ones go through self-verification first.
Submit(output, bs) ==
  /\ submitted' = [b \in Budgets |-> IF b \in bs THEN output ELSE submitted[b]]
  /\ goal' = bs
  /\ IF options.verifies /\ Valid(output)
       THEN /\ phase' = "verify"
            /\ check' = [answer |-> output, used |-> 0, passed |-> FALSE]
            /\ UNCHANGED returned
       ELSE /\ phase' = "advance"
            /\ check' = [answer |-> output, used |-> 0, passed |-> FALSE]
            /\ returned' = [b \in Budgets |-> IF b \in bs THEN output ELSE returned[b]]

\* Answers that are returned as they are.
Return(output, bs) ==
  /\ submitted' = [b \in Budgets |-> IF b \in bs THEN output ELSE submitted[b]]
  /\ returned' = [b \in Budgets |-> IF b \in bs THEN output ELSE returned[b]]
  /\ goal' = bs
  /\ phase' = "returned"
  /\ UNCHANGED check

\* The budgets a valid answer of this attempt is the answer for.
\* Defect: the budgets above this attempt are left out.
BudgetsServedHereOnly == IF options.sweep THEN {attempt} ELSE {MaxAttempts}

BudgetsServed == IF options.sweep THEN attempt..MaxAttempts ELSE {MaxAttempts}

NextAttempt ==
  /\ phase' = "attempt"
  /\ attempt' = attempt + 1
  /\ result' = NoOutcome /\ boxed' = NoAnswer /\ branched' = FALSE   \* _reset_attempt_state

Stay(o) == result' = o /\ UNCHANGED <<attempt, boxed, branched>>

\* The loop of run, from the preparation of the outcome to its decision.
Prepare ==
  /\ phase = "prepare"
  /\ \E output \in PreparedOutputs(result, IsFinal) :
       LET count == NextNoBox(result, output)
           here == IF Rejected(result, IsFinal) THEN result ELSE [result EXCEPT !.output = output]
       IN  /\ settled' = (Valid(output) \/ IsFinal)
           /\ noBox' = count
           /\ plain' = RunAnswer(output, count)
           /\ \/ /\ Valid(output)
                 /\ Submit(output, BudgetsServed)
                 /\ Stay(here)
              \/ /\ ~Valid(output) /\ options.sweep
                 /\ phase' = "finalize"
                 /\ Stay(here)
                 /\ UNCHANGED resultVars
              \/ /\ ~Valid(output) /\ ~options.sweep /\ IsFinal
                 /\ Submit(Fallback(output, summary), {MaxAttempts})
                 /\ Stay(here)
              \/ /\ ~Valid(output) /\ ~options.sweep /\ Capped(count)
                 /\ Return(result.output, {MaxAttempts})
                 /\ Stay(here)
              \/ /\ ~Valid(output) /\ ~options.sweep /\ ~IsFinal /\ ~Capped(count)
                 /\ NextAttempt
                 /\ UNCHANGED resultVars
  /\ UNCHANGED <<options, summary, ownSummary>>

\* _finalize_attempt_budget_result: the answer had this attempt been the last one, from
\* its branch if there is one.
FinalSources == IF branched THEN Outcomes ELSE {result}

FinalizeFrom(source, output) ==
  /\ phase = "finalize"
  /\ Submit(Fallback(output, summary), {attempt})
  /\ UNCHANGED <<options, attempt, result, branched, boxed, summary, ownSummary, settled, noBox, plain>>

FinalizeBudget ==
  \E source \in FinalSources : \E output \in PreparedOutputs(source, TRUE) : FinalizeFrom(source, output)

\* After an answer has been submitted: the end, the cap for the budgets left, or the
\* next attempt of a sweep.
Advance ==
  /\ phase = "advance"
  /\ \/ /\ settled
        /\ phase' = "returned"
        /\ Stay(result)
        /\ UNCHANGED resultVars
     \/ /\ ~settled /\ Capped(noBox)
        /\ Return(result.output, (attempt + 1)..MaxAttempts)
        /\ Stay(result)
     \/ /\ ~settled /\ ~Capped(noBox)
        /\ NextAttempt
        /\ UNCHANGED resultVars
  /\ UNCHANGED <<options, summary, ownSummary, settled, noBox, plain>>

-----------------------------------------------------------------------------
(***************************************************************************)
(* _maybe_apply_self_verification.                                         *)
(***************************************************************************)
Conclude(answer, used, passed) ==
  /\ check' = [answer |-> answer, used |-> used, passed |-> passed]
  /\ returned' = [b \in Budgets |-> IF b \in goal THEN answer ELSE returned[b]]
  /\ phase' = "advance"

Continue(answer, used, next) ==
  /\ check' = [answer |-> answer, used |-> used, passed |-> FALSE]
  /\ phase' = next
  /\ UNCHANGED returned

\* An auxiliary attempt restores the state of the attempt, not the manager's summary.
auxiliaryUnchanged == <<options, attempt, result, branched, boxed, ownSummary, settled, noBox, goal, submitted,
                        plain>>

\* What the parser makes of a reply: a JSON object is taken by its verdict field alone;
\* in other text the first object with a verdict counts, then what is said in words, if
\* it is said one way only.
Replies ==
  [form : {"object"}, verdict : {"correct", "incorrect", "unparseable"}, words : {{}}]
    \cup [form : {"text"}, verdict : {"correct", "incorrect", "unparseable"}, words : SUBSET {"correct", "incorrect"}]
    \cup [form : {"empty", "failed"}, verdict : {"unparseable"}, words : {{}}]

Parsed(reply) ==
  IF reply.verdict = "unparseable" /\ reply.form = "text" /\ Cardinality(reply.words) = 1
    THEN CHOOSE word \in reply.words : TRUE
    ELSE reply.verdict

\* One round of the verifier.  A reply that cannot be parsed is asked again; the reply
\* here is the last one, and if it cannot be parsed either it counts as a rejection.
Verify ==
  /\ phase = "verify"
  /\ \E reply \in Replies :
       LET correct == Parsed(reply) = "correct"
       IN  \/ correct /\ Conclude(check.answer, check.used, TRUE)
           \/ ~correct /\ check.used >= MaxReanswers /\ Conclude(check.answer, check.used, FALSE)
           \/ ~correct /\ check.used < MaxReanswers /\ Continue(check.answer, check.used + 1, "reanswer")
  /\ summary' \in Renewals(summary)
  /\ UNCHANGED auxiliaryUnchanged

\* Defect in the operator below: a failed re-answer replaces the answer.
AfterReanswerAny(output) == output

AfterReanswer(output) == IF Valid(output) THEN output ELSE check.answer

\* A fresh attempt at the task.  The last one allowed is returned without verification.
Reanswer ==
  /\ phase = "reanswer"
  /\ \E output \in Answers \cup {FormatError} :
       \/ check.used < MaxReanswers /\ Continue(AfterReanswer(output), check.used, "verify")
       \/ check.used >= MaxReanswers /\ Conclude(AfterReanswer(output), check.used, FALSE)
  /\ summary' \in Renewals(summary)
  /\ UNCHANGED auxiliaryUnchanged

RetryNext == RunAttempt \/ Prepare \/ FinalizeBudget \/ Advance \/ Verify \/ Reanswer

RetrySpec == RetryInit /\ [][RetryNext]_retryVars

-----------------------------------------------------------------------------
(***************************************************************************)
(* Properties.                                                             *)
(***************************************************************************)

\* When the orchestrator returns, every budget it was asked for has its answer: all of
\* them in a sweep, however early the series of attempts stopped.  A valid answer is not
\* lost on the way out: self-verification may replace it, but only by another valid one.
BudgetsAnswered ==
  \A b \in Budgets :
    /\ phase = "returned" /\ (options.sweep \/ b = MaxAttempts) => returned[b] # Unset
    /\ Valid(submitted[b]) /\ returned[b] # Unset => Valid(returned[b])

\* The largest budget of a sweep is answered as run would have answered, from the same
\* attempts: neither the branches nor the other budgets show.
SweepReproducesRun ==
  phase = "returned" => submitted[MaxAttempts] = plain

\* The same where nothing is asked twice and no summary is kept between attempts.
PlainSweepReproducesRun == ~options.summarizes /\ ~options.asksAgain => SweepReproducesRun
=============================================================================
