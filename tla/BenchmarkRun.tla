----------------------------- MODULE BenchmarkRun -----------------------------
(***************************************************************************)
(* A benchmark run of the web-search recipe                                *)
(* (recipe/web_search/runners/evaluate_benchmark.py, run_evaluation): the  *)
(* tasks of a dataset, a few at a time, each rolled out by the             *)
(* orchestrator of WebSearchRetry or, in a sweep, once for all budgets of  *)
(* attempts; traces, the ledger of finished sweeps and the results on      *)
(* disk; deaths of the process at any point and runs that resume from what *)
(* is left (common/log_processing/finalized_run_guard.py decides whether   *)
(* they may).                                                              *)
(*                                                                         *)
(* An attempt is its trace: its output and the run it was made in.  Its    *)
(* output is a boxed answer, a boxed guess that the orchestrator rejects   *)
(* because attempts are left, or no box; on disk a guess and an answer     *)
(* look alike.  Traces reach the disk in the order they finished, some     *)
(* time after they did (TaskLogger).                                       *)
(***************************************************************************)
EXTENDS Integers, FiniteSets, SequencesExt

CONSTANTS
  Tasks,
  MaxAttempts,     \* max_task_retries + 1
  MaxConcurrent,   \* max_concurrent
  MaxRuns,         \* bound on the runs started
  MaxRollouts      \* bound on the rollouts begun

ASSUME BenchmarkAssumption ==
  /\ IsFiniteSet(Tasks) /\ Tasks # {}
  /\ MaxAttempts \in Nat \ {0} /\ MaxConcurrent \in Nat \ {0} /\ {MaxRuns, MaxRollouts} \subseteq Nat

VARIABLES
  sweeping,  \* attempt_budget_sweep_enabled
  traces,    \* on disk, per task and trace id: the trace, or NoTrace for none that can be read
  ledger,    \* attempt_budget_sweep_ledger.jsonl: its lines
  report,    \* the tasks benchmark_results.jsonl has rows of, num_items of eval_results.json,
             \* and the smaller budgets that have directories of their own
  stage,     \* "down", or the stage of the run
  epoch,     \* the number of the run
  rollouts,  \* the number of rollouts begun
  item,      \* per task, where _run_item is
  writes,    \* this run's finished traces, in order, for the writer to put on disk
  drained,   \* how many of them are certainly there
  rows,      \* per budget, the rows of results so far
  tally,     \* per budget, state["correct"] and state["total"]
  decided    \* history: per task, the results of its latest complete rollout

benchVars == <<sweeping, traces, ledger, report, stage, epoch, rollouts, item, writes, drained, rows, tally, decided>>

AttemptNumbers == 1..MaxAttempts
SweepBudgets == IF sweeping THEN AttemptNumbers ELSE {MaxAttempts}

\* An attempt, and the branch that continued it as if it were the last one, have
\* traces of their own.
TraceId(n, role) == [n |-> n, role |-> role]
TraceIds == [n : AttemptNumbers, role : {"main", "branch"}]
NoTrace == [outcome |-> "none", capped |-> FALSE, epoch |-> 0]
Boxed(trace) == trace.outcome # "none"
NoRef == TraceId(0, "none")
NoRefs == [b \in AttemptNumbers |-> NoRef]
Torn == [task |-> "torn", refs |-> NoRefs]

NoResults == [b \in AttemptNumbers |-> NoTrace]
NewItem == [at |-> "new", n |-> 0, refs |-> NoRefs, results |-> NoResults, cached |-> FALSE]
NoReport == [tasks |-> {}, items |-> 0, budgets |-> {}]
NoTally == [correct |-> 0, total |-> 0]

-----------------------------------------------------------------------------
(***************************************************************************)
(* What a run that resumes finds on disk.                                  *)
(***************************************************************************)

LastOf(positions) == CHOOSE i \in positions : \A j \in positions : j <= i

\* _load_sweep_resume_ledger: the last line of the task that can be read.
LedgerLines(t) == {i \in DOMAIN ledger : ledger[i].task = t}
LedgerRefs(t) == ledger[LastOf(LedgerLines(t))].refs

\* _build_completed_sweep_cache
SweepCompleted(t) ==
  LedgerLines(t) # {} /\ \A b \in AttemptNumbers : LET id == LedgerRefs(t)[b] IN id # NoRef /\ traces[t][id] # NoTrace

\* _build_completed_task_cache: the attempt with the highest number stands for the task.
OnDisk(t) == {n \in AttemptNumbers : traces[t][TraceId(n, "main")] # NoTrace}
Highest(t) == CHOOSE n \in OnDisk(t) : \A other \in OnDisk(t) : other <= n

\* Defect in the operator below: any finished attempt will do.
TaskCompletedIfTraced(t) == OnDisk(t) # {}

\* With a boxed output, the flag of a rollout that was cut short by the cap on attempts
\* at their turn limit, or all attempts.
TaskCompleted(t) ==
  /\ OnDisk(t) # {}
  /\ LET last == traces[t][TraceId(Highest(t), "main")]
     IN  Boxed(last) \/ last.capped \/ Cardinality(OnDisk(t)) >= MaxAttempts

CachedItem(t) ==
  LET refs == IF sweeping THEN LedgerRefs(t) ELSE [b \in AttemptNumbers |-> TraceId(Highest(t), "main")]
  IN  [at |-> "score", n |-> 0, refs |-> refs, results |-> [b \in AttemptNumbers |-> traces[t][refs[b]]], cached |-> TRUE]

Completed(t) == IF sweeping THEN SweepCompleted(t) ELSE TaskCompleted(t)

\* inspect_finalized_run
Finalized == report.tasks = Tasks /\ report.items >= Cardinality(Tasks)

\* guard_resume_into_finalized_run, not forced
GuardAllows == ~Finalized

-----------------------------------------------------------------------------
BenchmarkInit ==
  /\ sweeping \in BOOLEAN
  /\ traces = [t \in Tasks |-> [id \in TraceIds |-> NoTrace]]
  /\ ledger = <<>> /\ report = NoReport
  /\ stage = "down" /\ epoch = 0 /\ rollouts = 0
  /\ item = [t \in Tasks |-> NewItem]
  /\ writes = <<>> /\ drained = 0
  /\ rows = [b \in AttemptNumbers |-> [t \in Tasks |-> <<>>]]
  /\ tally = [b \in AttemptNumbers |-> NoTally]
  /\ decided = [t \in Tasks |-> NoResults]

NewRun ==
  /\ stage = "down" /\ epoch < MaxRuns
  /\ stage' = "tasks" /\ epoch' = epoch + 1
  /\ writes' = <<>> /\ drained' = 0
  /\ rows' = [b \in AttemptNumbers |-> [t \in Tasks |-> <<>>]]
  /\ tally' = [b \in AttemptNumbers |-> NoTally]
  /\ UNCHANGED <<sweeping, rollouts, decided>>

\* Defect in the action below: the summary of the earlier run stays.
StartFreshKeepingSummary ==
  /\ NewRun
  /\ traces' = [t \in Tasks |-> [id \in TraceIds |-> NoTrace]]
  /\ ledger' = <<>> /\ report' = [NoReport EXCEPT !.items = report.items]
  /\ item' = [t \in Tasks |-> NewItem]

\* A run that does not resume clears what an earlier one left.
StartFresh ==
  /\ NewRun
  /\ traces' = [t \in Tasks |-> [id \in TraceIds |-> NoTrace]]
  /\ ledger' = <<>> /\ report' = NoReport
  /\ item' = [t \in Tasks |-> NewItem]

Resume ==
  /\ NewRun
  /\ GuardAllows
  /\ item' = [t \in Tasks |-> IF Completed(t) THEN CachedItem(t) ELSE NewItem]
  /\ UNCHANGED <<traces, ledger, report>>

fixedInRun == <<sweeping, report, epoch>>
diskUnchanged == UNCHANGED <<fixedInRun, traces, ledger>>
queueUnchanged == UNCHANGED <<writes, drained>>

-----------------------------------------------------------------------------
(***************************************************************************)
(* _run_item.                                                              *)
(***************************************************************************)
Active == {t \in Tasks : item[t].at = "attempt"}

\* The semaphore.
BeginTask(t) ==
  /\ stage = "tasks" /\ item[t].at = "new"
  /\ Cardinality(Active) < MaxConcurrent /\ rollouts < MaxRollouts
  /\ rollouts' = rollouts + 1
  /\ item' = [item EXCEPT ![t] = [NewItem EXCEPT !.at = "attempt", !.n = 1]]
  /\ diskUnchanged /\ queueUnchanged
  /\ UNCHANGED <<stage, rows, tally, decided>>

Trace(outcome) == [outcome |-> outcome, capped |-> FALSE, epoch |-> epoch]
Write(t, id, trace) == [task |-> t, id |-> id, trace |-> trace]

\* An attempt ends the rollout with an answer, when the cap stops the retries, or when it
\* is the last one.
EndsRollout(this, outcome, blocked) == outcome = "answer" \/ blocked \/ this.n = MaxAttempts

\* The item after attempt n: when it ends the rollout it serves all the budgets left;
\* the budget of the attempt itself is the branch's, if there was one.
AfterAttempt(this, outcome, branch, blocked) ==
  LET n == this.n
      over == EndsRollout(this, outcome, blocked)
      serves == IF over THEN n..MaxAttempts ELSE {n}
      branched == branch # NoTrace
  IN  [this EXCEPT !.refs = [b \in AttemptNumbers |->
                      IF b \in serves THEN TraceId(n, IF b = n /\ branched THEN "branch" ELSE "main") ELSE @[b]],
                   !.results = [b \in AttemptNumbers |->
                      IF b \in serves THEN IF b = n /\ branched THEN branch ELSE Trace(outcome) ELSE @[b]],
                   !.n = IF over THEN @ ELSE @ + 1,
                   !.at = IF over THEN IF sweeping THEN "ledger" ELSE "score" ELSE @]

\* The branch of an attempt of a sweep that did not bring an answer.
Branches(this, outcome) ==
  IF sweeping /\ outcome # "answer" /\ this.n < MaxAttempts THEN {NoTrace, Trace("answer"), Trace("none")} ELSE {NoTrace}

\* What update_finished_trace_metadata leaves of a trace: it drains the queue, and may
\* then fail to rewrite the file or fail half-way.
AfterUpdate(trace) == {[trace EXCEPT !.capped = TRUE], trace, NoTrace}

\* One attempt of run or of run_attempt_budget_sweep; its branch ends before it.
EndAttempt(t) ==
  /\ stage = "tasks" /\ item[t].at = "attempt"
  /\ \E outcome \in {"answer", "none"} \cup (IF item[t].n < MaxAttempts THEN {"guess"} ELSE {}),
        blocked \in BOOLEAN :
       /\ blocked => outcome # "answer" /\ item[t].n < MaxAttempts
       /\ \E branch \in Branches(item[t], outcome), kept \in IF blocked THEN AfterUpdate(Trace(outcome)) ELSE {Trace(outcome)} :
            /\ item' = [item EXCEPT ![t] = AfterAttempt(@, outcome, branch, blocked)]
            /\ writes' = writes \o (IF branch = NoTrace THEN <<>> ELSE <<Write(t, TraceId(item[t].n, "branch"), branch)>>)
                                \o <<Write(t, TraceId(item[t].n, "main"), kept)>>
            /\ drained' = IF blocked THEN Len(writes') ELSE drained
  /\ decided' = IF item'[t].at = "attempt" THEN decided ELSE [decided EXCEPT ![t] = item'[t].results]
  /\ diskUnchanged
  /\ UNCHANGED <<stage, rollouts, rows, tally>>

\* A row per budget, and its count.
AddRows(t, budgets, answered, cached) ==
  /\ rows' = [b \in AttemptNumbers |-> IF b \in budgets
                THEN [rows[b] EXCEPT ![t] = Append(@, [answered |-> answered[b], cached |-> cached])] ELSE rows[b]]
  /\ tally' = [b \in AttemptNumbers |-> IF b \in budgets
                THEN [correct |-> tally[b].correct + (IF answered[b] THEN 1 ELSE 0), total |-> tally[b].total + 1]
                ELSE tally[b]]

Unanswered == [b \in AttemptNumbers |-> FALSE]
Answered(this) == [b \in AttemptNumbers |-> Boxed(this.results[b])]

\* The orchestrator raised: the task has a row all the same.
FailTask(t) ==
  /\ stage = "tasks" /\ item[t].at = "attempt"
  /\ item' = [item EXCEPT ![t].at = "reported"]
  /\ AddRows(t, SweepBudgets, Unanswered, FALSE)
  /\ diskUnchanged /\ queueUnchanged
  /\ UNCHANGED <<stage, rollouts, decided>>

\* _append_sweep_resume_ledger starts a new line after a torn one.
LedgerWith(line) == Append(ledger, line)

AppendLedger(t) ==
  /\ stage = "tasks" /\ item[t].at = "ledger"
  /\ ledger' = LedgerWith([task |-> t, refs |-> item[t].refs])
  /\ item' = [item EXCEPT ![t].at = "score"]
  /\ UNCHANGED <<fixedInRun, traces, stage, rollouts, writes, drained, rows, tally, decided>>

\* Defect in the operator below: only the largest budget is scored.
ScoredBudgetsLargest == {MaxAttempts}

ScoredBudgets == SweepBudgets

\* _score_and_record, for every budget, under the lock.
Score(t) ==
  /\ stage = "tasks" /\ item[t].at = "score"
  /\ AddRows(t, ScoredBudgets, Answered(item[t]), item[t].cached)
  /\ item' = [item EXCEPT ![t].at = "reported"]
  /\ diskUnchanged /\ queueUnchanged
  /\ UNCHANGED <<stage, rollouts, decided>>

-----------------------------------------------------------------------------
(***************************************************************************)
(* The end of the run, and deaths of the process.                          *)
(***************************************************************************)

\* What the files are once a queue is written: the last write of a trace stands.
WritesOf(queue, t, id) == {i \in DOMAIN queue : queue[i].task = t /\ queue[i].id = id}
Applied(disk, queue) ==
  [t \in Tasks |-> [id \in TraceIds |->
     IF WritesOf(queue, t, id) = {} THEN disk[t][id] ELSE queue[LastOf(WritesOf(queue, t, id))].trace]]

\* task_logger.close: the writer has written everything.
CloseLogger ==
  /\ stage = "tasks" /\ \A t \in Tasks : item[t].at = "reported"
  /\ traces' = Applied(traces, writes) /\ writes' = <<>> /\ drained' = 0
  /\ stage' = "rows"
  /\ UNCHANGED <<fixedInRun, ledger, rollouts, item, rows, tally, decided>>

WriteRows ==
  /\ stage = "rows"
  /\ report' = [report EXCEPT !.tasks = {t \in Tasks : rows[MaxAttempts][t] # <<>>}]
  /\ stage' = "summary"
  /\ UNCHANGED <<sweeping, traces, ledger, epoch, rollouts, item, writes, drained, rows, tally, decided>>

WriteSummary ==
  /\ stage = "summary"
  /\ report' = [report EXCEPT !.items = tally[MaxAttempts].total]
  /\ stage' = "budgets"
  /\ UNCHANGED <<sweeping, traces, ledger, epoch, rollouts, item, writes, drained, rows, tally, decided>>

\* A sweep has the tables of the smaller budgets still to write, one after the other.
SmallerBudgets == SweepBudgets \ {MaxAttempts}

WriteBudget(b) ==
  /\ stage = "budgets" /\ report.budgets = 1..(b - 1)
  /\ report' = [report EXCEPT !.budgets = @ \cup {b}]
  /\ UNCHANGED <<sweeping, traces, ledger, stage, epoch, rollouts, item, writes, drained, rows, tally, decided>>

\* The process is gone; another may start in the same directory.
Gone ==
  /\ stage' = "down" /\ writes' = <<>> /\ drained' = 0
  /\ item' = [t \in Tasks |-> NewItem]
  /\ rows' = [b \in AttemptNumbers |-> [t \in Tasks |-> <<>>]]
  /\ tally' = [b \in AttemptNumbers |-> NoTally]
  /\ UNCHANGED <<sweeping, epoch, rollouts, decided>>

Exit == stage = "budgets" /\ report.budgets = SmallerBudgets /\ Gone /\ UNCHANGED <<traces, ledger, report>>

\* A death: the writer got some way through its queue, a line of the ledger may be
\* torn, the file of rows may end early.
Die ==
  /\ stage \in {"tasks", "rows", "summary", "budgets"}
  /\ \E n \in drained..Len(writes) : traces' = Applied(traces, SubSeq(writes, 1, n))
  /\ ledger' \in {ledger} \cup (IF \E t \in Tasks : item[t].at = "ledger" THEN {Append(ledger, Torn)} ELSE {})
  /\ \E written \in {report.tasks} \cup (IF stage = "rows" THEN SUBSET Tasks ELSE {}) : report' = [report EXCEPT !.tasks = written]
  /\ Gone

BenchmarkNext ==
  \/ StartFresh \/ Resume
  \/ \E t \in Tasks : BeginTask(t) \/ EndAttempt(t) \/ FailTask(t) \/ AppendLedger(t) \/ Score(t)
  \/ \E b \in SmallerBudgets : WriteBudget(b)
  \/ CloseLogger \/ WriteRows \/ WriteSummary \/ Exit \/ Die

BenchmarkSpec == BenchmarkInit /\ [][BenchmarkNext]_benchVars

-----------------------------------------------------------------------------
(***************************************************************************)
(* Properties.                                                             *)
(***************************************************************************)

\* When the rows are complete every task has exactly one in every budget's table,
\* whether it was rolled out, failed, or came from an earlier run, and the accuracy
\* that is printed is that of the rows.
EveryTaskReportedOnce ==
  stage \in {"rows", "summary", "budgets"} =>
    \A b \in SweepBudgets :
      /\ \A t \in Tasks : Len(rows[b][t]) = 1
      /\ tally[b] = [correct |-> Cardinality({t \in Tasks : rows[b][t][1].answered}), total |-> Cardinality(Tasks)]

\* A result taken from an earlier run is the attempt that the task's latest complete
\* rollout gave, for every budget: never a mixture of rollouts, nor an attempt left over
\* from a rollout that was cut short.
SameAttempt(one, other) == one.outcome = other.outcome /\ one.epoch = other.epoch
Genuine(t) == \A b \in SweepBudgets : SameAttempt(item[t].results[b], decided[t][b])

\* The same for sweeps, whose ledger is written before the traces it names.
ResumedSweepsGenuine == sweeping => \A t \in Tasks : item[t].cached => Genuine(t)

\* But a guess that was rejected while attempts were left passes for an answer, when the
\* rollout it was made in got no further or its later traces did not reach the disk.
\* It is at least as recent as the latest complete rollout.
RejectedGuess(t) ==
  LET result == item[t].results[MaxAttempts]
  IN  result.outcome = "guess" /\ decided[t][MaxAttempts].epoch <= result.epoch

\* What a resumed run relies on is there: its cached results are genuine, but for a
\* rejected guess no older than what was decided, and a sweep that has been entered in the
\* ledger can be read back from it, even if a death had torn the line before.
ResumedTasksGenuine ==
  \A t \in Tasks :
    /\ ~sweeping /\ item[t].cached => Genuine(t) \/ RejectedGuess(t)
    /\ sweeping /\ item[t].at = "score" => LedgerLines(t) # {} /\ LedgerRefs(t) = item[t].refs

\* The results of a finished run are only ever removed by a run that starts afresh.
FinalStaysFinal == [][Finalized => Finalized' \/ report' = NoReport]_benchVars
=============================================================================
