# A formal model of Axis agents and their benchmark runs

TLA+ modules for this repository: the conversation state machine and the loop
that drives it, the tools an agent uses, the attempts the web-search recipe makes
of them, and the runs, judges and exports around these. TLC checks them on small
instances; TLAPS proves the properties that matter most for every configuration.
Everything is written from the code; where the code and one of its own comments
disagree, a run shows it (section 4).

## 1. The system

An agent run is a conversation between a language model and tools. A recipe wraps
such runs in attempts, a runner makes many of them side by side, and further
processes judge, summarize and export what they leave on disk.

| Part | State | Operations | Talks to |
| --- | --- | --- | --- |
| `ConversationRuntime` (`agentic/conversations`) | stage, turns, pending calls, rollback counter, reason of a forced answer, append-only log, what the model sees | initialize, apply an answer, apply tool results, recover from a context error, drop an exchange, withdraw calls | the task loop; token estimates |
| contracts (`agentic/contracts`) | none | stage table, stage → action, markers and their replay | every reader of a log |
| `TaskOrchestrator` (`agentic/orchestration`) | loop counter, step result, reason | run, one turn, tool phase, error handlers | runtime, model client, tools, logger |
| `ToolManager` (`agentic/tools`) | per-tool and task counters, arguments of the previous round, metrics | run a batch, reject, reset, snapshot, restore, "all exhausted" | tools |
| `TaskLogger` (`agentic/observability`) | live traces, write queue and thread, files | start, append, finish, update, drain, close, load, scan | disk |
| model clients (`agentic/model_clients`) | retries of a call; the window of endpoint errors, which all calls share | complete, grow the room for an answer, give the endpoint up | provider |
| search, page tool, sandbox (`agentic/tools`) | raw pages, extraction cache (memory and a file of all processes), a sandbox at a service | one call each, many at once | external services |
| as-of screen, temporal window | verdicts on disk and in memory | derive a boundary, gate a unit, judge a passage | search and page tool |
| web-search orchestrator (`recipe/web_search/agent`) | attempts, budgets, snapshots, context policy, provenance | attempts and retries, sweeps, branches, discard-all, summaries, self-verification | subclasses of runtime and loop |
| runners (`recipe/*/runners`) | tasks in flight; rows, ledgers, summaries on disk | schedule, resume, launch a judge, export | everything above |
| judges (`recipe/web_search/eval`, `judge_existing.py`) | verdicts in sidecars and a table | judge one answer, pass over a directory, watch it, F1 pass | traces and rows of a run that may be live |
| log processing, dashboard | derived files | scan, refresh, display | artifacts of runs |

Within one task all code runs in one coroutine, so the interleavings of the core
are those of *answers*: what the model returns, what the provider refuses, which
calls fail, which budgets are reached. Tool calls of a round, tasks of a run,
the trace writer, judges, refreshers and launches of the same directory really
run side by side, share files without a lock (but for the extraction cache), and
are killed and started again.

What is hard, and what each part must guarantee:

* **Runtime.** A step walks several stages and appends several messages; limits,
  rollbacks and markers interact over many turns. It must keep its turn budget
  although the limit is an equality and turns are handed back, make no illegal
  stage change, and show the model a prompt that has its task, in which every
  call is answered.
* **Log.** It is append-only, and what the model saw is derived from it five
  times over, by different code. All of it must agree.
* **Loop.** In step with the runtime, ends by itself however often the provider
  fails, and reports a true reason.
* **Tool manager.** Four limits in two functions, five ways a call can end; no
  limit may be exceeded, snapshots must restore them, exhaustion must be final.
* **Model client.** Concurrent calls share one window of errors; one unlucky call
  must not end the process, and no call may outlast it.
* **Tools.** Caches shared by threads and processes must not forget; large pages
  must not lose text at chunk boundaries; a sandbox must belong to its attempt.
* **Boundary.** A forecast must see nothing its date excludes, whatever is
  cached, judged for another task, cut before or fetched again.
* **Attempts.** Resets pre-empt forced answers half-way; the runtime is reopened;
  one series of attempts answers for every smaller budget.
* **Runs.** No task lost or counted twice over deaths; what is resumed is what
  was rolled out; a finished run stays; verdicts are about the answers they stand
  beside, and reach the summary.

`PROJECT.json` lists every component with its status, and every hazard at its
line with the properties that cover it.

## 2. Modules

A module models one component, its variables named for the code's fields; its
comments name the functions. `*_proofs` modules hold theorems (section 7), `MC*` modules the
sets and functions a `.cfg` cannot write.

| Module | Models |
| --- | --- |
| `ConversationContracts` | stages, stage table, messages, markers and their replay (`agentic/contracts`) |
| `ConversationRuntime` | `conversation_runtime.py`: one action per public step method, or per branch of its dispatch |
| `TaskLoop` | abstract: what `run` promises its caller |
| `TaskOrchestrator` | `task_orchestrator.py`, composed with the runtime; implements `TaskLoop` |
| `ToolManager` | `tools/manager.py` |
| `TaskLogger` | `task_logger.py`: event loop, writer thread, disk, deaths and restarts |
| `TraceReaders` | the log as the recipes write it, and its readers: `context_length_tracker.py`, reloading, `swift_agent.py`, `trace_distributions.py`, `replay_trace.py` |
| `ModelClient` | `retry_wrapper.py` and the retries of `openai_client.py`, in ticks of time |
| `SearchTool` | `search.py`, `_retry.py`: retries, filters, the ladder of wider queries |
| `PageTool` | `scrape.py`: backends, raw cache, the cut at the boundary |
| `PageExtraction`, `PageTable` | `_scrape_utils.py`: extraction in chunks over rounds; cutting a table at its rows |
| `ExtractionCache` | `LLMExtractionCache` with its two locks, and the calls that use it |
| `CodeSandbox` | `code_exec.py`: a sandbox over its calls, attempts, refusals and expiry |
| `EvidenceScreen` | `tools/as_of`: three gates, the judge, its cache on disk and in memory |
| `ForecastTime` | `agentic/temporal`: how a boundary is derived and what it makes of dates |
| `WebSearchAttempt` | one attempt of `agent/orchestrator.py` around the runtime |
| `WebSearchRetry` | `run`, `run_attempt_budget_sweep`, self-verification |
| `AttemptProvenance` | what a result tells of its attempts; extends `WebSearchRetry` |
| `BenchmarkRun` | `evaluate_benchmark.py` over runs that die and resume; `finalized_run_guard.py` |
| `JudgeExisting` | `judge_existing.py` beside `evaluate_benchmark.py`, under the launcher of `run_eval_config.py` |
| `LlmVerifier` | `llm_verifier.py`: one verdict |
| `DsqaVerify` | `dsqa_utils.py`: the F1 pass over a run, by threads |
| `WideSearch` | `evaluate_widesearch.py` over launches, `rejudge_widesearch.py` between them |
| `DashboardRefresh` | the artifacts of a directory and the three processes that write them |
| `ForecastExport` | `forecast_submission.py`, the rows of repetitions, `export_galaxy_run_dir.py` |

How they fit together. `TaskOrchestrator` extends `ConversationRuntime`, and
every loop action conjoins a runtime action. `AttemptProvenance` extends
`WebSearchRetry`, whose attempts are the outcomes `WebSearchAttempt` leaves;
`BenchmarkRun` takes a rollout as the attempts `WebSearchRetry` makes of it, and
its traces reach the disk as `TaskLogger` writes them; `JudgeExisting`,
`WideSearch`, `DashboardRefresh` and `ForecastExport` meet the files
`BenchmarkRun` leaves while they are being written. These interfaces are outcomes
and files, enumerated in full on the side that consumes them, so each module can
be checked by itself; where two components really interleave step by step
(runtime and loop, run and judge, event loop and writer, calls and cache) they are
in one module.

### What stands for what

* A **message** is its kind and the one number that matters (calls requested or
  answered, messages hidden); in `TraceReaders` its text is its place in the log.
  One public step of the runtime is one action that includes every check,
  prompt and marker up to its return; `TransitAlong` follows its path in the
  stage table as `_transit_stage` does, and a missing hop sets `raised`. Token
  estimates answer `ok`, `warn` or `hard_stop`, as far as the configuration
  lets the code ask for them. Subclass hooks are constants.
* The **refinement** of `TaskLoop` gives a loop its budget of questions:
  `(MaxRollbacks + 2) * (MaxTurns - turnCount) + (MaxRollbacks - rollbackCount) +
  assistant messages with calls still visible + (1 unless already forced)`.
* A **tool round** is one call of `execute_tool_calls`, each request one step.
  Snapshots are taken and restored between rounds, any number of times.
* A **file** that is being written is torn until it is whole; a death in between
  leaves it torn. What finishing, judging or resuming promised is kept in history
  variables, each marked `history` at its declaration.
* **Time** passes in ticks only in `ModelClient`; elsewhere timeouts are a choice
  of the environment. Of modification times `DashboardRefresh` keeps which file
  was written after which.
* A **page** is its publisher's date and entries, an entry the days it names in
  order; a **text** to extract from is a sequence of facts and noise; a **table
  line** is its size, whether it is shaped like the header and whether it is
  asked for. The summary model reports what it is shown: what is checked is what
  the program does with it.
* A **boundary** is a day number; a value can be absent or unclear.
* A **verdict**, an **answer** or a **prediction** is told by what it is about
  (which launch, which version), never by its text.
* `Defect in the operator below` marks an operator beside the true one, which is
  a plausible slip in that code; every property of a passing run is violated by
  one of them (`mutants` in `PROJECT.json`).

## 3. Runs

The parts of a run stand side by side: a variable (`subject`, `level` or
`configuration`) is chosen in the initial state, the part it names moves, and all
others stand still, so that one run of TLC covers several questions without
multiplying their states.

| Run | What moves, and its bounds | Properties |
| --- | --- | --- |
| `conversation` | the runtime with all prompts, rollback and an orchestrator that withdraws calls (3 turns; 1 rollback; messages of 1 or 2 calls). The logger: 2 ids started 3 times, queue of 1, 1 refused write, deaths anywhere. The readers: logs of 9 entries, any of three `keep_tool_result` | `StageTableRespected`, `PromptsReadable`, `ReadersAgree`, `FinishedIsOnDisk`, `PartialOutlived`, `CallsReturn` |
| `task` | two concurrent calls of the model client (3 tries, waits 0 or 4, period 2), then the loop in two configurations, with and without a minimum generation budget, against any provider error at any turn (4 turns, safety limit 14 or 4) | `ExitJustified`, `SleepsEndInTime`, `TruncatedGrows`, `LoopInStep`, `TurnBudget`, `TaskAlwaysVisible`, `EverythingEnds`, `ImplementsTaskLoop` |
| `web_search` | one attempt (3 turns, 2 queries, both context policies); series of 3 attempts with 2 answers, with and without sweeps; their provenance, with one storm at most in a series; a search; a forecast's boundary over 3 days; one verdict by 2 judges; 2 trials over 3 launches; the artifacts of a directory; 2 repetitions of a forecast, of up to 2 attempts each, with a death, and its export | `TaskSurvives`, `AttemptBounded`, `AttemptEnds`, `BudgetsAnswered`, `PlainSweepReproducesRun`, `ProvenanceTrue`, `SearchAccounted`, `OutcomeUnknown`, `EachModeItsBudget`, `TrialsAddUp`, `VerdictsReachSummary`, `SubmittedAsSaid`, `NotebooksScreened` |
| `services` | tools (2, each kind of limit, 3 requests); a benchmark run (2 tasks, 2 attempts, 3 runs); two screened calls in two processes; two fetches over every backend of six pages; extraction of two pages in chunks; tables of 4 lines; three cached extractions in two processes; a sandbox over 2 attempts | `LimitsRespected`, `ExhaustionFinal`, `EveryTaskReportedOnce`, `ResumedTasksGenuine`, `FinalStaysFinal`, `NothingLateShown`, `NothingLateGiven`, `EveryFactAccounted`, `RowsKeptWhole`, `NothingForgotten`, `OnlyOwnSandboxRuns` |
| `evaluation` | a run with its judge over 2 launches, 2 tasks and 2 settings; the F1 pass over 2 rows by 2 threads, twice | `JudgedOnce`, `RatingsFounded` |

Each property is stated in words above its definition, with the behaviour of the
code it is about.

Why the bounds are enough:

* With 3 turns a conversation reaches every stage, and `max_turns - 1` by counted
  turns alone and with rollbacks in between; the 4 turns of `task` add a second
  exchange of calls and results before the limit, so that dropping one leaves
  another. 2 calls in a message distinguish partial answers. Configurations that no
  run instantiates rest on the theorems about the runtime, which hold for all.
* Two tools, two valid arguments and a bad one, and three requests let each
  limit be the one that stops a call, after each kind of outcome, around a
  snapshot.
* Two ids, one queue place and three starts make a trace wait while one is queued
  and one written, and let an id be run again over the files of a dead process.
  Logs of nine entries hold a withdrawal, a compaction and a reset with an
  exchange between each two of them.
* Two concurrent calls open and close the window for each other; a wait of 4 in a
  period of 2 overruns it.
* Three attempts give a sweep a budget below, at and above the attempt that
  answers, and a branch between two attempts.
* Three runs, two tasks, two attempts: a run that dies, one that resumes and dies
  over its leftovers, one that resumes both; every mixture of a stale attempt and
  a new one occurs.
* Two processes for caches and screens, three calls: two in one process (thread
  lock) against one in another (file lock), with a flush that fails or a death at
  each point.
* Two attempts of a rollout, the first a guess that is rejected, and one death are the
  least that leave a trace that passes for an answer, and an unscreened result in an
  attempt that is not the last. The budget of a search is the hard cap, that of a page
  is past it, as 96 is past 24 in the code.
* Six pages hold each shape the rules tell apart (blank, table, dated page,
  listing before, after and across the boundary); the two documents have facts
  at, before and after every chunk boundary the settings produce.
* Two launches of a judged run with a live judge, a watch that is killed and a
  last pass are the smallest history in which a table is rewritten over another's;
  a third adds launches of the same shape.

`MaxBatch`, `MaxRequests`, `MaxSteps`, `MaxStarts`, `MaxFaults`, `LoopLimit`,
`MaxEntries`, `MaxRuns`, `MaxRollouts`, `MaxSessions`, `MaxSandboxes`,
`MaxLaunches`, `MaxWideLaunches`, `MaxVersions`, `MaxPasses` and `MaxDeaths` are
bounds of the model and not settings of the code (`LoopLimit` is `max_turns + 200`
there, `SafetyMargin` the 200 of an attempt). Tasks, judges and rows of `evaluation`
are permuted freely: nothing orders or chooses among them.

Deadlock is checked in `task`, where a run must come to an end state of its own.
Elsewhere it is not: a runtime after a terminal stage, a logger that is closed, a
finished attempt, and runs and launches at their bounds rest by design.

## 4. Where code and comments disagree

Each of these runs checks one statement that a comment, a docstring or a doc of
the repository makes, and TLC finds a behaviour of the code against it. The
quotations are with the findings in `PROJECT.json`.

| Run | Property | What it shows |
| --- | --- | --- |
| `done_ignored` | `DoneStopsTheLoop` | when tool results end the conversation, `_run_tool_phase` still says "not done" and the model is asked again; the exception leaves `run` without a result or a finished trace |
| `logger_lost` | `EveryTaskTraced` | the caller adds a key to `run_info`, which the queued trace shares, while the writer may be serializing it: the finished task has no trace |
| `reset_pre_empted` | `ResetReopensTask` | a discard-all reset at the turn limit refreshes the loop's messages but not its stage: an attempt that will be retried ends for the limit all the same |
| `resumed_sweeps` | `ResumedSweepsGenuine` | the ledger names traces that the writer has not written; after a death, leftovers of an earlier rollout under the same ids pass for them |
| `reused_verdicts` | `VerdictsMatchAnswers` | a verdict is reused by the path of its row, which a resumed run writes again with another answer |
| `rows_redacted` | `TimestampedRowsKept` | a row kept for its own date by the table rule is redacted by the line rule after it for a later day it mentions |
| `findings_dropped` | `FindingsKept` | a request that fails in a second round drops findings of the first without a word |

The interleaving of `logger_lost` was also reproduced with the real class: with
the writer idle, three of three hundred finished traces were lost this way.

Some invariants are stated only where the code keeps them. With a minimum
generation budget a warning can follow unanswered calls and a context error
before the first tool result raises; hiding results only leaves their call
without an answer; an orchestrator that withdraws the calls of the *first*
message leaves the stage at `tool_messages` with only the task visible, where a
context error then hides the task. `PromptsReadable` and `StageTableRespected`
say which configuration each part holds in; `EndedByResults` says where the loop may
ask in vain.

## 5. Observations

Behaviour that the models made visible, that no comment contradicts or that the
properties above are conditioned on. None of it is claimed to be wrong.

**Conversation and loop.** Rollbacks far apart add up to the limit of consecutive
ones; identical calls within one message are not limited; the output is the
latest message with content, so an empty final answer returns an earlier turn's
text; a bound of about `(MaxRollbacks + 2) * MaxTurns` questions exceeds the
loop's own safety limit for large settings. The running token estimate floors
each segment and drifts from a full count by up to a token per segment.

**Readers.** With `keep_tool_result`, reloading and the SFT export show results
the model saw as placeholders, and the tracker's anchor is never set; a
compaction's boundary may leave tool results without their call in a sample;
branches of sweeps are exported as further samples.

**Attempts.** A sweep reproduces `run` for the largest budget only without a
second question for the final answer and without context summaries, which a branch
also renews (`PlainSweepReproducesRun` has the condition); the sandbox is not in an
attempt's snapshot. `max_turns` of 300 allows 500 passes of the loop against 1800
tool calls of discard-all. A capped result may carry a rejected guess as its
output while its provenance says `format_error`, and counts as to be retried
though nothing follows it; a branch's storm counts include its main attempt's.

**Client.** A caller's own `max_tokens_override` wins over the room that was grown.
Ending the process is a `SystemExit`, which tasks do not catch.

**Pages and searches.** A page of blanks from Jina or plain HTTP succeeds with "No
content retrieved from the page."; a chunk that fails in the first round is dropped
silently and the partial answer cached for the page; a question as long as the
room gives chunks of one character; a corrupt cache file is treated as empty and
overwritten. A row longer than the room is cut within the record (the docstring at
`_scrape_utils.py:1167` says never) if the line before it is blank, or is as long as
the room less one and itself follows such a line; line breaks within quoted cells
split records; of more than 16 selected columns a condition's own may be dropped.
A wider query that fails fails the search, although a narrower one was answered;
stamps and counts are those of the last form asked.

**Boundary.** A start after the end clamps the boundary past the outcome, and an
override may lie after it; both are outside `OutcomeUnknown`. Chunks past the judge's budget are kept
unexamined, the judge sees 1200 characters, a card without text is not screened.

**Runs.** Resuming without a sweep takes the highest attempt's trace, which does
not hold an answer that was only asked for afterwards, and which does hold a boxed
guess that the orchestrator rejected in memory while attempts were left
(`_prepare_retry_attempt_output`): if the process dies before the next trace is on
disk, the guess becomes the result of the task (`RejectedGuess`, the exception in
`ResumedTasksGenuine`). A death while the metadata of the cap is merged into a
finished trace leaves one that cannot be read; a task that ended in an
exception is finished for the guard; a death before the smaller budgets are
written leaves a run that counts as final. A judge that is killed while it writes
its table (`run_eval_config.py:477`) leaves a torn last line, on which every later
pass ends; this is a death the judge modules do model, as `FailOnVerdicts`, but no
property says a later pass succeeds, because none does.

**Judging.** The watch ends on a difference of counts, the last pass reads a table
that may be open; extras take the label of the current judge; requests that outlive
a cancelled pass write stale sidecars. An F1 row that was once invalid or empty
stays so through its retries, although a valid later reply is kept and used by the
next pass. One undecided judge discards the decisions before it; a tie is
INCORRECT; the room jumps to 128 even above a lower ceiling.

**WideSearch.** Tagged scores are neither cleared by a fresh run nor compared with
traces; a score of attempt 2 whose trace is lost is kept if attempt 1's is there; a
judge client that could not be made gives zeros that count as genuine; fewer
trials than were re-judged raise.

**Artifacts.** With `--force` a trace or row written after it was scanned but
before the results are is older than they are, and is skipped for good; without it
existing results are never rebuilt.

**Forecast export.** A rollout that raised has a row without a reason and is
exported as `usable`; an answer message without a box is rejected as a violation
of the contract rather than as having no answer; an answer recovered from an
earlier message may be paired with the confidence of the last; the newest row is
the last in the order of paths (`run_10` before `run_2`); notebooks of several
attempts overwrite one another, so counts exceed files. The audit of the notebooks, "the
boundary check that cannot be waived" (`export_galaxy_run_dir.py:625`), is only made with
`--emit-notebook`, and sees the traces that can be read when it is made: attempts under
way, traces that wait for the writer and traces it or a death has lost are passed over
without a count, so that `NotebooksScreened` excepts just those. A repetition that was
run with `--no_logging` has rows and no traces.

## 6. Fairness

* `task`: `WF` of the steps of calls and of time, and of the loop. Every `await`
  returns, because clients and tools have timeouts, and nothing else blocks.
  Nothing is assumed of *what* is answered, so `EverythingEnds` and
  `ImplementsTaskLoop` hold against a provider that does its worst.
* `conversation`: `WF` for the rest of a logger call that has begun on the event
  loop and for the writer thread, which only waits for its queue. Nothing obliges a
  task to record, finish or close.
* `web_search`: `WF` of the loop's pass for `AttemptEnds`, spelled out with `ENABLED`
  because TLC sees whether a step is a pass faster from the part and the policy it
  leaves alone. Nothing obliges a sweep to branch.
* All others are safety only: processes may die or never be started.

## 7. Proofs

`tlapm` checks, for every value of the constants that satisfies the named
assumptions of the modules:

* **`ConversationContracts_proofs`**: lemmas about the operators on conversations, how
  many messages a rollback cuts, what it leaves, and what one more entry adds to
  the replay of a log, which the runtime's and the attempt's proofs share.
* **`ConversationRuntime_proofs`**: `TypeCorrect`, `TurnBudgetHolds`,
  `NoStepRaises`. The invariant is type correctness plus the turn budget of each
  stage: a normal prompt leaves two turns, a forced one leaves one. That makes the
  equality test of the limit sufficient: every step that ends in a normal prompt
  has passed the test, and every step that hands a turn back returns to a stage
  with one more turn left. `NoStepRaises` rests on `LegalHops`, the part of the
  table the steps use, and assumes not both a minimum generation budget and a
  force-final prompt; with both it fails, but, as `StagesRespected` adds, only where
  nothing precedes the prompt that could be rolled back. `StagesRespected` and
  `PromptsAreReadable` rest on one more invariant, `SightInv`, about what is in sight.
  A rollback counts messages from the tail and says nothing of what it cuts through, so
  it is not enough that calls are answered in a prompt: the invariant also says that
  only the first message is the system's, that no assistant message follows
  another, that the prompt ends with the floor open to the model, and of `await_tools`
  that all before the calls is such a prompt. Then the latest assistant message ends a
  settled prompt, and what is left of it when that is cut is settled again. That the log
  replays to what is in sight follows step by step: a step appends messages and at
  most one marker, which hides as many as were hidden.
* **`TaskOrchestrator_proofs`**, about the loop and the model client:
  `RuntimeUsedAsSpecified`, each loop step is a
  runtime step or a stutter, which carries the runtime's theorems to whole tasks
  (`TaskTurnBudget`); `LoopStaysInStep`, by the invariant that `calling` implies a
  stage awaiting the model and `executing` implies pending calls, without a
  minimum generation budget (`done_ignored` is the counterexample with one).
  `LoopAlwaysInStep` needs no assumption: what the loop may meet unannounced is a
  conversation whose log ends with tool results, or the marker that hides them, and it
  runs tools for the calls `SightInv` says are pending.
  `RunsSpendTheirBudget` is the refinement of `TaskLoop` without its fairness: the
  log decides what is visible, so what a step logs bounds the assistant messages with
  calls it adds (one for an answer, none for results and prompts), and since only the
  first message is the system's, a dropped exchange takes its message with calls
  along. A counted turn weighs more than all it can give back, a withdrawn one costs
  a rollback, a rejected prompt the forced round. `ReasonsAreTrue`: a conversation
  that ends with an answer keeps the trigger that forced it.
  `ExitIsJustified`, `SleepsEnd`, `TruncatedAnswersGrow`: an open window is never
  older than the time since a request last ended otherwise than by a transient
  error, and no sleep is longer than what is left of the period when it begins.
* **`TaskLogger_proofs`**, about what is written and about those who read it:
  `TypeCorrect`, `FinishedTracesOnDisk`, `PartialFilesOutlived`. The invariant follows a trace: while it is live only the
  event loop touches it; it is handed over once, since it is no longer live then; how
  far the thread that has it in hand is tells what is on disk (a partial file is only
  removed when the final one is whole); afterwards only an update opens its file, and
  it does so with the queue drained, so what it read is what it writes again. A torn
  file is one being written, or one of a death or a refusal.
  `ReadersAlwaysAgree`: a step appends messages and at most one marker, the tracker
  starts with the task, and no rollback reaches that, so every reader takes away the
  same messages. The estimate of a segment is within a token of a third of its
  characters. A rollback that cuts into a segment also forces the answer, so none is cut
  twice, and what is left of one is within two thirds of a token of its third. The
  requests that were sent are views of prefixes of the log, and what is appended later
  leaves the prefixes alone. A result is only appended while a call awaits it.
* **`WebSearch_proofs`**, about an attempt, a series of attempts and a search.
  `TaskAlwaysSurvives` and `AttemptAlwaysBounded`: the conversation begins with the
  system prompt and the task, and no other message is the system's, so that whatever
  looks for the latest one stops at the prefix; outside the final round there is a turn
  left for it; and `resets + (a conversation longer than its prefix) + (silent final
  round) <= turns + 1`, because a conversation that goes on only becomes longer by a turn
  that stays counted: a reset keeps the turns, and a withdrawal that hands one back takes
  its message along. The calls that count against the tool budget would not do: the ones
  that raise, are rejected or name no tool are free, yet their results stay. `EveryBudgetAnswered` and `SeriesAnswersAsRun`: budgets are answered from the
  smallest on, each waits for the attempt in hand or for the answer being verified, and
  what `run` would have returned is kept beside what a sweep falls back on.
  `ProvenanceIsTrue`: the list of the series is a chain that awaits the entry of the
  attempt in hand while the series goes on; what a budget was given is that chain up to
  its own attempt, rewritten for the budget, with what the branch had to say at the end,
  and an answer that is verified afterwards stays valid or invalid as it was noted.
  `EverySearchAccounted`: the ladder of wider queries gives up one of at most three
  things at each rung.
* **`Evaluation_proofs`**, about a run and what is made of it. `ReportsBalance`,
  `FinalIsFinal`: in every table there is one row for each task that is through and none
  for the others (a count, so the lemmas are about cardinalities); a run only writes a summary that covers its tasks, and only a
  run that is not final is resumed. `ResumedAlwaysGenuine`: a rollout writes its
  attempts in order, over those of the rollout before. While it has not ended, what it
  has not replaced yet does not end the task either, so files that end the task are
  of the rollout decided last, or end it with a guess of a later one that was rejected in
  memory, however far the writer of the logger got before the process died. Of a sweep only the ledger is claimed: the line a sweep has just appended
  is the one read back. `NoAnswerJudgedTwice`: between
  passes a sidecar holds what the table holds or is not there, a pass asks only about
  rows whose sidecar is of no use, and what it saves will be the table's.
  `RatingsAreFounded`: a rating stays of use only if each reply that went into it held
  grades, and the reply is on disk before the rating is. `EveryTrialAddsUp`: a
  trial of the schedule joins the list once, when its coroutine ends or when its score
  is loaded, which it only is with the trace that no one replaces before the loop ends.
  `ModesKeepTheirBudgets`: the two counters are cardinalities of the calls made so far,
  and a call that ends in more room is the last one in its room.
  `VerdictsAlwaysReach`: once the runner is through only the refresher writes the results
  file, so if that is newer than the verdicts the refresher still reads them on its way
  to the summary, and the judge's own summary knows its own verdicts.
* **`Services_proofs`**, about the tool manager, the cache of extractions and the
  sandbox. Types, books, budgets, repetitions, `LimitsHold`,
  `ExhaustionIsFinal`: the invariant states the limits of the present state *and*
  of the saved snapshot, and that a success of this round which repeats the
  previous round was below its limit: without the first, restoring would break it;
  without the second, ending a round would. `CacheForgetsNothing`: the two locks leave
  one call between writing the temporary file and putting it in place, so the file it
  read is the file it replaces; the temporary file covers it. `OnlyOwnSandbox`: the
  handle is the last sandbox made, by this attempt, and is only given up with a kill;
  what runs without being held is what that kill was refused for. No call makes a
  sandbox while one is held.
* **`Boundary_proofs`**, about `ForecastTime`, `EvidenceScreen`, `PageTool`,
  `PageExtraction`, `PageTable` and `ForecastExport`:
  `OutcomeStaysUnknown`, a boundary is at most the day of the outcome, and where
  none is derived the run itself is before that day, so what it can meet is too;
  `NothingLateIsShown` and `BlocksAreFounded`, both caches hold only verdicts the
  judge has given of that very text, and what the judge is not asked about needs no
  verdict. Nothing is assumed of the budgets, not even that the hard cap is the larger one: a text
  that names a late day and gets no room is withheld, and only what is merely
  suspicious is kept unjudged. `NothingLateIsGiven`: what a call gives is its page cut down, cached or not,
  and what the two passes leave of an entry names no late day, since what comes before
  the first one does not. `SubmittedWhatWasSaid`: every row of a repetition is the
  parse of one attempt at its task, as it ended or as its trace tells, or says that its
  rollout raised; which attempts there were only grows, and answer and probability are
  read from one. `NotebooksAreScreened`: a packet is a call of a trace of the task, and an
  attempt of the newest rollout that has ended is on disk as it was made, waits in the
  queue or is lost; what waits is of a task that is running or has its row, and a rollout
  starts with neither, so nothing of an older one is written over it. `FactsAreAccounted`: every fact before the place where the next chunk
  begins was found, was in a request that failed or in a half given up, and the text of
  each round still tells of the rest of the page; it needs that a chunk is never empty and
  the next one never begins past its end, whatever the overhead of the request.
  `RowsAreKeptWhole`: the pieces are disjoint, in order, and cover the text but for line
  ends. A piece that ends with its room within a line has one line end in it, at its first
  place, so what it holds of the line is the room less one. The line before, which ends at
  that first place, is then blank, or the piece before ended within it, one place before
  its end, so that its own size is the room less one. The invariant says so of every cut
  there is and of the place where the next piece begins. Pages,
  notebooks and findings are sequences put end to end, so the lemmas `FlattenElements` and
  `FlattenContains` say what those are made of; the library's induction over numbers
  being out of reach, they take the least place where they would fail.

The invariants are the ones named `...Inv` in these modules. Each was first checked by
TLC on the small instances of section 3.

What the proofs needed of the models. Two sentinels had to be told apart from
values they stand beside (`RetryAssumption`, `AbsentAssumption`: a format error is not
an answer, a file that is absent or torn not a trace); in the code they are another
type or a reserved string. Where several cases of a decision overlap the models use
nested `IF`, because a `CASE` of TLA+ leaves open which of them is taken while the code
(and TLC) take the first. A message asks for a finite set of queries (`Requests`). What a writer
has put on disk is said file by file, by the last of its writes (`Applied`), not as a fold.
`TraceReaders` says its sums, its joins and what a reader makes of a log as recursive
functions of how many elements are taken, and a rollback of the tracker segment by
segment. `PageTable` keeps where the lines of a text end, not its characters, and its
property excused a divided row only after a blank line: the proof found the other
predecessor, one of the room less one, which the small instance did not have and now
does.

A theorem whose entry in `PROJECT.json` names a property states what a run checks
by TLC as well.

Only model-checked: liveness, also that of `TaskLoop` (arguments under fairness);
`TaskAlwaysVisible` as such, which `PromptsAreReadable` proves where the orchestrator
withdraws no calls; and the properties of the modules no theorem is about.

## 8. Not modelled

* **Wording and layout**: prompts, rendering of results and cards, HTML and
  Markdown extraction, recognition and formats of dates, JSON-stat, index and
  filters of the SFT export.
* **Pure reporting**: `live_eval_results`, `assistant_message_stats`, effort and
  latency counters, averages of `aggregate_runs`, the Streamlit dashboard.
* **Pure rewriting and arithmetic**: argument repair and schema order, exact
  match, table scoring of WideSearch, fitting of series, calibration ratios,
  the arithmetic behind token estimates (their outcomes are choices).
* **Wiring**: command lines, configuration files, dataset loading, construction of
  clients and tools, begin and end hooks of tools other than the sandbox.
* **Transports**: HTTP, SGLang, the rollout adapter; their outcomes are enumerated.
* **Nested orchestrators**: a tool that runs another loop is that loop once more,
  with state of its own; no recipe configures one.
* **Left open inside modelled parts**: in `BenchmarkRun` the answers a finished series
  recovers (`_retry_final_answer`, fallbacks: a row's answer is that of its trace), the
  match of self-verification settings on resume and writes that the trace writer fails
  (`ForecastExport` and `TaskLogger` have those); the gate on prose of a page
  (`judge_prose`), a disabled raw cache, misaligned columns of
  `_prune_parallel_columns`, a temporal policy whose name is unknown (raises before
  the run), a client without an exit period, cloning of a runtime.
