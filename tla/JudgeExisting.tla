---------------------------- MODULE JudgeExisting ----------------------------
(***************************************************************************)
(* Judging a benchmark run while it goes on and after it                   *)
(* (recipe/web_search/runners/judge_existing.py), as the launcher of       *)
(* run_eval_config.py has it done: each launch starts a judge that watches *)
(* the directory, then the runner, and when the runner has ended stops the *)
(* first judge and starts one that makes a last pass.  Three processes     *)
(* share one directory; a later launch may resume in it or start afresh.   *)
(*                                                                         *)
(* An answer is the number of the launch it was rolled out in: what        *)
(* matters of it is whether it is still the one that is reported.  What a  *)
(* verdict says of it does not matter; which answer it is of, and which    *)
(* judge it is labelled with, does.                                        *)
(***************************************************************************)
EXTENDS Integers, FiniteSets, SequencesExt

CONSTANTS
  Items,       \* the tasks of the dataset
  Judges,      \* settings of the judge a launch may have (judge_model, judge_times, ...)
  MaxLaunches  \* bound on the launches

ASSUME JudgeAssumption == Items # {} /\ Judges # {} /\ MaxLaunches \in Nat

VARIABLES
  launch,     \* the number of the launch
  settings,   \* its judge
  runner,     \* where evaluate_benchmark is
  ended,      \* the tasks it has a row of
  traced,     \* the tasks whose trace the writer has been given, in this order
  answerOf,   \* its rows: per task the answer
  traceOf,    \* on disk: the answer of the finished trace
  exact,      \* exact_match/<task>.json
  results,    \* benchmark_results.jsonl, and whether eval_results.json followed it
  verdictDir, \* whether llm_judge/ exists
  sidecar,    \* llm_judge/<task>.json
  aggregate,  \* llm_judge_results.jsonl
  judge,      \* the judging process, and the pass it is in
  orphans,    \* requests that outlive the pass that made them
  cut         \* history: a pass has been cut short

runnerVars == <<launch, settings, runner, ended, traced, answerOf, traceOf>>
judgeVars == <<runnerVars, exact, results, verdictDir, sidecar, aggregate, judge, orphans, cut>>

Absent == -1  \* no row, no file
Empty == 0    \* a row without an answer
Answers == Empty..MaxLaunches
NoAnswers == [t \in Items |-> Absent]
Present(answers) == {t \in Items : answers[t] # Absent}
Only(answers, S) == [t \in Items |-> IF t \in S THEN answers[t] ELSE Absent]

\* linked: source_id is the path of the file, which a pass over files leaves in it.
NoExact == [of |-> Absent, linked |-> FALSE]

NoVerdict == [of |-> Absent, label |-> "none", linked |-> FALSE]
Verdict(of, label, linked) == [of |-> of, label |-> label, linked |-> linked]
NoVerdicts == [t \in Items |-> NoVerdict]
Judged(verdicts) == {t \in Items : verdicts[t] # NoVerdict}

NoPass == [rows |-> NoAnswers, complete |-> FALSE, found |-> NoVerdicts, verdicts |-> NoVerdicts, asking |-> {}]
Process(role, at, pass) == [role |-> role, at |-> at, pass |-> pass]

ResultsMissing == [state |-> "missing", rows |-> NoAnswers, summary |-> FALSE]
NoAggregate == [state |-> "missing", rows |-> NoVerdicts]

-----------------------------------------------------------------------------
JudgeInit ==
  /\ launch = 0 /\ settings \in Judges
  /\ runner = "off" /\ ended = {} /\ traced = <<>>
  /\ answerOf = NoAnswers /\ traceOf = NoAnswers
  /\ exact = [t \in Items |-> NoExact]
  /\ results = ResultsMissing
  /\ verdictDir = FALSE /\ sidecar = NoVerdicts /\ aggregate = NoAggregate
  /\ judge = Process("none", "idle", NoPass) /\ orphans = {} /\ cut = FALSE

\* _preflight_resume_targets
MayResume == ~(results.state = "whole" /\ Present(results.rows) = Items /\ results.summary)

\* main: the judge is started before the runner.
Launch(resume) ==
  /\ runner = "off" /\ launch < MaxLaunches
  /\ resume => launch > 0 /\ MayResume
  /\ launch' = launch + 1 /\ settings' \in Judges
  /\ runner' = IF resume THEN "tasks" ELSE "clear"
  /\ judge' = Process("watch", "idle", NoPass)
  /\ UNCHANGED <<ended, traced, answerOf, traceOf, exact, results, verdictDir, sidecar, aggregate, orphans, cut>>

-----------------------------------------------------------------------------
(***************************************************************************)
(* The runner.                                                             *)
(***************************************************************************)

\* _clear_non_resume_artifacts: the directories, then the files.
ClearDirectories ==
  /\ runner = "clear" /\ runner' = "unlink"
  /\ traceOf' = NoAnswers
  /\ exact' = [t \in Items |-> NoExact]
  /\ verdictDir' = FALSE /\ sidecar' = NoVerdicts
  /\ UNCHANGED <<launch, settings, ended, traced, answerOf, results, aggregate, judge, orphans, cut>>

ClearFiles ==
  /\ runner = "unlink" /\ runner' = "tasks"
  /\ results' = ResultsMissing /\ aggregate' = NoAggregate
  /\ UNCHANGED <<launch, settings, ended, traced, answerOf, traceOf, exact, verdictDir, sidecar, judge, orphans, cut>>

\* A task ends, or comes from its trace; its exact match is logged.
EndItem(t) ==
  LET cached == traceOf[t] # Absent
      answer == IF cached THEN traceOf[t] ELSE launch
  IN  /\ runner = "tasks" /\ t \notin ended
      /\ ended' = ended \cup {t}
      /\ answerOf' = [answerOf EXCEPT ![t] = answer]
      /\ traced' = IF cached THEN traced ELSE Append(traced, t)
      /\ exact' = [exact EXCEPT ![t] = [of |-> answer, linked |-> FALSE]]
      /\ UNCHANGED <<launch, settings, runner, traceOf, results, verdictDir, sidecar, aggregate, judge, orphans, cut>>

\* The orchestrator raised: a row without an answer, and no exact match.
FailItem(t) ==
  /\ runner = "tasks" /\ t \notin ended /\ traceOf[t] = Absent
  /\ ended' = ended \cup {t}
  /\ answerOf' = [answerOf EXCEPT ![t] = Empty]
  /\ UNCHANGED <<launch, settings, runner, traced, traceOf, exact, results, verdictDir, sidecar, aggregate, judge, orphans, cut>>

\* Nobody reads a trace before the next launch: which of them are on disk by then is
\* settled when the writer is through, or gone.
TraceOnDisk(written) == [t \in Items |-> IF t \in ToSet(written) THEN launch ELSE traceOf[t]]

otherThanResults == <<launch, settings, exact, verdictDir, sidecar, aggregate, judge, orphans, cut>>

\* The traces are all on disk; the rows are being written.
OpenResults ==
  /\ runner = "tasks" /\ ended = Items
  /\ traceOf' = TraceOnDisk(traced) /\ traced' = <<>>
  /\ results' = [results EXCEPT !.state = "open", !.rows = answerOf] /\ runner' = "rows"
  /\ ended' = {} /\ answerOf' = NoAnswers
  /\ UNCHANGED otherThanResults

CloseResults ==
  /\ runner = "rows" /\ runner' = "summary"
  /\ results' = [results EXCEPT !.state = "whole"]
  /\ UNCHANGED <<otherThanResults, ended, answerOf, traced, traceOf>>

WriteEvalResults ==
  /\ runner = "summary" /\ runner' = "done"
  /\ results' = [results EXCEPT !.summary = TRUE]
  /\ UNCHANGED <<otherThanResults, ended, answerOf, traced, traceOf>>

\* What the file of rows may look like when its writer is gone, or has not finished.
CutRows == {[results EXCEPT !.state = "whole", !.rows = Only(@, S)] : S \in SUBSET Items} \cup {[results EXCEPT !.state = "torn"]}

RunnerDies ==
  /\ runner \in {"clear", "unlink", "tasks", "rows", "summary"} /\ runner' = "done"
  /\ \E n \in 0..Len(traced) : traceOf' = TraceOnDisk(SubSeq(traced, 1, n))
  /\ ended' = {} /\ traced' = <<>> /\ answerOf' = NoAnswers
  /\ results' \in IF results.state = "open" THEN CutRows ELSE {results}
  /\ UNCHANGED otherThanResults

-----------------------------------------------------------------------------
(***************************************************************************)
(* A pass of the judge (_judge_run_dir), by the one that watches or by the *)
(* one that comes last.                                                    *)
(***************************************************************************)
otherThanPass == <<runnerVars, results>>

At(where) == judge.role \in {"watch", "final"} /\ judge.at = where
Continue(where, pass) == judge' = Process(judge.role, where, pass)

\* The watching judge polls again; the last one is through.
Resting == Process(judge.role, IF judge.role = "watch" THEN "idle" ELSE "over", NoPass)
JudgeGone == IF judge.role = "watch" THEN Process("stopped", "idle", NoPass) ELSE Resting

\* _load_source_rows: the results if there are any, without a look at their age; else
\* the exact matches, those that have not changed lately when the judge watches.
Stable == IF judge.role = "watch" THEN SUBSET Items ELSE {Items}
RowsToJudge ==
  IF results.state = "whole" THEN {[rows |-> results.rows, complete |-> TRUE]}
  ELSE IF results.state = "open" THEN {[rows |-> Only(results.rows, S), complete |-> TRUE] : S \in SUBSET Items}
  ELSE IF results.state = "torn" THEN {}
  ELSE {source \in {[rows |-> Only([t \in Items |-> exact[t].of], S), complete |-> FALSE] : S \in Stable} : Present(source.rows) # {}}

BeginPass ==
  /\ At("idle")
  /\ \E source \in RowsToJudge :
       Continue("loaded", [NoPass EXCEPT !.rows = source.rows, !.complete = source.complete])
  /\ verdictDir' = TRUE
  /\ UNCHANGED <<otherThanPass, exact, sidecar, aggregate, orphans, cut>>

\* Nothing found, or nothing that is old enough: the pass is skipped.
SkipPass ==
  /\ At("idle") /\ results.state = "missing"
  /\ judge.role = "final" => \A t \in Items : exact[t] = NoExact
  /\ judge' = Resting
  /\ verdictDir' = (verdictDir \/ \E t \in Items : exact[t] # NoExact)
  /\ UNCHANGED <<otherThanPass, exact, sidecar, aggregate, orphans, cut>>

\* A line that cannot be read ends the process; so it does in ReadVerdicts.
FailOnRows ==
  /\ At("idle") /\ results.state \in {"open", "torn"}
  /\ judge' = JudgeGone /\ orphans' = {}
  /\ UNCHANGED <<otherThanPass, exact, verdictDir, sidecar, aggregate, cut>>

\* _normalize_em_record: what is there is kept if its source is the row's; results have
\* no source of their own, and any will do.
Normalized(now, row, complete) ==
  IF now # NoExact /\ (complete \/ now.linked) THEN now ELSE [of |-> row, linked |-> ~complete]

\* _write_em_outputs
WriteExact ==
  /\ At("loaded")
  /\ exact' = [t \in Items |-> IF t \in Present(judge.pass.rows)
                 THEN Normalized(exact[t], judge.pass.rows[t], judge.pass.complete) ELSE exact[t]]
  /\ Continue("scored", judge.pass)
  /\ UNCHANGED <<otherThanPass, verdictDir, sidecar, aggregate, orphans, cut>>

\* Defect in the operator below: the verdicts of an earlier pass are in its table only.
FoundInTable(t) == aggregate.rows[t]

\* _read_reusable_judge_rows: the table wins over the sidecars.
Found(t) == IF aggregate.rows[t] # NoVerdict THEN aggregate.rows[t] ELSE sidecar[t]

\* _source_matches_current and _judge_metadata_matches_current
Reusable(verdict) ==
  /\ verdict # NoVerdict /\ verdict.label = settings
  /\ judge.pass.complete \/ verdict.linked

\* _initialize_judged_rows; the other rows are asked about, all at once.
ReadVerdicts ==
  LET found == [t \in Items |-> Found(t)]
      reused == {t \in Present(judge.pass.rows) : Reusable(found[t])}
  IN  /\ At("scored") /\ aggregate.state # "torn"
      /\ Continue("asking", [judge.pass EXCEPT !.found = found,
                               !.verdicts = [t \in Items |-> IF t \in reused THEN found[t] ELSE NoVerdict],
                               !.asking = Present(judge.pass.rows) \ reused])
      /\ UNCHANGED <<otherThanPass, exact, verdictDir, sidecar, aggregate, orphans, cut>>

FailOnVerdicts ==
  /\ At("scored") /\ aggregate.state = "torn"
  /\ judge' = JudgeGone /\ orphans' = {}
  /\ UNCHANGED <<otherThanPass, exact, verdictDir, sidecar, aggregate, cut>>

VerdictOf(t) == Verdict(judge.pass.rows[t], settings, ~judge.pass.complete)

\* A sidecar cannot be written where the directory has been removed: the pass is
\* given up, but the requests of the other rows go on.
Abort(unanswered) ==
  /\ judge' = Resting /\ cut' = TRUE
  /\ orphans' = IF judge.role = "watch" THEN orphans \cup {[item |-> t, verdict |-> VerdictOf(t)] : t \in unanswered} ELSE {}
  /\ UNCHANGED <<otherThanPass, exact, verdictDir, sidecar, aggregate>>

\* _judge_one_row
JudgeRow(t) ==
  /\ At("asking") /\ t \in judge.pass.asking
  /\ IF verdictDir
       THEN /\ sidecar' = [sidecar EXCEPT ![t] = VerdictOf(t)]
            /\ Continue("asking", [judge.pass EXCEPT !.verdicts[t] = VerdictOf(t), !.asking = @ \ {t}])
            /\ UNCHANGED <<otherThanPass, exact, verdictDir, aggregate, orphans, cut>>
       ELSE Abort(judge.pass.asking \ {t})

\* LLMJudgeError: the row stays without a verdict in this pass.
RefuseRow(t) ==
  /\ At("asking") /\ t \in judge.pass.asking
  /\ Continue("asking", [judge.pass EXCEPT !.asking = @ \ {t}])
  /\ UNCHANGED <<otherThanPass, exact, verdictDir, sidecar, aggregate, orphans, cut>>

\* A request of a pass that was given up is answered, or not.
EndOrphan(orphan) ==
  /\ orphans' = orphans \ {orphan}
  /\ sidecar' \in {sidecar} \cup (IF verdictDir THEN {[sidecar EXCEPT ![orphan.item] = orphan.verdict]} ELSE {})
  /\ UNCHANGED <<otherThanPass, exact, verdictDir, aggregate, judge, cut>>

\* _finalize_judge_rows: to a complete source belong also the verdicts found of tasks
\* it has no row of, under the label of this judge.
FinalVerdicts ==
  [t \in Items |->
     IF t \in Present(judge.pass.rows) THEN judge.pass.verdicts[t]
     ELSE IF judge.pass.complete /\ judge.pass.found[t] # NoVerdict THEN [judge.pass.found[t] EXCEPT !.label = settings]
     ELSE NoVerdict]

Finalize ==
  /\ At("asking") /\ judge.pass.asking = {}
  /\ IF verdictDir \/ Judged(FinalVerdicts) = {}
       THEN /\ sidecar' = [t \in Items |-> IF FinalVerdicts[t] # NoVerdict THEN FinalVerdicts[t] ELSE sidecar[t]]
            /\ Continue("saved", [judge.pass EXCEPT !.verdicts = FinalVerdicts])
            /\ UNCHANGED <<otherThanPass, exact, verdictDir, aggregate, orphans, cut>>
       ELSE Abort({})

\* _judge_summary_is_complete; llm_judge_skipped is a difference of two numbers.
FullyJudged == judge.pass.complete /\ Cardinality(Present(judge.pass.rows)) <= Cardinality(Judged(judge.pass.verdicts))

\* _write_judge_outputs, and what _run_once and _amain make of its summary.
WriteJudgeOutputs ==
  /\ At("saved")
  /\ aggregate' = [state |-> "whole", rows |-> judge.pass.verdicts]
  /\ IF FullyJudged THEN judge' = JudgeGone /\ orphans' = {} ELSE judge' = Resting /\ UNCHANGED orphans
  /\ UNCHANGED <<otherThanPass, exact, verdictDir, sidecar, cut>>

-----------------------------------------------------------------------------
(***************************************************************************)
(* The launcher, when the runner is done.                                  *)
(***************************************************************************)
otherThanJudge == <<runnerVars, exact, results, verdictDir>>

\* _stop_process: a judge between two passes stops.
StopWatch ==
  /\ runner = "done" /\ judge.role = "watch" /\ judge.at = "idle"
  /\ judge' = Process("stopped", "idle", NoPass) /\ orphans' = {}
  /\ UNCHANGED <<otherThanJudge, sidecar, aggregate, cut>>

\* One that is in a pass has ten seconds to end it; a file it is writing is then cut.
KillWatch ==
  /\ runner = "done" /\ judge.role = "watch" /\ judge.at # "idle"
  /\ judge' = Process("stopped", "idle", NoPass) /\ orphans' = {} /\ cut' = TRUE
  /\ sidecar' \in {sidecar} \cup (IF judge.at = "asking" THEN {[sidecar EXCEPT ![t] = NoVerdict] : t \in Present(judge.pass.rows)} ELSE {})
  /\ aggregate' \in {aggregate} \cup
       (IF judge.at = "saved" THEN {[state |-> "torn", rows |-> NoVerdicts], [state |-> "whole", rows |-> NoVerdicts]} ELSE {})
  /\ UNCHANGED otherThanJudge

\* _final_online_judge
StartLastPass ==
  /\ runner = "done" /\ judge.role = "stopped"
  /\ judge' = Process("final", "idle", NoPass)
  /\ UNCHANGED <<otherThanJudge, sidecar, aggregate, orphans, cut>>

EndLaunch ==
  /\ judge.role = "final" /\ judge.at = "over"
  /\ runner' = "off" /\ judge' = Process("none", "idle", NoPass)
  /\ UNCHANGED <<launch, settings, ended, traced, answerOf, traceOf, exact, results, verdictDir, sidecar, aggregate, orphans, cut>>

JudgeNext ==
  \/ \E resume \in BOOLEAN : Launch(resume)
  \/ ClearDirectories \/ ClearFiles
  \/ \E t \in Items : EndItem(t) \/ FailItem(t) \/ JudgeRow(t) \/ RefuseRow(t)
  \/ OpenResults \/ CloseResults \/ WriteEvalResults \/ RunnerDies
  \/ BeginPass \/ SkipPass \/ FailOnRows \/ WriteExact \/ ReadVerdicts \/ FailOnVerdicts
  \/ \E orphan \in orphans : EndOrphan(orphan)
  \/ Finalize \/ WriteJudgeOutputs
  \/ StopWatch \/ KillWatch \/ StartLastPass \/ EndLaunch

JudgeSpec == JudgeInit /\ [][JudgeNext]_judgeVars

-----------------------------------------------------------------------------
(***************************************************************************)
(* Properties.                                                             *)
(***************************************************************************)

\* Unless a pass was cut short, no model is asked about an answer that a sidecar of
\* its own pass or of an earlier one already holds a verdict of this judge on: although
\* passes over files come and go with their age, and each rewrites the whole table.
JudgedOnce ==
  At("asking") /\ ~cut =>
    \A t \in judge.pass.asking : ~(Reusable(sidecar[t]) /\ sidecar[t].of = judge.pass.rows[t])

\* When a launch is over, the verdicts in the table are verdicts on the answers in the
\* results: a verdict is reused while it "still matches the current task source"
\* (judge_existing.py, _source_matches_current).
VerdictsMatchAnswers ==
  runner = "off" /\ results.state = "whole" =>
    \A t \in Present(results.rows) : aggregate.rows[t] # NoVerdict => aggregate.rows[t].of = results.rows[t]
=============================================================================
