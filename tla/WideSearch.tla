------------------------------ MODULE WideSearch ------------------------------
(***************************************************************************)
(* The k-trial loop of WideSearch                                          *)
(* (recipe/wide_search/runners/evaluate_widesearch.py) over the launches   *)
(* that resume a run directory or start afresh in it, and the additive     *)
(* re-judging of what it left (rejudge_widesearch.py) between them.        *)
(*                                                                         *)
(* A score is told by the launch that rolled its answer out: what the      *)
(* table is worth does not matter, whether the score is of an answer that  *)
(* is still in the directory does.                                         *)
(***************************************************************************)
EXTENDS Integers, FiniteSets, SequencesExt

CONSTANTS
  Instances,       \* the queries of the dataset
  MaxTrials,       \* the largest num_trials of a launch
  MaxWideLaunches  \* bound on the launches

ASSUME WideAssumption == Instances # {} /\ MaxTrials \in Nat \ {0} /\ MaxWideLaunches \in Nat

VARIABLES
  wideLaunch, \* the number of the launch
  wideAt,     \* where its loop is
  expected,   \* its num_trials
  queries,    \* the instances it has been given (instance_ids, max_tasks)
  trial,      \* per trial where its coroutine is
  unwritten,  \* the finished traces the writer may not have come to, in whatever order
  trialTrace, \* on disk: the finished trace of the trial's last attempt
  scoreFile,  \* widesearch_scores/<trial>.json
  trials,     \* per trial the results in the list that is aggregated
  rejudging,  \* where the additive judge is
  tagged,     \* widesearch_scores_<TAG>/<trial>.json
  retrials    \* per trial the results in its list

diskVars == <<trialTrace, scoreFile, tagged>>
loopVars == <<wideLaunch, wideAt, expected, queries, trial, unwritten, trials>>
rejudgeVars == <<rejudging, retrials>>
wideVars == <<diskVars, loopVars, rejudgeVars>>

Trials == Instances \X (0..MaxTrials - 1)

Nothing == 0  \* no file
Cut == -1     \* a file that cannot be read
Failed == -2  \* the sidecar of a run that raised: no answer, a message with a retryable prefix
Scored(file) == file > 0

\* scheduled_trial_ids
Scheduled == {t \in Trials : t[1] \in queries /\ t[2] < expected}

OnlyThese(files, S) == [t \in Trials |-> IF t \in S THEN files[t] ELSE Nothing]
NoFiles == OnlyThese(<<>>, {})
AsResults(files) == [t \in Trials |-> IF Scored(files[t]) THEN <<files[t]>> ELSE <<>>]

WideInit ==
  /\ wideLaunch = 0 /\ wideAt = "off" /\ expected = 1 /\ queries = Instances
  /\ trial = [t \in Trials |-> "over"] /\ unwritten = {}
  /\ trialTrace = NoFiles /\ scoreFile = NoFiles /\ tagged = NoFiles
  /\ trials = AsResults(NoFiles) /\ retrials = AsResults(NoFiles) /\ rejudging = FALSE

-----------------------------------------------------------------------------
(***************************************************************************)
(* The loop (run_widesearch_eval_loop).                                    *)
(***************************************************************************)
BeginLoop(resume) ==
  /\ wideAt = "off" /\ ~rejudging /\ wideLaunch < MaxWideLaunches
  /\ resume => wideLaunch > 0
  /\ wideLaunch' = wideLaunch + 1
  /\ wideAt' = IF resume THEN "load" ELSE "clear_traces"
  /\ expected' \in 1..MaxTrials /\ queries' \in (SUBSET Instances) \ {{}}
  /\ UNCHANGED <<diskVars, trial, unwritten, trials, rejudgeVars>>

\* Two trees are removed, one after the other.
ClearTraces ==
  /\ wideAt = "clear_traces" /\ wideAt' = "clear_scores"
  /\ trialTrace' = NoFiles
  /\ UNCHANGED <<scoreFile, tagged, wideLaunch, expected, queries, trial, unwritten, trials, rejudgeVars>>

ClearScores ==
  /\ wideAt = "clear_scores" /\ wideAt' = "load"
  /\ scoreFile' = NoFiles
  /\ UNCHANGED <<trialTrace, tagged, wideLaunch, expected, queries, trial, unwritten, trials, rejudgeVars>>

\* _scan_completed_trial_ids
CompletedTrials == {t \in Trials : trialTrace[t] # Nothing}

\* _load_scored_trials
OnFile(files) == {t \in Trials : Scored(files[t])}

\* Defect in the operator below: a score is believed without its trace.
ScoresWithoutTraces(files) == OnFile(files) \cap Scheduled

\* The scores that stand: those of the schedule whose trace is on disk.
ScoresToKeep(files) == OnFile(files) \cap Scheduled \cap CompletedTrials

\* The trials whose coroutine does not return at once.
TrialsToScore(kept) == Scheduled \ kept

\* The other scores, and those of runs that raised, are quarantined: files that cannot
\* be read stay where they are.
LoadScores ==
  LET kept == ScoresToKeep(scoreFile)
  IN  /\ wideAt = "load" /\ wideAt' = "trials"
      /\ scoreFile' = OnlyThese(scoreFile, kept \cup {t \in Trials : scoreFile[t] = Cut})
      /\ trials' = AsResults(OnlyThese(scoreFile, kept))
      /\ trial' = [t \in Trials |-> IF t \in TrialsToScore(kept) THEN "waiting" ELSE "over"]
      /\ UNCHANGED <<trialTrace, tagged, wideLaunch, expected, queries, unwritten, rejudgeVars>>

Moves(t, from, to) == wideAt = "trials" /\ trial[t] = from /\ trial' = [trial EXCEPT ![t] = to]

\* The trial joins the list, and its sidecar is written in place, under one lock.
JoinsList(t, score) ==
  /\ trials' = [trials EXCEPT ![t] = Append(@, IF score = Failed THEN Nothing ELSE score)]
  /\ scoreFile' = [scoreFile EXCEPT ![t] = score]
  /\ UNCHANGED <<trialTrace, tagged, wideLaunch, wideAt, expected, queries, rejudgeVars>>

\* Rolled out, in one or more attempts.
RollOutTrial(t) ==
  /\ Moves(t, "waiting", "rolled") /\ trialTrace[t] = Nothing
  /\ unwritten' = unwritten \cup {t}
  /\ UNCHANGED <<diskVars, wideLaunch, wideAt, expected, queries, trials, rejudgeVars>>

\* The orchestrator raised; an attempt may have finished before it did.
TrialRaises(t) ==
  /\ Moves(t, "waiting", "over") /\ trialTrace[t] = Nothing
  /\ unwritten' \in {unwritten, unwritten \cup {t}}
  /\ JoinsList(t, Failed)

\* A trial with a finished trace is scored from it, another from its result.
ScoreTrial(t) ==
  /\ \/ Moves(t, "rolled", "over") /\ JoinsList(t, wideLaunch)
     \/ /\ Moves(t, "waiting", "over") /\ trialTrace[t] # Nothing
        /\ JoinsList(t, trialTrace[t])
  /\ UNCHANGED unwritten

\* Nobody reads a trace of this launch before its end: when the writer comes to it matters
\* only then.
Written(S) == [t \in Trials |-> IF t \in S THEN wideLaunch ELSE trialTrace[t]]

\* task_logger.close waits for the writer.
EndLoop ==
  /\ wideAt = "trials" /\ \A t \in Trials : trial[t] = "over"
  /\ wideAt' = "done" /\ unwritten' = {} /\ trialTrace' = Written(unwritten)
  /\ UNCHANGED <<scoreFile, tagged, wideLaunch, expected, queries, trial, trials, rejudgeVars>>

LeaveLoop ==
  /\ wideAt = "done" /\ wideAt' = "off"
  /\ trials' = AsResults(NoFiles)
  /\ UNCHANGED <<diskVars, wideLaunch, expected, queries, trial, unwritten, rejudgeVars>>

\* The process dies: the traces that waited are lost, and the sidecar that was being
\* written may be cut.
LoopDies ==
  /\ wideAt \in {"clear_traces", "clear_scores", "load", "trials"} /\ wideAt' = "off"
  /\ \E S \in SUBSET unwritten : trialTrace' = Written(S)
  /\ scoreFile' \in {scoreFile} \cup {[scoreFile EXCEPT ![t] = Cut] : t \in {u \in Trials : trial[u] # "over"}}
  /\ unwritten' = {} /\ trial' = [t \in Trials |-> "over"] /\ trials' = AsResults(NoFiles)
  /\ UNCHANGED <<tagged, wideLaunch, expected, queries, rejudgeVars>>

-----------------------------------------------------------------------------
(***************************************************************************)
(* Re-judging (rejudge_run_dir), with the configuration of the last launch.*)
(***************************************************************************)
\* What is under the tag is kept, or it is not (--no-resume), or not where a judge erred
\* (--rejudge-errored).
BeginRejudge ==
  /\ wideAt = "off" /\ wideLaunch > 0 /\ ~rejudging /\ rejudging' = TRUE
  /\ \E kept \in SUBSET OnFile(tagged) : retrials' = AsResults(OnlyThese(tagged, kept))
  /\ UNCHANGED <<diskVars, loopVars>>

\* _rejudge_trial: one without a trace is left out.
Rejudge(t) ==
  /\ rejudging /\ t \in Scheduled /\ retrials[t] = <<>> /\ trialTrace[t] # Nothing
  /\ retrials' = [retrials EXCEPT ![t] = <<trialTrace[t]>>]
  /\ tagged' = [tagged EXCEPT ![t] = trialTrace[t]]
  /\ UNCHANGED <<trialTrace, scoreFile, loopVars, rejudging>>

Rejudged == rejudging /\ \A t \in Scheduled : retrials[t] = <<>> => trialTrace[t] = Nothing

\* _write_tagged_per_task_and_summary; it raises if an instance has too many trials.
EndRejudge ==
  /\ Rejudged /\ rejudging' = FALSE /\ retrials' = AsResults(NoFiles)
  /\ UNCHANGED <<diskVars, loopVars>>

RejudgeDies ==
  /\ rejudging /\ rejudging' = FALSE /\ retrials' = AsResults(NoFiles)
  /\ tagged' \in {tagged} \cup {[tagged EXCEPT ![t] = Cut] : t \in {u \in Scheduled : retrials[u] = <<>> /\ trialTrace[u] # Nothing}}
  /\ UNCHANGED <<trialTrace, scoreFile, loopVars>>

WideNext ==
  \/ \E resume \in BOOLEAN : BeginLoop(resume)
  \/ ClearTraces \/ ClearScores \/ LoadScores
  \/ \E t \in Trials : RollOutTrial(t) \/ TrialRaises(t) \/ ScoreTrial(t) \/ Rejudge(t)
  \/ EndLoop \/ LeaveLoop \/ LoopDies
  \/ BeginRejudge \/ EndRejudge \/ RejudgeDies

WideSpec == WideInit /\ [][WideNext]_wideVars

-----------------------------------------------------------------------------
(***************************************************************************)
(* Properties.                                                             *)
(***************************************************************************)

\* How many results the trials of an instance have between them.
ResultsOf(results, i) == Cardinality(UNION {{n} \X DOMAIN results[<<i, n>>] : n \in 0..MaxTrials - 1})

\* The instances that per_task_aggregates is given.
CompleteInstances == {i \in Instances : ResultsOf(trials, i) >= expected}

\* However launches with other schedules were cut short before: no instance ever has more
\* results than trials (per_task_aggregate would raise, and with it the loop), a score
\* an earlier launch left is counted only with the finished trace it is of, and when the
\* loop is through the summary covers just the instances it was given.
TrialsAddUp ==
  wideAt \in {"trials", "done"} =>
    /\ \A i \in Instances : ResultsOf(trials, i) <= expected
    /\ \A t \in Trials : \A n \in DOMAIN trials[t] :
         trials[t][n] \notin {Nothing, wideLaunch} => t \in Scheduled /\ trialTrace[t] = trials[t][n]
    /\ wideAt = "done" => CompleteInstances = queries
=============================================================================
