--------------------------- MODULE DashboardRefresh ---------------------------
(***************************************************************************)
(* The artifacts of a run directory, made from its traces, its rows of     *)
(* exact matches and its verdicts, and who makes them: the runner at its   *)
(* end, a pass of the judge, and the refresher that is left watching       *)
(* (recipe/common/log_processing/refresh_dashboard_artifacts.py), which    *)
(* tells what is out of date by the files' times of modification.          *)
(*                                                                         *)
(* Of a time all that matters is which files were written after which, and *)
(* of a content whether it is made from a source as the source is now.     *)
(***************************************************************************)
EXTENDS Integers, FiniteSets

VARIABLES
  anyTrace,  \* there is a trace
  files,   \* the artifacts that are there
  after,   \* per source the artifacts written since it was
  seen,    \* per source the artifacts, and the writers' memories, made from it as it is now
  forced,  \* --force
  writing, \* where each of the writers is
  ran,     \* the runner is through with the directory
  late     \* history: the verdicts were written after it was, and no refresher was
           \* stopped half-way since

refreshVars == <<anyTrace, files, after, seen, forced, writing, ran, late>>

Sources == {"traces", "rows", "verdicts"}

\* eval_results.json; dashboard_summary.json with dashboard_events.jsonl; the
\* distributions and the message statistics, of traces alone.
Artifacts == {"results", "summary", "counts"}
Writers == {"runner", "judge", "watch"}

RefreshInit ==
  /\ anyTrace = FALSE /\ files = {} /\ forced \in BOOLEAN
  /\ after = [s \in Sources |-> Artifacts] /\ seen = [s \in Sources |-> Artifacts]
  /\ writing = [w \in Writers |-> "idle"] /\ ran = FALSE /\ late = FALSE

Steps(w, from, to) == writing[w] = from /\ writing' = [writing EXCEPT ![w] = to]

\* A source is written again: nothing is made from it, or newer.
Renew(s) ==
  /\ after' = [after EXCEPT ![s] = {}]
  /\ seen' = [seen EXCEPT ![s] = {}]

\* y has been made from what x was made from.
Copies(sourcesRead, x, y) ==
  [s \in Sources |-> IF s \notin sourcesRead THEN seen[s]
                     ELSE IF x \in seen[s] THEN seen[s] \cup {y} ELSE seen[s] \ {y}]

\* The writer reads a source itself.
Reads(w, s) == seen' = [seen EXCEPT ![s] = @ \cup {w}]

Puts(artifact) ==
  /\ files' = files \cup {artifact}
  /\ after' = [s \in Sources |-> after[s] \cup {artifact}]

-----------------------------------------------------------------------------
\* The runner rolls out: a trace, and then the row of its match.
WriteTrace ==
  /\ ~ran /\ writing["runner"] = "idle"
  /\ anyTrace' = TRUE /\ Renew("traces")
  /\ UNCHANGED <<files, forced, writing, ran, late>>

WriteRow ==
  /\ ~ran /\ writing["runner"] = "idle" /\ anyTrace
  /\ Renew("rows")
  /\ UNCHANGED <<anyTrace, files, forced, writing, ran, late>>

\* At its end it writes eval_results.json from what it has in memory.
EndRun ==
  /\ ~ran /\ Steps("runner", "idle", "results")
  /\ Puts("results")
  /\ seen' = [s \in Sources |-> seen[s] \cup {"results"}]
  /\ UNCHANGED <<anyTrace, forced, ran, late>>

\* A pass of the judge writes its verdicts, and then the artifacts.
WriteVerdicts ==
  /\ Steps("judge", "idle", "results")
  /\ Renew("verdicts") /\ late' = ran
  /\ UNCHANGED <<anyTrace, files, forced, ran>>

-----------------------------------------------------------------------------
(***************************************************************************)
(* The refresher (refresh_run, build_eval_results_from_run).               *)
(***************************************************************************)
\* Defect in the operator below: the artifact written last stands for all of them.
NewestIsCurrent == files = Artifacts /\ \E a \in Artifacts : \A s \in Sources : a \in after[s]

\* _artifacts_are_current
ArtifactsAreCurrent == files = Artifacts /\ \A s \in Sources : after[s] = Artifacts

\* Without --force results that are there are taken as they are.
BeginRefresh ==
  /\ Steps("watch", "idle", IF "results" \in files /\ ~forced THEN "results" ELSE "scan")
  /\ ~(forced /\ ArtifactsAreCurrent)
  /\ UNCHANGED <<anyTrace, files, after, seen, forced, ran, late>>

\* scan_agentic_trace_index
ScanTraces ==
  /\ anyTrace /\ Steps("watch", "scan", "rows") /\ Reads("watch", "traces")
  /\ UNCHANGED <<anyTrace, files, after, forced, ran, late>>

\* A run without a trace is left for the next cycle.
FindNoTraces ==
  /\ ~anyTrace /\ Steps("watch", "scan", "idle")
  /\ UNCHANGED <<anyTrace, files, after, seen, forced, ran, late>>

\* _load_em_results
LoadRows ==
  /\ Steps("watch", "rows", "write") /\ Reads("watch", "rows")
  /\ UNCHANGED <<anyTrace, files, after, forced, ran, late>>

WriteResults ==
  /\ Steps("watch", "write", "results")
  /\ Puts("results") /\ seen' = Copies({"traces", "rows"}, "watch", "results")
  /\ UNCHANGED <<anyTrace, forced, ran, late>>

-----------------------------------------------------------------------------
(***************************************************************************)
(* write_dashboard_artifacts, which all three end with.                    *)
(***************************************************************************)
\* The results are read from their file, whoever wrote it, then the verdicts.
ReadStats(w) ==
  /\ Steps(w, "results", "read")
  /\ seen' = [Copies({"traces", "rows"}, "results", w) EXCEPT !["verdicts"] = @ \cup {w}]
  /\ UNCHANGED <<anyTrace, files, after, forced, ran, late>>

WriteDashboard(w) ==
  /\ Steps(w, "read", "summary")
  /\ Puts("summary") /\ seen' = Copies(Sources, w, "summary")
  /\ UNCHANGED <<anyTrace, forced, ran, late>>

Forgotten(w) == [s \in Sources |-> seen[s] \ {w}]

WriteCounts(w) ==
  /\ Steps(w, "summary", "idle")
  /\ Puts("counts") /\ seen' = [Forgotten(w) EXCEPT !["traces"] = @ \cup {"counts"}]
  /\ ran' = (ran \/ w = "runner")
  /\ UNCHANGED <<anyTrace, forced, late>>

\* Stopped or killed between two steps.
StopWriter(w) ==
  /\ w # "runner" /\ writing[w] # "idle"
  /\ writing' = [writing EXCEPT ![w] = "idle"] /\ seen' = Forgotten(w)
  /\ late' = (late /\ w = "judge")
  /\ UNCHANGED <<anyTrace, files, after, forced, ran>>

RefreshNext ==
  \/ WriteTrace \/ WriteRow \/ EndRun \/ WriteVerdicts
  \/ BeginRefresh \/ ScanTraces \/ FindNoTraces \/ LoadRows \/ WriteResults
  \/ \E w \in Writers : ReadStats(w) \/ WriteDashboard(w) \/ WriteCounts(w) \/ StopWriter(w)

RefreshSpec == RefreshInit /\ [][RefreshNext]_refreshVars

-----------------------------------------------------------------------------
(***************************************************************************)
(* Properties.                                                             *)
(***************************************************************************)

\* The refresher would leave the directory as it is, and nobody else is at work in it.
LeftAlone == forced /\ ArtifactsAreCurrent /\ \A w \in Writers : writing[w] = "idle"

\* However a pass of the judge, or its end, and the refresher overlap: where the refresher
\* leaves a directory alone, verdicts written after the runner was through have reached
\* the summary, though either may have written it from what it read before. (A refresher
\* that is stopped between the results and the summary can leave the old ones.)
VerdictsReachSummary == LeftAlone /\ late => "summary" \in seen["verdicts"]
=============================================================================
