------------------------- MODULE Evaluation_proofs -------------------------
(***************************************************************************)
(* Runs and what is made of them: the books of a benchmark run, the        *)
(* verdicts of its judge, the F1 pass over its rows, the trials of         *)
(* WideSearch, the calls behind one verdict and the artifacts of a run     *)
(* directory.  Each part has its own invariant.                            *)
(***************************************************************************)
EXTENDS BenchmarkRun, JudgeExisting, DsqaVerify, WideSearch, LlmVerifier, DashboardRefresh,
  FiniteSetTheorems, WellFoundedInduction, TLAPS

-----------------------------------------------------------------------------
(***************************************************************************)
(* The books of a benchmark run balance, and what is final stays final,    *)
(* for every dataset, number of attempts, concurrency and number of        *)
(* resumed runs.  The first rests on counting: in every table there is one *)
(* row for each task that is through, and none for the others.  The second *)
(* rests on the first: a run only writes a summary that covers its tasks,  *)
(* and only a run that is not final is resumed.                            *)
(***************************************************************************)
\* What the proofs need to know of an item: where it is.
ItemShaped(this) ==
  this = [at |-> this.at, n |-> this.n, refs |-> this.refs, results |-> this.results, cached |-> this.cached]

BenchmarkShape ==
  /\ item = [t \in Tasks |-> item[t]]
  /\ \A t \in Tasks : ItemShaped(item[t])
  /\ rows = [b \in AttemptNumbers |-> [t \in Tasks |-> rows[b][t]]]
  /\ tally = [b \in AttemptNumbers |-> tally[b]]
  /\ report \in [tasks : SUBSET Tasks, items : Nat, budgets : SUBSET AttemptNumbers]

Reported == {t \in Tasks : item[t].at = "reported"}
Right(b) == {t \in Reported : rows[b][t][1].answered}

\* While tasks run, each table has one row for every task that is through.
RowsCounted ==
  stage = "tasks" =>
    \A b \in SweepBudgets :
      /\ \A t \in Reported : Len(rows[b][t]) = 1
      /\ \A t \in Tasks \ Reported : rows[b][t] = <<>>
      /\ tally[b] = [correct |-> Cardinality(Right(b)), total |-> Cardinality(Reported)]

\* Nothing is final while its tasks run or its rows are being written.
FinalOnlyAtEnd == stage \in {"tasks", "rows"} => ~Finalized

BenchmarkInv == BenchmarkShape /\ RowsCounted /\ EveryTaskReportedOnce /\ FinalOnlyAtEnd

-----------------------------------------------------------------------------
\* The largest budget is always one of those reported.
LEMMA LargestReported == MaxAttempts \in SweepBudgets /\ SweepBudgets \subseteq AttemptNumbers
  BY BenchmarkAssumption DEF SweepBudgets, AttemptNumbers

LEMMA ReportedFinite == IsFiniteSet(Reported) /\ \A b \in SweepBudgets : IsFiniteSet(Right(b))
  <1>1. Reported \subseteq Tasks /\ \A b \in SweepBudgets : Right(b) \subseteq Tasks
    BY DEF Reported, Right
  <1> QED BY <1>1, FS_Subset, BenchmarkAssumption

LEMMA EmptyReportNotFinal == NoReport.tasks # Tasks
  BY BenchmarkAssumption DEF NoReport

-----------------------------------------------------------------------------
(***************************************************************************)
(* Steps of a task.                                                        *)
(***************************************************************************)

\* A row added in every table for a task that had none keeps the tables in order.
LEMMA RowAdded ==
  ASSUME BenchmarkInv, NEW t \in Tasks, NEW answers, NEW cached,
         stage = "tasks", item[t].at # "reported",
         AddRows(t, SweepBudgets, answers, cached),
         item' = [item EXCEPT ![t].at = "reported"],
         sweeping' = sweeping, stage' = stage, report' = report
  PROVE  BenchmarkInv'
  <1> USE DEF BenchmarkInv
  <1> DEFINE new == [item[t] EXCEPT !.at = "reported"]
             row(b) == [answered |-> answers[b], cached |-> cached]
  <1>0. SweepBudgets' = SweepBudgets /\ SweepBudgets \subseteq AttemptNumbers
    BY LargestReported DEF SweepBudgets, AttemptNumbers
  <1>1. /\ item' = [item EXCEPT ![t] = new] /\ new.at = "reported" /\ ItemShaped(new)
    BY DEF BenchmarkShape, ItemShaped
  <1> HIDE DEF new
  <1>2. item'[t] = new /\ \A u \in Tasks \ {t} : item'[u] = item[u]
    BY <1>1 DEF BenchmarkShape
  <1>3. Reported' = Reported \cup {t} /\ t \notin Reported
    BY <1>1, <1>2 DEF Reported
  <1>4. ASSUME NEW b \in SweepBudgets
        PROVE  /\ Len(rows'[b][t]) = 1 /\ rows'[b][t][1].answered = answers[b]
               /\ \A u \in Tasks \ {t} : rows'[b][u] = rows[b][u]
               /\ tally'[b] = [correct |-> tally[b].correct + (IF answers[b] THEN 1 ELSE 0),
                               total |-> tally[b].total + 1]
    <2>1. b \in AttemptNumbers
      BY <1>0
    <2>2. rows'[b] = [rows[b] EXCEPT ![t] = Append(rows[b][t], row(b))]
      BY <2>1 DEF AddRows
    <2>3. rows[b] = [u \in Tasks |-> rows[b][u]]
      BY <2>1 DEF BenchmarkShape
    <2>4. rows[b][t] = <<>>
      BY <1>3 DEF RowsCounted
    <2>5. rows'[b][t] = Append(<<>>, row(b))
      BY <2>2, <2>3, <2>4
    <2>7. Append(<<>>, row(b)) = <<row(b)>> /\ Len(<<row(b)>>) = 1 /\ <<row(b)>>[1].answered = answers[b]
      OBVIOUS
    <2>6. tally'[b] = [correct |-> tally[b].correct + (IF answers[b] THEN 1 ELSE 0), total |-> tally[b].total + 1]
      BY <2>1 DEF AddRows
    <2> HIDE DEF row
    <2> QED BY <2>2, <2>3, <2>5, <2>6, <2>7
  <1> HIDE DEF row
  <1>5. BenchmarkShape'
    <2>1. item' = [u \in Tasks |-> item'[u]]
      BY <1>1 DEF BenchmarkShape
    <2>2. \A u \in Tasks : ItemShaped(item'[u])
      BY <1>1, <1>2 DEF BenchmarkShape
    <2>3. rows' = [b \in AttemptNumbers |-> [u \in Tasks |-> rows'[b][u]]]
      <3>1. \A b \in AttemptNumbers : rows'[b] = [u \in Tasks |-> rows'[b][u]]
        <4> TAKE b \in AttemptNumbers
        <4>1. rows[b] = [u \in Tasks |-> rows[b][u]]
          BY DEF BenchmarkShape
        <4> DEFINE longer == Append(rows[b][t], [answered |-> answers[b], cached |-> cached])
        <4>2. rows'[b] = IF b \in SweepBudgets THEN [rows[b] EXCEPT ![t] = longer] ELSE rows[b]
          BY DEF AddRows
        <4> HIDE DEF longer
        <4> QED BY <4>1, <4>2
      <3>2. rows' = [b \in AttemptNumbers |-> rows'[b]]
        BY DEF AddRows
      <3> QED BY <3>1, <3>2
    <2>4. tally' = [b \in AttemptNumbers |-> tally'[b]]
      BY DEF AddRows
    <2> QED BY <2>1, <2>2, <2>3, <2>4 DEF BenchmarkShape, ItemShaped, AttemptNumbers
  <1>6. RowsCounted'
    <2>1. ASSUME NEW b \in SweepBudgets
          PROVE  /\ \A u \in Reported' : Len(rows'[b][u]) = 1
                 /\ \A u \in Tasks \ Reported' : rows'[b][u] = <<>>
                 /\ tally'[b] = [correct |-> Cardinality(Right(b)'), total |-> Cardinality(Reported')]
      <3>1. Len(rows'[b][t]) = 1 /\ rows'[b][t][1].answered = answers[b]
        BY <1>4
      <3>2. \A u \in Tasks : u # t => rows'[b][u] = rows[b][u]
        BY <1>4
      <3>3. Right(b)' = IF answers[b] THEN Right(b) \cup {t} ELSE Right(b)
        <4>1. \A u \in Reported : rows'[b][u] = rows[b][u]
          BY <1>3, <3>2 DEF Reported
        <4>2. Right(b)' = {u \in Reported' : rows'[b][u][1].answered}
          BY DEF Right
        <4> QED BY <1>3, <3>1, <4>1, <4>2 DEF Right
      <3>4. tally[b] = [correct |-> Cardinality(Right(b)), total |-> Cardinality(Reported)]
        BY DEF RowsCounted
      <3>5. Cardinality(Reported') = Cardinality(Reported) + 1
        BY <1>3, ReportedFinite, FS_AddElement
      <3>6. Cardinality(Right(b)') = Cardinality(Right(b)) + (IF answers[b] THEN 1 ELSE 0)
        <4>1. IsFiniteSet(Right(b)) /\ t \notin Right(b)
          BY <1>3, ReportedFinite DEF Right
        <4>2. Cardinality(Right(b)) \in Nat
          BY <4>1, FS_CardinalityType
        <4>3. Cardinality(Right(b) \cup {t}) = Cardinality(Right(b)) + 1
          BY <4>1, FS_AddElement
        <4> QED BY <3>3, <4>2, <4>3
      <3>7. tally'[b] = [correct |-> Cardinality(Right(b)'), total |-> Cardinality(Reported')]
        BY <1>4, <3>4, <3>5, <3>6
      <3>8. \A u \in Reported' : Len(rows'[b][u]) = 1
        <4>1. \A u \in Reported : u \in Tasks /\ u # t /\ Len(rows[b][u]) = 1
          BY <1>3 DEF RowsCounted, Reported
        <4> QED BY <1>3, <3>1, <3>2, <4>1
      <3>9. \A u \in Tasks \ Reported' : rows'[b][u] = <<>>
        <4>1. \A u \in Tasks \ Reported : rows[b][u] = <<>>
          BY DEF RowsCounted
        <4> QED BY <1>3, <3>2, <4>1
      <3> QED BY <3>7, <3>8, <3>9
    <2> QED BY <1>0, <2>1 DEF RowsCounted
  <1>7. EveryTaskReportedOnce'
    BY DEF EveryTaskReportedOnce
  <1>8. FinalOnlyAtEnd'
    BY DEF FinalOnlyAtEnd, Finalized
  <1> QED BY <1>5, <1>6, <1>7, <1>8

\* A task that moves without being through leaves the tables as they are.
LEMMA TaskMoves ==
  ASSUME BenchmarkInv, NEW t \in Tasks, NEW new,
         stage = "tasks", item[t].at # "reported",
         item' = [item EXCEPT ![t] = new], ItemShaped(new), new.at # "reported",
         UNCHANGED <<sweeping, stage, report, rows, tally>>
  PROVE  BenchmarkInv'
  <1> USE DEF BenchmarkInv
  <1>1. item'[t] = new /\ (\A u \in Tasks \ {t} : item'[u] = item[u]) /\ item' = [u \in Tasks |-> item'[u]]
    BY DEF BenchmarkShape
  <1>2. Reported' = Reported
    BY <1>1 DEF Reported
  <1>3. BenchmarkShape'
    BY <1>1 DEF BenchmarkShape, ItemShaped, AttemptNumbers
  <1>4. RowsCounted'
    BY <1>2 DEF RowsCounted, Right, SweepBudgets, AttemptNumbers
  <1> QED BY <1>3, <1>4 DEF EveryTaskReportedOnce, FinalOnlyAtEnd, Finalized

\* An item that moves keeps its shape.
LEMMA MovedItemShaped ==
  ASSUME NEW this, ItemShaped(this), NEW at, NEW n
  PROVE  /\ ItemShaped([this EXCEPT !.at = at, !.n = n])
         /\ [this EXCEPT !.at = at, !.n = n].at = at
  <1> DEFINE moved == [this EXCEPT !.at = at]
             new == [this EXCEPT !.at = at, !.n = n]
  <1>1. ItemShaped(moved) /\ moved.at = at
    BY DEF ItemShaped
  <1>2. new = [moved EXCEPT !.n = n]
    OBVIOUS
  <1> HIDE DEF moved, new
  <1>3. ItemShaped(new) /\ new.at = at
    BY <1>1, <1>2 DEF ItemShaped
  <1> QED BY <1>3 DEF new

LEMMA BeginKeeps ==
  ASSUME BenchmarkInv, NEW t \in Tasks, BeginTask(t)
  PROVE  BenchmarkInv'
  <1> DEFINE new == [NewItem EXCEPT !.at = "attempt", !.n = 1]
  <1>1. ItemShaped(new) /\ new.at = "attempt"
    <2>1. ItemShaped(NewItem)
      BY DEF ItemShaped, NewItem
    <2>2. \A at, n : ItemShaped([NewItem EXCEPT !.at = at, !.n = n]) /\ [NewItem EXCEPT !.at = at, !.n = n].at = at
      BY <2>1, MovedItemShaped
    <2> HIDE DEF ItemShaped, NewItem
    <2> QED BY <2>2, Zenon
  <1>2. item' = [item EXCEPT ![t] = new]
    BY DEF BeginTask
  <1> HIDE DEF new
  <1> QED BY <1>1, <1>2, TaskMoves DEF BeginTask, diskUnchanged, fixedInRun

LEMMA AttemptKeeps ==
  ASSUME BenchmarkInv, NEW t \in Tasks, EndAttempt(t)
  PROVE  BenchmarkInv'
  <1>1. \E outcome, blocked, branch : item' = [item EXCEPT ![t] = AfterAttempt(item[t], outcome, branch, blocked)]
    BY DEF EndAttempt
  <1>0. PICK outcome, blocked, branch : item' = [item EXCEPT ![t] = AfterAttempt(item[t], outcome, branch, blocked)]
    BY <1>1
  <1> DEFINE new == AfterAttempt(item[t], outcome, branch, blocked)
  <1>2. item[t] = [at |-> item[t].at, n |-> item[t].n, refs |-> item[t].refs, results |-> item[t].results,
                   cached |-> item[t].cached] /\ item[t].at = "attempt"
    BY DEF BenchmarkInv, BenchmarkShape, ItemShaped, EndAttempt
  <1>3. ItemShaped(new) /\ new.at # "reported"
    <2>1. \E at, n, refs, found :
            /\ new = [at |-> at, n |-> n, refs |-> refs, results |-> found, cached |-> item[t].cached]
            /\ at \in {"ledger", "score", "attempt"}
      <3> DEFINE over == EndsRollout(item[t], outcome, blocked)
      <3>1. \E refs, found : new = [item[t] EXCEPT !.refs = refs, !.results = found,
                                       !.n = IF over THEN item[t].n ELSE item[t].n + 1,
                                       !.at = IF over THEN IF sweeping THEN "ledger" ELSE "score" ELSE item[t].at]
        BY Zenon DEF AfterAttempt
      <3>2. PICK refs, found : new = [item[t] EXCEPT !.refs = refs, !.results = found,
                                       !.n = IF over THEN item[t].n ELSE item[t].n + 1,
                                       !.at = IF over THEN IF sweeping THEN "ledger" ELSE "score" ELSE item[t].at]
        BY <3>1
      <3> DEFINE at == IF over THEN IF sweeping THEN "ledger" ELSE "score" ELSE item[t].at
                 n == IF over THEN item[t].n ELSE item[t].n + 1
      <3>3. at \in {"ledger", "score", "attempt"}
        BY <1>2
      <3> HIDE DEF new, over, at, n
      <3>4. new = [item[t] EXCEPT !.refs = refs, !.results = found, !.n = n, !.at = at]
        BY <3>2 DEF at, n
      <3>5. new = [at |-> at, n |-> n, refs |-> refs, results |-> found, cached |-> item[t].cached]
        BY <1>2, <3>4
      <3> QED BY <3>3, <3>5
    <2> HIDE DEF new
    <2> QED BY <2>1 DEF ItemShaped
  <1> HIDE DEF new
  <1> QED BY <1>0, <1>2, <1>3, TaskMoves DEF EndAttempt, diskUnchanged, fixedInRun, new

LEMMA LedgerKeeps ==
  ASSUME BenchmarkInv, NEW t \in Tasks, AppendLedger(t)
  PROVE  BenchmarkInv'
  <1> DEFINE new == [item[t] EXCEPT !.at = "score"]
  <1>1. item' = [item EXCEPT ![t] = new]
    BY DEF AppendLedger
  <1>2. ItemShaped(new) /\ new.at = "score"
    BY DEF BenchmarkInv, BenchmarkShape, ItemShaped
  <1> HIDE DEF new
  <1> QED BY <1>1, <1>2, TaskMoves DEF AppendLedger, fixedInRun

LEMMA FailKeeps ==
  ASSUME BenchmarkInv, NEW t \in Tasks, FailTask(t)
  PROVE  BenchmarkInv'
  BY RowAdded DEF FailTask, diskUnchanged, fixedInRun, Unanswered

LEMMA ScoreKeeps ==
  ASSUME BenchmarkInv, NEW t \in Tasks, Score(t)
  PROVE  BenchmarkInv'
  BY RowAdded DEF Score, ScoredBudgets, diskUnchanged, fixedInRun

-----------------------------------------------------------------------------
(***************************************************************************)
(* Steps of the run.                                                       *)
(***************************************************************************)

\* A run starts with empty tables and no task through, in a directory without a final
\* report.
LEMMA StartKeeps ==
  ASSUME BenchmarkInv, StartFresh \/ Resume
  PROVE  BenchmarkInv'
  <1>1. /\ item' = [t \in Tasks |-> item'[t]]
        /\ \A t \in Tasks : ItemShaped(item'[t]) /\ item'[t].at # "reported"
    <2>1. ItemShaped(NewItem) /\ NewItem.at # "reported"
      BY DEF ItemShaped, NewItem
    <2>2. \A t \in Tasks : ItemShaped(CachedItem(t)) /\ CachedItem(t).at # "reported"
      BY DEF ItemShaped, CachedItem
    <2>3. CASE StartFresh
      BY <2>1, <2>3 DEF StartFresh
    <2>4. CASE Resume
      <3>1. item' = [t \in Tasks |-> IF Completed(t) THEN CachedItem(t) ELSE NewItem]
        BY <2>4 DEF Resume
      <3> HIDE DEF CachedItem, Completed, NewItem, ItemShaped
      <3> QED BY <2>1, <2>2, <3>1
    <2> QED BY <2>3, <2>4
  <1>2. NewRun
    BY DEF StartFresh, Resume
  <1>3. report' \in [tasks : SUBSET Tasks, items : Nat, budgets : SUBSET AttemptNumbers] /\ ~Finalized'
    <2>1. CASE StartFresh
      BY <2>1, EmptyReportNotFinal DEF StartFresh, NoReport, Finalized
    <2>2. CASE Resume
      BY <2>2 DEF Resume, GuardAllows, Finalized, BenchmarkInv, BenchmarkShape
    <2> QED BY <2>1, <2>2
  <1>4. BenchmarkShape'
    <2>1. rows' = [b \in AttemptNumbers |-> [t \in Tasks |-> rows'[b][t]]]
      BY <1>2 DEF NewRun
    <2>2. tally' = [b \in AttemptNumbers |-> tally'[b]]
      BY <1>2 DEF NewRun
    <2> QED BY <1>1, <1>3, <2>1, <2>2 DEF BenchmarkShape, ItemShaped, AttemptNumbers
  <1>5. RowsCounted'
    <2>1. Reported' = {}
      BY <1>1 DEF Reported
    <2>2. \A b \in AttemptNumbers : Right(b)' = {}
      BY <2>1 DEF Right
    <2>3. \A b \in AttemptNumbers, t \in Tasks : rows'[b][t] = <<>> /\ tally'[b] = [correct |-> 0, total |-> 0]
      BY <1>2 DEF NewRun, NoTally
    <2>4. SweepBudgets' \subseteq AttemptNumbers
      BY BenchmarkAssumption DEF SweepBudgets, AttemptNumbers
    <2>5. \A b \in SweepBudgets' : tally'[b] = [correct |-> 0, total |-> 0]
      BY <2>4, <1>2 DEF NewRun, NoTally
    <2> QED BY <2>1, <2>2, <2>3, <2>4, <2>5, FS_EmptySet DEF RowsCounted
  <1>6. stage' = "tasks"
    BY <1>2 DEF NewRun
  <1> QED BY <1>3, <1>4, <1>5, <1>6 DEF BenchmarkInv, EveryTaskReportedOnce, FinalOnlyAtEnd

\* When all tasks are through, so are the tables.
LEMMA CloseKeeps ==
  ASSUME BenchmarkInv, CloseLogger
  PROVE  BenchmarkInv'
  <1> USE DEF BenchmarkInv
  <1>1. UNCHANGED <<sweeping, report, item, rows, tally>> /\ stage = "tasks" /\ stage' = "rows"
    BY DEF CloseLogger, fixedInRun
  <1>2. Reported = Tasks
    BY DEF CloseLogger, Reported
  <1>3. EveryTaskReportedOnce'
    <2>1. \A b \in SweepBudgets :
            /\ \A t \in Tasks : Len(rows[b][t]) = 1
            /\ tally[b] = [correct |-> Cardinality({t \in Tasks : rows[b][t][1].answered}), total |-> Cardinality(Tasks)]
      BY <1>1, <1>2 DEF RowsCounted, Right
    <2> QED BY <1>1, <2>1 DEF EveryTaskReportedOnce, SweepBudgets, AttemptNumbers
  <1>4. BenchmarkShape'
    BY <1>1 DEF BenchmarkShape, ItemShaped, AttemptNumbers
  <1> QED BY <1>1, <1>3, <1>4 DEF RowsCounted, FinalOnlyAtEnd, Finalized

\* Past the tasks, the tables are as they were.
LEMMA TablesStay ==
  ASSUME BenchmarkInv, UNCHANGED <<sweeping, item, rows, tally>>,
         stage \in {"rows", "summary", "budgets"}, stage' \in {"summary", "budgets"},
         report' \in [tasks : SUBSET Tasks, items : Nat, budgets : SUBSET AttemptNumbers]
  PROVE  BenchmarkInv'
  <1> USE DEF BenchmarkInv
  <1>1. EveryTaskReportedOnce'
    BY DEF EveryTaskReportedOnce, SweepBudgets, AttemptNumbers
  <1>2. BenchmarkShape'
    BY DEF BenchmarkShape, ItemShaped, AttemptNumbers
  <1> QED BY <1>1, <1>2 DEF RowsCounted, FinalOnlyAtEnd

LEMMA SummaryIsComplete ==
  ASSUME BenchmarkInv, stage \in {"rows", "summary", "budgets"}
  PROVE  tally[MaxAttempts].total = Cardinality(Tasks) /\ Cardinality(Tasks) \in Nat
  <1>1. \E n : tally[MaxAttempts] = [correct |-> n, total |-> Cardinality(Tasks)]
    BY LargestReported, Zenon DEF BenchmarkInv, EveryTaskReportedOnce
  <1>2. Cardinality(Tasks) \in Nat
    BY BenchmarkAssumption, FS_CardinalityType
  <1> QED BY <1>1, <1>2

LEMMA WritesKeep ==
  ASSUME BenchmarkInv, WriteRows \/ WriteSummary \/ (\E b \in SmallerBudgets : WriteBudget(b))
  PROVE  BenchmarkInv'
  <1> DEFINE Report == [tasks : SUBSET Tasks, items : Nat, budgets : SUBSET AttemptNumbers]
  <1>1. report \in Report
    BY DEF BenchmarkInv, BenchmarkShape
  <1>2. report' \in Report
    <2>1. CASE WriteRows
      <3>1. {t \in Tasks : rows[MaxAttempts][t] # <<>>} \in SUBSET Tasks
        OBVIOUS
      <3> QED BY <1>1, <2>1, <3>1 DEF WriteRows
    <2>2. CASE WriteSummary
      BY <1>1, <2>2, SummaryIsComplete DEF WriteSummary
    <2>3. ASSUME NEW b \in SmallerBudgets, WriteBudget(b) PROVE report' \in Report
      <3>1. b \in AttemptNumbers
        BY LargestReported DEF SmallerBudgets
      <3> QED BY <1>1, <2>3, <3>1 DEF WriteBudget
    <2> QED BY <2>1, <2>2, <2>3
  <1> HIDE DEF Report
  <1>3. /\ UNCHANGED <<sweeping, item, rows, tally>>
        /\ stage \in {"rows", "summary", "budgets"} /\ stage' \in {"summary", "budgets"}
    BY DEF WriteRows, WriteSummary, WriteBudget
  <1> QED BY <1>2, <1>3, TablesStay DEF Report

LEMMA GoneKeeps ==
  ASSUME BenchmarkInv, Exit \/ Die
  PROVE  BenchmarkInv'
  <1>1. Gone
    BY DEF Exit, Die
  <1>2. report' \in [tasks : SUBSET Tasks, items : Nat, budgets : SUBSET AttemptNumbers]
    <2>1. report \in [tasks : SUBSET Tasks, items : Nat, budgets : SUBSET AttemptNumbers]
      BY DEF BenchmarkInv, BenchmarkShape
    <2>2. CASE Exit
      BY <2>1, <2>2 DEF Exit
    <2>3. CASE Die
      <3>1. PICK written \in {report.tasks} \cup (IF stage = "rows" THEN SUBSET Tasks ELSE {}) :
              report' = [report EXCEPT !.tasks = written]
        BY <2>3 DEF Die
      <3>2. written \in SUBSET Tasks
        BY <2>1, <3>1
      <3> QED BY <2>1, <3>1, <3>2
    <2> QED BY <2>2, <2>3
  <1>3. stage' = "down"
    BY <1>1 DEF Gone
  <1>4. BenchmarkShape'
    <2>1. item' = [t \in Tasks |-> item'[t]] /\ \A t \in Tasks : ItemShaped(item'[t])
      BY <1>1 DEF Gone, ItemShaped, NewItem
    <2>2. rows' = [b \in AttemptNumbers |-> [t \in Tasks |-> rows'[b][t]]]
      BY <1>1 DEF Gone
    <2>3. tally' = [b \in AttemptNumbers |-> tally'[b]]
      BY <1>1 DEF Gone
    <2> QED BY <1>2, <2>1, <2>2, <2>3 DEF BenchmarkShape, ItemShaped, AttemptNumbers
  <1> QED BY <1>3, <1>4 DEF BenchmarkInv, RowsCounted, EveryTaskReportedOnce, FinalOnlyAtEnd

LEMMA BenchmarkRests == BenchmarkInv /\ UNCHANGED benchVars => BenchmarkInv'
  <1> SUFFICES ASSUME BenchmarkInv, UNCHANGED benchVars PROVE BenchmarkInv'
    OBVIOUS
  <1>1. UNCHANGED <<sweeping, report, stage, item, rows, tally>>
    BY DEF benchVars
  <1>2. BenchmarkShape'
    BY <1>1 DEF BenchmarkInv, BenchmarkShape, ItemShaped, AttemptNumbers
  <1>3. RowsCounted'
    BY <1>1 DEF BenchmarkInv, RowsCounted, Reported, Right, SweepBudgets, AttemptNumbers
  <1>4. EveryTaskReportedOnce'
    BY <1>1 DEF BenchmarkInv, EveryTaskReportedOnce, SweepBudgets, AttemptNumbers
  <1> QED BY <1>1, <1>2, <1>3, <1>4 DEF BenchmarkInv, FinalOnlyAtEnd, Finalized

LEMMA BenchmarkSteps == BenchmarkInv /\ [BenchmarkNext]_benchVars => BenchmarkInv'
  <1> SUFFICES ASSUME BenchmarkInv, BenchmarkNext PROVE BenchmarkInv'
    BY BenchmarkRests
  <1>1. ASSUME NEW t \in Tasks, BeginTask(t) \/ EndAttempt(t) \/ FailTask(t) \/ AppendLedger(t) \/ Score(t)
        PROVE  BenchmarkInv'
    BY <1>1, BeginKeeps, AttemptKeeps, FailKeeps, LedgerKeeps, ScoreKeeps
  <1> QED BY <1>1, StartKeeps, CloseKeeps, WritesKeep, GoneKeeps DEF BenchmarkNext

LEMMA BenchmarkStarts == BenchmarkInit => BenchmarkInv
  <1> SUFFICES ASSUME BenchmarkInit PROVE BenchmarkInv
    OBVIOUS
  <1>1. report \in [tasks : SUBSET Tasks, items : Nat, budgets : SUBSET AttemptNumbers]
    BY DEF BenchmarkInit, NoReport
  <1>2. item = [t \in Tasks |-> item[t]] /\ \A t \in Tasks : ItemShaped(item[t])
    BY DEF BenchmarkInit, ItemShaped, NewItem
  <1>3. rows = [b \in AttemptNumbers |-> [t \in Tasks |-> rows[b][t]]] /\ tally = [b \in AttemptNumbers |-> tally[b]]
    BY DEF BenchmarkInit
  <1>4. stage = "down"
    BY DEF BenchmarkInit
  <1> QED BY <1>1, <1>2, <1>3, <1>4 DEF BenchmarkInv, BenchmarkShape, RowsCounted, EveryTaskReportedOnce, FinalOnlyAtEnd

LEMMA BenchmarkInvariant == BenchmarkSpec => []BenchmarkInv
  BY BenchmarkStarts, BenchmarkSteps, PTL DEF BenchmarkSpec

-----------------------------------------------------------------------------
\* Every task has exactly one row in the table of every budget, and the accuracy is
\* that of the rows, however tasks fail, finish, are resumed and overlap.
THEOREM ReportsBalance == BenchmarkSpec => []EveryTaskReportedOnce
  <1>1. BenchmarkInv => EveryTaskReportedOnce
    BY DEF BenchmarkInv
  <1> QED BY <1>1, BenchmarkInvariant, PTL

\* The results of a finished run are replaced only by a run that starts afresh.
THEOREM FinalIsFinal == BenchmarkSpec => FinalStaysFinal
  <1>1. ASSUME BenchmarkInv, BenchmarkNext, Finalized
        PROVE  Finalized' \/ report' = NoReport
    <2>1. stage \notin {"tasks", "rows"}
      BY <1>1 DEF BenchmarkInv, FinalOnlyAtEnd
    <2>2. report \in [tasks : SUBSET Tasks, items : Nat, budgets : SUBSET AttemptNumbers]
      BY <1>1 DEF BenchmarkInv, BenchmarkShape
    <2>3. CASE StartFresh
      BY <2>3 DEF StartFresh
    <2>4. CASE Resume \/ Exit
      BY <1>1, <2>4 DEF Resume, Exit, Finalized
    <2>5. CASE WriteSummary
      <3>1. report' = [report EXCEPT !.items = tally[MaxAttempts].total] /\ tally[MaxAttempts].total = Cardinality(Tasks)
        BY <1>1, <2>5, SummaryIsComplete DEF WriteSummary
      <3>2. Cardinality(Tasks) \in Nat
        BY BenchmarkAssumption, FS_CardinalityType
      <3> QED BY <1>1, <2>2, <3>1, <3>2 DEF Finalized
    <2>6. ASSUME NEW b \in SmallerBudgets, WriteBudget(b) PROVE Finalized'
      BY <1>1, <2>2, <2>6 DEF WriteBudget, Finalized
    <2>7. CASE Die
      <3>1. report' = [report EXCEPT !.tasks = report.tasks]
        BY <2>1, <2>7 DEF Die
      <3> QED BY <1>1, <2>2, <3>1 DEF Finalized
    <2>8. ~CloseLogger /\ ~WriteRows
      BY <2>1 DEF CloseLogger, WriteRows
    <2>9. \A t \in Tasks : ~(BeginTask(t) \/ EndAttempt(t) \/ FailTask(t) \/ AppendLedger(t) \/ Score(t))
      BY <2>1 DEF BeginTask, EndAttempt, FailTask, AppendLedger, Score
    <2> QED BY <1>1, <2>3, <2>4, <2>5, <2>6, <2>7, <2>8, <2>9 DEF BenchmarkNext
  <1>2. BenchmarkInv /\ [BenchmarkNext]_benchVars => [Finalized => Finalized' \/ report' = NoReport]_benchVars
    BY <1>1
  <1> QED BY <1>2, BenchmarkInvariant, PTL DEF BenchmarkSpec, FinalStaysFinal

-----------------------------------------------------------------------------
(***************************************************************************)
(* What a resumed run relies on.  A rollout writes the traces of its       *)
(* attempts in order, over those of rollouts that were cut short.  While   *)
(* it has not ended, what it has not yet replaced does not end the task,   *)
(* or the task would have come from the earlier run; so files that end a   *)
(* task are of the rollout that was decided last, however far the writer   *)
(* got, unless the last of them is a guess: a guess ends the task on disk  *)
(* but not in memory.                                                      *)
(***************************************************************************)
\* The files of a task that a run would take for done, with attempt h for its result.
File(kept, h) == kept[TraceId(h, "main")]
Ends(kept, h) ==
  /\ File(kept, h) # NoTrace
  /\ \A k \in AttemptNumbers : h < k => File(kept, k) = NoTrace
  /\ Boxed(File(kept, h)) \/ File(kept, h).capped \/ h = MaxAttempts

\* What a run may take for the result of a task that was decided as given.
Fits(trace, outcome) ==
  \/ SameAttempt(trace, outcome[MaxAttempts])
  \/ trace.outcome = "guess" /\ outcome[MaxAttempts].epoch <= trace.epoch

FilesGenuine(kept, outcome) ==
  /\ \A h \in AttemptNumbers : Ends(kept, h) => Fits(File(kept, h), outcome)
  /\ File(kept, MaxAttempts) # NoTrace => \A k \in AttemptNumbers : File(kept, k) # NoTrace
FilesUnfinished(kept) == \A h \in AttemptNumbers : ~Ends(kept, h)

\* The writer's queue has the first n attempts of a task, in order, all made in this run,
\* and those that would end the task fit its decision.
Of(t) == {i \in 1..Len(writes) : writes[i].task = t}
QueuedFits(t, i) ==
  LET trace == writes[i].trace
  IN  trace # NoTrace =>
        /\ trace.epoch = epoch /\ trace.outcome \in {"answer", "guess", "none"}
        /\ Boxed(trace) \/ trace.capped \/ writes[i].id.n = MaxAttempts => Fits(trace, decided[t])
Queued(t, n) ==
  /\ \A i \in Of(t) : \E k \in 1..n : writes[i].id = TraceId(k, "main")
  /\ \A k \in 1..n : \E i \in Of(t) : writes[i].id = TraceId(k, "main")
  /\ \A i, j \in Of(t) : i < j => writes[i].id.n < writes[j].id.n
  /\ \A i \in Of(t) : writes[i].trace # NoTrace \/ n < MaxAttempts
  /\ \A i \in Of(t) : QueuedFits(t, i)

\* A task that did not come from an earlier run, while tasks run: n attempts are over.
Undecided(t, n) ==
  /\ item[t].n = n + 1 /\ n < MaxAttempts
  /\ \A i \in Of(t) : writes[i].trace # NoTrace /\ writes[i].trace.outcome # "answer" /\ ~writes[i].trace.capped
RolledOut(t) ==
  /\ FilesUnfinished(traces[t])
  /\ \E n \in 0..MaxAttempts :
       /\ Queued(t, n)
       /\ item[t].at = "new" => n = 0
       /\ item[t].at = "attempt" => Undecided(t, n)

DecidedBefore(t) == decided[t][MaxAttempts].epoch \in Nat /\ decided[t][MaxAttempts].epoch <= epoch
TaskResumable(t) ==
  /\ FilesGenuine(traces[t], decided[t]) /\ DecidedBefore(t)
  /\ item[t].cached \in BOOLEAN
  /\ item[t].cached => /\ item[t].at \in {"score", "reported"} /\ Of(t) = {}
                       /\ Fits(item[t].results[MaxAttempts], decided[t])
  /\ stage = "tasks" /\ ~item[t].cached => RolledOut(t)

\* A sweep to be scored is in the ledger.
InLedger(t) == item[t].at = "score" => LedgerLines(t) # {} /\ LedgerRefs(t) = item[t].refs

Indexed(list) == Len(list) \in Nat /\ list = [i \in 1..Len(list) |-> list[i]]

ResumeInv ==
  /\ item = [t \in Tasks |-> item[t]] /\ \A t \in Tasks : ItemShaped(item[t])
  /\ decided = [t \in Tasks |-> decided[t]] /\ Indexed(writes) /\ Indexed(ledger)
  /\ epoch \in Nat /\ (stage = "tasks" => epoch > 0) /\ (stage # "tasks" => writes = <<>>)
  /\ drained \in 0..Len(writes)
  /\ ~sweeping => \A t \in Tasks : TaskResumable(t)
  /\ sweeping => \A t \in Tasks : InLedger(t)

-----------------------------------------------------------------------------
LEMMA LeastNumber ==
  ASSUME NEW S \in SUBSET Nat, S # {}
  PROVE  \E k \in S : \A m \in S : k <= m
  <1>1. IsWellFoundedOn(OpToRel(<, Nat), Nat)
    BY NatLessThanWellFounded
  <1>2. PICK k \in S : \A m \in S : ~(<<m, k>> \in OpToRel(<, Nat))
    BY <1>1, WFMin
  <1>3. ASSUME NEW m \in S
        PROVE  k <= m
    <2>1. m \in Nat /\ k \in Nat /\ ~(m < k)
      BY <1>2 DEF OpToRel
    <2> QED BY <2>1
  <1> QED BY <1>3

\* Some positions have a last one.
LEMMA LastPosition ==
  ASSUME NEW n \in Nat, NEW I \in SUBSET (1..n), I # {}
  PROVE  \E x \in I : \A y \in I : y <= x
  <1> DEFINE distances == {d \in Nat : \E x \in I : d = n - x}
  <1>1. distances \in SUBSET Nat /\ distances # {}
    <2>1. PICK x \in I : TRUE
      OBVIOUS
    <2>2. n - x \in Nat
      OBVIOUS
    <2>3. n - x \in distances
      BY <2>2
    <2> QED BY <2>3
  <1>2. PICK d \in distances : \A e \in distances : d <= e
    <2> HIDE DEF distances
    <2> QED BY <1>1, LeastNumber
  <1>3. PICK x \in I : d = n - x
    OBVIOUS
  <1>4. ASSUME NEW y \in I
        PROVE  y <= x
    <2>1. n - y \in distances
      OBVIOUS
    <2>2. n - x <= n - y /\ x \in Int /\ y \in Int
      BY <1>2, <1>3, <2>1
    <2> QED BY <2>2
  <1> QED BY <1>4

\* Two lists end to end.
LEMMA ListsJoined ==
  ASSUME NEW a, NEW b, Indexed(a), Indexed(b)
  PROVE  /\ Indexed(a \o b) /\ Len(a \o b) = Len(a) + Len(b)
         /\ \A i \in 1..Len(a) : (a \o b)[i] = a[i]
         /\ \A i \in 1..Len(b) : (a \o b)[Len(a) + i] = b[i]
  <1> DEFINE S == {a[i] : i \in 1..Len(a)} \cup {b[i] : i \in 1..Len(b)}
  <1>1. a \in [1..Len(a) -> S] /\ b \in [1..Len(b) -> S] /\ Len(a) \in Nat /\ Len(b) \in Nat
    BY DEF Indexed
  <1> HIDE DEF S
  <1>2. a \in Seq(S) /\ b \in Seq(S)
    BY <1>1
  <1>3. PICK c \in Seq(S) : c = a \o b
    <2>1. a \o b \in Seq(S)
      BY <1>2
    <2> QED BY <2>1
  <1>4. Indexed(c)
    BY DEF Indexed
  <1> QED BY <1>2, <1>3, <1>4

LEMMA ListAppended ==
  ASSUME NEW list, Indexed(list), NEW x
  PROVE  /\ Indexed(Append(list, x)) /\ Len(Append(list, x)) = Len(list) + 1
         /\ Append(list, x)[Len(list) + 1] = x
         /\ \A i \in 1..Len(list) : Append(list, x)[i] = list[i]
  <1> DEFINE S == {list[i] : i \in 1..Len(list)} \cup {x}
  <1>1. list \in [1..Len(list) -> S] /\ x \in S /\ Len(list) \in Nat
    BY DEF Indexed
  <1> HIDE DEF S
  <1>2. list \in Seq(S)
    BY <1>1
  <1>3. PICK longer \in Seq(S) : longer = Append(list, x)
    <2>1. Append(list, x) \in Seq(S)
      BY <1>1, <1>2
    <2> QED BY <2>1
  <1>4. Indexed(longer)
    BY DEF Indexed
  <1> QED BY <1>1, <1>2, <1>3, <1>4

\* What the first of the writes make of a file.
LEMMA AppliedFile ==
  ASSUME NEW queue, NEW m \in Nat, DOMAIN queue = 1..m, \A i \in 1..m : queue[i] = writes[i],
         NEW t \in Tasks, NEW k \in AttemptNumbers
  PROVE  LET file == Applied(traces, queue)[t][TraceId(k, "main")]
             mine == {i \in 1..m : writes[i].task = t /\ writes[i].id = TraceId(k, "main")}
         IN  /\ mine = {} => file = traces[t][TraceId(k, "main")]
             /\ \A i \in mine : (\A j \in mine : j = i) => file = writes[i].trace
  <1> DEFINE mine == {i \in 1..m : writes[i].task = t /\ writes[i].id = TraceId(k, "main")}
  <1>1. PICK id \in TraceIds : id = TraceId(k, "main")
    BY DEF TraceIds, TraceId
  <1>2. WritesOf(queue, t, id) = mine
    BY <1>1 DEF WritesOf
  <1> HIDE DEF mine
  <1>3. Applied(traces, queue)[t][id] = IF mine = {} THEN traces[t][id] ELSE queue[LastOf(mine)].trace
    <2>1. Applied(traces, queue)[t][id] =
            IF WritesOf(queue, t, id) = {} THEN traces[t][id] ELSE queue[LastOf(WritesOf(queue, t, id))].trace
      BY DEF Applied
    <2> QED BY <1>2, <2>1
  <1>4. ASSUME NEW i \in mine, \A j \in mine : j = i
        PROVE  Applied(traces, queue)[t][id] = writes[i].trace
    <2>1. mine # {} /\ i \in 1..m /\ i <= i
      BY DEF mine
    <2>2. LastOf(mine) = i
      BY <1>4, <2>1 DEF LastOf
    <2> QED BY <1>3, <2>1, <2>2
  <1> QED BY <1>1, <1>3, <1>4 DEF mine

\* However far the writer gets with a rollout, files that end the task fit its decision.
LEMMA RolloutWritten ==
  ASSUME NEW queue, NEW m \in 0..Len(writes), DOMAIN queue = 1..m, \A i \in 1..m : queue[i] = writes[i],
         Indexed(writes), NEW t \in Tasks, NEW n \in 0..MaxAttempts, Queued(t, n), FilesUnfinished(traces[t])
  PROVE  FilesGenuine(Applied(traces, queue)[t], decided[t])
  <1> DEFINE kept == Applied(traces, queue)[t]
             WriteOf(k, i) == i \in 1..m /\ writes[i].task = t /\ writes[i].id = TraceId(k, "main")
             Reaches(k) == \E i \in 1..m : WriteOf(k, i)
  <1>1. Len(writes) \in Nat /\ m \in Nat /\ MaxAttempts \in Nat /\ n \in Nat /\ n <= MaxAttempts /\ m <= Len(writes)
    BY BenchmarkAssumption DEF Indexed
  <1>2. \A k : TraceId(k, "main").n = k
    BY DEF TraceId
  <1>3. \A k, l, i : WriteOf(k, i) /\ WriteOf(l, i) => k = l
    BY <1>2
  <1>4. ASSUME NEW k, NEW i, NEW j, WriteOf(k, i), WriteOf(k, j)
        PROVE  i = j
    <2>1. i \in Of(t) /\ j \in Of(t) /\ writes[i].id.n = writes[j].id.n /\ i \in Int /\ j \in Int
      BY <1>1, <1>4 DEF Of
    <2>2. PICK l \in 1..n : writes[i].id = TraceId(l, "main")
      BY <2>1 DEF Queued
    <2>3. writes[i].id.n = l /\ ~(l < l)
      BY <1>1, <1>2, <2>2
    <2>4. ~(i < j) /\ ~(j < i)
      BY <2>1, <2>3 DEF Queued
    <2> QED BY <2>1, <2>4
  \* A write is only applied with those of the attempts before it.
  <1>5. ASSUME NEW k \in 1..n, NEW l \in 1..n, l < k, Reaches(k)
        PROVE  Reaches(l)
    <2>1. PICK i \in 1..m : WriteOf(k, i)
      BY <1>5
    <2>2. PICK j \in Of(t) : writes[j].id = TraceId(l, "main")
      BY DEF Queued
    <2>3. i \in Of(t) /\ writes[i].id.n = k /\ writes[j].id.n = l /\ k \in Int /\ l \in Int
      BY <1>1, <1>2, <2>1, <2>2 DEF Of
    <2>4. ~(i < j) => j \in 1..m
      BY <1>1, <2>2 DEF Of
    <2>5. ~(i < j)
      <3>1. ~(k < l)
        BY <1>5, <2>3
      <3> QED BY <2>2, <2>3, <3>1 DEF Queued
    <2> QED BY <2>2, <2>4, <2>5 DEF Of
  <1>6. PICK p \in 0..n : \A k \in AttemptNumbers : Reaches(k) <=> k <= p
    <2> DEFINE missing == {k \in Nat : ~(k + 1 \in 1..n /\ Reaches(k + 1))}
    <2>1. n \in missing
      BY <1>1
    <2>2. PICK p \in missing : \A k \in missing : p <= k
      <3>1. missing \in SUBSET Nat /\ missing # {}
        BY <2>1
      <3> HIDE DEF missing
      <3> QED BY <3>1, LeastNumber
    <2>3. p \in 0..n
      BY <1>1, <2>1, <2>2
    <2>4. ASSUME NEW k \in AttemptNumbers
          PROVE  Reaches(k) <=> k <= p
      <3>1. k \in Nat /\ k > 0 /\ k - 1 \in Nat /\ (k - 1) + 1 = k
        BY DEF AttemptNumbers
      <3>2. CASE k <= p
        <4>1. ~(p <= k - 1)
          BY <2>3, <3>1, <3>2
        <4>2. k - 1 \notin missing
          BY <2>2, <4>1
        <4> QED BY <3>1, <3>2, <4>2
      <3>3. CASE ~(k <= p)
        <4>1. SUFFICES ASSUME Reaches(k)
                       PROVE  FALSE
          BY <3>3
        <4>2. k \in 1..n
          <5>1. PICK i \in 1..m : WriteOf(k, i)
            BY <4>1
          <5>2. i \in Of(t) /\ writes[i].id.n = k
            BY <1>1, <1>2, <5>1 DEF Of
          <5>3. PICK l \in 1..n : writes[i].id = TraceId(l, "main")
            BY <5>2 DEF Queued
          <5> QED BY <1>2, <5>2, <5>3
        <4>3. p + 1 \in 1..n
          BY <1>1, <2>3, <3>1, <3>3, <4>2
        <4>4. Reaches(p + 1)
          <5>1. CASE p + 1 = k
            BY <4>1, <5>1
          <5>2. CASE p + 1 # k
            <6>1. p + 1 < k
              BY <2>3, <3>1, <3>3, <5>2
            <6> HIDE DEF Reaches
            <6> QED BY <1>5, <4>1, <4>2, <4>3, <6>1
          <5> QED BY <5>1, <5>2
        <4> QED BY <2>2, <4>3, <4>4
      <3> QED BY <3>2, <3>3
    <2> QED BY <2>3, <2>4
  <1>7. ASSUME NEW k \in AttemptNumbers
        PROVE  /\ ~(k <= p) => kept[TraceId(k, "main")] = traces[t][TraceId(k, "main")]
               /\ k <= p => \E i \in Of(t) : writes[i].id.n = k /\ kept[TraceId(k, "main")] = writes[i].trace
    <2> DEFINE mine == {i \in 1..m : writes[i].task = t /\ writes[i].id = TraceId(k, "main")}
    <2>1. /\ mine = {} => kept[TraceId(k, "main")] = traces[t][TraceId(k, "main")]
          /\ \A i \in mine : (\A j \in mine : j = i) => kept[TraceId(k, "main")] = writes[i].trace
      BY <1>1, AppliedFile
    <2>2. CASE ~(k <= p)
      <3>1. ~Reaches(k)
        BY <1>6, <2>2
      <3>2. mine = {}
        BY <3>1
      <3> HIDE DEF mine, kept
      <3> QED BY <2>1, <2>2, <3>2
    <2>3. CASE k <= p
      <3>1. PICK i \in 1..m : WriteOf(k, i)
        BY <1>6, <2>3
      <3>2. i \in mine /\ \A j \in mine : j = i
        BY <1>4, <3>1
      <3>3. kept[TraceId(k, "main")] = writes[i].trace
        <4> HIDE DEF mine, kept
        <4> QED BY <2>1, <3>2
      <3>4. i \in Of(t) /\ writes[i].id.n = k
        BY <1>1, <1>2, <3>1 DEF Of
      <3> QED BY <2>3, <3>3, <3>4
    <2> QED BY <2>2, <2>3
  <1> HIDE DEF kept, WriteOf, Reaches
  <1> USE DEF File
  <1>8. ASSUME NEW h \in AttemptNumbers, Ends(kept, h)
        PROVE  Fits(File(kept, h), decided[t])
    <2>1. h <= p
      <3> SUFFICES ASSUME ~(h <= p)
                   PROVE  FALSE
        OBVIOUS
      <3>1. \A k \in AttemptNumbers : h < k => ~(k <= p)
        BY <1>1 DEF AttemptNumbers
      <3>2. File(kept, h) = File(traces[t], h) /\ \A k \in AttemptNumbers : h < k => File(kept, k) = File(traces[t], k)
        BY <1>7, <3>1
      <3>3. Ends(traces[t], h)
        BY <1>8, <3>2 DEF Ends
      <3> QED BY <3>3 DEF FilesUnfinished
    <2>2. PICK i \in Of(t) : writes[i].id.n = h /\ File(kept, h) = writes[i].trace
      BY <1>7, <2>1
    <2> QED BY <1>8, <2>2 DEF Ends, Queued, QueuedFits
  <1>9. ASSUME File(kept, MaxAttempts) # NoTrace, NEW k \in AttemptNumbers
        PROVE  File(kept, k) # NoTrace
    <2>1. MaxAttempts \in AttemptNumbers /\ \A l \in AttemptNumbers : l <= MaxAttempts /\ ~(MaxAttempts < l)
      BY BenchmarkAssumption DEF AttemptNumbers
    <2>2. MaxAttempts <= p
      <3> SUFFICES ASSUME ~(MaxAttempts <= p)
                   PROVE  FALSE
        OBVIOUS
      <3>1. File(kept, MaxAttempts) = File(traces[t], MaxAttempts)
        BY <1>7, <2>1
      <3>2. Ends(traces[t], MaxAttempts)
        BY <1>9, <2>1, <3>1 DEF Ends
      <3> QED BY <2>1, <3>2 DEF FilesUnfinished
    <2>3. k <= p /\ n = MaxAttempts
      BY <1>1, <2>1, <2>2 DEF AttemptNumbers
    <2>4. PICK i \in Of(t) : File(kept, k) = writes[i].trace
      BY <1>7, <2>3
    <2> QED BY <1>1, <2>3, <2>4 DEF Queued
  <1> QED BY <1>8, <1>9 DEF FilesGenuine, kept

\* Genuine files are so because of their traces alone.
LEMMA SameFiles ==
  ASSUME NEW one, NEW other, \A k \in AttemptNumbers : File(other, k) = File(one, k), NEW outcome
  PROVE  /\ FilesGenuine(one, outcome) => FilesGenuine(other, outcome)
         /\ FilesUnfinished(one) => FilesUnfinished(other)
  <1>1. MaxAttempts \in AttemptNumbers
    BY BenchmarkAssumption DEF AttemptNumbers
  <1>2. \A h \in AttemptNumbers : Ends(other, h) <=> Ends(one, h)
    BY DEF Ends
  <1> QED BY <1>1, <1>2 DEF FilesGenuine, FilesUnfinished

\* A task with nothing in the queue keeps its files.
LEMMA NothingWritten ==
  ASSUME NEW queue, NEW m \in 0..Len(writes), DOMAIN queue = 1..m, \A i \in 1..m : queue[i] = writes[i],
         Indexed(writes), NEW t \in Tasks, Of(t) = {}, FilesGenuine(traces[t], decided[t])
  PROVE  FilesGenuine(Applied(traces, queue)[t], decided[t])
  <1> DEFINE kept == Applied(traces, queue)[t]
  <1>1. ASSUME NEW k \in AttemptNumbers
        PROVE  kept[TraceId(k, "main")] = traces[t][TraceId(k, "main")]
    <2> DEFINE mine == {i \in 1..m : writes[i].task = t /\ writes[i].id = TraceId(k, "main")}
    <2>1. m \in Nat /\ Len(writes) \in Nat
      BY DEF Indexed
    <2>2. mine = {} => kept[TraceId(k, "main")] = traces[t][TraceId(k, "main")]
      BY <2>1, AppliedFile
    <2>3. mine \subseteq Of(t)
      BY <2>1 DEF Of
    <2>4. mine = {}
      <3> HIDE DEF mine
      <3> QED BY <2>3
    <2> HIDE DEF mine, kept
    <2> QED BY <2>2, <2>4
  <1> HIDE DEF kept
  <1> QED BY <1>1, SameFiles DEF File, kept

\* Wherever the writer stops, what is on disk of a task is genuine.
LEMMA DiskStaysGenuine ==
  ASSUME ResumeInv, ~sweeping, NEW queue, NEW m \in 0..Len(writes), DOMAIN queue = 1..m,
         \A i \in 1..m : queue[i] = writes[i], NEW t \in Tasks
  PROVE  FilesGenuine(Applied(traces, queue)[t], decided[t])
  <1>1. TaskResumable(t) /\ Indexed(writes) /\ (stage # "tasks" => writes = <<>>)
    BY DEF ResumeInv
  <1>2. CASE Of(t) = {}
    BY <1>1, <1>2, NothingWritten DEF TaskResumable
  <1>3. CASE Of(t) # {}
    <2>1. stage = "tasks" /\ ~item[t].cached
      BY <1>1, <1>3 DEF TaskResumable, Of
    <2>2. PICK n \in 0..MaxAttempts : Queued(t, n) /\ FilesUnfinished(traces[t])
      BY <1>1, <2>1 DEF TaskResumable, RolledOut
    <2> QED BY <1>1, <2>2, RolloutWritten
  <1> QED BY <1>2, <1>3

LEMMA CountTo ==
  ASSUME NEW n \in Nat
  PROVE  Cardinality(1..n) = n
  <1>1. 1 \in Int /\ n \in Int
    OBVIOUS
  <1>2. Cardinality(1..n) = IF 1 > n THEN 0 ELSE n - 1 + 1
    BY ONLY <1>1, FS_Interval
  <1>3. PICK c : c = Cardinality(1..n)
    OBVIOUS
  <1>4. c = IF 1 > n THEN 0 ELSE n - 1 + 1
    BY <1>2, <1>3
  <1> QED BY <1>3, <1>4

\* All attempts are on disk when there are as many traces.
LEMMA AllOnDisk ==
  ASSUME NEW t \in Tasks
  PROVE  Cardinality(OnDisk(t)) >= MaxAttempts <=> OnDisk(t) = AttemptNumbers
  <1>1. MaxAttempts \in Nat /\ OnDisk(t) \subseteq AttemptNumbers /\ AttemptNumbers = 1..MaxAttempts
    BY BenchmarkAssumption DEF OnDisk, AttemptNumbers
  <1>2. IsFiniteSet(AttemptNumbers) /\ Cardinality(AttemptNumbers) = MaxAttempts
    BY <1>1, CountTo, FS_Interval
  <1>3. /\ IsFiniteSet(OnDisk(t)) /\ Cardinality(OnDisk(t)) <= MaxAttempts
        /\ Cardinality(OnDisk(t)) = MaxAttempts => OnDisk(t) = AttemptNumbers
    BY <1>1, <1>2, FS_Subset
  <1>4. Cardinality(OnDisk(t)) \in Nat
    BY <1>3, FS_CardinalityType
  <1> QED BY <1>1, <1>2, <1>3, <1>4

\* What a run that resumes takes for done fits the decision; what it rolls out again has
\* not ended.
LEMMA CompletedIsGenuine ==
  ASSUME NEW t \in Tasks, FilesGenuine(traces[t], decided[t])
  PROVE  /\ TaskCompleted(t) => Fits(File(traces[t], Highest(t)), decided[t])
         /\ ~TaskCompleted(t) => FilesUnfinished(traces[t])
  <1> USE DEF File
  <1>1. MaxAttempts \in AttemptNumbers /\ MaxAttempts \in Nat /\ \A k \in AttemptNumbers : k \in Nat /\ k <= MaxAttempts
    BY BenchmarkAssumption DEF AttemptNumbers
  <1>2. \A k \in AttemptNumbers : k \in OnDisk(t) <=> File(traces[t], k) # NoTrace
    BY DEF OnDisk
  <1>3. OnDisk(t) \in SUBSET (1..MaxAttempts)
    BY DEF OnDisk, AttemptNumbers
  <1>4. ASSUME OnDisk(t) # {}
        PROVE  /\ Highest(t) \in AttemptNumbers /\ File(traces[t], Highest(t)) # NoTrace
               /\ \A k \in AttemptNumbers : Highest(t) < k => File(traces[t], k) = NoTrace
    <2>1. \E h \in OnDisk(t) : \A other \in OnDisk(t) : other <= h
      BY <1>1, <1>3, <1>4, LastPosition
    <2>2. Highest(t) \in OnDisk(t) /\ \A other \in OnDisk(t) : other <= Highest(t)
      BY <2>1 DEF Highest
    <2>3. PICK top : top = Highest(t)
      OBVIOUS
    <2>5. top \in AttemptNumbers /\ top \in OnDisk(t)
      BY <1>3, <2>2, <2>3 DEF AttemptNumbers
    <2>4. \A k \in AttemptNumbers : top < k => k \notin OnDisk(t)
      BY <1>1, <2>2, <2>3, <2>5
    <2>6. File(traces[t], top) # NoTrace /\ \A k \in AttemptNumbers : top < k => File(traces[t], k) = NoTrace
      BY <1>2, <2>4, <2>5
    <2> HIDE DEF File
    <2> QED BY <2>3, <2>5, <2>6
  <1>5. Cardinality(OnDisk(t)) >= MaxAttempts <=> OnDisk(t) = AttemptNumbers
    BY AllOnDisk
  <1>6. ASSUME TaskCompleted(t)
        PROVE  Ends(traces[t], Highest(t)) /\ Highest(t) \in AttemptNumbers
    <2>1. OnDisk(t) # {}
      BY <1>6 DEF TaskCompleted
    <2>2. OnDisk(t) = AttemptNumbers => Highest(t) = MaxAttempts
      <3>1. PICK top : top = Highest(t)
        OBVIOUS
      <3>2. top \in AttemptNumbers /\ (top < MaxAttempts => MaxAttempts \notin OnDisk(t))
        BY <1>1, <1>2, <1>4, <2>1, <3>1
      <3> QED BY <1>1, <3>1, <3>2
    <2> QED BY <1>4, <1>5, <1>6, <2>1, <2>2 DEF TaskCompleted, Ends
  <1>7. ASSUME NEW h \in AttemptNumbers, Ends(traces[t], h)
        PROVE  TaskCompleted(t)
    <2>1. OnDisk(t) # {}
      BY <1>2, <1>7 DEF Ends
    <2>2. Highest(t) = h
      <3>1. PICK top : top = Highest(t)
        OBVIOUS
      <3>2. top \in AttemptNumbers /\ ~(h < top) /\ ~(top < h)
        BY <1>4, <1>7, <2>1, <3>1 DEF Ends
      <3> QED BY <1>1, <3>1, <3>2
    <2>3. h = MaxAttempts => OnDisk(t) = AttemptNumbers
      BY <1>2, <1>7 DEF Ends, FilesGenuine, OnDisk
    <2> QED BY <1>5, <1>7, <2>1, <2>2, <2>3 DEF TaskCompleted, Ends
  <1> QED BY <1>6, <1>7 DEF FilesGenuine, FilesUnfinished

-----------------------------------------------------------------------------
\* A task that a step leaves alone.
LEMMA OtherTaskResumable ==
  ASSUME NEW u \in Tasks, TaskResumable(u), UNCHANGED <<sweeping, stage, epoch>>,
         traces'[u] = traces[u], decided'[u] = decided[u], item'[u] = item[u],
         Of(u)' = Of(u), \A i \in Of(u) : writes'[i] = writes[i]
  PROVE  TaskResumable(u)'
  <1>1. FilesGenuine(traces[u], decided[u])' /\ (FilesUnfinished(traces[u]) => FilesUnfinished(traces[u])')
    BY DEF TaskResumable, FilesGenuine, FilesUnfinished, Ends, File, AttemptNumbers, Fits, SameAttempt
  <1>2. \A i \in Of(u) : QueuedFits(u, i) => QueuedFits(u, i)'
    BY DEF QueuedFits, Fits, SameAttempt
  <1>3. \A n \in 0..MaxAttempts : /\ Queued(u, n) => Queued(u, n)'
                                  /\ Undecided(u, n) => Undecided(u, n)'
    BY <1>2 DEF Queued, Undecided
  <1>4. RolledOut(u) => RolledOut(u)'
    BY <1>1, <1>3 DEF RolledOut
  <1>5. item[u].cached => Fits(item[u].results[MaxAttempts], decided[u])'
    BY DEF TaskResumable, Fits, SameAttempt
  <1> QED BY <1>1, <1>4, <1>5 DEF TaskResumable, DecidedBefore

\* A task that is scored, fails or is entered in the ledger.
LEMMA MovedTaskResumable ==
  ASSUME NEW t \in Tasks, TaskResumable(t), ItemShaped(item[t]), NEW at \in {"score", "reported"},
         item'[t] = [item[t] EXCEPT !.at = at], UNCHANGED <<sweeping, stage, epoch, traces, decided, writes>>
  PROVE  TaskResumable(t)'
  <1>1. /\ item'[t].at = at /\ item'[t].cached = item[t].cached /\ item'[t].results = item[t].results
        /\ at # "new" /\ at # "attempt"
    BY DEF ItemShaped
  <1>2. FilesGenuine(traces[t], decided[t])' /\ (FilesUnfinished(traces[t]) => FilesUnfinished(traces[t])')
    BY DEF TaskResumable, FilesGenuine, FilesUnfinished, Ends, File, AttemptNumbers, Fits, SameAttempt
  <1>3. Of(t)' = Of(t) /\ \A n \in 0..MaxAttempts : Queued(t, n) => Queued(t, n)'
    BY DEF Queued, QueuedFits, Fits, SameAttempt, Of
  <1>4. RolledOut(t) => RolledOut(t)'
    BY <1>1, <1>2, <1>3 DEF RolledOut
  <1>5. item[t].cached => Fits(item[t].results[MaxAttempts], decided[t])'
    BY <1>1 DEF TaskResumable, Fits, SameAttempt
  <1> QED BY <1>1, <1>2, <1>3, <1>4, <1>5 DEF TaskResumable, DecidedBefore

\* Lines of other tasks do not hide the line of this one.
LEMMA LineStays ==
  ASSUME NEW u \in Tasks, NEW line, Indexed(ledger), ledger' = Append(ledger, line), line.task # u
  PROVE  LedgerLines(u)' = LedgerLines(u) /\ (LedgerLines(u) # {} => LedgerRefs(u)' = LedgerRefs(u))
  <1>1. /\ Indexed(ledger') /\ Len(ledger') = Len(ledger) + 1 /\ ledger'[Len(ledger) + 1] = line
        /\ \A i \in 1..Len(ledger) : ledger'[i] = ledger[i]
    BY ListAppended
  <1>2. DOMAIN ledger = 1..Len(ledger) /\ DOMAIN ledger' = 1..(Len(ledger) + 1) /\ Len(ledger) \in Nat
    BY <1>1 DEF Indexed
  <1>3. LedgerLines(u)' = LedgerLines(u)
    BY <1>1, <1>2 DEF LedgerLines
  <1>4. ASSUME LedgerLines(u) # {}
        PROVE  LedgerRefs(u)' = LedgerRefs(u)
    <2> DEFINE last == LastOf(LedgerLines(u))
    <2>1. LedgerLines(u) \in SUBSET (1..Len(ledger))
      BY <1>2 DEF LedgerLines
    <2>2. \E i \in LedgerLines(u) : \A j \in LedgerLines(u) : j <= i
      BY <1>2, <1>4, <2>1, LastPosition
    <2>3. last \in LedgerLines(u)
      BY <2>2 DEF LastOf
    <2>4. last \in 1..Len(ledger)
      BY <2>1, <2>3
    <2>5. LedgerRefs(u)' = ledger'[last].refs /\ LedgerRefs(u) = ledger[last].refs
      BY <1>3 DEF LedgerRefs
    <2> HIDE DEF last
    <2> QED BY <1>1, <2>4, <2>5
  <1> QED BY <1>3, <1>4

\* A new line of a task is its last.
LEMMA LineEntered ==
  ASSUME NEW t \in Tasks, NEW refs, Indexed(ledger), ledger' = Append(ledger, [task |-> t, refs |-> refs])
  PROVE  LedgerLines(t)' # {} /\ LedgerRefs(t)' = refs
  <1> DEFINE line == [task |-> t, refs |-> refs]
             last == Len(ledger) + 1
  <1>1. line.task = t /\ line.refs = refs
    OBVIOUS
  <1> HIDE DEF line
  <1>2. Indexed(ledger') /\ Len(ledger') = last /\ ledger'[last] = line /\ last \in Nat /\ last > 0
    BY ListAppended DEF line, Indexed
  <1>3. DOMAIN ledger' = 1..last
    BY <1>2 DEF Indexed
  <1> HIDE DEF last
  <1>4. last \in LedgerLines(t)' /\ \A j \in LedgerLines(t)' : j <= last /\ j \in Nat
    BY <1>1, <1>2, <1>3 DEF LedgerLines
  <1>5. \A j \in LedgerLines(t)' : (\A i \in LedgerLines(t)' : i <= j) => j = last
    BY <1>2, <1>4
  <1>6. LastOf(LedgerLines(t)') = last
    BY <1>4, <1>5 DEF LastOf
  <1>7. LedgerRefs(t)' = ledger'[last].refs
    BY <1>6 DEF LedgerRefs
  <1> QED BY <1>1, <1>2, <1>4, <1>7

-----------------------------------------------------------------------------
LEMMA ResumeStarts == BenchmarkInit => ResumeInv
  <1> SUFFICES ASSUME BenchmarkInit
               PROVE  ResumeInv
    OBVIOUS
  <1>1. item = [t \in Tasks |-> item[t]] /\ \A t \in Tasks : item[t] = NewItem
    BY DEF BenchmarkInit
  <1>2. ItemShaped(NewItem) /\ NewItem.at = "new" /\ NewItem.cached = FALSE
    BY DEF NewItem, ItemShaped
  <1>3. Indexed(writes) /\ Indexed(ledger) /\ drained \in 0..Len(writes)
    BY DEF BenchmarkInit, Indexed
  <1>4. decided = [t \in Tasks |-> decided[t]] /\ epoch = 0 /\ stage = "down" /\ writes = <<>>
    BY DEF BenchmarkInit
  <1>5. ASSUME NEW t \in Tasks
        PROVE  TaskResumable(t)
    <2>1. MaxAttempts \in AttemptNumbers
      BY BenchmarkAssumption DEF AttemptNumbers
    <2>2. \A k \in AttemptNumbers : File(traces[t], k) = NoTrace
      BY DEF BenchmarkInit, TraceIds, TraceId, AttemptNumbers, File
    <2>3. FilesGenuine(traces[t], decided[t])
      BY <2>1, <2>2 DEF FilesGenuine, Ends
    <2>4. DecidedBefore(t)
      BY <1>4, <2>1 DEF BenchmarkInit, NoResults, NoTrace, DecidedBefore
    <2> QED BY <1>1, <1>2, <1>4, <2>3, <2>4 DEF TaskResumable
  <1>6. \A t \in Tasks : InLedger(t)
    BY <1>1, <1>2 DEF InLedger
  <1> HIDE DEF NewItem
  <1> QED BY <1>1, <1>2, <1>3, <1>4, <1>5, <1>6 DEF ResumeInv

LEMMA BeginResumable ==
  ASSUME ResumeInv, NEW t \in Tasks, BeginTask(t)
  PROVE  ResumeInv'
  <1>1. /\ stage = "tasks" /\ item[t].at = "new" /\ item = [u \in Tasks |-> item[u]]
        /\ UNCHANGED <<sweeping, stage, traces, ledger, epoch, writes, drained, decided>>
    BY DEF BeginTask, diskUnchanged, queueUnchanged, fixedInRun, ResumeInv
  <1>2. PICK new : new = [NewItem EXCEPT !.at = "attempt", !.n = 1]
    OBVIOUS
  <1>3. ItemShaped(new) /\ new.at = "attempt" /\ new.n = 1 /\ new.cached = FALSE
    BY <1>2 DEF ItemShaped, NewItem
  <1>4. item' = [item EXCEPT ![t] = new]
    BY <1>2 DEF BeginTask
  <1>5. item'[t] = new /\ (\A u \in Tasks \ {t} : item'[u] = item[u]) /\ item' = [u \in Tasks |-> item'[u]]
    BY <1>1, <1>4
  <1>6. \A u \in Tasks : Of(u)' = Of(u)
    BY <1>1 DEF Of
  <1>7. ASSUME ~sweeping, NEW u \in Tasks
        PROVE  TaskResumable(u)'
    <2>1. TaskResumable(u)
      BY <1>7 DEF ResumeInv
    <2>2. CASE u # t
      BY <1>1, <1>5, <1>6, <2>1, <2>2, OtherTaskResumable
    <2>3. CASE u = t
      <3>1. ~item[t].cached /\ RolledOut(t)
        BY <1>1, <2>1, <2>3 DEF TaskResumable
      <3>2. Queued(t, 0) /\ 0 \in 0..MaxAttempts
        BY <1>1, <3>1 DEF RolledOut
      <3>3. Of(t) = {}
        BY <3>2 DEF Queued
      <3>4. FilesGenuine(traces[t], decided[t])' /\ FilesUnfinished(traces[t])'
        BY <1>1, <2>1, <2>3, <3>1
           DEF TaskResumable, RolledOut, FilesGenuine, FilesUnfinished, Ends, File, AttemptNumbers, Fits, SameAttempt
      <3>5. Queued(t, 0)' /\ Undecided(t, 0)'
        BY <1>3, <1>5, <1>6, <3>2, <3>3, BenchmarkAssumption DEF Queued, Undecided
      <3>6. RolledOut(t)'
        BY <1>3, <1>5, <3>2, <3>4, <3>5 DEF RolledOut
      <3> QED BY <1>1, <1>3, <1>5, <2>1, <2>3, <3>4, <3>6 DEF TaskResumable, DecidedBefore
    <2> QED BY <2>2, <2>3
  <1>8. ASSUME sweeping, NEW u \in Tasks
        PROVE  InLedger(u)'
    <2>1. LedgerLines(u)' = LedgerLines(u) /\ LedgerRefs(u)' = LedgerRefs(u) /\ InLedger(u)
      BY <1>1, <1>8 DEF ResumeInv, LedgerLines, LedgerRefs
    <2>2. CASE u = t
      BY <1>3, <1>5, <2>2 DEF InLedger
    <2>3. CASE u # t
      BY <1>5, <2>1, <2>3 DEF InLedger
    <2> QED BY <2>2, <2>3
  <1> QED BY <1>1, <1>3, <1>5, <1>7, <1>8 DEF ResumeInv, ItemShaped, Indexed

\* What an attempt without a branch makes of an item.
LEMMA AttemptOver ==
  ASSUME NEW this, ItemShaped(this), this.at = "attempt", NEW outcome, NEW blocked \in BOOLEAN, NEW branch
  PROVE  LET new == AfterAttempt(this, outcome, branch, blocked)
             over == EndsRollout(this, outcome, blocked)
         IN  /\ ItemShaped(new) /\ new.cached = this.cached
             /\ over => new.at = IF sweeping THEN "ledger" ELSE "score"
             /\ ~over => new.at = "attempt" /\ new.n = this.n + 1
             /\ over /\ branch = NoTrace /\ this.n \in AttemptNumbers => new.results[MaxAttempts] = Trace(outcome)
  <1> DEFINE new == AfterAttempt(this, outcome, branch, blocked)
             over == EndsRollout(this, outcome, blocked)
             serves == IF over THEN this.n..MaxAttempts ELSE {this.n}
             id(b) == TraceId(this.n, IF b = this.n /\ branch # NoTrace THEN "branch" ELSE "main")
             trace(b) == IF b = this.n /\ branch # NoTrace THEN branch ELSE Trace(outcome)
  <1>1. PICK refs, found : /\ refs = [b \in AttemptNumbers |-> IF b \in serves THEN id(b) ELSE this.refs[b]]
                           /\ found = [b \in AttemptNumbers |-> IF b \in serves THEN trace(b) ELSE this.results[b]]
    OBVIOUS
  <1>2. PICK at, n : /\ n = IF over THEN this.n ELSE this.n + 1
                     /\ at = IF over THEN IF sweeping THEN "ledger" ELSE "score" ELSE this.at
    OBVIOUS
  <1>3. new = [this EXCEPT !.refs = refs, !.results = found, !.n = n, !.at = at]
    BY <1>1, <1>2, Zenon DEF AfterAttempt
  <1> HIDE DEF new, over
  <1>4. new = [at |-> at, n |-> n, refs |-> refs, results |-> found, cached |-> this.cached]
    BY <1>3 DEF ItemShaped
  <1>5. /\ new.at = at /\ new.n = n /\ new.results = found /\ new.cached = this.cached /\ ItemShaped(new)
    BY <1>4 DEF ItemShaped
  <1>6. ASSUME over, branch = NoTrace, this.n \in AttemptNumbers
        PROVE  found[MaxAttempts] = Trace(outcome)
    <2>1. MaxAttempts \in AttemptNumbers /\ trace(MaxAttempts) = Trace(outcome)
      BY <1>6, BenchmarkAssumption DEF AttemptNumbers
    <2>2. MaxAttempts \in serves
      BY <1>6, BenchmarkAssumption DEF AttemptNumbers
    <2> HIDE DEF serves, trace
    <2> QED BY <1>1, <2>1, <2>2
  <1> QED BY <1>2, <1>5, <1>6 DEF new, over

\* The writes of an attempt join the queue.
AttemptEnds(t, outcome, blocked, branch, kept) ==
  /\ outcome \in {"answer", "none"} \cup (IF item[t].n < MaxAttempts THEN {"guess"} ELSE {})
  /\ blocked => outcome # "answer" /\ item[t].n < MaxAttempts
  /\ branch \in Branches(item[t], outcome)
  /\ kept \in IF blocked THEN AfterUpdate(Trace(outcome)) ELSE {Trace(outcome)}
  /\ item' = [item EXCEPT ![t] = AfterAttempt(item[t], outcome, branch, blocked)]
  /\ writes' = writes \o (IF branch = NoTrace THEN <<>> ELSE <<Write(t, TraceId(item[t].n, "branch"), branch)>>)
                      \o <<Write(t, TraceId(item[t].n, "main"), kept)>>
  /\ drained' = IF blocked THEN Len(writes') ELSE drained

LEMMA WritesJoin ==
  ASSUME ResumeInv, NEW t \in Tasks, NEW outcome, NEW blocked, NEW branch, NEW kept,
         AttemptEnds(t, outcome, blocked, branch, kept)
  PROVE  /\ Indexed(writes') /\ Len(writes') >= Len(writes) /\ \A u \in Tasks \ {t} : Of(u)' = Of(u)
         /\ \A i \in 1..Len(writes) : writes'[i] = writes[i]
         /\ ~sweeping => /\ branch = NoTrace /\ Len(writes') = Len(writes) + 1
                         /\ writes'[Len(writes) + 1] = Write(t, TraceId(item[t].n, "main"), kept)
  <1>3. ~sweeping => branch = NoTrace
    BY DEF AttemptEnds, Branches
  <1>4. PICK main, side : main = Write(t, TraceId(item[t].n, "main"), kept)
                          /\ side = Write(t, TraceId(item[t].n, "branch"), branch)
    OBVIOUS
  <1>5. main.task = t /\ side.task = t
    BY <1>4 DEF Write
  <1>6. PICK first : first = IF branch = NoTrace THEN <<>> ELSE <<side>>
    OBVIOUS
  <1>7. Indexed(first) /\ (\A i \in 1..Len(first) : first[i].task = t) /\ (branch = NoTrace => Len(first) = 0)
    BY <1>5, <1>6 DEF Indexed
  <1>8. Indexed(writes) /\ Indexed(<<main>>) /\ Len(<<main>>) = 1 /\ <<main>>[1] = main
    BY DEF ResumeInv, Indexed
  <1>9. PICK half : half = writes \o first
    OBVIOUS
  <1>10. /\ Indexed(half) /\ Len(half) = Len(writes) + Len(first)
         /\ \A i \in 1..Len(writes) : half[i] = writes[i]
         /\ \A i \in 1..Len(first) : half[Len(writes) + i] = first[i]
    BY <1>7, <1>8, <1>9, ListsJoined
  <1>11. writes' = half \o <<main>>
    BY <1>4, <1>6, <1>9 DEF AttemptEnds
  <1>12. PICK one : one = <<main>>
    OBVIOUS
  <1>13. /\ Indexed(writes') /\ Len(writes') = Len(half) + 1
         /\ \A i \in 1..Len(half) : writes'[i] = half[i]
         /\ writes'[Len(half) + 1] = main
    <2>1. Indexed(one) /\ Len(one) = 1 /\ one[1] = main
      BY <1>8, <1>12
    <2>2. /\ Indexed(half \o one) /\ Len(half \o one) = Len(half) + Len(one)
          /\ \A i \in 1..Len(half) : (half \o one)[i] = half[i]
          /\ \A i \in 1..Len(one) : (half \o one)[Len(half) + i] = one[i]
      <3>1. Indexed(half) /\ Indexed(one)
        BY <1>10, <2>1
      <3> QED BY <3>1, ListsJoined
    <2>3. 1 \in 1..Len(one) /\ (half \o one)[Len(half) + 1] = one[1]
      BY <2>1, <2>2
    <2> QED BY <1>11, <1>12, <2>1, <2>2, <2>3
  <1>14. Len(writes) \in Nat /\ Len(first) \in Nat /\ Len(half) \in Nat
    BY <1>7, <1>8, <1>10 DEF Indexed
  <1>15. \A i \in 1..Len(writes) : writes'[i] = writes[i]
    BY <1>10, <1>13, <1>14
  <1>16. \A i \in 1..Len(writes') : i \notin 1..Len(writes) => writes'[i].task = t
    <2> SUFFICES ASSUME NEW i \in 1..Len(writes'), i \notin 1..Len(writes)
                 PROVE  writes'[i].task = t
      OBVIOUS
    <2>1. CASE i = Len(half) + 1
      BY <1>5, <1>13, <2>1
    <2>2. CASE i # Len(half) + 1
      <3>1. i - Len(writes) \in 1..Len(first) /\ i \in 1..Len(half) /\ Len(writes) + (i - Len(writes)) = i
        <4>1. PICK a \in Nat, b \in Nat : a = Len(writes) /\ b = Len(first)
          BY <1>14
        <4>2. Len(half) = a + b /\ i \in 1..(a + b + 1) /\ i \notin 1..a /\ i # a + b + 1
          BY <1>10, <1>13, <2>2, <4>1
        <4>3. i - a \in 1..b /\ i \in 1..(a + b) /\ a + (i - a) = i
          BY <4>2
        <4> QED BY <4>1, <4>2, <4>3
      <3>2. writes'[i] = first[i - Len(writes)]
        BY <1>10, <1>13, <3>1
      <3> QED BY <1>7, <3>1, <3>2
    <2> QED BY <2>1, <2>2
  <1>17. ASSUME NEW u \in Tasks \ {t}
         PROVE  Of(u)' = Of(u)
    <2>1. Len(writes') >= Len(writes) /\ Len(writes') \in Nat
      BY <1>10, <1>13, <1>14
    <2> QED BY <1>14, <1>15, <1>16, <2>1 DEF Of
  <1>18. /\ Len(writes') >= Len(writes)
         /\ ~sweeping => Len(writes') = Len(writes) + 1 /\ writes'[Len(writes) + 1] = main
    BY <1>3, <1>7, <1>10, <1>13, <1>14
  <1> QED BY <1>3, <1>4, <1>13, <1>15, <1>17, <1>18

LEMMA AttemptResumable ==
  ASSUME ResumeInv, NEW t \in Tasks, EndAttempt(t)
  PROVE  ResumeInv'
  <1>1. /\ stage = "tasks" /\ item[t].at = "attempt" /\ item = [u \in Tasks |-> item[u]] /\ ItemShaped(item[t])
        /\ UNCHANGED <<sweeping, stage, traces, ledger, epoch>> /\ epoch \in Nat /\ epoch > 0
    BY DEF EndAttempt, diskUnchanged, fixedInRun, ResumeInv
  <1>0. \E outcome, blocked, branch, kept : blocked \in BOOLEAN /\ AttemptEnds(t, outcome, blocked, branch, kept)
    <2> DEFINE Outcomes == {"answer", "none"} \cup (IF item[t].n < MaxAttempts THEN {"guess"} ELSE {})
               Queue(branch, kept) ==
                 writes \o (IF branch = NoTrace THEN <<>> ELSE <<Write(t, TraceId(item[t].n, "branch"), branch)>>)
                        \o <<Write(t, TraceId(item[t].n, "main"), kept)>>
    <2>1. PICK outcome \in Outcomes, blocked \in BOOLEAN :
            /\ blocked => outcome # "answer" /\ item[t].n < MaxAttempts
            /\ \E branch \in Branches(item[t], outcome), kept \in IF blocked THEN AfterUpdate(Trace(outcome)) ELSE {Trace(outcome)} :
                 /\ item' = [item EXCEPT ![t] = AfterAttempt(item[t], outcome, branch, blocked)]
                 /\ writes' = Queue(branch, kept)
                 /\ drained' = IF blocked THEN Len(writes') ELSE drained
      BY Zenon DEF EndAttempt
    <2>2. PICK branch \in Branches(item[t], outcome), kept \in IF blocked THEN AfterUpdate(Trace(outcome)) ELSE {Trace(outcome)} :
            /\ item' = [item EXCEPT ![t] = AfterAttempt(item[t], outcome, branch, blocked)]
            /\ writes' = Queue(branch, kept)
            /\ drained' = IF blocked THEN Len(writes') ELSE drained
      BY <2>1
    <2>3. AttemptEnds(t, outcome, blocked, branch, kept)
      BY <2>1, <2>2, Zenon DEF AttemptEnds
    <2> QED BY <2>3
  <1>2. PICK outcome, blocked, branch, kept : blocked \in BOOLEAN /\ AttemptEnds(t, outcome, blocked, branch, kept)
    BY <1>0
  <1>9. /\ Indexed(writes') /\ Len(writes') >= Len(writes) /\ \A u \in Tasks \ {t} : Of(u)' = Of(u)
        /\ \A i \in 1..Len(writes) : writes'[i] = writes[i]
        /\ ~sweeping => /\ branch = NoTrace /\ Len(writes') = Len(writes) + 1
                        /\ writes'[Len(writes) + 1] = Write(t, TraceId(item[t].n, "main"), kept)
    BY <1>2, WritesJoin
  <1>10. drained' \in 0..Len(writes')
    BY <1>2, <1>9 DEF AttemptEnds, ResumeInv, Indexed
  <1>3. PICK new : new = AfterAttempt(item[t], outcome, branch, blocked)
    OBVIOUS
  <1>4. PICK over \in BOOLEAN : over <=> EndsRollout(item[t], outcome, blocked)
    BY DEF EndsRollout
  <1>5. /\ ItemShaped(new) /\ new.cached = item[t].cached
        /\ over => new.at = IF sweeping THEN "ledger" ELSE "score"
        /\ ~over => new.at = "attempt" /\ new.n = item[t].n + 1
        /\ over /\ branch = NoTrace /\ item[t].n \in AttemptNumbers => new.results[MaxAttempts] = Trace(outcome)
    BY <1>1, <1>2, <1>3, <1>4, AttemptOver
  <1>6. item'[t] = new /\ (\A u \in Tasks \ {t} : item'[u] = item[u]) /\ item' = [u \in Tasks |-> item'[u]]
    BY <1>1, <1>2, <1>3 DEF AttemptEnds
  <1>7. /\ decided' = [u \in Tasks |-> decided'[u]]
        /\ \A u \in Tasks \ {t} : decided'[u] = decided[u]
        /\ decided'[t] = IF new.at = "attempt" THEN decided[t] ELSE new.results
    <2>1. decided = [u \in Tasks |-> decided[u]]
      BY DEF ResumeInv
    <2>2. decided' = IF new.at = "attempt" THEN decided ELSE [decided EXCEPT ![t] = new.results]
      BY <1>6 DEF EndAttempt
    <2> QED BY <2>1, <2>2
  <1>8. ASSUME ~sweeping, NEW u \in Tasks
        PROVE  TaskResumable(u)'
    <2>1. TaskResumable(u)
      BY <1>8 DEF ResumeInv
    <2>2. CASE u # t
      <3>1. Of(u)' = Of(u) /\ \A i \in Of(u) : writes'[i] = writes[i]
        BY <1>9, <2>2 DEF Of
      <3> QED BY <1>1, <1>6, <1>7, <2>1, <2>2, <3>1, OtherTaskResumable
    <2>3. CASE u = t
      <3>1. item[t].cached = FALSE /\ RolledOut(t)
        BY <1>1, <2>1, <2>3 DEF TaskResumable
      <3>2. PICK n \in 0..MaxAttempts : Queued(t, n) /\ Undecided(t, n)
        BY <1>1, <3>1 DEF RolledOut
      <3>3. item[t].n = n + 1 /\ n < MaxAttempts /\ n \in Nat /\ MaxAttempts \in Nat /\ n + 1 \in AttemptNumbers
        BY <3>2, BenchmarkAssumption DEF Undecided, AttemptNumbers
      <3>4. PICK last : last = Len(writes) + 1
        OBVIOUS
      <3>5. PICK write : write = writes'[last]
        OBVIOUS
      <3>6. write.task = t /\ write.id = TraceId(n + 1, "main") /\ write.id.n = n + 1 /\ write.trace = kept
        BY <1>8, <1>9, <3>3, <3>4, <3>5 DEF Write, TraceId
      <3>7. /\ Trace(outcome) # NoTrace /\ Trace(outcome).outcome = outcome /\ Trace(outcome).epoch = epoch
            /\ Trace(outcome).capped = FALSE
            /\ ~blocked => kept = Trace(outcome)
            /\ kept # NoTrace => kept.outcome = outcome /\ kept.epoch = epoch
        <4>1. \A one \in AfterUpdate(Trace(outcome)) : one # NoTrace => one.outcome = outcome /\ one.epoch = epoch
          BY DEF AfterUpdate, Trace
        <4>2. Trace(outcome) # NoTrace /\ Trace(outcome).outcome = outcome /\ Trace(outcome).epoch = epoch
              /\ Trace(outcome).capped = FALSE
          BY <1>1 DEF Trace, NoTrace
        <4>3. blocked \/ kept = Trace(outcome)
          BY <1>2 DEF AttemptEnds
        <4> QED BY <1>2, <4>1, <4>2, <4>3 DEF AttemptEnds
      <3>8. Of(t)' = Of(t) \cup {last} /\ Len(writes) \in Nat /\ last \notin Of(t) /\ Of(t) \subseteq Nat
            /\ \A i \in Of(t) : i < last /\ writes'[i] = writes[i]
        <4>1. Len(writes) \in Nat
          BY DEF ResumeInv, Indexed
        <4>2. Len(writes') = last /\ writes'[last].task = t
          BY <1>8, <1>9, <3>4, <3>5, <3>6
        <4> QED BY <1>9, <3>4, <4>1, <4>2 DEF Of
      <3>9. \A i \in Of(t) : \E k \in 1..n : writes[i].id = TraceId(k, "main")
        BY <3>2 DEF Queued
      <3>10. \A i \in Of(t) : writes[i].id.n \in 1..n
        <4>1. \A k : TraceId(k, "main").n = k
          BY DEF TraceId
        <4> QED BY <3>9, <4>1
      \* What is decided, and that what is kept of the attempt fits it.
      <3>11. /\ over => decided'[t][MaxAttempts] = Trace(outcome)
             /\ ~over => decided'[t] = decided[t]
             /\ DecidedBefore(t)'
        <4>1. over => decided'[t][MaxAttempts] = Trace(outcome)
          BY <1>5, <1>7, <1>8, <1>9, <3>3
        <4>2. ~over => decided'[t] = decided[t]
          BY <1>5, <1>7
        <4>3. DecidedBefore(t)
          BY <2>1, <2>3 DEF TaskResumable
        <4> QED BY <1>1, <3>7, <4>1, <4>2, <4>3 DEF DecidedBefore
      <3>17. QueuedFits(t, last)'
        <4> SUFFICES ASSUME kept # NoTrace, Boxed(kept) \/ kept.capped \/ n + 1 = MaxAttempts
                     PROVE  Fits(kept, decided'[t])
          BY <1>1, <1>2, <3>5, <3>6, <3>7 DEF QueuedFits, Fits, SameAttempt, Boxed, AttemptEnds
        <4>1. CASE over
          BY <3>7, <3>11, <4>1 DEF Fits, SameAttempt
        <4>2. CASE ~over
          <5>1. outcome # "answer" /\ ~blocked /\ item[t].n # MaxAttempts
            BY <1>2, <1>4, <4>2 DEF EndsRollout
          <5>2. kept.outcome = "guess"
            BY <1>2, <3>3, <3>7, <5>1 DEF AttemptEnds, Boxed
          <5>3. decided'[t][MaxAttempts].epoch <= kept.epoch
            BY <1>1, <3>7, <3>11 DEF DecidedBefore
          <5> QED BY <5>2, <5>3 DEF Fits
        <4> QED BY <4>1, <4>2
      <3>12. Queued(t, n + 1)'
        <4>1. \A i \in Of(t)' : \E k \in 1..(n + 1) : writes'[i].id = TraceId(k, "main")
          <5>1. \A i \in Of(t) : \E k \in 1..(n + 1) : writes'[i].id = TraceId(k, "main")
            BY <3>3, <3>8, <3>9
          <5> QED BY <3>3, <3>5, <3>6, <3>8, <5>1
        <4>2. \A k \in 1..(n + 1) : \E i \in Of(t)' : writes'[i].id = TraceId(k, "main")
          <5>1. \A k \in 1..n : \E i \in Of(t) : writes[i].id = TraceId(k, "main")
            BY <3>2 DEF Queued
          <5>2. \A k \in 1..n : \E i \in Of(t)' : writes'[i].id = TraceId(k, "main")
            BY <3>8, <5>1
          <5>3. \A k \in 1..(n + 1) : k \in 1..n \/ k = n + 1
            BY <3>3
          <5> QED BY <3>5, <3>6, <3>8, <5>2, <5>3
        <4>3. \A i, j \in Of(t)' : i < j => writes'[i].id.n < writes'[j].id.n
          <5> SUFFICES ASSUME NEW i \in Of(t)', NEW j \in Of(t)', i < j
                       PROVE  writes'[i].id.n < writes'[j].id.n
            OBVIOUS
          <5>1. i \in Of(t)
            BY <3>4, <3>8
          <5>2. CASE j = last
            BY <3>3, <3>5, <3>6, <3>8, <3>10, <5>1, <5>2
          <5>3. CASE j \in Of(t)
            BY <3>2, <3>8, <5>1, <5>3 DEF Queued
          <5> QED BY <3>8, <5>2, <5>3
        <4>4. \A i \in Of(t)' : writes'[i].trace # NoTrace \/ n + 1 < MaxAttempts
          <5>1. \A i \in Of(t) : writes'[i].trace # NoTrace
            BY <3>2, <3>8 DEF Undecided
          <5>2. writes'[last].trace # NoTrace \/ n + 1 < MaxAttempts
            BY <1>2, <3>3, <3>5, <3>6, <3>7 DEF AttemptEnds
          <5> QED BY <3>8, <5>1, <5>2
        \* An earlier attempt that looks as if it ended the task is a guess.
        <4>5. ASSUME NEW i \in Of(t)
              PROVE  QueuedFits(t, i)'
          <5>1. /\ writes'[i] = writes[i] /\ writes[i].trace # NoTrace /\ writes[i].trace.epoch = epoch
                /\ writes[i].trace.outcome \in {"guess", "none"} /\ ~writes[i].trace.capped
            <6>1. writes[i].trace # NoTrace /\ writes[i].trace.outcome # "answer" /\ ~writes[i].trace.capped
              BY <3>2 DEF Undecided
            <6> QED BY <3>2, <3>8, <6>1 DEF Queued, QueuedFits
          <5>2. writes[i].id.n # MaxAttempts
            BY <3>3, <3>10
          <5>3. decided'[t][MaxAttempts].epoch <= epoch
            BY <1>1, <3>11 DEF DecidedBefore
          <5> QED BY <1>1, <5>1, <5>2, <5>3 DEF QueuedFits, Fits, SameAttempt, Boxed
        <4> QED BY <3>8, <3>17, <4>1, <4>2, <4>3, <4>4, <4>5 DEF Queued
      <3>13. new.at # "new"
        BY <1>5, <1>8
      <3>14. new.at = "attempt" => Undecided(t, n + 1)'
        <4> SUFFICES ASSUME new.at = "attempt"
                     PROVE  Undecided(t, n + 1)'
          OBVIOUS
        <4>1. ~over
          BY <1>5, <1>8
        <4>2. outcome # "answer" /\ ~blocked /\ item[t].n # MaxAttempts /\ new.n = n + 2
          BY <1>4, <1>5, <3>3, <4>1 DEF EndsRollout
        <4>3. \A i \in Of(t)' : writes'[i].trace # NoTrace /\ writes'[i].trace.outcome # "answer" /\ ~writes'[i].trace.capped
          BY <3>2, <3>5, <3>6, <3>7, <3>8, <4>2 DEF Undecided
        <4> QED BY <1>6, <3>3, <4>2, <4>3 DEF Undecided
      <3>15. FilesUnfinished(traces[t])' /\ FilesGenuine(traces[t], decided[t])'
        <4>1. FilesUnfinished(traces[t])' /\ (File(traces[t], MaxAttempts) # NoTrace =>
                \A k \in AttemptNumbers : File(traces[t], k) # NoTrace)
          BY <1>1, <2>1, <2>3, <3>1
             DEF TaskResumable, RolledOut, FilesGenuine, FilesUnfinished, Ends, File, AttemptNumbers
        <4> QED BY <1>1, <4>1 DEF FilesUnfinished, FilesGenuine, File, AttemptNumbers, Ends
      <3>16. RolledOut(t)'
        <4>1. n + 1 \in 0..MaxAttempts
          BY <3>3
        <4> QED BY <1>6, <3>12, <3>13, <3>14, <3>15, <4>1 DEF RolledOut
      <3> QED BY <1>5, <1>6, <2>3, <3>1, <3>11, <3>15, <3>16 DEF TaskResumable
    <2> QED BY <2>2, <2>3
  <1>11. ASSUME sweeping, NEW u \in Tasks
        PROVE  InLedger(u)'
    <2>1. CASE u = t
      BY <1>5, <1>6, <1>11, <2>1 DEF InLedger
    <2>2. CASE u # t
      BY <1>1, <1>6, <1>11, <2>2 DEF ResumeInv, InLedger, LedgerLines, LedgerRefs
    <2> QED BY <2>1, <2>2
  <1> QED BY <1>1, <1>5, <1>6, <1>7, <1>8, <1>9, <1>10, <1>11 DEF ResumeInv, ItemShaped, Indexed

\* A task that is scored, that failed, or that is entered in the ledger.
LEMMA MoveResumable ==
  ASSUME ResumeInv, NEW t \in Tasks, FailTask(t) \/ AppendLedger(t) \/ Score(t)
  PROVE  ResumeInv'
  <1>1. /\ stage = "tasks" /\ UNCHANGED <<sweeping, stage, traces, epoch, writes, drained, decided>>
        /\ item = [u \in Tasks |-> item[u]] /\ ItemShaped(item[t]) /\ Indexed(ledger)
    BY DEF FailTask, AppendLedger, Score, diskUnchanged, queueUnchanged, fixedInRun, ResumeInv
  <1>2. PICK at \in {"score", "reported"} :
          /\ item' = [item EXCEPT ![t].at = at]
          /\ \/ at = "reported" /\ ledger' = ledger
             \/ at = "score" /\ ledger' = Append(ledger, [task |-> t, refs |-> item[t].refs])
    BY DEF FailTask, AppendLedger, Score, diskUnchanged, LedgerWith
  <1>3. PICK new : new = [item[t] EXCEPT !.at = at]
    OBVIOUS
  <1>4. ItemShaped(new) /\ new.at = at /\ new.refs = item[t].refs
    BY <1>1, <1>3 DEF ItemShaped
  <1>5. item' = [item EXCEPT ![t] = new]
    BY <1>2, <1>3
  <1>6. item'[t] = new /\ (\A u \in Tasks \ {t} : item'[u] = item[u]) /\ item' = [u \in Tasks |-> item'[u]]
    BY <1>1, <1>5
  <1>7. ASSUME ~sweeping, NEW u \in Tasks
        PROVE  TaskResumable(u)'
    <2>1. TaskResumable(u)
      BY <1>7 DEF ResumeInv
    <2>2. CASE u # t
      <3>1. Of(u)' = Of(u)
        BY <1>1 DEF Of
      <3> QED BY <1>1, <1>6, <2>1, <2>2, <3>1, OtherTaskResumable
    <2>3. CASE u = t
      BY <1>1, <1>3, <1>6, <2>1, <2>3, MovedTaskResumable
    <2> QED BY <2>2, <2>3
  <1>8. Indexed(ledger')
    <2>1. CASE ledger' = ledger
      BY <1>1, <2>1
    <2>2. CASE ledger' = Append(ledger, [task |-> t, refs |-> item[t].refs])
      <3>1. Indexed(Append(ledger, [task |-> t, refs |-> item[t].refs]))
        BY <1>1, ListAppended
      <3> QED BY <2>2, <3>1
    <2> QED BY <1>2, <2>1, <2>2
  <1>9. ASSUME sweeping, NEW u \in Tasks
        PROVE  InLedger(u)'
    <2>1. CASE ledger' = ledger /\ at = "reported"
      <3>1. CASE u = t
        BY <1>4, <1>6, <2>1, <3>1 DEF InLedger
      <3>2. CASE u # t
        BY <1>6, <1>9, <2>1, <3>2 DEF ResumeInv, InLedger, LedgerLines, LedgerRefs
      <3> QED BY <3>1, <3>2
    <2>2. CASE ledger' = Append(ledger, [task |-> t, refs |-> item[t].refs])
      <3>1. PICK line : line = [task |-> t, refs |-> item[t].refs]
        OBVIOUS
      <3>2. CASE u = t
        <4>1. LedgerLines(t)' # {} /\ LedgerRefs(t)' = item[t].refs
          BY <1>1, <2>2, LineEntered
        <4> QED BY <1>4, <1>6, <3>2, <4>1 DEF InLedger
      <3>3. CASE u # t
        <4>1. line.task # u /\ ledger' = Append(ledger, line)
          BY <2>2, <3>1, <3>3
        <4>2. LedgerLines(u)' = LedgerLines(u) /\ (LedgerLines(u) # {} => LedgerRefs(u)' = LedgerRefs(u))
          BY <1>1, <4>1, LineStays
        <4> QED BY <1>6, <1>9, <3>3, <4>2 DEF ResumeInv, InLedger
      <3> QED BY <3>2, <3>3
    <2> QED BY <1>2, <2>1, <2>2
  <1> QED BY <1>1, <1>4, <1>6, <1>7, <1>8, <1>9 DEF ResumeInv, ItemShaped, Indexed

\* A run begins, with the files as they are or without any.
LEMMA StartResumable ==
  ASSUME ResumeInv, StartFresh \/ Resume
  PROVE  ResumeInv'
  <1>1. /\ stage' = "tasks" /\ epoch' = epoch + 1 /\ writes' = <<>> /\ epoch \in Nat
        /\ UNCHANGED <<sweeping, decided>> /\ decided = [u \in Tasks |-> decided[u]]
    BY DEF StartFresh, Resume, NewRun, ResumeInv
  <1>2. ItemShaped(NewItem) /\ NewItem.at = "new" /\ NewItem.cached = FALSE
    BY DEF NewItem, ItemShaped
  <1>3. \A t \in Tasks : /\ ItemShaped(CachedItem(t)) /\ CachedItem(t).at = "score" /\ CachedItem(t).cached = TRUE
                         /\ sweeping => CachedItem(t).refs = LedgerRefs(t)
                         /\ ~sweeping => \A b \in AttemptNumbers :
                              CachedItem(t).results[b] = File(traces[t], Highest(t))
    BY DEF CachedItem, ItemShaped, File
  <1>4. Indexed(writes') /\ drained' \in 0..Len(writes') /\ \A t \in Tasks : Of(t)' = {}
    BY <1>1 DEF Indexed, Of, StartFresh, Resume, NewRun
  <1> HIDE DEF NewItem, CachedItem, ItemShaped
  \* A task that is rolled out.
  <1>12. \A t \in Tasks : ~sweeping => DecidedBefore(t)'
    BY <1>1 DEF ResumeInv, TaskResumable, DecidedBefore
  <1>5. ASSUME NEW t \in Tasks, ~sweeping, item'[t] = NewItem, FilesUnfinished(traces'[t]),
               File(traces'[t], MaxAttempts) # NoTrace => \A k \in AttemptNumbers : File(traces'[t], k) # NoTrace
        PROVE  TaskResumable(t)'
    <2>1. Queued(t, 0)' /\ 0 \in 0..MaxAttempts
      BY <1>4, BenchmarkAssumption DEF Queued
    <2>2. FilesUnfinished(traces[t])' /\ FilesGenuine(traces[t], decided[t])'
      BY <1>5 DEF FilesUnfinished, FilesGenuine, Ends, File, AttemptNumbers
    <2>3. RolledOut(t)'
      BY <1>2, <1>5, <2>1, <2>2 DEF RolledOut
    <2> QED BY <1>2, <1>5, <1>12, <2>2, <2>3 DEF TaskResumable
  <1>6. CASE StartFresh
    <2>1. item' = [t \in Tasks |-> NewItem] /\ traces' = [t \in Tasks |-> [id \in TraceIds |-> NoTrace]] /\ ledger' = <<>>
      BY <1>6 DEF StartFresh
    <2>2. ASSUME NEW t \in Tasks
          PROVE  FilesUnfinished(traces'[t]) /\ File(traces'[t], MaxAttempts) = NoTrace
      <3>1. \A k \in AttemptNumbers : File(traces'[t], k) = NoTrace
        BY <2>1 DEF TraceIds, TraceId, AttemptNumbers, File
      <3>2. MaxAttempts \in AttemptNumbers
        BY BenchmarkAssumption DEF AttemptNumbers
      <3> QED BY <3>1, <3>2 DEF FilesUnfinished, Ends
    <2>3. \A t \in Tasks : item'[t] = NewItem /\ (~sweeping => TaskResumable(t)') /\ InLedger(t)'
      BY <1>2, <1>5, <2>1, <2>2 DEF InLedger
    <2>4. Indexed(ledger') /\ item' = [t \in Tasks |-> item'[t]]
      BY <2>1 DEF Indexed
    <2> QED BY <1>1, <1>2, <1>4, <2>3, <2>4 DEF ResumeInv, ItemShaped, Indexed
  <1>7. CASE Resume
    <2>1. item' = [t \in Tasks |-> IF Completed(t) THEN CachedItem(t) ELSE NewItem] /\ UNCHANGED <<traces, ledger>>
      BY <1>7 DEF Resume
    <2>2. \A t \in Tasks : item'[t] = IF Completed(t) THEN CachedItem(t) ELSE NewItem
      BY <2>1
    <2>3. ASSUME ~sweeping, NEW t \in Tasks
          PROVE  TaskResumable(t)'
      <3>1. FilesGenuine(traces[t], decided[t])
        BY <2>3 DEF ResumeInv, TaskResumable
      <3>2. Completed(t) <=> TaskCompleted(t)
        BY <2>3 DEF Completed
      <3>3. CASE TaskCompleted(t)
        <4>1. item'[t] = CachedItem(t)
          BY <2>2, <3>2, <3>3
        <4>2. Fits(File(traces[t], Highest(t)), decided[t])
          BY <3>1, <3>3, CompletedIsGenuine
        <4>3. item'[t].results[MaxAttempts] = File(traces[t], Highest(t))
          BY <1>3, <2>3, <4>1, BenchmarkAssumption DEF AttemptNumbers
        <4>4. Fits(item'[t].results[MaxAttempts], decided'[t])
          BY <1>1, <4>2, <4>3 DEF Fits, SameAttempt
        <4>5. FilesGenuine(traces[t], decided[t])'
          BY <1>1, <2>1, <3>1 DEF FilesGenuine, Ends, File, AttemptNumbers, Fits, SameAttempt
        <4>6. Fits(item[t].results[MaxAttempts], decided[t])'
          BY <4>4 DEF Fits, SameAttempt
        <4> QED BY <1>3, <1>4, <1>12, <2>3, <4>1, <4>5, <4>6 DEF TaskResumable
      <3>4. CASE ~TaskCompleted(t)
        <4>1. item'[t] = NewItem
          BY <2>2, <3>2, <3>4
        <4>2. FilesUnfinished(traces'[t]) /\ (File(traces'[t], MaxAttempts) # NoTrace =>
                \A k \in AttemptNumbers : File(traces'[t], k) # NoTrace)
          BY <2>1, <3>1, <3>4, CompletedIsGenuine DEF FilesGenuine
        <4> QED BY <1>5, <2>3, <4>1, <4>2
      <3> QED BY <3>3, <3>4
    <2>4. ASSUME sweeping, NEW t \in Tasks
          PROVE  InLedger(t)'
      <3>1. LedgerLines(t)' = LedgerLines(t) /\ LedgerRefs(t)' = LedgerRefs(t)
        BY <2>1 DEF LedgerLines, LedgerRefs
      <3>2. CASE Completed(t)
        <4>1. LedgerLines(t) # {} /\ item'[t] = CachedItem(t)
          BY <2>2, <2>4, <3>2 DEF Completed, SweepCompleted
        <4> QED BY <1>3, <2>4, <3>1, <4>1 DEF InLedger
      <3>3. CASE ~Completed(t)
        BY <1>2, <2>2, <3>3 DEF InLedger
      <3> QED BY <3>2, <3>3
    <2>5. Indexed(ledger') /\ item' = [t \in Tasks |-> item'[t]]
      BY <2>1 DEF ResumeInv, Indexed
    <2>6. \A t \in Tasks : ItemShaped(item'[t])
      BY <1>2, <1>3, <2>2
    <2> QED BY <1>1, <1>4, <2>3, <2>4, <2>5, <2>6 DEF ResumeInv, ItemShaped, Indexed
  <1> QED BY <1>6, <1>7

\* Tasks that are not running, over files that are genuine.
LEMMA StillResumable ==
  ASSUME ResumeInv, stage' # "tasks", writes' = <<>>, drained' = 0, UNCHANGED <<sweeping, epoch, decided>>, Indexed(ledger'),
         \/ item' = item /\ ledger' = ledger
         \/ item' = [t \in Tasks |-> NewItem],
         ~sweeping => \A t \in Tasks : FilesGenuine(traces'[t], decided[t])
  PROVE  ResumeInv'
  <1>1. ItemShaped(NewItem) /\ NewItem.at = "new" /\ NewItem.cached = FALSE
    BY DEF NewItem, ItemShaped
  <1> HIDE DEF NewItem
  <1>2. item' = [t \in Tasks |-> item'[t]] /\ \A t \in Tasks : ItemShaped(item'[t]) /\ (item'[t] = NewItem \/ item' = item)
    BY <1>1 DEF ResumeInv
  <1>3. Indexed(writes') /\ drained' \in 0..Len(writes') /\ \A t \in Tasks : Of(t)' = {}
    BY DEF Indexed, Of
  <1>4. ASSUME ~sweeping, NEW t \in Tasks
        PROVE  TaskResumable(t)'
    <2>1. FilesGenuine(traces[t], decided[t])'
      BY <1>4 DEF FilesGenuine, Ends, File, AttemptNumbers, Fits, SameAttempt
    <2>4. DecidedBefore(t)'
      BY <1>4 DEF ResumeInv, TaskResumable, DecidedBefore
    <2>2. CASE item'[t] = NewItem
      BY <1>1, <2>1, <2>2, <2>4 DEF TaskResumable
    <2>3. CASE item' = item
      <3>1. TaskResumable(t) /\ item'[t] = item[t] /\ decided'[t] = decided[t]
        BY <1>4, <2>3 DEF ResumeInv
      <3>2. item[t].cached => Fits(item[t].results[MaxAttempts], decided[t])'
        BY <3>1 DEF TaskResumable, Fits, SameAttempt
      <3> QED BY <1>3, <2>1, <2>4, <3>1, <3>2 DEF TaskResumable
    <2> QED BY <1>2, <2>2, <2>3
  <1>5. ASSUME sweeping, NEW t \in Tasks
        PROVE  InLedger(t)'
    <2>1. CASE item'[t] = NewItem
      BY <1>1, <2>1 DEF InLedger
    <2>2. CASE item' = item /\ ledger' = ledger
      BY <1>5, <2>2 DEF ResumeInv, InLedger, LedgerLines, LedgerRefs
    <2> QED BY <2>1, <2>2
  <1>6. epoch' \in Nat /\ decided' = [t \in Tasks |-> decided'[t]]
    BY DEF ResumeInv
  <1> QED BY <1>2, <1>3, <1>4, <1>5, <1>6 DEF ResumeInv, ItemShaped, Indexed

LEMMA EndResumable ==
  ASSUME ResumeInv, CloseLogger \/ WriteRows \/ WriteSummary \/ Exit \/ Die \/ \E b \in SmallerBudgets : WriteBudget(b)
  PROVE  ResumeInv'
  <1>1. /\ Indexed(writes) /\ Indexed(ledger) /\ (stage # "tasks" => writes = <<>> /\ drained = 0)
        /\ Len(writes) \in Nat /\ drained \in 0..Len(writes)
    BY DEF ResumeInv, Indexed
  <1>2. ~sweeping => \A t \in Tasks : FilesGenuine(traces[t], decided[t])
    BY DEF ResumeInv, TaskResumable
  <1>3. CASE CloseLogger
    <2>1. \A t \in Tasks : ~sweeping => FilesGenuine(Applied(traces, writes)[t], decided[t])
      <3>1. DOMAIN writes = 1..Len(writes) /\ Len(writes) \in 0..Len(writes)
        BY <1>1 DEF Indexed
      <3> QED BY <3>1, DiskStaysGenuine
    <2> QED BY <1>1, <1>3, <2>1, StillResumable DEF CloseLogger, fixedInRun
  <1>4. CASE WriteRows \/ WriteSummary \/ \E b \in SmallerBudgets : WriteBudget(b)
    <2>1. /\ stage # "tasks" /\ stage' # "tasks"
          /\ UNCHANGED <<sweeping, traces, ledger, epoch, item, writes, drained, decided>>
      BY <1>4 DEF WriteRows, WriteSummary, WriteBudget
    <2> QED BY <1>1, <1>2, <2>1, StillResumable
  <1>5. CASE Exit
    <2>1. /\ stage' # "tasks" /\ writes' = <<>> /\ drained' = 0 /\ item' = [t \in Tasks |-> NewItem]
          /\ UNCHANGED <<sweeping, epoch, decided, traces, ledger>>
      BY <1>5 DEF Exit, Gone
    <2> HIDE DEF NewItem
    <2> QED BY <1>1, <1>2, <2>1, StillResumable
  <1>6. CASE Die
    <2>1. /\ stage' # "tasks" /\ writes' = <<>> /\ drained' = 0 /\ item' = [t \in Tasks |-> NewItem]
          /\ UNCHANGED <<sweeping, epoch, decided>> /\ ledger' \in {ledger, Append(ledger, Torn)}
      BY <1>6 DEF Die, Gone
    <2>2. PICK m \in 0..Len(writes) : traces' = Applied(traces, SubSeq(writes, 1, m))
      <3>1. drained..Len(writes) \subseteq 0..Len(writes)
        BY <1>1
      <3> QED BY <1>6, <3>1 DEF Die
    <2>3. PICK queue : queue = SubSeq(writes, 1, m)
      OBVIOUS
    <2>4. DOMAIN queue = 1..m /\ \A i \in 1..m : queue[i] = writes[i]
      <3> DEFINE S == {writes[i] : i \in 1..Len(writes)}
      <3>1. writes \in [1..Len(writes) -> S]
        BY <1>1 DEF Indexed
      <3> HIDE DEF S
      <3>2. writes \in Seq(S)
        BY <1>1, <3>1
      <3> QED BY <1>1, <2>3, <3>2
    <2>5. ~sweeping => \A t \in Tasks : FilesGenuine(traces'[t], decided[t])
      BY <2>2, <2>3, <2>4, DiskStaysGenuine
    <2>6. Indexed(ledger')
      <3>1. Indexed(Append(ledger, Torn))
        BY <1>1, ListAppended
      <3> HIDE DEF Indexed
      <3> QED BY <1>1, <2>1, <3>1
    <2> HIDE DEF NewItem
    <2> QED BY <2>1, <2>5, <2>6, StillResumable
  <1> QED BY <1>3, <1>4, <1>5, <1>6

LEMMA ResumeSteps == ResumeInv /\ [BenchmarkNext]_benchVars => ResumeInv'
  <1> SUFFICES ASSUME ResumeInv, [BenchmarkNext]_benchVars
               PROVE  ResumeInv'
    OBVIOUS
  <1>1. CASE UNCHANGED benchVars
    <2>1. UNCHANGED <<sweeping, traces, ledger, stage, epoch, item, writes, drained, decided>>
      BY <1>1 DEF benchVars
    <2>2. \A t \in Tasks : Of(t)' = Of(t) /\ (InLedger(t) => InLedger(t)')
      BY <2>1 DEF Of, InLedger, LedgerLines, LedgerRefs
    <2>3. \A t \in Tasks : TaskResumable(t) => TaskResumable(t)'
      BY <2>1, <2>2, OtherTaskResumable
    <2> QED BY <2>1, <2>2, <2>3 DEF ResumeInv, ItemShaped, Indexed
  <1> QED BY <1>1, StartResumable, BeginResumable, AttemptResumable, MoveResumable, EndResumable DEF BenchmarkNext

\* ResumedTasksGenuine for every dataset, number of attempts and sequence of runs, however
\* each of them ended: what a resumed run takes from an earlier one is the result of the
\* task's latest complete rollout, or a guess no older than it
\* (evaluate_benchmark.py, _build_completed_task_cache).
THEOREM ResumedAlwaysGenuine == BenchmarkSpec => []ResumedTasksGenuine
  <1>1. ASSUME ResumeInv
        PROVE  ResumedTasksGenuine
    <2>1. ASSUME NEW t \in Tasks, ~sweeping, item[t].cached
          PROVE  Genuine(t) \/ RejectedGuess(t)
      <3>1. Fits(item[t].results[MaxAttempts], decided[t])
        BY <1>1, <2>1 DEF ResumeInv, TaskResumable
      <3> QED BY <2>1, <3>1 DEF Fits, Genuine, RejectedGuess, SweepBudgets
    <2>2. ASSUME NEW t \in Tasks, sweeping, item[t].at = "score"
          PROVE  LedgerLines(t) # {} /\ LedgerRefs(t) = item[t].refs
      BY <1>1, <2>2 DEF ResumeInv, InLedger
    <2> QED BY <2>1, <2>2 DEF ResumedTasksGenuine
  <1> QED BY <1>1, ResumeStarts, ResumeSteps, PTL DEF BenchmarkSpec

-----------------------------------------------------------------------------
(***************************************************************************)
(* No answer is judged twice, for any tasks, judges and launches. The      *)
(* argument relates the sidecars to the table: between passes a sidecar    *)
(* holds what the table holds, a pass only asks about rows whose sidecar   *)
(* is of no use, and what it saves in the sidecars is what the table will  *)
(* hold.                                                                   *)
(***************************************************************************)
\* What the proof needs to know of the judge: its pass is a record, the sidecars are one
\* per task, and it does not work while no launch is on or between its two processes.
JudgeShape ==
  /\ judge.pass = [rows |-> judge.pass.rows, complete |-> judge.pass.complete, found |-> judge.pass.found,
                   verdicts |-> judge.pass.verdicts, asking |-> judge.pass.asking]
  /\ sidecar = [t \in Items |-> sidecar[t]]
  /\ runner = "off" => judge.role = "none"
  /\ judge.role \in {"none", "stopped"} => judge.at = "idle"
  /\ judge.at \in {"idle", "loaded", "scored", "asking", "saved", "over"}

\* Unless a pass was cut short: between passes, and until the pass has read what there is,
\* a sidecar holds what the table does, or is not there; while it asks, of no row it asks
\* about is there a sidecar of use; and then the sidecars hold what will be the table.
SidecarsFollowTable ==
  ~cut =>
    /\ orphans = {}
    /\ judge.at \in {"idle", "loaded", "scored", "over"} =>
         \A t \in Items : aggregate.rows[t] # NoVerdict => sidecar[t] \in {aggregate.rows[t], NoVerdict}
    /\ judge.at = "asking" => judge.pass.asking \subseteq Items /\ \A t \in judge.pass.asking : ~Reusable(sidecar[t])
    /\ judge.at = "saved" =>
         \A t \in Items : judge.pass.verdicts[t] # NoVerdict => sidecar[t] \in {judge.pass.verdicts[t], NoVerdict}

JudgeInv == JudgeShape /\ SidecarsFollowTable

LEMMA JudgeSafe == JudgeInv => JudgedOnce
  BY DEF JudgeInv, SidecarsFollowTable, JudgedOnce, At

LEMMA NoPassShape ==
  /\ NoPass = [rows |-> NoPass.rows, complete |-> NoPass.complete, found |-> NoPass.found,
               verdicts |-> NoPass.verdicts, asking |-> NoPass.asking]
  /\ NoPass.asking = {}
  /\ NoVerdicts = [t \in Items |-> NoVerdicts[t]] /\ \A t \in Items : NoVerdicts[t] = NoVerdict
  BY DEF NoPass, NoVerdicts

LEMMA JudgeStarts == JudgeInit => JudgeInv
  BY NoPassShape DEF JudgeInit, JudgeInv, JudgeShape, SidecarsFollowTable, Process, NoAggregate, NoVerdicts

-----------------------------------------------------------------------------
\* A step that leaves the verdicts alone, and the judge or where it is, but for a rest.
LEMMA NoVerdictWritten ==
  ASSUME JudgeInv, UNCHANGED <<sidecar, aggregate, cut>>, orphans' \in {orphans, {}},
         \/ judge' = judge /\ settings' = settings
         \/ {judge.at, judge'.at} \subseteq {"idle", "loaded", "scored", "over"},
         judge'.pass = judge.pass \/ judge'.pass = NoPass \/ (\E reading : judge'.pass = [NoPass EXCEPT !.rows = reading.rows, !.complete = reading.complete]),
         runner' = "off" => judge'.role = "none", judge'.role \in {"none", "stopped"} => judge'.at = "idle"
  PROVE  JudgeInv'
  <1>1. JudgeShape'
    <2>1. judge'.pass = [rows |-> judge'.pass.rows, complete |-> judge'.pass.complete, found |-> judge'.pass.found,
                         verdicts |-> judge'.pass.verdicts, asking |-> judge'.pass.asking]
      BY NoPassShape DEF JudgeInv, JudgeShape, NoPass
    <2> QED BY <2>1 DEF JudgeInv, JudgeShape
  <1>2. SidecarsFollowTable'
    BY DEF JudgeInv, SidecarsFollowTable, Reusable
  <1> QED BY <1>1, <1>2 DEF JudgeInv

\* Every step keeps the invariant.
LEMMA JudgeSteps == JudgeInv /\ [JudgeNext]_judgeVars => JudgeInv'
  <1> SUFFICES ASSUME JudgeInv, [JudgeNext]_judgeVars PROVE JudgeInv'
    OBVIOUS
  <1> USE DEF Process
  <1>1. CASE \E resume \in BOOLEAN : Launch(resume)
    <2>1. /\ runner = "off" /\ runner' # "off" /\ judge' = Process("watch", "idle", NoPass)
          /\ UNCHANGED <<sidecar, aggregate, orphans, cut>>
      BY <1>1 DEF Launch
    <2> QED BY <2>1, NoVerdictWritten DEF JudgeInv, JudgeShape
  <1>2. CASE ClearDirectories
    <2>1. /\ runner' # "off" /\ sidecar' = NoVerdicts /\ UNCHANGED <<settings, aggregate, judge, orphans, cut>>
      BY <1>2 DEF ClearDirectories
    <2>2. JudgeShape'
      BY <2>1, NoPassShape DEF JudgeInv, JudgeShape
    <2>3. SidecarsFollowTable'
      BY <2>1, NoPassShape DEF JudgeInv, SidecarsFollowTable, Reusable
    <2> QED BY <2>2, <2>3 DEF JudgeInv
  <1>3. CASE ClearFiles
    <2>1. /\ runner' # "off" /\ aggregate' = NoAggregate /\ UNCHANGED <<settings, sidecar, judge, orphans, cut>>
      BY <1>3 DEF ClearFiles
    <2>2. JudgeShape'
      BY <2>1 DEF JudgeInv, JudgeShape
    <2>3. SidecarsFollowTable'
      BY <2>1, NoPassShape DEF JudgeInv, SidecarsFollowTable, Reusable, NoAggregate
    <2> QED BY <2>2, <2>3 DEF JudgeInv
  <1>4. CASE \/ \E t \in Items : EndItem(t) \/ FailItem(t)
             \/ OpenResults \/ CloseResults \/ WriteEvalResults \/ RunnerDies
    <2>1. /\ runner' # "off" /\ UNCHANGED <<settings, sidecar, aggregate, judge, orphans, cut>>
      BY <1>4 DEF EndItem, FailItem, OpenResults, CloseResults, WriteEvalResults, RunnerDies, otherThanResults
    <2>2. /\ runner' = "off" => judge'.role = "none"
          /\ judge'.role \in {"none", "stopped"} => judge'.at = "idle"
      BY <2>1 DEF JudgeInv, JudgeShape
    <2> QED BY <2>1, <2>2, NoVerdictWritten
  <1>5. CASE BeginPass
    <2>1. PICK source \in RowsToJudge :
             Continue("loaded", [NoPass EXCEPT !.rows = source.rows, !.complete = source.complete])
      BY <1>5 DEF BeginPass
    <2>2. /\ At("idle") /\ judge' = Process(judge.role, "loaded", [NoPass EXCEPT !.rows = source.rows, !.complete = source.complete])
          /\ UNCHANGED <<runner, sidecar, aggregate, orphans, cut>>
      BY <1>5, <2>1 DEF BeginPass, Continue, otherThanPass, runnerVars
    <2>3. judge.role \notin {"none", "stopped"} /\ judge.at = "idle" /\ runner # "off"
      BY <2>2 DEF At, JudgeInv, JudgeShape
    <2> QED BY <2>2, <2>3, NoVerdictWritten
  <1>6. CASE SkipPass \/ FailOnRows \/ FailOnVerdicts
    <2>1. /\ judge' \in {Resting, JudgeGone} /\ At(judge.at) /\ judge.at \in {"idle", "scored"} /\ orphans' \in {orphans, {}}
          /\ UNCHANGED <<runner, sidecar, aggregate, cut>>
      BY <1>6 DEF SkipPass, FailOnRows, FailOnVerdicts, At, otherThanPass, runnerVars
    <2>2. runner # "off" /\ judge'.at \in {"idle", "over"} /\ judge'.pass = NoPass
          /\ (judge'.role \in {"none", "stopped"} => judge'.at = "idle")
      BY <2>1 DEF At, JudgeInv, JudgeShape, Resting, JudgeGone
    <2> QED BY <2>1, <2>2, NoVerdictWritten
  <1>7. CASE StopWatch \/ StartLastPass \/ EndLaunch
    <2>1. /\ judge'.at = "idle" /\ judge'.pass = NoPass /\ judge.at \in {"idle", "over"}
          /\ orphans' \in {orphans, {}} /\ UNCHANGED <<sidecar, aggregate, cut>>
      BY <1>7 DEF StopWatch, StartLastPass, EndLaunch, JudgeInv, JudgeShape
    <2>2. runner' = "off" => judge'.role = "none"
      BY <1>7 DEF StopWatch, StartLastPass, EndLaunch, otherThanJudge, runnerVars
    <2> QED BY <2>1, <2>2, NoVerdictWritten
  <1>8. CASE WriteExact
    <2>1. /\ At("scored")' /\ judge.at = "loaded" /\ judge'.role = judge.role /\ judge'.pass = judge.pass
          /\ UNCHANGED <<runner, sidecar, aggregate, orphans, cut>>
      BY <1>8 DEF WriteExact, At, Continue, otherThanPass, runnerVars
    <2> QED BY <2>1, NoVerdictWritten DEF JudgeInv, JudgeShape, At
  <1>9. CASE KillWatch
    <2>1. /\ cut' /\ UNCHANGED runner /\ judge' = Process("stopped", "idle", NoPass) /\ runner = "done"
          /\ sidecar' = sidecar \/ \E t \in Items : sidecar' = [sidecar EXCEPT ![t] = NoVerdict]
      BY <1>9 DEF KillWatch, otherThanJudge, runnerVars, Present
    <2>2. sidecar' = [t \in Items |-> sidecar'[t]]
      BY <2>1 DEF JudgeInv, JudgeShape
    <2> QED BY <2>1, <2>2, NoPassShape DEF JudgeInv, JudgeShape, SidecarsFollowTable
  <1>10. ASSUME NEW lost, Abort(lost), judge.role \in {"watch", "final"}
         PROVE  JudgeInv'
    <2>1. /\ cut' /\ UNCHANGED <<runner, sidecar>> /\ judge' = Resting
      BY <1>10 DEF Abort, otherThanPass, runnerVars
    <2>2. judge'.at \in {"idle", "over"} /\ judge'.pass = NoPass /\ judge'.role = judge.role
      BY <2>1 DEF Resting
    <2>3. runner # "off"
      BY <1>10 DEF JudgeInv, JudgeShape
    <2> QED BY <1>10, <2>1, <2>2, <2>3, NoPassShape DEF JudgeInv, JudgeShape, SidecarsFollowTable
  <1>11. CASE ReadVerdicts
    <2> DEFINE found == [t \in Items |-> Found(t)]
               reused == {t \in Present(judge.pass.rows) : Reusable(found[t])}
               kept == [t \in Items |-> IF t \in reused THEN found[t] ELSE NoVerdict]
               asked == Present(judge.pass.rows) \ reused
    <2>1. /\ At("scored") /\ judge' = Process(judge.role, "asking", [judge.pass EXCEPT !.found = found, !.verdicts = kept, !.asking = asked])
          /\ UNCHANGED <<runner, settings, sidecar, aggregate, orphans, cut>>
      BY <1>11 DEF ReadVerdicts, Continue, otherThanPass, runnerVars
    <2>2. asked \subseteq Items /\ \A t \in asked : ~Reusable(Found(t))
      BY DEF Present
    <2> HIDE DEF found, kept, asked
    <2>3. judge'.pass = [rows |-> judge.pass.rows, complete |-> judge.pass.complete, found |-> found, verdicts |-> kept, asking |-> asked]
      BY <2>1 DEF JudgeInv, JudgeShape
    <2>4. JudgeShape'
      BY <2>1, <2>3 DEF JudgeInv, JudgeShape, At
    <2>5. ASSUME ~cut, NEW t \in asked PROVE ~Reusable(sidecar[t])
      <3>1. aggregate.rows[t] # NoVerdict => sidecar[t] \in {aggregate.rows[t], NoVerdict}
        BY <2>1, <2>2, <2>5 DEF JudgeInv, SidecarsFollowTable, At
      <3> QED BY <2>2, <3>1 DEF Found, Reusable
    <2>6. SidecarsFollowTable'
      BY <2>1, <2>2, <2>3, <2>5 DEF JudgeInv, SidecarsFollowTable, Reusable
    <2> QED BY <2>4, <2>6 DEF JudgeInv
  <1>12. ASSUME NEW t \in Items, JudgeRow(t) PROVE JudgeInv'
    <2>1. At("asking") /\ t \in judge.pass.asking
      BY <1>12 DEF JudgeRow
    <2>2. CASE ~verdictDir
      BY <1>10, <1>12, <2>1, <2>2 DEF JudgeRow, At
    <2>3. CASE verdictDir
      <3> DEFINE verdicts == [judge.pass.verdicts EXCEPT ![t] = VerdictOf(t)]
                 left == judge.pass.asking \ {t}
      <3>1. /\ sidecar' = [sidecar EXCEPT ![t] = VerdictOf(t)]
            /\ judge' = Process(judge.role, "asking", [judge.pass EXCEPT !.verdicts = verdicts, !.asking = left])
            /\ UNCHANGED <<runner, settings, orphans, cut>>
        BY <1>12, <2>3 DEF JudgeRow, Continue, otherThanPass, runnerVars
      <3> HIDE DEF verdicts
      <3>2. judge'.pass = [rows |-> judge.pass.rows, complete |-> judge.pass.complete, found |-> judge.pass.found,
                           verdicts |-> verdicts, asking |-> left]
        BY <3>1 DEF JudgeInv, JudgeShape
      <3>3. JudgeShape'
        BY <2>1, <3>1, <3>2 DEF JudgeInv, JudgeShape, At
      <3>4. \A u \in Items : u # t => sidecar'[u] = sidecar[u]
        BY <3>1 DEF JudgeInv, JudgeShape
      <3>5. SidecarsFollowTable'
        <4>1. ~cut => judge.pass.asking \subseteq Items /\ \A u \in judge.pass.asking : ~Reusable(sidecar[u])
          BY <2>1 DEF JudgeInv, SidecarsFollowTable, At
        <4>2. judge'.at = "asking" /\ judge'.pass.asking = left /\ judge'.pass.complete = judge.pass.complete
          BY <3>1, <3>2
        <4>3. ~cut => left \subseteq Items /\ \A u \in left : ~Reusable(sidecar'[u])
          BY <3>4, <4>1
        <4>4. ~cut => \A u \in left : ~Reusable(sidecar[u])'
          BY <3>1, <4>2, <4>3 DEF Reusable
        <4> QED BY <3>1, <4>2, <4>3, <4>4 DEF JudgeInv, SidecarsFollowTable
      <3> QED BY <3>3, <3>5 DEF JudgeInv
    <2> QED BY <2>2, <2>3
  <1>13. ASSUME NEW t \in Items, RefuseRow(t) PROVE JudgeInv'
    <2> DEFINE left == judge.pass.asking \ {t}
    <2>1. /\ At("asking") /\ judge' = Process(judge.role, "asking", [judge.pass EXCEPT !.asking = left])
          /\ UNCHANGED <<runner, settings, sidecar, orphans, cut>>
      BY <1>13 DEF RefuseRow, Continue, otherThanPass, runnerVars
    <2>2. judge'.pass = [rows |-> judge.pass.rows, complete |-> judge.pass.complete, found |-> judge.pass.found,
                         verdicts |-> judge.pass.verdicts, asking |-> left]
      BY <2>1 DEF JudgeInv, JudgeShape
    <2>3. JudgeShape'
      BY <2>1, <2>2 DEF JudgeInv, JudgeShape, At
    <2>4. SidecarsFollowTable'
      BY <2>1, <2>2 DEF JudgeInv, SidecarsFollowTable, At, Reusable
    <2> QED BY <2>3, <2>4 DEF JudgeInv
  <1>14. ASSUME NEW orphan \in orphans, EndOrphan(orphan) PROVE JudgeInv'
    <2>1. /\ UNCHANGED <<runner, judge, cut>> /\ cut
          /\ sidecar' = sidecar \/ sidecar' = [sidecar EXCEPT ![orphan.item] = orphan.verdict]
      BY <1>14 DEF EndOrphan, otherThanPass, runnerVars, JudgeInv, SidecarsFollowTable
    <2>2. sidecar' = [t \in Items |-> sidecar'[t]]
      BY <2>1 DEF JudgeInv, JudgeShape
    <2> QED BY <2>1, <2>2 DEF JudgeInv, JudgeShape, SidecarsFollowTable
  <1>15. CASE Finalize
    <2>1. At("asking")
      BY <1>15 DEF Finalize
    <2>2. CASE ~(verdictDir \/ Judged(FinalVerdicts) = {})
      BY <1>10, <1>15, <2>1, <2>2 DEF Finalize, At
    <2>3. CASE verdictDir \/ Judged(FinalVerdicts) = {}
      <3> DEFINE final == FinalVerdicts
      <3>1. /\ sidecar' = [t \in Items |-> IF final[t] # NoVerdict THEN final[t] ELSE sidecar[t]]
            /\ judge' = Process(judge.role, "saved", [judge.pass EXCEPT !.verdicts = final])
            /\ UNCHANGED <<runner, orphans, cut>>
        BY <1>15, <2>3 DEF Finalize, Continue, otherThanPass, runnerVars
      <3> HIDE DEF final
      <3>2. judge'.pass = [rows |-> judge.pass.rows, complete |-> judge.pass.complete, found |-> judge.pass.found,
                           verdicts |-> final, asking |-> judge.pass.asking]
        BY <3>1 DEF JudgeInv, JudgeShape
      <3>3. JudgeShape'
        BY <2>1, <3>1, <3>2 DEF JudgeInv, JudgeShape, At
      <3>4. SidecarsFollowTable'
        BY <3>1, <3>2 DEF JudgeInv, SidecarsFollowTable
      <3> QED BY <3>3, <3>4 DEF JudgeInv
    <2> QED BY <2>2, <2>3
  <1>16. CASE WriteJudgeOutputs
    <2>1. /\ At("saved") /\ aggregate' = [state |-> "whole", rows |-> judge.pass.verdicts]
          /\ judge' \in {JudgeGone, Resting} /\ orphans' \in {orphans, {}} /\ UNCHANGED <<runner, sidecar, cut>>
      BY <1>16 DEF WriteJudgeOutputs, otherThanPass, runnerVars
    <2>2. judge'.at \in {"idle", "over"} /\ judge'.pass = NoPass /\ runner # "off"
          /\ (judge'.role \in {"none", "stopped"} => judge'.at = "idle")
      BY <2>1 DEF At, JudgeInv, JudgeShape, Resting, JudgeGone
    <2>3. aggregate'.rows = judge.pass.verdicts
      BY <2>1
    <2>4. JudgeShape'
      BY <2>1, <2>2, NoPassShape DEF JudgeInv, JudgeShape
    <2>5. SidecarsFollowTable'
      BY <2>1, <2>2, <2>3 DEF JudgeInv, SidecarsFollowTable, At
    <2> QED BY <2>4, <2>5 DEF JudgeInv
  <1>17. CASE UNCHANGED judgeVars
    <2>1. UNCHANGED <<runner, settings, sidecar, aggregate, judge, orphans, cut>>
      BY <1>17 DEF judgeVars, runnerVars
    <2>2. /\ runner' = "off" => judge'.role = "none"
          /\ judge'.role \in {"none", "stopped"} => judge'.at = "idle"
      BY <2>1 DEF JudgeInv, JudgeShape
    <2> QED BY <2>1, <2>2, NoVerdictWritten
  <1> QED
    BY <1>1, <1>2, <1>3, <1>4, <1>5, <1>6, <1>7, <1>8, <1>9, <1>11, <1>12, <1>13, <1>14, <1>15, <1>16, <1>17 DEF JudgeNext

\* JudgedOnce for any tasks, judges and launches: unless a pass was cut short, no model is asked
\* about an answer of which a sidecar holds a verdict of this judge (_judge_run_dir,
\* _judge_one_row).
THEOREM NoAnswerJudgedTwice == JudgeSpec => []JudgedOnce
  <1>1. JudgeSpec => []JudgeInv
    BY JudgeStarts, JudgeSteps, PTL DEF JudgeSpec
  <1> QED BY <1>1, JudgeSafe, PTL

-----------------------------------------------------------------------------
(***************************************************************************)
(* The ratings of the F1 pass are founded, for any rows, workers, replies, *)
(* failures, deaths and new predictions. A rating only stays of use if     *)
(* every reply that went into it held the same grades, and the reply is on *)
(* disk before the rating is; the classes of a table add up because every  *)
(* row has exactly one.                                                    *)
(***************************************************************************)
Ratings == [emptyModel : BOOLEAN, emptyRater : BOOLEAN, invalid : BOOLEAN, grades : Grades \cup {NoGrades}]
Gradings ==
  [at : {"waiting", "submitted", "asking", "rated", "raised"}, attempt : Nat, unused : BOOLEAN, rating : Ratings]

DsqaTypeOK ==
  /\ prediction \in [DsqaRows -> Versions]
  /\ replies \in [DsqaRows -> [Versions -> Replies \cup {NoFile, TornFile}]]
  /\ grading \in [DsqaRows -> Gradings]
  /\ verified # NoArtifacts =>
       /\ verified.ratings \in [DsqaRows -> [rating : Ratings, version : Versions]]
       /\ verified.project = Tally(verified.ratings)

\* A row that asks again has a rating that will never be of use; one that is through and
\* valid has its reply on disk.
RowsFounded ==
  \A r \in DsqaRows :
    /\ grading[r].at = "submitted" => ~grading[r].unused
    /\ grading[r].at = "asking" /\ grading[r].unused => ~Usable(grading[r].rating)
    /\ grading[r].at = "rated" /\ ClassOf(grading[r].rating) = "valid" =>
         prediction[r] # 0 /\ replies[r][prediction[r]] = Graded(grading[r].rating.grades)

\* What was published is on disk, and no row asks again for a prediction that was valid.
ArtifactsFounded ==
  verified # NoArtifacts =>
    \A r \in DsqaRows :
      /\ verified.ratings[r].version <= prediction[r]
      /\ ClassOf(verified.ratings[r].rating) = "valid" =>
           /\ verified.ratings[r].version # 0 /\ KeptFor(r) = Graded(verified.ratings[r].rating.grades)
           /\ verified.ratings[r].version = prediction[r] => grading[r].at # "asking"

DsqaInv == DsqaTypeOK /\ RowsFounded /\ ArtifactsFounded

-----------------------------------------------------------------------------
\* A set that is split in three is counted in three.
LEMMA ThreeParts ==
  ASSUME NEW S, IsFiniteSet(S), NEW A, NEW B, NEW C, A \cup B \cup C \subseteq S,
         A \cap B = {}, A \cap C = {}, B \cap C = {}
  PROVE  /\ Cardinality(A) + Cardinality(B) + Cardinality(C) = Cardinality(A \cup B \cup C)
         /\ Cardinality(A \cup B \cup C) <= Cardinality(S)
         /\ Cardinality(A) \in Nat /\ Cardinality(B) \in Nat /\ Cardinality(C) \in Nat /\ Cardinality(S) \in Nat
  <1>1. /\ IsFiniteSet(A) /\ IsFiniteSet(B) /\ IsFiniteSet(C) /\ IsFiniteSet(A \cup B)
        /\ Cardinality(A \cup B \cup C) <= Cardinality(S)
    BY FS_Subset
  <1>2. /\ Cardinality(A) \in Nat /\ Cardinality(B) \in Nat /\ Cardinality(C) \in Nat /\ Cardinality(S) \in Nat
        /\ Cardinality(A \cup B) \in Nat
    BY <1>1, FS_CardinalityType
  <1>3. Cardinality(A \cup B) = Cardinality(A) + Cardinality(B)
    <2>1. Cardinality(A \cap B) = 0
      BY FS_EmptySet
    <2>2. Cardinality(A \cup B) = Cardinality(A) + Cardinality(B) - Cardinality(A \cap B)
      BY <1>1, FS_Union
    <2> QED BY <1>2, <2>1, <2>2
  <1>4. Cardinality(A \cup B \cup C) = Cardinality(A \cup B) + Cardinality(C)
    <2>1. (A \cup B) \cap C = {}
      OBVIOUS
    <2>2. Cardinality((A \cup B) \cap C) = 0
      BY <2>1, FS_EmptySet
    <2>3. Cardinality((A \cup B) \cup C) = Cardinality(A \cup B) + Cardinality(C) - Cardinality((A \cup B) \cap C)
      BY <1>1, FS_Union
    <2> QED BY <1>2, <2>2, <2>3
  <1> QED BY <1>1, <1>2, <1>3, <1>4

\* A rating has one class.
LEMMA Classes ==
  ASSUME NEW rating
  PROVE  /\ ClassOf(rating) \in {"invalid", "empty_rater", "empty_model", "valid"}
         /\ ClassOf(rating) = "valid" => Usable(rating) /\ ~rating.emptyModel
  BY DEF ClassOf, Usable

\* The classes of a table add up to its rows.
LEMMA TallyAddsUp ==
  ASSUME NEW ratings
  PROVE  /\ Tally(ratings).total = Tally(ratings).valid + Tally(ratings).unusable + Tally(ratings).blank
         /\ Tally(ratings).correct + Tally(ratings).incorrect + Tally(ratings).excessive <= Tally(ratings).valid
  <1> DEFINE In(class) == {r \in DsqaRows : ClassOf(ratings[r].rating) = class}
             WithScore(score) == {r \in In("valid") : ScoreOf(ratings[r].rating.grades) = score}
             Unusable == In("invalid") \cup In("empty_rater")
  <1>1. /\ Tally(ratings).total = Cardinality(DsqaRows)
        /\ Tally(ratings).valid = Cardinality(In("valid"))
        /\ Tally(ratings).unusable = Cardinality(Unusable)
        /\ Tally(ratings).blank = Cardinality(In("empty_model"))
        /\ Tally(ratings).correct = Cardinality(WithScore("all_correct"))
        /\ Tally(ratings).incorrect = Cardinality(WithScore("fully_incorrect"))
        /\ Tally(ratings).excessive = Cardinality(WithScore("correct_with_excessive"))
    BY DEF Tally
  <1>2. /\ In("valid") \cup Unusable \cup In("empty_model") = DsqaRows
        /\ In("valid") \cap Unusable = {} /\ In("valid") \cap In("empty_model") = {} /\ Unusable \cap In("empty_model") = {}
    <2>1. \A r \in DsqaRows : ClassOf(ratings[r].rating) \in {"invalid", "empty_rater", "empty_model", "valid"}
      BY Classes
    <2> QED BY <2>1
  <1>3. /\ WithScore("all_correct") \cup WithScore("fully_incorrect") \cup WithScore("correct_with_excessive") \subseteq In("valid")
        /\ WithScore("all_correct") \cap WithScore("fully_incorrect") = {}
        /\ WithScore("all_correct") \cap WithScore("correct_with_excessive") = {}
        /\ WithScore("fully_incorrect") \cap WithScore("correct_with_excessive") = {}
    OBVIOUS
  <1>4. IsFiniteSet(DsqaRows) /\ IsFiniteSet(In("valid"))
    BY DsqaAssumption, FS_Subset
  <1>5. Cardinality(DsqaRows) = Cardinality(In("valid")) + Cardinality(Unusable) + Cardinality(In("empty_model"))
    <2> HIDE DEF In, Unusable
    <2> QED BY <1>2, <1>4, ThreeParts
  <1>6. Cardinality(WithScore("all_correct")) + Cardinality(WithScore("fully_incorrect"))
          + Cardinality(WithScore("correct_with_excessive")) <= Cardinality(In("valid"))
    <2> DEFINE A == WithScore("all_correct")
               B == WithScore("fully_incorrect")
               C == WithScore("correct_with_excessive")
               V == In("valid")
    <2>1. IsFiniteSet(V) /\ A \cup B \cup C \subseteq V /\ A \cap B = {} /\ A \cap C = {} /\ B \cap C = {}
      BY <1>3, <1>4
    <2> HIDE DEF A, B, C, V
    <2>2. /\ Cardinality(A) + Cardinality(B) + Cardinality(C) = Cardinality(A \cup B \cup C)
          /\ Cardinality(A \cup B \cup C) <= Cardinality(V)
      BY <2>1, ThreeParts
    <2>3. Cardinality(A) + Cardinality(B) + Cardinality(C) <= Cardinality(V)
      BY <2>2
    <2> QED BY <2>3 DEF A, B, C, V
  <1> HIDE DEF In, WithScore, Unusable
  <1> QED BY <1>1, <1>5, <1>6

LEMMA ReplyKinds ==
  ASSUME NEW reply \in Replies \cup {NoFile, TornFile}
  PROVE  /\ reply \in Replies /\ reply # NoContent /\ reply # NotJson => \E g \in Grades : reply = Graded(g) /\ reply.grades = g
         /\ \A g : reply = Graded(g) => reply \in Replies /\ reply # NoContent /\ reply # NotJson /\ reply.grades = g
  <1>1. NoContent.kind = "empty" /\ NotJson.kind = "malformed" /\ NoFile.kind = "none" /\ TornFile.kind = "torn"
        /\ \A g : Graded(g).kind = "graded" /\ Graded(g).grades = g
    BY DEF NoContent, NotJson, NoFile, TornFile, Graded
  <1>2. ASSUME NEW g, reply = Graded(g) PROVE reply # NoContent /\ reply # NotJson /\ reply # NoFile /\ reply # TornFile
    BY <1>1, <1>2
  <1> QED BY <1>1, <1>2 DEF Replies

\* What a reply makes of a rating: of use only if the rating was and the reply holds grades.
LEMMA Reductions ==
  ASSUME NEW rating \in Ratings, NEW version \in Versions, NEW reply \in Replies
  PROVE  /\ Reduced(rating, version, reply) \in Ratings
         /\ version = 0 => Reduced(rating, version, reply).emptyModel
         /\ version # 0 /\ Usable(Reduced(rating, version, reply)) =>
              Usable(rating) /\ reply = Graded(Reduced(rating, version, reply).grades)
         /\ ~Usable(rating) => ~Usable(Reduced(rating, version, reply))
  <1>1. CASE version = 0
    <2>1. Reduced(rating, version, reply) = [rating EXCEPT !.emptyModel = TRUE]
      BY <1>1 DEF Reduced
    <2> DEFINE new == [rating EXCEPT !.emptyModel = TRUE]
    <2>2. new \in Ratings /\ new.emptyModel /\ new.invalid = rating.invalid /\ new.emptyRater = rating.emptyRater
      BY DEF Ratings
    <2> HIDE DEF new
    <2>3. Reduced(rating, version, reply) = new
      BY <2>1 DEF new
    <2> QED BY <1>1, <2>2, <2>3 DEF Usable
  <1>2. CASE version # 0 /\ reply = NoContent
    <2>1. Reduced(rating, version, reply) = [rating EXCEPT !.emptyRater = TRUE]
      BY <1>2 DEF Reduced
    <2> DEFINE new == [rating EXCEPT !.emptyRater = TRUE]
    <2>2. new \in Ratings /\ new.emptyRater
      BY DEF Ratings
    <2> HIDE DEF new
    <2>3. Reduced(rating, version, reply) = new
      BY <2>1 DEF new
    <2> QED BY <1>2, <2>2, <2>3 DEF Usable
  <1>3. CASE version # 0 /\ reply # NoContent /\ reply = NotJson
    <2>1. Reduced(rating, version, reply) = [rating EXCEPT !.invalid = TRUE]
      BY <1>3 DEF Reduced
    <2> DEFINE new == [rating EXCEPT !.invalid = TRUE]
    <2>2. new \in Ratings /\ new.invalid
      BY DEF Ratings
    <2> HIDE DEF new
    <2>3. Reduced(rating, version, reply) = new
      BY <2>1 DEF new
    <2> QED BY <1>3, <2>2, <2>3 DEF Usable
  <1>4. CASE version # 0 /\ reply # NoContent /\ reply # NotJson
    <2>1. Reduced(rating, version, reply) = [rating EXCEPT !.grades = reply.grades]
      BY <1>4 DEF Reduced
    <2>2. reply.grades \in Grades /\ reply = Graded(reply.grades)
      BY <1>4, ReplyKinds
    <2> DEFINE new == [rating EXCEPT !.grades = reply.grades]
    <2>3. new \in Ratings /\ new.grades = reply.grades /\ new.invalid = rating.invalid /\ new.emptyRater = rating.emptyRater
      BY <2>2 DEF Ratings
    <2> HIDE DEF new
    <2>4. Reduced(rating, version, reply) = new
      BY <2>1 DEF new
    <2> QED BY <1>4, <2>2, <2>3, <2>4 DEF Usable
  <1> QED BY <1>1, <1>2, <1>3, <1>4

\* A reply on disk that holds grades is of use to a row that has a prediction.
LEMMA KeptIsUsable ==
  ASSUME NEW version \in Versions, version # 0, NEW kept \in Replies \cup {NoFile, TornFile}, NEW g, kept = Graded(g)
  PROVE  kept \in Replies /\ Usable(Reduced(NewRating, version, kept))
  <1>1. kept \in Replies /\ kept # NoContent /\ kept # NotJson
    BY ReplyKinds
  <1>2. Reduced(NewRating, version, kept) = [NewRating EXCEPT !.grades = kept.grades]
    BY <1>1 DEF Reduced
  <1> QED BY <1>1, <1>2 DEF NewRating, Usable

-----------------------------------------------------------------------------
LEMMA DsqaSafe == DsqaInv => RatingsFounded
  BY TallyAddsUp DEF DsqaInv, DsqaTypeOK, ArtifactsFounded, RatingsFounded, Published

LEMMA NewRatings == NewRating \in Ratings /\ NotSubmitted \in Gradings /\ NotSubmitted.at = "waiting"
  BY DEF NewRating, Ratings, NotSubmitted, Gradings

LEMMA DsqaStarts == DsqaInit => DsqaInv
  <1> SUFFICES ASSUME DsqaInit PROVE DsqaInv
    OBVIOUS
  <1>1. 0 \in Versions
    BY DsqaAssumption DEF Versions
  <1>2. DsqaTypeOK
    BY <1>1, NewRatings DEF DsqaInit, DsqaTypeOK
  <1>3. RowsFounded /\ ArtifactsFounded
    BY NewRatings DEF DsqaInit, RowsFounded, ArtifactsFounded
  <1> QED BY <1>2, <1>3 DEF DsqaInv

\* What a step may do to a row's grading and to the file of its prediction.
RowKept(r) == grading'[r] = grading[r] /\ replies'[r] = replies[r]

RowAsks(r) ==
  /\ grading[r].at \in {"submitted", "asking"} /\ grading'[r].at = "asking"
  /\ grading[r].at = "submitted" =>
       /\ replies'[r] = replies[r]
       /\ prediction[r] # 0 => \A g : replies[r][prediction[r]] # Graded(g)
  /\ grading'[r].unused => ~Usable(grading'[r].rating)

RowRests(r) ==
  /\ grading[r].at \in {"submitted", "asking"} /\ grading'[r].at = "rated"
  /\ grading[r].at = "submitted" => replies'[r] = replies[r]
  /\ ClassOf(grading'[r].rating) = "valid" =>
       prediction[r] # 0 /\ replies'[r][prediction[r]] = Graded(grading'[r].rating.grades)

RowGone(r) == 
  /\ grading'[r].at \in {"waiting", "submitted", "raised"}
  /\ grading'[r].at = "submitted" => ~grading'[r].unused
  /\ replies'[r] = replies[r] \/ grading[r].at = "asking"

\* A step of that kind, of every row, keeps what is known of rows and artifacts.
LEMMA RowStepsKeep ==
  ASSUME DsqaInv, UNCHANGED <<prediction, verified>>,
         replies' \in [DsqaRows -> [Versions -> Replies \cup {NoFile, TornFile}]],
         grading' \in [DsqaRows -> Gradings],
         \A r \in DsqaRows : \A v \in Versions : v # prediction[r] => replies'[r][v] = replies[r][v],
         \A r \in DsqaRows : RowKept(r) \/ RowAsks(r) \/ RowRests(r) \/ RowGone(r)
  PROVE  DsqaInv'
  <1>1. DsqaTypeOK'
    BY DEF DsqaInv, DsqaTypeOK
  <1>2. RowsFounded'
    BY DEF DsqaInv, RowsFounded, RowKept, RowAsks, RowRests, RowGone
  <1>3. ArtifactsFounded'
    <2> SUFFICES ASSUME verified # NoArtifacts, NEW r \in DsqaRows, ClassOf(verified.ratings[r].rating) = "valid"
                 PROVE  /\ KeptFor(r)' = Graded(verified.ratings[r].rating.grades)
                        /\ verified.ratings[r].version = prediction[r] => grading'[r].at # "asking"
      BY DEF DsqaInv, ArtifactsFounded
    <2> DEFINE version == verified.ratings[r].version
    <2>1. /\ version # 0 /\ version \in Versions
          /\ replies[r][version] = Graded(verified.ratings[r].rating.grades)
          /\ version = prediction[r] => grading[r].at # "asking"
      BY DEF DsqaInv, DsqaTypeOK, ArtifactsFounded, KeptFor
    <2>2. CASE version # prediction[r]
      BY <2>1, <2>2 DEF KeptFor
    <2>3. CASE version = prediction[r]
      BY <2>1, <2>3 DEF KeptFor, RowKept, RowAsks, RowRests, RowGone
    <2> QED BY <2>2, <2>3
  <1> QED BY <1>1, <1>2, <1>3 DEF DsqaInv

\* A step that gives one row another grading, and its prediction another file at most.
LEMMA OneRowKeeps ==
  ASSUME DsqaInv, UNCHANGED <<prediction, verified>>, NEW r \in DsqaRows, NEW row \in Gradings,
         grading' = [grading EXCEPT ![r] = row],
         NEW file \in Replies \cup {NoFile, TornFile}, replies' = [replies EXCEPT ![r][prediction[r]] = file],
         grading[r].at = "asking" \/ file = replies[r][prediction[r]],
         (RowAsks(r) \/ RowRests(r) \/ RowGone(r))
  PROVE  DsqaInv'
  <1>1. /\ prediction[r] \in Versions /\ replies[r] \in [Versions -> Replies \cup {NoFile, TornFile}]
        /\ grading \in [DsqaRows -> Gradings] /\ replies \in [DsqaRows -> [Versions -> Replies \cup {NoFile, TornFile}]]
    BY DEF DsqaInv, DsqaTypeOK
  <1>2. grading' \in [DsqaRows -> Gradings]
        /\ \A q \in DsqaRows : q # r => grading'[q] = grading[q]
    BY <1>1
  <1>3. /\ replies' \in [DsqaRows -> [Versions -> Replies \cup {NoFile, TornFile}]]
        /\ \A q \in DsqaRows : q # r => replies'[q] = replies[q]
        /\ \A v \in Versions : v # prediction[r] => replies'[r][v] = replies[r][v]
    BY <1>1
  <1>4. \A q \in DsqaRows : q # r => RowKept(q)
    BY <1>2, <1>3 DEF RowKept
  <1> QED BY <1>2, <1>3, <1>4, RowStepsKeep

\* Where a row stands after a reply: done and not valid, or about to ask again.
LEMMA AfterUses ==
  ASSUME NEW row \in Gradings, row.at = "asking", row.unused => ~Usable(row.rating)
  PROVE  /\ AfterUse(row) \in Gradings
         /\ \/ AfterUse(row).at = "asking" /\ (AfterUse(row).unused => ~Usable(AfterUse(row).rating))
            \/ AfterUse(row).at = "rated" /\ ClassOf(AfterUse(row).rating) # "valid"
  <1>1. CASE row.attempt # GraderRetries
    BY <1>1 DEF AfterUse
  <1>2. CASE row.attempt = GraderRetries /\ row.unused
    <2> DEFINE new == [row EXCEPT !.at = "rated"]
    <2>1. new \in Gradings /\ new.at = "rated" /\ new.rating = row.rating
      BY DEF Gradings
    <2>2. AfterUse(row) = new
      BY <1>2 DEF AfterUse, RetriesSpent
    <2> HIDE DEF new
    <2>3. ClassOf(row.rating) # "valid"
      BY <1>2, Classes
    <2> QED BY <2>1, <2>2, <2>3
  <1>3. CASE row.attempt = GraderRetries /\ ~row.unused
    <2> DEFINE new == [row EXCEPT !.at = "rated", !.rating.emptyRater = TRUE]
    <2>1. new \in Gradings /\ new.at = "rated" /\ new.rating.emptyRater = TRUE
      BY DEF Gradings, Ratings
    <2>2. AfterUse(row) = new
      BY <1>3 DEF AfterUse, RetriesSpent
    <2> HIDE DEF new
    <2>3. ClassOf(new.rating) # "valid"
      BY <2>1, Classes DEF Usable
    <2> QED BY <2>1, <2>2, <2>3
  <1> QED BY <1>1, <1>2, <1>3

-----------------------------------------------------------------------------
\* A row that is taken up uses the reply on disk, or asks.
LEMMA TakeKeeps ==
  ASSUME DsqaInv, NEW r \in DsqaRows, TakeRow(r)
  PROVE  DsqaInv'
  <1> DEFINE kept == replies[r][prediction[r]]
             cached == Reduced(NewRating, prediction[r], kept)
             taken == [grading[r] EXCEPT !.at = "rated", !.rating = cached]
             asked == [grading[r] EXCEPT !.at = "asking"]
             row == IF kept \in Replies /\ Usable(cached) THEN taken ELSE asked
  <1>1. /\ prediction[r] \in Versions /\ kept \in Replies \cup {NoFile, TornFile}
        /\ grading[r] \in Gradings /\ grading \in [DsqaRows -> Gradings]
        /\ replies \in [DsqaRows -> [Versions -> Replies \cup {NoFile, TornFile}]]
    BY DEF DsqaInv, DsqaTypeOK
  <1>2. /\ grading[r].at = "submitted" /\ UNCHANGED <<prediction, replies, verified>>
        /\ grading' = [grading EXCEPT ![r] = row]
    BY DEF TakeRow, FileOf
  <1>3. grading'[r] = row
    BY <1>1, <1>2
  <1>4. replies' = [replies EXCEPT ![r][prediction[r]] = kept]
    BY <1>1, <1>2
  <1>5. asked \in Gradings /\ asked.at = "asking" /\ asked.unused = grading[r].unused /\ asked.rating = grading[r].rating
    BY <1>1 DEF Gradings
  <1>6. ~grading[r].unused
    BY <1>2 DEF DsqaInv, RowsFounded
  <1>7. CASE kept \in Replies /\ Usable(cached)
    <2>1. cached \in Ratings /\ (prediction[r] = 0 => cached.emptyModel)
          /\ (prediction[r] # 0 => kept = Graded(cached.grades))
      BY <1>1, <1>7, Reductions, NewRatings
    <2>2. ClassOf(cached) = "valid" => prediction[r] # 0
      BY <2>1, Classes
    <2> HIDE DEF cached
    <2>3. taken \in Gradings /\ taken.at = "rated" /\ taken.rating = cached
      BY <1>1, <2>1 DEF Gradings
    <2>4. row = taken
      BY <1>7
    <2> HIDE DEF taken, row, asked, kept
    <2>5. RowRests(r)
      BY <1>2, <1>3, <2>1, <2>2, <2>3, <2>4 DEF RowRests, kept
    <2> QED BY <1>1, <1>2, <1>4, <2>3, <2>4, <2>5, OneRowKeeps DEF kept
  <1>8. CASE ~(kept \in Replies /\ Usable(cached))
    <2>1. row = asked
      BY <1>8
    <2>2. prediction[r] # 0 => \A g : kept # Graded(g)
      BY <1>1, <1>8, KeptIsUsable
    <2> HIDE DEF taken, row, asked, kept, cached
    <2>3. RowAsks(r)
      BY <1>2, <1>3, <1>5, <1>6, <2>1, <2>2 DEF RowAsks, kept
    <2> QED BY <1>1, <1>2, <1>4, <1>5, <2>1, <2>3, OneRowKeeps DEF kept
  <1> QED BY <1>7, <1>8

\* Counting an answer and taking its rating over leaves a row where it is.
LEMMA GradingChanges ==
  ASSUME NEW g \in Gradings, NEW rating \in Ratings
  PROVE  /\ [g EXCEPT !.attempt = g.attempt + 1, !.rating = rating] \in Gradings
         /\ [g EXCEPT !.attempt = g.attempt + 1, !.rating = rating].at = g.at
         /\ [g EXCEPT !.attempt = g.attempt + 1, !.rating = rating].rating = rating
  <1>1. g.attempt + 1 \in Nat
    BY DEF Gradings
  <1> DEFINE n == g.attempt + 1
             first == [g EXCEPT !.attempt = n]
  <1>2. n \in Nat
    BY <1>1
  <1> HIDE DEF n
  <1>3. first \in Gradings /\ first.at = g.at
    BY <1>2 DEF Gradings
  <1>4. [first EXCEPT !.rating = rating] \in Gradings /\ [first EXCEPT !.rating = rating].at = g.at
        /\ [first EXCEPT !.rating = rating].rating = rating
    <2> HIDE DEF first
    <2> QED BY <1>3 DEF Gradings
  <1> QED BY <1>4 DEF n

LEMMA ReplyKeeps ==
  ASSUME DsqaInv, NEW r \in DsqaRows, Reply(r)
  PROVE  DsqaInv'
  <1>1. PICK reply \in Replies :
          LET rating == Reduced(grading[r].rating, prediction[r], reply)
              row == [grading[r] EXCEPT !.attempt = @ + 1, !.rating = rating]
          IN  /\ replies' = [replies EXCEPT ![r][FileOf(r)] = reply]
              /\ grading' = [grading EXCEPT ![r] =
                   IF Usable(rating) THEN [row EXCEPT !.at = "rated"] ELSE AfterUse([row EXCEPT !.unused = TRUE])]
    BY DEF Reply
  <1> DEFINE rating == Reduced(grading[r].rating, prediction[r], reply)
             row == [grading[r] EXCEPT !.attempt = @ + 1, !.rating = rating]
             used == [row EXCEPT !.at = "rated"]
             tried == [row EXCEPT !.unused = TRUE]
  <1>2. grading[r].at = "asking" /\ UNCHANGED <<prediction, verified>>
    BY DEF Reply
  <1>3. /\ prediction[r] \in Versions /\ grading[r] \in Gradings /\ grading[r].rating \in Ratings
        /\ grading \in [DsqaRows -> Gradings]
        /\ replies \in [DsqaRows -> [Versions -> Replies \cup {NoFile, TornFile}]]
    BY DEF DsqaInv, DsqaTypeOK, Gradings
  <1>4. /\ rating \in Ratings
        /\ prediction[r] = 0 => rating.emptyModel
        /\ prediction[r] # 0 /\ Usable(rating) => reply = Graded(rating.grades)
    BY <1>3, Reductions
  <1>5. Usable(rating) /\ ClassOf(rating) = "valid" => prediction[r] # 0 /\ reply = Graded(rating.grades)
    BY <1>4, Classes
  <1>6. replies' = [replies EXCEPT ![r][prediction[r]] = reply]
    BY <1>1 DEF FileOf
  <1>7. grading' = [grading EXCEPT ![r] = IF Usable(rating) THEN used ELSE AfterUse(tried)]
    BY <1>1
  <1> HIDE DEF rating
  <1>12. row \in Gradings /\ row.at = "asking" /\ row.rating = rating
    BY <1>2, <1>3, <1>4, GradingChanges
  <1> HIDE DEF row
  <1>8. /\ used \in Gradings /\ used.at = "rated" /\ used.rating = rating
        /\ tried \in Gradings /\ tried.at = "asking" /\ tried.rating = rating /\ tried.unused = TRUE
    BY <1>12, <1>4 DEF Gradings
  <1> HIDE DEF used, tried
  <1>9. replies'[r][prediction[r]] = reply
    BY <1>3, <1>6
  <1>10. CASE Usable(rating)
    <2>1. grading' = [grading EXCEPT ![r] = used] /\ grading'[r] = used
      BY <1>3, <1>7, <1>10
    <2>2. RowRests(r)
      BY <1>2, <1>5, <1>8, <1>9, <1>10, <2>1 DEF RowRests
    <2> QED BY <1>2, <1>6, <1>8, <2>1, <2>2, OneRowKeeps
  <1>11. CASE ~Usable(rating)
    <2>1. grading' = [grading EXCEPT ![r] = AfterUse(tried)] /\ grading'[r] = AfterUse(tried)
      BY <1>3, <1>7, <1>11
    <2>2. /\ AfterUse(tried) \in Gradings
          /\ \/ AfterUse(tried).at = "asking" /\ (AfterUse(tried).unused => ~Usable(AfterUse(tried).rating))
             \/ AfterUse(tried).at = "rated" /\ ClassOf(AfterUse(tried).rating) # "valid"
      BY <1>8, <1>11, AfterUses
    <2>3. RowAsks(r) \/ RowRests(r)
      BY <1>2, <2>1, <2>2 DEF RowRests, RowAsks
    <2> QED BY <1>2, <1>6, <2>1, <2>2, <2>3, OneRowKeeps
  <1> QED BY <1>10, <1>11

LEMMA FailedKeeps ==
  ASSUME DsqaInv, NEW r \in DsqaRows, CallFailed(r)
  PROVE  DsqaInv'
  <1> DEFINE row == [grading[r] EXCEPT !.attempt = @ + 1]
  <1>1. /\ grading[r].at = "asking" /\ UNCHANGED <<prediction, replies, verified>>
        /\ grading' = [grading EXCEPT ![r] = AfterUse(row)]
    BY DEF CallFailed
  <1>2. /\ prediction[r] \in Versions /\ grading[r] \in Gradings /\ grading \in [DsqaRows -> Gradings]
        /\ replies \in [DsqaRows -> [Versions -> Replies \cup {NoFile, TornFile}]]
        /\ replies[r][prediction[r]] \in Replies \cup {NoFile, TornFile}
        /\ grading[r].unused => ~Usable(grading[r].rating)
    BY <1>1 DEF DsqaInv, DsqaTypeOK, RowsFounded
  <1>3. row \in Gradings /\ row.at = "asking" /\ row.rating = grading[r].rating /\ row.unused = grading[r].unused
    BY <1>1, <1>2 DEF Gradings
  <1> HIDE DEF row
  <1>4. /\ AfterUse(row) \in Gradings
        /\ \/ AfterUse(row).at = "asking" /\ (AfterUse(row).unused => ~Usable(AfterUse(row).rating))
           \/ AfterUse(row).at = "rated" /\ ClassOf(AfterUse(row).rating) # "valid"
    BY <1>2, <1>3, AfterUses
  <1>5. grading'[r] = AfterUse(row) /\ replies' = [replies EXCEPT ![r][prediction[r]] = replies[r][prediction[r]]]
    BY <1>1, <1>2
  <1>6. RowAsks(r) \/ RowRests(r)
    BY <1>1, <1>4, <1>5 DEF RowRests, RowAsks
  <1> QED BY <1>1, <1>2, <1>4, <1>5, <1>6, OneRowKeeps

LEMMA RaisedKeeps ==
  ASSUME DsqaInv, NEW r \in DsqaRows, CallRaised(r)
  PROVE  DsqaInv'
  <1> DEFINE row == [grading[r] EXCEPT !.at = "raised"]
  <1>1. /\ grading \in [DsqaRows -> Gradings] /\ grading[r] \in Gradings
        /\ prediction[r] \in Versions
        /\ replies \in [DsqaRows -> [Versions -> Replies \cup {NoFile, TornFile}]]
        /\ replies[r][prediction[r]] \in Replies \cup {NoFile, TornFile}
    BY DEF DsqaInv, DsqaTypeOK
  <1>2. /\ grading[r].at = "asking" /\ UNCHANGED <<prediction, replies, verified>>
        /\ grading' = [grading EXCEPT ![r] = row]
    BY <1>1 DEF CallRaised
  <1>3. row \in Gradings /\ row.at = "raised"
    BY <1>1 DEF Gradings
  <1> HIDE DEF row
  <1>4. grading'[r] = row /\ replies' = [replies EXCEPT ![r][prediction[r]] = replies[r][prediction[r]]]
    BY <1>1, <1>2
  <1>5. RowGone(r)
    BY <1>2, <1>3, <1>4 DEF RowGone
  <1> QED BY <1>1, <1>2, <1>3, <1>4, <1>5, OneRowKeeps

\* Every row at once: a pass begins, or is over without artifacts.
LEMMA AllRowsKeep ==
  ASSUME DsqaInv, UNCHANGED <<prediction, replies, verified>>,
         NEW row \in Gradings, grading' = [r \in DsqaRows |-> row],
         row.at \in {"waiting", "submitted"}, ~row.unused
  PROVE  DsqaInv'
  <1>1. grading' \in [DsqaRows -> Gradings] /\ replies' \in [DsqaRows -> [Versions -> Replies \cup {NoFile, TornFile}]]
    BY DEF DsqaInv, DsqaTypeOK
  <1>2. \A r \in DsqaRows : RowGone(r)
    BY DEF RowGone
  <1> QED BY <1>1, <1>2, RowStepsKeep

LEMMA DeathKeeps ==
  ASSUME DsqaInv, VerifierDies
  PROVE  DsqaInv'
  <1>1. /\ UNCHANGED <<prediction, verified>> /\ grading' = [r \in DsqaRows |-> NotSubmitted]
        /\ \/ replies' = replies
           \/ \E r \in DsqaRows : grading[r].at = "asking" /\ replies' = [replies EXCEPT ![r][prediction[r]] = TornFile]
    BY DEF VerifierDies, FileOf
  <1>2. NotSubmitted \in Gradings /\ NotSubmitted.at = "waiting" /\ ~NotSubmitted.unused
    BY NewRatings DEF NotSubmitted
  <1>3. CASE replies' = replies
    BY <1>1, <1>2, <1>3, AllRowsKeep
  <1>4. ASSUME NEW r \in DsqaRows, grading[r].at = "asking", replies' = [replies EXCEPT ![r][prediction[r]] = TornFile]
        PROVE  DsqaInv'
    <2>1. /\ replies \in [DsqaRows -> [Versions -> Replies \cup {NoFile, TornFile}]]
          /\ prediction[r] \in Versions
      BY DEF DsqaInv, DsqaTypeOK
    <2>2. /\ replies' \in [DsqaRows -> [Versions -> Replies \cup {NoFile, TornFile}]]
          /\ \A q \in DsqaRows : q # r => replies'[q] = replies[q]
          /\ \A v \in Versions : v # prediction[r] => replies'[r][v] = replies[r][v]
      BY <1>4, <2>1
    <2>3. grading' \in [DsqaRows -> Gradings] /\ \A q \in DsqaRows : grading'[q] = NotSubmitted
      BY <1>1, <1>2
    <2>4. \A q \in DsqaRows : RowGone(q)
      BY <1>2, <1>4, <2>2, <2>3 DEF RowGone
    <2> QED BY <1>1, <2>2, <2>3, <2>4, RowStepsKeep
  <1> QED BY <1>1, <1>3, <1>4

\* The table is published when all rows are through.
LEMMA PublishKeeps ==
  ASSUME DsqaInv, Publish
  PROVE  DsqaInv'
  <1> DEFINE ratings == [r \in DsqaRows |-> [rating |-> grading[r].rating, version |-> prediction[r]]]
  <1>1. /\ \A r \in DsqaRows : grading[r].at = "rated"
        /\ verified' = [ratings |-> ratings, project |-> Tally(ratings)]
        /\ grading' = [r \in DsqaRows |-> NotSubmitted] /\ UNCHANGED <<prediction, replies>>
    BY DEF Publish
  <1>2. /\ prediction \in [DsqaRows -> Versions] /\ \A r \in DsqaRows : grading[r].rating \in Ratings
        /\ replies \in [DsqaRows -> [Versions -> Replies \cup {NoFile, TornFile}]]
    BY DEF DsqaInv, DsqaTypeOK, Gradings
  <1>3. ratings \in [DsqaRows -> [rating : Ratings, version : Versions]]
    BY <1>2
  <1>4. verified'.ratings = ratings /\ verified'.project = Tally(verified'.ratings)
    BY <1>1
  <1>5. NotSubmitted \in Gradings /\ NotSubmitted.at = "waiting" /\ ~NotSubmitted.unused
    BY NewRatings DEF NotSubmitted
  <1>6. \A r \in DsqaRows : grading'[r] = NotSubmitted
    BY <1>1
  <1>7. DsqaTypeOK'
    <2>1. grading' \in [DsqaRows -> Gradings]
      BY <1>1, <1>5
    <2>2. verified'.project = Tally(verified.ratings)'
      BY <1>4 DEF Tally
    <2> HIDE DEF ratings
    <2> QED BY <1>1, <1>2, <1>3, <1>4, <2>1, <2>2 DEF DsqaTypeOK
  <1>8. RowsFounded'
    BY <1>5, <1>6 DEF RowsFounded
  <1>9. ArtifactsFounded'
    <2> SUFFICES ASSUME NEW r \in DsqaRows
                 PROVE  /\ verified'.ratings[r].version <= prediction'[r]
                        /\ ClassOf(verified'.ratings[r].rating) = "valid" =>
                             /\ verified'.ratings[r].version # 0
                             /\ replies'[r][verified'.ratings[r].version] = Graded(verified'.ratings[r].rating.grades)
                             /\ grading'[r].at # "asking"
      BY DEF ArtifactsFounded, KeptFor
    <2>1. verified'.ratings[r].rating = grading[r].rating /\ verified'.ratings[r].version = prediction[r]
      BY <1>4
    <2>2. prediction[r] \in Versions /\ Versions \subseteq Int
      BY <1>2 DEF Versions
    <2>3. ClassOf(grading[r].rating) = "valid" => prediction[r] # 0 /\ replies[r][prediction[r]] = Graded(grading[r].rating.grades)
      BY <1>1 DEF DsqaInv, RowsFounded
    <2>8. prediction[r] \in Int
      BY <2>2
    <2>4. prediction[r] <= prediction[r]
      BY <2>8
    <2>7. prediction' = prediction
      BY <1>1
    <2>5. verified'.ratings[r].version <= prediction'[r]
      BY <2>1, <2>4, <2>7
    <2>6. grading'[r].at # "asking"
      BY <1>5, <1>6
    <2> QED BY <1>1, <2>1, <2>3, <2>5, <2>6
  <1> QED BY <1>7, <1>8, <1>9 DEF DsqaInv

\* A prediction that is made anew is a version with no reply yet.
LEMMA PredictKeeps ==
  ASSUME DsqaInv, NEW r \in DsqaRows, PredictAnew(r)
  PROVE  DsqaInv'
  <1>1. /\ \A q \in DsqaRows : grading[q].at = "waiting"
        /\ prediction[r] < MaxVersions /\ prediction' = [prediction EXCEPT ![r] = @ + 1]
        /\ UNCHANGED <<replies, grading, verified>>
    BY DEF PredictAnew, Idle
  <1>2. prediction \in [DsqaRows -> Versions] /\ MaxVersions \in Nat /\ Versions = 0..MaxVersions
    BY DsqaAssumption DEF DsqaInv, DsqaTypeOK, Versions
  <1>3. prediction' \in [DsqaRows -> Versions] /\ \A q \in DsqaRows : prediction[q] <= prediction'[q]
    BY <1>1, <1>2
  <1>4. DsqaTypeOK'
    <2>1. verified # NoArtifacts => verified.project = Tally(verified.ratings)'
      BY <1>1 DEF DsqaInv, DsqaTypeOK, Tally
    <2> QED BY <1>1, <1>3, <2>1 DEF DsqaInv, DsqaTypeOK
  <1>5. RowsFounded'
    BY <1>1 DEF RowsFounded
  <1>6. ArtifactsFounded'
    <2> SUFFICES ASSUME verified # NoArtifacts, NEW q \in DsqaRows
                 PROVE  verified.ratings[q].version <= prediction'[q]
      BY <1>1 DEF DsqaInv, ArtifactsFounded, KeptFor
    <2>1. verified.ratings[q].version <= prediction[q] /\ verified.ratings[q].version \in Versions
      BY DEF DsqaInv, DsqaTypeOK, ArtifactsFounded
    <2>2. prediction[q] \in Versions /\ prediction'[q] \in Versions /\ Versions \subseteq Int
      BY <1>2, <1>3
    <2>3. verified.ratings[q].version \in Int /\ prediction[q] \in Int /\ prediction'[q] \in Int
      BY <2>1, <2>2
    <2>4. prediction[q] <= prediction'[q]
      BY <1>3
    <2> HIDE DEF DsqaInv
    <2> QED BY <2>1, <2>3, <2>4
  <1> QED BY <1>4, <1>5, <1>6 DEF DsqaInv

LEMMA DsqaSteps == DsqaInv /\ [DsqaNext]_dsqaVars => DsqaInv'
  <1> SUFFICES ASSUME DsqaInv, [DsqaNext]_dsqaVars PROVE DsqaInv'
    OBVIOUS
  <1>1. NotSubmitted \in Gradings /\ NotSubmitted.at = "waiting" /\ ~NotSubmitted.unused
        /\ [NotSubmitted EXCEPT !.at = "submitted"] \in Gradings
        /\ [NotSubmitted EXCEPT !.at = "submitted"].at = "submitted"
        /\ [NotSubmitted EXCEPT !.at = "submitted"].unused = FALSE
    BY NewRatings DEF NotSubmitted, Gradings
  <1>2. CASE BeginGrading
    BY <1>1, <1>2, AllRowsKeep DEF BeginGrading
  <1>3. CASE Abandon
    BY <1>1, <1>3, AllRowsKeep DEF Abandon
  <1>4. CASE UNCHANGED dsqaVars
    <2>1. grading' \in [DsqaRows -> Gradings] /\ replies' \in [DsqaRows -> [Versions -> Replies \cup {NoFile, TornFile}]]
          /\ \A r \in DsqaRows : RowKept(r)
      BY <1>4 DEF dsqaVars, DsqaInv, DsqaTypeOK, RowKept
    <2> QED BY <1>4, <2>1, RowStepsKeep DEF dsqaVars
  <1> QED BY <1>2, <1>3, <1>4, TakeKeeps, ReplyKeeps, FailedKeeps, RaisedKeeps, DeathKeeps, PublishKeeps, PredictKeeps DEF DsqaNext

\* RatingsFounded for any rows, workers, grades and passes: whatever fails, dies or is predicted
\* anew, the classes of a published pass add up to its rows, and a valid row has the grades
\* of the reply kept for the prediction it was graded for (_process_row, aggregate_ratings).
THEOREM RatingsAreFounded == DsqaSpec => []RatingsFounded
  <1>1. DsqaSpec => []DsqaInv
    BY DsqaStarts, DsqaSteps, PTL DEF DsqaSpec
  <1> QED BY <1>1, DsqaSafe, PTL

-----------------------------------------------------------------------------
(***************************************************************************)
(* The trials of WideSearch.  Every trial of the schedule joins the list   *)
(* once, and no other does, so that counting is all that is left; a score  *)
(* and a finished trace of the same trial, whichever launches left them,   *)
(* are of the same launch, because a launch that adds a score without its  *)
(* trace being there is the launch that may still write it.                *)
(***************************************************************************)
WideTypes ==
  /\ wideLaunch \in Nat /\ expected \in 1..MaxTrials /\ queries \in (SUBSET Instances) \ {{}}
  /\ trial \in [Trials -> {"waiting", "rolled", "over"}]
  /\ unwritten \subseteq Trials /\ trialTrace \in [Trials -> Nat] /\ scoreFile \in [Trials -> Int]
  /\ trials = [t \in Trials |-> trials[t]]
  /\ wideAt \in {"off", "clear_traces", "clear_scores", "load", "trials", "done"}

\* One result at most, and it is of this launch or of the trace on disk.
Joined(t) == \E score \in Nat : trials[t] = <<score>> /\ (score \in {Nothing, wideLaunch} \/ score = trialTrace[t])

JoinedOnce ==
  wideAt \in {"trials", "done"} =>
    \A t \in Trials : IF t \in Scheduled /\ trial[t] = "over" THEN Joined(t) ELSE trials[t] = <<>>

\* A trace the writer has not come to is the only one of its trial.
WritesLeft ==
  /\ wideAt # "trials" => unwritten = {}
  /\ wideAt = "done" => \A t \in Trials : trial[t] = "over"
  /\ \A t \in unwritten : trialTrace[t] = Nothing /\ (Scored(scoreFile[t]) => scoreFile[t] = wideLaunch)
  /\ wideAt = "trials" =>
       \A t \in Trials : /\ trial[t] # "over" => t \in Scheduled /\ ~Scored(scoreFile[t])
                         /\ trial[t] = "rolled" => t \in unwritten

ScoresOfTraces == \A t \in Trials : Scored(scoreFile[t]) /\ trialTrace[t] # Nothing => scoreFile[t] = trialTrace[t]

WideInv == WideTypes /\ JoinedOnce /\ WritesLeft /\ ScoresOfTraces

-----------------------------------------------------------------------------
\* Lists of one result at most for the trials of the schedule count up to its size.
LEMMA ResultsCounted ==
  ASSUME WideTypes, NEW i \in Instances, \A t \in Trials : DOMAIN trials[t] \subseteq {1},
         \A t \in Trials \ Scheduled : trials[t] = <<>>
  PROVE  /\ ResultsOf(trials, i) \in Nat /\ ResultsOf(trials, i) <= expected
         /\ i \notin queries => ResultsOf(trials, i) = 0
         /\ i \in queries /\ (\A t \in Scheduled : DOMAIN trials[t] = {1}) => ResultsOf(trials, i) = expected
  <1> DEFINE numbers == 0..MaxTrials - 1
             found == UNION {{n} \X DOMAIN trials[<<i, n>>] : n \in numbers}
             most == (0..expected - 1) \X {1}
  <1>1. expected \in Nat \ {0} /\ expected <= MaxTrials /\ MaxTrials \in Nat
    BY WideAssumption DEF WideTypes
  <1>2. IsFiniteSet(most) /\ Cardinality(most) = expected
    <2>1. IsFiniteSet(0..expected - 1) /\ Cardinality(0..expected - 1) = expected
      BY <1>1, FS_Interval, 0 \in Int, expected - 1 \in Int
    <2>2. IsFiniteSet({1}) /\ Cardinality({1}) = 1
      BY FS_Singleton
    <2>3. Cardinality(most) = Cardinality(0..expected - 1) * Cardinality({1}) /\ IsFiniteSet(most)
      BY <2>1, <2>2, FS_Product
    <2> QED BY <2>1, <2>2, <2>3, <1>1
  <1>3. \A n \in numbers : <<i, n>> \in Trials /\ (<<i, n>> \in Scheduled <=> (i \in queries /\ n < expected))
    BY DEF Trials, Scheduled
  <1>4. found \subseteq most
    <2> SUFFICES ASSUME NEW p \in found
                 PROVE  p \in most
      OBVIOUS
    <2>0. PICK n \in numbers : p \in {n} \X DOMAIN trials[<<i, n>>]
      OBVIOUS
    <2>3. PICK k \in DOMAIN trials[<<i, n>>] : p = <<n, k>>
      BY <2>0
    <2>1. DOMAIN trials[<<i, n>>] # {} /\ k = 1
      BY <1>3, <2>3
    <2>2. <<i, n>> \in Scheduled
      BY <1>3, <2>1
    <2>4. n \in 0..expected - 1
      BY <1>1, <1>3, <2>2
    <2> QED BY <2>1, <2>3, <2>4
  <1>5. ResultsOf(trials, i) = Cardinality(found)
    BY DEF ResultsOf
  <1>6. IsFiniteSet(found) /\ Cardinality(found) <= Cardinality(most) /\ Cardinality(found) \in Nat
    BY <1>2, <1>4, FS_Subset, FS_CardinalityType
  <1>7. i \notin queries => found = {}
    <2> SUFFICES ASSUME i \notin queries, NEW n \in numbers
                 PROVE  DOMAIN trials[<<i, n>>] = {}
      OBVIOUS
    <2>1. trials[<<i, n>>] = <<>>
      BY <1>3
    <2> QED BY <2>1
  <1>8. ASSUME i \in queries, \A t \in Scheduled : DOMAIN trials[t] = {1}
        PROVE  found = most
    <2> SUFFICES ASSUME NEW p \in most
                 PROVE  p \in found
      BY <1>4
    <2>0. PICK n \in 0..expected - 1 : p = <<n, 1>>
      OBVIOUS
    <2>1. n \in numbers /\ DOMAIN trials[<<i, n>>] = {1}
      BY <1>1, <1>3, <1>8
    <2>2. <<n, 1>> \in {n} \X DOMAIN trials[<<i, n>>]
      BY <2>1
    <2> QED BY <2>0, <2>1, <2>2
  <1>9. Cardinality({}) = 0
    BY FS_EmptySet
  <1> HIDE DEF found, most, numbers
  <1> QED BY <1>1, <1>2, <1>5, <1>6, <1>7, <1>8, <1>9

\* Counting is all that is left to see.
LEMMA WideSafe == WideInv => TrialsAddUp
  <1> SUFFICES ASSUME WideInv, wideAt \in {"trials", "done"}
               PROVE  /\ \A i \in Instances : ResultsOf(trials, i) <= expected
                      /\ \A t \in Trials : \A n \in DOMAIN trials[t] :
                           trials[t][n] \notin {Nothing, wideLaunch} => t \in Scheduled /\ trialTrace[t] = trials[t][n]
                      /\ wideAt = "done" => CompleteInstances = queries
    BY DEF TrialsAddUp
  <1>1. \A t \in Trials : trials[t] = <<>> \/ (t \in Scheduled /\ Joined(t))
    BY DEF WideInv, JoinedOnce
  <1>2. \A t \in Trials : DOMAIN trials[t] \subseteq {1} /\ (Joined(t) => DOMAIN trials[t] = {1})
    <2> TAKE t \in Trials
    <2>1. Joined(t) => DOMAIN trials[t] = {1}
      BY DEF Joined
    <2>2. trials[t] = <<>> => DOMAIN trials[t] = {}
      OBVIOUS
    <2> QED BY <1>1, <2>1, <2>2
  <1>3. \A t \in Trials \ Scheduled : trials[t] = <<>>
    BY <1>1
  <1>4. \A i \in Instances : /\ ResultsOf(trials, i) \in Nat /\ ResultsOf(trials, i) <= expected
                             /\ i \notin queries => ResultsOf(trials, i) = 0
                             /\ i \in queries /\ (\A t \in Scheduled : DOMAIN trials[t] = {1}) => ResultsOf(trials, i) = expected
    BY <1>2, <1>3, ResultsCounted DEF WideInv
  <1>5. \A t \in Trials : \A n \in DOMAIN trials[t] :
          trials[t][n] \notin {Nothing, wideLaunch} => t \in Scheduled /\ trialTrace[t] = trials[t][n]
    BY <1>1 DEF Joined
  <1>6. ASSUME wideAt = "done"
        PROVE  CompleteInstances = queries
    <2>1. \A t \in Scheduled : DOMAIN trials[t] = {1}
      BY <1>2, <1>6 DEF WideInv, WritesLeft, JoinedOnce, Scheduled
    <2>2. \A i \in Instances : i \in queries <=> ResultsOf(trials, i) >= expected
      BY <1>4, <2>1 DEF WideInv, WideTypes
    <2> QED BY <2>2 DEF CompleteInstances, WideInv, WideTypes
  <1> QED BY <1>4, <1>5, <1>6

-----------------------------------------------------------------------------
LEMMA WideStarts == WideInit => WideInv
  <1> SUFFICES ASSUME WideInit
               PROVE  WideInv
    OBVIOUS
  <1>1. NoFiles = [t \in Trials |-> Nothing]
    BY DEF NoFiles, OnlyThese
  <1>2. WideTypes
    <2>1. trialTrace \in [Trials -> Nat] /\ scoreFile \in [Trials -> Int]
      BY <1>1 DEF WideInit, Nothing
    <2>2. trials = [t \in Trials |-> trials[t]]
      BY DEF WideInit, AsResults
    <2>3. expected \in 1..MaxTrials /\ queries \in (SUBSET Instances) \ {{}}
      <3>1. MaxTrials \in Nat /\ 1 <= MaxTrials
        BY WideAssumption
      <3>2. Instances \in (SUBSET Instances) \ {{}}
        BY WideAssumption
      <3> QED BY <3>1, <3>2 DEF WideInit
    <2>4. trial \in [Trials -> {"waiting", "rolled", "over"}] /\ unwritten \subseteq Trials
      BY DEF WideInit
    <2> QED BY <2>1, <2>2, <2>3, <2>4 DEF WideInit, WideTypes
  <1>3. JoinedOnce
    BY DEF WideInit, JoinedOnce
  <1>4. WritesLeft
    BY DEF WideInit, WritesLeft
  <1>5. ScoresOfTraces
    BY <1>1 DEF WideInit, ScoresOfTraces
  <1> QED BY <1>2, <1>3, <1>4, <1>5 DEF WideInv

\* The steps outside the trials.
LEMMA LoopOutside ==
  ASSUME WideInv,
         (\E resume \in BOOLEAN : BeginLoop(resume)) \/ ClearTraces \/ ClearScores \/ LeaveLoop
  PROVE  WideInv'
  <1> USE DEF WideInv
  <1>0. NoFiles = [t \in Trials |-> Nothing]
    BY DEF NoFiles, OnlyThese
  <1>1. ASSUME NEW resume \in BOOLEAN, BeginLoop(resume)
        PROVE  WideInv'
    <2>1. WideTypes'
      BY <1>1 DEF BeginLoop, WideTypes, diskVars, rejudgeVars
    <2>2. JoinedOnce' /\ WritesLeft'
      BY <1>1 DEF BeginLoop, JoinedOnce, WritesLeft, diskVars, rejudgeVars
    <2>3. ScoresOfTraces'
      BY <1>1 DEF BeginLoop, ScoresOfTraces, diskVars, rejudgeVars
    <2> QED BY <2>1, <2>2, <2>3
  <1>2. CASE ClearTraces
    <2>1. WideTypes'
      BY <1>0, <1>2 DEF ClearTraces, WideTypes, Nothing
    <2>2. JoinedOnce' /\ WritesLeft'
      BY <1>2 DEF ClearTraces, JoinedOnce, WritesLeft
    <2>3. ScoresOfTraces'
      BY <1>0, <1>2 DEF ClearTraces, ScoresOfTraces
    <2> QED BY <2>1, <2>2, <2>3
  <1>3. CASE ClearScores
    <2>1. WideTypes'
      BY <1>0, <1>3 DEF ClearScores, WideTypes, Nothing
    <2>2. JoinedOnce' /\ WritesLeft'
      BY <1>3 DEF ClearScores, JoinedOnce, WritesLeft
    <2>3. ScoresOfTraces'
      BY <1>0, <1>3 DEF ClearScores, ScoresOfTraces, Scored, Nothing
    <2> QED BY <2>1, <2>2, <2>3
  <1>4. CASE LeaveLoop
    <2>1. WideTypes'
      BY <1>4 DEF LeaveLoop, WideTypes, diskVars, rejudgeVars, AsResults
    <2>2. JoinedOnce' /\ WritesLeft'
      BY <1>4 DEF LeaveLoop, JoinedOnce, WritesLeft, diskVars, rejudgeVars
    <2>3. ScoresOfTraces'
      BY <1>4 DEF LeaveLoop, ScoresOfTraces, diskVars, rejudgeVars
    <2> QED BY <2>1, <2>2, <2>3
  <1> QED BY <1>1, <1>2, <1>3, <1>4

\* What is kept has its trace; all the other trials of the schedule are to be scored.
LEMMA LoadKeeps ==
  ASSUME WideInv, LoadScores
  PROVE  WideInv'
  <1> USE DEF WideInv
  <1> DEFINE kept == ScoresToKeep(scoreFile)
  <1>1. /\ wideAt = "load" /\ wideAt' = "trials"
        /\ scoreFile' = OnlyThese(scoreFile, kept \cup {t \in Trials : scoreFile[t] = Cut})
        /\ trials' = AsResults(OnlyThese(scoreFile, kept))
        /\ trial' = [t \in Trials |-> IF t \in TrialsToScore(kept) THEN "waiting" ELSE "over"]
        /\ UNCHANGED <<trialTrace, wideLaunch, expected, queries, unwritten>>
    BY DEF LoadScores
  <1>2. kept \subseteq Scheduled /\ Scheduled' = Scheduled /\ unwritten = {}
        /\ \A t \in kept : t \in Trials /\ Scored(scoreFile[t]) /\ trialTrace[t] # Nothing
    BY <1>1 DEF ScoresToKeep, Scheduled, WritesLeft, OnFile, CompletedTrials
  <1>3. \A t \in Trials : /\ scoreFile[t] \in Int /\ trialTrace[t] \in Nat
                          /\ scoreFile'[t] \in Int /\ (Scored(scoreFile'[t]) => t \in kept /\ scoreFile'[t] = scoreFile[t])
    BY <1>1 DEF WideTypes, OnlyThese, Scored, Nothing, Cut
  <1>4. \A t \in Trials : IF t \in kept THEN trials'[t] = <<scoreFile[t]>> ELSE trials'[t] = <<>>
    BY <1>1, <1>2 DEF AsResults, OnlyThese, Scored, Nothing
  <1>5. \A t \in Trials : trial'[t] = IF t \in Scheduled /\ t \notin kept THEN "waiting" ELSE "over"
    BY <1>1 DEF TrialsToScore
  <1> HIDE DEF kept
  <1>6. WideTypes'
    <2>1. trials' = [t \in Trials |-> trials'[t]]
      BY <1>1 DEF AsResults
    <2>2. scoreFile' \in [Trials -> Int]
      BY <1>1, <1>3 DEF OnlyThese
    <2>3. trial' \in [Trials -> {"waiting", "rolled", "over"}]
      BY <1>1
    <2> QED BY <1>1, <2>1, <2>2, <2>3 DEF WideTypes
  <1>7. JoinedOnce'
    <2> SUFFICES ASSUME NEW t \in Trials
                 PROVE  IF t \in Scheduled' /\ trial'[t] = "over" THEN Joined(t)' ELSE trials'[t] = <<>>
      BY DEF JoinedOnce
    <2>1. CASE t \in kept
      <3>1. scoreFile[t] \in Nat /\ scoreFile[t] = trialTrace[t] /\ trials'[t] = <<scoreFile[t]>>
        BY <1>2, <1>3, <1>4, <2>1 DEF ScoresOfTraces, Scored
      <3>2. Joined(t)'
        BY <1>1, <3>1 DEF Joined
      <3> QED BY <1>2, <1>5, <2>1, <3>2
    <2>2. CASE t \notin kept
      BY <1>2, <1>4, <1>5, <2>2
    <2> QED BY <2>1, <2>2
  <1>8. WritesLeft'
    BY <1>1, <1>2, <1>3, <1>5 DEF WritesLeft
  <1>9. ScoresOfTraces'
    BY <1>1, <1>3 DEF ScoresOfTraces
  <1> QED BY <1>6, <1>7, <1>8, <1>9

\* A trial moves: it is rolled out, or joins the list with a score.
LEMMA TrialKeeps ==
  ASSUME WideInv, NEW t \in Trials, RollOutTrial(t) \/ TrialRaises(t) \/ ScoreTrial(t)
  PROVE  WideInv'
  <1> USE DEF WideInv
  <1>1. /\ wideAt = "trials" /\ wideAt' = "trials" /\ trial[t] # "over"
        /\ UNCHANGED <<trialTrace, wideLaunch, expected, queries>>
        /\ trial' \in [Trials -> {"waiting", "rolled", "over"}]
        /\ \A u \in Trials \ {t} : trial'[u] = trial[u]
    BY DEF RollOutTrial, TrialRaises, ScoreTrial, Moves, JoinsList, diskVars, WideTypes
  <1>2. t \in Scheduled /\ Scheduled' = Scheduled /\ ~Scored(scoreFile[t]) /\ trials[t] = <<>>
        /\ trialTrace[t] \in Nat /\ wideLaunch \in Nat
    BY <1>1 DEF WritesLeft, Scheduled, JoinedOnce, WideTypes
  <1>3. CASE RollOutTrial(t)
    <2>1. /\ trialTrace[t] = Nothing /\ unwritten' = unwritten \cup {t} /\ trial'[t] = "rolled"
          /\ UNCHANGED <<scoreFile, trials>>
      BY <1>3 DEF RollOutTrial, Moves, diskVars, WideTypes
    <2>2. WideTypes'
      BY <1>1, <2>1 DEF WideTypes
    <2>3. JoinedOnce'
      BY <1>1, <1>2, <2>1 DEF JoinedOnce, Joined
    <2>4. WritesLeft'
      BY <1>1, <1>2, <2>1 DEF WritesLeft
    <2>5. ScoresOfTraces'
      BY <1>1, <2>1 DEF ScoresOfTraces
    <2> QED BY <2>2, <2>3, <2>4, <2>5
  <1>4. ASSUME NEW score \in Int, JoinsList(t, score), trial'[t] = "over",
               unwritten' \in {unwritten, unwritten \cup {t}},
               Scored(score) => score = (IF t \in unwritten' THEN wideLaunch ELSE trialTrace[t]) ,
               t \in unwritten' => trialTrace[t] = Nothing,
               score = Failed \/ (score \in Nat /\ score \in {wideLaunch, trialTrace[t]})
        PROVE  WideInv'
    <2> DEFINE value == IF score = Failed THEN Nothing ELSE score
    <2>1. /\ trials' = [trials EXCEPT ![t] = Append(trials[t], value)]
          /\ scoreFile' = [scoreFile EXCEPT ![t] = score]
      BY <1>4 DEF JoinsList
    <2>2. value \in Nat /\ (value \in {Nothing, wideLaunch} \/ value = trialTrace[t])
      BY <1>4 DEF Failed, Nothing
    <2> HIDE DEF value
    <2>3. /\ trials'[t] = <<value>> /\ \A u \in Trials \ {t} : trials'[u] = trials[u]
          /\ trials' = [u \in Trials |-> trials'[u]]
      <3>1. Append(trials[t], value) = <<value>>
        BY <1>2
      <3> QED BY <2>1, <3>1 DEF WideTypes
    <2>4. /\ scoreFile' \in [Trials -> Int] /\ scoreFile'[t] = score
          /\ \A u \in Trials \ {t} : scoreFile'[u] = scoreFile[u]
      BY <1>4, <2>1 DEF WideTypes
    <2>5. WideTypes'
      BY <1>1, <1>4, <2>3, <2>4 DEF WideTypes
    <2>6. JoinedOnce'
      <3>1. Joined(t)'
        BY <1>1, <2>2, <2>3 DEF Joined
      <3> QED BY <1>1, <1>2, <1>4, <2>3, <3>1 DEF JoinedOnce, Joined
    <2>7. WritesLeft'
      <3>1. \A u \in unwritten' : trialTrace'[u] = Nothing /\ (Scored(scoreFile'[u]) => scoreFile'[u] = wideLaunch')
        <4> TAKE u \in unwritten'
        <4>1. CASE u = t
          BY <1>1, <1>4, <2>4, <4>1
        <4>2. CASE u # t
          <5>1. u \in unwritten /\ u \in Trials
            BY <1>4, <4>2 DEF WideTypes
          <5> QED BY <1>1, <2>4, <4>2, <5>1 DEF WritesLeft
        <4> QED BY <4>1, <4>2
      <3>2. \A u \in Trials : /\ trial'[u] # "over" => u \in Scheduled' /\ ~Scored(scoreFile'[u])
                              /\ trial'[u] = "rolled" => u \in unwritten'
        BY <1>1, <1>2, <1>4, <2>4 DEF WritesLeft
      <3> QED BY <1>1, <3>1, <3>2 DEF WritesLeft
    <2>8. ScoresOfTraces'
      BY <1>1, <1>4, <2>4 DEF ScoresOfTraces
    <2> QED BY <2>5, <2>6, <2>7, <2>8
  <1>5. CASE TrialRaises(t)
    <2>1. /\ JoinsList(t, Failed) /\ trial'[t] = "over" /\ trialTrace[t] = Nothing
          /\ unwritten' \in {unwritten, unwritten \cup {t}}
      BY <1>5 DEF TrialRaises, Moves, WideTypes
    <2>2. Failed \in Int /\ ~Scored(Failed)
      BY DEF Failed, Scored
    <2> QED BY <1>4, <2>1, <2>2
  <1>6. CASE ScoreTrial(t)
    <2>1. trial'[t] = "over" /\ unwritten' = unwritten
      BY <1>6 DEF ScoreTrial, Moves, WideTypes
    <2>2. CASE trial[t] = "rolled" /\ JoinsList(t, wideLaunch)
      <3>1. t \in unwritten /\ trialTrace[t] = Nothing /\ wideLaunch \in Int
        BY <1>1, <1>2, <2>2 DEF WritesLeft
      <3> QED BY <1>2, <1>4, <2>1, <2>2, <3>1
    <2>3. CASE trialTrace[t] # Nothing /\ JoinsList(t, trialTrace[t])
      <3>1. t \notin unwritten /\ trialTrace[t] \in Int
        BY <1>2, <2>3 DEF WritesLeft
      <3> QED BY <1>2, <1>4, <2>1, <2>3, <3>1
    <2> QED BY <1>6, <2>2, <2>3 DEF ScoreTrial, Moves
  <1> QED BY <1>3, <1>5, <1>6

\* The writer comes to some of the traces, at the end to all of them.
LEMMA WrittenKeeps ==
  ASSUME WideInv, NEW S \in SUBSET unwritten, trialTrace' = Written(S), wideLaunch' = wideLaunch
  PROVE  /\ trialTrace' \in [Trials -> Nat]
         /\ \A t \in Trials : trialTrace'[t] = IF t \in S THEN wideLaunch ELSE trialTrace[t]
         /\ \A t \in Trials : Scored(scoreFile[t]) /\ trialTrace'[t] # Nothing => scoreFile[t] = trialTrace'[t]
  BY DEF WideInv, WideTypes, Written, WritesLeft, ScoresOfTraces

LEMMA EndKeeps ==
  ASSUME WideInv, EndLoop
  PROVE  WideInv'
  <1> USE DEF WideInv
  <1>1. /\ wideAt = "trials" /\ wideAt' = "done" /\ (\A t \in Trials : trial[t] = "over")
        /\ unwritten' = {} /\ trialTrace' = Written(unwritten)
        /\ UNCHANGED <<scoreFile, wideLaunch, expected, queries, trial, trials>>
    BY DEF EndLoop
  <1>2. /\ trialTrace' \in [Trials -> Nat]
        /\ \A t \in Trials : trialTrace'[t] = IF t \in unwritten THEN wideLaunch ELSE trialTrace[t]
        /\ \A t \in Trials : Scored(scoreFile[t]) /\ trialTrace'[t] # Nothing => scoreFile[t] = trialTrace'[t]
    BY <1>1, WrittenKeeps
  <1>3. WideTypes'
    BY <1>1, <1>2 DEF WideTypes
  <1>4. \A t \in Trials : Joined(t) => Joined(t)'
    BY <1>1, <1>2 DEF Joined, WritesLeft
  <1>5. JoinedOnce' /\ WritesLeft' /\ ScoresOfTraces'
    BY <1>1, <1>2, <1>4 DEF JoinedOnce, WritesLeft, ScoresOfTraces, Scheduled
  <1> QED BY <1>3, <1>5

LEMMA LoopDiesKeeps ==
  ASSUME WideInv, LoopDies
  PROVE  WideInv'
  <1> USE DEF WideInv
  <1>1. PICK S \in SUBSET unwritten : trialTrace' = Written(S)
    BY DEF LoopDies
  <1>2. /\ wideAt' = "off" /\ unwritten' = {} /\ trial' = [t \in Trials |-> "over"] /\ trials' = AsResults(NoFiles)
        /\ UNCHANGED <<wideLaunch, expected, queries>>
    BY DEF LoopDies
  <1>3. /\ trialTrace' \in [Trials -> Nat]
        /\ \A t \in Trials : Scored(scoreFile[t]) /\ trialTrace'[t] # Nothing => scoreFile[t] = trialTrace'[t]
    BY <1>1, <1>2, WrittenKeeps
  <1>4. /\ scoreFile' \in [Trials -> Int]
        /\ \A t \in Trials : Scored(scoreFile'[t]) => scoreFile'[t] = scoreFile[t]
    <2>1. scoreFile' = scoreFile \/ \E t \in Trials : scoreFile' = [scoreFile EXCEPT ![t] = Cut]
      BY DEF LoopDies
    <2> QED BY <2>1 DEF WideTypes, Cut, Scored
  <1>5. WideTypes'
    BY <1>2, <1>3, <1>4 DEF WideTypes, AsResults
  <1>6. JoinedOnce' /\ WritesLeft'
    BY <1>2 DEF JoinedOnce, WritesLeft
  <1>7. ScoresOfTraces'
    BY <1>3, <1>4 DEF ScoresOfTraces
  <1> QED BY <1>5, <1>6, <1>7

\* The judge that comes afterwards writes files of its own.
LEMMA WideRests ==
  ASSUME WideInv, UNCHANGED <<trialTrace, scoreFile, loopVars>>
  PROVE  WideInv'
  <1> USE DEF WideInv, loopVars
  <1>1. WideTypes'
    BY DEF WideTypes
  <1>2. JoinedOnce'
    BY DEF JoinedOnce, Joined, Scheduled
  <1>3. WritesLeft' /\ ScoresOfTraces'
    BY DEF WritesLeft, ScoresOfTraces, Scheduled
  <1> QED BY <1>1, <1>2, <1>3

LEMMA WideSteps == WideInv /\ [WideNext]_wideVars => WideInv'
  <1> SUFFICES ASSUME WideInv, [WideNext]_wideVars
               PROVE  WideInv'
    OBVIOUS
  <1>1. CASE \E resume \in BOOLEAN : BeginLoop(resume)
    BY <1>1, LoopOutside
  <1>2. CASE ClearTraces \/ ClearScores \/ LeaveLoop
    BY <1>2, LoopOutside
  <1>3. CASE LoadScores
    BY <1>3, LoadKeeps
  <1>4. ASSUME NEW t \in Trials, RollOutTrial(t) \/ TrialRaises(t) \/ ScoreTrial(t)
        PROVE  WideInv'
    BY <1>4, TrialKeeps
  <1>5. CASE EndLoop
    BY <1>5, EndKeeps
  <1>6. CASE LoopDies
    BY <1>6, LoopDiesKeeps
  <1>7. CASE (\E t \in Trials : Rejudge(t)) \/ BeginRejudge \/ EndRejudge \/ RejudgeDies \/ UNCHANGED wideVars
    <2>1. UNCHANGED <<trialTrace, scoreFile, loopVars>>
      BY <1>7 DEF Rejudge, BeginRejudge, EndRejudge, RejudgeDies, wideVars, diskVars, loopVars
    <2> QED BY <2>1, WideRests
  <1> QED BY <1>1, <1>2, <1>3, <1>4, <1>5, <1>6, <1>7 DEF WideNext

\* The summary of WideSearch is over the trials it was asked for, once each, and over
\* scores whose traces are there, whatever launches came before and however they ended.
THEOREM EveryTrialAddsUp == WideSpec => []TrialsAddUp
  <1>1. WideSpec => []WideInv
    BY WideStarts, WideSteps, PTL DEF WideSpec
  <1> QED BY <1>1, WideSafe, PTL

-----------------------------------------------------------------------------
(***************************************************************************)
(* One verdict.  The two counters are what the calls of the present judge  *)
(* say, and a call that got more room is the last one in its room.         *)
(***************************************************************************)
CallRecords == [how : {"error", "garbled", "cut"}, room : Nat]

\* A call that was cut off where there was more room.
WasHelped(c, ceiling) == c.how = "cut" /\ ~WasHopeless(c, ceiling)

VerifierInv ==
  /\ verifier \in {"asked", "asking", "judged", "given_up"}
  /\ rooms \in JudgeRooms /\ room \in Nat \ {0} /\ {endpointErrors, parseFailures} \subseteq Nat
  /\ calls \in Seq(CallRecords)
  /\ endpointErrors = Errors /\ parseFailures = Hopeless
  /\ verifier \in {"asked", "judged"} => calls = <<>>
  /\ verifier = "asking" => endpointErrors < JudgeRetries /\ parseFailures < JudgeRetries
  /\ verifier = "given_up" => /\ endpointErrors <= JudgeRetries /\ parseFailures <= JudgeRetries
                              /\ endpointErrors = JudgeRetries \/ parseFailures = JudgeRetries
  /\ \A n \in DOMAIN calls : WasHelped(calls[n], rooms.ceiling) => calls[n].room < room
  /\ \A m, n \in DOMAIN calls : m < n /\ WasHelped(calls[m], rooms.ceiling) => calls[m].room < calls[n].room

-----------------------------------------------------------------------------
\* No call, no failure.
LEMMA NoCalls ==
  ASSUME calls = <<>>
  PROVE  Errors = 0 /\ Hopeless = 0
  <1>1. {n \in DOMAIN calls : calls[n].how = "error"} = {} /\ {n \in DOMAIN calls : WasHopeless(calls[n], rooms.ceiling)} = {}
    OBVIOUS
  <1> QED BY <1>1, FS_EmptySet DEF Errors, Hopeless

\* A call more is a failure more where it is one.
LEMMA CallCounted ==
  ASSUME calls \in Seq(CallRecords), NEW c \in CallRecords, calls' = Append(calls, c), rooms' = rooms
  PROVE  /\ Errors' = Errors + (IF c.how = "error" THEN 1 ELSE 0)
         /\ Hopeless' = Hopeless + (IF WasHopeless(c, rooms.ceiling) THEN 1 ELSE 0)
         /\ Errors \in Nat /\ Hopeless \in Nat
  <1> DEFINE new == Len(calls) + 1
             errors == {n \in DOMAIN calls : calls[n].how = "error"}
             hopeless == {n \in DOMAIN calls : WasHopeless(calls[n], rooms.ceiling)}
  <1>1. /\ DOMAIN calls = 1..Len(calls) /\ Len(calls) \in Nat /\ DOMAIN calls' = (DOMAIN calls) \cup {new}
        /\ calls'[new] = c /\ \A n \in DOMAIN calls : calls'[n] = calls[n]
    OBVIOUS
  <1>2. new \notin DOMAIN calls
    BY <1>1
  <1>3. IsFiniteSet(DOMAIN calls)
    BY <1>1, FS_Interval, 1 \in Int, Len(calls) \in Int
  <1>4. IsFiniteSet(errors) /\ IsFiniteSet(hopeless) /\ new \notin errors /\ new \notin hopeless
    BY <1>2, <1>3, FS_Subset
  <1>5. {n \in DOMAIN calls' : calls'[n].how = "error"} = IF c.how = "error" THEN errors \cup {new} ELSE errors
    BY <1>1, <1>2
  <1>7. {n \in DOMAIN calls' : WasHopeless(calls'[n], rooms'.ceiling)} = IF WasHopeless(c, rooms.ceiling) THEN hopeless \cup {new} ELSE hopeless
    BY <1>1, <1>2 DEF WasHopeless
  <1>8. /\ Cardinality(errors) \in Nat /\ Cardinality(hopeless) \in Nat
        /\ Cardinality(errors \cup {new}) = Cardinality(errors) + 1
        /\ Cardinality(hopeless \cup {new}) = Cardinality(hopeless) + 1
    BY <1>4, FS_CardinalityType, FS_AddElement
  <1>9. Errors = Cardinality(errors) /\ Hopeless = Cardinality(hopeless)
    BY DEF Errors, Hopeless
  <1>10. Errors' = Cardinality({n \in DOMAIN calls' : calls'[n].how = "error"})
    BY DEF Errors
  <1>11. Hopeless' = Cardinality({n \in DOMAIN calls' : WasHopeless(calls'[n], rooms'.ceiling)})
    BY DEF Hopeless
  <1> HIDE DEF errors, hopeless, new
  <1>14. PICK e \in Nat : e = Cardinality(errors)
    BY <1>8
  <1>15. PICK h \in Nat : h = Cardinality(hopeless)
    BY <1>8
  <1>16. Cardinality(errors \cup {new}) = e + 1 /\ Cardinality(hopeless \cup {new}) = h + 1
    BY <1>8, <1>14, <1>15
  <1>12. Errors' = Errors + (IF c.how = "error" THEN 1 ELSE 0)
    <2>1. Errors = e /\ Errors' = IF c.how = "error" THEN e + 1 ELSE e
      BY <1>5, <1>9, <1>10, <1>14, <1>16
    <2> QED BY <2>1
  <1>13. Hopeless' = Hopeless + (IF WasHopeless(c, rooms.ceiling) THEN 1 ELSE 0)
    <2>1. Hopeless = h /\ Hopeless' = IF WasHopeless(c, rooms.ceiling) THEN h + 1 ELSE h
      BY <1>7, <1>9, <1>11, <1>15, <1>16
    <2> QED BY <2>1
  <1> QED BY <1>8, <1>9, <1>12, <1>13

\* What more room is: there is some below the least room, or below the ceiling.
LEMMA RoomGrows ==
  ASSUME VerifierInv
  PROVE  /\ NextRoom(room) \in Nat \ {0}
         /\ Grows(TRUE) => room < NextRoom(room) /\ ~(room >= 128 /\ room >= rooms.ceiling)
         /\ ~Grows(TRUE) => room >= 128 /\ room >= rooms.ceiling
  <1>1. rooms.ceiling \in Nat \ {0} /\ room \in Nat \ {0}
    BY VerifierAssumption DEF VerifierInv
  <1>2. NextRoom(room) = IF room < 128 THEN 128 ELSE IF 4 * room < rooms.ceiling THEN 4 * room ELSE rooms.ceiling
    BY DEF NextRoom
  <1> QED BY <1>1, <1>2 DEF Grows

LEMMA VerifierSafe == VerifierInv => EachModeItsBudget
  <1> SUFFICES ASSUME VerifierInv
               PROVE  EachModeItsBudget
    OBVIOUS
  <1> USE DEF VerifierInv
  <1>1. verifier \in {"asked", "judged"} => Errors = 0 /\ Hopeless = 0
    BY NoCalls
  <1>2. JudgeRetries \in Nat \ {0}
    BY VerifierAssumption
  <1>3. /\ verifier = "given_up" <=> Errors = JudgeRetries \/ Hopeless = JudgeRetries
        /\ Errors <= JudgeRetries /\ Hopeless <= JudgeRetries
    BY <1>1, <1>2
  <1>4. ASSUME NEW m \in DOMAIN calls, NEW n \in DOMAIN calls, m < n, calls[m].how = "cut", calls[m].room = calls[n].room
        PROVE  calls[m].room >= rooms.ceiling
    <2>1. calls[m] \in CallRecords /\ calls[n] \in CallRecords
      OBVIOUS
    <2>2. calls[m].room \in Nat /\ calls[n].room \in Nat
      BY <2>1 DEF CallRecords
    <2>3. ~WasHelped(calls[m], rooms.ceiling)
      BY <1>4, <2>2
    <2> QED BY <1>4, <2>3 DEF WasHelped, WasHopeless
  <1> QED BY <1>3, <1>4 DEF EachModeItsBudget

-----------------------------------------------------------------------------
LEMMA VerifierStarts == VerifierInit => VerifierInv
  <1> SUFFICES ASSUME VerifierInit
               PROVE  VerifierInv
    OBVIOUS
  <1>1. Errors = 0 /\ Hopeless = 0 /\ calls = <<>>
    BY NoCalls DEF VerifierInit
  <1>2. rooms \in JudgeRooms /\ room \in Nat \ {0}
    BY VerifierAssumption DEF VerifierInit
  <1> QED BY <1>1, <1>2 DEF VerifierInit, VerifierInv

\* The present judge is called once more.
LEMMA CallKeeps ==
  ASSUME VerifierInv, verifier = "asking", rooms' = rooms, NEW how \in {"error", "garbled", "cut"},
         calls' = Append(calls, [how |-> how, room |-> room]),
         NEW c, c = [how |-> how, room |-> room],
         room' = IF WasHelped(c, rooms.ceiling) THEN NextRoom(room) ELSE room,
         endpointErrors' = IF how = "error" THEN endpointErrors + 1 ELSE endpointErrors,
         parseFailures' = IF WasHopeless(c, rooms.ceiling) THEN parseFailures + 1 ELSE parseFailures,
         verifier' = IF endpointErrors' = JudgeRetries \/ parseFailures' = JudgeRetries THEN "given_up" ELSE "asking"
  PROVE  VerifierInv'
  <1> USE DEF VerifierInv
  <1>1. c \in CallRecords /\ calls' = Append(calls, c) /\ c.how = how /\ c.room = room
    BY DEF CallRecords
  <1>2. /\ Errors' = Errors + (IF c.how = "error" THEN 1 ELSE 0)
        /\ Hopeless' = Hopeless + (IF WasHopeless(c, rooms.ceiling) THEN 1 ELSE 0)
    BY <1>1, CallCounted
  <1>3. JudgeRetries \in Nat
    BY VerifierAssumption
  <1>4. endpointErrors' = Errors' /\ parseFailures' = Hopeless' /\ {endpointErrors', parseFailures'} \subseteq Nat
    BY <1>1, <1>2
  <1>5. /\ verifier' \in {"asking", "given_up"}
        /\ verifier' = "asking" => endpointErrors' < JudgeRetries /\ parseFailures' < JudgeRetries
        /\ verifier' = "given_up" => /\ endpointErrors' <= JudgeRetries /\ parseFailures' <= JudgeRetries
                                     /\ endpointErrors' = JudgeRetries \/ parseFailures' = JudgeRetries
    BY <1>3, <1>4
  <1>6. /\ room' \in Nat \ {0} /\ room <= room' /\ (WasHelped(c, rooms.ceiling) => room < room')
    <2>1. WasHelped(c, rooms.ceiling) => Grows(TRUE)
      BY <1>1, RoomGrows DEF WasHelped, WasHopeless
    <2>2. CASE WasHelped(c, rooms.ceiling)
      <3>1. room' = NextRoom(room)
        BY <2>2
      <3>2. NextRoom(room) \in Nat \ {0} /\ room < NextRoom(room)
        BY <2>1, <2>2, RoomGrows
      <3> QED BY <3>1, <3>2
    <2>3. CASE ~WasHelped(c, rooms.ceiling)
      BY <2>3
    <2> QED BY <2>2, <2>3
  <1>8. /\ calls' \in Seq(CallRecords) /\ DOMAIN calls' = (DOMAIN calls) \cup {Len(calls) + 1} /\ DOMAIN calls = 1..Len(calls)
        /\ calls'[Len(calls) + 1] = c /\ \A n \in DOMAIN calls : calls'[n] = calls[n] /\ calls[n].room \in Nat
    <2>1. \A n \in DOMAIN calls : calls[n] \in CallRecords
      OBVIOUS
    <2>2. \A n \in DOMAIN calls : calls[n].room \in Nat
      BY <2>1 DEF CallRecords
    <2> QED BY <1>1, <2>2
  <1>9. \A n \in DOMAIN calls' : WasHelped(calls'[n], rooms'.ceiling) => calls'[n].room < room'
    BY <1>1, <1>6, <1>8
  <1>10. \A m, n \in DOMAIN calls' : m < n /\ WasHelped(calls'[m], rooms'.ceiling) => calls'[m].room < calls'[n].room
    <2> SUFFICES ASSUME NEW m \in DOMAIN calls', NEW n \in DOMAIN calls', m < n, WasHelped(calls'[m], rooms'.ceiling)
                 PROVE  calls'[m].room < calls'[n].room
      OBVIOUS
    <2>1. m \in DOMAIN calls /\ WasHelped(calls[m], rooms.ceiling)
      BY <1>8
    <2>2. CASE n \in DOMAIN calls
      BY <1>8, <2>1, <2>2
    <2>3. CASE n = Len(calls) + 1
      BY <1>1, <1>8, <2>1, <2>3
    <2> QED BY <1>8, <2>2, <2>3
  <1> QED BY <1>4, <1>5, <1>6, <1>8, <1>9, <1>10

LEMMA VerifierSteps == VerifierInv /\ [VerifierNext]_verifierVars => VerifierInv'
  <1> SUFFICES ASSUME VerifierInv, [VerifierNext]_verifierVars
               PROVE  VerifierInv'
    OBVIOUS
  <1> USE DEF VerifierInv
  <1>0. JudgeRetries \in Nat \ {0} /\ rooms.first \in Nat \ {0}
    BY VerifierAssumption
  <1>1. CASE UNCHANGED verifierVars
    <2>1. Errors' = Errors /\ Hopeless' = Hopeless 
      BY <1>1 DEF verifierVars, Errors, Hopeless, WasHelped, WasHopeless
    <2> QED BY <1>1, <2>1 DEF verifierVars
  <1>2. CASE SkipJudge \/ AskJudges
    <2>1. verifier = "asked" /\ verifier' \in {"judged", "asking"} /\ UNCHANGED <<rooms, room, endpointErrors, parseFailures, calls>>
      BY <1>2 DEF SkipJudge, AskJudges
    <2>2. Errors' = Errors /\ Hopeless' = Hopeless /\ Errors = 0 /\ Hopeless = 0
      BY <2>1, NoCalls DEF Errors, Hopeless, WasHopeless
    <2> QED BY <1>0, <2>1, <2>2
  <1>3. ASSUME NEW choice \in JudgeChoices, Decide(choice)
        PROVE  VerifierInv'
    <2>1. /\ verifier' \in {"judged", "asking"} /\ rooms' = rooms /\ room' = rooms.first
          /\ endpointErrors' = 0 /\ parseFailures' = 0 /\ calls' = <<>>
      BY <1>3 DEF Decide
    <2>2. Errors' = 0 /\ Hopeless' = 0
      <3>1. {n \in DOMAIN calls' : calls'[n].how = "error"} = {} /\ {n \in DOMAIN calls' : WasHopeless(calls'[n], rooms'.ceiling)} = {}
        BY <2>1
      <3> QED BY <3>1, FS_EmptySet DEF Errors, Hopeless
    <2> QED BY <1>0, <2>1, <2>2
  <1>4. CASE GrowRoom
    <2> DEFINE c == [how |-> "cut", room |-> room]
    <2>1. /\ verifier = "asking" /\ calls' = Append(calls, c) /\ Grows(TRUE) /\ room' = NextRoom(room)
          /\ UNCHANGED <<verifier, rooms, endpointErrors, parseFailures>>
      BY <1>4 DEF GrowRoom, Called
    <2>2. ~WasHopeless(c, rooms.ceiling) /\ WasHelped(c, rooms.ceiling)
      BY <2>1, RoomGrows DEF WasHopeless, WasHelped
    <2>3. endpointErrors' # JudgeRetries /\ parseFailures' # JudgeRetries
      BY <1>0, <2>1
    <2> QED BY <2>1, <2>2, <2>3, CallKeeps
  <1>5. ASSUME NEW length \in BOOLEAN, FailToParse(length)
        PROVE  VerifierInv'
    <2> DEFINE how == IF length THEN "cut" ELSE "garbled"
               c == [how |-> how, room |-> room]
    <2>1. /\ verifier = "asking" /\ calls' = Append(calls, c) /\ ~Grows(length)
          /\ parseFailures' = parseFailures + 1
          /\ verifier' = IF Spent(parseFailures) THEN "given_up" ELSE "asking"
          /\ UNCHANGED <<rooms, room, endpointErrors>>
      BY <1>5 DEF FailToParse, Called
    <2>2. WasHopeless(c, rooms.ceiling)
      BY <2>1, RoomGrows DEF WasHopeless, Grows
    <2>3. ~WasHelped(c, rooms.ceiling) /\ how # "error" /\ how \in {"garbled", "cut"}
      BY <2>2 DEF WasHelped
    <2>4. verifier' = IF endpointErrors' = JudgeRetries \/ parseFailures' = JudgeRetries THEN "given_up" ELSE "asking"
      BY <1>0, <2>1 DEF Spent
    <2> HIDE DEF how
    <2> QED BY <2>1, <2>2, <2>3, <2>4, CallKeeps
  <1>6. CASE EndpointErrs
    <2> DEFINE c == [how |-> "error", room |-> room]
    <2>1. /\ verifier = "asking" /\ calls' = Append(calls, c)
          /\ endpointErrors' = endpointErrors + 1
          /\ verifier' = IF Spent(endpointErrors) THEN "given_up" ELSE "asking"
          /\ UNCHANGED <<rooms, room, parseFailures>>
      BY <1>6 DEF EndpointErrs, Called
    <2>2. ~WasHopeless(c, rooms.ceiling) /\ ~WasHelped(c, rooms.ceiling)
      BY DEF WasHelped, WasHopeless
    <2>4. verifier' = IF endpointErrors' = JudgeRetries \/ parseFailures' = JudgeRetries THEN "given_up" ELSE "asking"
      BY <1>0, <2>1 DEF Spent
    <2> QED BY <2>1, <2>2, <2>4, CallKeeps
  <1> QED BY <1>1, <1>2, <1>3, <1>4, <1>5, <1>6 DEF VerifierNext

\* Whatever a judge's endpoint answers, and whatever room it is given: none of the ways of
\* failing uses up the retries of another, and room is only asked for where it helps.
THEOREM ModesKeepTheirBudgets == VerifierSpec => []EachModeItsBudget
  <1>1. VerifierSpec => []VerifierInv
    BY VerifierStarts, VerifierSteps, PTL DEF VerifierSpec
  <1> QED BY <1>1, VerifierSafe, PTL

-----------------------------------------------------------------------------
(***************************************************************************)
(* The artifacts. Once the runner is through only the refresher writes     *)
(* results; if they are newer than the verdicts it wrote them after those, *)
(* so whatever it still holds of older ones has been overwritten or is not *)
(* written any more: it reads them again on the way to the summary. The    *)
(* judge knows its own verdicts.                                           *)
(***************************************************************************)
Stages == {"idle", "scan", "rows", "write", "results", "read", "summary"}

ResultsAfterVerdicts == late /\ "results" \in after["verdicts"]

RefreshInv ==
  /\ writing \in [Writers -> Stages] /\ forced \in BOOLEAN /\ ran \in BOOLEAN /\ late \in BOOLEAN
  /\ after = [s \in Sources |-> after[s]] /\ seen = [s \in Sources |-> seen[s]]
  /\ late => ran
  /\ ran => writing["runner"] = "idle"
  /\ writing["judge"] \in {"idle", "results", "read", "summary"}
  /\ writing["judge"] = "read" => "judge" \in seen["verdicts"]
  /\ ResultsAfterVerdicts /\ writing["watch"] = "read" => "watch" \in seen["verdicts"]
  /\ ResultsAfterVerdicts /\ writing["watch"] \notin {"results", "read"} => "summary" \in seen["verdicts"]

LEMMA RefreshStarts == RefreshInit => RefreshInv
  BY DEF RefreshInit, RefreshInv, ResultsAfterVerdicts, Writers, Stages

LEMMA RefreshSafe == RefreshInv => VerdictsReachSummary
  <1> SUFFICES ASSUME RefreshInv, LeftAlone, late
               PROVE  "summary" \in seen["verdicts"]
    BY DEF VerdictsReachSummary
  <1>1. "results" \in after["verdicts"] /\ writing["watch"] = "idle"
    BY DEF LeftAlone, ArtifactsAreCurrent, Artifacts, Sources, Writers
  <1> QED BY <1>1 DEF RefreshInv, ResultsAfterVerdicts

\* Who goes from where to where, and nobody else.
LEMMA StepsTo ==
  ASSUME RefreshInv, NEW w \in Writers, NEW from \in Stages, NEW to \in Stages, Steps(w, from, to)
  PROVE  /\ writing' \in [Writers -> Stages] /\ writing[w] = from /\ writing'[w] = to
         /\ \A v \in Writers \ {w} : writing'[v] = writing[v]
  BY DEF RefreshInv, Steps

LEMMA TraceRefreshed == RefreshInv /\ (WriteTrace \/ WriteRow) => RefreshInv'
  BY DEF RefreshInv, ResultsAfterVerdicts, WriteTrace, WriteRow, Renew, Sources

LEMMA RunRefreshed == RefreshInv /\ EndRun => RefreshInv'
  <1> SUFFICES ASSUME RefreshInv, EndRun
               PROVE  RefreshInv'
    OBVIOUS
  <1>1. /\ ~ran /\ Steps("runner", "idle", "results") /\ UNCHANGED <<forced, ran, late>>
        /\ after' = [s \in Sources |-> after[s] \cup {"results"}]
        /\ seen' = [s \in Sources |-> seen[s] \cup {"results"}]
    BY DEF EndRun, Puts
  <1>2. /\ writing' \in [Writers -> Stages]
        /\ writing'["judge"] = writing["judge"] /\ writing'["watch"] = writing["watch"]
    BY <1>1, StepsTo DEF Writers, Stages
  <1>3. ~late' /\ ~ran'
    BY <1>1 DEF RefreshInv
  <1> QED BY <1>1, <1>2, <1>3 DEF RefreshInv, ResultsAfterVerdicts, Sources

LEMMA VerdictsRefreshed == RefreshInv /\ WriteVerdicts => RefreshInv'
  <1> SUFFICES ASSUME RefreshInv, WriteVerdicts
               PROVE  RefreshInv'
    OBVIOUS
  <1>1. /\ Steps("judge", "idle", "results") /\ UNCHANGED <<forced, ran>> /\ late' = ran
        /\ after' = [after EXCEPT !["verdicts"] = {}] /\ seen' = [seen EXCEPT !["verdicts"] = {}]
    BY DEF WriteVerdicts, Renew
  <1>2. /\ writing' \in [Writers -> Stages] /\ writing'["judge"] = "results"
        /\ writing'["runner"] = writing["runner"]
    BY <1>1, StepsTo DEF Writers, Stages
  <1>3. ~ResultsAfterVerdicts'
    BY <1>1 DEF RefreshInv, ResultsAfterVerdicts, Sources
  <1> QED BY <1>1, <1>2, <1>3 DEF RefreshInv, Sources

LEMMA CycleRefreshed ==
  RefreshInv /\ (BeginRefresh \/ ScanTraces \/ FindNoTraces \/ LoadRows) => RefreshInv'
  <1> SUFFICES ASSUME RefreshInv, BeginRefresh \/ ScanTraces \/ FindNoTraces \/ LoadRows
               PROVE  RefreshInv'
    OBVIOUS
  <1>1. /\ UNCHANGED <<after, forced, ran, late>> /\ seen'["verdicts"] = seen["verdicts"]
        /\ seen' = [s \in Sources |-> seen'[s]]
    BY DEF RefreshInv, BeginRefresh, ScanTraces, FindNoTraces, LoadRows, Reads, Sources
  <1>2. PICK from \in Stages \ {"results", "read"}, to \in Stages \ {"read"} : Steps("watch", from, to)
    BY DEF BeginRefresh, ScanTraces, FindNoTraces, LoadRows, Stages
  <1>3. /\ writing' \in [Writers -> Stages] /\ writing["watch"] = from /\ writing'["watch"] = to
        /\ writing'["judge"] = writing["judge"] /\ writing'["runner"] = writing["runner"]
    BY <1>2, StepsTo DEF Writers
  <1> QED BY <1>1, <1>2, <1>3 DEF RefreshInv, ResultsAfterVerdicts

LEMMA ResultsRefreshed == RefreshInv /\ WriteResults => RefreshInv'
  <1> SUFFICES ASSUME RefreshInv, WriteResults
               PROVE  RefreshInv'
    OBVIOUS
  <1>1. /\ Steps("watch", "write", "results") /\ UNCHANGED <<forced, ran, late>>
        /\ after' = [s \in Sources |-> after[s] \cup {"results"}]
        /\ seen' = Copies({"traces", "rows"}, "watch", "results")
    BY DEF WriteResults, Puts
  <1>2. seen'["verdicts"] = seen["verdicts"] /\ seen' = [s \in Sources |-> seen'[s]]
    BY <1>1 DEF Copies, Sources
  <1>3. /\ writing' \in [Writers -> Stages] /\ writing'["watch"] = "results"
        /\ writing'["judge"] = writing["judge"] /\ writing'["runner"] = writing["runner"]
    BY <1>1, StepsTo DEF Writers, Stages
  <1> QED BY <1>1, <1>2, <1>3 DEF RefreshInv, Sources

LEMMA StatsRefreshed ==
  ASSUME RefreshInv, NEW w \in Writers, ReadStats(w)
  PROVE  RefreshInv'
  <1>1. /\ Steps(w, "results", "read") /\ UNCHANGED <<after, forced, ran, late>>
        /\ seen' = [Copies({"traces", "rows"}, "results", w) EXCEPT !["verdicts"] = @ \cup {w}]
    BY DEF ReadStats
  <1>2. seen'["verdicts"] = seen["verdicts"] \cup {w} /\ seen' = [s \in Sources |-> seen'[s]]
    BY <1>1 DEF Copies, Sources
  <1>3. /\ writing' \in [Writers -> Stages] /\ writing[w] = "results" /\ writing'[w] = "read"
        /\ \A v \in Writers \ {w} : writing'[v] = writing[v]
    BY <1>1, StepsTo DEF Stages
  <1> QED BY <1>1, <1>2, <1>3 DEF RefreshInv, ResultsAfterVerdicts, Writers

LEMMA SummaryRefreshed ==
  ASSUME RefreshInv, NEW w \in Writers, WriteDashboard(w)
  PROVE  RefreshInv'
  <1>1. /\ Steps(w, "read", "summary") /\ UNCHANGED <<forced, ran, late>>
        /\ after' = [s \in Sources |-> after[s] \cup {"summary"}]
        /\ seen' = Copies(Sources, w, "summary")
    BY DEF WriteDashboard, Puts
  <1>2. /\ seen' = [s \in Sources |-> seen'[s]] /\ after'["verdicts"] = after["verdicts"] \cup {"summary"}
        /\ after' = [s \in Sources |-> after'[s]]
        /\ "judge" \in seen'["verdicts"] <=> "judge" \in seen["verdicts"]
        /\ "watch" \in seen'["verdicts"] <=> "watch" \in seen["verdicts"]
        /\ "summary" \in seen'["verdicts"] <=> w \in seen["verdicts"]
    BY <1>1 DEF Copies, Sources
  <1>3. /\ writing' \in [Writers -> Stages] /\ writing[w] = "read" /\ writing'[w] = "summary"
        /\ \A v \in Writers \ {w} : writing'[v] = writing[v]
    BY <1>1, StepsTo DEF Stages
  <1>4. ResultsAfterVerdicts' => ResultsAfterVerdicts /\ w # "runner"
    BY <1>1, <1>2, <1>3 DEF RefreshInv, ResultsAfterVerdicts
  <1>5. ResultsAfterVerdicts' => w \in seen["verdicts"]
    BY <1>3, <1>4 DEF RefreshInv, Writers
  <1> QED BY <1>1, <1>2, <1>3, <1>4, <1>5 DEF RefreshInv, Writers

LEMMA CountsRefreshed ==
  ASSUME RefreshInv, NEW w \in Writers, WriteCounts(w)
  PROVE  RefreshInv'
  <1>1. /\ Steps(w, "summary", "idle") /\ UNCHANGED <<forced, late>> /\ ran' = (ran \/ w = "runner")
        /\ after' = [s \in Sources |-> after[s] \cup {"counts"}]
        /\ seen' = [Forgotten(w) EXCEPT !["traces"] = @ \cup {"counts"}]
    BY DEF WriteCounts, Puts
  <1>2. /\ seen' = [s \in Sources |-> seen'[s]] /\ after'["verdicts"] = after["verdicts"] \cup {"counts"}
        /\ after' = [s \in Sources |-> after'[s]] /\ seen'["verdicts"] = seen["verdicts"] \ {w}
    BY <1>1 DEF Forgotten, Sources
  <1>3. /\ writing' \in [Writers -> Stages] /\ writing[w] = "summary" /\ writing'[w] = "idle"
        /\ \A v \in Writers \ {w} : writing'[v] = writing[v]
    BY <1>1, StepsTo DEF Stages
  <1>4. ran' \in BOOLEAN /\ (ran' <=> ran \/ w = "runner")
    BY <1>1
  <1> QED BY <1>1, <1>2, <1>3, <1>4 DEF RefreshInv, ResultsAfterVerdicts, Writers

LEMMA StopRefreshed ==
  ASSUME RefreshInv, NEW w \in Writers, StopWriter(w)
  PROVE  RefreshInv'
  <1>1. /\ w # "runner" /\ UNCHANGED <<after, forced, ran>>
        /\ writing' = [writing EXCEPT ![w] = "idle"] /\ seen' = Forgotten(w)
    BY DEF StopWriter
  <1>2. late' \in BOOLEAN /\ (late' <=> late /\ w = "judge")
    BY DEF StopWriter
  <1>3. seen' = [s \in Sources |-> seen'[s]] /\ seen'["verdicts"] = seen["verdicts"] \ {w}
    BY <1>1 DEF Forgotten, Sources
  <1>4. /\ writing' \in [Writers -> Stages] /\ writing'[w] = "idle"
        /\ \A v \in Writers \ {w} : writing'[v] = writing[v]
    BY <1>1 DEF RefreshInv, Stages
  <1> QED BY <1>1, <1>2, <1>3, <1>4 DEF RefreshInv, ResultsAfterVerdicts, Writers

LEMMA RefreshSteps == RefreshInv /\ [RefreshNext]_refreshVars => RefreshInv'
  <1> SUFFICES ASSUME RefreshInv, [RefreshNext]_refreshVars
               PROVE  RefreshInv'
    OBVIOUS
  <1>1. CASE UNCHANGED refreshVars
    BY <1>1 DEF refreshVars, RefreshInv, ResultsAfterVerdicts
  <1> QED BY <1>1, TraceRefreshed, RunRefreshed, VerdictsRefreshed, CycleRefreshed, ResultsRefreshed,
             StatsRefreshed, SummaryRefreshed, CountsRefreshed, StopRefreshed DEF RefreshNext

\* VerdictsReachSummary however a pass of the judge and the refresher overlap: the summary
\* of a directory that is left alone knows the last verdicts
\* (refresh_dashboard_artifacts.py, write_dashboard_artifacts).
THEOREM VerdictsAlwaysReach == RefreshSpec => []VerdictsReachSummary
  BY RefreshStarts, RefreshSteps, RefreshSafe, PTL DEF RefreshSpec
=============================================================================
