--------------------------- MODULE ForecastExport ---------------------------
(***************************************************************************)
(* From the last message of a forecasting agent to the directory another   *)
(* program scores.  A rollout makes attempts, each with a trace of its     *)
(* own; what it submits is read from the last one (forecast_submission.py, *)
(* evaluate_benchmark.py), or from the last trace of a run that was        *)
(* resumed.  A trace is on disk when the writer thread has got to it: this *)
(* runner flushes none before.  The export (export_galaxy_run_dir.py) may  *)
(* be made at any time, from all that is on disk and can be read: one line *)
(* per task out of the rows, and a notebook of what its tools returned out *)
(* of the traces.                                                          *)
(*                                                                         *)
(* An answer is the kind of text it is; probabilities are percent.  How    *)
(* the boundary of a question is derived is ForecastTime's, which traces   *)
(* stand for a task after a death is BenchmarkRun's.                       *)
(***************************************************************************)
EXTENDS Integers, Sequences, FiniteSets, SequencesExt

CONSTANTS
  Questions,   \* the tasks of the run
  Repetitions, \* how many run directories, in the order of their paths
  Rollouts,    \* what the attempts of a rollout may say and call
  MaxTraces,   \* how many attempts a rollout may make
  MaxDeaths    \* bound on the deaths of the repetitions

TaskTypes == {"BINARY", "NUMERIC", "FILL_IN"}
Silence == [box |-> "blank", says |-> -1]   \* says: the Confidence line, -1 without one
Messages == [box : STRING, says : Int]
ToolCalls == [tool : STRING, ok : BOOLEAN, stamped : BOOLEAN, blank : BOOLEAN]

\* An attempt returns an output and has stored one in its trace: they differ where the
\* orchestrator decides after the trace is finished.
Attempts == [hidden : Seq(Messages), visible : Seq(Messages), output : STRING, stored : STRING, calls : Seq(ToolCalls)]

\* A trace that is not there or cannot be parsed: readers pass over it either way.
Unreadable == [hidden |-> <<>>, visible |-> <<>>, output |-> "", stored |-> "", calls |-> <<>>]

ASSUME ExportAssumption ==
  /\ Repetitions \in Nat \ {0} /\ MaxTraces \in Nat \ {0} /\ MaxDeaths \in Nat
  /\ \A attempts \in Rollouts :
       /\ attempts \in Seq(Attempts) /\ Len(attempts) \in 1..MaxTraces
       /\ \A n \in DOMAIN attempts : attempts[n].visible # <<>>

VARIABLES
  question, \* [Questions -> [type, dataset]]: "absent" from it, "undated" or "dated"; never changes
  rollout,  \* [Runs -> [Questions -> attempts]], of the newest rollout; <<>> before the first
  ended,    \* [Runs -> [Questions -> how many of them have ended]]
  made,     \* [Runs -> [Questions -> SUBSET attempts]]: those begun in any rollout
  running,  \* [Runs -> the questions being worked on]
  queue,    \* [Runs -> sequence of <<question, attempt>>]: the writer thread's
  lost,     \* [Runs -> SUBSET of them]: ended, and will not be written
  disk,     \* [Runs -> [Questions -> [1..MaxTraces -> the trace of an attempt]]]
  held,     \* [Runs -> results: the rows in memory]
  table,    \* [Runs -> benchmark_results.jsonl], <<>> while there is none
  deaths

traceVars == <<queue, lost, disk>>
exportVars == <<question, rollout, ended, made, running, traceVars, held, table, deaths>>

Runs == 1..Repetitions

-----------------------------------------------------------------------------
(***************************************************************************)
(* What a message submits.                                                 *)
(***************************************************************************)
\* _last_assistant_text: of what is visible, or else of all there ever was.
LastText(attempt) ==
  LET Spoken(messages) == SelectSeq(messages, LAMBDA m : m.box # "blank")
      seen == Spoken(attempt.visible)
      spoken == Spoken(attempt.hidden \o attempt.visible)
  IN  IF seen # <<>> THEN seen[Len(seen)]
      ELSE IF spoken # <<>> THEN spoken[Len(spoken)]
      ELSE Silence

\* normalize_boxed_answer; and extract_boxed_content, which knows non-answers.
Bare(answer) == IF answer = "spaced" THEN "word" ELSE answer
Boxed(message) == IF message.box \in {"blank", "none", "unknown"} THEN "" ELSE message.box

\* The answer read: the box, or what the orchestrator returned.  Its message that there
\* is no box has a box in it.
AnswerRead(attempt) ==
  LET boxed == Boxed(LastText(attempt))
      found == IF boxed = "" THEN attempt.output ELSE boxed
  IN  IF found = "format_error" THEN "wrapped" ELSE Bare(found)

Accepted(answer, probability) ==
  [output |-> answer, probability |-> probability, raw |-> answer, rawProbability |-> probability,
   violation |-> FALSE, reason |-> "none", failed |-> FALSE]
Refused(reason, raw, rawProbability, violation) ==
  [output |-> "", probability |-> -1, raw |-> raw, rawProbability |-> rawProbability,
   violation |-> violation, reason |-> reason, failed |-> FALSE]

\* A row that only says that its rollout raised.
RaisedRow == [Accepted("", -1) EXCEPT !.failed = TRUE]

InRange(probability) == probability > 0 /\ probability <= 100

\* parse_forecast_submission.
Parse(attempt, type) ==
  LET answer == AnswerRead(attempt)
      says == LastText(attempt).says
  IN  IF answer = "" THEN Refused("submission_has_no_answer", "", -1, FALSE)
      ELSE IF answer \in {"wrapped", "refusal"} THEN Refused("no_valid_submission", answer, -1, TRUE)
      ELSE IF type = "NUMERIC" THEN
        IF answer = "number" THEN Accepted(answer, -1) ELSE Refused("prediction_not_a_number", answer, -1, FALSE)
      ELSE IF answer = "appended" THEN Refused("no_valid_submission", answer, -1, TRUE)
      ELSE IF type = "FILL_IN" THEN Accepted(answer, -1)
      ELSE IF says = -1 THEN Refused("probability_missing", answer, -1, FALSE)
      ELSE IF ~InRange(says) THEN Refused("probability_out_of_range", answer, says, FALSE)
      ELSE Accepted(answer, says)

-----------------------------------------------------------------------------
(***************************************************************************)
(* Repetitions of the run.                                                 *)
(***************************************************************************)
ExportInit ==
  /\ question \in [Questions -> [type : TaskTypes, dataset : {"absent", "undated", "dated"}]]
  /\ rollout = [r \in Runs |-> [q \in Questions |-> <<>>]] /\ ended = [r \in Runs |-> [q \in Questions |-> 0]]
  /\ made = [r \in Runs |-> [q \in Questions |-> {}]] /\ running = [r \in Runs |-> {}]
  /\ queue = [r \in Runs |-> <<>>] /\ lost = [r \in Runs |-> {}]
  /\ disk = [r \in Runs |-> [q \in Questions |-> [n \in 1..MaxTraces |-> Unreadable]]]
  /\ held = [r \in Runs |-> <<>>] /\ table = [r \in Runs |-> <<>>]
  /\ deaths = 0

HasRow(rows, q) == \E i \in DOMAIN rows : rows[i].task = q
Undecided(r, q) == table[r] = <<>> /\ q \notin running[r] /\ ~HasRow(held[r], q)

\* A rollout starts.  Traces of an earlier one stay until its own are written over them.
StartRollout(r, q, attempts) ==
  /\ Undecided(r, q)
  /\ rollout' = [rollout EXCEPT ![r][q] = attempts] /\ ended' = [ended EXCEPT ![r][q] = 0]
  /\ made' = [made EXCEPT ![r][q] = @ \cup {attempts[1]}]
  /\ running' = [running EXCEPT ![r] = @ \cup {q}]
  /\ lost' = [lost EXCEPT ![r] = {x \in @ : x[1] # q}]
  /\ UNCHANGED <<question, queue, disk, held, table, deaths>>

\* An attempt ends, its trace waits for the writer, and the next begins if there is one.
EndAttempt(r, q) ==
  LET n == ended[r][q] + 1 IN
  /\ q \in running[r] /\ n <= Len(rollout[r][q])
  /\ ended' = [ended EXCEPT ![r][q] = n]
  /\ queue' = [queue EXCEPT ![r] = Append(@, <<q, n>>)]
  /\ made' = [made EXCEPT ![r][q] = @ \cup {rollout[r][q][m] : m \in {n + 1} \cap DOMAIN rollout[r][q]}]
  /\ UNCHANGED <<question, rollout, running, lost, disk, held, table, deaths>>

\* The writer opens the file of its next trace, which empties it, ...
OpenTrace(r) ==
  /\ queue[r] # <<>>
  /\ LET q == Head(queue[r])[1] n == Head(queue[r])[2] IN
       /\ disk[r][q][n] # Unreadable
       /\ disk' = [disk EXCEPT ![r][q][n] = Unreadable]
  /\ UNCHANGED <<question, rollout, ended, made, running, queue, lost, held, table, deaths>>

\* ... and has written it.
SaveTrace(r) ==
  /\ queue[r] # <<>> /\ queue' = [queue EXCEPT ![r] = Tail(@)]
  /\ LET q == Head(queue[r])[1] n == Head(queue[r])[2] IN
       /\ disk[r][q][n] = Unreadable
       /\ disk' = [disk EXCEPT ![r][q][n] = rollout[r][q][n]]
  /\ UNCHANGED <<question, rollout, ended, made, running, lost, held, table, deaths>>

\* An error of the writer is noted, and its trace is not written.
LoseTrace(r) ==
  /\ queue[r] # <<>> /\ queue' = [queue EXCEPT ![r] = Tail(@)]
  /\ lost' = [lost EXCEPT ![r] = @ \cup {Head(queue[r])}]
  /\ UNCHANGED <<question, rollout, ended, made, running, disk, held, table, deaths>>

RecordedWith(r, q, submission) == [held EXCEPT ![r] = Append(@, [task |-> q, submission |-> submission])]

\* _score_and_record_forecast, when a rollout ends.
RecordForecast(r, q) ==
  /\ q \in running[r] /\ ended[r][q] = Len(rollout[r][q])
  /\ running' = [running EXCEPT ![r] = @ \ {q}]
  /\ held' = RecordedWith(r, q, Parse(rollout[r][q][ended[r][q]], question[q].type))
  /\ UNCHANGED <<question, rollout, ended, made, traceVars, table, deaths>>

\* The same for a task whose last trace that can be read is taken for its result.
RecordFound(r, q) ==
  /\ Undecided(r, q)
  /\ \E n \in 1..MaxTraces :
       /\ disk[r][q][n] # Unreadable /\ \A m \in (n + 1)..MaxTraces : disk[r][q][m] = Unreadable
       /\ held' = RecordedWith(r, q, Parse([disk[r][q][n] EXCEPT !.output = disk[r][q][n].stored], question[q].type))
  /\ UNCHANGED <<question, rollout, ended, made, running, traceVars, table, deaths>>

\* The rollout raises: its row has an error and nothing about a submission.
RecordFailure(r, q) ==
  /\ q \in running[r]
  /\ running' = [running EXCEPT ![r] = @ \ {q}]
  /\ held' = RecordedWith(r, q, RaisedRow)
  /\ UNCHANGED <<question, rollout, ended, made, traceVars, table, deaths>>

\* The rows are written when the logger has been closed, which waits for the writer.
WriteTable(r) ==
  /\ table[r] = <<>> /\ queue[r] = <<>> /\ \A q \in Questions : HasRow(held[r], q)
  /\ table' = [table EXCEPT ![r] = held[r]]
  /\ UNCHANGED <<question, rollout, ended, made, running, traceVars, held, deaths>>

\* The process dies, and with it the rows and traces it had not written.
RepetitionDies(r) ==
  /\ deaths < MaxDeaths /\ table[r] = <<>>
  /\ deaths' = deaths + 1
  /\ running' = [running EXCEPT ![r] = {}] /\ held' = [held EXCEPT ![r] = <<>>]
  /\ lost' = [lost EXCEPT ![r] = @ \cup ToSet(queue[r])] /\ queue' = [queue EXCEPT ![r] = <<>>]
  /\ UNCHANGED <<question, rollout, ended, made, disk, table>>

ExportNext ==
  \E r \in Runs :
    \/ \E q \in Questions :
         \/ \E attempts \in Rollouts : StartRollout(r, q, attempts)
         \/ EndAttempt(r, q)
         \/ RecordForecast(r, q)
         \/ RecordFound(r, q)
         \/ RecordFailure(r, q)
    \/ OpenTrace(r)
    \/ SaveTrace(r)
    \/ LoseTrace(r)
    \/ WriteTable(r)
    \/ RepetitionDies(r)

ExportSpec == ExportInit /\ [][ExportNext]_exportVars

-----------------------------------------------------------------------------
(***************************************************************************)
(* The export.  It changes nothing that is read again, so it is what it    *)
(* would write in the state in which it is made.                           *)
(***************************************************************************)
Tabled == {q \in Questions : \E r \in Runs : HasRow(table[r], q)}

\* _load_results: the row in the last file, by path, that has one.
NewestRun(q) == CHOOSE r \in Runs : HasRow(table[r], q) /\ \A s \in Runs : HasRow(table[s], q) => s <= r
NewestRow(q) == LET rows == table[NewestRun(q)] IN rows[CHOOSE i \in DOMAIN rows : rows[i].task = q].submission

\* Defect in the operator below: what the contract refuses is forwarded like the rest.
FieldsForwarded(s) ==
  [prediction |-> Bare(IF s.output # "" THEN s.output ELSE s.raw),
   probability |-> IF s.probability # -1 THEN s.probability ELSE s.rawProbability]

\* _submission_fields.
Fields(s) ==
  IF s.violation THEN [prediction |-> "", probability |-> -1]
  ELSE [prediction |-> Bare(IF s.output # "" THEN s.output ELSE s.raw),
        probability |-> IF s.probability # -1 THEN s.probability ELSE s.rawProbability]

\* build_summary_row.
SummaryRow(q) ==
  LET s == NewestRow(q) IN [fields |-> Fields(s), usable |-> s.reason = "none", failed |-> s.failed]

\* export_notebooks: the ordinal of a call counts the successful ones of its trace.
Ordinal(calls, i) == Cardinality({j \in 1..i : calls[j].ok})
Live(call) == call.ok /\ call.tool \in {"search", "page"}

\* Defect in the operator below: only searches are audited.
UnstampedSearch(call) == Live(call) /\ ~call.stamped /\ call.tool = "search"

Unstamped(call) == Live(call) /\ ~call.stamped /\ (call.tool = "page" => ~call.blank)
Mirrored(call) == Live(call) /\ IF call.tool = "search" THEN call.stamped ELSE ~call.blank
PacketsOf(calls) ==
  LET kept == {i \in DOMAIN calls : Mirrored(calls[i])}
      Names == {<<Ordinal(calls, i), calls[i].tool>> : i \in kept}
  IN  [name \in Names |-> calls[CHOOSE i \in kept : <<Ordinal(calls, i), calls[i].tool>> = name]]

\* The traces of a task in the order of their paths.
TracesOf(q) == FlattenSeq([r \in Runs |-> [n \in 1..MaxTraces |-> disk[r][q][n].calls]])

\* The files of one trace are written over those of the traces before it.
Notebook(q) ==
  LET packets == [n \in DOMAIN TracesOf(q) |-> PacketsOf(TracesOf(q)[n])]
      Names == UNION {DOMAIN packets[n] : n \in DOMAIN packets}
  IN  [name \in Names |-> packets[Max({n \in DOMAIN packets : name \in DOMAIN packets[n]})][name]]

\* Only whether there are any matters, in whichever trace.
CallsRead(q) == UNION {ToSet(disk[r][q][n].calls) : r \in Runs, n \in 1..MaxTraces}
UnstampedOf(q) == {call \in CallsRead(q) : Unstamped(call)}

\* export_run, with or without --emit-notebook, and main's verdict on it.
Export(notebooks) ==
  LET known == {q \in Tabled : question[q].dataset # "absent"}
      dated == {q \in known : question[q].dataset = "dated"}
      read == IF notebooks THEN dated ELSE {}
  IN  [lines |-> [q \in dated |-> SummaryRow(q)], missing |-> Tabled \ known,
       notebook |-> [q \in read |-> Notebook(q)],
       failed |-> known # dated \/ \E q \in read : UnstampedOf(q) # {}]

-----------------------------------------------------------------------------
(***************************************************************************)
(* Properties, of every state in which an export may be made.              *)
(***************************************************************************)

\* What is submitted for a task was said in one attempt of its newest complete
\* repetition: the probability by its last message, the answer by the same one or, where
\* that has none, by what the orchestrator recovered.  Nothing is submitted that the
\* contract refuses, a complete submission is marked so, and one that is not is not, but
\* for a failure.
Submits(line, attempt, type) ==
  LET last == LastText(attempt)
      answer == line.fields.prediction
      probability == line.fields.probability
      binary == type = "BINARY"
  IN  /\ answer \notin {"wrapped", "refusal", "spaced"} /\ (answer = "appended" => type = "NUMERIC")
      /\ line.failed => answer = "" /\ probability = -1
      /\ answer # "" => IF Boxed(last) # "" THEN answer = Bare(Boxed(last))
                        ELSE answer \in {Bare(attempt.output), Bare(attempt.stored)}
      /\ probability # -1 => binary /\ probability = last.says
      /\ ~line.failed =>
           line.usable = (/\ answer # ""
                          /\ binary => InRange(probability)
                          /\ type = "NUMERIC" => answer = "number")

SubmittedAsSaid ==
  LET lines == Export(FALSE).lines IN
  \A q \in DOMAIN lines : \E attempt \in made[NewestRun(q)][q] : Submits(lines[q], attempt, question[q].type)

\* Every packet of a notebook is a result that an attempt at its task was given and, for
\* a search, was screened.  An export with notebooks is only reported as sound if all
\* that the live tools returned had been screened in every attempt of the newest rollouts
\* of its tasks, whichever the repetition, except in attempts still under way and in
\* those whose trace is yet to be written or was lost, by the writer or with its process.
Noticed(r, q) == {n \in 1..ended[r][q] : <<q, n>> \notin ToSet(queue[r]) \cup lost[r]}

ScreenedNotebook(export, q) ==
  /\ \A name \in DOMAIN export.notebook[q] :
       LET call == export.notebook[q][name] IN
         /\ call.ok /\ ~(call.tool = "page" /\ call.blank)
         /\ call.tool = "search" => call.stamped
         /\ \E r \in Runs : \E attempt \in made[r][q] : Contains(attempt.calls, call)
  /\ ~export.failed => \A r \in Runs : \A n \in Noticed(r, q) : \A i \in DOMAIN rollout[r][q][n].calls :
       LET call == rollout[r][q][n].calls[i] IN
         Live(call) /\ (call.tool = "search" \/ ~call.blank) => call.stamped

NotebooksScreened == LET export == Export(TRUE) IN \A q \in DOMAIN export.notebook : ScreenedNotebook(export, q)
=============================================================================
