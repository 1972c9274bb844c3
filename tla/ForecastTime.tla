----------------------------- MODULE ForecastTime -----------------------------
(***************************************************************************)
(* The information boundary of a forecast: resolved for every row before   *)
(* any task starts and again for each task                                 *)
(* (recipe/web_search/runners/evaluate_benchmark.py), from the row and the *)
(* run's declaration (agentic/temporal/window.py), and what it makes of a *)
(* search request (provider.py) and of the dates of a source.              *)
(*                                                                         *)
(* Days are numbered; a value that was not given is NotGiven, one that is  *)
(* not a calendar day, or a negative horizon, Unclear.                     *)
(***************************************************************************)
EXTENDS Integers, FiniteSets, FiniteSetsExt

CONSTANTS
  Rows,      \* the questions of the dataset
  LastDay    \* the days are 1..LastDay

\* No question has the identifier that stands for "no source yet".
ASSUME ForecastAssumption == LastDay \in Nat \ {0} /\ "none" \notin Rows

Days == 1..LastDay
NotGiven == -100
Unclear == -200
Given == Days \cup {NotGiven, Unclear}

VARIABLES
  stage,    \* where the run is
  declared, \* temporal_policy, delta_days, observation_time, cutoff_override
  rows,     \* start_time and end_time of the questions
  window,   \* per row the window of its task
  source    \* the dates of a source that a task has come to, and its status

forecastVars == <<stage, declared, rows, window, source>>

Declarations == [policy : {"absent", "strict", "disabled_control"}, delta : {0, 1, NotGiven, Unclear},
             observed : Given, override : Given]

Failure == [cut |-> Unclear]
NoWindow == [cut |-> NotGiven]
NoSource == [row |-> "none"]

-----------------------------------------------------------------------------
(***************************************************************************)
(* resolve_forecast_time                                                   *)
(***************************************************************************)
\* forecast_time, before and after it is clamped to the day the question existed.
Derived(row) == IF row.end \in Days /\ declared.delta \in Nat THEN row.end - declared.delta ELSE NotGiven
ForecastDay(row) ==
  IF Derived(row) # NotGiven /\ row.start \in Days /\ Derived(row) < row.start THEN row.start ELSE Derived(row)

\* What is checked whatever the policy, and what only the strict one needs.
Malformed(row) ==
  \/ Unclear \in {row.start, row.end, declared.delta}
  \/ declared.observed = Unclear
Undetermined(row) ==
  \/ declared.observed = NotGiven \/ declared.override = Unclear
  \/ declared.override = NotGiven /\ ForecastDay(row) = NotGiven

Window(row, cut) ==
  [cut |-> cut, forecast |-> ForecastDay(row),
   effective |-> IF ForecastDay(row) = NotGiven THEN NotGiven ELSE row.end - ForecastDay(row)]

\* Defect in the operator below: on the forecast day itself nothing is cut.
ResolvedLate(row) ==
  IF Malformed(row) \/ (declared.policy = "strict" /\ Undetermined(row)) THEN Failure
  ELSE IF declared.policy = "disabled_control" THEN Window(row, NotGiven)
  ELSE IF declared.override # NotGiven THEN Window(row, declared.override)
  ELSE IF declared.observed <= ForecastDay(row) THEN Window(row, NotGiven)
  ELSE Window(row, ForecastDay(row))

Resolved(row) ==
  IF Malformed(row) \/ (declared.policy = "strict" /\ Undetermined(row)) THEN Failure
  ELSE IF declared.policy = "disabled_control" THEN Window(row, NotGiven)
  ELSE IF declared.override # NotGiven THEN Window(row, declared.override)
  ELSE IF declared.observed < ForecastDay(row) THEN Window(row, NotGiven)
  ELSE Window(row, ForecastDay(row))

\* _forecast_boundary_for
Boundary(r) == IF declared.policy = "absent" THEN NoWindow ELSE Resolved(rows[r])

ForecastInit ==
  /\ stage = "configured" /\ declared \in Declarations
  /\ rows \in [Rows -> [start : Given, end : Given]]
  /\ window = [r \in Rows |-> NoWindow] /\ source = NoSource

\* _validate_all_boundaries: one row that fails keeps every task from starting.
ValidateBoundaries ==
  /\ stage = "configured"
  /\ stage' = IF \E r \in Rows : Boundary(r) = Failure THEN "refused" ELSE "running"
  /\ UNCHANGED <<declared, rows, window, source>>

\* A task starts, with tools of its own for its boundary.
StartForecast(r) ==
  /\ stage = "running" /\ window[r] = NoWindow
  /\ window' = [window EXCEPT ![r] = Boundary(r)]
  /\ UNCHANGED <<stage, declared, rows, source>>

-----------------------------------------------------------------------------
\* parse_source_interval: a day, a month, a year.
Spans == {s \in [first : Days, last : Days] : s.first <= s.last}

\* classify_date_status
DateStatus(span, cut) ==
  IF cut = NotGiven THEN "unknown"
  ELSE IF span.first >= cut THEN "after_cut"
  ELSE IF span.last < cut THEN "known_before"
  ELSE "unknown"

\* mapping_date_status: of several dates the strongest claim wins.
SourceStatus(spans, cut) ==
  LET claims == {DateStatus(s, cut) : s \in spans}
  IN  IF "after_cut" \in claims THEN "after_cut"
      ELSE IF "known_before" \in claims THEN "known_before"
      ELSE "unknown"

\* compile_provider_time_filter: the last day that the provider is asked for.
ProviderEnd(cut) == IF cut = NotGiven THEN LastDay ELSE cut - 1

\* global_exclusive_cutoff_utc, in hours: where the earliest zone enters the day.
CutHour(cut) == 24 * cut - 14
DayIn(hour, zone) == (hour + zone) \div 24

\* A source that the provider has published by the time of observation.
MeetSource(r, spans) ==
  /\ window[r] # NoWindow /\ source = NoSource
  /\ declared.observed \in Days => \A s \in spans : s.first <= declared.observed
  /\ source' = [row |-> r, spans |-> spans, status |-> SourceStatus(spans, window[r].cut)]
  /\ UNCHANGED <<stage, declared, rows, window>>

ForecastNext ==
  \/ ValidateBoundaries
  \/ \E r \in Rows : StartForecast(r)
  \/ \E r \in Rows : \E spans \in kSubset(1, Spans) \cup kSubset(2, Spans) \cup {{}} : MeetSource(r, spans)

ForecastSpec == ForecastInit /\ [][ForecastNext]_forecastVars

-----------------------------------------------------------------------------
(***************************************************************************)
(* Properties.                                                             *)
(***************************************************************************)

\* A backtest: a boundary that is derived, of a question posed before it resolved.
Backtest(r) ==
  declared.policy = "strict" /\ declared.override = NotGiven /\ rows[r].start <= rows[r].end

\* "the forecast cannot be made after the outcome is known" (temporal/window.py): whatever
\* the horizon and the clamp, a source with a date on or after the day the question
\* resolved is never shown in a backtest (without a boundary none exists yet), the
\* provider is asked for no such day, and what came before the boundary's instant is of an
\* earlier day in every zone.
OutcomeUnknown ==
  \A r \in Rows : window[r] # NoWindow /\ Backtest(r) =>
    /\ source.row = r /\ (\E s \in source.spans : s.first >= rows[r].end) => source.status = "after_cut"
    /\ window[r].cut # NotGiven =>
         /\ ProviderEnd(window[r].cut) < rows[r].end
         /\ \A zone \in -12..14 : DayIn(CutHour(window[r].cut) - 1, zone) < window[r].cut
=============================================================================
