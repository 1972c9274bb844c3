----------------------------- MODULE MCWebSearch -----------------------------
(***************************************************************************)
(* Small instances for TLC of the web-search orchestrator, the searches it *)
(* makes, and of what comes before and after its runs: the boundary of a   *)
(* forecast and its export, one verdict, the trials of WideSearch, the     *)
(* artifacts of a run.  A behaviour is about one of them, of the           *)
(* orchestrator about one level, an attempt or the series of attempts, and *)
(* the others stand still.                                                 *)
(***************************************************************************)
EXTENDS WebSearchAttempt, AttemptProvenance, WideSearch, LlmVerifier, DashboardRefresh, SearchTool,
  ForecastTime, ForecastExport

\* A ceiling above and one below the room that is given first or at least.
SomeRooms == {[first |-> f, ceiling |-> c] : f \in {2, 256, 2048}, c \in {64, 1024}}

\* The rollbacks of an attempt: none, or a late storm of duplicates.
SomeStorms == {<<>>, <<[reason |-> "duplicate_query", turn |-> 1], [reason |-> "duplicate_query", turn |-> 2]>>}

Says(box, confidence) == [box |-> box, says |-> confidence]
LiveCall(tool, ok, stamped, blank) == [tool |-> tool, ok |-> ok, stamped |-> stamped, blank |-> blank]

Attempt(hidden, last, output, stored, given) ==
  [hidden |-> hidden, visible |-> <<last>>, output |-> output, stored |-> stored, calls |-> given]

\* What was screened, and a page that was not.
Checked == <<LiveCall("page", FALSE, FALSE, TRUE), LiveCall("search", TRUE, TRUE, FALSE), LiveCall("page", TRUE, TRUE, FALSE)>>
Unchecked == <<LiveCall("page", TRUE, FALSE, FALSE)>>

\* Each kind of last message; and two attempts: a guess that was rejected, and an answer
\* recovered where the last message has none.
Plainly(last) == <<Attempt(<<Says("word", 60)>>, last, "format_error", "format_error", Checked)>>
Twice(last) ==
  <<Attempt(<<>>, Says("number", 80), "format_error", "number", Unchecked),
    Attempt(<<Says("number", 80)>>, last, "word", "format_error", Checked)>>
SomeRollouts ==
  {Plainly(last) : last \in {Says("word", 60), Says("refusal", 60), Says("appended", -1), Says("spaced", 150),
                             Says("number", -1), Silence}}
  \cup {Twice(Says("none", 90))}

\* The second repetition only makes this one, and keeps its traces.
PlainRepetition == lost[2] = {} /\ \A q \in Questions : rollout[2][q] \in {<<>>, Twice(Says("none", 90))}

VARIABLE level \* the part that moves; never changes

webVars == <<level, attemptVars, retryVars, recordVars, wideVars, verifierVars, refreshVars, searchVars, forecastVars, exportVars>>

AttemptIdle ==
  /\ attemptPolicy = [skip |-> FALSE, recover |-> FALSE, context |-> "plain"]
  /\ chat = InitialChat(FALSE) /\ loopStep = StepOf(InitialChat(FALSE))
  /\ usedQueries = {} /\ toolCalls = 0 /\ lastSummary = 0 /\ asked = 0
  /\ discard = [resets |-> 0, lastTurn |-> NeverReset, lastAttempt |-> FALSE, high |-> FALSE]
  /\ verdict = "model_error"

\* What the entries tell does not depend on these options.
PlainOptions == ~options.verifies /\ ~options.summarizes /\ ~options.asksAgain

\* Nor on which of the answers it was.
OneAnswer ==
  LET answer == CHOOSE a \in Answers : TRUE
  IN  {result.output, boxed} \cup {submitted[b] : b \in Budgets} \subseteq {answer, FormatError, NoAnswer, Unset}

\* Two storms in one series tell nothing that one, in any of the attempts, does not.
OneStorm == Cardinality({i \in DOMAIN suffered : suffered[i] # <<>>}) <= 1

RetryIdle == RetryInit /\ PlainOptions /\ ~options.sweep

\* The others start as they may where they move, and in one way elsewhere.
AroundInit ==
  /\ WideInit
  /\ VerifierInit /\ (level # "verdict" => rooms = CHOOSE r \in JudgeRooms : TRUE)
  /\ RefreshInit /\ (level # "artifacts" => forced)
  /\ SearchInit /\ (level # "search" => bounded /\ policy = {})
  /\ ForecastInit
  /\ level # "forecast" =>
       /\ declared = [policy |-> "absent", delta |-> NotGiven, observed |-> NotGiven, override |-> NotGiven]
       /\ rows = [r \in Rows |-> [start |-> NotGiven, end |-> NotGiven]]
  /\ ExportInit
  /\ \A q \in Questions : IF level = "export" THEN question[q].dataset = "dated" \/ question[q] = [type |-> "BINARY", dataset |-> "undated"]
                                ELSE question[q] = [type |-> "BINARY", dataset |-> "dated"]

WebInit ==
  /\ level \in {"attempt", "task", "provenance", "wide", "verdict", "artifacts", "search", "forecast", "export"}
  /\ IF level = "attempt" THEN AttemptInit ELSE AttemptIdle
  /\ CASE level = "task" -> RetryInit
       [] level = "provenance" -> RetryInit /\ PlainOptions
       [] OTHER -> RetryIdle
  /\ RecordInit /\ recorded = (level = "provenance")
  /\ AroundInit

\* The part of the given name moves, every other stands still.
Alone(moving) ==
  /\ level = moving /\ UNCHANGED level
  /\ moving # "attempt" => UNCHANGED attemptVars
  /\ moving \notin {"task", "provenance"} => UNCHANGED retryVars
  /\ moving # "provenance" => UNCHANGED recordVars
  /\ moving # "wide" => UNCHANGED wideVars
  /\ moving # "verdict" => UNCHANGED verifierVars
  /\ moving # "artifacts" => UNCHANGED refreshVars
  /\ moving # "search" => UNCHANGED searchVars
  /\ moving # "forecast" => UNCHANGED forecastVars
  /\ moving # "export" => UNCHANGED exportVars

AttemptPass == Alone("attempt") /\ LoopPass

WebNext ==
  \/ Alone("attempt") /\ AttemptNext
  \/ Alone("task") /\ RetryNext
  \/ Alone("provenance") /\ ProvenanceNext /\ OneAnswer' /\ OneStorm'
  \/ Alone("wide") /\ WideNext
  \/ Alone("verdict") /\ VerifierNext
  \/ Alone("artifacts") /\ RefreshNext
  \/ Alone("search") /\ SearchNext
  \/ Alone("forecast") /\ ForecastNext
  \/ Alone("export") /\ ExportNext /\ PlainRepetition'

\* Weak fairness of AttemptPass. Of the steps of WebNext it is those that move an attempt
\* and leave its policy alone, which costs TLC less to see in a step than LoopPass itself.
AttemptGoesOn ==
  []<>~(ENABLED <<AttemptPass>>_webVars) \/ []<><<level = "attempt" /\ UNCHANGED attemptPolicy>>_webVars

WebSpec == WebInit /\ [][WebNext]_webVars /\ AttemptGoesOn
=============================================================================
