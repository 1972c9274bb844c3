------------------------------ MODULE MCServices ------------------------------
(***************************************************************************)
(* Small instances for TLC of the parts that serve the orchestrator, side  *)
(* by side: one run checks the tool manager, the benchmark run, the screen *)
(* for an information boundary, the page tool, the extraction in chunks,   *)
(* how a table is cut into them, its cache and the code sandbox, of which  *)
(* one moves in a behaviour and the others stand still.                    *)
(***************************************************************************)
EXTENDS MCToolManager, BenchmarkRun, EvidenceScreen, ExtractionCache, MCPageTool, MCPageExtraction,
        PageTable, CodeSandbox

CONSTANTS plain, dated

\* A search in one process and a page in another.
TwoProcesses == [c \in Calls |-> IF c = "search" THEN "p1" ELSE "p2"]
BothChannels == [c \in Calls |-> c]
TwoCardsOnePage == [c \in Calls |-> IF c = "search" THEN 2 ELSE 1]

\* The budget of a search is the hard cap, that of a page is past it.
BudgetsAroundTheCap == [channel \in {"search", "page"} |-> IF channel = "search" THEN HardCap ELSE HardCap + 1]

\* A text that names no day and one that names two, a listing before the earlier of the
\* two boundaries; publishers that state the first of the two days, or up to it.
DaysNamed == [t \in Texts |-> IF t = dated THEN {2, 3} ELSE {}]
DayOrSpan == {[first |-> 2, last |-> 2], [first |-> 1, last |-> 2]}

\* Two threads of one process, and another process.
TwoRunners == [c \in Extractions |-> IF c = "e3" THEN "p2" ELSE "p1"]

\* Four lines: blank, short, with room in a request but for their end, or longer than it,
\* asked for or not, and one that is not like the header.
LineKinds ==
  [size : {1, 2, 3}, aligned : {TRUE}, asked : BOOLEAN]
    \cup {[size |-> 0, aligned |-> FALSE, asked |-> FALSE], [size |-> 1, aligned |-> FALSE, asked |-> FALSE]}
FourLines == [1..4 -> LineKinds]

VARIABLE subject \* the part that moves; never changes

parts == <<toolVars, benchVars, screenVars, cacheVars, pageVars, extractionVars, tableVars, sandboxVars>>

\* Parts that have several initial states have them only where they move.
MCInit ==
  /\ Init /\ BenchmarkInit /\ ScreenInit /\ CacheInit /\ PageInit /\ ExtractionInit /\ SandboxInit
  /\ subject \in {"tools", "benchmark", "screen", "cache", "page", "extraction", "table", "sandbox"}
  /\ sweeping => subject = "benchmark"
  /\ subject # "page" => backend = "jina"
  /\ subject # "extraction" => strategy = "single" /\ page = <<0, 1, 2, 3, 0, 0>>
  /\ subject # "table" => named = FALSE /\ sheet = CHOOSE t \in Tables : TRUE
  /\ TableInit

\* The part of the given name moves, every other stands still.
Alone(moving) ==
  /\ subject = moving
  /\ moving # "tools" => UNCHANGED toolVars
  /\ moving # "benchmark" => UNCHANGED benchVars
  /\ moving # "screen" => UNCHANGED screenVars
  /\ moving # "cache" => UNCHANGED cacheVars
  /\ moving # "page" => UNCHANGED pageVars
  /\ moving # "extraction" => UNCHANGED extractionVars
  /\ moving # "table" => UNCHANGED tableVars
  /\ moving # "sandbox" => UNCHANGED sandboxVars

MCNext ==
  /\ UNCHANGED subject
  /\ \/ Alone("tools") /\ Next
     \/ Alone("benchmark") /\ BenchmarkNext
     \/ Alone("screen") /\ ScreenNext
     \/ Alone("cache") /\ CacheNext
     \/ Alone("page") /\ PageNext
     \/ Alone("extraction") /\ ExtractionNext
     \/ Alone("table") /\ TableNext
     \/ Alone("sandbox") /\ SandboxNext

MCSpec == MCInit /\ [][MCNext]_<<parts, subject>>
=============================================================================
