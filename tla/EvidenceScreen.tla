---------------------------- MODULE EvidenceScreen ----------------------------
(***************************************************************************)
(* The as-of screen of the forecasting recipe (agentic/tools/as_of): what  *)
(* a search or a page brings back is cut into units, and a task with an    *)
(* information boundary is only shown those that three gates let through.  *)
(* The last gate asks a model when a passage became knowable; its verdicts *)
(* are kept on disk and in each process's memory, and serve tasks with     *)
(* other boundaries as well.  Several calls are screened at once, in       *)
(* several processes.                                                      *)
(*                                                                         *)
(* A day is a number.  A text is what it says of days and nothing else.    *)
(***************************************************************************)
EXTENDS Integers, FiniteSets, Sequences

CONSTANTS
  Calls,             \* tool calls that are screened
  ProcessOf,         \* the process of each
  ChannelOf,         \* "search" or "page"
  Boundaries,        \* boundaries (T_cut) the tasks may have
  Texts,             \* texts a unit may have
  Mentions,          \* for each text the days it names
  StatedDates,       \* dates a publisher may state, from a first day to a last
  MaxUnits,          \* units per call, at most, for each call
  KnowableDays,      \* days the judge may say a passage became knowable
  ListingSize,       \* _LONG_LINE_SERIES_DATE_THRESHOLD
  SuspicionBudget,   \* judge_budget of each channel: pages have a number of their own
  HardCap,           \* _judge_hard_cap_per_call, which only looks at that of a search
  JudgeEnabled       \* judge_enabled

ASSUME ScreenAssumption ==
  /\ Boundaries \subseteq Nat /\ Mentions \in [Texts -> SUBSET Nat]
  /\ StatedDates \subseteq [first : Nat, last : Nat]
  /\ ChannelOf \in [Calls -> {"search", "page"}]
  /\ MaxUnits \in [Calls -> Nat] /\ KnowableDays \subseteq Nat
  /\ SuspicionBudget \in [{"search", "page"} -> Int]
  /\ {ListingSize, HardCap} \subseteq Nat /\ JudgeEnabled \in BOOLEAN

VARIABLES
  stored,    \* the verdict in the file of each text, or Unjudged
  memory,    \* the verdicts in the memory of each process
  given,     \* history: the verdicts the judge has given of each text
  screening  \* per call

screenVars == <<stored, memory, given, screening>>

Processes == {ProcessOf[c] : c \in Calls}

\* A passage that settles nothing was always knowable; one that settles something that
\* cannot be dated counts as late.
NothingSettled == -1
Undatable == -2
Unjudged == -3
Verdicts == KnowableDays \cup {NothingSettled, Undatable}

Undated == [first |-> 0, last |-> 0]

Unit(text, stated) == [text |-> text, stated |-> stated]
Units == {Unit(text, stated) : text \in Texts, stated \in StatedDates \cup {Undated}}

NoScreening == [at |-> "idle", cut |-> 0, units |-> <<>>, gates |-> <<>>, routed |-> {}]

-----------------------------------------------------------------------------
(***************************************************************************)
(* The gates.                                                              *)
(***************************************************************************)

\* mentions_late_date
LateDays(text, cut) == {d \in Mentions[text] : d >= cut}
MentionsLate(text, cut) == LateDays(text, cut) # {}

\* is_after_cut: the whole interval the publisher states is past the boundary.
IsAfterCut(unit, cut) == unit.stated # Undated /\ unit.stated.first >= cut

\* carries_post_cutoff_listing, asked of search cards only.
IsLateListing(unit, cut, channel) ==
  channel = "search" /\ Cardinality(LateDays(unit.text, cut)) >= ListingSize

\* needs_judgement: a page is never vouched for by its stated date.
NeedsJudgement(unit, cut, channel) ==
  \/ MentionsLate(unit.text, cut)
  \/ channel # "search"
  \/ unit.stated = Undated \/ unit.stated.last >= cut

\* _blocks
Blocks(verdict, cut) ==
  CASE verdict = NothingSettled -> FALSE
    [] verdict = Undatable -> TRUE
    [] OTHER -> verdict >= cut

\* _partition: where each unit goes before the judge is asked.
Sorted(units, cut, channel) ==
  [i \in DOMAIN units |->
     IF IsAfterCut(units[i], cut) THEN "provider_date"
     ELSE IF IsLateListing(units[i], cut, channel) THEN "structured"
     ELSE IF ~NeedsJudgement(units[i], cut, channel) THEN "kept"
     ELSE IF MentionsLate(units[i].text, cut) THEN "must_judge" ELSE "may_judge"]

Waiting(sorted, kind) == {i \in DOMAIN sorted : sorted[i] = kind}
Place(sorted, i) == Cardinality({j \in Waiting(sorted, sorted[i]) : j <= i})

\* Defect in the operator below: what the judge has no room for is kept whatever it says.
OverflowKept(sorted, i) == "kept"

\* Suspicion that was never examined is kept, a late date that was not is blocked.
Overflow(sorted, i) == IF sorted[i] = "must_judge" THEN "judge_overflow" ELSE "kept"

\* Late dates outrank suspicion and use up its budget, whether they fit under the cap or not.
Room(sorted, kind, channel) ==
  IF kind = "must_judge" THEN HardCap
  ELSE LET left == SuspicionBudget[channel] - Cardinality(Waiting(sorted, "must_judge")) IN IF left > 0 THEN left ELSE 0

\* What screen_units does before it asks: a unit goes to the judge, or its gate is known.
Routed(sorted, channel) ==
  [i \in DOMAIN sorted |->
     IF sorted[i] \notin {"must_judge", "may_judge"} THEN sorted[i]
     ELSE IF ~JudgeEnabled THEN "kept"
     ELSE IF Place(sorted, i) <= Room(sorted, sorted[i], channel) THEN "routed" ELSE Overflow(sorted, i)]

\* The gates once the verdicts are in; a unit without one is blocked.
Settled(this, verdicts) ==
  [i \in DOMAIN this.gates |->
     IF this.gates[i] # "routed" THEN this.gates[i]
     ELSE LET verdict == verdicts[this.units[i].text]
          IN  IF verdict = Unjudged THEN "judge_unavailable"
              ELSE IF Blocks(verdict, this.cut) THEN "judge" ELSE "kept"]

-----------------------------------------------------------------------------
(***************************************************************************)
(* The verdict cache and the calls.                                        *)
(***************************************************************************)
ScreenInit ==
  /\ stored = [text \in Texts |-> Unjudged]
  /\ memory = [p \in Processes |-> [text \in Texts |-> Unjudged]]
  /\ given = [text \in Texts |-> {}]
  /\ screening = [c \in Calls |-> NoScreening]

\* VerdictCache.get: memory first, then the disk.
Remembered(p) == [text \in Texts |-> IF memory[p][text] # Unjudged THEN memory[p][text] ELSE stored[text]]

\* The screening once the cache was asked: what it does not have waits for the judge.
LookedUp(this, hits) ==
  LET missing == {text \in this.routed : hits[text] = Unjudged}
      waits(i) == this.gates[i] = "routed" /\ this.units[i].text \in missing
      settled == Settled(this, hits)
  IN  [at |-> IF missing = {} THEN "done" ELSE "judging", cut |-> this.cut, units |-> this.units,
       gates |-> [i \in DOMAIN this.gates |-> IF waits(i) THEN "routed" ELSE settled[i]], routed |-> missing]

\* screen_units up to the judge, and to its end if nothing is missing.
BeginScreen(c) ==
  /\ screening[c].at = "idle"
  /\ \E cut \in Boundaries, length \in 1..MaxUnits[c] : \E units \in [1..length -> Units] :
       LET gates == Routed(Sorted(units, cut, ChannelOf[c]), ChannelOf[c])
           looked == {units[i].text : i \in {j \in DOMAIN units : gates[j] = "routed"}}
           hits == Remembered(ProcessOf[c])
           this == [at |-> "judging", cut |-> cut, units |-> units, gates |-> gates, routed |-> looked]
       IN  /\ memory' = [memory EXCEPT ![ProcessOf[c]] = [text \in Texts |-> IF text \in looked THEN hits[text] ELSE @[text]]]
           /\ screening' = [screening EXCEPT ![c] = LookedUp(this, hits)]
  /\ UNCHANGED <<stored, given>>

\* VerdictCache.put: the day itself, whatever the boundary.
Recorded(verdict, cut) == verdict

\* judge_units: batches are halved until the judge answers, so that any of the units may
\* be left without a verdict.  What it answers is put in the cache; a write may fail.
JudgeAnswers(c) ==
  /\ screening[c].at = "judging"
  /\ \E answered \in SUBSET screening[c].routed, unwritten \in SUBSET screening[c].routed :
       /\ unwritten \subseteq answered
       /\ \E verdicts \in [answered -> Verdicts] :
            LET p == ProcessOf[c]
                known == [text \in Texts |-> IF text \in answered THEN verdicts[text] ELSE Unjudged]
                kept(text) == Recorded(verdicts[text], screening[c].cut)
            IN  /\ given' = [text \in Texts |-> IF text \in answered THEN given[text] \cup {verdicts[text]} ELSE given[text]]
                /\ memory' = [memory EXCEPT ![p] = [text \in Texts |-> IF text \in answered THEN kept(text) ELSE @[text]]]
                /\ stored' = [text \in Texts |-> IF text \in answered \ unwritten THEN kept(text) ELSE stored[text]]
                /\ screening' = [screening EXCEPT ![c].at = "done", ![c].gates = Settled(screening[c], known)]

\* A process ends and another takes its place; its memory is gone, the files are not.
Restart(p) ==
  /\ \A c \in Calls : ProcessOf[c] = p => screening[c].at # "judging"
  /\ memory' = [memory EXCEPT ![p] = [text \in Texts |-> Unjudged]]
  /\ UNCHANGED <<stored, given, screening>>

ScreenNext ==
  \/ \E c \in Calls : BeginScreen(c) \/ JudgeAnswers(c)
  \/ \E p \in Processes : Restart(p)

ScreenSpec == ScreenInit /\ [][ScreenNext]_screenVars

-----------------------------------------------------------------------------
(***************************************************************************)
(* Properties.                                                             *)
(***************************************************************************)
Shown(c) == {i \in DOMAIN screening[c].units : screening[c].gates[i] = "kept"}

\* What a task is shown is never something its publisher dates past the task's own
\* boundary, and what names a day past it is shown only after the judge has said of
\* that very text, in whichever task and process, that it was knowable before.
NothingLateShown ==
  \A c \in Calls : screening[c].at = "done" =>
    \A i \in Shown(c) :
      LET unit == screening[c].units[i]
      IN  /\ ~IsAfterCut(unit, screening[c].cut)
          /\ JudgeEnabled /\ MentionsLate(unit.text, screening[c].cut) =>
               \E verdict \in given[unit.text] : ~Blocks(verdict, screening[c].cut)

\* Nor is evidence withheld by a verdict that was made for another boundary: the judge
\* is quoted for a block only if it said so of that text.
BlocksFounded ==
  \A c \in Calls : screening[c].at = "done" =>
    \A i \in DOMAIN screening[c].units :
      screening[c].gates[i] = "judge" =>
        \E verdict \in given[screening[c].units[i].text] : Blocks(verdict, screening[c].cut)
=============================================================================
