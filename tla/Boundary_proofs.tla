--------------------------- MODULE Boundary_proofs ---------------------------
(***************************************************************************)
(* The boundary of a task, for any calendar, dataset, texts, budgets and   *)
(* processes: a backtest never meets its outcome, what a task is shown or  *)
(* refused rests on verdicts about that very text, no page tells it of a   *)
(* later day and none is cut so that a fact of it is lost, and what is     *)
(* exported of a forecast was said and screened.                           *)
(***************************************************************************)
EXTENDS ForecastTime, EvidenceScreen, ForecastExport, PageTool, PageExtraction, PageTable,
  WellFoundedInduction, TLAPS

-----------------------------------------------------------------------------
(***************************************************************************)
(* The day of the outcome.  The argument is about one row: where the       *)
(* boundary exists it is no later than the day of the outcome, and where   *)
(* it does not the run itself is before that day.                          *)
(***************************************************************************)
\* What a task's window and the status of the source it has met are derived from.
ForecastInv ==
  /\ declared \in Declarations
  /\ rows \in [Rows -> [start : Given, end : Given]]
  /\ window = [r \in Rows |-> window[r]]
  /\ stage = "running" => \A r \in Rows : Boundary(r) # Failure
  /\ \A r \in Rows : window[r] # NoWindow => window[r] = Boundary(r) /\ Boundary(r) # Failure
  /\ source # NoSource =>
       /\ source.row \in Rows /\ source.spans \subseteq Spans
       /\ declared.observed \in Days => \A s \in source.spans : s.first <= declared.observed
       /\ window[source.row] # NoWindow
       /\ source.status = SourceStatus(source.spans, window[source.row].cut)

-----------------------------------------------------------------------------
\* The window of a backtest: the boundary is at most the day of the outcome; without
\* one the run itself is before that day.
LEMMA BacktestWindow ==
  ASSUME ForecastInv, NEW r \in Rows, window[r] # NoWindow, Backtest(r)
  PROVE  /\ rows[r].end \in Days
         /\ \/ window[r].cut \in Nat /\ window[r].cut <= rows[r].end
            \/ window[r].cut = NotGiven /\ declared.observed \in Days /\ declared.observed < rows[r].end
  <1>1. Resolved(rows[r]) = window[r] /\ Resolved(rows[r]) # Failure
    BY DEF ForecastInv, Boundary, Backtest
  <1>2. ~Malformed(rows[r]) /\ ~Undetermined(rows[r])
    BY <1>1 DEF Resolved, Backtest
  <1>3. /\ rows[r].start \in Given /\ rows[r].end \in Given
        /\ declared.observed \in Given /\ declared.delta \in {0, 1, NotGiven, Unclear}
    BY DEF ForecastInv, Declarations
  <1>4. /\ declared.observed \in Days /\ rows[r].start \in Days \cup {NotGiven} /\ rows[r].end \in Days \cup {NotGiven}
        /\ ForecastDay(rows[r]) # NotGiven
    BY <1>2, <1>3 DEF Malformed, Undetermined, Backtest, Given
  <1>5. Derived(rows[r]) # NotGiven
    BY <1>4 DEF ForecastDay
  <1>6. rows[r].end \in Days /\ declared.delta \in Nat /\ Derived(rows[r]) = rows[r].end - declared.delta
    BY <1>5 DEF Derived
  <1>7. declared.delta \in {0, 1}
    BY <1>3, <1>6 DEF NotGiven, Unclear
  <1>8. rows[r].start <= rows[r].end
    BY DEF Backtest
  <1>9. ForecastDay(rows[r]) \in Nat /\ ForecastDay(rows[r]) <= rows[r].end
    BY <1>4, <1>6, <1>7, <1>8, ForecastAssumption DEF ForecastDay, Days
  <1>10. window[r] = IF declared.observed < ForecastDay(rows[r]) THEN Window(rows[r], NotGiven)
                     ELSE Window(rows[r], ForecastDay(rows[r]))
    BY <1>1, <1>2 DEF Resolved, Backtest
  <1>11. \A cut : Window(rows[r], cut).cut = cut
    BY DEF Window
  <1>12. CASE declared.observed < ForecastDay(rows[r])
    <2>1. window[r].cut = NotGiven
      BY <1>10, <1>11, <1>12
    <2> QED BY <1>4, <1>6, <1>9, <1>12, <2>1, ForecastAssumption DEF Days
  <1>13. CASE ~(declared.observed < ForecastDay(rows[r]))
    BY <1>6, <1>9, <1>10, <1>11, <1>13
  <1> QED BY <1>12, <1>13

\* A source that has a date from the boundary on is told by its status.
LEMMA LateSourceTold ==
  ASSUME NEW spans \in SUBSET Spans, NEW cut \in Nat, NEW s \in spans, s.first >= cut
  PROVE  SourceStatus(spans, cut) = "after_cut"
  <1>1. cut # NotGiven
    BY DEF NotGiven
  <1>2. DateStatus(s, cut) = "after_cut"
    BY <1>1 DEF DateStatus
  <1> QED BY <1>2 DEF SourceStatus

\* The instant that is the boundary is not before the boundary's day in any zone.
LEMMA EarlierInEveryZone ==
  ASSUME NEW cut \in Nat, NEW zone \in -12..14
  PROVE  DayIn(CutHour(cut) - 1, zone) < cut
  <1>1. DayIn(CutHour(cut) - 1, zone) = (24 * cut - 15 + zone) \div 24
    BY DEF DayIn, CutHour
  <1>2. 24 * cut - 15 + zone < 24 * cut /\ 24 * cut - 15 + zone \in Int
    OBVIOUS
  <1>3. \A n \in Int : n < 24 * cut => n \div 24 < cut
    OBVIOUS
  <1> QED BY <1>1, <1>2, <1>3

LEMMA BacktestSafe == ForecastInv => OutcomeUnknown
  <1> SUFFICES ASSUME ForecastInv, NEW r \in Rows, window[r] # NoWindow, Backtest(r)
               PROVE  /\ source.row = r /\ (\E s \in source.spans : s.first >= rows[r].end) => source.status = "after_cut"
                      /\ window[r].cut # NotGiven =>
                           /\ ProviderEnd(window[r].cut) < rows[r].end
                           /\ \A zone \in -12..14 : DayIn(CutHour(window[r].cut) - 1, zone) < window[r].cut
    BY DEF OutcomeUnknown
  <1>1. rows[r].end \in Days
    BY BacktestWindow
  <1>2. ASSUME source.row = r, NEW s \in source.spans, s.first >= rows[r].end
        PROVE  source.status = "after_cut"
    <2>1. source # NoSource
      BY <1>2, ForecastAssumption DEF NoSource
    <2>2. /\ source.spans \subseteq Spans
          /\ declared.observed \in Days => s.first <= declared.observed
          /\ source.status = SourceStatus(source.spans, window[r].cut)
      BY <1>2, <2>1 DEF ForecastInv
    <2>3. s.first \in Nat /\ rows[r].end \in Nat
      BY <1>1, <2>2, ForecastAssumption DEF Spans, Days
    <2>4. ~(declared.observed \in Days /\ declared.observed < rows[r].end)
      BY <1>2, <2>2, <2>3, ForecastAssumption DEF Days
    <2>5. window[r].cut \in Nat /\ window[r].cut <= s.first
      BY <1>2, <2>3, <2>4, BacktestWindow
    <2> QED BY <1>2, <2>2, <2>3, <2>5, LateSourceTold
  <1>3. ASSUME window[r].cut # NotGiven
        PROVE  /\ ProviderEnd(window[r].cut) < rows[r].end
               /\ \A zone \in -12..14 : DayIn(CutHour(window[r].cut) - 1, zone) < window[r].cut
    <2>1. window[r].cut \in Nat /\ window[r].cut <= rows[r].end
      BY <1>3, BacktestWindow
    <2>2. ProviderEnd(window[r].cut) = window[r].cut - 1
      BY <1>3 DEF ProviderEnd
    <2> QED BY <1>1, <2>1, <2>2, EarlierInEveryZone, ForecastAssumption DEF Days
  <1> QED BY <1>2, <1>3

-----------------------------------------------------------------------------
LEMMA ForecastStarts == ForecastInit => ForecastInv
  BY DEF ForecastInit, ForecastInv

LEMMA ForecastSteps == ForecastInv /\ [ForecastNext]_forecastVars => ForecastInv'
  <1> SUFFICES ASSUME ForecastInv, [ForecastNext]_forecastVars PROVE ForecastInv'
    OBVIOUS
  <1>1. \A r \in Rows : UNCHANGED <<declared, rows>> => (Boundary(r)' = Boundary(r))
    BY DEF Boundary, Resolved, Malformed, Undetermined, Window, ForecastDay, Derived
  <1>2. CASE ValidateBoundaries
    <2>1. UNCHANGED <<declared, rows, window, source>>
      BY <1>2 DEF ValidateBoundaries
    <2>2. stage' = "running" => \A r \in Rows : Boundary(r) # Failure
      BY <1>2 DEF ValidateBoundaries
    <2> QED BY <1>1, <2>1, <2>2 DEF ForecastInv, SourceStatus, DateStatus
  <1>3. ASSUME NEW r \in Rows, StartForecast(r) PROVE ForecastInv'
    <2>1. UNCHANGED <<stage, declared, rows, source>> /\ stage = "running" /\ window[r] = NoWindow
          /\ window' = [window EXCEPT ![r] = Boundary(r)]
      BY <1>3 DEF StartForecast
    <2>2. window' = [q \in Rows |-> window'[q]] /\ \A q \in Rows : window'[q] = IF q = r THEN Boundary(r) ELSE window[q]
      BY <2>1 DEF ForecastInv
    <2>3. source # NoSource => window'[source.row] = window[source.row]
      BY <2>1, <2>2 DEF ForecastInv
    <2>4. \A q \in Rows : window'[q] # NoWindow => window'[q] = Boundary(q) /\ Boundary(q) # Failure
      BY <2>1, <2>2 DEF ForecastInv
    <2> HIDE DEF Boundary, Failure, NoWindow, SourceStatus
    <2> QED BY <1>1, <2>1, <2>2, <2>3, <2>4 DEF ForecastInv
  <1>4. ASSUME NEW r \in Rows, NEW spans \in kSubset(1, Spans) \cup kSubset(2, Spans) \cup {{}}, MeetSource(r, spans)
        PROVE  ForecastInv'
    <2>1. /\ UNCHANGED <<stage, declared, rows, window>> /\ window[r] # NoWindow
          /\ source' = [row |-> r, spans |-> spans, status |-> SourceStatus(spans, window[r].cut)]
          /\ declared.observed \in Days => \A s \in spans : s.first <= declared.observed
      BY <1>4 DEF MeetSource
    <2>2. spans \subseteq Spans
      BY DEF kSubset
    <2> QED BY <1>1, <2>1, <2>2 DEF ForecastInv, SourceStatus, DateStatus
  <1>5. CASE UNCHANGED forecastVars
    BY <1>1, <1>5 DEF forecastVars, ForecastInv, SourceStatus, DateStatus
  <1> QED BY <1>2, <1>3, <1>4, <1>5 DEF ForecastNext

\* A source with a date on or after the day of the outcome is never taken for an earlier
\* one in a backtest, the provider is asked for no such day, and the boundary's instant
\* is right in every zone, for every calendar, dataset, horizon and day of observation.
THEOREM OutcomeStaysUnknown == ForecastSpec => []OutcomeUnknown
  <1>1. ForecastSpec => []ForecastInv
    BY ForecastStarts, ForecastSteps, PTL DEF ForecastSpec
  <1> QED BY <1>1, BacktestSafe, PTL

-----------------------------------------------------------------------------
(***************************************************************************)
(* The evidence screen.  The caches only hold what the judge has said, and *)
(* what the judge is not asked about needs no verdict.                     *)
(***************************************************************************)
Gates == {"provider_date", "structured", "kept", "routed", "judge_overflow", "judge_unavailable", "judge"}

\* A screening of n units that has begun.
Begun(n) ==
  [at : {"judging", "done"}, cut : Boundaries, units : [1..n -> Units], gates : [1..n -> Gates], routed : SUBSET Texts]

Answers == Verdicts \cup {Unjudged}

ScreenTypeOK ==
  /\ stored \in [Texts -> Answers]
  /\ memory \in [Processes -> [Texts -> Answers]]
  /\ given \in [Texts -> SUBSET Verdicts]
  /\ screening = [c \in Calls |-> screening[c]]
  /\ \A c \in Calls : screening[c].at = "idle" \/ \E n \in Nat : screening[c] \in Begun(n)

\* The caches hold what the judge has said, and nothing else.
CachesFounded ==
  \A words \in Texts :
    /\ stored[words] # Unjudged => stored[words] \in given[words]
    /\ \A p \in Processes : memory[p][words] # Unjudged => memory[p][words] \in given[words]

\* What the gate of a unit says is true, given the verdicts so far.
KeptRight(unit, cut, said) ==
  /\ ~IsAfterCut(unit, cut)
  /\ JudgeEnabled /\ MentionsLate(unit.text, cut) => \E verdict \in said[unit.text] : ~Blocks(verdict, cut)

BlockedRight(unit, cut, said) == \E verdict \in said[unit.text] : Blocks(verdict, cut)

GatesRight(this, said) ==
  \A i \in DOMAIN this.units :
    /\ this.gates[i] = "kept" => KeptRight(this.units[i], this.cut, said)
    /\ this.gates[i] = "judge" => BlockedRight(this.units[i], this.cut, said)
    /\ this.gates[i] = "routed" => ~IsAfterCut(this.units[i], this.cut) /\ this.at # "done"

ScreenInv ==
  /\ ScreenTypeOK
  /\ CachesFounded
  /\ \A c \in Calls : screening[c].at # "idle" => GatesRight(screening[c], given)

-----------------------------------------------------------------------------
LEMMA UnitText == ASSUME NEW unit \in Units PROVE unit.text \in Texts
  BY DEF Units, Unit

\* Later verdicts take nothing back.
LEMMA RightStays ==
  ASSUME NEW n \in Nat, NEW this \in Begun(n), NEW said, NEW more, GatesRight(this, said),
         \A words \in Texts : said[words] \subseteq more[words]
  PROVE  GatesRight(this, more)
  <1>1. ASSUME NEW i \in DOMAIN this.units
        PROVE  /\ this.gates[i] = "kept" => KeptRight(this.units[i], this.cut, more)
               /\ this.gates[i] = "judge" => BlockedRight(this.units[i], this.cut, more)
               /\ this.gates[i] = "routed" => ~IsAfterCut(this.units[i], this.cut) /\ this.at # "done"
    <2>1. this.units[i] \in Units
      BY DEF Begun
    <2>2. said[this.units[i].text] \subseteq more[this.units[i].text]
      BY <2>1, UnitText
    <2> HIDE DEF Units
    <2> QED BY <2>2 DEF GatesRight, KeptRight, BlockedRight
  <1> QED BY <1>1 DEF GatesRight

\* A unit that is kept without the judge names no late day, and none that the publisher
\* dates past the boundary is kept or sent to the judge.
LEMMA RoutedRight ==
  ASSUME NEW n \in Nat, NEW units \in [1..n -> Units], NEW cut \in Boundaries, NEW channel,
         NEW i \in 1..n
  PROVE  LET gate == Routed(Sorted(units, cut, channel), channel)[i]
         IN  /\ gate \in Gates /\ gate # "judge"
             /\ gate = "kept" => ~IsAfterCut(units[i], cut) /\ (JudgeEnabled => ~MentionsLate(units[i].text, cut))
             /\ gate = "routed" => ~IsAfterCut(units[i], cut)
  <1> DEFINE sorted == Sorted(units, cut, channel)
             gate == Routed(sorted, channel)[i]
             after == IsAfterCut(units[i], cut)
             late == MentionsLate(units[i].text, cut)
  <1>1. /\ sorted[i] \in {"provider_date", "structured", "kept", "must_judge", "may_judge"}
        /\ sorted[i] = "kept" => ~after /\ ~late
        /\ sorted[i] = "must_judge" => ~after
        /\ sorted[i] = "may_judge" => ~after /\ ~late
        /\ DOMAIN sorted = 1..n
    <2>1. DOMAIN sorted = 1..n
      BY DEF Sorted
    <2>2. sorted[i] = IF after THEN "provider_date"
                      ELSE IF IsLateListing(units[i], cut, channel) THEN "structured"
                      ELSE IF ~NeedsJudgement(units[i], cut, channel) THEN "kept"
                      ELSE IF late THEN "must_judge" ELSE "may_judge"
      BY DEF Sorted
    <2>3. ~NeedsJudgement(units[i], cut, channel) => ~late
      BY DEF NeedsJudgement
    <2> HIDE DEF sorted, after, late
    <2> QED BY <2>1, <2>2, <2>3
  <1>2. gate = IF sorted[i] \notin {"must_judge", "may_judge"} THEN sorted[i]
               ELSE IF ~JudgeEnabled THEN "kept"
               ELSE IF Place(sorted, i) <= Room(sorted, sorted[i], channel) THEN "routed" ELSE Overflow(sorted, i)
    BY <1>1 DEF Routed
  <1>3. Overflow(sorted, i) = IF sorted[i] = "must_judge" THEN "judge_overflow" ELSE "kept"
    BY DEF Overflow
  <1> HIDE DEF sorted, gate, after, late
  <1> DEFINE fits == Place(sorted, i) <= Room(sorted, sorted[i], channel)
  <1>4. gate = IF sorted[i] \notin {"must_judge", "may_judge"} THEN sorted[i]
               ELSE IF ~JudgeEnabled THEN "kept" ELSE IF fits THEN "routed" ELSE Overflow(sorted, i)
    BY <1>2
  <1> HIDE DEF fits
  <1>5. /\ gate \in Gates /\ gate # "judge"
        /\ gate = "kept" => ~after /\ (JudgeEnabled => ~late)
        /\ gate = "routed" => ~after
    BY <1>1, <1>3, <1>4 DEF Gates
  <1> QED BY <1>5 DEF sorted, gate, after, late

\* Verdicts that the judge has given settle gates rightly.
LEMMA SettledRight ==
  ASSUME NEW n \in Nat, NEW this, NEW verdicts, NEW said,
         this.gates \in [1..n -> Gates], this.units \in [1..n -> Units],
         \A words \in Texts : verdicts[words] # Unjudged => verdicts[words] \in said[words],
         NEW i \in 1..n,
         this.gates[i] = "kept" => KeptRight(this.units[i], this.cut, said),
         this.gates[i] = "judge" => BlockedRight(this.units[i], this.cut, said),
         this.gates[i] = "routed" => ~IsAfterCut(this.units[i], this.cut)
  PROVE  LET gate == Settled(this, verdicts)[i]
         IN  /\ gate \in Gates /\ gate # "routed"
             /\ gate = "kept" => KeptRight(this.units[i], this.cut, said)
             /\ gate = "judge" => BlockedRight(this.units[i], this.cut, said)
  <1> DEFINE gate == Settled(this, verdicts)[i]
             words == this.units[i].text
             blocks == Blocks(verdicts[words], this.cut)
  <1>1. words \in Texts
    BY UnitText
  <1>2. gate = IF this.gates[i] # "routed" THEN this.gates[i]
               ELSE IF verdicts[words] = Unjudged THEN "judge_unavailable" ELSE IF blocks THEN "judge" ELSE "kept"
    BY DEF Settled
  <1>3. CASE this.gates[i] # "routed"
    BY <1>2, <1>3
  <1>4. CASE this.gates[i] = "routed"
    <2>1. verdicts[words] # Unjudged => verdicts[words] \in said[words]
      BY <1>1
    <2>2. gate \in {"judge_unavailable", "judge", "kept"}
      BY <1>2, <1>4
    <2>3. gate = "kept" => verdicts[words] # Unjudged /\ ~blocks
      BY <1>2, <1>4
    <2>4. gate = "judge" => verdicts[words] # Unjudged /\ blocks
      BY <1>2, <1>4
    <2>5. gate = "kept" => KeptRight(this.units[i], this.cut, said)
      BY <1>4, <2>1, <2>3 DEF KeptRight
    <2>6. gate = "judge" => BlockedRight(this.units[i], this.cut, said)
      BY <2>1, <2>4 DEF BlockedRight
    <2> QED BY <2>2, <2>5, <2>6 DEF Gates
  <1> QED BY <1>3, <1>4

-----------------------------------------------------------------------------
LEMMA BeginKeeps ==
  ASSUME ScreenInv, NEW c \in Calls, BeginScreen(c)
  PROVE  ScreenInv'
  <1> USE DEF ScreenInv
  <1> DEFINE p == ProcessOf[c]
             hits == Remembered(p)
  <1>0. p \in Processes
    BY DEF Processes
  <1>1. PICK cut \in Boundaries, n \in 1..MaxUnits[c] : \E units \in [1..n -> Units] :
          LET gates == Routed(Sorted(units, cut, ChannelOf[c]), ChannelOf[c])
              looked == {units[i].text : i \in {j \in DOMAIN units : gates[j] = "routed"}}
              this == [at |-> "judging", cut |-> cut, units |-> units, gates |-> gates, routed |-> looked]
          IN  /\ memory' = [memory EXCEPT ![p] = [words \in Texts |-> IF words \in looked THEN hits[words] ELSE memory[p][words]]]
              /\ screening' = [screening EXCEPT ![c] = LookedUp(this, hits)]
    BY DEF BeginScreen
  <1>2. PICK units \in [1..n -> Units] :
          LET gates == Routed(Sorted(units, cut, ChannelOf[c]), ChannelOf[c])
              looked == {units[i].text : i \in {j \in DOMAIN units : gates[j] = "routed"}}
              this == [at |-> "judging", cut |-> cut, units |-> units, gates |-> gates, routed |-> looked]
          IN  /\ memory' = [memory EXCEPT ![p] = [words \in Texts |-> IF words \in looked THEN hits[words] ELSE memory[p][words]]]
              /\ screening' = [screening EXCEPT ![c] = LookedUp(this, hits)]
    BY <1>1
  <1> DEFINE gates == Routed(Sorted(units, cut, ChannelOf[c]), ChannelOf[c])
             looked == {units[i].text : i \in {j \in DOMAIN units : gates[j] = "routed"}}
             this == [at |-> "judging", cut |-> cut, units |-> units, gates |-> gates, routed |-> looked]
             new == LookedUp(this, hits)
  <1>3. n \in Nat
    BY ScreenAssumption
  <1>4. hits \in [Texts -> Answers] /\ \A words \in Texts : hits[words] # Unjudged => hits[words] \in given[words]
    BY <1>0 DEF Remembered, ScreenTypeOK, CachesFounded
  <1>5. \A i \in 1..n :
          /\ gates[i] \in Gates /\ gates[i] # "judge"
          /\ gates[i] = "kept" => ~IsAfterCut(units[i], cut) /\ (JudgeEnabled => ~MentionsLate(units[i].text, cut))
          /\ gates[i] = "routed" => ~IsAfterCut(units[i], cut)
    BY <1>3, RoutedRight
  <1>6. gates = [i \in 1..n |-> gates[i]]
    BY DEF Routed, Sorted
  <1>7. memory' = [memory EXCEPT ![p] = [words \in Texts |-> IF words \in looked THEN hits[words] ELSE memory[p][words]]]
        /\ screening' = [screening EXCEPT ![c] = new]
    BY <1>2
  <1> HIDE DEF hits, gates, new
  <1>8. looked \subseteq Texts
    BY <1>3, UnitText
  <1> HIDE DEF looked
  <1>9. this.gates = gates /\ this.units = units /\ this.cut = cut /\ this.routed = looked
    OBVIOUS
  <1> HIDE DEF this
  <1> DEFINE missing == {words \in looked : hits[words] = Unjudged}
             settled == Settled(this, hits)
  <1>10. new = [at |-> IF missing = {} THEN "done" ELSE "judging", cut |-> cut, units |-> units,
                gates |-> [i \in 1..n |-> IF gates[i] = "routed" /\ units[i].text \in missing THEN "routed" ELSE settled[i]],
                routed |-> missing]
    BY <1>6, <1>9 DEF new, LookedUp
  <1>11. \A i \in 1..n :
           /\ settled[i] \in Gates /\ settled[i] # "routed"
           /\ settled[i] = "kept" => KeptRight(units[i], cut, given)
           /\ settled[i] = "judge" => BlockedRight(units[i], cut, given)
    <2> TAKE i \in 1..n
    <2>1. gates \in [1..n -> Gates]
      BY <1>5, <1>6
    <2>2. gates[i] = "kept" => KeptRight(units[i], cut, given)
      BY <1>5 DEF KeptRight
    <2> QED BY <1>3, <1>4, <1>5, <1>9, <2>1, <2>2, SettledRight
  <1> HIDE DEF settled
  <1>12. new \in Begun(n)
    <2>1. missing \in SUBSET Texts
      BY <1>8
    <2>2. [i \in 1..n |-> IF gates[i] = "routed" /\ units[i].text \in missing THEN "routed" ELSE settled[i]] \in [1..n -> Gates]
      BY <1>11 DEF Gates
    <2> HIDE DEF missing
    <2> QED BY <1>10, <2>1, <2>2 DEF Begun
  <1>13. GatesRight(new, given)
    <2>1. ASSUME NEW i \in 1..n
          PROVE  /\ new.gates[i] = "kept" => KeptRight(units[i], cut, given)
                 /\ new.gates[i] = "judge" => BlockedRight(units[i], cut, given)
                 /\ new.gates[i] = "routed" => ~IsAfterCut(units[i], cut) /\ new.at # "done"
      <3>1. new.gates[i] = IF gates[i] = "routed" /\ units[i].text \in missing THEN "routed" ELSE settled[i]
        BY <1>10
      <3>2. CASE gates[i] = "routed" /\ units[i].text \in missing
        BY <1>5, <1>10, <3>1, <3>2
      <3>3. CASE ~(gates[i] = "routed" /\ units[i].text \in missing)
        BY <1>11, <3>1, <3>3
      <3> QED BY <3>2, <3>3
    <2>2. new.units = units /\ new.cut = cut /\ DOMAIN units = 1..n
      BY <1>10
    <2> QED BY <2>1, <2>2 DEF GatesRight
  <1>14. UNCHANGED <<stored, given>> /\ new.at # "idle"
    BY <1>10 DEF BeginScreen
  <1>15. screening'[c] = new /\ (\A d \in Calls \ {c} : screening'[d] = screening[d])
         /\ screening' = [d \in Calls |-> screening'[d]]
    BY <1>7 DEF ScreenTypeOK
  <1>16. memory' \in [Processes -> [Texts -> Answers]]
    BY <1>0, <1>4, <1>7 DEF ScreenTypeOK
  <1>17. ScreenTypeOK'
    BY <1>3, <1>12, <1>14, <1>15, <1>16 DEF ScreenTypeOK, Begun
  <1>18. CachesFounded'
    <2>1. \A q \in Processes, words \in Texts : memory'[q][words] = memory[q][words] \/ memory'[q][words] = hits[words]
      BY <1>0, <1>7 DEF ScreenTypeOK
    <2> QED BY <1>4, <1>14, <2>1 DEF CachesFounded
  <1> QED BY <1>13, <1>14, <1>15, <1>17, <1>18

LEMMA JudgeKeeps ==
  ASSUME ScreenInv, NEW c \in Calls, JudgeAnswers(c)
  PROVE  ScreenInv'
  <1> USE DEF ScreenInv
  <1> DEFINE p == ProcessOf[c]
             old == screening[c]
  <1>0. p \in Processes
    BY DEF Processes
  <1>1. PICK n \in Nat : old \in Begun(n)
    BY DEF ScreenTypeOK, JudgeAnswers
  <1>2. PICK answered \in SUBSET old.routed, unwritten \in SUBSET old.routed : \E verdicts \in [answered -> Verdicts] :
          LET known == [words \in Texts |-> IF words \in answered THEN verdicts[words] ELSE Unjudged]
          IN  /\ given' = [words \in Texts |-> IF words \in answered THEN given[words] \cup {verdicts[words]} ELSE given[words]]
              /\ memory' = [memory EXCEPT ![p] = [words \in Texts |-> IF words \in answered THEN verdicts[words] ELSE memory[p][words]]]
              /\ stored' = [words \in Texts |-> IF words \in answered \ unwritten THEN verdicts[words] ELSE stored[words]]
              /\ screening' = [screening EXCEPT ![c].at = "done", ![c].gates = Settled(old, known)]
    BY DEF JudgeAnswers, Recorded
  <1>3. PICK verdicts \in [answered -> Verdicts] :
          LET known == [words \in Texts |-> IF words \in answered THEN verdicts[words] ELSE Unjudged]
          IN  /\ given' = [words \in Texts |-> IF words \in answered THEN given[words] \cup {verdicts[words]} ELSE given[words]]
              /\ memory' = [memory EXCEPT ![p] = [words \in Texts |-> IF words \in answered THEN verdicts[words] ELSE memory[p][words]]]
              /\ stored' = [words \in Texts |-> IF words \in answered \ unwritten THEN verdicts[words] ELSE stored[words]]
              /\ screening' = [screening EXCEPT ![c].at = "done", ![c].gates = Settled(old, known)]
    BY <1>2
  <1> DEFINE known == [words \in Texts |-> IF words \in answered THEN verdicts[words] ELSE Unjudged]
             gates == Settled(old, known)
             new == [old EXCEPT !.at = "done", !.gates = gates]
  <1>4. /\ given' \in [Texts -> SUBSET Verdicts]
        /\ \A words \in Texts : given[words] \subseteq given'[words]
        /\ \A words \in Texts : known[words] # Unjudged => known[words] \in given'[words]
        /\ \A words \in Texts : words \in answered => verdicts[words] \in given'[words] /\ verdicts[words] \in Verdicts
    BY <1>3 DEF ScreenTypeOK
  <1>5. screening' = [screening EXCEPT ![c] = new]
    BY <1>3
  <1>6. GatesRight(old, given) /\ GatesRight(old, given')
    <2>1. old.at # "idle"
      BY <1>1 DEF Begun
    <2> QED BY <1>1, <1>4, <2>1, RightStays
  <1>7. /\ old.gates \in [1..n -> Gates] /\ old.units \in [1..n -> Units] /\ DOMAIN old.units = 1..n
        /\ gates = [i \in 1..n |-> gates[i]]
    BY <1>1 DEF Begun, Settled
  <1> HIDE DEF known
  <1>8. \A i \in 1..n :
          /\ gates[i] \in Gates /\ gates[i] # "routed"
          /\ gates[i] = "kept" => KeptRight(old.units[i], old.cut, given')
          /\ gates[i] = "judge" => BlockedRight(old.units[i], old.cut, given')
    <2> TAKE i \in 1..n
    <2>1. /\ old.gates[i] = "kept" => KeptRight(old.units[i], old.cut, given')
          /\ old.gates[i] = "judge" => BlockedRight(old.units[i], old.cut, given')
          /\ old.gates[i] = "routed" => ~IsAfterCut(old.units[i], old.cut)
      BY <1>6, <1>7 DEF GatesRight
    <2> HIDE DEF old
    <2> QED BY <1>4, <1>7, <2>1, SettledRight
  <1> HIDE DEF gates, old
  <1>9. new \in Begun(n) /\ new.at = "done" /\ new.gates = gates /\ new.units = old.units /\ new.cut = old.cut
    <2> DEFINE halfway == [old EXCEPT !.at = "done"]
    <2>1. halfway \in Begun(n) /\ halfway.at = "done" /\ halfway.units = old.units /\ halfway.cut = old.cut
      BY <1>1 DEF Begun
    <2>2. new = [halfway EXCEPT !.gates = gates]
      OBVIOUS
    <2>3. gates \in [1..n -> Gates]
      BY <1>7, <1>8
    <2> HIDE DEF halfway, new
    <2> QED BY <2>1, <2>2, <2>3 DEF Begun
  <1> HIDE DEF new
  <1>10. GatesRight(new, given')
    BY <1>7, <1>8, <1>9 DEF GatesRight
  <1>11. screening'[c] = new /\ (\A d \in Calls \ {c} : screening'[d] = screening[d])
         /\ screening' = [d \in Calls |-> screening'[d]]
    BY <1>5 DEF ScreenTypeOK
  <1>12. \A d \in Calls \ {c} : screening[d].at # "idle" => GatesRight(screening[d], given')
    BY <1>4, RightStays DEF ScreenTypeOK
  <1>13. memory' \in [Processes -> [Texts -> Answers]] /\ stored' \in [Texts -> Answers]
    <2>1. \A words \in Texts : words \in answered => verdicts[words] \in Answers
      BY <1>4 DEF Answers
    <2> DEFINE row == [words \in Texts |-> IF words \in answered THEN verdicts[words] ELSE memory[p][words]]
    <2>2. row \in [Texts -> Answers]
      BY <1>0, <2>1 DEF ScreenTypeOK
    <2>3. memory' = [memory EXCEPT ![p] = row]
      BY <1>3
    <2> HIDE DEF row
    <2>4. memory' \in [Processes -> [Texts -> Answers]]
      BY <1>0, <2>2, <2>3 DEF ScreenTypeOK
    <2>5. stored' \in [Texts -> Answers]
      BY <1>3, <2>1 DEF ScreenTypeOK
    <2> QED BY <2>4, <2>5
  <1>14. ScreenTypeOK'
    BY <1>4, <1>9, <1>11, <1>13 DEF ScreenTypeOK
  <1>15. CachesFounded'
    <2>1. \A q \in Processes, words \in Texts :
            memory'[q][words] = memory[q][words] \/ (words \in answered /\ memory'[q][words] = verdicts[words])
      BY <1>0, <1>3 DEF ScreenTypeOK
    <2>2. \A words \in Texts : stored'[words] = stored[words] \/ (words \in answered /\ stored'[words] = verdicts[words])
      BY <1>3
    <2> QED BY <1>4, <2>1, <2>2 DEF CachesFounded
  <1>16. \A d \in Calls : screening'[d].at # "idle" => GatesRight(screening'[d], given')
    BY <1>10, <1>11, <1>12
  <1> QED BY <1>14, <1>15, <1>16

LEMMA RestartKeeps ==
  ASSUME ScreenInv, NEW p \in Processes, Restart(p)
  PROVE  ScreenInv'
  <1> USE DEF ScreenInv
  <1>1. UNCHANGED <<stored, given, screening>> /\ memory' = [memory EXCEPT ![p] = [words \in Texts |-> Unjudged]]
    BY DEF Restart
  <1>2. ScreenTypeOK'
    BY <1>1 DEF ScreenTypeOK, Answers
  <1>3. CachesFounded'
    BY <1>1 DEF CachesFounded, ScreenTypeOK
  <1> QED BY <1>1, <1>2, <1>3

LEMMA ScreenSteps == ScreenInv /\ [ScreenNext]_screenVars => ScreenInv'
  <1> SUFFICES ASSUME ScreenInv, [ScreenNext]_screenVars PROVE ScreenInv'
    OBVIOUS
  <1>1. CASE ScreenNext
    BY <1>1, BeginKeeps, JudgeKeeps, RestartKeeps DEF ScreenNext
  <1>2. CASE UNCHANGED screenVars
    BY <1>2 DEF screenVars, ScreenInv, ScreenTypeOK, CachesFounded
  <1> QED BY <1>1, <1>2

LEMMA ScreenStarts == ScreenInit => ScreenInv
  <1> SUFFICES ASSUME ScreenInit PROVE ScreenInv
    OBVIOUS
  <1>1. \A c \in Calls : screening[c].at = "idle"
    BY DEF ScreenInit, NoScreening
  <1>2. screening = [c \in Calls |-> screening[c]]
    BY DEF ScreenInit
  <1>3. stored \in [Texts -> Answers] /\ memory \in [Processes -> [Texts -> Answers]] /\ given \in [Texts -> SUBSET Verdicts]
    BY DEF ScreenInit, Answers
  <1>4. CachesFounded
    BY DEF ScreenInit, CachesFounded
  <1> QED BY <1>1, <1>2, <1>3, <1>4 DEF ScreenInv, ScreenTypeOK

LEMMA ScreenInvariant == ScreenSpec => []ScreenInv
  BY ScreenStarts, ScreenSteps, PTL DEF ScreenSpec

\* A task is never shown what its publisher dates past its boundary, nor what names a
\* later day unless the judge has said of that text that it was knowable before.
THEOREM NothingLateIsShown == ScreenSpec => []NothingLateShown
  <1>1. ScreenInv => NothingLateShown
    BY DEF ScreenInv, GatesRight, KeptRight, NothingLateShown, Shown
  <1> QED BY <1>1, ScreenInvariant, PTL

\* The judge is quoted for a block only if it said so of that text.
THEOREM BlocksAreFounded == ScreenSpec => []BlocksFounded
  <1>1. ScreenInv => BlocksFounded
    BY DEF ScreenInv, GatesRight, BlockedRight, BlocksFounded
  <1> QED BY <1>1, ScreenInvariant, PTL

-----------------------------------------------------------------------------
(***************************************************************************)
(* What the rest needs to know of sequences and numbers.                   *)
(***************************************************************************)
LEMMA LeastNumber ==
  ASSUME NEW S \in SUBSET Nat, S # {}
  PROVE  \E k \in S : \A m \in S : k <= m
  <1>1. IsWellFoundedOn(OpToRel(<, Nat), Nat)
    BY NatLessThanWellFounded
  <1>2. PICK k \in S : \A m \in S : ~(<<m, k>> \in OpToRel(<, Nat))
    BY <1>1, WFMin
  <1>3. ASSUME NEW m \in S
        PROVE  k <= m
    <2>1. m \in Nat /\ k \in Nat /\ ~(m < k)
      BY <1>2 DEF OpToRel
    <2> QED BY <2>1
  <1> QED BY <1>3

\* The first i of the sequences, put end to end.
Flattened(seqs, f, m) == f = [i \in 1..m |-> IF i = 1 THEN seqs[i] ELSE f[i - 1] \o seqs[i]]

LEMMA FlattenedOnce ==
  ASSUME NEW seqs, NEW k \in Nat, NEW f, Flattened(seqs, f, k)
  PROVE  \E g : Flattened(seqs, g, k + 1)
  <1> DEFINE g == [i \in 1..(k + 1) |-> IF i = 1 THEN seqs[i] ELSE f[i - 1] \o seqs[i]]
  <1>1. \A i \in 1..k : f[i] = IF i = 1 THEN seqs[i] ELSE f[i - 1] \o seqs[i]
    BY DEF Flattened
  <1>2. \A i \in 1..k : i \in 1..(k + 1) /\ g[i] = f[i]
    BY <1>1
  <1>3. \A i \in 1..(k + 1) : i # 1 => i - 1 \in 1..k
    OBVIOUS
  <1>4. \A i \in 1..(k + 1) : i # 1 => g[i - 1] = f[i - 1]
    BY <1>2, <1>3
  <1>5. g = [i \in 1..(k + 1) |-> IF i = 1 THEN seqs[i] ELSE g[i - 1] \o seqs[i]]
    BY <1>4
  <1> QED BY <1>5 DEF Flattened

LEMMA FlattenedExists ==
  ASSUME NEW seqs, NEW n \in Nat
  PROVE  \E f : Flattened(seqs, f, n)
  <1> DEFINE missing == {m \in Nat : ~\E f : Flattened(seqs, f, m)}
  <1>1. missing # {} => \E k \in missing : \A m \in missing : k <= m
    <2>1. missing \in SUBSET Nat
      OBVIOUS
    <2> HIDE DEF missing
    <2> QED BY <2>1, LeastNumber
  <1>2. 0 \notin missing
    <2>1. Flattened(seqs, [i \in 1..0 |-> 0], 0)
      BY DEF Flattened
    <2> QED BY <2>1
  <1>3. ASSUME NEW k \in missing, \A m \in missing : k <= m
        PROVE  FALSE
    <2>1. k # 0 /\ k - 1 \in Nat /\ k = (k - 1) + 1
      BY <1>2
    <2>2. k - 1 \notin missing
      <3>1. ~(k <= k - 1)
        BY <2>1
      <3> HIDE DEF missing
      <3> QED BY <1>3, <3>1
    <2>3. PICK f : Flattened(seqs, f, k - 1)
      BY <2>1, <2>2
    <2>4. \E g : Flattened(seqs, g, k)
      BY <2>1, <2>3, FlattenedOnce
    <2> QED BY <2>4
  <1>4. n \notin missing
    BY <1>1, <1>3
  <1> QED BY <1>4

\* What is put end to end is made of what it was.
LEMMA FlattenedElements ==
  ASSUME NEW S, NEW seqs \in Seq(Seq(S)), NEW f, Flattened(seqs, f, Len(seqs))
  PROVE  \A i \in 1..Len(seqs) : f[i] \in Seq(S)
  <1> DEFINE n == Len(seqs)
             bad == {m \in Nat : m \in 1..n /\ f[m] \notin Seq(S)}
  <1>1. n \in Nat /\ \A i \in 1..n : seqs[i] \in Seq(S)
    OBVIOUS
  <1>2. bad # {} => \E k \in bad : \A m \in bad : k <= m
    <2>1. bad \in SUBSET Nat
      OBVIOUS
    <2> HIDE DEF bad
    <2> QED BY <2>1, LeastNumber
  <1>3. ASSUME NEW k \in bad, \A m \in bad : k <= m
        PROVE  FALSE
    <2>1. k \in 1..n /\ f[k] = IF k = 1 THEN seqs[k] ELSE f[k - 1] \o seqs[k]
      BY DEF Flattened
    <2>2. k # 1
      BY <1>1, <2>1
    <2>3. k - 1 \in 1..n /\ ~(k <= k - 1) /\ k - 1 \in Nat
      BY <1>1, <2>1, <2>2
    <2>4. k - 1 \notin bad
      <3> HIDE DEF bad
      <3> QED BY <1>3, <2>3
    <2>5. f[k - 1] \in Seq(S) /\ seqs[k] \in Seq(S)
      BY <1>1, <2>1, <2>3, <2>4
    <2>6. f[k - 1] \o seqs[k] \in Seq(S)
      BY <2>5
    <2> QED BY <2>1, <2>2, <2>6
  <1>4. \A i \in 1..n : i \in Nat
    BY <1>1
  <1> QED BY <1>2, <1>3, <1>4

LEMMA FlattenElements ==
  ASSUME NEW S, NEW seqs \in Seq(Seq(S))
  PROVE  FlattenSeq(seqs) \in Seq(S)
  <1> DEFINE n == Len(seqs)
             f == CHOOSE f : Flattened(seqs, f, n)
  <1>1. n \in Nat
    OBVIOUS
  <1>2. Flattened(seqs, f, n)
    BY <1>1, FlattenedExists
  <1>3. n # 0 => FlattenSeq(seqs) = f[n]
    BY DEF FlattenSeq, Flattened
  <1> HIDE DEF f
  <1>4. \A i \in 1..n : f[i] \in Seq(S)
    BY <1>2, FlattenedElements
  <1>5. CASE n = 0
    BY <1>5 DEF FlattenSeq
  <1>6. CASE n # 0
    BY <1>1, <1>3, <1>4, <1>6
  <1> QED BY <1>5, <1>6

\* Some positions have a last one.
LEMMA LastPosition ==
  ASSUME NEW n \in Nat, NEW I \in SUBSET (1..n), I # {}
  PROVE  \E x \in I : \A y \in I : y <= x
  <1> DEFINE distances == {d \in Nat : \E x \in I : d = n - x}
  <1>1. distances \in SUBSET Nat /\ distances # {}
    <2>1. PICK x \in I : TRUE
      OBVIOUS
    <2>2. n - x \in Nat
      OBVIOUS
    <2>3. n - x \in distances
      BY <2>2
    <2> QED BY <2>3
  <1>2. PICK d \in distances : \A e \in distances : d <= e
    <2> HIDE DEF distances
    <2> QED BY <1>1, LeastNumber
  <1>3. PICK x \in I : d = n - x
    OBVIOUS
  <1>4. ASSUME NEW y \in I
        PROVE  y <= x
    <2>1. n - y \in distances
      OBVIOUS
    <2>2. n - x <= n - y /\ x \in Int /\ y \in Int
      BY <1>2, <1>3, <2>1
    <2> QED BY <2>2
  <1> QED BY <1>4

-----------------------------------------------------------------------------
(***************************************************************************)
(* The export.  A row says what the contract makes of one of the attempts  *)
(* at its task, or that the rollout raised; a trace is of such an attempt; *)
(* and the trace of an attempt that has ended is there, unless it waits    *)
(* for the writer or was lost.                                             *)
(***************************************************************************)
Stored(a) == [a EXCEPT !.output = a.stored]
Readings(a, type) == {RaisedRow, Parse(a, type), Parse(Stored(a), type)}
Submissions(r, q) == UNION {Readings(a, question[q].type) : a \in made[r][q]}
RowsOf(r) == UNION {{[task |-> q, submission |-> s] : s \in Submissions(r, q)} : q \in Questions}

OverRuns(f) == f = [r \in Runs |-> f[r]]
OverTasks(f) == f = [r \in Runs |-> [q \in Questions |-> f[r][q]]]
OverTraces(f) == f = [r \in Runs |-> [q \in Questions |-> [n \in 1..MaxTraces |-> f[r][q][n]]]]
ExportShape ==
  /\ OverTasks(rollout) /\ OverTasks(ended) /\ OverTasks(made) /\ OverTraces(disk)
  /\ OverRuns(running) /\ OverRuns(queue) /\ OverRuns(lost) /\ OverRuns(held) /\ OverRuns(table)

RolloutInv(r, q) ==
  /\ rollout[r][q] \in Seq(Attempts) /\ Len(rollout[r][q]) <= MaxTraces
  /\ ended[r][q] \in 0..Len(rollout[r][q]) /\ made[r][q] \in SUBSET Attempts
  /\ \A n \in DOMAIN rollout[r][q] : n <= ended[r][q] + 1 => rollout[r][q][n] \in made[r][q]
  /\ q \in running[r] => Len(rollout[r][q]) >= 1

DiskInv(r, q) ==
  /\ \A n \in 1..MaxTraces : disk[r][q][n] \in made[r][q] \cup {Unreadable}
  /\ \A n \in Noticed(r, q) : disk[r][q][n] = rollout[r][q][n]

QueueInv(r) ==
  /\ queue[r] \in Seq(Questions \X (1..MaxTraces))
  /\ \A i \in DOMAIN queue[r] :
       /\ queue[r][i][2] <= ended[r][queue[r][i][1]]
       /\ queue[r][i][1] \in running[r] \/ HasRow(held[r], queue[r][i][1])

RowsInv(r) == held[r] \in Seq(RowsOf(r)) /\ table[r] \in Seq(RowsOf(r))

ExportInv ==
  /\ \A q \in Questions : question[q].type \in TaskTypes
  /\ ExportShape
  /\ \A r \in Runs : QueueInv(r) /\ RowsInv(r) /\ \A q \in Questions : RolloutInv(r, q) /\ DiskInv(r, q)

-----------------------------------------------------------------------------
\* What is read as an answer is bare, and comes from the box or from the orchestrator.
LEMMA AnswerIsBare ==
  ASSUME NEW attempt, AnswerRead(attempt) # "wrapped"
  PROVE  LET read == AnswerRead(attempt)
             boxed == Boxed(LastText(attempt))
         IN  /\ read # "spaced" /\ Bare(read) = read
             /\ read = Bare(IF boxed # "" THEN boxed ELSE attempt.output)
  <1> DEFINE boxed == Boxed(LastText(attempt))
             taken == IF boxed = "" THEN attempt.output ELSE boxed
  <1>1. AnswerRead(attempt) = IF taken = "format_error" THEN "wrapped" ELSE Bare(taken)
    BY DEF AnswerRead
  <1>2. AnswerRead(attempt) = Bare(taken)
    BY <1>1
  <1> HIDE DEF boxed
  <1>3. Bare(taken) # "spaced" /\ Bare(Bare(taken)) = Bare(taken)
    BY DEF Bare
  <1> QED BY <1>2, <1>3 DEF boxed

\* What is forwarded of a submission, and whether it counts.
ToldBy(attempt, type, s) ==
  LET last == LastText(attempt)
      read == Fields(s).prediction
      probability == Fields(s).probability
  IN  /\ s.failed \in BOOLEAN
      /\ read \notin {"wrapped", "refusal", "spaced"} /\ (read = "appended" => type = "NUMERIC")
      /\ s.failed => read = "" /\ probability = -1
      /\ read # "" => read = Bare(IF Boxed(last) # "" THEN Boxed(last) ELSE attempt.output)
      /\ probability # -1 => type = "BINARY" /\ probability = last.says
      /\ ~s.failed =>
           ((s.reason = "none") <=> (/\ read # ""
                                     /\ type = "BINARY" => InRange(probability)
                                     /\ type = "NUMERIC" => read = "number"))

LEMMA SubmissionHolds ==
  ASSUME NEW attempt, NEW type \in TaskTypes, NEW s \in {RaisedRow, Parse(attempt, type)}
  PROVE  ToldBy(attempt, type, s)
  <1> DEFINE last == LastText(attempt)
             origin == Bare(IF Boxed(last) # "" THEN Boxed(last) ELSE attempt.output)
  <1>1. PICK read : read = AnswerRead(attempt)
    OBVIOUS
  <1>2. PICK says : says = last.says
    OBVIOUS
  <1>3. read # "wrapped" => read # "spaced" /\ Bare(read) = read /\ read = origin
    BY <1>1, AnswerIsBare
  <1>4. Bare("") = "" /\ ~InRange(-1)
    BY DEF Bare, InRange
  <1> HIDE DEF last, origin
  <1> DEFINE Holds(prediction, probability, reason, raised) ==
               /\ raised \in BOOLEAN
               /\ prediction \notin {"wrapped", "refusal", "spaced"} /\ (prediction = "appended" => type = "NUMERIC")
               /\ raised => prediction = "" /\ probability = -1
               /\ prediction # "" => prediction = origin
               /\ probability # -1 => type = "BINARY" /\ probability = says
               /\ ~raised => ((reason = "none") <=> (/\ prediction # ""
                                                     /\ type = "BINARY" => InRange(probability)
                                                     /\ type = "NUMERIC" => prediction = "number"))
  <1>5. Holds(Fields(s).prediction, Fields(s).probability, s.reason, s.failed)
    <2>1. CASE s = RaisedRow
      <3>1. Fields(s).prediction = "" /\ Fields(s).probability = -1 /\ s.failed = TRUE
        BY <1>4, <2>1 DEF RaisedRow, Accepted, Fields
      <3> QED BY <3>1
    <2>2. CASE s = Parse(attempt, type)
      <3>0. s = IF read = "" THEN Refused("submission_has_no_answer", "", -1, FALSE)
                ELSE IF read \in {"wrapped", "refusal"} THEN Refused("no_valid_submission", read, -1, TRUE)
                ELSE IF type = "NUMERIC" THEN
                  IF read = "number" THEN Accepted(read, -1) ELSE Refused("prediction_not_a_number", read, -1, FALSE)
                ELSE IF read = "appended" THEN Refused("no_valid_submission", read, -1, TRUE)
                ELSE IF type = "FILL_IN" THEN Accepted(read, -1)
                ELSE IF says = -1 THEN Refused("probability_missing", read, -1, FALSE)
                ELSE IF ~InRange(says) THEN Refused("probability_out_of_range", read, says, FALSE)
                ELSE Accepted(read, says)
        BY <1>1, <1>2, <2>2 DEF Parse, last
      <3>1. CASE read = ""
        <4>1. Fields(s).prediction = "" /\ Fields(s).probability = -1 /\ s.failed = FALSE /\ s.reason = "submission_has_no_answer"
          BY <1>4, <3>0, <3>1 DEF Refused, Fields
        <4> QED BY <1>4, <4>1
      <3>2. CASE read # "" /\ (read \in {"wrapped", "refusal"} \/ (type # "NUMERIC" /\ read = "appended"))
        <4>1. s = Refused("no_valid_submission", read, -1, TRUE)
          BY <3>0, <3>2
        <4>2. Fields(s).prediction = "" /\ Fields(s).probability = -1 /\ s.failed = FALSE /\ s.reason = "no_valid_submission"
          BY <4>1 DEF Refused, Fields
        <4> QED BY <1>4, <4>2
      <3>3. CASE read \notin {"", "wrapped", "refusal"} /\ type = "NUMERIC" /\ read = "number"
        <4>1. s = Accepted(read, -1)
          BY <3>0, <3>3
        <4>2. Fields(s).prediction = read /\ Fields(s).probability = -1 /\ s.failed = FALSE /\ s.reason = "none"
          BY <1>3, <3>3, <4>1 DEF Accepted, Fields
        <4> QED BY <1>3, <3>3, <4>2
      <3>4. CASE read \notin {"", "wrapped", "refusal"} /\ type = "NUMERIC" /\ read # "number"
        <4>1. s = Refused("prediction_not_a_number", read, -1, FALSE)
          BY <3>0, <3>4
        <4>2. Fields(s).prediction = read /\ Fields(s).probability = -1 /\ s.failed = FALSE /\ s.reason = "prediction_not_a_number"
          BY <1>3, <3>4, <4>1 DEF Refused, Fields
        <4> QED BY <1>3, <3>4, <4>2
      <3>5. CASE read \notin {"", "wrapped", "refusal", "appended"} /\ type = "FILL_IN"
        <4>1. s = Accepted(read, -1)
          BY <3>0, <3>5
        <4>2. Fields(s).prediction = read /\ Fields(s).probability = -1 /\ s.failed = FALSE /\ s.reason = "none"
          BY <1>3, <3>5, <4>1 DEF Accepted, Fields
        <4> QED BY <1>3, <3>5, <4>2
      <3>6. CASE read \notin {"", "wrapped", "refusal", "appended"} /\ type = "BINARY"
        <4>1. s = IF says = -1 THEN Refused("probability_missing", read, -1, FALSE)
                  ELSE IF ~InRange(says) THEN Refused("probability_out_of_range", read, says, FALSE)
                  ELSE Accepted(read, says)
          BY <3>0, <3>6
        <4>2. Fields(s).prediction = read /\ Fields(s).probability = says /\ s.failed = FALSE
          BY <1>3, <3>6, <4>1 DEF Refused, Accepted, Fields
        <4>3. (s.reason = "none") <=> InRange(says)
          BY <1>4, <4>1 DEF Refused, Accepted
        <4> QED BY <1>3, <3>6, <4>2, <4>3
      <3> QED BY <3>1, <3>2, <3>3, <3>4, <3>5, <3>6 DEF TaskTypes
    <2> QED BY <2>1, <2>2
  <1> QED BY <1>2, <1>5 DEF last, origin, ToldBy

\* The newest row of a task is one of its repetition's.
LEMMA NewestRowHolds ==
  ASSUME ExportInv, NEW q \in Tabled
  PROVE  q \in Questions /\ NewestRun(q) \in Runs /\ NewestRow(q) \in Submissions(NewestRun(q), q)
  <1> DEFINE having == {r \in Runs : HasRow(table[r], q)}
  <1>1. q \in Questions /\ having # {} /\ having \in SUBSET (1..Repetitions) /\ Repetitions \in Nat
    BY ExportAssumption DEF Tabled, Runs
  <1>2. \E r \in having : \A s \in having : s <= r
    BY <1>1, LastPosition
  <1>3. NewestRun(q) \in Runs /\ HasRow(table[NewestRun(q)], q)
    <2>1. \E r \in Runs : HasRow(table[r], q) /\ \A s \in Runs : HasRow(table[s], q) => s <= r
      BY <1>2
    <2> QED BY <2>1 DEF NewestRun
  <1>4. PICK r \in Runs : r = NewestRun(q)
    BY <1>3
  <1> DEFINE published == table[r]
             i == CHOOSE i \in DOMAIN published : published[i].task = q
  <1>5. i \in DOMAIN published /\ published[i].task = q
    BY <1>3, <1>4 DEF HasRow
  <1>6. NewestRow(q) = published[i].submission
    BY <1>4 DEF NewestRow
  <1> HIDE DEF i
  <1>7. published[i] \in RowsOf(r)
    <2>1. published \in Seq(RowsOf(r))
      BY DEF ExportInv, RowsInv
    <2> QED BY <1>5, <2>1
  <1>8. PICK p \in Questions : \E s \in Submissions(r, p) : published[i] = [task |-> p, submission |-> s]
    BY <1>7 DEF RowsOf
  <1>9. PICK s \in Submissions(r, p) : published[i] = [task |-> p, submission |-> s]
    BY <1>8
  <1>10. published[i].task = p /\ published[i].submission = s
    BY <1>9
  <1> QED BY <1>1, <1>4, <1>5, <1>6, <1>10

\* A row is about one of the attempts that were made.
LEMMA RowsOfAttempts ==
  ASSUME ExportInv, NEW q \in Tabled
  PROVE  \E a \in made[NewestRun(q)][q] : Submits(SummaryRow(q), a, question[q].type)
  <1>1. q \in Questions /\ NewestRun(q) \in Runs /\ NewestRow(q) \in Submissions(NewestRun(q), q)
    BY NewestRowHolds
  <1>2. PICK r \in Runs : r = NewestRun(q)
    BY <1>1
  <1>3. PICK type \in TaskTypes : type = question[q].type
    BY <1>1 DEF ExportInv
  <1>4. PICK s : s = NewestRow(q)
    OBVIOUS
  <1>5. PICK a \in made[r][q] : s \in Readings(a, type)
    BY <1>1, <1>2, <1>3, <1>4 DEF Submissions
  <1>6. a \in Attempts
    BY <1>1, <1>2 DEF ExportInv, RolloutInv
  <1>7. /\ Stored(a).hidden = a.hidden /\ Stored(a).visible = a.visible /\ Stored(a).output = a.stored
        /\ LastText(Stored(a)) = LastText(a)
    BY <1>6 DEF Stored, Attempts, LastText
  <1>8. PICK b \in {a, Stored(a)} : s \in {RaisedRow, Parse(b, type)}
    BY <1>5 DEF Readings
  <1>9. ToldBy(b, type, s)
    BY <1>8, SubmissionHolds
  <1>10. LastText(b) = LastText(a) /\ b.output \in {a.output, a.stored}
    BY <1>7, <1>8
  <1>11. PICK usable \in BOOLEAN : usable <=> s.reason = "none"
    OBVIOUS
  <1>12. PICK raised \in BOOLEAN : raised = s.failed
    BY <1>9 DEF ToldBy
  <1>13. PICK fields : fields = Fields(s)
    OBVIOUS
  <1>14. SummaryRow(q) = [fields |-> fields, usable |-> usable, failed |-> raised]
    <2>1. (s.reason = "none") = usable
      BY <1>11
    <2> QED BY <1>4, <1>12, <1>13, <2>1 DEF SummaryRow
  <1>15. PICK line : line = SummaryRow(q)
    OBVIOUS
  <1>16. line.fields = fields /\ line.usable = usable /\ line.failed = raised
    BY <1>14, <1>15
  <1>17. PICK last : last = LastText(a)
    OBVIOUS
  <1>18. /\ fields.prediction \notin {"wrapped", "refusal", "spaced"} /\ (fields.prediction = "appended" => type = "NUMERIC")
         /\ raised => fields.prediction = "" /\ fields.probability = -1
         /\ fields.prediction # "" => fields.prediction = Bare(IF Boxed(last) # "" THEN Boxed(last) ELSE b.output)
         /\ fields.probability # -1 => type = "BINARY" /\ fields.probability = last.says
         /\ ~raised => (usable <=> (/\ fields.prediction # ""
                                    /\ type = "BINARY" => InRange(fields.probability)
                                    /\ type = "NUMERIC" => fields.prediction = "number"))
    BY <1>9, <1>10, <1>11, <1>12, <1>13, <1>17 DEF ToldBy
  <1>19. fields.prediction # "" => IF Boxed(last) # "" THEN fields.prediction = Bare(Boxed(last))
                                   ELSE fields.prediction \in {Bare(a.output), Bare(a.stored)}
    BY <1>10, <1>18
  <1>20. Submits(line, a, type) <=>
         (/\ fields.prediction \notin {"wrapped", "refusal", "spaced"} /\ (fields.prediction = "appended" => type = "NUMERIC")
          /\ raised => fields.prediction = "" /\ fields.probability = -1
          /\ fields.prediction # "" => IF Boxed(last) # "" THEN fields.prediction = Bare(Boxed(last))
                                       ELSE fields.prediction \in {Bare(a.output), Bare(a.stored)}
          /\ fields.probability # -1 => type = "BINARY" /\ fields.probability = last.says
          /\ ~raised => usable = (/\ fields.prediction # ""
                                  /\ type = "BINARY" => InRange(fields.probability)
                                  /\ type = "NUMERIC" => fields.prediction = "number"))
    BY <1>16, <1>17 DEF Submits
  <1>21. Submits(line, a, type)
    BY <1>18, <1>19, <1>20
  <1> QED BY <1>2, <1>3, <1>15, <1>21

-----------------------------------------------------------------------------
\* A packet is a call that is mirrored.
LEMMA PacketIsCall ==
  ASSUME NEW list, NEW name \in DOMAIN PacketsOf(list)
  PROVE  \E i \in DOMAIN list : PacketsOf(list)[name] = list[i] /\ Mirrored(list[i])
  <1> DEFINE kept == {i \in DOMAIN list : Mirrored(list[i])}
             NameOf(i) == <<Ordinal(list, i), list[i].tool>>
             Names == {NameOf(i) : i \in kept}
  <1>1. PacketsOf(list) = [n \in Names |-> list[CHOOSE i \in kept : NameOf(i) = n]]
    BY DEF PacketsOf
  <1>2. \E i \in kept : NameOf(i) = name
    BY <1>1
  <1> DEFINE i == CHOOSE i \in kept : NameOf(i) = name
  <1>3. i \in kept
    BY <1>2
  <1>4. PacketsOf(list)[name] = list[i]
    BY <1>1
  <1> HIDE DEF i
  <1> QED BY <1>3, <1>4

\* A trace holds the calls of an attempt, if any.
LEMMA TraceOfAttempt ==
  ASSUME ExportInv, NEW r \in Runs, NEW q \in Questions, NEW n \in 1..MaxTraces
  PROVE  /\ disk[r][q][n].calls \in Seq(ToolCalls)
         /\ disk[r][q][n].calls # <<>> => disk[r][q][n] \in made[r][q]
  <1>1. disk[r][q][n] \in made[r][q] \cup {Unreadable} /\ made[r][q] \in SUBSET Attempts
    BY DEF ExportInv, RolloutInv, DiskInv
  <1>2. Unreadable.calls = <<>>
    BY DEF Unreadable
  <1>3. CASE disk[r][q][n] = Unreadable
    <2>1. disk[r][q][n].calls = <<>>
      BY <1>2, <1>3
    <2>2. PICK calls : calls = disk[r][q][n].calls
      OBVIOUS
    <2>3. calls \in Seq(ToolCalls)
      BY <2>1, <2>2
    <2> QED BY <2>1, <2>2, <2>3
  <1>4. CASE disk[r][q][n] \in made[r][q]
    BY <1>1, <1>4 DEF Attempts
  <1> QED BY <1>1, <1>3, <1>4

\* The traces of a task that are read are those on disk.
LEMMA TracesOnDisk ==
  ASSUME ExportInv, NEW q \in Questions, NEW k \in DOMAIN TracesOf(q)
  PROVE  /\ \E r \in Runs : \E n \in 1..MaxTraces : TracesOf(q)[k] = disk[r][q][n].calls
         /\ DOMAIN TracesOf(q) = 1..Len(TracesOf(q)) /\ Len(TracesOf(q)) \in Nat
  <1> DEFINE of(r) == [n \in 1..MaxTraces |-> disk[r][q][n].calls]
             S == UNION {{disk[r][q][n].calls : n \in 1..MaxTraces} : r \in Runs}
             seqs == [r \in Runs |-> of(r)]
  <1>1. \A r \in Runs : of(r) \in Seq(S)
    <2> TAKE r \in Runs
    <2>1. \A n \in 1..MaxTraces : of(r)[n] \in S
      OBVIOUS
    <2>2. of(r) = [n \in 1..MaxTraces |-> of(r)[n]]
      OBVIOUS
    <2>3. MaxTraces \in Nat
      BY ExportAssumption
    <2> HIDE DEF S, of
    <2> QED BY <2>1, <2>2, <2>3
  <1>2. seqs \in Seq(Seq(S))
    <2>1. Repetitions \in Nat /\ Runs = 1..Repetitions
      BY ExportAssumption DEF Runs
    <2> HIDE DEF S, of
    <2> QED BY <1>1, <2>1
  <1>3. TracesOf(q) \in Seq(S)
    <2>1. TracesOf(q) = FlattenSeq(seqs)
      BY DEF TracesOf
    <2> HIDE DEF seqs, S
    <2> QED BY <1>2, <2>1, FlattenElements
  <1>4. TracesOf(q)[k] \in S /\ DOMAIN TracesOf(q) = 1..Len(TracesOf(q)) /\ Len(TracesOf(q)) \in Nat
    <2> HIDE DEF S
    <2> QED BY <1>3
  <1> QED BY <1>4

\* A file of a notebook is one of the packets of that name.
LEMMA NotebookOfPackets ==
  ASSUME ExportInv, NEW q \in Questions, NEW name \in DOMAIN Notebook(q)
  PROVE  \E n \in DOMAIN TracesOf(q) : /\ name \in DOMAIN PacketsOf(TracesOf(q)[n])
                                        /\ Notebook(q)[name] = PacketsOf(TracesOf(q)[n])[name]
  <1> DEFINE packets == [n \in DOMAIN TracesOf(q) |-> PacketsOf(TracesOf(q)[n])]
             Names == UNION {DOMAIN packets[n] : n \in DOMAIN packets}
             having == {n \in DOMAIN packets : name \in DOMAIN packets[n]}
  <1>1. /\ Notebook(q) = [m \in Names |-> packets[Max({n \in DOMAIN packets : m \in DOMAIN packets[n]})][m]]
        /\ DOMAIN packets = DOMAIN TracesOf(q)
    BY DEF Notebook
  <1>2. name \in Names
    BY <1>1
  <1>3. PICK n \in DOMAIN TracesOf(q) : name \in DOMAIN packets[n]
    BY <1>1, <1>2
  <1>4. having # {} /\ having \in SUBSET (1..Len(TracesOf(q))) /\ Len(TracesOf(q)) \in Nat
    BY <1>1, <1>3, TracesOnDisk
  <1>5. \E x \in having : \A y \in having : y <= x
    <2> HIDE DEF having
    <2> QED BY <1>4, LastPosition
  <1>6. Max(having) \in having
    <2>1. \A x, y \in having : y <= x <=> x >= y
      BY <1>4
    <2>2. \E x \in having : \A y \in having : x >= y
      BY <1>5, <2>1
    <2> HIDE DEF having
    <2> QED BY <2>2 DEF Max
  <1>7. Notebook(q)[name] = packets[Max(having)][name]
    BY <1>1, <1>2
  <1> QED BY <1>1, <1>6, <1>7

\* What an export would put into notebooks was screened, and what it says of the rest is so.
LEMMA ExportScreens ==
  ASSUME ExportInv
  PROVE  NotebooksScreened
  <1> DEFINE known == {q \in Tabled : question[q].dataset # "absent"}
             dated == {q \in known : question[q].dataset = "dated"}
             export == Export(TRUE)
  <1>1. /\ export.notebook = [q \in dated |-> Notebook(q)]
        /\ export.failed = (known # dated \/ \E q \in dated : UnstampedOf(q) # {})
    BY DEF Export
  <1> SUFFICES ASSUME NEW q \in dated
               PROVE  ScreenedNotebook(export, q)
    BY <1>1 DEF NotebooksScreened
  <1>2. q \in Questions /\ export.notebook[q] = Notebook(q) /\ (~export.failed => UnstampedOf(q) = {})
    BY <1>1 DEF Tabled
  <1> HIDE DEF export, known, dated
  <1>3. ASSUME NEW name \in DOMAIN Notebook(q)
        PROVE  LET call == Notebook(q)[name] IN
                 /\ call.ok /\ ~(call.tool = "page" /\ call.blank)
                 /\ call.tool = "search" => call.stamped
                 /\ \E r \in Runs : \E attempt \in made[r][q] : Contains(attempt.calls, call)
    <2>1. PICK k \in DOMAIN TracesOf(q) : /\ name \in DOMAIN PacketsOf(TracesOf(q)[k])
                                          /\ Notebook(q)[name] = PacketsOf(TracesOf(q)[k])[name]
      BY <1>2, NotebookOfPackets
    <2>2. PICK r \in Runs : \E n \in 1..MaxTraces : TracesOf(q)[k] = disk[r][q][n].calls
      BY <1>2, TracesOnDisk
    <2>3. PICK n \in 1..MaxTraces : TracesOf(q)[k] = disk[r][q][n].calls
      BY <2>2
    <2>4. PICK list : list = disk[r][q][n].calls
      OBVIOUS
    <2>5. PICK j \in DOMAIN list : Notebook(q)[name] = list[j] /\ Mirrored(list[j])
      BY <2>1, <2>3, <2>4, PacketIsCall
    <2>6. list \in Seq(ToolCalls) /\ (list # <<>> => disk[r][q][n] \in made[r][q])
      BY <1>2, <2>4, TraceOfAttempt
    <2>7. list # <<>>
      BY <2>5, <2>6
    <2>8. Contains(list, list[j])
      BY <2>6 DEF Contains
    <2>9. \E attempt \in made[r][q] : Contains(attempt.calls, list[j])
      BY <2>4, <2>6, <2>7, <2>8
    <2> QED BY <2>5, <2>9 DEF Mirrored, Live
  <1>4. ASSUME ~export.failed, NEW r \in Runs, NEW n \in Noticed(r, q), NEW i \in DOMAIN rollout[r][q][n].calls
        PROVE  LET call == rollout[r][q][n].calls[i] IN
                 Live(call) /\ (call.tool = "search" \/ ~call.blank) => call.stamped
    <2>1. n \in 1..MaxTraces /\ disk[r][q][n] = rollout[r][q][n]
      <3>1. RolloutInv(r, q) /\ DiskInv(r, q)
        BY <1>2 DEF ExportInv
      <3>2. ended[r][q] <= MaxTraces /\ ended[r][q] \in Nat /\ n \in 1..ended[r][q]
        BY <3>1, ExportAssumption DEF RolloutInv, Noticed
      <3> QED BY <3>1, <3>2, ExportAssumption DEF DiskInv
    <2>2. PICK call : call = rollout[r][q][n].calls[i]
      OBVIOUS
    <2>3. call \in ToSet(disk[r][q][n].calls)
      BY <2>1, <2>2 DEF ToSet
    <2>4. call \in CallsRead(q)
      BY <2>1, <2>3 DEF CallsRead
    <2>5. ~Unstamped(call)
      BY <1>2, <1>4, <2>4 DEF UnstampedOf
    <2> QED BY <2>2, <2>5 DEF Unstamped
  <1> QED BY <1>2, <1>3, <1>4 DEF ScreenedNotebook

-----------------------------------------------------------------------------
\* What changes where a function changes at one place, and that it stays one.
WithTask(f, r, q, v) == [f EXCEPT ![r][q] = v]
WithTrace(f, r, q, n, v) == [f EXCEPT ![r][q][n] = v]

LEMMA TaskChanged ==
  ASSUME NEW f, OverTasks(f), NEW r \in Runs, NEW q \in Questions, NEW v
  PROVE  /\ OverTasks(WithTask(f, r, q, v))
         /\ \A s \in Runs, p \in Questions :
              WithTask(f, r, q, v)[s][p] = IF s = r /\ p = q THEN v ELSE f[s][p]
  <1> DEFINE h == [x \in Questions |-> IF x = q THEN v ELSE f[r][x]]
             g == WithTask(f, r, q, v)
  <1>1. \A s \in Runs : f[s] = [x \in Questions |-> f[s][x]]
    BY DEF OverTasks
  <1>2. [f[r] EXCEPT ![q] = v] = h
    BY <1>1
  <1>3. g = [s \in Runs |-> IF s = r THEN h ELSE f[s]]
    BY <1>2 DEF OverTasks, WithTask
  <1>4. \A s \in Runs, p \in Questions : g[s][p] = IF s = r /\ p = q THEN v ELSE f[s][p]
    BY <1>3
  <1>5. \A s \in Runs : g[s] = [x \in Questions |-> g[s][x]]
    BY <1>1, <1>3
  <1>6. OverTasks(g)
    BY <1>3, <1>5 DEF OverTasks
  <1> QED BY <1>4, <1>6

LEMMA TraceChanged ==
  ASSUME NEW f, OverTraces(f), NEW r \in Runs, NEW q \in Questions, NEW n \in 1..MaxTraces, NEW v
  PROVE  /\ OverTraces(WithTrace(f, r, q, n, v))
         /\ \A s \in Runs, p \in Questions, m \in 1..MaxTraces :
              WithTrace(f, r, q, n, v)[s][p][m] = IF s = r /\ p = q /\ m = n THEN v ELSE f[s][p][m]
  <1> DEFINE k == [m \in 1..MaxTraces |-> IF m = n THEN v ELSE f[r][q][m]]
             h == [x \in Questions |-> IF x = q THEN k ELSE f[r][x]]
             g == WithTrace(f, r, q, n, v)
  <1>1. \A s \in Runs : f[s] = [x \in Questions |-> [m \in 1..MaxTraces |-> f[s][x][m]]]
    BY DEF OverTraces
  <1>2. \A s \in Runs, x \in Questions : f[s][x] = [m \in 1..MaxTraces |-> f[s][x][m]]
    BY <1>1
  <1>3. [f[r][q] EXCEPT ![n] = v] = k
    BY <1>2
  <1>4. \A m \in 1..MaxTraces : k[m] = IF m = n THEN v ELSE f[r][q][m]
    OBVIOUS
  <1>5. k = [m \in 1..MaxTraces |-> k[m]]
    OBVIOUS
  <1> HIDE DEF k
  <1>6. [f[r] EXCEPT ![q] = k] = h
    BY <1>1
  <1>7. \A x \in Questions : h[x] = IF x = q THEN k ELSE f[r][x]
    OBVIOUS
  <1>8. h = [x \in Questions |-> h[x]]
    OBVIOUS
  <1> HIDE DEF h
  <1>9. g = [s \in Runs |-> IF s = r THEN h ELSE f[s]]
    BY <1>3, <1>6 DEF OverTraces, WithTrace
  <1>10. \A s \in Runs : g[s] = IF s = r THEN h ELSE f[s]
    BY <1>9
  <1>11. g = [s \in Runs |-> g[s]]
    BY <1>9
  <1> HIDE DEF g
  <1>12. \A s \in Runs, p \in Questions : g[s][p] = IF s = r /\ p = q THEN k ELSE f[s][p]
    BY <1>7, <1>10
  <1>13. \A s \in Runs, p \in Questions, m \in 1..MaxTraces :
           g[s][p][m] = IF s = r /\ p = q /\ m = n THEN v ELSE f[s][p][m]
    BY <1>4, <1>12
  <1>14. \A s \in Runs, p \in Questions : g[s][p] = [m \in 1..MaxTraces |-> g[s][p][m]]
    <2> TAKE s \in Runs, p \in Questions
    <2>1. CASE s = r /\ p = q
      BY <1>5, <1>12, <2>1
    <2>2. CASE ~(s = r /\ p = q)
      BY <1>2, <1>12, <2>2
    <2> QED BY <2>1, <2>2
  <1>15. \A s \in Runs : g[s] = [p \in Questions |-> g[s][p]]
    <2> TAKE s \in Runs
    <2>1. CASE s = r
      BY <1>8, <1>10, <2>1
    <2>2. CASE s # r
      BY <1>1, <1>10, <2>2
    <2> QED BY <2>1, <2>2
  <1>16. \A s \in Runs : g[s] = [p \in Questions |-> [m \in 1..MaxTraces |-> g[s][p][m]]]
    BY <1>14, <1>15
  <1>17. OverTraces(g)
    BY <1>11, <1>16 DEF OverTraces
  <1> QED BY <1>13, <1>17 DEF g

LEMMA AppendElements ==
  ASSUME NEW S, NEW s \in Seq(S), NEW e \in S
  PROVE  ToSet(Append(s, e)) = ToSet(s) \cup {e}
  <1>1. /\ DOMAIN Append(s, e) = DOMAIN s \cup {Len(s) + 1}
        /\ Append(s, e)[Len(s) + 1] = e /\ \A i \in DOMAIN s : Append(s, e)[i] = s[i]
    OBVIOUS
  <1> QED BY <1>1 DEF ToSet

-----------------------------------------------------------------------------
\* More attempts leave what was said of the earlier ones.
LEMMA RowsGrow ==
  ASSUME NEW r, UNCHANGED question, \A q \in Questions : made[r][q] \subseteq made'[r][q]
  PROVE  RowsOf(r) \subseteq RowsOf(r)'
  <1>1. \A q \in Questions : Submissions(r, q) \subseteq Submissions(r, q)'
    BY DEF Submissions
  <1> QED BY <1>1 DEF RowsOf

\* Where the rollouts and the disk stay, and nothing ended is newly to be noticed.
LEMMA RolloutsStay ==
  ASSUME ExportInv, NEW r \in Runs, NEW q \in Questions,
         UNCHANGED <<rollout, ended, made, disk>>, running'[r] \subseteq running[r],
         ToSet(queue[r]) \cup lost[r] \subseteq ToSet(queue'[r]) \cup lost'[r]
  PROVE  RolloutInv(r, q)' /\ DiskInv(r, q)'
  <1>1. RolloutInv(r, q) /\ DiskInv(r, q)
    BY DEF ExportInv
  <1>2. RolloutInv(r, q)'
    BY <1>1 DEF RolloutInv
  <1>3. Noticed(r, q)' \subseteq Noticed(r, q)
    BY DEF Noticed
  <1> QED BY <1>1, <1>2, <1>3 DEF DiskInv

LEMMA ExportStarts == ExportInit => ExportInv
  <1> SUFFICES ASSUME ExportInit
               PROVE  ExportInv
    OBVIOUS
  <1>1. \A q \in Questions : question[q].type \in TaskTypes
    BY DEF ExportInit
  <1>2. ExportShape
    <2>1. OverTasks(rollout)
      BY DEF ExportInit, OverTasks
    <2>2. OverTasks(ended)
      BY DEF ExportInit, OverTasks
    <2>3. OverTasks(made)
      BY DEF ExportInit, OverTasks
    <2>4. OverTraces(disk)
      BY DEF ExportInit, OverTraces
    <2>5. OverRuns(running) /\ OverRuns(queue)
      BY DEF ExportInit, OverRuns
    <2>6. OverRuns(lost) /\ OverRuns(held) /\ OverRuns(table)
      BY DEF ExportInit, OverRuns
    <2> QED BY <2>1, <2>2, <2>3, <2>4, <2>5, <2>6 DEF ExportShape
  <1>3. ASSUME NEW r \in Runs
        PROVE  QueueInv(r) /\ RowsInv(r)
    BY <1>3 DEF ExportInit, QueueInv, RowsInv
  <1>4. ASSUME NEW r \in Runs, NEW q \in Questions
        PROVE  RolloutInv(r, q) /\ DiskInv(r, q)
    <2>1. /\ rollout[r][q] = <<>> /\ ended[r][q] = 0 /\ made[r][q] = {} /\ running[r] = {}
          /\ \A n \in 1..MaxTraces : disk[r][q][n] = Unreadable
      BY <1>4 DEF ExportInit
    <2>2. RolloutInv(r, q)
      BY <2>1, ExportAssumption DEF RolloutInv
    <2>3. Noticed(r, q) = {}
      BY <2>1 DEF Noticed
    <2> QED BY <2>1, <2>2, <2>3 DEF DiskInv
  <1> QED BY <1>1, <1>2, <1>3, <1>4 DEF ExportInv

-----------------------------------------------------------------------------
\* A rollout starts: none of its attempts has ended, and none of its task waits.
LEMMA StartKeeps ==
  ASSUME ExportInv, NEW r \in Runs, NEW q \in Questions, NEW attempts \in Rollouts, StartRollout(r, q, attempts)
  PROVE  ExportInv'
  <1>1. /\ q \notin running[r] /\ ~HasRow(held[r], q)
        /\ UNCHANGED <<question, queue, disk, held, table>>
    BY DEF StartRollout, Undecided
  <1>2. /\ \A s \in Runs : \A p \in Questions :
             /\ rollout'[s][p] = IF s = r /\ p = q THEN attempts ELSE rollout[s][p]
             /\ ended'[s][p] = IF s = r /\ p = q THEN 0 ELSE ended[s][p]
             /\ made'[s][p] = IF s = r /\ p = q THEN made[r][q] \cup {attempts[1]} ELSE made[s][p]
        /\ \A s \in Runs :
             /\ running'[s] = IF s = r THEN running[r] \cup {q} ELSE running[s]
             /\ lost'[s] = IF s = r THEN {x \in lost[r] : x[1] # q} ELSE lost[s]
        /\ OverTasks(rollout') /\ OverTasks(ended') /\ OverTasks(made') /\ OverRuns(running') /\ OverRuns(lost')
    <2>1. ExportShape
      BY DEF ExportInv
    <2>2. /\ rollout' = WithTask(rollout, r, q, attempts) /\ ended' = WithTask(ended, r, q, 0)
          /\ made' = WithTask(made, r, q, made[r][q] \cup {attempts[1]})
          /\ running' = [running EXCEPT ![r] = running[r] \cup {q}]
          /\ lost' = [lost EXCEPT ![r] = {x \in lost[r] : x[1] # q}]
      BY DEF StartRollout, WithTask
    <2>3. OverTasks(rollout') /\ \A s \in Runs, p \in Questions : rollout'[s][p] = IF s = r /\ p = q THEN attempts ELSE rollout[s][p]
      BY <2>1, <2>2, TaskChanged DEF ExportShape
    <2>4. OverTasks(ended') /\ \A s \in Runs, p \in Questions : ended'[s][p] = IF s = r /\ p = q THEN 0 ELSE ended[s][p]
      BY <2>1, <2>2, TaskChanged DEF ExportShape
    <2>5. OverTasks(made') /\ \A s \in Runs, p \in Questions :
                                made'[s][p] = IF s = r /\ p = q THEN made[r][q] \cup {attempts[1]} ELSE made[s][p]
      BY <2>1, <2>2, TaskChanged DEF ExportShape
    <2>6. OverRuns(running') /\ \A s \in Runs : running'[s] = IF s = r THEN running[r] \cup {q} ELSE running[s]
      BY <2>1, <2>2 DEF ExportShape, OverRuns
    <2>7. OverRuns(lost') /\ \A s \in Runs : lost'[s] = IF s = r THEN {x \in lost[r] : x[1] # q} ELSE lost[s]
      BY <2>1, <2>2 DEF ExportShape, OverRuns
    <2> QED BY <2>3, <2>4, <2>5, <2>6, <2>7
  <1>3. ExportShape'
    BY <1>1, <1>2 DEF ExportInv, ExportShape, OverTasks, OverTraces, OverRuns
  <1>4. attempts \in Seq(Attempts) /\ Len(attempts) \in 1..MaxTraces /\ attempts[1] \in Attempts
    BY ExportAssumption
  <1>5. ASSUME NEW s \in Runs
        PROVE  RowsInv(s)'
    <2>1. RowsOf(s) \subseteq RowsOf(s)'
      BY <1>1, <1>2, RowsGrow
    <2> QED BY <1>1, <2>1 DEF ExportInv, RowsInv
  <1>6. ASSUME NEW s \in Runs
        PROVE  QueueInv(s)'
    <2>1. QueueInv(s)
      BY DEF ExportInv
    <2>2. ASSUME NEW i \in DOMAIN queue[s]
          PROVE  /\ queue[s][i][1] \in Questions /\ ended'[s][queue[s][i][1]] = ended[s][queue[s][i][1]]
                 /\ queue[s][i][1] \in running[s] => queue[s][i][1] \in running'[s]
      <3>1. queue[s][i] \in Questions \X (1..MaxTraces)
        BY <2>1 DEF QueueInv
      <3>2. queue[s][i][1] \in running[s] \/ HasRow(held[s], queue[s][i][1])
        BY <2>1 DEF QueueInv
      <3>3. ~(s = r /\ queue[s][i][1] = q)
        BY <1>1, <3>2
      <3> QED BY <1>2, <3>1, <3>3
    <2> QED BY <1>1, <2>1, <2>2 DEF QueueInv
  <1>7. ASSUME NEW s \in Runs, NEW p \in Questions
        PROVE  RolloutInv(s, p)' /\ DiskInv(s, p)'
    <2>1. RolloutInv(s, p) /\ DiskInv(s, p)
      BY DEF ExportInv
    <2>2. CASE s = r /\ p = q
      <3>1. rollout'[s][p] = attempts /\ ended'[s][p] = 0 /\ made'[s][p] = made[r][q] \cup {attempts[1]}
        BY <1>2, <2>2
      <3>2. RolloutInv(s, p)'
        BY <1>4, <2>1, <2>2, <3>1 DEF RolloutInv
      <3>3. Noticed(s, p)' = {}
        BY <3>1 DEF Noticed
      <3> QED BY <1>1, <2>1, <2>2, <3>1, <3>2, <3>3 DEF DiskInv
    <2>3. CASE ~(s = r /\ p = q)
      <3>1. rollout'[s][p] = rollout[s][p] /\ ended'[s][p] = ended[s][p] /\ made'[s][p] = made[s][p]
        BY <1>2, <2>3
      <3>2. p \in running'[s] => p \in running[s]
        BY <1>2, <2>3
      <3>3. RolloutInv(s, p)'
        BY <2>1, <3>1, <3>2 DEF RolloutInv
      <3>4. \A n : <<p, n>> \in lost[s] => <<p, n>> \in lost'[s]
        BY <1>2, <2>3
      <3>5. Noticed(s, p)' \subseteq Noticed(s, p)
        BY <1>1, <3>1, <3>4 DEF Noticed
      <3> QED BY <1>1, <2>1, <3>1, <3>3, <3>5 DEF DiskInv
    <2> QED BY <2>2, <2>3
  <1> QED BY <1>1, <1>3, <1>5, <1>6, <1>7 DEF ExportInv

\* An attempt ends: it waits for the writer.
LEMMA EndKeeps ==
  ASSUME ExportInv, NEW r \in Runs, NEW q \in Questions, EndAttempt(r, q)
  PROVE  ExportInv'
  <1> DEFINE n == ended[r][q] + 1
  <1>1. /\ q \in running[r] /\ n <= Len(rollout[r][q])
        /\ UNCHANGED <<question, rollout, running, lost, disk, held, table>>
    BY DEF EndAttempt
  <1>2. /\ \A s \in Runs : \A p \in Questions :
             /\ ended'[s][p] = IF s = r /\ p = q THEN n ELSE ended[s][p]
             /\ made'[s][p] = IF s = r /\ p = q
                              THEN made[r][q] \cup {rollout[r][q][m] : m \in {n + 1} \cap DOMAIN rollout[r][q]}
                              ELSE made[s][p]
        /\ \A s \in Runs : queue'[s] = IF s = r THEN Append(queue[r], <<q, n>>) ELSE queue[s]
        /\ OverTasks(ended') /\ OverTasks(made') /\ OverRuns(queue')
    <2>1. ExportShape
      BY DEF ExportInv
    <2>2. /\ ended' = WithTask(ended, r, q, n) /\ queue' = [queue EXCEPT ![r] = Append(queue[r], <<q, n>>)]
          /\ made' = WithTask(made, r, q, made[r][q] \cup {rollout[r][q][m] : m \in {n + 1} \cap DOMAIN rollout[r][q]})
      BY DEF EndAttempt, WithTask
    <2> HIDE DEF n
    <2>3. OverTasks(ended') /\ \A s \in Runs, p \in Questions : ended'[s][p] = IF s = r /\ p = q THEN n ELSE ended[s][p]
      BY <2>1, <2>2, TaskChanged DEF ExportShape
    <2>4. OverTasks(made') /\ \A s \in Runs, p \in Questions :
            made'[s][p] = IF s = r /\ p = q
                          THEN made[r][q] \cup {rollout[r][q][m] : m \in {n + 1} \cap DOMAIN rollout[r][q]}
                          ELSE made[s][p]
      BY <2>1, <2>2, TaskChanged DEF ExportShape
    <2>5. OverRuns(queue') /\ \A s \in Runs : queue'[s] = IF s = r THEN Append(queue[r], <<q, n>>) ELSE queue[s]
      BY <2>1, <2>2 DEF ExportShape, OverRuns
    <2> QED BY <2>3, <2>4, <2>5
  <1>3. ExportShape'
    BY <1>1, <1>2 DEF ExportInv, ExportShape, OverTasks, OverTraces, OverRuns
  <1>4. RolloutInv(r, q) /\ QueueInv(r)
    BY DEF ExportInv
  <1>5. n \in Nat /\ n \in 1..MaxTraces /\ n \in DOMAIN rollout[r][q] /\ Len(rollout[r][q]) \in Nat
    <2>1. rollout[r][q] \in Seq(Attempts) /\ Len(rollout[r][q]) <= MaxTraces /\ MaxTraces \in Nat
      BY <1>4, ExportAssumption DEF RolloutInv
    <2>2. DOMAIN rollout[r][q] = 1..Len(rollout[r][q]) /\ Len(rollout[r][q]) \in Nat
      BY <2>1
    <2>3. ended[r][q] \in 0..Len(rollout[r][q])
      BY <1>4 DEF RolloutInv
    <2> QED BY <1>1, <2>1, <2>2, <2>3
  <1> HIDE DEF n
  <1>6. ASSUME NEW s \in Runs
        PROVE  RowsInv(s)'
    <2>1. RowsOf(s) \subseteq RowsOf(s)'
      BY <1>1, <1>2, RowsGrow
    <2> QED BY <1>1, <2>1 DEF ExportInv, RowsInv
  <1>7. ASSUME NEW s \in Runs
        PROVE  QueueInv(s)'
    <2>1. QueueInv(s)
      BY DEF ExportInv
    <2>2. ASSUME NEW i \in DOMAIN queue[s]
          PROVE  /\ queue[s][i][2] <= ended'[s][queue[s][i][1]]
                 /\ queue[s][i][1] \in running[s] \/ HasRow(held[s], queue[s][i][1])
      <3>1. queue[s][i][1] \in Questions /\ queue[s][i][2] \in Nat
        BY <2>1, ExportAssumption DEF QueueInv
      <3>2. queue[s][i][2] <= ended[s][queue[s][i][1]]
        BY <2>1 DEF QueueInv
      <3>3. CASE s = r /\ queue[s][i][1] = q
        <4>1. queue[s][i][2] <= ended[r][q] /\ ended[r][q] \in Nat
          BY <1>4, <3>2, <3>3 DEF RolloutInv
        <4>2. ended'[s][queue[s][i][1]] = ended[r][q] + 1
          BY <1>2, <3>3 DEF n
        <4>3. queue[s][i][2] <= ended'[s][queue[s][i][1]]
          BY <3>1, <4>1, <4>2
        <4> QED BY <2>1, <4>3 DEF QueueInv
      <3>4. CASE ~(s = r /\ queue[s][i][1] = q)
        BY <1>2, <2>1, <3>1, <3>2, <3>4 DEF QueueInv
      <3> QED BY <3>3, <3>4
    <2>3. CASE s # r
      BY <1>1, <1>2, <2>1, <2>2, <2>3 DEF QueueInv
    <2>4. CASE s = r
      <3>1. PICK entry \in Questions \X (1..MaxTraces) : entry = <<q, n>>
        BY <1>5
      <3>2. queue[r] \in Seq(Questions \X (1..MaxTraces)) /\ queue'[r] = Append(queue[r], entry)
        BY <1>2, <1>4, <3>1 DEF QueueInv
      <3>3. queue'[r] \in Seq(Questions \X (1..MaxTraces))
        BY <3>2
      <3>4. ASSUME NEW i \in DOMAIN queue'[r]
            PROVE  /\ queue'[r][i][2] <= ended'[r][queue'[r][i][1]]
                   /\ queue'[r][i][1] \in running[r] \/ HasRow(held[r], queue'[r][i][1])
        <4>1. CASE i \in DOMAIN queue[r]
          <5>1. queue'[r][i] = queue[r][i]
            BY <3>2, <4>1
          <5> QED BY <2>2, <2>4, <4>1, <5>1
        <4>2. CASE i \notin DOMAIN queue[r]
          <5>1. queue'[r][i] = entry
            BY <3>2, <4>2
          <5>2. queue'[r][i][1] = q /\ queue'[r][i][2] = n
            BY <3>1, <5>1
          <5>3. ended'[r][q] = n
            BY <1>2
          <5>4. n <= n
            BY <1>5
          <5> QED BY <1>1, <5>2, <5>3, <5>4
        <4> QED BY <4>1, <4>2
      <3> QED BY <1>1, <2>4, <3>3, <3>4 DEF QueueInv
    <2> QED BY <2>3, <2>4
  <1>9. ToSet(queue'[r]) = ToSet(queue[r]) \cup {<<q, n>>}
    <2>1. queue[r] \in Seq(Questions \X (1..MaxTraces)) /\ <<q, n>> \in Questions \X (1..MaxTraces)
      BY <1>4, <1>5 DEF QueueInv
    <2>2. queue'[r] = Append(queue[r], <<q, n>>)
      BY <1>2
    <2>3. PICK waiting \in Seq(Questions \X (1..MaxTraces)) : waiting = queue[r]
      BY <2>1
    <2>4. PICK entry \in Questions \X (1..MaxTraces) : entry = <<q, n>>
      BY <2>1
    <2>5. ToSet(Append(waiting, entry)) = ToSet(waiting) \cup {entry}
      BY AppendElements
    <2> QED BY <2>2, <2>3, <2>4, <2>5
  <1>8. ASSUME NEW s \in Runs, NEW p \in Questions
        PROVE  RolloutInv(s, p)' /\ DiskInv(s, p)'
    <2>1. RolloutInv(s, p) /\ DiskInv(s, p)
      BY DEF ExportInv
    <2>2. CASE s = r /\ p = q
      <3>1. ended'[s][p] = n /\ made'[s][p] = made[r][q] \cup {rollout[r][q][m] : m \in {n + 1} \cap DOMAIN rollout[r][q]}
        BY <1>2, <2>2
      <3>2. made'[s][p] \in SUBSET Attempts
        BY <1>4, <3>1 DEF RolloutInv
      <3>3. \A m \in DOMAIN rollout[r][q] : m <= n + 1 => rollout[r][q][m] \in made'[s][p]
        <4> TAKE m \in DOMAIN rollout[r][q]
        <4> HAVE m <= n + 1
        <4>1. m \in Nat
          BY <1>4 DEF RolloutInv
        <4>2. m = n + 1 \/ m <= n
          BY <1>5, <4>1
        <4>3. m <= n => rollout[r][q][m] \in made[r][q]
          BY <1>4 DEF RolloutInv, n
        <4> QED BY <3>1, <4>2, <4>3
      <3>4. RolloutInv(s, p)'
        BY <1>1, <1>4, <1>5, <2>2, <3>1, <3>2, <3>3 DEF RolloutInv
      <3>5. <<q, n>> \in ToSet(queue'[r])
        BY <1>9
      <3>6. ToSet(queue[r]) \subseteq ToSet(queue'[r])
        BY <1>9
      <3>7. Noticed(s, p)' \subseteq Noticed(s, p)
        <4> SUFFICES ASSUME NEW m \in Noticed(s, p)'
                     PROVE  m \in Noticed(s, p)
          OBVIOUS
        <4>1. m \in 1..n /\ <<q, m>> \notin ToSet(queue'[r]) \cup lost[r]
          BY <1>1, <2>2, <3>1 DEF Noticed
        <4>2. m # n
          BY <3>5, <4>1
        <4>3. m \in 1..ended[r][q]
          BY <1>4, <4>1, <4>2 DEF n, RolloutInv
        <4> QED BY <2>2, <3>6, <4>1, <4>3 DEF Noticed
      <3> QED BY <1>1, <2>1, <2>2, <3>1, <3>4, <3>7 DEF DiskInv
    <2>3. CASE ~(s = r /\ p = q)
      <3>1. ended'[s][p] = ended[s][p] /\ made'[s][p] = made[s][p]
        BY <1>2, <2>3
      <3>2. RolloutInv(s, p)'
        BY <1>1, <2>1, <3>1 DEF RolloutInv
      <3>3. ToSet(queue[s]) \subseteq ToSet(queue'[s])
        <4>1. s # r => queue'[s] = queue[s]
          BY <1>2
        <4> QED BY <1>9, <4>1
      <3>4. Noticed(s, p)' \subseteq Noticed(s, p)
        BY <1>1, <3>1, <3>3 DEF Noticed
      <3> QED BY <1>1, <2>1, <3>1, <3>2, <3>4 DEF DiskInv
    <2> QED BY <2>2, <2>3
  <1> QED BY <1>1, <1>3, <1>6, <1>7, <1>8 DEF ExportInv

-----------------------------------------------------------------------------
\* The next trace of the writer, and the rest of its queue.
LEMMA QueueParts ==
  ASSUME ExportInv, NEW r \in Runs, queue[r] # <<>>
  PROVE  /\ Head(queue[r]) \in Questions \X (1..MaxTraces) /\ Head(queue[r]) \in ToSet(queue[r])
         /\ Tail(queue[r]) \in Seq(Questions \X (1..MaxTraces))
         /\ ToSet(queue[r]) = {Head(queue[r])} \cup ToSet(Tail(queue[r]))
         /\ \A i \in DOMAIN Tail(queue[r]) : i + 1 \in DOMAIN queue[r] /\ Tail(queue[r])[i] = queue[r][i + 1]
         /\ Head(queue[r])[2] <= ended[r][Head(queue[r])[1]]
  <1>1. PICK waiting : waiting = queue[r]
    OBVIOUS
  <1>2. waiting \in Seq(Questions \X (1..MaxTraces)) /\ waiting # <<>>
    BY <1>1 DEF ExportInv, QueueInv
  <1>3. 1 \in DOMAIN waiting /\ Head(waiting) = waiting[1] /\ Len(waiting) \in Nat /\ DOMAIN waiting = 1..Len(waiting)
    BY <1>2
  <1>4. /\ Tail(waiting) \in Seq(Questions \X (1..MaxTraces)) /\ DOMAIN Tail(waiting) = 1..(Len(waiting) - 1)
        /\ \A i \in DOMAIN Tail(waiting) : i + 1 \in DOMAIN waiting /\ Tail(waiting)[i] = waiting[i + 1]
    BY <1>2, <1>3
  <1>5. ToSet(waiting) \subseteq {Head(waiting)} \cup ToSet(Tail(waiting))
    <2> SUFFICES ASSUME NEW i \in DOMAIN waiting
                 PROVE  waiting[i] \in {Head(waiting)} \cup ToSet(Tail(waiting))
      BY DEF ToSet
    <2>1. CASE i = 1
      BY <1>3, <2>1
    <2>2. CASE i # 1
      <3>1. i - 1 \in DOMAIN Tail(waiting) /\ (i - 1) + 1 = i
        BY <1>3, <1>4, <2>2
      <3>2. Tail(waiting)[i - 1] = waiting[i]
        BY <1>4, <3>1
      <3> QED BY <3>1, <3>2 DEF ToSet
    <2> QED BY <2>1, <2>2
  <1>6. {Head(waiting)} \cup ToSet(Tail(waiting)) \subseteq ToSet(waiting)
    BY <1>3, <1>4 DEF ToSet
  <1>7. waiting[1] \in Questions \X (1..MaxTraces) /\ waiting[1][2] <= ended[r][waiting[1][1]]
    BY <1>1, <1>2, <1>3 DEF ExportInv, QueueInv
  <1> QED BY <1>1, <1>3, <1>4, <1>5, <1>6, <1>7

\* A queue that loses its head is still about what has ended.
LEMMA ShorterQueue ==
  ASSUME ExportInv, NEW r \in Runs, queue[r] # <<>>, queue' = [queue EXCEPT ![r] = Tail(queue[r])],
         UNCHANGED <<ended, running, held>>
  PROVE  \A s \in Runs : QueueInv(s)' /\ queue'[s] = IF s = r THEN Tail(queue[r]) ELSE queue[s]
  <1> TAKE s \in Runs
  <1>1. queue'[s] = IF s = r THEN Tail(queue[r]) ELSE queue[s]
    BY DEF ExportInv, ExportShape, OverRuns
  <1>2. QueueInv(s)
    BY DEF ExportInv
  <1>3. CASE s # r
    BY <1>1, <1>2, <1>3 DEF QueueInv
  <1>4. CASE s = r
    <2>1. /\ Tail(queue[r]) \in Seq(Questions \X (1..MaxTraces))
          /\ \A i \in DOMAIN Tail(queue[r]) : i + 1 \in DOMAIN queue[r] /\ Tail(queue[r])[i] = queue[r][i + 1]
      BY QueueParts
    <2> QED BY <1>1, <1>2, <1>4, <2>1 DEF QueueInv
  <1> QED BY <1>1, <1>3, <1>4

\* The writer empties the file of a trace that waits.
LEMMA OpenKeeps ==
  ASSUME ExportInv, NEW r \in Runs, OpenTrace(r)
  PROVE  ExportInv'
  <1>1. queue[r] # <<>> /\ UNCHANGED <<question, rollout, ended, made, running, queue, lost, held, table>>
    BY DEF OpenTrace
  <1>2. PICK q \in Questions, n \in 1..MaxTraces : Head(queue[r]) = <<q, n>>
    BY <1>1, QueueParts
  <1>3. disk' = [disk EXCEPT ![r][q][n] = Unreadable] /\ <<q, n>> \in ToSet(queue[r])
    <2>1. Head(queue[r])[1] = q /\ Head(queue[r])[2] = n
      BY <1>2
    <2>2. disk' = [disk EXCEPT ![r][Head(queue[r])[1]][Head(queue[r])[2]] = Unreadable]
      BY DEF OpenTrace
    <2>3. <<q, n>> \in ToSet(queue[r])
      BY <1>1, <1>2, QueueParts
    <2> QED BY <2>1, <2>2, <2>3
  <1>4. /\ OverTraces(disk')
        /\ \A s \in Runs, p \in Questions, m \in 1..MaxTraces :
             disk'[s][p][m] = IF s = r /\ p = q /\ m = n THEN Unreadable ELSE disk[s][p][m]
    <2>1. OverTraces(disk)
      BY DEF ExportInv, ExportShape
    <2>2. disk' = WithTrace(disk, r, q, n, Unreadable)
      BY <1>3 DEF WithTrace
    <2> QED BY <2>1, <2>2, TraceChanged
  <1>5. ExportShape'
    BY <1>1, <1>4 DEF ExportInv, ExportShape, OverTraces, OverTasks, OverRuns
  <1>6. ASSUME NEW s \in Runs
        PROVE  RowsInv(s)' /\ QueueInv(s)'
    <2>1. RowsOf(s)' = RowsOf(s)
      BY <1>1 DEF RowsOf, Submissions
    <2> QED BY <1>1, <2>1 DEF ExportInv, RowsInv, QueueInv
  <1>7. ASSUME NEW s \in Runs, NEW p \in Questions
        PROVE  RolloutInv(s, p)' /\ DiskInv(s, p)'
    <2>1. RolloutInv(s, p) /\ DiskInv(s, p)
      BY DEF ExportInv
    <2>2. Noticed(s, p)' = Noticed(s, p) /\ RolloutInv(s, p)'
      BY <1>1, <2>1 DEF Noticed, RolloutInv
    <2>3. \A m \in Noticed(s, p) : m \in 1..MaxTraces /\ ~(s = r /\ p = q /\ m = n)
      <3> TAKE m \in Noticed(s, p)
      <3>1. m \in 1..MaxTraces
        BY <2>1, ExportAssumption DEF Noticed, RolloutInv
      <3> QED BY <1>3, <3>1 DEF Noticed
    <2> QED BY <1>1, <1>4, <2>1, <2>2, <2>3 DEF DiskInv
  <1> QED BY <1>1, <1>5, <1>6, <1>7 DEF ExportInv

\* The writer has written a trace.
LEMMA SaveKeeps ==
  ASSUME ExportInv, NEW r \in Runs, SaveTrace(r)
  PROVE  ExportInv'
  <1>1. /\ queue[r] # <<>> /\ queue' = [queue EXCEPT ![r] = Tail(queue[r])]
        /\ UNCHANGED <<question, rollout, ended, made, running, lost, held, table>>
    BY DEF SaveTrace
  <1>2. PICK q \in Questions, n \in 1..MaxTraces : Head(queue[r]) = <<q, n>>
    BY <1>1, QueueParts
  <1>3. /\ disk' = [disk EXCEPT ![r][q][n] = rollout[r][q][n]]
        /\ n <= ended[r][q] /\ ToSet(queue[r]) = {<<q, n>>} \cup ToSet(Tail(queue[r]))
    <2>1. Head(queue[r])[1] = q /\ Head(queue[r])[2] = n
      BY <1>2
    <2>2. disk' = [disk EXCEPT ![r][Head(queue[r])[1]][Head(queue[r])[2]] = rollout[r][Head(queue[r])[1]][Head(queue[r])[2]]]
      BY DEF SaveTrace
    <2>3. ToSet(queue[r]) = {<<q, n>>} \cup ToSet(Tail(queue[r]))
      BY <1>1, <1>2, QueueParts
    <2>4. Head(queue[r])[2] <= ended[r][Head(queue[r])[1]]
      BY <1>1, QueueParts
    <2> QED BY <2>1, <2>2, <2>3, <2>4
  <1>4. /\ OverTraces(disk')
        /\ \A s \in Runs, p \in Questions, m \in 1..MaxTraces :
             disk'[s][p][m] = IF s = r /\ p = q /\ m = n THEN rollout[r][q][n] ELSE disk[s][p][m]
    <2>1. OverTraces(disk)
      BY DEF ExportInv, ExportShape
    <2>2. disk' = WithTrace(disk, r, q, n, rollout[r][q][n])
      BY <1>3 DEF WithTrace
    <2> QED BY <2>1, <2>2, TraceChanged
  <1>5. ExportShape'
    <2>1. OverRuns(queue')
      BY <1>1 DEF ExportInv, ExportShape, OverRuns
    <2> QED BY <1>1, <1>4, <2>1 DEF ExportInv, ExportShape, OverTraces, OverTasks, OverRuns
  <1>6. \A s \in Runs : QueueInv(s)' /\ queue'[s] = IF s = r THEN Tail(queue[r]) ELSE queue[s]
    BY <1>1, ShorterQueue
  <1>7. ASSUME NEW s \in Runs
        PROVE  RowsInv(s)'
    <2>1. RowsOf(s)' = RowsOf(s)
      BY <1>1 DEF RowsOf, Submissions
    <2> QED BY <1>1, <2>1 DEF ExportInv, RowsInv
  <1>8. rollout[r][q][n] \in made[r][q]
    <2>1. RolloutInv(r, q)
      BY DEF ExportInv
    <2> QED BY <1>3, <2>1 DEF RolloutInv
  <1>9. ASSUME NEW s \in Runs, NEW p \in Questions
        PROVE  RolloutInv(s, p)' /\ DiskInv(s, p)'
    <2>1. RolloutInv(s, p) /\ DiskInv(s, p)
      BY DEF ExportInv
    <2>2. RolloutInv(s, p)'
      BY <1>1, <2>1 DEF RolloutInv
    <2>3. \A m \in 1..MaxTraces : disk'[s][p][m] \in made[s][p] \cup {Unreadable}
      BY <1>4, <1>8, <2>1 DEF DiskInv
    <2>4. ASSUME NEW m \in Noticed(s, p)'
          PROVE  disk'[s][p][m] = rollout[s][p][m]
      <3>1. m \in 1..ended[s][p] /\ <<p, m>> \notin ToSet(queue'[s]) \cup lost[s]
        BY <1>1 DEF Noticed
      <3>2. m \in 1..MaxTraces
        BY <2>1, <3>1, ExportAssumption DEF RolloutInv
      <3>3. CASE s = r /\ p = q /\ m = n
        BY <1>4, <3>3
      <3>4. CASE ~(s = r /\ p = q /\ m = n)
        <4>1. <<p, m>> \notin ToSet(queue[s])
          BY <1>3, <1>6, <3>1, <3>4
        <4>2. m \in Noticed(s, p)
          BY <3>1, <4>1 DEF Noticed
        <4> QED BY <1>4, <2>1, <3>2, <3>4, <4>2 DEF DiskInv
      <3> QED BY <3>3, <3>4
    <2> QED BY <1>1, <2>2, <2>3, <2>4 DEF DiskInv
  <1> QED BY <1>1, <1>5, <1>6, <1>7, <1>9 DEF ExportInv

\* The writer loses one.
LEMMA LoseKeeps ==
  ASSUME ExportInv, NEW r \in Runs, LoseTrace(r)
  PROVE  ExportInv'
  <1>1. /\ queue[r] # <<>> /\ queue' = [queue EXCEPT ![r] = Tail(queue[r])]
        /\ lost' = [lost EXCEPT ![r] = lost[r] \cup {Head(queue[r])}]
        /\ UNCHANGED <<question, rollout, ended, made, running, disk, held, table>>
    BY DEF LoseTrace
  <1>2. ExportShape'
    <2>1. OverRuns(queue')
      BY <1>1 DEF ExportInv, ExportShape, OverRuns
    <2>2. OverRuns(lost')
      BY <1>1 DEF ExportInv, ExportShape, OverRuns
    <2> QED BY <1>1, <2>1, <2>2 DEF ExportInv, ExportShape, OverTraces, OverTasks, OverRuns
  <1>3. \A s \in Runs : QueueInv(s)' /\ queue'[s] = IF s = r THEN Tail(queue[r]) ELSE queue[s]
    BY <1>1, ShorterQueue
  <1>4. \A s \in Runs : lost'[s] = IF s = r THEN lost[r] \cup {Head(queue[r])} ELSE lost[s]
    BY <1>1 DEF ExportInv, ExportShape, OverRuns
  <1>5. ASSUME NEW s \in Runs
        PROVE  RowsInv(s)' /\ ToSet(queue[s]) \cup lost[s] \subseteq ToSet(queue'[s]) \cup lost'[s]
    <2>1. RowsOf(s)' = RowsOf(s)
      BY <1>1 DEF RowsOf, Submissions
    <2>2. RowsInv(s)'
      BY <1>1, <2>1 DEF ExportInv, RowsInv
    <2>3. ToSet(queue[r]) = {Head(queue[r])} \cup ToSet(Tail(queue[r]))
      BY <1>1, QueueParts
    <2> QED BY <1>3, <1>4, <2>2, <2>3
  <1>6. \A s \in Runs, p \in Questions : RolloutInv(s, p)' /\ DiskInv(s, p)'
    BY <1>1, <1>5, RolloutsStay
  <1> QED BY <1>1, <1>2, <1>3, <1>5, <1>6 DEF ExportInv

-----------------------------------------------------------------------------
\* A row that says what an attempt is worth, or that its rollout raised, is added.
LEMMA RecordKeeps ==
  ASSUME ExportInv, NEW r \in Runs, NEW q \in Questions, NEW s \in Submissions(r, q),
         held' = RecordedWith(r, q, s), running' = [running EXCEPT ![r] = running[r] \ {q}],
         UNCHANGED <<question, rollout, ended, made, traceVars, table>>
  PROVE  ExportInv'
  <1>0. UNCHANGED <<question, rollout, ended, made, queue, lost, disk, table>>
    BY DEF traceVars
  <1>1. \A x \in Runs : RowsOf(x)' = RowsOf(x)
    BY <1>0 DEF RowsOf, Submissions
  <1>2. PICK row : row = [task |-> q, submission |-> s]
    OBVIOUS
  <1>3. row \in RowsOf(r) /\ row.task = q
    BY <1>2 DEF RowsOf
  <1>4. /\ OverRuns(held') /\ OverRuns(running')
        /\ \A x \in Runs : held'[x] = IF x = r THEN Append(held[r], row) ELSE held[x]
        /\ \A x \in Runs : running'[x] = IF x = r THEN running[r] \ {q} ELSE running[x]
    <2>1. held' = [held EXCEPT ![r] = Append(held[r], row)]
      BY <1>2 DEF RecordedWith
    <2>2. OverRuns(held') /\ \A x \in Runs : held'[x] = IF x = r THEN Append(held[r], row) ELSE held[x]
      BY <2>1 DEF ExportInv, ExportShape, OverRuns
    <2>3. OverRuns(running') /\ \A x \in Runs : running'[x] = IF x = r THEN running[r] \ {q} ELSE running[x]
      BY DEF ExportInv, ExportShape, OverRuns
    <2> QED BY <2>2, <2>3
  <1>5. ExportShape'
    BY <1>0, <1>4 DEF ExportInv, ExportShape, OverTraces, OverTasks, OverRuns
  <1>6. ASSUME NEW x \in Runs
        PROVE  RowsInv(x)' /\ QueueInv(x)'
    <2>1. held[x] \in Seq(RowsOf(x)) /\ table[x] \in Seq(RowsOf(x))
      BY DEF ExportInv, RowsInv
    <2>2. held'[x] \in Seq(RowsOf(x))
      <3>1. CASE x # r
        BY <1>4, <2>1, <3>1
      <3>2. CASE x = r
        <4>1. Append(held[r], row) \in Seq(RowsOf(r))
          BY <1>3, <2>1, <3>2
        <4> QED BY <1>4, <3>2, <4>1
      <3> QED BY <3>1, <3>2
    <2>3. ASSUME NEW p, p \in running[x] \/ HasRow(held[x], p)
          PROVE  p \in running'[x] \/ HasRow(held'[x], p)
      <3>1. CASE x # r
        BY <1>4, <2>3, <3>1
      <3>2. CASE x = r
        <4>1. HasRow(held'[r], q)
          <5>1. held'[r] = Append(held[r], row) /\ held[r] \in Seq(RowsOf(r))
            BY <1>4, <2>1, <3>2
          <5>2. Len(held[r]) + 1 \in DOMAIN held'[r] /\ held'[r][Len(held[r]) + 1] = row
            BY <5>1
          <5> QED BY <1>3, <5>2 DEF HasRow
        <4>2. HasRow(held[r], p) => HasRow(held'[r], p)
          <5>1. held'[r] = Append(held[r], row) /\ held[r] \in Seq(RowsOf(r))
            BY <1>4, <2>1, <3>2
          <5>2. \A i \in DOMAIN held[r] : i \in DOMAIN held'[r] /\ held'[r][i] = held[r][i]
            BY <5>1
          <5> QED BY <5>2 DEF HasRow
        <4> QED BY <1>4, <2>3, <3>2, <4>1, <4>2
      <3> QED BY <3>1, <3>2
    <2>4. QueueInv(x)
      BY DEF ExportInv
    <2>5. QueueInv(x)'
      BY <1>0, <2>3, <2>4 DEF QueueInv
    <2> QED BY <1>0, <1>1, <2>1, <2>2, <2>5 DEF RowsInv
  <1>7. \A x \in Runs, p \in Questions : RolloutInv(x, p)' /\ DiskInv(x, p)'
    <2>1. \A x \in Runs : running'[x] \subseteq running[x]
      BY <1>4
    <2> QED BY <1>0, <2>1, RolloutsStay
  <1> QED BY <1>0, <1>5, <1>6, <1>7 DEF ExportInv

\* Each of the rows recorded is one of those.
LEMMA RecordedRows ==
  ASSUME ExportInv, NEW r \in Runs, NEW q \in Questions,
         RecordForecast(r, q) \/ RecordFound(r, q) \/ RecordFailure(r, q)
  PROVE  ExportInv'
  <1>1. UNCHANGED <<question, rollout, ended, made, traceVars, table>>
    BY DEF RecordForecast, RecordFound, RecordFailure
  <1>2. running' = [running EXCEPT ![r] = running[r] \ {q}]
    <2>1. CASE RecordForecast(r, q) \/ RecordFailure(r, q)
      BY <2>1 DEF RecordForecast, RecordFailure
    <2>2. CASE RecordFound(r, q)
      <3>1. running' = running /\ q \notin running[r] /\ running = [s \in Runs |-> running[s]]
        BY <2>2 DEF RecordFound, Undecided, ExportInv, ExportShape, OverRuns
      <3>2. running[r] \ {q} = running[r]
        BY <3>1
      <3> QED BY <3>1, <3>2
    <2> QED BY <2>1, <2>2
  <1>3. RolloutInv(r, q) /\ DiskInv(r, q)
    BY DEF ExportInv
  <1>4. q \in running[r] => rollout[r][q][1] \in made[r][q] /\ Len(rollout[r][q]) \in DOMAIN rollout[r][q]
    BY <1>3 DEF RolloutInv
  <1>5. PICK s \in Submissions(r, q) : held' = RecordedWith(r, q, s)
    <2>1. CASE RecordForecast(r, q)
      <3>1. q \in running[r] /\ ended[r][q] = Len(rollout[r][q])
            /\ held' = RecordedWith(r, q, Parse(rollout[r][q][ended[r][q]], question[q].type))
        BY <2>1 DEF RecordForecast
      <3>2. rollout[r][q][ended[r][q]] \in made[r][q]
        BY <1>3, <1>4, <3>1 DEF RolloutInv
      <3> QED BY <3>1, <3>2 DEF Submissions, Readings
    <2>2. CASE RecordFound(r, q)
      <3>1. PICK n \in 1..MaxTraces :
              /\ disk[r][q][n] # Unreadable
              /\ held' = RecordedWith(r, q, Parse([disk[r][q][n] EXCEPT !.output = disk[r][q][n].stored], question[q].type))
        BY <2>2 DEF RecordFound
      <3>2. disk[r][q][n] \in made[r][q]
        BY <1>3, <3>1 DEF DiskInv
      <3>3. PICK a \in made[r][q] : a = disk[r][q][n]
        BY <3>2
      <3>4. held' = RecordedWith(r, q, Parse(Stored(a), question[q].type))
        BY <3>1, <3>3 DEF Stored
      <3>5. Parse(Stored(a), question[q].type) \in Submissions(r, q)
        BY DEF Submissions, Readings
      <3> QED BY <3>4, <3>5
    <2>3. CASE RecordFailure(r, q)
      <3>1. q \in running[r] /\ held' = RecordedWith(r, q, RaisedRow)
        BY <2>3 DEF RecordFailure
      <3> QED BY <1>4, <3>1 DEF Submissions, Readings
    <2> QED BY <2>1, <2>2, <2>3
  <1> QED BY <1>1, <1>2, <1>5, RecordKeeps

\* The rows are published, or die with what the writer had not written.
LEMMA CloseKeeps ==
  ASSUME ExportInv, NEW r \in Runs, WriteTable(r) \/ RepetitionDies(r)
  PROVE  ExportInv'
  <1>1. UNCHANGED <<question, rollout, ended, made, disk>>
    BY DEF WriteTable, RepetitionDies, traceVars
  <1>2. ExportShape'
    <2>1. ExportShape
      BY DEF ExportInv
    <2>2. OverRuns(running') /\ OverRuns(queue') /\ OverRuns(lost') /\ OverRuns(held') /\ OverRuns(table')
      <3>1. CASE WriteTable(r)
        <4>1. table' = [table EXCEPT ![r] = held[r]] /\ UNCHANGED <<running, queue, lost, held>>
          BY <3>1 DEF WriteTable, traceVars
        <4>2. OverRuns(table')
          BY <2>1, <4>1 DEF ExportShape, OverRuns
        <4> QED BY <2>1, <4>1, <4>2 DEF ExportShape, OverRuns
      <3>2. CASE RepetitionDies(r)
        <4>1. /\ running' = [running EXCEPT ![r] = {}] /\ held' = [held EXCEPT ![r] = <<>>]
              /\ lost' = [lost EXCEPT ![r] = lost[r] \cup ToSet(queue[r])] /\ queue' = [queue EXCEPT ![r] = <<>>]
              /\ UNCHANGED table
          BY <3>2 DEF RepetitionDies
        <4>2. OverRuns(running') /\ OverRuns(held')
          BY <2>1, <4>1 DEF ExportShape, OverRuns
        <4>3. OverRuns(queue') /\ OverRuns(lost')
          BY <2>1, <4>1 DEF ExportShape, OverRuns
        <4> QED BY <2>1, <4>1, <4>2, <4>3 DEF ExportShape, OverRuns
      <3> QED BY <3>1, <3>2
    <2> QED BY <1>1, <2>1, <2>2 DEF ExportShape, OverTraces, OverTasks
  <1>3. ASSUME NEW s \in Runs
        PROVE  /\ held'[s] \in {held[s], <<>>} /\ table'[s] \in {table[s], held[s]} /\ running'[s] \subseteq running[s]
               /\ QueueInv(s)' /\ ToSet(queue[s]) \cup lost[s] \subseteq ToSet(queue'[s]) \cup lost'[s]
    <2>1. QueueInv(s)
      BY DEF ExportInv
    <2>2. CASE WriteTable(r)
      <3>1. /\ UNCHANGED <<queue, lost, ended, running, held>>
            /\ table'[s] \in {table[s], held[s]}
        BY <2>2 DEF WriteTable, traceVars, ExportInv, ExportShape, OverRuns
      <3> QED BY <2>1, <3>1 DEF QueueInv
    <2>3. CASE RepetitionDies(r)
      <3>1. /\ UNCHANGED <<ended, table>>
            /\ running'[s] = IF s = r THEN {} ELSE running[s]
            /\ held'[s] = IF s = r THEN <<>> ELSE held[s]
            /\ queue'[s] = IF s = r THEN <<>> ELSE queue[s]
            /\ lost'[s] = IF s = r THEN lost[r] \cup ToSet(queue[r]) ELSE lost[s]
        BY <2>3 DEF RepetitionDies, ExportInv, ExportShape, OverRuns
      <3>2. QueueInv(s)'
        BY <2>1, <3>1 DEF QueueInv
      <3>3. ToSet(queue[s]) \cup lost[s] \subseteq ToSet(queue'[s]) \cup lost'[s]
        BY <3>1
      <3> QED BY <3>1, <3>2, <3>3
    <2> QED BY <2>2, <2>3
  <1>4. ASSUME NEW s \in Runs
        PROVE  RowsInv(s)'
    <2>1. RowsOf(s)' = RowsOf(s)
      BY <1>1 DEF RowsOf, Submissions
    <2>2. held[s] \in Seq(RowsOf(s)) /\ table[s] \in Seq(RowsOf(s)) /\ <<>> \in Seq(RowsOf(s))
      BY DEF ExportInv, RowsInv
    <2> QED BY <1>3, <2>1, <2>2 DEF RowsInv
  <1>5. \A s \in Runs, p \in Questions : RolloutInv(s, p)' /\ DiskInv(s, p)'
    BY <1>1, <1>3, RolloutsStay
  <1> QED BY <1>1, <1>2, <1>3, <1>4, <1>5 DEF ExportInv

LEMMA ExportSteps == ExportInv /\ [ExportNext]_exportVars => ExportInv'
  <1> SUFFICES ASSUME ExportInv, [ExportNext]_exportVars
               PROVE  ExportInv'
    OBVIOUS
  <1>1. CASE ExportNext
    BY <1>1, StartKeeps, EndKeeps, OpenKeeps, SaveKeeps, LoseKeeps, RecordedRows, CloseKeeps DEF ExportNext
  <1>2. CASE UNCHANGED exportVars
    <2>1. UNCHANGED <<question, rollout, ended, made, running, queue, lost, disk, held, table>>
      BY <1>2 DEF exportVars, traceVars
    <2>2. ExportShape'
      BY <2>1 DEF ExportInv, ExportShape, OverTraces, OverTasks, OverRuns
    <2>3. ASSUME NEW r \in Runs
          PROVE  QueueInv(r)' /\ RowsInv(r)'
      <3>1. RowsOf(r)' = RowsOf(r)
        BY <2>1 DEF RowsOf, Submissions
      <3>2. QueueInv(r) /\ RowsInv(r)
        BY DEF ExportInv
      <3> QED BY <2>1, <3>1, <3>2 DEF QueueInv, RowsInv
    <2>4. \A r \in Runs, q \in Questions : RolloutInv(r, q)' /\ DiskInv(r, q)'
      BY <2>1, RolloutsStay
    <2> QED BY <2>1, <2>2, <2>3, <2>4 DEF ExportInv
  <1> QED BY <1>1, <1>2

\* However rollouts end, traces are lost, repetitions die and are resumed, and whenever it
\* is made: an export pairs an answer with the probability of the same attempt's last
\* message, and forwards nothing the contract refuses.
THEOREM SubmittedWhatWasSaid == ExportSpec => []SubmittedAsSaid
  <1>1. ExportInv => SubmittedAsSaid
    <2> SUFFICES ASSUME ExportInv
                 PROVE  SubmittedAsSaid
      OBVIOUS
    <2> DEFINE known == {q \in Tabled : question[q].dataset # "absent"}
               dated == {q \in known : question[q].dataset = "dated"}
               lines == Export(FALSE).lines
    <2>1. lines = [q \in dated |-> SummaryRow(q)]
      BY DEF Export
    <2>2. \A q \in dated : \E attempt \in made[NewestRun(q)][q] : Submits(SummaryRow(q), attempt, question[q].type)
      BY RowsOfAttempts
    <2>3. \A q \in DOMAIN lines : q \in dated /\ lines[q] = SummaryRow(q)
      BY <2>1
    <2> HIDE DEF lines, dated
    <2>4. \A q \in DOMAIN lines : \E attempt \in made[NewestRun(q)][q] : Submits(lines[q], attempt, question[q].type)
      BY <2>2, <2>3
    <2> QED BY <2>4 DEF SubmittedAsSaid, lines
  <1> QED BY <1>1, ExportStarts, ExportSteps, PTL DEF ExportSpec

\* And its notebooks hold results that were screened; and where it reports no unscreened
\* one, there is none but in attempts whose trace is not on disk.
THEOREM NotebooksAreScreened == ExportSpec => []NotebooksScreened
  <1> QED BY ExportScreens, ExportStarts, ExportSteps, PTL DEF ExportSpec


-----------------------------------------------------------------------------
(***************************************************************************)
(* What a page is cut down to.  Both passes keep an entry, keep what of it *)
(* comes before the first late day, or keep nothing; what the second keeps *)
(* names no late day.                                                      *)
(***************************************************************************)
Harmless == {e \in Entries : ~MentionsLateDay(e)}

\* What comes before the first late day of a line names none.
LEMMA BeforeTheFirst ==
  ASSUME NEW e \in Entries, MentionsLateDay(e), e.own = NoDay
  PROVE  /\ BeforeLate(e) \in Seq(Nat)
         /\ \A i \in DOMAIN BeforeLate(e) : ~Late(BeforeLate(e)[i])
  <1> DEFINE late == {i \in DOMAIN e.days : Late(e.days[i])}
             first == CHOOSE i \in DOMAIN e.days : Late(e.days[i]) /\ \A j \in 1..(i - 1) : ~Late(e.days[j])
  <1>1. e.days \in Seq(Nat)
    BY DEF Entries
  <1>2. late # {}
    <2>1. DaysOf(e) = e.days
      BY <1>1 DEF DaysOf
    <2> QED BY <2>1 DEF MentionsLateDay
  <1>3. late \in SUBSET Nat /\ DOMAIN e.days = 1..Len(e.days) /\ Len(e.days) \in Nat
    BY <1>1
  <1>4. PICK k \in late : \A m \in late : k <= m
    <2> HIDE DEF late
    <2> QED BY <1>2, <1>3, LeastNumber
  <1>5. k \in DOMAIN e.days /\ Late(e.days[k]) /\ \A j \in 1..(k - 1) : ~Late(e.days[j])
    <2>1. \A j \in 1..(k - 1) : j \in DOMAIN e.days /\ ~(k <= j)
      BY <1>3, <1>4
    <2>2. \A j \in 1..(k - 1) : j \notin late
      <3> HIDE DEF late
      <3> QED BY <1>4, <2>1
    <2> QED BY <1>4, <2>1, <2>2
  <1>6. first \in DOMAIN e.days /\ \A j \in 1..(first - 1) : ~Late(e.days[j])
    BY <1>5
  <1>7. BeforeLate(e) = SubSeq(e.days, 1, first - 1)
    BY DEF BeforeLate
  <1> HIDE DEF first, late
  <1>8. PICK f \in 1..Len(e.days) : f = first
    BY <1>3, <1>6
  <1>9. /\ SubSeq(e.days, 1, f - 1) \in Seq(Nat) /\ DOMAIN SubSeq(e.days, 1, f - 1) = 1..(f - 1)
        /\ \A i \in 1..(f - 1) : SubSeq(e.days, 1, f - 1)[i] = e.days[i]
    BY <1>1, <1>3
  <1> QED BY <1>6, <1>7, <1>8, <1>9

LEMMA RedactedIsHarmless ==
  ASSUME NEW e \in Entries
  PROVE  Redacted(e) \in Seq(Harmless)
  <1>1. CASE ~MentionsLateDay(e)
    <2>1. e \in Harmless
      BY <1>1 DEF Harmless
    <2>2. <<e>> \in Seq(Harmless)
      BY <2>1
    <2> QED BY <1>1, <2>2 DEF Redacted
  <1>2. CASE MentionsLateDay(e) /\ IsTruncated(e)
    <2>1. e.long /\ e.kind = "line" /\ e.own = NoDay
      BY <1>2 DEF IsTruncated, Entries
    <2>2. /\ BeforeLate(e) \in Seq(Nat)
          /\ \A i \in DOMAIN BeforeLate(e) : ~Late(BeforeLate(e)[i])
      BY <1>2, <2>1, BeforeTheFirst
    <2>3. PICK days \in Seq(Nat) : days = BeforeLate(e)
      BY <2>2
    <2>4. PICK cut : cut = [e EXCEPT !.days = days]
      OBVIOUS
    <2>5. cut \in Entries
      BY <2>1, <2>3, <2>4 DEF Entries
    <2>6. cut.days = days /\ cut.own = NoDay
      BY <2>1, <2>4 DEF Entries
    <2>7. DaysOf(cut) = days
      BY <2>6 DEF DaysOf
    <2>8. cut \in Harmless
      BY <2>2, <2>3, <2>5, <2>7 DEF Harmless, MentionsLateDay
    <2>9. <<cut>> \in Seq(Harmless)
      BY <2>8
    <2> QED BY <1>2, <2>3, <2>4, <2>9 DEF Redacted
  <1>3. CASE MentionsLateDay(e) /\ ~IsTruncated(e)
    <2>1. <<>> \in Seq(Harmless)
      OBVIOUS
    <2> QED BY <1>3, <2>1 DEF Redacted
  <1> QED BY <1>1, <1>2, <1>3

\* What a page is cut down to names no late day.
LEMMA GuardedIsHarmless ==
  ASSUME NEW entries \in Seq(Entries)
  PROVE  Guarded(entries) \in Seq(Harmless)
  <1>1. TablesPruned(entries) \in Seq(Entries)
    <2> DEFINE pruned == [i \in DOMAIN entries |-> Pruned(entries[i])]
    <2>1. ASSUME NEW i \in DOMAIN entries
          PROVE  Pruned(entries[i]) \in Seq(Entries)
      <3>1. PICK e \in Entries : e = entries[i]
        OBVIOUS
      <3>2. <<e>> \in Seq(Entries) /\ <<>> \in Seq(Entries)
        OBVIOUS
      <3> QED BY <3>1, <3>2 DEF Pruned
    <2>2. pruned \in Seq(Seq(Entries))
      <3>1. DOMAIN entries = 1..Len(entries) /\ Len(entries) \in Nat
        OBVIOUS
      <3> QED BY <2>1, <3>1
    <2>3. TablesPruned(entries) = FlattenSeq(pruned)
      BY DEF TablesPruned
    <2> HIDE DEF pruned
    <2> QED BY <2>2, <2>3, FlattenElements
  <1>2. PICK kept \in Seq(Entries) : kept = TablesPruned(entries)
    BY <1>1
  <1> DEFINE redacted == [i \in DOMAIN kept |-> Redacted(kept[i])]
  <1>3. \A i \in DOMAIN kept : Redacted(kept[i]) \in Seq(Harmless)
    <2>1. \A i \in DOMAIN kept : kept[i] \in Entries
      OBVIOUS
    <2> QED BY <2>1, RedactedIsHarmless
  <1>4. redacted \in Seq(Seq(Harmless))
    <2>1. DOMAIN kept = 1..Len(kept) /\ Len(kept) \in Nat
      OBVIOUS
    <2> QED BY <1>3, <2>1
  <1>5. Guarded(entries) = FlattenSeq(redacted)
    BY <1>2 DEF Guarded, LinesRedacted
  <1> HIDE DEF redacted
  <1> QED BY <1>4, <1>5, FlattenElements

-----------------------------------------------------------------------------
\* What a call has given is its page cut down; what it has not refused or answered it has
\* not given.  The cache holds what was fetched, uncut.
GivenAsCut(call) ==
  /\ call.page \in WebPages \cup {Nothing}
  /\ \/ call.shown = <<>>
     \/ /\ call.at \notin {"idle", "probe", "jina", "http", "serper", "fetched"}
        /\ ~PublishedLate(call.page) /\ call.shown = Guarded(call.page.entries)

PageInv ==
  /\ rawCache \in WebPages \cup {Nothing}
  /\ fetches = [c \in Fetches |-> fetches[c]]
  /\ \A c \in Fetches : GivenAsCut(fetches[c])

\* One call moves; the others stay as they are.
LEMMA OneCallMoves ==
  ASSUME PageInv, NEW c \in Fetches, NEW call, fetches' = [fetches EXCEPT ![c] = call],
         GivenAsCut(call), rawCache' \in WebPages \cup {Nothing}
  PROVE  PageInv'
  <1>1. /\ fetches' = [d \in Fetches |-> fetches'[d]]
        /\ \A d \in Fetches : fetches'[d] = IF d = c THEN call ELSE fetches[d]
    BY DEF PageInv
  <1>2. \A d \in Fetches : GivenAsCut(fetches'[d])
    BY <1>1 DEF PageInv
  <1>3. (\A d \in Fetches : GivenAsCut(fetches[d]))' <=> \A d \in Fetches : GivenAsCut(fetches'[d])
    BY DEF GivenAsCut, PublishedLate, Guarded, LinesRedacted, TablesPruned
  <1> QED BY <1>1, <1>2, <1>3 DEF PageInv

LEMMA PageStarts == PageInit => PageInv
  BY DEF PageInit, PageInv, GivenAsCut, NoFetch

LEMMA PageSteps == PageInv /\ [PageNext]_pageVars => PageInv'
  <1> SUFFICES ASSUME PageInv, [PageNext]_pageVars
               PROVE  PageInv'
    OBVIOUS
  <1>1. CASE UNCHANGED pageVars
    <2>1. UNCHANGED <<rawCache, fetches>>
      BY <1>1 DEF pageVars
    <2> QED BY <2>1 DEF PageInv, GivenAsCut, PublishedLate
  <1>2. ASSUME NEW c \in Fetches, NEW next, Try(c, next), UNCHANGED rawCache
        PROVE  PageInv'
    <2>1. PICK call : call = [NoFetch EXCEPT !.at = next, !.tries = 1]
      OBVIOUS
    <2>2. GivenAsCut(call)
      BY <2>1 DEF GivenAsCut, NoFetch
    <2>3. fetches' = [fetches EXCEPT ![c] = call] /\ rawCache' \in WebPages \cup {Nothing}
      BY <1>2, <2>1 DEF Try, PageInv
    <2> QED BY <2>2, <2>3, OneCallMoves
  <1>3. ASSUME NEW c \in Fetches, LookUp(c)
        PROVE  PageInv'
    <2>1. CASE rawCache = Nothing
      BY <1>2, <1>3, <2>1 DEF LookUp
    <2>2. CASE rawCache # Nothing
      <3>1. PICK call : call = [NoFetch EXCEPT !.at = "fetched", !.page = rawCache]
        OBVIOUS
      <3>2. GivenAsCut(call)
        BY <3>1 DEF GivenAsCut, NoFetch, PageInv
      <3>3. fetches' = [fetches EXCEPT ![c] = call] /\ rawCache' \in WebPages \cup {Nothing}
        BY <1>3, <2>2, <3>1 DEF LookUp, PageInv
      <3> QED BY <3>2, <3>3, OneCallMoves
    <2> QED BY <2>1, <2>2
  <1>4. ASSUME NEW c \in Fetches, Arrives(c)
        PROVE  PageInv'
    <2>1. PICK webPage \in WebPages : /\ fetches' = [fetches EXCEPT ![c].at = "fetched", ![c].page = webPage]
                                      /\ rawCache' = IF webPage.entries = <<>> THEN rawCache ELSE webPage
      BY <1>4 DEF Arrives
    <2>2. PICK call : call = [fetches[c] EXCEPT !.at = "fetched", !.page = webPage]
      OBVIOUS
    <2>3. GivenAsCut(call)
      BY <1>4, <2>2 DEF GivenAsCut, Arrives, PageInv
    <2>4. fetches' = [fetches EXCEPT ![c] = call] /\ rawCache' \in WebPages \cup {Nothing}
      BY <2>1, <2>2 DEF PageInv
    <2> QED BY <2>3, <2>4, OneCallMoves
  <1>5. ASSUME NEW c \in Fetches, TryAgain(c)
        PROVE  PageInv'
    <2>1. PICK call : call = [fetches[c] EXCEPT !.tries = @ + 1]
      OBVIOUS
    <2>2. GivenAsCut(call)
      BY <1>5, <2>1 DEF GivenAsCut, PageInv
    <2>3. fetches' = [fetches EXCEPT ![c] = call] /\ rawCache' \in WebPages \cup {Nothing}
      BY <1>5, <2>1 DEF TryAgain, PageInv
    <2> QED BY <2>2, <2>3, OneCallMoves
  <1>6. ASSUME NEW c \in Fetches, Gate(c)
        PROVE  PageInv'
    <2>1. PICK next \in {"refused", "notice", "shown", "summarised", "failed"} :
            \E entries \in {<<>>, Delivered(fetches[c])} :
              /\ entries # <<>> => ~PublishedLate(fetches[c].page)
              /\ fetches' = [fetches EXCEPT ![c].at = next, ![c].shown = entries]
      BY <1>6 DEF Gate
    <2>2. PICK entries \in {<<>>, Delivered(fetches[c])} :
            /\ entries # <<>> => ~PublishedLate(fetches[c].page)
            /\ fetches' = [fetches EXCEPT ![c].at = next, ![c].shown = entries]
      BY <2>1
    <2>3. PICK call : call = [fetches[c] EXCEPT !.at = next, !.shown = entries]
      OBVIOUS
    <2>4. GivenAsCut(call)
      BY <2>2, <2>3 DEF GivenAsCut, PageInv, Delivered
    <2>5. fetches' = [fetches EXCEPT ![c] = call] /\ rawCache' \in WebPages \cup {Nothing}
      BY <1>6, <2>2, <2>3 DEF PageInv, Gate
    <2> QED BY <2>4, <2>5, OneCallMoves
  <1>7. CASE \E c \in Fetches : FetchStep(c)
    <2>1. PICK c \in Fetches : FetchStep(c)
      BY <1>7
    <2>2. CASE BackendFails(c)
      BY <1>2, <2>2 DEF BackendFails
    <2> QED BY <1>3, <1>4, <1>5, <1>6, <2>1, <2>2 DEF FetchStep
  <1> QED BY <1>1, <1>7 DEF PageNext

\* Whatever backends, retries and the cache the page came by, and whatever the URL held
\* each time: what names a day on or after the boundary does not reach the agent.
THEOREM NothingLateIsGiven == PageSpec => []NothingLateGiven
  <1>1. PageInv => NothingLateGiven
    <2> SUFFICES ASSUME PageInv, NEW c \in Fetches, NEW i \in DOMAIN fetches[c].shown
                 PROVE  ~PublishedLate(fetches[c].page) /\ ~MentionsLateDay(fetches[c].shown[i])
      BY DEF NothingLateGiven
    <2>1. PICK shown : shown = fetches[c].shown
      OBVIOUS
    <2>2. shown # <<>>
      BY <2>1
    <2>3. GivenAsCut(fetches[c])
      BY DEF PageInv
    <2>4. ~PublishedLate(fetches[c].page) /\ shown = Guarded(fetches[c].page.entries)
      BY <2>1, <2>2, <2>3 DEF GivenAsCut
    <2>5. fetches[c].page.entries \in Seq(Entries)
      <3>1. Nothing.entries = <<>> /\ <<>> \in Seq(Entries)
        BY DEF Nothing
      <3>2. fetches[c].page \in WebPages \cup {Nothing}
        BY <2>3 DEF GivenAsCut
      <3>3. CASE fetches[c].page \in WebPages
        BY <3>3, PageToolAssumption
      <3>4. CASE fetches[c].page = Nothing
        BY <3>1, <3>4
      <3> QED BY <3>2, <3>3, <3>4
    <2>6. shown \in Seq(Harmless)
      BY <2>4, <2>5, GuardedIsHarmless
    <2>7. shown[i] \in Harmless
      BY <2>1, <2>6
    <2> QED BY <2>1, <2>4, <2>7 DEF Harmless
  <1> QED BY <1>1, PageStarts, PageSteps, PTL DEF PageSpec

-----------------------------------------------------------------------------
(***************************************************************************)
(* A page asked about in chunks.  Where the next chunk begins, every fact  *)
(* before it was found, was in a request that failed or in a half that was *)
(* given up; a round that ends puts what was found into the next text or   *)
(* into the answer.                                                        *)
(***************************************************************************)
Cells == (UNION {ToSet(document) : document \in Documents}) \cup {Noise}
InFindings == UNION {Facts(findings[i]) : i \in DOMAIN findings}
Excused == failed \cup givenUp

ExtractionTypes ==
  /\ page \in Seq(Cells) /\ text \in Seq(Cells) /\ answer \in Seq(Cells) /\ findings \in Seq(Seq(Cells))
  /\ depth \in Nat /\ anchored \in BOOLEAN /\ start \in 0..Len(text)

\* The text of this round still tells of the page, and what is before the next chunk of it
\* is accounted for.
RoundAccounted ==
  /\ Facts(page) \subseteq Excused \cup Facts(text)
  /\ \A k \in 1..start : text[k] = Noise \/ text[k] \in Excused \cup InFindings

ExtractionInv ==
  /\ ExtractionTypes
  /\ phase \in {"anchoring", "mapping"} => RoundAccounted
  /\ EveryFactAccounted

-----------------------------------------------------------------------------
\* What is put end to end has every element of its parts.
LEMMA FlattenContains ==
  ASSUME NEW S, NEW seqs \in Seq(Seq(S)), NEW j \in 1..Len(seqs), NEW c \in 1..Len(seqs[j])
  PROVE  \E p \in 1..Len(FlattenSeq(seqs)) : FlattenSeq(seqs)[p] = seqs[j][c]
  <1> DEFINE n == Len(seqs)
             f == CHOOSE f : Flattened(seqs, f, n)
             Has(m) == \E p \in 1..Len(f[m]) : f[m][p] = seqs[j][c]
             bad == {m \in Nat : m \in j..n /\ ~Has(m)}
  <1>1. n \in Nat /\ j \in 1..n /\ \A i \in 1..n : seqs[i] \in Seq(S)
    OBVIOUS
  <1>2. Flattened(seqs, f, n)
    BY <1>1, FlattenedExists
  <1>3. FlattenSeq(seqs) = f[n]
    BY <1>1 DEF FlattenSeq, Flattened
  <1> HIDE DEF f
  <1>4. \A i \in 1..n : f[i] \in Seq(S) /\ f[i] = IF i = 1 THEN seqs[i] ELSE f[i - 1] \o seqs[i]
    BY <1>1, <1>2, FlattenedElements DEF Flattened
  <1>5. bad # {} => \E k \in bad : \A m \in bad : k <= m
    <2>1. bad \in SUBSET Nat
      OBVIOUS
    <2> HIDE DEF bad
    <2> QED BY <2>1, LeastNumber
  <1>6. Has(j)
    <2>1. CASE j = 1
      <3>1. f[j] = seqs[j]
        BY <1>1, <1>4, <2>1
      <3> QED BY <3>1
    <2>2. CASE j # 1
      <3>1. PICK head \in Seq(S) : head = f[j - 1]
        <4>1. j - 1 \in 1..n
          BY <1>1, <2>2
        <4> QED BY <1>4, <4>1
      <3>2. f[j] = head \o seqs[j] /\ seqs[j] \in Seq(S)
        BY <1>1, <1>4, <2>2, <3>1
      <3>3. Len(head) + c \in 1..Len(head \o seqs[j]) /\ (head \o seqs[j])[Len(head) + c] = seqs[j][c]
        BY <3>2
      <3> QED BY <3>2, <3>3
    <2> QED BY <2>1, <2>2
  <1>7. ASSUME NEW k \in bad, \A m \in bad : k <= m
        PROVE  FALSE
    <2>1. k \in j..n /\ ~Has(k)
      OBVIOUS
    <2>2. k # j
      BY <1>6, <2>1
    <2>3. k - 1 \in Nat /\ k - 1 \in j..n /\ k - 1 \in 1..n /\ k \in 1..n /\ k # 1 /\ ~(k <= k - 1)
      BY <1>1, <2>1, <2>2
    <2>4. k - 1 \notin bad
      <3> HIDE DEF bad
      <3> QED BY <1>7, <2>3
    <2>5. Has(k - 1)
      <3> HIDE DEF Has
      <3> QED BY <2>3, <2>4
    <2>6. PICK head \in Seq(S), tail \in Seq(S) : head = f[k - 1] /\ tail = seqs[k]
      BY <1>1, <1>4, <2>3
    <2>7. f[k] = head \o tail
      BY <1>4, <2>3, <2>6
    <2>8. PICK p \in 1..Len(head) : head[p] = seqs[j][c]
      BY <2>5, <2>6
    <2>9. p \in 1..Len(head \o tail) /\ (head \o tail)[p] = seqs[j][c]
      BY <2>8
    <2> QED BY <2>1, <2>7, <2>9
  <1>8. n \notin bad
    BY <1>5, <1>7
  <1>9. n \in Nat /\ n \in j..n
    BY <1>1
  <1> QED BY <1>3, <1>8, <1>9

\* A report leaves out no fact.
LEMMA ReportedKeeps ==
  ASSUME NEW cells \in Seq(Cells)
  PROVE  Reported(cells) \in Seq(Cells) /\ Facts(cells) \subseteq Facts(Reported(cells))
  <1> DEFINE parts == [i \in DOMAIN cells |-> IF cells[i] = Noise THEN <<>> ELSE <<cells[i]>>]
  <1>1. \A i \in 1..Len(cells) : cells[i] \in Cells
    OBVIOUS
  <1>2. \A i \in 1..Len(cells) : parts[i] \in Seq(Cells) /\ (cells[i] # Noise => parts[i] = <<cells[i]>>)
    <2> SUFFICES ASSUME NEW i \in 1..Len(cells)
                 PROVE  parts[i] \in Seq(Cells) /\ (cells[i] # Noise => parts[i] = <<cells[i]>>)
      OBVIOUS
    <2>1. parts[i] = IF cells[i] = Noise THEN <<>> ELSE <<cells[i]>>
      OBVIOUS
    <2> QED BY <1>1, <2>1
  <1>3. DOMAIN parts = 1..Len(cells) /\ Len(cells) \in Nat /\ parts = [i \in 1..Len(cells) |-> parts[i]]
    OBVIOUS
  <1> HIDE DEF parts
  <1>4. parts \in Seq(Seq(Cells)) /\ Len(parts) = Len(cells)
    <2>1. parts \in [1..Len(cells) -> Seq(Cells)]
      BY <1>2, <1>3
    <2> QED BY <1>3, <2>1
  <1>5. Reported(cells) = FlattenSeq(parts)
    BY DEF Reported, parts
  <1>6. Reported(cells) \in Seq(Cells)
    BY <1>4, <1>5, FlattenElements
  <1>7. ASSUME NEW fact \in Facts(cells)
        PROVE  fact \in Facts(Reported(cells))
    <2>1. PICK i \in 1..Len(cells) : fact = cells[i] /\ fact # Noise
      BY DEF Facts, ToSet
    <2>2. parts[i] = <<fact>>
      BY <1>2, <2>1
    <2>3. i \in 1..Len(parts) /\ 1 \in 1..Len(parts[i]) /\ parts[i][1] = fact
      BY <1>4, <2>2
    <2>4. PICK p \in 1..Len(FlattenSeq(parts)) : FlattenSeq(parts)[p] = parts[i][1]
      BY <1>4, <2>3, FlattenContains
    <2>5. PICK told \in Seq(Cells) : told = Reported(cells)
      BY <1>6
    <2>6. p \in DOMAIN told /\ told[p] = fact
      BY <1>5, <2>3, <2>4, <2>5
    <2> QED BY <2>1, <2>5, <2>6 DEF Facts, ToSet
  <1> QED BY <1>6, <1>7

LEMMA NoiseIsCell == Noise \in Cells
  BY DEF Cells

\* Findings under their headers are all there.
LEMMA CombinedKeeps ==
  ASSUME NEW parts \in Seq(Seq(Cells))
  PROVE  /\ Combined(parts) \in Seq(Cells)
         /\ \A i \in DOMAIN parts : Facts(parts[i]) \subseteq Facts(Combined(parts))
  <1> DEFINE headed == [i \in DOMAIN parts |-> <<Noise>> \o parts[i]]
  <1>1. \A i \in 1..Len(parts) : parts[i] \in Seq(Cells)
    OBVIOUS
  <1>2. Noise \in Cells
    BY NoiseIsCell
  <1>3. \A i \in 1..Len(parts) : headed[i] = <<Noise>> \o parts[i] /\ headed[i] \in Seq(Cells)
    BY <1>1, <1>2
  <1>4. DOMAIN headed = 1..Len(parts) /\ Len(parts) \in Nat /\ headed = [i \in 1..Len(parts) |-> headed[i]]
    OBVIOUS
  <1>5. Combined(parts) = FlattenSeq(headed)
    BY DEF Combined
  <1> HIDE DEF headed
  <1>6. headed \in Seq(Seq(Cells)) /\ Len(headed) = Len(parts)
    <2>1. headed \in [1..Len(parts) -> Seq(Cells)]
      BY <1>3, <1>4
    <2>2. PICK n \in Nat : n = Len(parts)
      BY <1>4
    <2>3. headed \in [1..n -> Seq(Cells)]
      BY <2>1, <2>2
    <2>4. headed \in Seq(Seq(Cells)) /\ Len(headed) = n
      BY <2>3
    <2> QED BY <2>2, <2>4
  <1>7. Combined(parts) \in Seq(Cells)
    BY <1>5, <1>6, FlattenElements
  <1>8. ASSUME NEW i \in 1..Len(parts), NEW fact \in Facts(parts[i])
        PROVE  fact \in Facts(Combined(parts))
    <2>1. PICK c \in 1..Len(parts[i]) : fact = parts[i][c] /\ fact # Noise
      BY <1>1 DEF Facts, ToSet
    <2>2. i \in 1..Len(headed) /\ 1 + c \in 1..Len(headed[i]) /\ headed[i][1 + c] = fact
      BY <1>1, <1>2, <1>3, <1>6, <2>1
    <2>3. PICK p \in 1..Len(FlattenSeq(headed)) : FlattenSeq(headed)[p] = headed[i][1 + c]
      BY <1>6, <2>2, FlattenContains
    <2>4. PICK told \in Seq(Cells) : told = Combined(parts)
      BY <1>7
    <2>5. p \in DOMAIN told /\ told[p] = fact
      BY <1>5, <2>2, <2>3, <2>4
    <2> QED BY <2>1, <2>4, <2>5 DEF Facts, ToSet
  <1>9. DOMAIN parts = 1..Len(parts)
    OBVIOUS
  <1> QED BY <1>7, <1>8, <1>9

\* A chunk is not empty, and the next one begins no later than it ends.
LEMMA ChunksMeet ==
  ASSUME ExtractionTypes, start < Len(text), NEW end \in ChunkEnds(depth)
  PROVE  end \in (start + 1)..Len(text) /\ NextStart(end) \in 0..end
  <1>1. start \in Nat /\ Len(text) \in Nat
    BY DEF ExtractionTypes
  <1>2. PICK size \in Nat : size = ChunkSize(depth) /\ size >= 1
    <2>1. PICK wrapped \in Nat : wrapped = ReduceWords + IF anchored THEN AnchorWords ELSE 0
      BY ExtractionAssumption
    <2>2. depth * wrapped \in Nat
      BY DEF ExtractionTypes
    <2>3. Overhead(depth) \in Nat
      BY <2>1, <2>2, ExtractionAssumption DEF Overhead
    <2> QED BY <2>3, ExtractionAssumption DEF ChunkSize, AtLeast
  <1>3. Overlap(depth) \in Nat
    BY <1>2, ExtractionAssumption DEF Overlap, AtMost
  <1>4. PICK full \in (start + 1)..Len(text) : full = AtMost(Len(text), start + ChunkSize(depth))
    BY <1>1, <1>2 DEF AtMost
  <1>5. end = full \/ (end > start /\ end \in start + AtLeast(1, (full - start) \div 2)..full)
    BY <1>4 DEF ChunkEnds
  <1>6. start + AtLeast(1, (full - start) \div 2) \in Int
    BY <1>1, <1>4 DEF AtLeast
  <1>7. end \in (start + 1)..Len(text)
    BY <1>1, <1>4, <1>5, <1>6
  <1>8. NextStart(end) \in 0..end
    BY <1>1, <1>3, <1>7 DEF NextStart, AtLeast
  <1> QED BY <1>7, <1>8

LEMMA ExtractionStarts == ExtractionInit => ExtractionInv
  <1> SUFFICES ASSUME ExtractionInit
               PROVE  ExtractionInv
    OBVIOUS
  <1>1. page \in Seq(Cells)
    <2>1. page \in Documents /\ page \in Seq(ToSet(page))
      BY ExtractionAssumption DEF ExtractionInit
    <2>2. ToSet(page) \subseteq Cells
      BY <2>1 DEF Cells
    <2> QED BY <2>1, <2>2
  <1>2. ExtractionTypes
    <2>1. <<>> \in Seq(Cells) /\ <<>> \in Seq(Seq(Cells)) /\ 0 \in Nat /\ 0 \in 0..Len(page) /\ FALSE \in BOOLEAN
      BY <1>1
    <2> QED BY <1>1, <2>1 DEF ExtractionInit, ExtractionTypes
  <1>3. RoundAccounted
    BY DEF ExtractionInit, RoundAccounted
  <1>4. EveryFactAccounted
    BY DEF ExtractionInit, EveryFactAccounted
  <1> QED BY <1>2, <1>3, <1>4 DEF ExtractionInv

\* A chunk that was asked about is accounted for, whatever has become of the request.
LEMMA AskChunkKeeps ==
  ASSUME ExtractionInv, AskChunk
  PROVE  ExtractionInv'
  <1>1. /\ ExtractionTypes /\ RoundAccounted /\ start < Len(text)
        /\ UNCHANGED <<page, anchored, text, depth, answer, phase>> /\ phase = "mapping"
    BY DEF AskChunk, ExtractionInv
  <1>2. PICK end \in ChunkEnds(depth) :
          LET chunk == SubSeq(text, start + 1, end)
          IN  /\ start' = NextStart(end)
              /\ \/ \E shown \in {chunk} \cup Halves(chunk) :
                      /\ findings' = IF Reported(shown) = <<>> THEN findings
                                     ELSE Append(findings, Reported(shown))
                      /\ givenUp' = givenUp \cup (Facts(chunk) \ Facts(shown))
                      /\ failed' = failed
                 \/ /\ failed' = failed \cup Facts(chunk)
                    /\ UNCHANGED <<findings, givenUp>>
    BY DEF AskChunk
  <1>3. end \in (start + 1)..Len(text) /\ start' \in 0..end
    BY <1>1, <1>2, ChunksMeet
  <1>4. PICK chunk \in Seq(Cells) : chunk = SubSeq(text, start + 1, end)
    <2>1. text \in Seq(Cells) /\ start + 1 \in Nat /\ start + 1 >= 1 /\ end \in Nat /\ end <= Len(text)
      BY <1>1, <1>3 DEF ExtractionTypes
    <2>2. \A i \in 1..Len(text) : text[i] \in Cells
      BY <2>1
    <2>3. SubSeq(text, start + 1, end) \in Seq(Cells)
      BY <2>1, <2>2
    <2> QED BY <2>3
  <1>5. Facts(chunk) \subseteq Excused' \cup InFindings' /\ findings' \in Seq(Seq(Cells))
        /\ Excused \subseteq Excused' /\ InFindings \subseteq InFindings'
    <2>1. ASSUME NEW shown \in {chunk} \cup Halves(chunk),
                 findings' = IF Reported(shown) = <<>> THEN findings ELSE Append(findings, Reported(shown)),
                 givenUp' = givenUp \cup (Facts(chunk) \ Facts(shown)), failed' = failed
          PROVE  /\ Facts(chunk) \subseteq Excused' \cup InFindings' /\ findings' \in Seq(Seq(Cells))
                 /\ Excused \subseteq Excused' /\ InFindings \subseteq InFindings'
      <3>1. shown \in Seq(Cells)
        BY DEF Halves
      <3>2. PICK told \in Seq(Cells) : told = Reported(shown) /\ Facts(shown) \subseteq Facts(told)
        BY <3>1, ReportedKeeps
      <3>3. findings \in Seq(Seq(Cells))
        BY <1>1 DEF ExtractionTypes
      <3>4. CASE told = <<>>
        <4>1. findings' = findings /\ Facts(shown) = {}
          BY <2>1, <3>2, <3>4 DEF Facts, ToSet
        <4> QED BY <2>1, <3>3, <4>1 DEF Excused, InFindings
      <3>5. CASE told # <<>>
        <4>1. findings' = Append(findings, told)
          BY <2>1, <3>2, <3>5
        <4>2. /\ findings' \in Seq(Seq(Cells)) /\ DOMAIN findings \subseteq DOMAIN findings'
              /\ Len(findings) + 1 \in DOMAIN findings' /\ findings'[Len(findings) + 1] = told
              /\ \A i \in DOMAIN findings : findings'[i] = findings[i]
          BY <3>3, <4>1
        <4>3. Facts(told) \subseteq InFindings' /\ InFindings \subseteq InFindings'
          BY <4>2 DEF InFindings, Facts
        <4> QED BY <2>1, <3>2, <4>2, <4>3 DEF Excused
      <3> QED BY <3>4, <3>5
    <2>2. ASSUME failed' = failed \cup Facts(chunk), UNCHANGED <<findings, givenUp>>
          PROVE  /\ Facts(chunk) \subseteq Excused' \cup InFindings' /\ findings' \in Seq(Seq(Cells))
                 /\ Excused \subseteq Excused' /\ InFindings \subseteq InFindings'
      <3>1. findings \in Seq(Seq(Cells))
        BY <1>1 DEF ExtractionTypes
      <3> QED BY <2>2, <3>1 DEF Excused, InFindings
    <2> QED BY <1>2, <1>4, <2>1, <2>2
  <1>6. ASSUME NEW k \in 1..start'
        PROVE  text'[k] = Noise \/ text'[k] \in Excused' \cup InFindings'
    <2>0. k \in 1..end /\ start \in Nat /\ end \in Nat /\ text' = text
      BY <1>1, <1>3 DEF ExtractionTypes
    <2>1. CASE k \in 1..start
      BY <1>1, <1>5, <2>0, <2>1 DEF RoundAccounted
    <2>2. CASE k \notin 1..start
      <3>0. k - start \in 1..(end - start) /\ start + (k - start) = k
        BY <1>3, <2>0, <2>2
      <3>1. k - start \in 1..Len(chunk) /\ chunk[k - start] = text[k]
        <4>1. Len(chunk) = end - start
          BY <1>3, <1>4, <2>0
        <4>2. \A i \in 1..(end - start) : chunk[i] = text[start + i]
          BY <1>3, <1>4, <2>0
        <4>3. k - start \in 1..(end - start) /\ text[start + (k - start)] = text[k]
          BY <3>0
        <4> QED BY <4>1, <4>2, <4>3
      <3>2. text[k] = Noise \/ text[k] \in Facts(chunk)
        BY <3>1 DEF Facts, ToSet
      <3> QED BY <1>5, <2>0, <3>2
    <2> QED BY <2>1, <2>2
  <1>7. RoundAccounted'
    <2>1. Facts(page') \subseteq Excused' \cup Facts(text')
      BY <1>1, <1>5 DEF RoundAccounted, Facts
    <2> QED BY <1>6, <2>1 DEF RoundAccounted, Facts
  <1>8. ExtractionTypes'
    <2>1. start' \in 0..Len(text)
      BY <1>1, <1>3 DEF ExtractionTypes
    <2> QED BY <1>1, <1>5, <2>1 DEF ExtractionTypes
  <1>9. EveryFactAccounted'
    BY <1>1 DEF EveryFactAccounted
  <1> QED BY <1>7, <1>8, <1>9 DEF ExtractionInv

\* When a round is through, what is not excused was found in it.
LEMMA RoundFound ==
  ASSUME ExtractionInv, phase = "mapping", start = Len(text)
  PROVE  Facts(page) \subseteq Excused \cup InFindings
  <1>1. text \in Seq(Cells) /\ RoundAccounted
    BY DEF ExtractionInv, ExtractionTypes
  <1>2. Facts(text) \subseteq Excused \cup InFindings
    BY <1>1 DEF RoundAccounted, Facts, ToSet
  <1> QED BY <1>1, <1>2 DEF RoundAccounted

LEMMA ConcludeKeeps ==
  ASSUME ExtractionInv, Conclude
  PROVE  ExtractionInv'
  <1>1. ExtractionTypes /\ phase = "mapping" /\ start = Len(text) /\ page' = page /\ anchored' = anchored
    BY DEF ExtractionInv, Conclude
  <1>2. Facts(page) \subseteq Excused \cup InFindings
    BY <1>1, RoundFound
  <1>3. PICK all \in Seq(Cells) : all = Combined(findings) /\ InFindings \subseteq Facts(all)
    BY <1>1, CombinedKeeps DEF ExtractionTypes, InFindings
  \* What returns an answer that has all that was found, or excuses the rest.
  <1>4. ASSUME NEW cells \in Seq(Cells), answer' = cells, phase' \in {"done"}, failed' = failed,
               givenUp \subseteq givenUp', InFindings \subseteq Facts(cells) \cup givenUp', UNCHANGED round
        PROVE  ExtractionInv'
    <2>1. ExtractionTypes'
      BY <1>1, <1>4 DEF ExtractionTypes, round
    <2>2. Facts(page') \subseteq Facts(answer') \cup failed' \cup givenUp'
      BY <1>1, <1>2, <1>4 DEF Excused, Facts
    <2> QED BY <1>4, <2>1, <2>2 DEF ExtractionInv, EveryFactAccounted, Facts
  <1>5. CASE NothingFound
    <2>1. InFindings = {}
      BY <1>5 DEF NothingFound, InFindings
    <2>2. CASE phase' = "failed" /\ UNCHANGED <<round, answer, history>>
      <3>1. ExtractionTypes'
        BY <1>1, <2>2 DEF ExtractionTypes, round
      <3> QED BY <2>2, <3>1 DEF ExtractionInv, EveryFactAccounted
    <2>3. CASE Returns(<<>>)
      <3>1. <<>> \in Seq(Cells)
        OBVIOUS
      <3> QED BY <1>4, <2>1, <2>3, <3>1 DEF Returns, history
    <2> QED BY <1>5, <2>2, <2>3 DEF NothingFound
  <1>6. CASE OneFinding
    <2>1. PICK cells \in Seq(Cells) : cells = findings[1]
      <3>1. findings \in Seq(Seq(Cells)) /\ Len(findings) = 1
        BY <1>1, <1>6 DEF OneFinding, ExtractionTypes
      <3>2. 1 \in 1..Len(findings)
        BY <3>1
      <3>3. PICK parts \in Seq(Seq(Cells)) : parts = findings
        BY <3>1
      <3>4. \A i \in 1..Len(parts) : parts[i] \in Seq(Cells)
        OBVIOUS
      <3> QED BY <3>2, <3>3, <3>4
    <2>2. InFindings \subseteq Facts(cells)
      BY <1>1, <1>6, <2>1 DEF OneFinding, ExtractionTypes, InFindings
    <2>3. answer' = cells /\ phase' \in {"done"} /\ failed' = failed /\ givenUp' = givenUp /\ UNCHANGED round
      BY <1>6, <2>1 DEF OneFinding, Returns, history
    <2> QED BY <1>4, <2>2, <2>3
  <1>7. CASE Recurse
    <2>1. /\ text' = all /\ depth' = depth + 1 /\ start' = 0 /\ findings' = <<>>
          /\ answer' = answer /\ phase' = phase /\ failed' = failed /\ givenUp' = givenUp
      BY <1>3, <1>7 DEF Recurse, history
    <2>2. ExtractionTypes'
      BY <1>1, <2>1 DEF ExtractionTypes
    <2>3. RoundAccounted'
      <3>1. Facts(page') \subseteq Excused' \cup Facts(text')
        BY <1>1, <1>2, <1>3, <2>1 DEF Excused, Facts
      <3> QED BY <2>1, <3>1 DEF RoundAccounted, Facts
    <2> QED BY <1>1, <2>1, <2>2, <2>3 DEF ExtractionInv, EveryFactAccounted
  <1>8. CASE ReturnCombined
    <2>1. answer' = all /\ phase' \in {"done"} /\ failed' = failed /\ givenUp' = givenUp /\ UNCHANGED round
      BY <1>3, <1>8 DEF ReturnCombined, Returns, history
    <2> QED BY <1>3, <1>4, <2>1
  <1>9. CASE Merge
    <2>1. CASE Returns(Combined(findings))
      <3>1. answer' = all /\ phase' \in {"done"} /\ failed' = failed /\ givenUp' = givenUp /\ UNCHANGED round
        BY <1>3, <2>1 DEF Returns, history
      <3> QED BY <1>3, <1>4, <3>1
    <2>2. ASSUME NEW shown \in Halves(all), answer' = Reported(shown), phase' = "done",
                 givenUp' = givenUp \cup (Facts(all) \ Facts(shown)), UNCHANGED <<round, failed, found>>
          PROVE  ExtractionInv'
      <3>1. shown \in Seq(Cells)
        BY DEF Halves
      <3>2. PICK cells \in Seq(Cells) : cells = Reported(shown) /\ Facts(shown) \subseteq Facts(cells)
        BY <3>1, ReportedKeeps
      <3>3. InFindings \subseteq Facts(cells) \cup givenUp' /\ givenUp \subseteq givenUp'
        BY <1>3, <2>2, <3>2
      <3>4. answer' = cells /\ phase' \in {"done"} /\ failed' = failed /\ UNCHANGED round
        BY <2>2, <3>2
      <3> QED BY <1>4, <3>3, <3>4
    <2> QED BY <1>3, <1>9, <2>1, <2>2 DEF Merge
  <1> QED BY <1>5, <1>6, <1>7, <1>8, <1>9 DEF Conclude

LEMMA ExtractionSteps == ExtractionInv /\ [ExtractionNext]_extractionVars => ExtractionInv'
  <1> SUFFICES ASSUME ExtractionInv, [ExtractionNext]_extractionVars
               PROVE  ExtractionInv'
    OBVIOUS
  <1>1. CASE AskAnchor
    <2>1. /\ UNCHANGED <<page, answer, text, depth, start, findings, failed, givenUp>>
          /\ anchored' \in BOOLEAN /\ phase = "anchoring" /\ phase' = "mapping"
      BY <1>1 DEF AskAnchor, round, history
    <2>2. ExtractionTypes' /\ RoundAccounted'
      BY <2>1 DEF ExtractionInv, ExtractionTypes, RoundAccounted, Excused, InFindings, Facts
    <2> QED BY <2>1, <2>2 DEF ExtractionInv, EveryFactAccounted
  <1>2. CASE UNCHANGED extractionVars
    <2>1. UNCHANGED <<page, anchored, text, depth, start, findings, answer, phase, failed, givenUp>>
      BY <1>2 DEF extractionVars
    <2>2. ExtractionTypes' = ExtractionTypes /\ RoundAccounted' = RoundAccounted /\ EveryFactAccounted' = EveryFactAccounted
      BY <2>1 DEF ExtractionTypes, RoundAccounted, EveryFactAccounted, Excused, InFindings, Facts
    <2> QED BY <2>1, <2>2 DEF ExtractionInv
  <1> QED BY <1>1, <1>2, AskChunkKeeps, ConcludeKeeps DEF ExtractionNext

\* However a page is cut and its findings merged, over however many rounds, a fact that
\* is not in the answer was in a request that failed or in a half that was given up.
THEOREM FactsAreAccounted == ExtractionSpec => []EveryFactAccounted
  <1>1. ExtractionInv => EveryFactAccounted
    BY DEF ExtractionInv
  <1> QED BY <1>1, ExtractionStarts, ExtractionSteps, PTL DEF ExtractionSpec

-----------------------------------------------------------------------------
(***************************************************************************)
(* Cutting a table at its lines: where the lines of a text end.            *)
(***************************************************************************)
\* f tells where the text ends after each of the first n lines.
EndsCounted(list, lines, f, n) ==
  f = [i \in 0..n |-> IF i = 0 THEN 0 ELSE f[i - 1] + IF i \in lines THEN list[i].size + 1 ELSE 0]

LEMMA EndsCountedOnce ==
  ASSUME NEW list, NEW lines, NEW k \in Nat, NEW f, EndsCounted(list, lines, f, k)
  PROVE  \E g : EndsCounted(list, lines, g, k + 1)
  <1> DEFINE step(i) == IF i \in lines THEN list[i].size + 1 ELSE 0
             g == [i \in 0..(k + 1) |-> IF i = 0 THEN 0 ELSE f[i - 1] + step(i)]
  <1>1. \A i \in 0..k : f[i] = IF i = 0 THEN 0 ELSE f[i - 1] + step(i)
    BY DEF EndsCounted
  <1> HIDE DEF step
  <1>2. \A i \in 0..k : i \in 0..(k + 1) /\ g[i] = f[i]
    BY <1>1
  <1>3. \A i \in 0..(k + 1) : i # 0 => i - 1 \in 0..k
    OBVIOUS
  <1>4. \A i \in 0..(k + 1) : i # 0 => g[i - 1] = f[i - 1]
    BY <1>2, <1>3
  <1>5. g = [i \in 0..(k + 1) |-> IF i = 0 THEN 0 ELSE g[i - 1] + step(i)]
    BY <1>4
  <1> QED BY <1>5 DEF EndsCounted, step

LEMMA EndsCountedExists ==
  ASSUME NEW list, NEW lines, NEW n \in Nat
  PROVE  \E f : EndsCounted(list, lines, f, n)
  <1> DEFINE missing == {m \in Nat : ~\E f : EndsCounted(list, lines, f, m)}
  <1>1. missing # {} => \E k \in missing : \A m \in missing : k <= m
    <2>1. missing \in SUBSET Nat
      OBVIOUS
    <2> HIDE DEF missing
    <2> QED BY <2>1, LeastNumber
  <1>2. 0 \notin missing
    <2>1. EndsCounted(list, lines, [i \in 0..0 |-> 0], 0)
      BY DEF EndsCounted
    <2> QED BY <2>1
  <1>3. ASSUME NEW k \in missing, \A m \in missing : k <= m
        PROVE  FALSE
    <2>1. k # 0 /\ k - 1 \in Nat /\ k = (k - 1) + 1
      BY <1>2
    <2>2. k - 1 \notin missing
      <3>1. ~(k <= k - 1)
        BY <2>1
      <3> HIDE DEF missing
      <3> QED BY <1>3, <3>1
    <2>3. PICK f : EndsCounted(list, lines, f, k - 1)
      BY <2>1, <2>2
    <2>4. \E g : EndsCounted(list, lines, g, k)
      BY <2>1, <2>3, EndsCountedOnce
    <2> QED BY <2>4
  <1>4. n \notin missing
    BY <1>1, <1>3
  <1> QED BY <1>4

LEMMA EndsAreCounted ==
  ASSUME NEW list, NEW lines, Len(list) \in Nat
  PROVE  EndsCounted(list, lines, EndsOf(list, lines), Len(list))
  <1> DEFINE f == CHOOSE f : EndsCounted(list, lines, f, Len(list))
  <1>1. EndsCounted(list, lines, f, Len(list))
    BY EndsCountedExists
  <1>2. EndsOf(list, lines) = f
    BY DEF EndsOf, EndsCounted
  <1> QED BY <1>1, <1>2

\* Ends in numbers that never fall, and only rise by a line that is kept.
Layout(e, list, lines, n) ==
  /\ \A i \in 0..n : e[i] \in Nat
  /\ e[0] = 0
  /\ \A i \in lines : e[i] = e[i - 1] + list[i].size + 1
  /\ \A i, j \in 0..n : i <= j => e[i] <= e[j]
  /\ \A i \in 0..n : e[i] > 0 => \E m \in lines : e[m] = e[i]

LEMMA LaidOut ==
  ASSUME NEW list \in Seq(TableLine), NEW lines \in SUBSET (1..Len(list))
  PROVE  Layout(EndsOf(list, lines), list, lines, Len(list))
  <1>1. PICK n \in Nat : n = Len(list)
    OBVIOUS
  <1>2. PICK e : e = EndsOf(list, lines)
    OBVIOUS
  <1>3. PICK step : step = [i \in 1..n |-> IF i \in lines THEN list[i].size + 1 ELSE 0]
    OBVIOUS
  <1>4. /\ \A i \in lines : i \in 1..n /\ step[i] = list[i].size + 1 /\ list[i].size \in Nat
        /\ \A i \in 1..n : step[i] \in Nat /\ (i \notin lines => step[i] = 0)
    <2>1. \A i \in 1..n : list[i] \in TableLine
      BY <1>1
    <2>2. \A i \in 1..n : list[i].size \in Nat
      BY <2>1 DEF TableLine
    <2> QED BY <1>1, <1>3, <2>2
  <1>5. EndsCounted(list, lines, e, n)
    BY <1>1, <1>2, EndsAreCounted
  <1>6. e[0] = 0 /\ \A i \in 1..n : e[i] = e[i - 1] + step[i]
    <2>1. \A i \in 0..n : e[i] = IF i = 0 THEN 0 ELSE e[i - 1] + IF i \in lines THEN list[i].size + 1 ELSE 0
      BY <1>5 DEF EndsCounted
    <2>2. \A i \in 1..n : i \in 0..n /\ i # 0 /\ step[i] = IF i \in lines THEN list[i].size + 1 ELSE 0
      BY <1>3
    <2>3. 0 \in 0..n
      OBVIOUS
    <2> QED BY <2>1, <2>2, <2>3
  <1>7. \A i \in 0..n : e[i] \in Nat
    <2> DEFINE bad == {m \in Nat : m \in 0..n /\ e[m] \notin Nat}
    <2>1. bad # {} => \E k \in bad : \A m \in bad : k <= m
      <3>1. bad \in SUBSET Nat
        OBVIOUS
      <3> HIDE DEF bad
      <3> QED BY <3>1, LeastNumber
    <2>2. ASSUME NEW k \in bad, \A m \in bad : k <= m
          PROVE  FALSE
      <3>1. k \in 1..n
        BY <1>6
      <3>2. k - 1 \in Nat /\ k - 1 \in 0..n /\ ~(k <= k - 1)
        BY <3>1
      <3>3. k - 1 \notin bad
        <4> HIDE DEF bad
        <4> QED BY <2>2, <3>2
      <3>4. e[k] = e[k - 1] + step[k] /\ step[k] \in Nat /\ e[k - 1] \in Nat
        BY <1>4, <1>6, <3>1, <3>2, <3>3
      <3>5. e[k] \in Nat
        BY <3>4
      <3> QED BY <3>5
    <2>3. \A i \in 0..n : i \in Nat
      OBVIOUS
    <2> QED BY <2>1, <2>2, <2>3
  <1>8. ASSUME NEW i \in 0..n, NEW j \in 0..n, i <= j
        PROVE  e[i] <= e[j]
    <2> DEFINE bad == {m \in Nat : m \in i..n /\ ~(e[i] <= e[m])}
    <2>1. bad # {} => \E k \in bad : \A m \in bad : k <= m
      <3>1. bad \in SUBSET Nat
        OBVIOUS
      <3> HIDE DEF bad
      <3> QED BY <3>1, LeastNumber
    <2>2. ASSUME NEW k \in bad, \A m \in bad : k <= m
          PROVE  FALSE
      <3>1. k \in i..n /\ ~(e[i] <= e[k]) /\ e[i] \in Nat
        BY <1>7
      <3>2. k # i
        BY <3>1
      <3>3. k - 1 \in Nat /\ k - 1 \in i..n /\ k - 1 \in 0..n /\ k \in 1..n /\ ~(k <= k - 1)
        BY <3>1, <3>2
      <3>4. k - 1 \notin bad
        <4> HIDE DEF bad
        <4> QED BY <2>2, <3>3
      <3>5. e[i] <= e[k - 1]
        BY <3>3, <3>4
      <3>6. e[k] = e[k - 1] + step[k] /\ step[k] \in Nat /\ e[k - 1] \in Nat
        BY <1>4, <1>6, <1>7, <3>3
      <3> QED BY <3>1, <3>5, <3>6
    <2>3. j \in Nat /\ j \in i..n
      BY <1>8
    <2> QED BY <2>1, <2>2, <2>3
  <1>9. \A i \in 0..n : e[i] > 0 => \E m \in lines : e[m] = e[i]
    <2> DEFINE bad == {k \in Nat : k \in 0..n /\ e[k] > 0 /\ ~\E m \in lines : e[m] = e[k]}
    <2>1. bad # {} => \E k \in bad : \A m \in bad : k <= m
      <3>1. bad \in SUBSET Nat
        OBVIOUS
      <3> HIDE DEF bad
      <3> QED BY <3>1, LeastNumber
    <2>2. ASSUME NEW k \in bad, \A m \in bad : k <= m
          PROVE  FALSE
      <3>1. k \in 1..n
        BY <1>6
      <3>2. k - 1 \in Nat /\ k - 1 \in 0..n /\ ~(k <= k - 1)
        BY <3>1
      <3>3. k \notin lines
        OBVIOUS
      <3>4. e[k] = e[k - 1]
        BY <1>4, <1>6, <1>7, <3>1, <3>2, <3>3
      <3>5. k - 1 \notin bad
        <4> HIDE DEF bad
        <4> QED BY <2>2, <3>2
      <3> QED BY <3>2, <3>4, <3>5
    <2>3. \A i \in 0..n : i \in Nat
      OBVIOUS
    <2> QED BY <2>1, <2>2, <2>3
  <1>10. \A i \in lines : e[i] = e[i - 1] + list[i].size + 1
    <2>1. \A i \in lines : e[i] = e[i - 1] + step[i] /\ step[i] = list[i].size + 1 /\ list[i].size \in Nat
                             /\ e[i - 1] \in Nat
      <3>1. \A i \in lines : i \in 1..n /\ i - 1 \in 0..n
        BY <1>4
      <3> QED BY <1>4, <1>6, <1>7, <3>1
    <2> QED BY <2>1
  <1> QED BY <1>1, <1>2, <1>6, <1>7, <1>8, <1>9, <1>10 DEF Layout
-----------------------------------------------------------------------------
(***************************************************************************)
(* Where a piece ends.  A piece only ends within a line whose predecessor  *)
(* ends at the first place of the piece, so the room, less that place, is  *)
(* what of the line is in it; that tells the size of a predecessor which   *)
(* itself was cut just before its end.                                     *)
(***************************************************************************)
LEMMA GreatestNumber ==
  ASSUME NEW S \in SUBSET Nat, S # {}, NEW b \in Nat, \A k \in S : k <= b
  PROVE  \E k \in S : \A m \in S : m <= k
  <1> DEFINE T == {d \in Nat : b - d \in S}
  <1>1. T # {}
    <2>1. PICK k \in S : TRUE
      OBVIOUS
    <2>2. b - k \in Nat /\ b - (b - k) = k
      BY <2>1
    <2>3. b - k \in T
      BY <2>1, <2>2
    <2> QED BY <2>3
  <1>2. PICK d \in T : \A c \in T : d <= c
    <2>1. T \in SUBSET Nat
      OBVIOUS
    <2> HIDE DEF T
    <2> QED BY <1>1, <2>1, LeastNumber
  <1>3. ASSUME NEW m \in S
        PROVE  m <= b - d
    <2>1. b - m \in Nat /\ b - (b - m) = m
      OBVIOUS
    <2>2. b - m \in T
      BY <2>1
    <2>3. d <= b - m /\ d \in Nat
      BY <1>2, <2>2
    <2> QED BY <2>3
  <1> QED BY <1>2, <1>3

\* Line i follows a line that is blank or as long as the room, less one.
Tight(e, list, lines, room, i) ==
  \E j \in lines : e[j] = e[i - 1] /\ (list[j].size = 0 \/ list[j].size = room - 1)

\* A cut at b, if within line i, leaves the room, less one, of it before the cut.
CutTight(e, list, lines, room, b) ==
  \A i \in lines : e[i - 1] < b /\ b < e[i] => b = e[i - 1] + room - 1 /\ Tight(e, list, lines, room, i)

\* No line is cut at the end of one.
LEMMA EndsCutNothing ==
  ASSUME NEW n \in Nat, NEW lines \in SUBSET (1..n), NEW e, NEW list, NEW room, NEW m \in 0..n,
         Layout(e, list, lines, n)
  PROVE  CutTight(e, list, lines, room, e[m])
  <1>1. ASSUME NEW i \in lines, e[i - 1] < e[m], e[m] < e[i]
        PROVE  FALSE
    <2>1. i \in 1..n /\ i \in 0..n /\ i - 1 \in 0..n /\ (m <= i - 1 \/ i <= m)
      OBVIOUS
    <2>2. e[i] \in Nat /\ e[i - 1] \in Nat /\ e[m] \in Nat
      BY <2>1 DEF Layout
    <2>3. m <= i - 1 => e[m] <= e[i - 1]
      BY <2>1 DEF Layout
    <2>4. i <= m => e[i] <= e[m]
      BY <2>1 DEF Layout
    <2> QED BY <1>1, <2>1, <2>2, <2>3, <2>4
  <1> QED BY <1>1 DEF CutTight

\* A piece that begins with the end of a line and ends with its room, no other line ending
\* in it.
LEMMA CutAfterTightLine ==
  ASSUME NEW n \in Nat, NEW list \in Seq(TableLine), n = Len(list), NEW lines \in SUBSET (1..n),
         NEW e, NEW room \in Nat \ {0}, NEW from \in Nat,
         Layout(e, list, lines, n), CutTight(e, list, lines, room, from),
         NEW h \in lines, e[h] = from + 1,
         \A m \in lines : from < e[m] /\ e[m] <= from + room => e[m] = from + 1
  PROVE  CutTight(e, list, lines, room, from + room)
  <1>1. SUFFICES ASSUME NEW i \in lines, e[i - 1] < from + room, from + room < e[i]
                 PROVE  from + room = e[i - 1] + room - 1 /\ Tight(e, list, lines, room, i)
    BY DEF CutTight
  <1>2. /\ i \in 0..n /\ i - 1 \in 0..n /\ h \in 0..n /\ h - 1 \in 0..n /\ (h <= i - 1 \/ i <= h)
    OBVIOUS
  <1>3. e[i] \in Nat /\ e[i - 1] \in Nat /\ e[h] \in Nat /\ e[h - 1] \in Nat
    BY <1>2 DEF Layout
  <1>4. e[h] <= e[i - 1]
    <2>1. i <= h => e[i] <= e[h]
      BY <1>2 DEF Layout
    <2>2. ~(i <= h)
      BY <1>1, <1>3, <2>1
    <2>3. h <= i - 1
      BY <1>2, <2>2
    <2> QED BY <1>2, <2>3 DEF Layout
  <1>5. e[i - 1] = from + 1
    <2>1. PICK m \in lines : e[m] = e[i - 1]
      <3>1. e[i - 1] > 0
        BY <1>3, <1>4
      <3> QED BY <1>2, <3>1 DEF Layout
    <2>2. from < e[m] /\ e[m] <= from + room
      BY <1>1, <1>3, <1>4, <2>1
    <2> QED BY <2>1, <2>2
  <1>6. e[h] = e[h - 1] + list[h].size + 1 /\ list[h].size \in Nat
    <2>1. list[h] \in TableLine
      OBVIOUS
    <2>2. list[h].size \in Nat
      BY <2>1 DEF TableLine
    <2>3. e[h] = e[h - 1] + list[h].size + 1
      BY DEF Layout
    <2> QED BY <2>2, <2>3
  <1>7. PICK before \in Nat, end \in Nat, size \in Nat : before = e[h - 1] /\ end = e[h] /\ size = list[h].size
    BY <1>3, <1>6
  <1>8. end = before + size + 1 /\ end = from + 1
    BY <1>6, <1>7
  <1>9. size = 0 \/ size = room - 1
    <2>1. CASE before < from
      <3>1. from < e[h]
        BY <1>7, <1>8
      <3>2. from = e[h - 1] + room - 1
        BY <1>7, <2>1, <3>1 DEF CutTight
      <3>3. from = before + room - 1
        BY <1>7, <3>2
      <3>4. from + 1 = before + size + 1
        BY <1>8
      <3>5. before + room = before + size + 1
        BY ONLY <3>3, <3>4, before \in Nat, size \in Nat, room \in Nat, from \in Nat
      <3>6. size = room - 1
        BY ONLY <3>5, before \in Nat, size \in Nat, room \in Nat
      <3> QED BY <3>6
    <2>2. CASE ~(before < from)
      BY <1>8, <2>2
    <2> QED BY <2>1, <2>2
  <1> QED BY <1>5, <1>7, <1>9 DEF Tight

-----------------------------------------------------------------------------
(***************************************************************************)
(* The pieces of a table.                                                  *)
(***************************************************************************)
TableTypes ==
  /\ sheet \in Seq(TableLine) /\ keptLines \in SUBSET (1..Len(sheet))
  /\ position \in Nat /\ position <= TextLength
  /\ pieces \in Seq([from : Nat, to : Nat])

\* Nothing is cut before it is known what.
NothingCutYet == route \notin {"rows", "excerpt"} => position = 0 /\ pieces = <<>>

PiecesInOrder ==
  /\ \A p \in 1..Len(pieces) : pieces[p].from < pieces[p].to /\ pieces[p].to <= position
  /\ \A p, q \in 1..Len(pieces) : p < q => pieces[p].to <= pieces[q].from

PlacesCovered == \A k \in 1..position : k \in LineEnds \/ \E p \in 1..Len(pieces) : OfPiece(pieces[p], k)

RoomsCut(b) == CutTight(End, sheet, keptLines, BodyBudget, b)

CutsTight ==
  /\ RoomsCut(position)
  /\ \A p \in 1..Len(pieces) : RoomsCut(pieces[p].from) /\ RoomsCut(pieces[p].to)

KeptAsAsked ==
  /\ route = "rows" => keptLines = DOMAIN sheet
  /\ route = "excerpt" => keptLines = Asked(sheet)

TableInv == TableTypes /\ NothingCutYet /\ PiecesInOrder /\ PlacesCovered /\ CutsTight /\ KeptAsAsked

\* The layout of the text, in numbers.
LEMMA TextLaidOut ==
  ASSUME TableTypes
  PROVE  /\ Layout(End, sheet, keptLines, Len(sheet)) /\ TextLength = End[Len(sheet)] /\ TextLength \in Nat
         /\ Len(sheet) \in Nat /\ BodyBudget \in Nat \ {0}
         /\ \A i \in keptLines : End[i] \in Nat /\ End[i] <= TextLength /\ i \in 0..Len(sheet)
  <1>1. Layout(End, sheet, keptLines, Len(sheet))
    BY LaidOut DEF TableTypes, End
  <1>2. PICK n \in Nat : n = Len(sheet)
    BY DEF TableTypes
  <1>3. \A i \in keptLines : i \in 0..n /\ n \in 0..n /\ i <= n
    BY <1>2 DEF TableTypes
  <1>4. PICK e : e = End
    OBVIOUS
  <1>5. n \in 0..n /\ e[n] \in Nat /\ \A i \in keptLines : e[i] \in Nat /\ e[i] <= e[n]
    BY <1>1, <1>2, <1>3, <1>4 DEF Layout
  <1>6. BodyBudget \in Nat \ {0}
    BY TableAssumption DEF BodyBudget
  <1> QED BY <1>1, <1>2, <1>3, <1>4, <1>5, <1>6 DEF TextLength

LEMMA PieceEnds ==
  ASSUME TableInv, position < TextLength
  PROVE  PieceEnd \in Nat /\ position < PieceEnd /\ PieceEnd <= TextLength /\ RoomsCut(PieceEnd)
  <1>1. PICK n \in Nat : n = Len(sheet)
    BY DEF TableInv, TableTypes
  <1>2. PICK e : e = End
    OBVIOUS
  <1>3. PICK room \in Nat \ {0} : room = BodyBudget
    BY TextLaidOut DEF TableInv
  <1>4. PICK total \in Nat : total = TextLength
    BY TextLaidOut DEF TableInv
  <1>5. PICK from \in Nat : from = position
    BY DEF TableInv, TableTypes
  <1>6. /\ Layout(e, sheet, keptLines, n) /\ total = e[n] /\ sheet \in Seq(TableLine)
        /\ keptLines \in SUBSET (1..n) /\ n \in 0..n
        /\ \A i \in keptLines : e[i] \in Nat /\ e[i] <= total /\ i \in 0..n
    BY <1>1, <1>2, <1>4, TextLaidOut DEF TableInv, TableTypes
  <1>7. CutTight(e, sheet, keptLines, room, from)
    BY <1>2, <1>3, <1>5 DEF TableInv, CutsTight, RoomsCut
  <1>8. PICK full \in Nat : full = RoomEnd
    BY <1>3, <1>4, <1>5 DEF RoomEnd
  <1>9. full = total \/ (full = from + room /\ from + room < total)
    BY <1>3, <1>4, <1>5, <1>8 DEF RoomEnd
  <1>10. from < full /\ full <= total
    BY <1>4, <1>5, <1>9
  <1> DEFINE inside == {k \in LineEnds : from < k /\ k <= full}
             snapped == inside \ {from + 1}
             later == {k \in LineEnds : full < k /\ k <= total}
  <1>11. PieceEnd = IF full = total THEN full
                    ELSE IF snapped # {} THEN CHOOSE k \in snapped : \A j \in snapped : j <= k
                    ELSE IF inside # {} THEN full
                    ELSE IF later # {} THEN CHOOSE k \in later : \A j \in later : k <= j
                    ELSE total
    BY <1>4, <1>5, <1>8 DEF PieceEnd, EndsWithin
  <1>12. \A k \in LineEnds : k \in Nat /\ \E m \in keptLines : m \in 0..n /\ k = e[m]
    BY <1>2, <1>6 DEF LineEnds
  <1>13. \A k \in LineEnds : CutTight(e, sheet, keptLines, room, k)
    <2>1. SUFFICES ASSUME NEW k \in LineEnds PROVE CutTight(e, sheet, keptLines, room, k)
      OBVIOUS
    <2>2. PICK m \in keptLines : m \in 0..n /\ k = e[m]
      BY <1>12
    <2> QED BY <1>6, <2>2, EndsCutNothing
  <1>14. CutTight(e, sheet, keptLines, room, total)
    BY <1>6, EndsCutNothing
  <1>15. snapped \in SUBSET Nat /\ later \in SUBSET Nat /\ \A k \in snapped : k <= full
    BY <1>12
  <1>16. snapped # {} => \E k \in snapped : \A j \in snapped : j <= k
    <2> HIDE DEF snapped
    <2> QED BY <1>15, GreatestNumber
  <1>17. later # {} => \E k \in later : \A j \in later : k <= j
    <2> HIDE DEF later
    <2> QED BY <1>15, LeastNumber
  <1>18. \A k \in snapped : k \in LineEnds /\ k \in Nat /\ from < k /\ k <= full
    BY <1>12
  <1>19. \A k \in later : k \in LineEnds /\ k \in Nat /\ full < k /\ k <= total
    BY <1>12
  <1>20. inside # {} /\ snapped = {} => /\ \E h \in keptLines : e[h] = from + 1
                                       /\ \A m \in keptLines : from < e[m] /\ e[m] <= full => e[m] = from + 1
    <2>1. SUFFICES ASSUME inside # {}, snapped = {}
                   PROVE  /\ \E h \in keptLines : e[h] = from + 1
                          /\ \A m \in keptLines : from < e[m] /\ e[m] <= full => e[m] = from + 1
      OBVIOUS
    <2>2. PICK k \in inside : k = from + 1
      BY <2>1
    <2>3. k \in LineEnds
      OBVIOUS
    <2>4. \A m \in keptLines : e[m] \in LineEnds
      BY <1>2 DEF LineEnds
    <2>5. \A m \in keptLines : from < e[m] /\ e[m] <= full => e[m] \in inside
      BY <2>4
    <2> QED BY <1>12, <2>1, <2>2, <2>3, <2>5
  <1> HIDE DEF inside, snapped, later
  <1>21. PICK end : end = PieceEnd
    OBVIOUS
  <1>22. end \in Nat /\ from < end /\ end <= total /\ CutTight(e, sheet, keptLines, room, end)
    <2>1. CASE full = total
      BY <1>10, <1>11, <1>14, <1>21, <2>1
    <2>2. CASE full # total /\ snapped # {}
      <3>1. end \in snapped
        BY <1>11, <1>16, <1>21, <2>2
      <3>2. end \in LineEnds /\ end \in Nat /\ from < end /\ end <= full
        BY <1>18, <3>1
      <3> QED BY <1>10, <1>13, <3>2
    <2>3. CASE full # total /\ snapped = {} /\ inside # {}
      <3>1. end = full /\ full = from + room
        BY <1>9, <1>11, <1>21, <2>3
      <3>2. PICK h \in keptLines : e[h] = from + 1
        BY <1>20, <2>3
      <3>3. \A m \in keptLines : from < e[m] /\ e[m] <= from + room => e[m] = from + 1
        BY <1>20, <2>3, <3>1
      <3>4. CutTight(e, sheet, keptLines, room, from + room)
        BY <1>1, <1>6, <1>7, <3>2, <3>3, CutAfterTightLine
      <3> QED BY <1>10, <3>1, <3>4
    <2>4. CASE full # total /\ snapped = {} /\ inside = {} /\ later # {}
      <3>1. end \in later
        BY <1>11, <1>17, <1>21, <2>4
      <3>2. end \in LineEnds /\ end \in Nat /\ full < end /\ end <= total
        BY <1>19, <3>1
      <3> QED BY <1>10, <1>13, <3>2
    <2>5. CASE full # total /\ snapped = {} /\ inside = {} /\ later = {}
      BY <1>10, <1>11, <1>14, <1>21, <2>5
    <2> QED BY <2>1, <2>2, <2>3, <2>4, <2>5
  <1> QED BY <1>2, <1>3, <1>4, <1>5, <1>21, <1>22 DEF RoomsCut

LEMMA ElementsOf ==
  ASSUME NEW S, NEW s \in Seq(S)
  PROVE  Len(s) \in Nat /\ DOMAIN s = 1..Len(s) /\ \A p \in 1..Len(s) : s[p] \in S
  OBVIOUS

LEMMA PiecesAreNumbered ==
  ASSUME TableTypes
  PROVE  DOMAIN pieces = 1..Len(pieces) /\ \A p \in 1..Len(pieces) : pieces[p] \in [from : Nat, to : Nat]
  BY ElementsOf DEF TableTypes

\* Before its first piece, no line of a text is cut.
LEMMA NothingCutAtFirst ==
  ASSUME NEW list \in Seq(TableLine), NEW lines \in SUBSET (1..Len(list)), NEW room
  PROVE  /\ EndsOf(list, lines)[Len(list)] \in Nat
         /\ CutTight(EndsOf(list, lines), list, lines, room, 0)
  <1>1. PICK n \in Nat : n = Len(list)
    OBVIOUS
  <1>2. PICK e : e = EndsOf(list, lines)
    OBVIOUS
  <1>3. Layout(e, list, lines, n) /\ lines \in SUBSET (1..n) /\ n \in 0..n /\ 0 \in 0..n
    BY <1>1, <1>2, LaidOut
  <1>4. CutTight(e, list, lines, room, e[0])
    BY <1>3, EndsCutNothing
  <1>5. e[0] = 0 /\ e[n] \in Nat
    BY <1>3 DEF Layout
  <1> QED BY <1>1, <1>2, <1>4, <1>5

LEMMA TableInvInit == TableInit => TableInv
  <1> SUFFICES ASSUME TableInit PROVE TableInv
    OBVIOUS
  <1>1. sheet \in Seq(TableLine) /\ keptLines = {} /\ position = 0 /\ pieces = <<>> /\ route = "undecided"
    BY TableAssumption DEF TableInit
  <1>2. keptLines \in SUBSET (1..Len(sheet)) /\ Len(pieces) = 0
    BY <1>1
  <1>3. TextLength \in Nat /\ RoomsCut(0)
    BY <1>1, <1>2, NothingCutAtFirst DEF TextLength, End, RoomsCut
  <1>4. TableTypes
    BY <1>1, <1>2, <1>3 DEF TableTypes
  <1>5. NothingCutYet /\ PiecesInOrder /\ PlacesCovered /\ KeptAsAsked
    BY <1>1, <1>2 DEF NothingCutYet, PiecesInOrder, PlacesCovered, KeptAsAsked
  <1>6. CutsTight
    BY <1>1, <1>2, <1>3 DEF CutsTight
  <1> QED BY <1>4, <1>5, <1>6 DEF TableInv

LEMMA DecideKeepsTableInv == TableInv /\ Decide => TableInv'
  <1> SUFFICES ASSUME TableInv, Decide PROVE TableInv'
    OBVIOUS
  <1>1. /\ sheet' = sheet /\ position' = 0 /\ pieces' = <<>> /\ sheet \in Seq(TableLine)
    BY DEF TableInv, TableTypes, NothingCutYet, Decide
  <1>2. /\ keptLines' \in SUBSET (1..Len(sheet))
        /\ route' = "rows" => keptLines' = DOMAIN sheet
        /\ route' = "excerpt" => keptLines' = Asked(sheet)
    <2>1. DOMAIN sheet = 1..Len(sheet) /\ Asked(sheet) \subseteq DOMAIN sheet
      BY <1>1 DEF Asked, Lines
    <2>2. \/ route' = "windows" /\ keptLines' = {}
          \/ route' = "excerpt" /\ keptLines' = Asked(sheet)
          \/ route' = "rows" /\ keptLines' = DOMAIN sheet
      BY DEF Decide
    <2> QED BY <2>1, <2>2
  <1>3. EndsOf(sheet, keptLines')[Len(sheet)] \in Nat
        /\ CutTight(EndsOf(sheet, keptLines'), sheet, keptLines', BodyBudget, 0)
    BY <1>1, <1>2, NothingCutAtFirst
  <1>4. TextLength' \in Nat /\ CutTight(End', sheet, keptLines', BodyBudget, 0)
    BY <1>1, <1>3 DEF TextLength, End
  <1>5. Len(pieces') = 0
    BY <1>1
  <1>6. TableTypes'
    BY <1>1, <1>2, <1>4 DEF TableTypes
  <1>7. NothingCutYet' /\ PiecesInOrder' /\ PlacesCovered'
    BY <1>1, <1>5 DEF NothingCutYet, PiecesInOrder, PlacesCovered
  <1>8. KeptAsAsked'
    BY <1>1, <1>2 DEF KeptAsAsked, Asked, Lines, Blank
  <1>9. CutsTight'
    BY <1>1, <1>4, <1>5 DEF CutsTight, RoomsCut, BodyBudget
  <1> QED BY <1>6, <1>7, <1>8, <1>9 DEF TableInv

LEMMA TakePieceKeepsTableInv == TableInv /\ TakePiece => TableInv'
  <1> SUFFICES ASSUME TableInv, TakePiece PROVE TableInv'
    OBVIOUS
  <1>1. /\ sheet' = sheet /\ named' = named /\ route' = route /\ keptLines' = keptLines
        /\ route \in {"rows", "excerpt"} /\ position < TextLength
    BY DEF TakePiece
  <1>2. End' = End /\ TextLength' = TextLength /\ LineEnds' = LineEnds
    BY <1>1 DEF End, TextLength, LineEnds
  <1>3. PICK end : end = PieceEnd
    OBVIOUS
  <1>4. PICK from \in Nat : from = position
    BY DEF TableInv, TableTypes
  <1>5. end \in Nat /\ from < end /\ end <= TextLength /\ RoomsCut(end) /\ RoomsCut(from)
    BY <1>1, <1>3, <1>4, PieceEnds DEF TableInv, CutsTight
  <1>6. position' = end
        /\ pieces' = IF (from + 1)..end \subseteq LineEnds THEN pieces ELSE Append(pieces, [from |-> from, to |-> end])
    BY <1>3, <1>4 DEF TakePiece
  <1>7. ASSUME NEW b, RoomsCut(b)
        PROVE  CutTight(End', sheet', keptLines', BodyBudget', b)
    BY <1>1, <1>2, <1>7 DEF RoomsCut, BodyBudget
  <1>8. PICK n \in Nat : n = Len(pieces)
    BY DEF TableInv, TableTypes
  <1>9. /\ \A p \in 1..n : pieces[p] \in [from : Nat, to : Nat]
        /\ \A p \in 1..n : pieces[p].from < pieces[p].to /\ pieces[p].to <= from
        /\ \A p, q \in 1..n : p < q => pieces[p].to <= pieces[q].from
        /\ \A k \in 1..from : k \in LineEnds \/ \E p \in 1..n : OfPiece(pieces[p], k)
        /\ \A p \in 1..n : RoomsCut(pieces[p].from) /\ RoomsCut(pieces[p].to)
    BY <1>4, <1>8, PiecesAreNumbered DEF TableInv, PiecesInOrder, PlacesCovered, CutsTight
  <1>10. NothingCutYet' /\ KeptAsAsked'
    BY <1>1 DEF TableInv, NothingCutYet, KeptAsAsked, Asked, Lines, Blank
  <1>11. CASE (from + 1)..end \subseteq LineEnds
    <2>1. pieces' = pieces
      BY <1>6, <1>11
    <2>2. TableTypes'
      BY <1>1, <1>2, <1>5, <1>6, <2>1 DEF TableInv, TableTypes
    <2>3. PiecesInOrder'
      <3>1. \A p \in 1..n : pieces[p].to <= end
        BY <1>4, <1>5, <1>9
      <3> QED BY <1>6, <1>8, <1>9, <2>1, <3>1 DEF PiecesInOrder
    <2>4. PlacesCovered'
      <3>1. \A k \in 1..end : k \in 1..from \/ k \in (from + 1)..end
        BY <1>4, <1>5
      <3>2. \A k \in 1..end : k \in LineEnds \/ \E p \in 1..n : OfPiece(pieces[p], k)
        BY <1>9, <1>11, <3>1
      <3> QED BY <1>2, <1>6, <1>8, <2>1, <3>2 DEF PlacesCovered, OfPiece
    <2>5. CutsTight'
      <3>1. \A p \in 1..n : /\ CutTight(End', sheet', keptLines', BodyBudget', pieces[p].from)
                            /\ CutTight(End', sheet', keptLines', BodyBudget', pieces[p].to)
        BY <1>7, <1>9
      <3>2. CutTight(End', sheet', keptLines', BodyBudget', end)
        BY <1>5, <1>7
      <3> QED BY <1>6, <1>8, <2>1, <3>1, <3>2 DEF CutsTight, RoomsCut
    <2> QED BY <1>10, <2>2, <2>3, <2>4, <2>5 DEF TableInv
  <1>12. CASE ~((from + 1)..end \subseteq LineEnds)
    <2>1. PICK piece : piece = [from |-> from, to |-> end]
      OBVIOUS
    <2>2. piece \in [from : Nat, to : Nat] /\ piece.from = from /\ piece.to = end
      BY <1>5, <2>1
    <2>3. pieces' = Append(pieces, piece) /\ pieces \in Seq([from : Nat, to : Nat])
      BY <1>6, <1>12, <2>1 DEF TableInv, TableTypes
    <2>4. /\ pieces' \in Seq([from : Nat, to : Nat]) /\ Len(pieces') = n + 1
          /\ pieces'[n + 1] = piece /\ \A p \in 1..n : pieces'[p] = pieces[p]
      BY <1>8, <2>2, <2>3
    <2>5. \A p \in 1..(n + 1) : p \in 1..n \/ p = n + 1
      OBVIOUS
    <2>6. TableTypes'
      BY <1>1, <1>2, <1>5, <1>6, <2>4 DEF TableInv, TableTypes
    <2>7. PiecesInOrder'
      <3>1. \A p \in 1..n : pieces[p].from < pieces[p].to /\ pieces[p].to <= end /\ pieces[p].to <= piece.from
        BY <1>4, <1>5, <1>9, <2>2
      <3>2. piece.from < piece.to /\ piece.to <= end
        BY <1>5, <2>2
      <3>3. \A p \in 1..(n + 1) : pieces'[p].from < pieces'[p].to /\ pieces'[p].to <= end
        BY <2>4, <2>5, <3>1, <3>2
      <3>4. ASSUME NEW p \in 1..(n + 1), NEW q \in 1..(n + 1), p < q
            PROVE  pieces'[p].to <= pieces'[q].from
        <4>1. p \in 1..n
          BY <3>4
        <4>2. CASE q \in 1..n
          BY <1>9, <2>4, <3>4, <4>1, <4>2
        <4>3. CASE q = n + 1
          BY <2>4, <3>1, <4>1, <4>3
        <4> QED BY <2>5, <4>2, <4>3
      <3> QED BY <1>6, <2>4, <3>3, <3>4 DEF PiecesInOrder
    <2>8. PlacesCovered'
      <3>1. \A k \in 1..end : k \in 1..from \/ (from < k /\ k <= end)
        BY <1>4, <1>5
      <3>2. \A k \in 1..end : from < k => OfPiece(pieces'[n + 1], k) /\ n + 1 \in 1..(n + 1)
        BY <2>2, <2>4 DEF OfPiece
      <3>3. \A k \in 1..from : k \in LineEnds \/ \E p \in 1..(n + 1) : OfPiece(pieces'[p], k)
        <4>1. \A p \in 1..n : p \in 1..(n + 1) /\ pieces'[p] = pieces[p]
          BY <2>4
        <4> QED BY <1>9, <4>1
      <3>4. \A k \in 1..end : k \in LineEnds \/ \E p \in 1..(n + 1) : OfPiece(pieces'[p], k)
        BY <3>1, <3>2, <3>3
      <3> QED BY <1>2, <1>6, <2>4, <3>4 DEF PlacesCovered, OfPiece
    <2>9. CutsTight'
      <3>1. \A p \in 1..n : /\ CutTight(End', sheet', keptLines', BodyBudget', pieces[p].from)
                            /\ CutTight(End', sheet', keptLines', BodyBudget', pieces[p].to)
        BY <1>7, <1>9
      <3>2. /\ CutTight(End', sheet', keptLines', BodyBudget', end)
            /\ CutTight(End', sheet', keptLines', BodyBudget', from)
        BY <1>5, <1>7
      <3>3. \A p \in 1..(n + 1) : /\ CutTight(End', sheet', keptLines', BodyBudget', pieces'[p].from)
                                  /\ CutTight(End', sheet', keptLines', BodyBudget', pieces'[p].to)
        BY <2>2, <2>4, <2>5, <3>1, <3>2
      <3> QED BY <1>6, <2>4, <3>2, <3>3 DEF CutsTight, RoomsCut
    <2> QED BY <1>10, <2>6, <2>7, <2>8, <2>9 DEF TableInv
  <1> QED BY <1>11, <1>12

LEMMA TableInvAlways == TableSpec => []TableInv
  <1>1. TableInv /\ [TableNext]_tableVars => TableInv'
    <2> SUFFICES ASSUME TableInv, [TableNext]_tableVars PROVE TableInv'
      OBVIOUS
    <2>1. CASE Decide
      BY <2>1, DecideKeepsTableInv
    <2>2. CASE TakePiece
      BY <2>2, TakePieceKeepsTableInv
    <2>3. CASE UNCHANGED tableVars
      BY <2>3 DEF tableVars, TableInv, TableTypes, NothingCutYet, PiecesInOrder, PlacesCovered, CutsTight,
         KeptAsAsked, RoomsCut, CutTight, Tight, OfPiece, End, TextLength, LineEnds, BodyBudget, Asked, Lines, Blank
    <2> QED BY <2>1, <2>2, <2>3 DEF TableNext
  <1> QED BY <1>1, TableInvInit, PTL DEF TableSpec

\* A line that a piece begins or ends within is longer than the room and follows a tight one.
LEMMA CutLinesAreLong ==
  ASSUME TableInv, NEW i \in CutLines
  PROVE  sheet[i].size >= BodyBudget /\ AfterTightLine(i)
  <1>1. PICK e : e = End
    OBVIOUS
  <1>2. PICK room \in Nat : room = BodyBudget
    BY TextLaidOut DEF TableInv
  <1>3. /\ i \in keptLines /\ i \in 1..Len(sheet) /\ sheet \in Seq(TableLine) /\ Len(sheet) \in Nat
        /\ Layout(e, sheet, keptLines, Len(sheet))
    BY <1>1, TextLaidOut DEF TableInv, TableTypes, CutLines
  <1>4. PICK size \in Nat : size = sheet[i].size
    <2>1. sheet[i] \in TableLine
      BY <1>3
    <2> QED BY <2>1 DEF TableLine
  <1>5. i \in 0..Len(sheet) /\ i - 1 \in 0..Len(sheet)
    BY <1>3
  <1>6. PICK before \in Nat : before = e[i - 1]
    BY <1>3, <1>5 DEF Layout
  <1>7. e[i] = before + size + 1
    BY <1>3, <1>4, <1>6 DEF Layout
  <1>8. PICK p \in 1..Len(pieces) : \E b \in {pieces[p].from, pieces[p].to} : before < b /\ b < before + size
    BY <1>1, <1>4, <1>6, PiecesAreNumbered DEF CutLines, TableInv
  <1>9. PICK b \in {pieces[p].from, pieces[p].to} : before < b /\ b < before + size
    BY <1>8
  <1>10. pieces[p] \in [from : Nat, to : Nat]
    BY <1>8, PiecesAreNumbered DEF TableInv
  <1>11. b \in Nat
    BY <1>9, <1>10
  <1>12. CutTight(e, sheet, keptLines, room, b)
    BY <1>1, <1>2, <1>8, <1>9 DEF TableInv, CutsTight, RoomsCut
  <1>13. b < e[i]
    BY <1>7, <1>9, <1>11
  <1>14. b = before + room - 1 /\ Tight(e, sheet, keptLines, room, i)
    BY <1>3, <1>6, <1>9, <1>12, <1>13 DEF CutTight
  <1>15. before + room - 1 < before + size
    BY <1>9, <1>14
  <1>16. size >= room
    BY ONLY <1>15, before \in Nat, room \in Nat, size \in Nat
  <1>17. AfterTightLine(i)
    BY <1>1, <1>2, <1>14 DEF Tight, AfterTightLine, Blank
  <1> QED BY <1>2, <1>4, <1>16, <1>17

\* PageTable's RowsKeptWhole: a table that is cut into pieces loses no cell, repeats none, and
\* no row of it is divided among pieces unless it is longer than the room and the line before
\* it is blank or itself fills the room but for its end; what the request names is kept.
\* (_split_csv_content_for_chunked_extraction and _build_query_focused_csv_excerpt)
THEOREM RowsAreKeptWhole == TableSpec => []RowsKeptWhole
  <1>1. TableInv => RowsKeptWhole
    <2> SUFFICES ASSUME TableInv, Split PROVE
          /\ \A k \in CellPlaces : \E p \in DOMAIN pieces : \A q \in DOMAIN pieces : OfPiece(pieces[q], k) <=> q = p
          /\ \A p, q \in DOMAIN pieces : p < q => pieces[p].to <= pieces[q].from
          /\ \A i \in CutLines : sheet[i].size >= BodyBudget /\ AfterTightLine(i)
          /\ named => Asked(sheet) \subseteq keptLines
      BY DEF RowsKeptWhole
    <2>1. DOMAIN pieces = 1..Len(pieces) /\ \A p \in 1..Len(pieces) : pieces[p] \in [from : Nat, to : Nat]
      BY PiecesAreNumbered DEF TableInv
    <2>2. \A p, q \in 1..Len(pieces) : p < q => pieces[p].to <= pieces[q].from
      BY DEF TableInv, PiecesInOrder
    <2>3. ASSUME NEW k \in CellPlaces
          PROVE  \E p \in 1..Len(pieces) : \A q \in 1..Len(pieces) : OfPiece(pieces[q], k) <=> q = p
      <3>1. k \in 1..position /\ k \notin LineEnds /\ k \in Nat
        BY TextLaidOut DEF CellPlaces, Split, TableInv
      <3>2. PICK p \in 1..Len(pieces) : OfPiece(pieces[p], k)
        BY <3>1 DEF TableInv, PlacesCovered
      <3>3. ASSUME NEW q \in 1..Len(pieces), OfPiece(pieces[q], k), q # p
            PROVE  FALSE
        <4>1. pieces[p] \in [from : Nat, to : Nat] /\ pieces[q] \in [from : Nat, to : Nat]
          BY <2>1
        <4>2. p < q \/ q < p
          BY <3>3
        <4>3. pieces[p].to <= pieces[q].from \/ pieces[q].to <= pieces[p].from
          BY <2>2, <4>2
        <4> QED BY <3>1, <3>2, <3>3, <4>1, <4>3 DEF OfPiece
      <3> QED BY <3>2, <3>3
    <2>4. named => Asked(sheet) \subseteq keptLines
      <3>1. Asked(sheet) \subseteq DOMAIN sheet
        BY DEF Asked, Lines
      <3> QED BY <3>1 DEF TableInv, KeptAsAsked, Split
    <2> QED BY <2>1, <2>2, <2>3, <2>4, CutLinesAreLong
  <1> QED BY <1>1, TableInvAlways, PTL
=============================================================================
