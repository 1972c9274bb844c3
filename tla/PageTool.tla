------------------------------- MODULE PageTool -------------------------------
(***************************************************************************)
(* scrape_and_extract (agentic/tools/web_search/scrape.py): a page is      *)
(* taken from the cache of the task's tools or fetched over a cascade of   *)
(* backends, cut at the task's information boundary by the rules of        *)
(* agentic/tools/as_of/structured.py, and given to the agent as it is or   *)
(* through the summary model.  Calls of one task run side by side.  All    *)
(* are for one URL, whose content may differ from one fetch to the next.   *)
(*                                                                         *)
(* A page is its publisher's date and its entries.  An entry is a table    *)
(* row or a line of text, and is the days it names, in order.              *)
(***************************************************************************)
EXTENDS Integers, Sequences, SequencesExt, FiniteSets

CONSTANTS
  Fetches,      \* calls of the tool
  Backends,     \* "jina", "serper": what the runs configure
  WebPages,     \* what the URL may hold when it is fetched
  Cut,          \* T_cut
  LongLineDates,  \* _LONG_LINE_SERIES_DATE_THRESHOLD
  FetchTries    \* max_attempts of a backend

NoDay == 0

\* own: the day of a cell that is a date and nothing else; days: those the rest names.
Row(own, days) == [kind |-> "row", own |-> own, days |-> days, long |-> FALSE]
Line(days, long) == [kind |-> "line", own |-> NoDay, days |-> days, long |-> long]

\* A line has no day of its own, a row of a table is no long line.
Entries == {e \in [kind : {"row", "line"}, own : Nat, days : Seq(Nat), long : BOOLEAN] :
              IF e.kind = "row" THEN ~e.long ELSE e.own = NoDay}

ASSUME PageToolAssumption ==
  /\ Backends \subseteq {"jina", "serper"}
  /\ {Cut, LongLineDates, FetchTries} \subseteq Nat \ {0}
  /\ \A page \in WebPages : page.stated \in Nat /\ page.entries \in Seq(Entries)

VARIABLES
  backend,  \* scrape_backend_options.backend
  rawCache, \* the URL's entry in RawScrapeCache, or Nothing
  fetches   \* per call: where it is, tries made (none if cached), the page, what is given

pageVars == <<backend, rawCache, fetches>>

Nothing == [stated |-> NoDay, entries |-> <<>>]

NoFetch == [at |-> "idle", tries |-> 0, page |-> Nothing, shown |-> <<>>]

-----------------------------------------------------------------------------
(***************************************************************************)
(* The rules of the boundary.                                              *)
(***************************************************************************)

DaysOf(entry) == entry.days \o (IF entry.own = NoDay THEN <<>> ELSE <<entry.own>>)
Late(day) == day >= Cut
MentionsLateDay(entry) == \E i \in DOMAIN DaysOf(entry) : Late(DaysOf(entry)[i])
MentionsUsableDay(entry) == \E i \in DOMAIN DaysOf(entry) : ~Late(DaysOf(entry)[i])

\* _is_post_cutoff_record: a row's own date before the boundary settles the question.
IsLateRow(row) ==
  /\ row.own = NoDay \/ Late(row.own)
  /\ MentionsLateDay(row)

\* prune_markdown_tables
Pruned(entry) == IF entry.kind = "row" /\ IsLateRow(entry) THEN <<>> ELSE <<entry>>
TablesPruned(entries) == FlattenSeq([i \in DOMAIN entries |-> Pruned(entries[i])])

\* What of a line comes before the first late day.
BeforeLate(line) ==
  LET first == CHOOSE i \in DOMAIN line.days :
                 Late(line.days[i]) /\ \A j \in 1..(i - 1) : ~Late(line.days[j])
  IN  SubSeq(line.days, 1, first - 1)

\* _truncate_long_listing_line
IsTruncated(entry) ==
  /\ entry.long
  /\ Len(SelectSeq(entry.days, Late)) >= LongLineDates
  /\ BeforeLate(entry) # <<>>

\* _redact_lines: it reads the rows of tables as lines.
Redacted(entry) ==
  IF ~MentionsLateDay(entry) THEN <<entry>>
  ELSE IF IsTruncated(entry) THEN <<[entry EXCEPT !.days = BeforeLate(entry)]>>
  ELSE <<>>

LinesRedacted(entries) == FlattenSeq([i \in DOMAIN entries |-> Redacted(entries[i])])

\* What a page is cut down to, and whether the cut took all it was made of.  (The frames
\* of tables and the marks of removed rows count as entries too: where a page has a table
\* it may count as partly kept.)
Guarded(entries) == LinesRedacted(TablesPruned(entries))

IsLiveOnly(entries) ==
  LET read == TablesPruned(entries)
      removed == Len(SelectSeq(read, MentionsLateDay))
  IN  /\ removed > 0 /\ 2 * removed >= Len(read)
      /\ \A i \in DOMAIN Guarded(entries) : ~MentionsUsableDay(Guarded(entries)[i])

\* is_after_cut, of the date the publisher states.
PublishedLate(page) == page.stated # NoDay /\ Late(page.stated)

-----------------------------------------------------------------------------
(***************************************************************************)
(* Fetching: _jina_scrape, _serper_backend and their retries.              *)
(***************************************************************************)
PageInit ==
  /\ backend \in Backends
  /\ rawCache = Nothing
  /\ fetches = [c \in Fetches |-> NoFetch]

Try(c, stage) == fetches' = [fetches EXCEPT ![c] = [NoFetch EXCEPT !.at = stage, !.tries = 1]]

LookUp(c) ==
  /\ fetches[c].at = "idle"
  /\ IF rawCache # Nothing
     THEN fetches' = [fetches EXCEPT ![c] = [NoFetch EXCEPT !.at = "fetched", !.page = rawCache]]
     ELSE Try(c, IF backend = "serper" THEN "serper" ELSE "probe")
  /\ UNCHANGED <<backend, rawCache>>

HasTable(page) == \E i \in DOMAIN page.entries : page.entries[i].kind = "row"

\* The page arrives.  A page of blanks is no failure; only one with content is cached.  The
\* provider that fetches by itself sends plain text and alone says when it was published;
\* the probe takes structured data only.
Arrives(c) ==
  /\ fetches[c].at \in {"probe", "jina", "http", "serper"}
  /\ \E page \in WebPages :
       /\ page.entries = <<>> \/ HasTable(page) => fetches[c].at \in {"jina", "http"}
       /\ page.stated # NoDay => fetches[c].at = "serper"
       /\ fetches' = [fetches EXCEPT ![c].at = "fetched", ![c].page = page]
       /\ rawCache' = IF page.entries = <<>> THEN rawCache ELSE page
  /\ UNCHANGED backend

\* Another backend is tried once one has failed for good, the probe for structured data
\* at the first try.
AfterFailure(stage) ==
  CASE stage = "probe" -> "jina" [] stage = "jina" -> "http" [] OTHER -> "failed"

BackendFails(c) ==
  /\ fetches[c].at \in {"probe", "jina", "http", "serper"}
  /\ Try(c, AfterFailure(fetches[c].at))
  /\ UNCHANGED <<backend, rawCache>>

TryAgain(c) ==
  /\ fetches[c].at \in {"jina", "http", "serper"} /\ fetches[c].tries < FetchTries
  /\ fetches' = [fetches EXCEPT ![c].tries = @ + 1]
  /\ UNCHANGED <<backend, rawCache>>

-----------------------------------------------------------------------------
(***************************************************************************)
(* What the agent is given.                                                *)
(***************************************************************************)

\* Defect in the operator below: the gates are left to the call that fetches the page.
DeliveredByFetcher(call) == IF call.tries = 0 THEN call.page.entries ELSE Guarded(call.page.entries)

\* apply_page_as_of_gates, on cached and fetched pages alike.
Delivered(call) == Guarded(call.page.entries)

Gate(c) ==
  LET call == fetches[c]
      Answers(stage, entries) == fetches' = [fetches EXCEPT ![c].at = stage, ![c].shown = entries]
  IN  /\ call.at = "fetched"
      /\ \/ PublishedLate(call.page) /\ Answers("refused", <<>>)
         \/ ~PublishedLate(call.page) /\ IsLiveOnly(call.page.entries) /\ Answers("notice", Delivered(call))
         \/ /\ ~PublishedLate(call.page)
            /\ ~IsLiveOnly(call.page.entries) \/ HasTable(call.page)
            /\ \/ Answers("shown", Delivered(call))        \* no extraction asked for
               \/ Answers("summarised", Delivered(call))   \* what the summary model read
               \/ Answers("failed", <<>>)               \* the summary model gave nothing
      /\ UNCHANGED <<backend, rawCache>>

FetchStep(c) == LookUp(c) \/ Arrives(c) \/ BackendFails(c) \/ TryAgain(c) \/ Gate(c)

PageNext == \E c \in Fetches : FetchStep(c)

PageSpec == PageInit /\ [][PageNext]_pageVars

-----------------------------------------------------------------------------
(***************************************************************************)
(* Properties.                                                             *)
(***************************************************************************)

\* Whatever the backend, the cache and the retries, nothing that names a day on or after
\* the boundary reaches the agent or the summary model, but as what an earlier-dated row
\* refers to (apply_page_as_of_gates; "a blocked page would still be replayable from the
\* cache on the next call").
NothingLateGiven ==
  \A c \in Fetches : \A i \in DOMAIN fetches[c].shown :
    LET entry == fetches[c].shown[i]
    IN  /\ ~PublishedLate(fetches[c].page)
        /\ MentionsLateDay(entry) => entry.kind = "row" /\ entry.own # NoDay /\ ~Late(entry.own)

\* A row that says by a date of its own that it is from before the boundary is given, even
\* if it refers to a later day (structured.py:42: "A self-declared pre-cutoff timestamp
\* wins.").
TimestampedRowsKept ==
  \A c \in Fetches : fetches[c].at \in {"shown", "summarised", "notice"} =>
    \A i \in DOMAIN fetches[c].page.entries :
      LET entry == fetches[c].page.entries[i]
      IN  entry.kind = "row" /\ entry.own # NoDay /\ ~Late(entry.own)
            => \E j \in DOMAIN fetches[c].shown : fetches[c].shown[j] = entry
=============================================================================
