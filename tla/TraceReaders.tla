----------------------------- MODULE TraceReaders -----------------------------
(***************************************************************************)
(* The log of a conversation and those who read it.  The log is append-    *)
(* only: messages, and markers of the runtime that say which of them the   *)
(* model no longer sees (agentic/contracts/markers.py).  What the model    *)
(* sees is derived from it five times over: by the runtime's own tracker,  *)
(* step by step (context_length_tracker.py); when a trace is loaded again  *)
(* (task_orchestrator.py); for the export of training samples              *)
(* (swift_agent.py); for the statistics of a run (trace_distributions.py); *)
(* and by replay_trace.py, which looks for every request the model was     *)
(* sent among the prefixes of the log.                                     *)
(*                                                                         *)
(* The log is written here as the web-search runtime and its context       *)
(* managers write it.  The text of a message is its place in the log.      *)
(***************************************************************************)
EXTENDS Integers, Sequences, FiniteSets, SequencesExt

CONSTANTS
  KeepChoices,    \* what config.keep_tool_result may be, -1 for all
  ResultsAsUser,  \* tool_result_role is "user"
  KeepRecent,     \* messages a compaction leaves alone
  MaxEntries      \* bound on the log

ASSUME ReadersAssumption ==
  /\ KeepChoices \subseteq Nat \cup {-1} /\ ResultsAsUser \in BOOLEAN
  /\ {KeepRecent, MaxEntries} \subseteq Nat \ {0}

VARIABLES
  keepToolResult, \* the runtime's; never changes
  log,      \* the conversation as the trace has it
  tracker,  \* _visible_context
  awaited,  \* calls of the last message that have no result yet; -1 once the answer is given
  forced,   \* the answer has been asked for
  requests, \* the request log: what the model was sent
  anchored, \* history: the messages whose tokens the tracker's anchor stands for
  resets    \* history: at each reset, how many assistant messages were in sight

readerVars == <<keepToolResult, log, tracker, awaited, forced, requests, anchored, resets>>

LogEntry(role, text, calls) == [role |-> role, text |-> text, calls |-> calls]
RollbackEntry(count) == [role |-> "runtime", name |-> "rollback", count |-> count]
CompactionEntry(prefix, count, summary) ==
  [role |-> "runtime", name |-> "compaction", prefix |-> prefix, count |-> count, summary |-> summary]
DiscardEntry(prefix) == [role |-> "runtime", name |-> "discard_all", prefix |-> prefix]

\* The first n of some numbers added up, and of some sequences put end to end.
SumOf(numbers, n) ==
  LET sum[i \in 0..n] == IF i = 0 THEN 0 ELSE sum[i - 1] + numbers[i] IN sum[n]
Joined(parts, n) ==
  LET join[i \in 0..n] == IF i = 0 THEN << >> ELSE join[i - 1] \o parts[i] IN join[n]

MarkerIs(entry, name) == entry.role = "runtime" /\ entry.name = name
SummaryEntry(marker) == LogEntry("assistant", marker.summary, 0)
Turns(visible) == Len(SelectSeq(visible, LAMBDA e : e.role = "assistant"))

\* splice_compaction and splice_discard_all; a marker that does not fit changes nothing.
Spliced(visible, marker) ==
  LET boundary == marker.prefix + marker.count
  IN  IF boundary > Len(visible) THEN visible
      ELSE SubSeq(visible, 1, marker.prefix) \o <<SummaryEntry(marker)>> \o SubSeq(visible, boundary + 1, Len(visible))
Cut(visible, marker) == IF marker.prefix > Len(visible) THEN visible ELSE SubSeq(visible, 1, marker.prefix)

\* How many messages remain when up to "count" are taken from the end, none of the system.
AfterRollback(visible, count) ==
  LET system == SelectLastInSeq(visible, LAMBDA e : e.role = "system")
      left == Len(visible) - count
  IN  SubSeq(visible, 1, IF left > system THEN left ELSE system)

-----------------------------------------------------------------------------
(***************************************************************************)
(* ContextLengthTracker: the messages in sight, in the segments in which   *)
(* they were appended, and a running estimate of their tokens.  The cheap  *)
(* estimator counts the characters of a JSON list, so that estimates of    *)
(* parts do not quite add up to that of the whole.  The tokens a provider  *)
(* reports of a prompt are kept for the messages they anchor; how they     *)
(* calibrate the estimate is left out.                                     *)
(***************************************************************************)
Characters == [system |-> 10, user |-> 5, assistant |-> 7, tool |-> 12]
Length(messages) == 1 + SumOf([i \in DOMAIN messages |-> Characters[messages[i].role] + 1], Len(messages))
Tokens(messages) == IF Length(messages) < 3 THEN 1 ELSE Length(messages) \div 3

EmptyTracker == [segments |-> << >>, tokens |-> 0, anchor |-> 0]
InSight(t) == Joined([i \in DOMAIN t.segments |-> t.segments[i].messages], Len(t.segments))
AtLeastZero(n) == IF n < 0 THEN 0 ELSE n

Added(t, messages) ==
  [t EXCEPT !.segments = Append(@, [messages |-> messages, tokens |-> Tokens(messages)]), !.tokens = @ + Tokens(messages)]

\* Where a segment ends in the conversation in sight.
SegmentEnd(t, i) == SumOf([j \in DOMAIN t.segments |-> Len(t.segments[j].messages)], i)

\* A segment of which only the beginning is left is estimated by what was taken from it.
TakenFrom(t, left, i) ==
  LET segment == t.segments[i]
  IN  IF SegmentEnd(t, i) <= left THEN 0
      ELSE IF left <= SegmentEnd(t, i - 1) THEN segment.tokens
      ELSE Tokens(SubSeq(segment.messages, left - SegmentEnd(t, i - 1) + 1, Len(segment.messages)))
Shortened(t, left, i) ==
  LET segment == t.segments[i]
  IN  IF SegmentEnd(t, i) <= left THEN segment
      ELSE [messages |-> SubSeq(segment.messages, 1, left - SegmentEnd(t, i - 1)),
            tokens |-> AtLeastZero(segment.tokens - TakenFrom(t, left, i))]

RolledBack(t, count) ==
  LET left == Len(AfterRollback(InSight(t), count))
      all == DOMAIN t.segments
  IN  [segments |-> [i \in {j \in all : SegmentEnd(t, j - 1) < left} |-> Shortened(t, left, i)],
       tokens |-> AtLeastZero(t.tokens - SumOf([i \in all |-> TakenFrom(t, left, i)], Len(t.segments))),
       anchor |-> IF left < t.anchor THEN 0 ELSE t.anchor]

Replaced(messages) == Added(EmptyTracker, messages)

\* _apply_to_visible_context: messages between two markers are appended together.
Tracked(t, entry) ==
  CASE MarkerIs(entry, "rollback") -> RolledBack(t, entry.count)
    [] MarkerIs(entry, "compaction") -> Replaced(Spliced(InSight(t), entry))
    [] MarkerIs(entry, "discard_all") -> Replaced(Cut(InSight(t), entry))

WithEntry(state, entry) ==
  IF entry.role # "runtime" THEN [state EXCEPT !.batch = Append(@, entry)]
  ELSE [tracker |-> Tracked(IF state.batch = << >> THEN state.tracker ELSE Added(state.tracker, state.batch), entry),
        batch |-> << >>]
AfterEntries(t, entries, n) ==
  LET state[i \in 0..n] == IF i = 0 THEN [tracker |-> t, batch |-> << >>] ELSE WithEntry(state[i - 1], entries[i]) IN state[n]
AppliedTo(t, entries) ==
  LET end == AfterEntries(t, entries, Len(entries))
  IN  IF end.batch = << >> THEN end.tracker ELSE Added(end.tracker, end.batch)

-----------------------------------------------------------------------------
(***************************************************************************)
(* The runtime.                                                            *)
(***************************************************************************)
ToolIndices(visible) == {i \in DOMAIN visible : visible[i].role = "tool"}

\* _build_visible_conversation: the older results are replaced by a placeholder.
Placeholders(visible) ==
  LET tools == ToolIndices(visible)
  IN  {i \in tools : keepToolResult >= 0 /\ Cardinality({j \in tools : j > i}) >= keepToolResult}

WireRole(role) == IF role = "tool" /\ ResultsAsUser THEN "user" ELSE role
Wire(visible, omitted) ==
  [i \in DOMAIN visible |->
     [role |-> WireRole(visible[i].role), calls |-> visible[i].calls, text |-> IF i \in omitted THEN 0 ELSE visible[i].text]]

Visible == InSight(tracker)
Sent == Wire(Visible, Placeholders(Visible))

\* The message at the end of a log that is about to be extended.
NextText == Len(log) + 1
TaskPrefix == IF log[1].role = "system" THEN 2 ELSE 1

\* _append_messages
Extended(t, entries) ==
  /\ Len(log) + Len(entries) <= MaxEntries
  /\ log' = log \o entries
  /\ tracker' = AppliedTo(t, entries)

\* record_observed_prompt_tokens: not if placeholders stand for messages of the tracker.
Observed ==
  IF Placeholders(Visible) = {}
    THEN {tracker, [tracker EXCEPT !.anchor = Len(Visible)]}
    ELSE {tracker}

\* The model is asked, the provider may report the prompt's tokens, the answer is appended.
Asked(entries) ==
  /\ awaited = 0
  /\ requests' = requests \cup {Sent}
  /\ \E t \in Observed :
       /\ Extended(t, entries)
       /\ anchored' = IF t.anchor # tracker.anchor THEN Visible ELSE anchored

ReadersInit ==
  /\ keepToolResult \in KeepChoices
  /\ log \in {<<LogEntry("system", 1, 0), LogEntry("user", 2, 0)>>, <<LogEntry("user", 1, 0)>>}
  /\ tracker = AppliedTo(EmptyTracker, log)
  /\ awaited = 0 /\ forced = FALSE /\ requests = {} /\ anchored = << >> /\ resets = << >>

CallTools ==
  /\ ~forced
  /\ \E n \in 1..2 : Asked(<<LogEntry("assistant", NextText, n)>>) /\ awaited' = n
  /\ UNCHANGED <<forced, resets>>

Withdraw ==
  /\ ~forced
  /\ Asked(<<LogEntry("assistant", NextText, 0), RollbackEntry(1)>>)
  /\ UNCHANGED <<awaited, forced, resets>>

Reprompt ==
  /\ ~forced
  /\ Asked(<<LogEntry("assistant", NextText, 0), LogEntry("user", NextText + 1, 0)>>)
  /\ UNCHANGED <<awaited, forced, resets>>

GiveAnswer ==
  /\ Asked(<<LogEntry("assistant", NextText, 0)>>)
  /\ awaited' = -1
  /\ UNCHANGED <<forced, resets>>

\* Results, which a context limit may hide at once, with or without the message that called.
ReturnResults ==
  /\ awaited > 0 /\ awaited' = 0
  /\ LET results == [i \in 1..awaited |-> LogEntry("tool", Len(log) + i, 0)]
         prompt == LogEntry("user", Len(log) + awaited + 2, 0)
     IN  \E hidden \in {0, awaited, awaited + 1} :
           /\ Extended(tracker, IF hidden = 0 THEN results ELSE results \o <<RollbackEntry(hidden), prompt>>)
           /\ forced' = (hidden > 0)
  /\ UNCHANGED <<requests, anchored, resets>>

\* The provider refused the prompt: the latest exchange is hidden, the answer is asked for.
DropExchange ==
  /\ awaited = 0 /\ ~forced /\ forced' = TRUE
  /\ LET visible == Visible
         caller == SelectLastInSeq(visible, LAMBDA e : e.role # "tool")
     IN  /\ caller > 0 /\ caller < Len(visible) /\ visible[caller].calls > 0
         /\ Extended(tracker, <<RollbackEntry(Len(visible) - caller + 1), LogEntry("user", NextText + 1, 0)>>)
  /\ UNCHANGED <<awaited, requests, anchored, resets>>

Compact ==
  /\ awaited = 0
  /\ LET older == Len(Visible) - TaskPrefix - KeepRecent
     IN  older > 0 /\ Extended(tracker, <<CompactionEntry(TaskPrefix, older, NextText)>>)
  /\ UNCHANGED <<awaited, forced, requests, anchored, resets>>

\* A reset opens the task again.
DiscardAll ==
  /\ awaited = 0 /\ forced' = FALSE /\ TaskPrefix < Len(Visible)
  /\ Extended(tracker, <<DiscardEntry(TaskPrefix)>>)
  /\ resets' = Append(resets, Turns(Visible))
  /\ UNCHANGED <<awaited, requests, anchored>>

ReadersNext ==
  /\ UNCHANGED keepToolResult
  /\ \/ CallTools \/ Withdraw \/ Reprompt \/ GiveAnswer \/ ReturnResults
     \/ DropExchange \/ Compact \/ DiscardAll

ReadersSpec == ReadersInit /\ [][ReadersNext]_readerVars

-----------------------------------------------------------------------------
(***************************************************************************)
(* The readers.                                                            *)
(***************************************************************************)

\* _materialize_visible_conversation, of the first n entries of a trace that is loaded or
\* replayed.
SeenAfter(visible, entry) ==
  CASE MarkerIs(entry, "rollback") -> AfterRollback(visible, entry.count)
    [] MarkerIs(entry, "compaction") -> Spliced(visible, entry)
    [] MarkerIs(entry, "discard_all") -> Cut(visible, entry)
    [] OTHER -> Append(visible, entry)
Materialized(entries, n) ==
  LET seen[i \in 0..n] == IF i = 0 THEN << >> ELSE SeenAfter(seen[i - 1], entries[i]) IN seen[n]

\* _reconstruct_visible_messages and _discard_all_reset_turns: other markers first, and a
\* rollback takes what it says.
TurnsAfter(state, entry) ==
  LET left == Len(state.visible) - entry.count
  IN  CASE MarkerIs(entry, "compaction") -> [state EXCEPT !.visible = Spliced(@, entry)]
        [] MarkerIs(entry, "discard_all") ->
             [turns |-> Append(state.turns, Turns(state.visible)), visible |-> Cut(state.visible, entry)]
        [] MarkerIs(entry, "rollback") -> [state EXCEPT !.visible = SubSeq(@, 1, IF left > 0 THEN left ELSE 0)]
        [] OTHER -> [state EXCEPT !.visible = Append(@, entry)]
StatisticsView(entries, n) ==
  LET state[i \in 0..n] == IF i = 0 THEN [visible |-> << >>, turns |-> << >>] ELSE TurnsAfter(state[i - 1], entries[i])
  IN  state[n]

\* conversation_to_swift_agent_sample: each call and each result is a message of its own.
SampleParts(e) ==
  CASE e.role = "assistant" /\ e.calls > 0 -> [i \in 1..e.calls |-> "tool_call"]
    [] e.role = "tool" -> <<"tool_response">>
    [] OTHER -> <<e.role>>
SampleOf(visible) == Joined([i \in DOMAIN visible |-> SampleParts(visible[i])], Len(visible))

\* Defect in the operator below: one result too many is taken for omitted.
OneMoreOmitted(visible) ==
  LET tools == ToolIndices(visible)
  IN  {i \in tools : keepToolResult >= 0 /\ Cardinality({j \in tools : j > i}) + 1 >= keepToolResult}

\* _render_request_view decides again which results were replaced.
Omitted(visible) ==
  LET tools == ToolIndices(visible)
  IN  IF keepToolResult < 0 THEN {} ELSE {i \in tools : Cardinality({j \in tools : j > i}) >= keepToolResult}

PrefixViews(entries) ==
  {LET visible == Materialized(entries, n) IN Wire(visible, Omitted(visible)) : n \in 0..Len(entries)}

-----------------------------------------------------------------------------
(***************************************************************************)
(* Properties.                                                             *)
(***************************************************************************)
Occurrences(sample, role, n) == SumOf([i \in DOMAIN sample |-> IF sample[i] = role THEN 1 ELSE 0], n)

\* The log says all there is to say of what the model saw.  Whoever reads it, and by
\* whatever code, finds what the runtime has in sight, however messages were withdrawn,
\* hidden, compacted or discarded; the statistics find every reset and the turns it threw
\* away; every request is found again among the prefixes, with the placeholders it had;
\* the running estimate is within a token per segment of that of all messages in sight,
\* and an anchor stands for messages that are still the first of them.  Without
\* compaction, whose boundary may fall between a call and its result, no exported sample
\* has a result before its call.
ReadersAgree ==
  LET sample == SampleOf(Visible)
      compacted == \E i \in DOMAIN log : MarkerIs(log[i], "compaction")
  IN  /\ Materialized(log, Len(log)) = Visible
      /\ StatisticsView(log, Len(log)) = [visible |-> Visible, turns |-> resets]
      /\ requests \subseteq PrefixViews(log)
      /\ tracker.tokens - Tokens(Visible) \in -Len(tracker.segments)..Len(tracker.segments)
      /\ tracker.anchor > 0 => SubSeq(Visible, 1, tracker.anchor) = anchored
      /\ ~compacted => \A n \in DOMAIN sample :
           Occurrences(sample, "tool_response", n) <= Occurrences(sample, "tool_call", n)
=============================================================================
