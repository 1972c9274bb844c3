---------------------------- MODULE PageExtraction ----------------------------
(***************************************************************************)
(* Extraction from a page that is too large for the summary model          *)
(* (agentic/tools/web_search/_scrape_utils.py, _extract_with_llm_chunked): *)
(* the page is cut into chunks that overlap, each is asked about by itself *)
(* and the findings are merged by another request, or, when they are too   *)
(* long for one, cut and asked about again, down to a depth.               *)
(*                                                                         *)
(* A text is a sequence of cells, each a fact that was asked for or Noise. *)
(* A model that is shown a fact reports it: what is checked is what the    *)
(* program does with what it is told.  The requests of a round are made    *)
(* side by side but their results are taken in order, so a round is        *)
(* modelled chunk after chunk.                                             *)
(***************************************************************************)
EXTENDS Integers, Sequences, SequencesExt

CONSTANTS
  Documents,    \* pages: sequences of facts and Noise
  Strategies,   \* chunk_strategy: "single", "recursive"
  MaxInput,     \* max_input_chars
  Question,     \* length of the request around the page
  ReduceWords,  \* by how much a reduce request is longer than the request it wraps
  AnchorWords,  \* of the summary of the page's head in a reduce request, if there is one
  OverlapCells, \* chunk_overlap_chars
  MaxDepth,     \* max_recursion_depth
  Noise         \* what was not asked for

ASSUME ExtractionAssumption ==
  /\ Strategies \subseteq {"single", "recursive"}
  /\ {MaxInput, Question, ReduceWords, AnchorWords, OverlapCells, MaxDepth} \subseteq Nat
  /\ MaxInput > Question
  /\ \A document \in Documents : document \in Seq(ToSet(document))

VARIABLES
  strategy,
  page,     \* the content the tool was called with
  anchored, \* there is a global_anchor
  text,     \* what this round is about
  depth,
  start,    \* where the next chunk of text begins
  chunks,   \* chunks asked about so far in this round
  findings, \* what was found in them, in order
  failures, \* how many requests of this round failed
  answer,   \* what is returned
  phase,    \* "anchoring", "mapping", "done", "failed"
  failed,   \* history: facts in chunks whose request failed
  givenUp,  \* history: facts in halves that were not asked about again
  found     \* history: facts found in the first round

extractionVars == <<strategy, page, anchored, text, depth, start, chunks, findings, failures, answer, phase, failed, givenUp, found>>
round == <<text, depth, start, chunks, findings, failures>>
history == <<failed, givenUp, found>>

Facts(cells) == ToSet(cells) \ {Noise}
Reported(cells) == FlattenSeq([i \in DOMAIN cells |-> IF cells[i] = Noise THEN <<>> ELSE <<cells[i]>>])

\* The request around a text wraps that of the round before, and names the anchor again.
Overhead(d) == Question + d * (ReduceWords + IF anchored THEN AnchorWords ELSE 0)
AtLeast(low, n) == IF n < low THEN low ELSE n
AtMost(high, n) == IF n > high THEN high ELSE n

\* _should_use_chunked_extraction
TooLong(cells, d) == Overhead(d) + Len(cells) > MaxInput

\* _split_content_for_chunked_extraction: the size of a chunk, and how far it reaches
\* back into the one before.
ChunkSize(d) == AtLeast(1, MaxInput - Overhead(d))
Overlap(d) == AtMost(ChunkSize(d) \div 3, OverlapCells)

\* A chunk may end early, at the end of a paragraph in its second half.
ChunkEnds(d) ==
  LET full == AtMost(Len(text), start + ChunkSize(d))
  IN  {full} \cup IF full = Len(text) THEN {}
                  ELSE {end \in start + AtLeast(1, (full - start) \div 2)..full : end > start}

\* Defect in the operator below: the next chunk begins after a gap.
NextStartAhead(end) == IF end = Len(text) THEN end ELSE AtLeast(start + 1, end + Overlap(depth))
NextStart(end) == IF end = Len(text) THEN end ELSE AtLeast(start + 1, end - Overlap(depth))

\* _format_chunk_findings: each under a header.
Combined(parts) == FlattenSeq([i \in DOMAIN parts |-> <<Noise>> \o parts[i]])

\* _halve_content_for_length_retry, once or again.
Halves(cells) == {SubSeq(cells, 1, n) : n \in {Len(cells) \div 2, Len(cells) \div 4} \ {0}}

-----------------------------------------------------------------------------
ExtractionInit ==
  /\ strategy \in Strategies /\ anchored = FALSE
  /\ page \in {document \in Documents : TooLong(document, 0)} /\ text = page
  /\ depth = 0 /\ start = 0 /\ chunks = 0 /\ findings = <<>> /\ failures = 0
  /\ answer = <<>> /\ phase = "anchoring" /\ failed = {} /\ givenUp = {} /\ found = {}

\* _extract_global_anchor, once and from the head of the page; without one, for whatever
\* failure, the chunks are asked about all the same.
AskAnchor ==
  /\ phase = "anchoring"
  /\ anchored' \in BOOLEAN /\ phase' = "mapping"
  /\ UNCHANGED <<strategy, page, answer, round, history>>

\* extract_with_llm of one chunk: it reports what it was shown, which may be the chunk's
\* first half only, or nothing of interest, or it fails.
AskChunk ==
  /\ phase = "mapping" /\ start < Len(text)
  /\ \E end \in ChunkEnds(depth) :
       LET chunk == SubSeq(text, start + 1, end)
       IN  /\ start' = NextStart(end)
           /\ chunks' = chunks + 1
           /\ \/ \E shown \in {chunk} \cup Halves(chunk) :
                   /\ findings' = IF Reported(shown) = <<>> THEN findings
                                  ELSE Append(findings, Reported(shown))
                   /\ givenUp' = givenUp \cup (Facts(chunk) \ Facts(shown))
                   /\ found' = IF depth = 0 THEN found \cup Facts(shown) ELSE found
                   /\ UNCHANGED <<failures, failed>>
              \/ /\ failures' = failures + 1
                 /\ failed' = failed \cup Facts(chunk)
                 /\ UNCHANGED <<findings, found, givenUp>>
  /\ UNCHANGED <<strategy, page, anchored, text, depth, answer, phase>>

Returns(cells) == answer' = cells /\ phase' = "done" /\ UNCHANGED <<round, history>>

\* No finding: a failure if every request failed, and otherwise an answer that says so.
NothingFound ==
  /\ findings = <<>>
  /\ \/ failures = chunks /\ phase' = "failed" /\ UNCHANGED <<round, answer, history>>
     \/ failures < chunks /\ Returns(<<>>)

\* A single finding is the answer.
OneFinding == Len(findings) = 1 /\ Returns(findings[1])

\* Findings too long for one request are the text of another round.
Recurse ==
  /\ strategy = "recursive" /\ depth < MaxDepth /\ TooLong(Combined(findings), depth + 1)
  /\ text' = Combined(findings) /\ depth' = depth + 1
  /\ start' = 0 /\ chunks' = 0 /\ findings' = <<>> /\ failures' = 0
  /\ UNCHANGED <<answer, phase, history>>

\* At the last depth they are returned as they are.
ReturnCombined ==
  /\ strategy = "recursive" /\ depth >= MaxDepth /\ TooLong(Combined(findings), depth + 1)
  /\ Returns(Combined(findings))

\* Otherwise one request merges them, all or what is left after halving; if it fails the
\* findings are returned as they are.
Merge ==
  /\ strategy = "single" \/ ~TooLong(Combined(findings), depth + 1)
  /\ \/ Returns(Combined(findings))
     \/ \E shown \in Halves(Combined(findings)) :
          /\ answer' = Reported(shown) /\ phase' = "done"
          /\ givenUp' = givenUp \cup (Facts(Combined(findings)) \ Facts(shown))
          /\ UNCHANGED <<round, failed, found>>

Conclude ==
  /\ phase = "mapping" /\ start = Len(text)
  /\ \/ NothingFound
     \/ OneFinding
     \/ Len(findings) > 1 /\ (Recurse \/ ReturnCombined \/ Merge)
  /\ UNCHANGED <<strategy, page, anchored>>

ExtractionNext == AskAnchor \/ AskChunk \/ Conclude

ExtractionSpec == ExtractionInit /\ [][ExtractionNext]_extractionVars

-----------------------------------------------------------------------------
(***************************************************************************)
(* Properties.                                                             *)
(***************************************************************************)

\* However the page is cut, over however many rounds, a fact that is not in the answer was
\* in a request that failed or in a half that was given up: no boundary, overlap, merge or
\* depth limit of the program loses it.
EveryFactAccounted ==
  phase = "done" => Facts(page) \subseteq Facts(answer) \cup failed \cup givenUp

\* What the requests about the page itself have found is in the answer, unless a half was
\* given up (the docstring at _scrape_utils.py:1650: findings are reduced again "so the
\* tail of very large pages is never silently dropped").
FindingsKept ==
  phase = "done" => found \subseteq Facts(answer) \cup givenUp
=============================================================================
