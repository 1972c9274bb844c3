------------------------------ MODULE PageTable ------------------------------
(***************************************************************************)
(* A table too large for one request of the summary model                  *)
(* (agentic/tools/web_search/_scrape_utils.py,                             *)
(* _split_content_for_chunked_extraction with csv_layer_b_enabled): a page *)
(* that looks like a table under a header is cut at the ends of its lines, *)
(* each chunk under the header; if the request names rows, and not most of *)
(* them, only those are kept.                                              *)
(*                                                                         *)
(* A line is its size, whether it has as many separators as the header,    *)
(* and whether the request asks for it; a line of size 0 is blank.  A text *)
(* is the places where its lines end, one character each, the last line's  *)
(* with it.  Which columns are kept is left out, and so are line breaks    *)
(* within a cell.                                                          *)
(***************************************************************************)
EXTENDS Integers, Sequences, FiniteSets

CONSTANTS
  Tables,      \* bodies of tables: sequences of [size, aligned, asked]
  MinBody,     \* MIN_BODY_LINES
  MaxProbe,    \* MAX_PROBE
  TableRoom,   \* chunk_size: what a request has for a chunk
  HeaderSize   \* of the header's line

TableLine == [size : Nat, aligned : BOOLEAN, asked : BOOLEAN]

ASSUME TableAssumption ==
  /\ {MinBody, MaxProbe, TableRoom, HeaderSize} \subseteq Nat
  /\ \A t \in Tables : t \in Seq(TableLine)

VARIABLES
  sheet,      \* the page after its header
  named,      \* whether the request has terms or conditions for rows
  route,      \* "undecided", "windows" (PageExtraction), "rows" or "excerpt"
  keptLines,  \* the lines whose text is cut
  position,   \* where in it the next piece begins, from 0
  pieces      \* the pieces so far: each what follows "from", up to "to"

tableVars == <<sheet, named, route, keptLines, position, pieces>>

Blank(line) == line.size = 0
Lines(list) == {i \in DOMAIN list : ~Blank(list[i])}

\* Where the text of the lines kept of a list ends, after each line of the list.
EndsOf(list, lines) ==
  LET end[i \in 0..Len(list)] ==
        IF i = 0 THEN 0 ELSE end[i - 1] + IF i \in lines THEN list[i].size + 1 ELSE 0
  IN  end

\* _detect_csv_structure: of the lines probed, enough and nearly all are like the header.
Probed(list) == {i \in Lines(list) : Cardinality({j \in Lines(list) : j <= i}) <= MaxProbe}
Aligned(list) == {i \in Probed(list) : list[i].aligned}
LooksLikeTable(list) ==
  Cardinality(Aligned(list)) >= MinBody /\ 5 * Cardinality(Aligned(list)) >= 4 * Cardinality(Probed(list))

\* _csv_row_matches_query
Asked(list) == {i \in Lines(list) : list[i].asked}

\* _build_query_focused_csv_excerpt: not if most of the table is asked for; blank lines
\* count as rows there.
WorthAnExcerpt(list) ==
  named /\ Asked(list) # {} /\ 5 * Cardinality(Asked(list)) <= 4 * Len(list)

\* The room for lines, beside the header.
BodyBudget == IF TableRoom - HeaderSize < 1 THEN 1 ELSE TableRoom - HeaderSize

End == EndsOf(sheet, keptLines)
TextLength == End[Len(sheet)]
LineEnds == {End[i] : i \in keptLines}
EndsWithin(from, to) == {k \in LineEnds : from < k /\ k <= to}

\* Where the room for a piece ends, be it within a line.
RoomEnd ==
  IF position + BodyBudget < TextLength THEN position + BodyBudget ELSE TextLength

\* _split_csv_content_for_chunked_extraction, where a piece ends: with its room, at the
\* last line end in it, but for one at its very start; a line longer than the room is
\* taken whole.
PieceEnd ==
  LET full == RoomEnd
      inside == EndsWithin(position, full)
      snapped == inside \ {position + 1}
      later == EndsWithin(full, TextLength)
  IN  IF full = TextLength THEN full
      ELSE IF snapped # {} THEN CHOOSE k \in snapped : \A j \in snapped : j <= k
      ELSE IF inside # {} THEN full
      ELSE IF later # {} THEN CHOOSE k \in later : \A j \in later : k <= j
      ELSE TextLength

-----------------------------------------------------------------------------
TableInit ==
  /\ sheet \in Tables /\ named \in BOOLEAN
  /\ route = "undecided" /\ keptLines = {} /\ position = 0 /\ pieces = <<>>

\* The excerpt is dropped when it is hardly shorter than a large page.
Decide ==
  /\ route = "undecided"
  /\ \/ ~LooksLikeTable(sheet) /\ route' = "windows" /\ keptLines' = {}
     \/ LooksLikeTable(sheet) /\ WorthAnExcerpt(sheet) /\ route' = "excerpt" /\ keptLines' = Asked(sheet)
     \/ LooksLikeTable(sheet) /\ route' = "rows" /\ keptLines' = DOMAIN sheet
  /\ UNCHANGED <<sheet, named, position, pieces>>

\* One pass of the loop; a piece of line ends only is skipped.
TakePiece ==
  /\ route \in {"rows", "excerpt"} /\ position < TextLength
  /\ position' = PieceEnd
  /\ pieces' = IF (position + 1)..PieceEnd \subseteq LineEnds
                 THEN pieces ELSE Append(pieces, [from |-> position, to |-> PieceEnd])
  /\ UNCHANGED <<sheet, named, route, keptLines>>

TableNext == Decide \/ TakePiece

TableSpec == TableInit /\ [][TableNext]_tableVars

-----------------------------------------------------------------------------
(***************************************************************************)
(* Properties.                                                             *)
(***************************************************************************)
Split == route \in {"rows", "excerpt"} /\ position = TextLength
CellPlaces == (1..TextLength) \ LineEnds
OfPiece(piece, k) == piece.from < k /\ k <= piece.to

\* The lines a piece begins or ends within.
CutLines ==
  {i \in keptLines : \E p \in DOMAIN pieces :
     \E b \in {pieces[p].from, pieces[p].to} : End[i - 1] < b /\ b < End[i - 1] + sheet[i].size}

\* The line before is blank, or leaves no room in a piece for its own end.
AfterTightLine(i) ==
  \E j \in keptLines : End[j] = End[i - 1] /\ (Blank(sheet[j]) \/ sheet[j].size = BodyBudget - 1)

\* Every cell that was asked for is in one piece, and in order, and every line in one piece
\* whole (the docstring at _scrape_utils.py:1167: rows are "NEVER split mid-record"), but for
\* a line longer than the room whose piece begins with the end of the line before it.
RowsKeptWhole ==
  Split =>
    /\ \A k \in CellPlaces : \E p \in DOMAIN pieces : \A q \in DOMAIN pieces : OfPiece(pieces[q], k) <=> q = p
    /\ \A p, q \in DOMAIN pieces : p < q => pieces[p].to <= pieces[q].from
    /\ \A i \in CutLines : sheet[i].size >= BodyBudget /\ AfterTightLine(i)
    /\ named => Asked(sheet) \subseteq keptLines
=============================================================================
