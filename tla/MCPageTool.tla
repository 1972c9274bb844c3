------------------------------ MODULE MCPageTool ------------------------------
(***************************************************************************)
(* A small instance of PageTool for TLC.                                   *)
(***************************************************************************)
EXTENDS PageTool

\* What the URL holds: nothing but blanks; a table of an early row that refers to a later
\* day, a row all of a later day and a line of no day; a page dated after the boundary;
\* listings before the boundary, after it and across it, alone and with a row.
SixPages == {
  [stated |-> NoDay, entries |-> <<>>],
  [stated |-> NoDay, entries |-> <<Row(1, <<3>>), Row(3, <<>>), Line(<<>>, FALSE)>>],
  [stated |-> 3, entries |-> <<Line(<<1>>, FALSE)>>],
  [stated |-> 1, entries |-> <<Line(<<1, 3, 3>>, TRUE), Line(<<>>, FALSE)>>],
  [stated |-> NoDay, entries |-> <<Line(<<3, 1>>, TRUE), Row(1, <<>>)>>],
  [stated |-> NoDay, entries |-> <<Line(<<1, 3, 3>>, TRUE), Line(<<2>>, FALSE)>>]}
=============================================================================
