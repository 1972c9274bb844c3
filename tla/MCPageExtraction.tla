--------------------------- MODULE MCPageExtraction ---------------------------
(***************************************************************************)
(* A small instance of PageExtraction for TLC.                             *)
(***************************************************************************)
EXTENDS PageExtraction

\* Pages of two or three chunks: sparse facts, and facts side by side.
TwoDocuments == {<<1, 0, 2, 0, 3, 4, 0>>, <<0, 1, 2, 3, 0, 0>>}
=============================================================================
