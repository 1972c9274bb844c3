------------------------- MODULE MCTaskOrchestrator -------------------------
(***************************************************************************)
(* Small instances of TaskOrchestrator for TLC.                            *)
(***************************************************************************)
EXTENDS TaskOrchestrator

OneOrTwoCalls == {1, 2}
AllModelErrors == {"context_limit", "empty_response", "other"}
=============================================================================
