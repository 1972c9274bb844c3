---------------------------- MODULE MCTaskLogger ----------------------------
(***************************************************************************)
(* Small instances of TaskLogger for TLC.                                  *)
(***************************************************************************)
EXTENDS TaskLogger

CONSTANTS t1, t2

TwoTasks == {t1, t2}
BothModes == BOOLEAN
BackgroundOnly == {TRUE}
=============================================================================
