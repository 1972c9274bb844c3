---------------------------- MODULE MCToolManager ----------------------------
(***************************************************************************)
(* Small instances of ToolManager for TLC.                                 *)
(***************************************************************************)
EXTENDS ToolManager

CONSTANTS search, python, a, b, bad

TwoTools == {search, python}
ThreeArgs == {a, b, bad}
MixedBudgets == [t \in TwoTools |-> IF t = search THEN 1 ELSE NoLimit]
OneOrAnyRepeats == [t \in TwoTools |-> IF t = search THEN NoLimit ELSE 1]
=============================================================================
