---------------------------- MODULE MCConversation ----------------------------
(***************************************************************************)
(* A small instance for TLC of the conversation, of its record on disk and *)
(* of those who read its log, side by side: one run checks the runtime,    *)
(* the trace logger and the readers, of which one moves in a behaviour and *)
(* the others stand still.                                                 *)
(***************************************************************************)
EXTENDS ConversationRuntime, MCTaskLogger, TraceReaders

OneOrTwoCalls == {1, 2}

\* Every result, none, or the latest alone.
AnyKept == {-1, 0, 1}

VARIABLE subject \* the part that moves; never changes

RecordInit ==
  /\ Init /\ LoggerInit /\ ReadersInit
  /\ subject \in {"conversation", "record", "readers"}
  /\ subject # "record" => background
  /\ subject # "readers" => keepToolResult = -1 /\ Len(log) = 1

\* The part of the given name moves, every other stands still.
Alone(moving) ==
  /\ subject = moving /\ UNCHANGED subject
  /\ moving # "conversation" => UNCHANGED runtimeVars
  /\ moving # "record" => UNCHANGED loggerVars
  /\ moving # "readers" => UNCHANGED readerVars

RecordNext ==
  \/ Alone("conversation") /\ Next
  \/ Alone("record") /\ LoggerNext
  \/ Alone("readers") /\ ReadersNext

allVars == <<runtimeVars, loggerVars, readerVars, subject>>

RecordSpec ==
  /\ RecordInit /\ [][RecordNext]_allVars
  /\ WF_allVars(Alone("record") /\ LoopStep) /\ WF_allVars(Alone("record") /\ WriterStep)
=============================================================================
