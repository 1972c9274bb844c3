----------------------- MODULE ConversationContracts -----------------------
(***************************************************************************)
(* The shared vocabulary of the agent runtime: conversation stages and the *)
(* table of legal stage changes (agentic/contracts/conversation.py), the   *)
(* messages of a conversation, the runtime markers recorded in the         *)
(* append-only log, and how each marker changes the model-visible          *)
(* conversation (agentic/contracts/markers.py and the replay in            *)
(* agentic/conversations/conversation_runtime.py).                         *)
(*                                                                         *)
(* A message is a record [kind, n].  Content is abstracted away; "n" keeps *)
(* the only quantity that matters: the number of tool calls an assistant   *)
(* message requests, the number of calls a tool message answers, the       *)
(* number of messages a rollback hides, the prefix a reset keeps.          *)
(***************************************************************************)
EXTENDS Integers, Sequences, SequencesExt

CallModelStages == {"initial_user", "tool_messages", "format_error", "final_prompt", "force_final"}
ExecuteToolsStages == {"await_tools"}
DoneStages == {"completed", "force_completed", "calls_rejected", "token_exceed"}
InternalStages == {"not_initialized", "system_set", "received", "context_rollback", "assistant_rollback"}

\* The stages a caller can observe, and the one before initialization.
Stages == CallModelStages \cup ExecuteToolsStages \cup DoneStages \cup {"not_initialized"}

\* VALID_STAGE_TRANSITION, read as a relation on stages.
ValidStageTransition ==
  (  {"not_initialized"} \X {"system_set", "initial_user"})
  \cup ({"system_set"} \X {"initial_user"})
  \cup ({"initial_user"} \X {"received", "force_final"})
  \cup ({"tool_messages"} \X {"received", "context_rollback", "force_final", "token_exceed"})
  \cup ({"received"} \X ({"await_tools", "format_error", "final_prompt", "force_final",
                          "assistant_rollback"} \cup DoneStages))
  \cup ({"await_tools"} \X {"tool_messages", "assistant_rollback"})
  \cup ({"format_error", "final_prompt"} \X {"received", "force_final"})
  \cup ({"context_rollback"} \X {"force_final", "token_exceed"})
  \cup ({"assistant_rollback"} \X {"tool_messages", "initial_user"})
  \cup ({"force_final"} \X {"received", "context_rollback"})

Triggers == {"context_limit", "turn_limit", "tools_exhausted", "empty_response"}
NoTrigger == "none"

-----------------------------------------------------------------------------
(***************************************************************************)
(* Messages and markers.                                                   *)
(***************************************************************************)
Message(kind, n) == [kind |-> kind, n |-> n]

SystemMessage == Message("system", 0)
TaskMessage == Message("task", 0)
UserPromptKinds == {"task", "reprompt", "final_prompt", "force_prompt"}
AssistantKinds == {"calls", "text", "empty", "summary"}
MarkerKinds == {"rollback", "discard_all", "compaction"}

RollbackMarker(count) == Message("rollback", count)
DiscardAllMarker(prefix) == Message("discard_all", prefix)
CompactionMarker(prefix, count) == [kind |-> "compaction", n |-> prefix, count |-> count]

IsMarker(m) == m.kind \in MarkerKinds
IsAssistant(m) == m.kind \in AssistantKinds

-----------------------------------------------------------------------------
(***************************************************************************)
(* What each log entry does to the visible conversation.                   *)
(***************************************************************************)

\* Hide up to "count" trailing messages, stopping at a system message.
RollbackLast(visible, count) ==
  LET lastSystem == SelectLastInSeq(visible, LAMBDA m : m.kind = "system")
      kept == Len(visible) - count
  IN  SubSeq(visible, 1, IF kept > lastSystem THEN kept ELSE lastSystem)

\* Replace [prefix, prefix + count) by one assistant summary; no-op if out of range.
SpliceCompaction(visible, prefix, count) ==
  IF prefix + count > Len(visible) THEN visible
  ELSE SubSeq(visible, 1, prefix) \o <<Message("summary", 0)>>
         \o SubSeq(visible, prefix + count + 1, Len(visible))

\* Keep the first "prefix" messages; no-op if there are fewer.
SpliceDiscardAll(visible, prefix) ==
  IF prefix > Len(visible) THEN visible ELSE SubSeq(visible, 1, prefix)

\* One log entry replayed into the visible conversation.
ReplayEntry(visible, m) ==
  CASE m.kind = "rollback" -> RollbackLast(visible, m.n)
    [] m.kind = "compaction" -> SpliceCompaction(visible, m.n, m.count)
    [] m.kind = "discard_all" -> SpliceDiscardAll(visible, m.n)
    [] OTHER -> Append(visible, m)

Replay(visible, entries) ==
  LET seen[i \in 0..Len(entries)] ==
        IF i = 0 THEN visible ELSE ReplayEntry(seen[i - 1], entries[i])
  IN  seen[Len(entries)]
=============================================================================
