--------------------- MODULE ConversationRuntime_proofs ---------------------
(***************************************************************************)
(* Theorems about ConversationRuntime for every value of its constants:    *)
(* type correctness, the turn budget, the absence of illegal stage changes *)
(* without a minimum generation budget, where a step may raise at all, and *)
(* what the model is shown: the task, complete exchanges, and exactly what *)
(* the append-only log replays to.                                         *)
(***************************************************************************)
EXTENDS ConversationRuntime, ConversationContracts_proofs

-----------------------------------------------------------------------------
AllStages == Stages \cup InternalStages

-----------------------------------------------------------------------------
(***************************************************************************)
(* The building blocks of a step keep their types.                         *)
(***************************************************************************)

LEMMA ContextRollbackCountType ==
  ASSUME ConfigAssumption, NEW v \in Seq(VisibleMessage), NEW at
  PROVE  ContextRollbackCount(v, at) \in Nat
<1> DEFINE lastSystem == SelectLastInSeq(v, LAMBDA m : m.kind = "system")
           lastAssistant == SelectLastInSeq(v, IsAssistant)
           lastOther == SelectLastInSeq(v, LAMBDA m : m.kind # "tool")
<1>1. Len(v) \in Nat
  OBVIOUS
<1>2. lastSystem \in 0..Len(v)
  BY LastSystemPosition
<1>3. lastAssistant \in 0..Len(v)
  <2> DEFINE I == {i \in 1..Len(v) : IsAssistant(v[i])}
  <2>1. lastAssistant = IF I # {} THEN Max(I) ELSE 0
    BY DEF SelectLastInSeq
  <2>2. I \in SUBSET (1..Len(v))
    OBVIOUS
  <2> HIDE DEF I, lastAssistant
  <2>3. QED
    BY <1>1, <2>1, <2>2, LastPosition
<1>4. lastOther \in 0..Len(v)
  <2> DEFINE I == {i \in 1..Len(v) : v[i].kind # "tool"}
  <2>1. lastOther = IF I # {} THEN Max(I) ELSE 0
    BY DEF SelectLastInSeq
  <2>2. I \in SUBSET (1..Len(v))
    OBVIOUS
  <2> HIDE DEF I, lastOther
  <2>3. QED
    BY <1>1, <2>1, <2>2, LastPosition
<1>5. ContextRollbackCount(v, at) \in {Len(v) - lastOther, Len(v) - lastAssistant + 1, Len(v) - lastSystem}
  BY DEF ContextRollbackCount
<1> HIDE DEF lastSystem, lastAssistant, lastOther
<1>6. QED
  BY <1>1, <1>2, <1>3, <1>4, <1>5

LEMMA LatestToolExchangeType ==
  ASSUME NEW v \in Seq(VisibleMessage)
  PROVE  LatestToolExchange(v) \in Nat
<1> DEFINE prompted == HasForcePrompt /\ Len(v) > 0
                         /\ \/ v[Len(v)].kind = "force_prompt"
                            \/ ~EarlyStopPrompt /\ v[Len(v)].kind = "final_prompt"
           lastResult == Len(v) - (IF prompted THEN 1 ELSE 0)
           caller == SelectLastInSubSeq(v, 1, lastResult, LAMBDA m : m.kind # "tool")
           I == {i \in 1..lastResult : v[i].kind # "tool"}
<1>1. lastResult \in 0..Len(v) /\ Len(v) \in Nat
  <2>1. CASE prompted
    <3>1. Len(v) > 0 /\ Len(v) \in Nat
      BY <2>1
    <3> HIDE DEF prompted
    <3>2. QED
      BY <2>1, <3>1
  <2>2. CASE ~prompted
    <3> HIDE DEF prompted
    <3>1. QED
      BY <2>2
  <2>3. QED
    BY <2>1, <2>2
<1>2. caller = IF I # {} THEN Max(I) ELSE 0
  BY DEF SelectLastInSubSeq
<1>3. LatestToolExchange(v) \in {0, Len(v) - caller + 1}
  BY DEF LatestToolExchange
<1> HIDE DEF prompted, lastResult, caller
<1>4. I \in SUBSET (1..lastResult)
  OBVIOUS
<1> HIDE DEF I
<1>5. caller \in 0..lastResult
  BY <1>1, <1>2, <1>4, LastPosition
<1>6. QED
  BY <1>1, <1>3, <1>5

LEMMA LogType ==
  ASSUME fullConversation \in Seq(Entry), visibleConversation \in Seq(VisibleMessage),
         NEW before \in Seq(VisibleMessage), NEW hidden \in Nat, NEW after \in Seq(VisibleMessage),
         Log(before, hidden, after)
  PROVE  fullConversation' \in Seq(Entry) /\ visibleConversation' \in Seq(VisibleMessage)
<1>1. before \in Seq(Entry) /\ after \in Seq(Entry)
  BY DEF Entry
<1> DEFINE marker == IF hidden > 0 THEN <<RollbackMarker(hidden)>> ELSE << >>
<1>2. RollbackMarker(hidden) \in Entry
  BY DEF RollbackMarker, Message, Entry, MarkerKinds
<1>3. marker \in Seq(Entry)
  BY <1>2
<1>4. fullConversation' = fullConversation \o before \o marker \o after
  BY DEF Log
<1> HIDE DEF marker
<1>5. fullConversation' \in Seq(Entry)
  BY <1>1, <1>3, <1>4
<1>6. visibleConversation \o before \in Seq(VisibleMessage)
  OBVIOUS
<1>7. RollbackLast(visibleConversation \o before, hidden) \in Seq(VisibleMessage)
  BY <1>6, RollbackLastType
<1>8. visibleConversation' = RollbackLast(visibleConversation \o before, hidden) \o after
  BY DEF Log
<1>9. QED
  BY <1>5, <1>7, <1>8

\* A stage change ends somewhere on its path, and at its end if every hop is legal.
LEMMA TransitType ==
  ASSUME NEW path \in Seq(AllStages), Len(path) >= 1, TransitAlong(path)
  PROVE  /\ stage' \in AllStages
         /\ raised' \in BOOLEAN
         /\ (\A i \in 1..(Len(path) - 1) : Hop(path, i)) => stage' = path[Len(path)] /\ raised' = FALSE
<1>1. PICK last \in 1..Len(path) :
        /\ \A i \in 1..(last - 1) : Hop(path, i)
        /\ stage' = path[last]
        /\ \/ last = Len(path) /\ raised' = FALSE
           \/ last < Len(path) /\ ~Hop(path, last) /\ raised' = TRUE
  BY DEF TransitAlong
<1>2. stage' \in AllStages
  BY <1>1
<1>3. raised' \in BOOLEAN
  BY <1>1
<1>4. ASSUME \A i \in 1..(Len(path) - 1) : Hop(path, i)
      PROVE  stage' = path[Len(path)] /\ raised' = FALSE
  <2>1. last = Len(path)
    BY <1>1, <1>4
  <2>2. QED
    BY <1>1, <2>1
<1>5. QED
  BY <1>2, <1>3, <1>4

LEMMA ResponseCalls ==
  ASSUME ConfigAssumption, NEW r \in Response
  PROVE  r.calls \in Nat
<1>1. r \in [calls : CallCounts \cup {0}, content : BOOLEAN, length : BOOLEAN,
              refusal : BOOLEAN, markup : BOOLEAN, direct : BOOLEAN]
  BY DEF Response
<1>2. r.calls \in CallCounts \cup {0}
  BY <1>1
<1>3. CallCounts \subseteq Nat
  BY DEF ConfigAssumption
<1>4. 0 \in Nat
  OBVIOUS
<1>5. QED
  BY <1>2, <1>3, <1>4, Zenon

LEMMA AssistantMessageType ==
  ASSUME ConfigAssumption, NEW r \in Response
  PROVE  <<AssistantMessage(r)>> \in Seq(VisibleMessage)
<1>1. r.calls \in Nat
  BY ResponseCalls
<1>2. AssistantMessage(r) \in VisibleMessage
  BY <1>1 DEF AssistantMessage, Message, VisibleMessage, AssistantKinds
<1>3. QED
  BY <1>2

LEMMA ForcePromptType == ForcePrompt \in Seq(VisibleMessage)
<1>1. Message("force_prompt", 0) \in VisibleMessage
  BY DEF Message, VisibleMessage, UserPromptKinds
<1>2. QED
  BY <1>1 DEF ForcePrompt

LEMMA ToolResultBatchesType ==
  ASSUME NEW n \in Nat, NEW results \in ToolResultBatches(n)
  PROVE  results \in Seq(VisibleMessage)
<1> DEFINE single(k) == [i \in 1..k |-> Message("tool", 1)]
<1>1. \A k \in Nat : Message("tool", k) \in VisibleMessage
  BY DEF Message, VisibleMessage
<1>2. \A k \in Nat : single(k) \in Seq(VisibleMessage)
  BY <1>1
<1>3. \/ results = single(n)
      \/ \E k \in 2..n : results = Append(single(n - k), Message("tool", k))
  BY DEF ToolResultBatches
<1> HIDE DEF single
<1>4. CASE results = single(n)
  BY <1>2, <1>4
<1>5. CASE \E k \in 2..n : results = Append(single(n - k), Message("tool", k))
  <2>1. PICK k \in 2..n : results = Append(single(n - k), Message("tool", k))
    BY <1>5
  <2>2. n - k \in Nat /\ k \in Nat
    OBVIOUS
  <2>3. QED
    BY <1>1, <1>2, <2>1, <2>2
<1>6. QED
  BY <1>3, <1>4, <1>5

-----------------------------------------------------------------------------
(***************************************************************************)
(* What the two endings of a step do.                                      *)
(***************************************************************************)
LogsOK == fullConversation \in Seq(Entry) /\ visibleConversation \in Seq(VisibleMessage)

FinalOK == finalTrigger \in Triggers \cup {NoTrigger} /\ finalHasPrompt \in BOOLEAN

LegalPath(path) == \A i \in 1..(Len(path) - 1) : Hop(path, i)

LEMMA SettleType ==
  ASSUME LogsOK, FinalOK, NEW entries \in Seq(VisibleMessage), NEW hidden \in Nat,
         NEW path \in Seq(AllStages), Len(path) >= 1, Settle(entries, hidden, path)
  PROVE  /\ LogsOK' /\ FinalOK' /\ stage' \in AllStages /\ raised' \in BOOLEAN
         /\ LegalPath(path) => stage' = path[Len(path)] /\ raised' = FALSE
<1>1. << >> \in Seq(VisibleMessage)
  OBVIOUS
<1>2. LogsOK'
  BY <1>1, LogType DEF LogsOK, Settle
<1>3. FinalOK'
  BY DEF FinalOK, Settle, finalVars
<1>4. TransitAlong(path)
  BY DEF Settle
<1>5. QED
  BY <1>2, <1>3, <1>4, TransitType DEF LegalPath

LEMMA ForceFinalType ==
  ASSUME ConfigAssumption, LogsOK, NEW entries \in Seq(VisibleMessage), NEW hidden \in Nat,
         NEW path \in Seq(AllStages), NEW trigger \in Triggers, ForceFinal(entries, hidden, path, trigger)
  PROVE  /\ LogsOK' /\ FinalOK' /\ stage' \in AllStages /\ raised' \in BOOLEAN
         /\ LegalPath(Append(path, "force_final")) => stage' = "force_final" /\ raised' = FALSE
<1>1. LogsOK'
  BY ForcePromptType, LogType DEF LogsOK, ForceFinal
<1>2. HasForcePrompt \in BOOLEAN
  BY DEF HasForcePrompt, ConfigAssumption
<1>3. FinalOK'
  BY <1>2 DEF FinalOK, ForceFinal
<1>4. TransitAlong(Append(path, "force_final"))
  BY DEF ForceFinal
<1> DEFINE whole == Append(path, "force_final")
<1>5. "force_final" \in AllStages
  BY DEF AllStages, Stages, CallModelStages
<1>6. whole \in Seq(AllStages) /\ Len(whole) >= 1 /\ whole[Len(whole)] = "force_final"
  BY <1>5
<1> HIDE DEF whole
<1>7. QED
  BY <1>1, <1>3, <1>4, <1>6, TransitType DEF LegalPath, whole

\* The rows of VALID_STAGE_TRANSITION the steps rely on.
LEMMA LegalHops ==
  /\ {"not_initialized"} \X {"system_set", "initial_user"} \subseteq ValidStageTransition
  /\ {"system_set"} \X {"initial_user"} \subseteq ValidStageTransition
  /\ CallModelStages \X {"received"} \subseteq ValidStageTransition
  /\ (CallModelStages \ {"force_final"}) \X {"force_final"} \subseteq ValidStageTransition
  /\ {"received"} \X (DoneStages \cup {"await_tools", "format_error", "final_prompt",
                                       "force_final", "assistant_rollback"}) \subseteq ValidStageTransition
  /\ {"await_tools"} \X {"tool_messages", "assistant_rollback"} \subseteq ValidStageTransition
  /\ {"assistant_rollback"} \X {"tool_messages", "initial_user"} \subseteq ValidStageTransition
  /\ {"tool_messages", "context_rollback"} \X {"force_final", "token_exceed"} \subseteq ValidStageTransition
BY DEF ValidStageTransition, CallModelStages, DoneStages

LEMMA LegalPathExtended ==
  ASSUME NEW path \in Seq(AllStages), Len(path) >= 1, LegalPath(path),
         NEW next \in AllStages, <<path[Len(path)], next>> \in ValidStageTransition
  PROVE  LegalPath(Append(path, next))
<1> DEFINE whole == Append(path, next)
<1>1. Len(path) \in Nat /\ Len(whole) = Len(path) + 1
  OBVIOUS
<1>2. \A i \in 1..Len(path) : whole[i] = path[i]
  OBVIOUS
<1>3. whole[Len(path) + 1] = next
  OBVIOUS
<1> HIDE DEF whole
<1>4. SUFFICES ASSUME NEW i \in 1..(Len(whole) - 1)
               PROVE  Hop(whole, i)
  BY DEF LegalPath, whole
<1>5. CASE i = Len(path)
  BY <1>1, <1>2, <1>3, <1>5 DEF Hop
<1>6. CASE i # Len(path)
  <2>1. i \in 1..(Len(path) - 1) /\ i + 1 \in 1..Len(path)
    BY <1>1, <1>6
  <2>2. Hop(path, i)
    BY <2>1 DEF LegalPath
  <2>3. whole[i] = path[i] /\ whole[i + 1] = path[i + 1]
    BY <1>1, <1>2, <2>1
  <2>4. QED
    BY <2>2, <2>3 DEF Hop
<1>7. QED
  BY <1>5, <1>6

LEMMA AwaitAssistantType ==
  ASSUME ConfigAssumption, LogsOK, FinalOK, NEW entries \in Seq(VisibleMessage),
         NEW path \in Seq(AllStages), Len(path) >= 1, LegalPath(path),
         <<path[Len(path)], "force_final">> \in ValidStageTransition,
         NEW turns, AwaitAssistant(entries, path, turns)
  PROVE  /\ LogsOK' /\ FinalOK' /\ stage' \in AllStages /\ raised' = FALSE
         /\ \/ TurnLimitReached(turns) /\ stage' = "force_final"
            \/ ~TurnLimitReached(turns) /\ stage' = path[Len(path)]
<1> 0 \in Nat /\ "turn_limit" \in Triggers
  BY DEF Triggers
<1>1. LegalPath(Append(path, "force_final"))
  <2>1. "force_final" \in AllStages
    BY DEF AllStages, Stages, CallModelStages
  <2>2. QED
    BY <2>1, LegalPathExtended
<1>2. CASE TurnLimitReached(turns)
  <2>1. ForceFinal(entries, 0, path, "turn_limit")
    BY <1>2 DEF AwaitAssistant
  <2>2. QED
    BY <1>1, <1>2, <2>1, ForceFinalType
<1>3. CASE ~TurnLimitReached(turns)
  <2>1. Settle(entries, 0, path)
    BY <1>3 DEF AwaitAssistant
  <2>2. QED
    BY <1>3, <2>1, SettleType
<1>4. QED
  BY <1>2, <1>3

\* Forcing the answer for the context: legal from every stage that may be forced,
\* and the give-up without a fitting prompt is legal except from three of them.
LEMMA ForceFinalDueToContextType ==
  ASSUME ConfigAssumption, LogsOK, FinalOK, NEW entries \in Seq(VisibleMessage),
         NEW path \in Seq(AllStages), Len(path) >= 1, LegalPath(path),
         <<path[Len(path)], "force_final">> \in ValidStageTransition,
         NEW mayRollBack \in BOOLEAN, NEW fits \in BOOLEAN,
         ForceFinalDueToContext(entries, path, mayRollBack, fits)
  PROVE  /\ LogsOK' /\ FinalOK' /\ raised' \in BOOLEAN
         /\ stage' \in {path[Len(path)], "context_rollback", "force_final", "token_exceed"}
         /\ fits \/ <<path[Len(path)], "token_exceed">> \in ValidStageTransition
              => raised' = FALSE /\ stage' \in {"force_final", "token_exceed"}
<1> DEFINE at == path[Len(path)]
           hidden == IF mayRollBack /\ MayRollBackFrom(at)
                       THEN ContextRollbackCount(visibleConversation \o entries, at) ELSE 0
           reached == IF hidden > 0 THEN Append(path, "context_rollback") ELSE path
<1>1. ConfigAssumption /\ visibleConversation \o entries \in Seq(VisibleMessage)
  BY DEF LogsOK
<1>2. ContextRollbackCount(visibleConversation \o entries, at) \in Nat
  BY <1>1, ContextRollbackCountType
<1>3. hidden \in Nat
  BY <1>2
<1>4. hidden > 0 => MayRollBackFrom(at)
  OBVIOUS
<1>5. \/ fits /\ ForceFinal(entries, hidden, reached, "context_limit")
      \/ ~fits /\ Settle(entries, hidden, Append(reached, "token_exceed"))
  BY DEF ForceFinalDueToContext
<1>6. "context_limit" \in Triggers /\ {"context_rollback", "token_exceed", "force_final"} \subseteq AllStages
  BY DEF Triggers, AllStages, Stages, CallModelStages, DoneStages, InternalStages
<1> HIDE DEF hidden
<1>7. /\ reached \in Seq(AllStages) /\ Len(reached) >= 1 /\ LegalPath(reached)
      /\ reached[Len(reached)] \in {at, "context_rollback"}
  BY <1>3, <1>4, <1>6 DEF LegalPath, Hop, MayRollBackFrom
<1>8. <<reached[Len(reached)], "force_final">> \in ValidStageTransition
  BY <1>7, LegalHops
<1>9. <<at, "token_exceed">> \in ValidStageTransition => <<reached[Len(reached)], "token_exceed">> \in ValidStageTransition
  BY <1>7, LegalHops
<1> HIDE DEF reached, at
<1>10. CASE fits /\ ForceFinal(entries, hidden, reached, "context_limit")
  <2>1. LegalPath(Append(reached, "force_final"))
    BY <1>6, <1>7, <1>8, LegalPathExtended
  <2>2. /\ LogsOK' /\ FinalOK' /\ stage' = "force_final" /\ raised' = FALSE
    BY <1>3, <1>6, <1>7, <1>10, <2>1, ForceFinalType
  <2>3. QED
    BY <2>2
<1>11. CASE ~fits /\ Settle(entries, hidden, Append(reached, "token_exceed"))
  <2> DEFINE whole == Append(reached, "token_exceed")
  <2>1. whole \in Seq(AllStages) /\ Len(whole) >= 1 /\ whole[Len(whole)] = "token_exceed"
    BY <1>6, <1>7
  <2>2. Settle(entries, hidden, whole)
    BY <1>11
  <2>3. <<at, "token_exceed">> \in ValidStageTransition => LegalPath(whole)
    BY <1>6, <1>7, <1>9, LegalPathExtended
  <2>4. stage' \in {reached[Len(reached)], "token_exceed"}
    <3>1. Len(whole) = Len(reached) + 1 /\ \A i \in 1..Len(reached) : whole[i] = reached[i]
      BY <1>7
    <3>2. Len(reached) \in 1..Len(reached)
      BY <1>7
    <3> HIDE DEF whole
    <3>3. TransitAlong(whole)
      BY <2>2 DEF Settle
    <3>4. PICK last \in 1..Len(whole) :
            stage' = whole[last] /\ (last = Len(whole) \/ ~Hop(whole, last))
      BY <3>3 DEF TransitAlong
    <3>5. ASSUME last < Len(reached)
          PROVE  FALSE
      <4>1. last \in 1..(Len(reached) - 1) /\ last + 1 \in 1..Len(reached) /\ last # Len(whole)
        BY <1>7, <3>1, <3>5
      <4>2. Hop(reached, last)
        BY <1>7, <4>1 DEF LegalPath
      <4>3. whole[last] = reached[last] /\ whole[last + 1] = reached[last + 1]
        BY <3>1, <4>1
      <4>4. Hop(whole, last)
        BY <4>2, <4>3 DEF Hop
      <4>5. QED
        BY <3>4, <4>1, <4>4
    <3>6. last \in {Len(reached), Len(whole)}
      BY <3>1, <3>2, <3>5
    <3>7. whole[last] \in {reached[Len(reached)], whole[Len(whole)]}
      <4>1. CASE last = Len(reached)
        BY <3>1, <3>2, <4>1
      <4>2. CASE last = Len(whole)
        BY <4>2
      <4>3. QED
        BY <3>6, <4>1, <4>2
    <3>8. stage' = whole[last]
      BY <3>4
    <3>9. QED
      BY <2>1, <3>7, <3>8
  <2> HIDE DEF whole
  <2>5. /\ LogsOK' /\ FinalOK' /\ raised' \in BOOLEAN
        /\ LegalPath(whole) => stage' = whole[Len(whole)] /\ raised' = FALSE
    BY <1>3, <2>1, <2>2, SettleType
  <2>6. QED
    BY <1>7, <1>11, <2>1, <2>3, <2>4, <2>5 DEF at
<1>12. QED
  BY <1>5, <1>10, <1>11

-----------------------------------------------------------------------------
(***************************************************************************)
(* The inductive invariant.  TurnBudget alone is not inductive: a fresh    *)
(* conversation has spent no turn, and a runtime that waits for tools has  *)
(* spent one it may give back.                                             *)
(***************************************************************************)
TurnInv ==
  /\ TurnBudget
  /\ stage = "not_initialized" => turnCount = 0
  /\ stage = "await_tools" => turnCount > 0

Inv == TypeOK /\ TurnInv

CountersOK == turnCount \in Nat /\ pendingCalls \in Nat /\ rollbackCount \in 0..MaxRollbacks

LEMMA TypeOKParts ==
  TypeOK <=> stage \in AllStages /\ CountersOK /\ FinalOK /\ LogsOK /\ raised \in BOOLEAN
BY DEF TypeOK, AllStages, CountersOK, FinalOK, LogsOK

AfterReceived == DoneStages \cup {"await_tools", "format_error", "final_prompt", "force_final", "assistant_rollback"}

LEMMA ReceivedPath ==
  ASSUME NEW s \in CallModelStages, NEW next \in AfterReceived
  PROVE  /\ <<s, "received">> \in Seq(AllStages) /\ LegalPath(<<s, "received">>)
         /\ <<s, "received", next>> \in Seq(AllStages) /\ LegalPath(<<s, "received", next>>)
         /\ <<"received", next>> \in ValidStageTransition
<1>1. s \in AllStages /\ next \in AllStages /\ "received" \in AllStages
  BY DEF AllStages, Stages, InternalStages, CallModelStages, ExecuteToolsStages, DoneStages, AfterReceived
<1>2. <<s, "received">> \in ValidStageTransition /\ <<"received", next>> \in ValidStageTransition
  BY LegalHops DEF AfterReceived
<1>3. <<s, "received">> \in Seq(AllStages) /\ <<s, "received", next>> \in Seq(AllStages)
  BY <1>1
<1>4. QED
  BY <1>2, <1>3 DEF LegalPath, Hop

LEMMA SettleAssistant ==
  ASSUME ConfigAssumption, TypeOK, stage \in CallModelStages, NEW r \in Response, NEW hidden \in Nat,
         NEW next \in AfterReceived, Settle(<<AssistantMessage(r)>>, hidden, <<stage, "received", next>>)
  PROVE  LogsOK' /\ FinalOK' /\ stage' = next /\ stage' \in AllStages /\ raised' = FALSE
<1>1. <<AssistantMessage(r)>> \in Seq(VisibleMessage)
  BY AssistantMessageType
<1> DEFINE path == <<stage, "received", next>>
<1>2. path \in Seq(AllStages) /\ LegalPath(path) /\ Len(path) = 3 /\ path[3] = next
  BY ReceivedPath
<1>3. LogsOK /\ FinalOK
  BY TypeOKParts
<1> HIDE DEF path
<1>4. Settle(<<AssistantMessage(r)>>, hidden, path)
  BY DEF path
<1>5. /\ LogsOK' /\ FinalOK' /\ stage' \in AllStages /\ raised' \in BOOLEAN
      /\ LegalPath(path) => stage' = path[Len(path)] /\ raised' = FALSE
  <2>1. Len(path) >= 1
    BY <1>2
  <2>2. QED
    BY <1>1, <1>2, <1>3, <1>4, <2>1, SettleType
<1>6. stage' = next /\ raised' = FALSE
  BY <1>2, <1>5
<1>7. QED
  BY <1>5, <1>6

\* A step that ends the conversation, or hands it over, within the turns it has.
LEMMA SettledInv ==
  ASSUME ConfigAssumption, CountersOK', FinalOK', LogsOK', stage' \in AllStages, raised' = FALSE,
         turnCount' <= MaxTurns,
         stage' # "not_initialized",
         stage' \in CallModelStages => turnCount' < MaxTurns,
         stage' \in CallModelStages \ {"force_final"} => turnCount' + 1 < MaxTurns,
         stage' = "await_tools" => turnCount' < MaxTurns /\ turnCount' > 0
  PROVE  Inv'
<1>1. TypeOK'
  BY DEF TypeOK, AllStages, CountersOK, FinalOK, LogsOK
<1>2. TurnInv'
  BY DEF TurnInv, TurnBudget
<1>3. QED
  BY <1>1, <1>2 DEF Inv

-----------------------------------------------------------------------------
(***************************************************************************)
(* Every action keeps the invariant.                                       *)
(***************************************************************************)

LEMMA InitInv == ASSUME ConfigAssumption, Init PROVE Inv /\ ~raised
<1>1. << >> \in Seq(Entry) /\ << >> \in Seq(VisibleMessage)
  OBVIOUS
<1>2. MaxTurns \in Nat /\ MaxTurns >= 1 /\ MaxRollbacks \in Nat
  BY DEF ConfigAssumption
<1>3. TypeOK
  <2>1. stage \in AllStages /\ CountersOK
    BY <1>2 DEF Init, AllStages, Stages, CountersOK
  <2>2. FinalOK /\ raised \in BOOLEAN
    BY DEF Init, FinalOK
  <2>3. LogsOK
    BY <1>1 DEF Init, LogsOK
  <2>4. QED
    BY <2>1, <2>2, <2>3, TypeOKParts
<1>4. TurnInv
  BY <1>2 DEF Init, TurnInv, TurnBudget, CallModelStages
<1>5. QED
  BY <1>3, <1>4 DEF Init, Inv

LEMMA InitializeInv ==
  ASSUME ConfigAssumption, Inv, InitializeConversation
  PROVE  Inv' /\ raised' = FALSE
<1>1. MaxTurns \in Nat /\ MaxTurns >= 1
  BY DEF ConfigAssumption
<1>2. stage = "not_initialized" /\ turnCount = 0 /\ CountersOK /\ LogsOK /\ FinalOK /\ CountersOK'
  BY TypeOKParts DEF Inv, TurnInv, InitializeConversation, CountersOK, counters
<1>3. {"not_initialized", "system_set", "initial_user"} \subseteq AllStages
  BY DEF AllStages, Stages, CallModelStages, InternalStages
<1>4. SystemMessage \in VisibleMessage /\ TaskMessage \in VisibleMessage
  BY DEF SystemMessage, TaskMessage, Message, VisibleMessage, UserPromptKinds
<1>5. <<"initial_user", "force_final">> \in ValidStageTransition
  BY LegalHops DEF CallModelStages
<1>6. /\ LogsOK' /\ FinalOK' /\ stage' \in AllStages /\ raised' = FALSE
      /\ \/ TurnLimitReached(turnCount) /\ stage' = "force_final"
         \/ ~TurnLimitReached(turnCount) /\ stage' = "initial_user"
  <2>1. CASE SystemPrompt
    <3> DEFINE path == <<"not_initialized", "system_set", "initial_user">>
    <3>1. path \in Seq(AllStages) /\ Len(path) = 3 /\ path[3] = "initial_user"
      BY <1>3
    <3>2. LegalPath(path)
      BY LegalHops DEF LegalPath, Hop
    <3>3. <<SystemMessage, TaskMessage>> \in Seq(VisibleMessage)
      BY <1>4
    <3>4. AwaitAssistant(<<SystemMessage, TaskMessage>>, path, turnCount)
      BY <2>1 DEF InitializeConversation
    <3> HIDE DEF path
    <3>5. Len(path) >= 1 /\ <<path[Len(path)], "force_final">> \in ValidStageTransition
      BY <1>5, <3>1
    <3>6. QED
      BY <1>2, <3>1, <3>2, <3>3, <3>4, <3>5, AwaitAssistantType
  <2>2. CASE ~SystemPrompt
    <3> DEFINE path == <<"not_initialized", "initial_user">>
    <3>1. path \in Seq(AllStages) /\ Len(path) = 2 /\ path[2] = "initial_user"
      BY <1>3
    <3>2. LegalPath(path)
      BY LegalHops DEF LegalPath, Hop
    <3>3. <<TaskMessage>> \in Seq(VisibleMessage)
      BY <1>4
    <3>4. AwaitAssistant(<<TaskMessage>>, path, turnCount)
      BY <2>2 DEF InitializeConversation
    <3> HIDE DEF path
    <3>5. Len(path) >= 1 /\ <<path[Len(path)], "force_final">> \in ValidStageTransition
      BY <1>5, <3>1
    <3>6. QED
      BY <1>2, <3>1, <3>2, <3>3, <3>4, <3>5, AwaitAssistantType
  <2>3. QED
    BY <2>1, <2>2
<1>7. turnCount' = turnCount
  BY DEF InitializeConversation, counters
<1>8. /\ stage' \in {"force_final", "initial_user"}
      /\ turnCount' <= MaxTurns /\ turnCount' < MaxTurns
      /\ stage' = "initial_user" => turnCount' + 1 < MaxTurns
  BY <1>1, <1>2, <1>6, <1>7 DEF TurnLimitReached
<1>9. Inv'
  BY <1>2, <1>6, <1>8, SettledInv DEF CallModelStages
<1>10. QED
  BY <1>6, <1>9

\* The turns a conversation that may still ask the model has left.
LEMMA TurnsLeft ==
  ASSUME ConfigAssumption, Inv, stage \in CallModelStages
  PROVE  /\ MaxTurns \in Nat /\ turnCount \in Nat /\ turnCount < MaxTurns
         /\ stage # "force_final" => turnCount + 1 < MaxTurns
         /\ CountersOK
         /\ TypeOK
BY TypeOKParts DEF Inv, TurnInv, TurnBudget, CountersOK, ConfigAssumption

\* A response that ends the conversation.
LEMMA TerminalResponseInv ==
  ASSUME ConfigAssumption, Inv, stage \in CallModelStages, NEW r \in Response,
         NEW next \in DoneStages, Settle(<<AssistantMessage(r)>>, 0, <<stage, "received", next>>),
         turnCount' = turnCount + 1, CountersOK'
  PROVE  Inv' /\ raised' = FALSE
<1>1. next \in AfterReceived /\ next \notin CallModelStages /\ next \notin {"await_tools", "not_initialized"}
  BY DEF AfterReceived, DoneStages, CallModelStages
<1>2. TypeOK /\ 0 \in Nat
  BY DEF Inv
<1>3. LogsOK' /\ FinalOK' /\ stage' = next /\ stage' \in AllStages /\ raised' = FALSE
  BY <1>1, <1>2, SettleAssistant
<1>4. turnCount' <= MaxTurns
  BY TurnsLeft
<1>5. /\ stage' \notin CallModelStages /\ stage' \notin CallModelStages \ {"force_final"}
      /\ stage' # "await_tools" /\ stage' # "not_initialized"
  BY <1>1, <1>3
<1>6. Inv'
  BY <1>3, <1>4, <1>5, SettledInv
<1>7. QED
  BY <1>3, <1>6

LEMMA TerminalResponses ==
  ASSUME ConfigAssumption, Inv, NEW r \in Response, NEW budget,
         TokenExhausted(r) \/ ForceFinalResponse(r) \/ TruncatedResponse(r) \/ CompleteNormally(r, budget)
  PROVE  Inv' /\ raised' = FALSE
<1>1. stage \in CallModelStages
  BY DEF TokenExhausted, ForceFinalResponse, TruncatedResponse, CompleteNormally, Accepted, Received
<1>2. turnCount' = turnCount + 1 /\ CountersOK'
  <2>1. turnCount' = turnCount + 1 /\ pendingCalls' = pendingCalls /\ rollbackCount' \in {0, rollbackCount}
    BY DEF TokenExhausted, ForceFinalResponse, TruncatedResponse, CompleteNormally
  <2>2. CountersOK /\ MaxRollbacks \in Nat
    BY <1>1, TurnsLeft DEF ConfigAssumption
  <2>3. QED
    BY <2>1, <2>2 DEF CountersOK
<1>3. \E next \in DoneStages : Settle(<<AssistantMessage(r)>>, 0, <<stage, "received", next>>)
  BY DEF TokenExhausted, ForceFinalResponse, TruncatedResponse, CompleteNormally, ForceCompletedStage, DoneStages
<1>4. PICK next \in DoneStages : Settle(<<AssistantMessage(r)>>, 0, <<stage, "received", next>>)
  BY <1>3
<1>5. QED
  BY <1>1, <1>2, <1>4, TerminalResponseInv

LEMMA BudgetAfterAssistantInv ==
  ASSUME ConfigAssumption, Inv, NEW r \in Response, NEW budget, NEW fits \in BOOLEAN,
         BudgetAfterAssistant(r, budget, fits)
  PROVE  Inv' /\ raised' = FALSE
<1>1. stage \in CallModelStages /\ stage # "force_final"
  BY DEF BudgetAfterAssistant, Received
<1>2. turnCount' = turnCount + 1 /\ CountersOK'
  BY <1>1, TurnsLeft DEF BudgetAfterAssistant, CountersOK
<1>3. CASE Settle(<<AssistantMessage(r)>>, 0, <<stage, "received", "token_exceed">>)
  BY <1>1, <1>2, <1>3, TerminalResponseInv DEF DoneStages
<1>4. CASE ForceFinalDueToContext(<<AssistantMessage(r)>>, <<stage, "received">>, FALSE, fits)
  <2> DEFINE path == <<stage, "received">>
  <2>1. path \in Seq(AllStages) /\ Len(path) = 2 /\ path[2] = "received" /\ LegalPath(path)
    BY <1>1, ReceivedPath DEF AfterReceived
  <2>2. <<AssistantMessage(r)>> \in Seq(VisibleMessage) /\ LogsOK /\ FinalOK
    BY AssistantMessageType, TypeOKParts DEF Inv
  <2>3. ForceFinalDueToContext(<<AssistantMessage(r)>>, path, FALSE, fits)
    BY <1>4
  <2> HIDE DEF path
  <2>4. /\ Len(path) >= 1 /\ <<path[Len(path)], "force_final">> \in ValidStageTransition
        /\ <<path[Len(path)], "token_exceed">> \in ValidStageTransition
    BY <2>1, LegalHops DEF DoneStages
  <2>5. LogsOK' /\ FinalOK' /\ raised' = FALSE /\ stage' \in {"force_final", "token_exceed"}
    BY <2>1, <2>2, <2>3, <2>4, ForceFinalDueToContextType
  <2>6. turnCount' <= MaxTurns /\ turnCount' < MaxTurns
    BY <1>1, <1>2, TurnsLeft
  <2>7. stage' \in AllStages
    BY <2>5 DEF AllStages, Stages, CallModelStages, DoneStages
  <2>8. Inv'
    BY <1>2, <2>5, <2>6, <2>7, SettledInv DEF CallModelStages
  <2>9. QED
    BY <2>5, <2>8
<1>5. QED
  BY <1>3, <1>4 DEF BudgetAfterAssistant

LEMMA RequestToolsInv ==
  ASSUME ConfigAssumption, Inv, NEW r \in Response, NEW budget, RequestTools(r, budget)
  PROVE  Inv' /\ raised' = FALSE
<1>1. stage \in CallModelStages /\ stage # "force_final"
  BY DEF RequestTools, Accepted, Received
<1>2. r.calls \in Nat
  BY ResponseCalls
<1>3. turnCount' = turnCount + 1 /\ CountersOK'
  BY <1>1, <1>2, TurnsLeft DEF RequestTools, CountersOK
<1>4. LogsOK' /\ FinalOK' /\ stage' = "await_tools" /\ stage' \in AllStages /\ raised' = FALSE
  <2>1. Settle(<<AssistantMessage(r)>>, 0, <<stage, "received", "await_tools">>) /\ 0 \in Nat
    BY DEF RequestTools
  <2>2. "await_tools" \in AfterReceived /\ TypeOK
    BY DEF AfterReceived, Inv
  <2>3. QED
    BY <1>1, <2>1, <2>2, SettleAssistant
<1>5. turnCount' <= MaxTurns /\ turnCount' < MaxTurns /\ turnCount' > 0
  BY <1>1, <1>3, TurnsLeft
<1>6. Inv'
  BY <1>3, <1>4, <1>5, SettledInv DEF CallModelStages
<1>7. QED
  BY <1>4, <1>6

LEMMA WithdrawInv ==
  ASSUME ConfigAssumption, Inv, NEW r \in Response, NEW budget, WithdrawAssistantMessage(r, budget)
  PROVE  Inv' /\ raised' = FALSE
<1> DEFINE next == IF stage = "initial_user" THEN "initial_user" ELSE "tool_messages"
           path == <<stage, "received", "assistant_rollback", next>>
<1>1. stage \in CallModelStages /\ stage # "force_final"
  BY DEF WithdrawAssistantMessage, Judged, Accepted, Received
<1>2. /\ turnCount' = turnCount /\ pendingCalls' = pendingCalls /\ rollbackCount' = rollbackCount + 1
      /\ rollbackCount < MaxRollbacks
  BY DEF WithdrawAssistantMessage, Withdrawn, CanRollBack
<1>3. CountersOK'
  BY <1>1, <1>2, TurnsLeft DEF CountersOK, ConfigAssumption
<1>4. path \in Seq(AllStages) /\ Len(path) = 4 /\ path[4] = next
  BY <1>1 DEF AllStages, Stages, InternalStages, CallModelStages
<1>5. LegalPath(path)
  BY <1>1, LegalHops DEF LegalPath, Hop
<1>6. Settle(<<AssistantMessage(r)>>, 1, path)
  BY DEF WithdrawAssistantMessage
<1>7. <<AssistantMessage(r)>> \in Seq(VisibleMessage) /\ LogsOK /\ FinalOK /\ 1 \in Nat
  BY AssistantMessageType, TypeOKParts DEF Inv
<1>8. next \in {"initial_user", "tool_messages"}
  OBVIOUS
<1> HIDE DEF path, next
<1>9. /\ LogsOK' /\ FinalOK' /\ stage' \in AllStages /\ raised' = FALSE
      /\ stage' = path[Len(path)]
  <2>1. Len(path) >= 1
    BY <1>4
  <2>2. QED
    BY <1>4, <1>5, <1>6, <1>7, <2>1, SettleType
<1>10. stage' \in {"initial_user", "tool_messages"}
  BY <1>4, <1>8, <1>9
<1>11. turnCount' <= MaxTurns /\ turnCount' < MaxTurns /\ turnCount' + 1 < MaxTurns
  BY <1>1, <1>2, TurnsLeft
<1>12. Inv'
  BY <1>3, <1>9, <1>10, <1>11, SettledInv DEF CallModelStages
<1>13. QED
  BY <1>9, <1>12

\* Recovery prompts and the final-response prompt, which may hit the turn limit.
LEMMA PromptAgainInv ==
  ASSUME ConfigAssumption, Inv, NEW r \in Response, NEW next \in {"format_error", "final_prompt"},
         NEW kind \in UserPromptKinds, stage \in CallModelStages, stage # "force_final",
         AwaitAssistant(<<AssistantMessage(r), Message(kind, 0)>>, <<stage, "received", next>>, turnCount + 1),
         turnCount' = turnCount + 1, CountersOK'
  PROVE  Inv' /\ raised' = FALSE
<1> DEFINE path == <<stage, "received", next>>
           entries == <<AssistantMessage(r), Message(kind, 0)>>
<1>1. next \in AfterReceived /\ next \in CallModelStages \ {"force_final"}
  BY DEF AfterReceived, CallModelStages
<1>2. path \in Seq(AllStages) /\ LegalPath(path) /\ Len(path) = 3 /\ path[3] = next
  BY <1>1, ReceivedPath
<1>3. entries \in Seq(VisibleMessage)
  <2>1. AssistantMessage(r) \in VisibleMessage
    <3>1. r.calls \in Nat
      BY ResponseCalls
    <3>2. QED
      BY <3>1 DEF AssistantMessage, Message, VisibleMessage, AssistantKinds
  <2>2. Message(kind, 0) \in VisibleMessage
    BY DEF Message, VisibleMessage
  <2>3. QED
    BY <2>1, <2>2
<1>4. <<next, "force_final">> \in ValidStageTransition
  BY <1>1, LegalHops
<1>5. LogsOK /\ FinalOK
  BY TypeOKParts DEF Inv
<1>6. AwaitAssistant(entries, path, turnCount + 1)
  OBVIOUS
<1> HIDE DEF path, entries
<1>7. /\ LogsOK' /\ FinalOK' /\ stage' \in AllStages /\ raised' = FALSE
      /\ \/ TurnLimitReached(turnCount + 1) /\ stage' = "force_final"
         \/ ~TurnLimitReached(turnCount + 1) /\ stage' = path[Len(path)]
  <2>1. Len(path) >= 1 /\ <<path[Len(path)], "force_final">> \in ValidStageTransition
    BY <1>2, <1>4
  <2>2. QED
    BY <1>2, <1>3, <1>5, <1>6, <2>1, AwaitAssistantType
<1>8. turnCount' <= MaxTurns /\ turnCount' < MaxTurns
  BY TurnsLeft
<1>9. stage' = "force_final" \/ (stage' = next /\ turnCount' + 1 < MaxTurns)
  BY <1>2, <1>7, <1>8, TurnsLeft DEF TurnLimitReached
<1>10. Inv'
  BY <1>1, <1>7, <1>8, <1>9, SettledInv DEF CallModelStages
<1>11. QED
  BY <1>7, <1>10

LEMMA PromptingResponses ==
  ASSUME ConfigAssumption, Inv, NEW r \in Response, NEW budget,
         RepromptFormatError(r, budget) \/ AskFinalResponse(r, budget)
  PROVE  Inv' /\ raised' = FALSE
<1>1. stage \in CallModelStages /\ stage # "force_final"
  BY DEF RepromptFormatError, AskFinalResponse, Judged, Accepted, Received
<1>2. turnCount' = turnCount + 1 /\ CountersOK'
  <2>1. turnCount' = turnCount + 1 /\ pendingCalls' = pendingCalls /\ rollbackCount' \in {0, rollbackCount}
    BY DEF RepromptFormatError, AskFinalResponse
  <2>2. CountersOK /\ MaxRollbacks \in Nat
    BY <1>1, TurnsLeft DEF ConfigAssumption
  <2>3. QED
    BY <2>1, <2>2 DEF CountersOK
<1>3. {"reprompt", "final_prompt"} \subseteq UserPromptKinds
  BY DEF UserPromptKinds
<1>4. CASE RepromptFormatError(r, budget)
  BY <1>1, <1>2, <1>3, <1>4, PromptAgainInv DEF RepromptFormatError
<1>5. CASE AskFinalResponse(r, budget)
  BY <1>1, <1>2, <1>3, <1>5, PromptAgainInv DEF AskFinalResponse
<1>6. QED
  BY <1>4, <1>5

LEMMA AssistantStepInv ==
  ASSUME ConfigAssumption, Inv, AssistantStep
  PROVE  Inv' /\ raised' = FALSE
<1>1. PICK r \in Response, budget \in AfterAssistantBudgets, fits \in WarningFits :
        ApplyAssistantMessage(r, budget, fits)
  BY DEF AssistantStep
<1>2. fits \in BOOLEAN
  BY DEF WarningFits
<1>3. CASE TokenExhausted(r) \/ ForceFinalResponse(r) \/ TruncatedResponse(r) \/ CompleteNormally(r, budget)
  BY <1>3, TerminalResponses
<1>4. CASE BudgetAfterAssistant(r, budget, fits)
  BY <1>2, <1>4, BudgetAfterAssistantInv
<1>5. CASE RequestTools(r, budget)
  BY <1>5, RequestToolsInv
<1>6. CASE WithdrawAssistantMessage(r, budget)
  BY <1>6, WithdrawInv
<1>7. CASE RepromptFormatError(r, budget) \/ AskFinalResponse(r, budget)
  BY <1>7, PromptingResponses
<1>8. QED
  BY <1>1, <1>3, <1>4, <1>5, <1>6, <1>7 DEF ApplyAssistantMessage

LEMMA ToolStepInv ==
  ASSUME ConfigAssumption, Inv, ToolStep
  PROVE  Inv' /\ raised' = FALSE
<1>1. PICK results \in ToolResultBatches(pendingCalls), exhausted \in BOOLEAN,
           budget \in BeforeGenerationBudgets, fits \in WarningFits :
        ApplyBatchToolMessages(results, exhausted, budget, fits)
  BY DEF ToolStep
<1> DEFINE path == <<stage, "tool_messages">>
<1>2. stage = "await_tools" /\ turnCount' = turnCount /\ pendingCalls' = 0 /\ rollbackCount' = rollbackCount
  BY <1>1 DEF ApplyBatchToolMessages
<1>3. /\ CountersOK /\ LogsOK /\ FinalOK /\ turnCount \in Nat /\ pendingCalls \in Nat
      /\ turnCount < MaxTurns /\ MaxTurns \in Nat
  BY <1>2, TypeOKParts DEF Inv, TurnInv, TurnBudget, CountersOK, ConfigAssumption
<1>4. CountersOK' /\ turnCount' < MaxTurns /\ turnCount' <= MaxTurns
  BY <1>2, <1>3 DEF CountersOK
<1>5. path \in Seq(AllStages) /\ Len(path) = 2 /\ path[2] = "tool_messages"
  BY <1>2 DEF AllStages, Stages, ExecuteToolsStages, CallModelStages
<1>6. LegalPath(path)
  BY <1>2, LegalHops DEF LegalPath, Hop
<1>7. results \in Seq(VisibleMessage) /\ 0 \in Nat
  BY <1>3, ToolResultBatchesType
<1>8. <<"tool_messages", "force_final">> \in ValidStageTransition /\ <<"tool_messages", "token_exceed">> \in ValidStageTransition
  BY LegalHops
<1>9. {"force_final", "token_exceed"} \subseteq AllStages
  BY DEF AllStages, Stages, DoneStages, CallModelStages
<1>10. /\ {"tools_exhausted"} \subseteq Triggers /\ fits \in BOOLEAN
  BY DEF Triggers, WarningFits
<1>11. \/ ForceFinal(results, 0, path, "tools_exhausted")
       \/ Settle(results, 0, Append(path, "token_exceed"))
       \/ ForceFinalDueToContext(results, path, TRUE, fits)
       \/ AwaitAssistant(results, path, turnCount)
  BY <1>1 DEF ApplyBatchToolMessages
<1> HIDE DEF path
<1>12. Len(path) >= 1 /\ path[Len(path)] = "tool_messages"
  BY <1>5
<1>13. ASSUME LogsOK' /\ FinalOK' /\ raised' = FALSE,
              \/ stage' \in {"force_final", "token_exceed"}
              \/ stage' = "tool_messages" /\ turnCount' + 1 < MaxTurns
       PROVE  Inv' /\ raised' = FALSE
  <2>1. stage' \in AllStages
    BY <1>13 DEF AllStages, Stages, DoneStages, CallModelStages
  <2>2. QED
    BY <1>4, <1>13, <2>1, SettledInv DEF CallModelStages
<1>14. CASE ForceFinal(results, 0, path, "tools_exhausted")
  <2>1. LegalPath(Append(path, "force_final"))
    BY <1>5, <1>6, <1>8, <1>9, <1>12, LegalPathExtended
  <2>2. QED
    BY <1>3, <1>5, <1>7, <1>10, <1>13, <1>14, <2>1, ForceFinalType
<1>15. CASE Settle(results, 0, Append(path, "token_exceed"))
  <2> DEFINE whole == Append(path, "token_exceed")
  <2>1. LegalPath(whole)
    BY <1>5, <1>6, <1>8, <1>9, <1>12, LegalPathExtended
  <2>2. whole \in Seq(AllStages) /\ Len(whole) >= 1 /\ whole[Len(whole)] = "token_exceed"
    BY <1>5, <1>9
  <2>3. Settle(results, 0, whole)
    BY <1>15
  <2> HIDE DEF whole
  <2>4. LogsOK' /\ FinalOK' /\ raised' = FALSE /\ stage' = whole[Len(whole)]
    BY <1>3, <1>7, <2>1, <2>2, <2>3, SettleType
  <2>5. QED
    BY <1>13, <2>2, <2>4
<1>16. CASE ForceFinalDueToContext(results, path, TRUE, fits)
  <2>1. LogsOK' /\ FinalOK' /\ raised' = FALSE /\ stage' \in {"force_final", "token_exceed"}
    BY <1>3, <1>5, <1>6, <1>7, <1>8, <1>10, <1>12, <1>16, ForceFinalDueToContextType
  <2>2. QED
    BY <1>13, <2>1
<1>17. CASE AwaitAssistant(results, path, turnCount)
  <2>1. /\ LogsOK' /\ FinalOK' /\ raised' = FALSE
        /\ \/ TurnLimitReached(turnCount) /\ stage' = "force_final"
           \/ ~TurnLimitReached(turnCount) /\ stage' = "tool_messages"
    BY <1>3, <1>5, <1>6, <1>7, <1>8, <1>12, <1>17, AwaitAssistantType
  <2>2. ~TurnLimitReached(turnCount) => turnCount' + 1 < MaxTurns
    BY <1>2, <1>3 DEF TurnLimitReached
  <2>3. QED
    BY <1>13, <2>1, <2>2
<1>18. QED
  BY <1>11, <1>14, <1>15, <1>16, <1>17

\* The provider rejects a prompt: the answer is forced, and only a warning that does
\* not fit can raise.
LEMMA ContextErrorInv ==
  ASSUME ConfigAssumption, Inv, NEW fits \in BOOLEAN, ForceFinalAfterContextError(fits)
  PROVE  Inv' /\ (fits => raised' = FALSE)
<1> DEFINE path == <<stage>>
<1>1. stage \in CallModelStages \ {"force_final"} /\ counters' = counters
  BY DEF ForceFinalAfterContextError
<1>2. stage \in AllStages /\ CountersOK /\ FinalOK /\ LogsOK
  BY TypeOKParts DEF Inv
<1>3. CountersOK' /\ turnCount' = turnCount
  BY <1>1, <1>2 DEF CountersOK, counters
<1>4. turnCount <= MaxTurns /\ turnCount < MaxTurns /\ turnCount + 1 < MaxTurns
  BY <1>1 DEF Inv, TurnInv, TurnBudget
<1>5. path \in Seq(AllStages) /\ Len(path) = 1 /\ path[1] = stage /\ LegalPath(path)
  BY <1>2 DEF LegalPath
<1>6. <<stage, "force_final">> \in ValidStageTransition
  BY <1>1, LegalHops
<1>7. << >> \in Seq(VisibleMessage)
  OBVIOUS
<1>8. ForceFinalDueToContext(<< >>, path, TRUE, fits)
  BY DEF ForceFinalAfterContextError
<1> HIDE DEF path
<1>9. /\ LogsOK' /\ FinalOK' /\ raised' \in BOOLEAN
      /\ stage' \in {stage, "context_rollback", "force_final", "token_exceed"}
      /\ fits => raised' = FALSE
  <2>1. Len(path) >= 1 /\ path[Len(path)] = stage
    BY <1>5
  <2>2. QED
    BY <1>2, <1>5, <1>6, <1>7, <1>8, <2>1, ForceFinalDueToContextType
<1>10. stage' \in AllStages
  BY <1>2, <1>9 DEF AllStages, Stages, CallModelStages, DoneStages, InternalStages
<1>11. TypeOK'
  BY <1>3, <1>9, <1>10 DEF TypeOK, AllStages, CountersOK, FinalOK, LogsOK
<1>12. stage' # "not_initialized" /\ stage' # "await_tools"
  BY <1>1, <1>9 DEF CallModelStages
<1>13. TurnBudget'
  BY <1>3, <1>4, <1>12 DEF TurnBudget
<1>14. QED
  BY <1>9, <1>11, <1>12, <1>13 DEF Inv, TurnInv

LEMMA DropExchangeInv ==
  ASSUME ConfigAssumption, Inv, DropExchangeStep
  PROVE  Inv' /\ raised' = FALSE
<1> DEFINE hidden == LatestToolExchange(visibleConversation)
           path == <<stage, "context_rollback">>
           whole == Append(path, "force_final")
<1>1. PICK trigger \in Triggers : DropLatestExchange(trigger)
  BY DEF DropExchangeStep, Triggers
<1>2. /\ stage \in CallModelStages /\ counters' = counters
      /\ <<stage, "context_rollback">> \in ValidStageTransition
  BY <1>1 DEF DropLatestExchange, CanDropLatestExchange, MayRollBackFrom
<1>3. stage \in AllStages /\ CountersOK /\ FinalOK /\ LogsOK
  BY TypeOKParts DEF Inv
<1>4. CountersOK' /\ turnCount' = turnCount
  BY <1>2, <1>3 DEF CountersOK, counters
<1>5. turnCount <= MaxTurns /\ turnCount < MaxTurns
  BY <1>2 DEF Inv, TurnInv, TurnBudget
<1>6. hidden \in Nat
  BY <1>3, LatestToolExchangeType DEF LogsOK
<1>7. {"context_rollback", "force_final"} \subseteq AllStages
  BY DEF AllStages, Stages, CallModelStages, InternalStages
<1>8. /\ path \in Seq(AllStages)
      /\ Len(whole) = 3 /\ whole[1] = stage /\ whole[2] = "context_rollback" /\ whole[3] = "force_final"
  BY <1>3, <1>7
<1>9. LegalPath(whole)
  BY <1>2, <1>8, LegalHops DEF LegalPath, Hop
<1>10. ForceFinal(<< >>, hidden, path, trigger) /\ << >> \in Seq(VisibleMessage)
  BY <1>1 DEF DropLatestExchange
<1> HIDE DEF path, hidden
<1>11. LogsOK' /\ FinalOK' /\ stage' \in AllStages /\ stage' = "force_final" /\ raised' = FALSE
  BY <1>3, <1>6, <1>8, <1>9, <1>10, ForceFinalType
<1>12. Inv'
  BY <1>4, <1>5, <1>11, SettledInv
<1>13. QED
  BY <1>11, <1>12

\* Withdrawn calls hand their turn back: there is one, since they were requested.
LEMMA RollbackToolCallsInv ==
  ASSUME ConfigAssumption, Inv, RollbackAssistantToolCalls
  PROVE  Inv' /\ raised' = FALSE
<1> DEFINE path == <<stage, "assistant_rollback", "tool_messages">>
<1>1. stage = "await_tools" /\ rollbackCount < MaxRollbacks
  BY DEF RollbackAssistantToolCalls, CanRollBack
<1>2. turnCount \in Nat /\ turnCount > 0 /\ turnCount < MaxTurns /\ MaxTurns \in Nat /\ MaxRollbacks \in Nat
  BY <1>1, TypeOKParts DEF Inv, TurnInv, TurnBudget, CountersOK, ConfigAssumption
<1>3. CountersOK /\ FinalOK /\ LogsOK /\ stage \in AllStages
  BY TypeOKParts DEF Inv
<1>4. turnCount' = turnCount - 1 /\ pendingCalls' = 0 /\ rollbackCount' = rollbackCount + 1
  BY <1>2 DEF RollbackAssistantToolCalls
<1>5. CountersOK'
  BY <1>1, <1>2, <1>3, <1>4 DEF CountersOK
<1>6. turnCount' <= MaxTurns /\ turnCount' < MaxTurns /\ turnCount' + 1 < MaxTurns
  BY <1>2, <1>4
<1>7. path \in Seq(AllStages) /\ Len(path) = 3 /\ path[3] = "tool_messages"
  BY <1>3 DEF AllStages, Stages, CallModelStages, InternalStages
<1>8. LegalPath(path)
  BY <1>1, LegalHops DEF LegalPath, Hop
<1>9. Settle(<< >>, 1, path) /\ << >> \in Seq(VisibleMessage) /\ 1 \in Nat
  BY DEF RollbackAssistantToolCalls
<1> HIDE DEF path
<1>10. /\ LogsOK' /\ FinalOK' /\ stage' \in AllStages /\ raised' = FALSE
       /\ stage' = path[Len(path)]
  <2>1. Len(path) >= 1
    BY <1>7
  <2>2. QED
    BY <1>3, <1>7, <1>8, <1>9, <2>1, SettleType
<1>11. Inv'
  BY <1>5, <1>6, <1>7, <1>10, SettledInv
<1>12. QED
  BY <1>10, <1>11

LEMMA ResetCounterInv ==
  ASSUME ConfigAssumption, Inv, ResetRollbackCounter
  PROVE  Inv' /\ raised' = raised
<1>1. /\ stage' = stage /\ turnCount' = turnCount /\ pendingCalls' = pendingCalls /\ rollbackCount' = 0
      /\ finalTrigger' = finalTrigger /\ finalHasPrompt' = finalHasPrompt
      /\ fullConversation' = fullConversation /\ visibleConversation' = visibleConversation
      /\ raised' = raised
  BY DEF ResetRollbackCounter, finalVars
<1>2. 0 \in 0..MaxRollbacks
  BY DEF ConfigAssumption
<1>3. TypeOK'
  BY <1>1, <1>2 DEF Inv, TypeOK
<1>4. TurnInv'
  BY <1>1 DEF Inv, TurnInv, TurnBudget
<1>5. QED
  BY <1>1, <1>3, <1>4 DEF Inv

LEMMA StutterInv ==
  ASSUME Inv, UNCHANGED runtimeVars
  PROVE  Inv' /\ raised' = raised
BY DEF Inv, TypeOK, TurnInv, TurnBudget, runtimeVars, counters, finalVars

LEMMA StepInv ==
  ASSUME ConfigAssumption, Inv, [Next]_runtimeVars
  PROVE  Inv'
<1>1. CASE InitializeConversation
  BY <1>1, InitializeInv
<1>2. CASE AssistantStep
  BY <1>2, AssistantStepInv
<1>3. CASE ToolStep
  BY <1>3, ToolStepInv
<1>4. CASE ContextErrorStep
  <2>1. PICK fits \in WarningFits : ForceFinalAfterContextError(fits)
    BY <1>4 DEF ContextErrorStep
  <2>2. fits \in BOOLEAN
    BY DEF WarningFits
  <2>3. QED
    BY <2>1, <2>2, ContextErrorInv
<1>5. CASE DropExchangeStep
  BY <1>5, DropExchangeInv
<1>6. CASE RollbackAssistantToolCalls
  BY <1>6, RollbackToolCallsInv
<1>7. CASE ResetRollbackCounter
  BY <1>7, ResetCounterInv
<1>8. CASE UNCHANGED runtimeVars
  BY <1>8, StutterInv
<1>9. QED
  BY <1>1, <1>2, <1>3, <1>4, <1>5, <1>6, <1>7, <1>8 DEF Next

-----------------------------------------------------------------------------
(***************************************************************************)
(* The theorems.                                                           *)
(***************************************************************************)

\* The types and the turn invariant hold in every reachable state.
THEOREM Invariance == Spec => []Inv
<1>1. Init => Inv
  BY ConfigAssumption, InitInv
<1>2. Inv /\ [Next]_runtimeVars => Inv'
  BY ConfigAssumption, StepInv
<1>3. QED
  BY <1>1, <1>2, PTL DEF Spec

\* Every variable keeps its type, whatever the configuration: in particular the
\* rollback counter never passes max_rollbacks and no marker becomes visible.
THEOREM TypeCorrect == Spec => []TypeOK
<1>1. Inv => TypeOK
  BY DEF Inv
<1>2. QED
  BY <1>1, Invariance, PTL

\* No sequence of responses, limits, provider errors, rollbacks and resets makes a
\* runtime ask the model for more than max_turns counted answers, or run tools
\* without a turn left to answer in, although the code tests an equality.
THEOREM TurnBudgetHolds == Spec => []TurnBudget
<1>1. Inv => TurnBudget
  BY DEF Inv, TurnInv
<1>2. QED
  BY <1>1, Invariance, PTL

\* Unless a minimum generation budget is enforced together with a force-final
\* prompt, every stage change the runtime makes is in VALID_STAGE_TRANSITION.
THEOREM NoStepRaises ==
  ASSUME ~(Preflight /\ MinTokens /\ HasForcePrompt)
  PROVE  Spec => []NoInvalidTransition
<1> USE ConfigAssumption
<1>1. Init => Inv /\ NoInvalidTransition
  BY InitInv DEF NoInvalidTransition
<1>2. Inv /\ NoInvalidTransition /\ [Next]_runtimeVars => (Inv /\ NoInvalidTransition)'
  <2>1. SUFFICES ASSUME Inv, NoInvalidTransition, [Next]_runtimeVars
                 PROVE  ~raised'
    BY StepInv DEF NoInvalidTransition
  <2>2. CASE InitializeConversation \/ AssistantStep \/ ToolStep
    BY <2>1, <2>2, InitializeInv, AssistantStepInv, ToolStepInv
  <2>3. CASE ContextErrorStep
    <3>1. WarningFits = {TRUE}
      BY DEF WarningFits
    <3>2. ForceFinalAfterContextError(TRUE)
      BY <2>3, <3>1 DEF ContextErrorStep
    <3>3. QED
      BY <2>1, <3>2, ContextErrorInv
  <2>4. CASE DropExchangeStep \/ RollbackAssistantToolCalls
    BY <2>1, <2>4, DropExchangeInv, RollbackToolCallsInv
  <2>5. CASE ResetRollbackCounter \/ UNCHANGED runtimeVars
    <3>1. raised' = raised
      BY <2>1, <2>5, ResetCounterInv, StutterInv
    <3>2. QED
      BY <2>1, <3>1 DEF NoInvalidTransition
  <2>6. QED
    BY <2>1, <2>2, <2>3, <2>4, <2>5 DEF Next
<1>3. QED
  BY <1>1, <1>2, PTL DEF Spec

-----------------------------------------------------------------------------
(***************************************************************************)
(* What the model may be shown, as facts about one conversation.           *)
(***************************************************************************)
NoTwoAnswers(v) == \A i \in 2..Len(v) : IsAssistant(v[i]) => ~IsAssistant(v[i - 1])

EndsOpen(v) == Len(v) > 0 => ~IsAssistant(v[Len(v)])

\* Every call answered, no two assistant messages in a row, the floor with the model.
SettledPrompt(v) == ToolExchangesComplete(v) /\ NoTwoAnswers(v) /\ EndsOpen(v)

\* The system prompt, if any, is the first message.
SystemLeads(v) == \A i \in 2..Len(v) : v[i].kind # "system"

Opening == IF SystemPrompt THEN 2 ELSE 1

TaskInSight(v) ==
  Opening <= Len(v) /\ v[Opening] = TaskMessage /\ (SystemPrompt => v[1] = SystemMessage)

HasAssistant(v) == \E i \in 1..Len(v) : IsAssistant(v[i])

\* Answered, message by message.
AnsweredBy(v, i, results) ==
  /\ i + Len(results) <= Len(v)
  /\ \A j \in 1..Len(results) : v[i + j] = results[j]
  /\ i + Len(results) < Len(v) => v[i + Len(results) + 1].kind # "tool"

LEMMA VisibleFields ==
  ASSUME NEW m \in VisibleMessage
  PROVE  m.n \in Nat /\ m.kind \in AssistantKinds \cup UserPromptKinds \cup {"system", "tool"}
BY DEF VisibleMessage

\* The results of n calls: at least one message if there is a call, tool messages all.
LEMMA ResultsOfCalls ==
  ASSUME NEW n \in Nat, NEW results \in ToolResultBatches(n)
  PROVE  /\ results \in Seq(VisibleMessage)
         /\ \A j \in 1..Len(results) : results[j].kind = "tool"
         /\ n > 0 => Len(results) > 0
<1> DEFINE single(k) == [i \in 1..k |-> Message("tool", 1)]
<1>1. results \in Seq(VisibleMessage)
  BY ToolResultBatchesType
<1>2. \/ results = single(n)
      \/ \E k \in 2..n : results = Append(single(n - k), Message("tool", k))
  BY DEF ToolResultBatches
<1> DEFINE Results == {Message("tool", j) : j \in Nat}
<1>3. \A k \in Nat : single(k) \in Seq(Results) /\ Len(single(k)) = k /\ Message("tool", k) \in Results
  OBVIOUS
<1>4. \A m \in Results : m.kind = "tool"
  BY DEF Message
<1> HIDE DEF single, Results
<1>5. results \in Seq(Results) /\ (n > 0 => Len(results) > 0)
  <2>1. CASE results = single(n)
    BY <1>3, <2>1
  <2>2. CASE \E k \in 2..n : results = Append(single(n - k), Message("tool", k))
    <3>1. PICK k \in 2..n : results = Append(single(n - k), Message("tool", k))
      BY <2>2
    <3>2. n - k \in Nat /\ k \in Nat
      OBVIOUS
    <3>3. QED
      BY <1>3, <3>1, <3>2
  <2>3. QED
    BY <1>2, <2>1, <2>2
<1>6. \A j \in 1..Len(results) : results[j].kind = "tool"
  BY <1>4, <1>5
<1>7. QED
  BY <1>1, <1>5, <1>6

LEMMA AnsweredPointwise ==
  ASSUME NEW v \in Seq(VisibleMessage), NEW i \in 1..Len(v)
  PROVE  Answered(v, i) <=> \E results \in ToolResultBatches(v[i].n) : AnsweredBy(v, i, results)
<1>1. PICK n \in Nat : n = Len(v)
  OBVIOUS
<1>2. PICK calls \in Nat : calls = v[i].n
  BY VisibleFields
<1>3. ASSUME NEW results \in ToolResultBatches(calls)
      PROVE  LET last == i + Len(results)
             IN  last <= n =>
                   (SubSeq(v, i + 1, last) = results <=> \A j \in 1..Len(results) : v[i + j] = results[j])
  <2>1. PICK m \in Nat : m = Len(results)
    BY <1>3, ResultsOfCalls
  <2>2. results \in Seq(VisibleMessage)
    BY <1>3, ResultsOfCalls
  <2>3. ASSUME i + m <= n
        PROVE  SubSeq(v, i + 1, i + m) = results <=> \A j \in 1..m : v[i + j] = results[j]
    <3>1. PICK part : part = SubSeq(v, i + 1, i + m)
      OBVIOUS
    <3>2. part \in Seq(VisibleMessage) /\ Len(part) = m
      BY <1>1, <2>3, <3>1
    <3>3. \A j \in 1..m : part[j] = v[i + j]
      BY <1>1, <2>3, <3>1
    <3>4. part = results <=> \A j \in 1..m : part[j] = results[j]
      BY <2>1, <2>2, <3>2
    <3>5. QED
      BY <3>1, <3>3, <3>4
  <2>4. QED
    BY <2>1, <2>3
<1>4. \A results \in ToolResultBatches(calls) :
        LET last == i + Len(results)
        IN  /\ last <= n /\ SubSeq(v, i + 1, last) = results
               /\ (last < n => v[last + 1].kind # "tool")
            <=> AnsweredBy(v, i, results)
  BY <1>1, <1>3 DEF AnsweredBy
<1>5. QED
  BY <1>1, <1>2, <1>4 DEF Answered

\* A message that is neither a call nor a result leaves every exchange complete.
LEMMA ExchangesAppend ==
  ASSUME NEW v \in Seq(VisibleMessage), NEW m \in VisibleMessage, m.kind \notin {"calls", "tool"},
         ToolExchangesComplete(v)
  PROVE  ToolExchangesComplete(Append(v, m))
<1> DEFINE w == Append(v, m)
<1>1. PICK n \in Nat : n = Len(v)
  OBVIOUS
<1>2. w \in Seq(VisibleMessage) /\ Len(w) = n + 1 /\ w[n + 1] = m /\ \A i \in 1..n : w[i] = v[i]
  BY <1>1
<1> HIDE DEF w
<1>3. SUFFICES ASSUME NEW i \in 1..(n + 1)
               PROVE  /\ w[i].kind = "calls" => Answered(w, i)
                      /\ w[i].kind = "tool" => i > 1 /\ w[i - 1].kind \in {"tool", "calls"}
  BY <1>2 DEF ToolExchangesComplete, w
<1>4. CASE i = n + 1
  BY <1>2, <1>4
<1>5. CASE i # n + 1
  <2>1. i \in 1..n /\ w[i] = v[i] /\ i \in 1..Len(w) /\ i \in 1..Len(v)
    BY <1>1, <1>2, <1>5
  <2>2. ASSUME w[i].kind = "calls"
        PROVE  Answered(w, i)
    <3>1. Answered(v, i)
      BY <2>1, <2>2, <1>1 DEF ToolExchangesComplete
    <3>2. PICK results \in ToolResultBatches(v[i].n) : AnsweredBy(v, i, results)
      BY <2>1, <3>1, AnsweredPointwise
    <3>3. PICK k \in Nat : k = Len(results)
      BY <2>1, VisibleFields, ResultsOfCalls
    <3>4. AnsweredBy(w, i, results)
      <4>1. i + k <= n /\ \A j \in 1..k : v[i + j] = results[j]
        BY <1>1, <3>2, <3>3 DEF AnsweredBy
      <4>2. \A j \in 1..k : w[i + j] = results[j]
        BY <1>2, <2>1, <4>1
      <4>3. i + k < n => v[i + k + 1].kind # "tool" /\ w[i + k + 1] = v[i + k + 1]
        BY <1>1, <1>2, <2>1, <3>2, <3>3 DEF AnsweredBy
      <4>4. i + k = n => w[i + k + 1].kind # "tool"
        BY <1>2
      <4>5. i + k <= n + 1 /\ (i + k < n + 1 => i + k < n \/ i + k = n)
        BY <2>1, <4>1
      <4>6. i + k < n + 1 => w[i + k + 1].kind # "tool"
        BY <4>3, <4>4, <4>5
      <4>7. QED
        BY <1>2, <3>3, <4>2, <4>5, <4>6 DEF AnsweredBy
    <3>5. QED
      BY <1>2, <2>1, <3>2, <3>4, AnsweredPointwise
  <2>3. ASSUME w[i].kind = "tool"
        PROVE  i > 1 /\ w[i - 1].kind \in {"tool", "calls"}
    <3>1. i > 1 /\ v[i - 1].kind \in {"tool", "calls"}
      BY <1>1, <2>1, <2>3 DEF ToolExchangesComplete
    <3>2. w[i - 1] = v[i - 1]
      BY <1>2, <2>1, <3>1
    <3>3. QED
      BY <3>1, <3>2
  <2>4. QED
    BY <2>2, <2>3
<1>6. QED
  BY <1>4, <1>5

LEMMA NoTwoAppend ==
  ASSUME NEW v \in Seq(VisibleMessage), NEW m \in VisibleMessage, NoTwoAnswers(v),
         ~IsAssistant(m) \/ EndsOpen(v)
  PROVE  NoTwoAnswers(Append(v, m))
<1> DEFINE w == Append(v, m)
<1>1. PICK n \in Nat : n = Len(v)
  OBVIOUS
<1>2. Len(w) = n + 1 /\ w[n + 1] = m /\ \A i \in 1..n : w[i] = v[i]
  BY <1>1
<1> HIDE DEF w
<1>3. SUFFICES ASSUME NEW i \in 2..(n + 1), IsAssistant(w[i])
               PROVE  ~IsAssistant(w[i - 1])
  BY <1>2 DEF NoTwoAnswers, w
<1>4. CASE i = n + 1
  <2>1. EndsOpen(v) /\ n > 0 /\ w[i - 1] = v[n]
    BY <1>2, <1>3, <1>4
  <2>2. QED
    BY <1>1, <2>1 DEF EndsOpen
<1>5. CASE i # n + 1
  <2>1. i \in 2..n /\ w[i] = v[i] /\ w[i - 1] = v[i - 1]
    BY <1>2, <1>5
  <2>2. QED
    BY <1>1, <1>3, <2>1 DEF NoTwoAnswers
<1>6. QED
  BY <1>4, <1>5

\* A user prompt after whatever is complete.
LEMMA SettledPrompted ==
  ASSUME NEW v \in Seq(VisibleMessage), NEW m \in VisibleMessage, m.kind \in UserPromptKinds \cup {"system"},
         ToolExchangesComplete(v), NoTwoAnswers(v)
  PROVE  SettledPrompt(Append(v, m))
<1>1. m.kind \notin {"calls", "tool"} /\ ~IsAssistant(m)
  BY DEF IsAssistant, AssistantKinds, UserPromptKinds
<1>2. ToolExchangesComplete(Append(v, m)) /\ NoTwoAnswers(Append(v, m))
  BY <1>1, ExchangesAppend, NoTwoAppend
<1>3. EndsOpen(Append(v, m))
  <2>1. Append(v, m)[Len(Append(v, m))] = m
    OBVIOUS
  <2>2. QED
    BY <1>1, <2>1 DEF EndsOpen
<1>4. QED
  BY <1>2, <1>3 DEF SettledPrompt

\* An answer without calls, and a user prompt.
LEMMA SettledAnswered ==
  ASSUME NEW v \in Seq(VisibleMessage), NEW a \in VisibleMessage, NEW m \in VisibleMessage,
         a.kind # "calls", a.kind # "tool", m.kind \in UserPromptKinds, SettledPrompt(v)
  PROVE  SettledPrompt(v \o <<a, m>>)
<1>1. ToolExchangesComplete(Append(v, a)) /\ NoTwoAnswers(Append(v, a))
  BY ExchangesAppend, NoTwoAppend DEF SettledPrompt
<1>2. PICK w \in Seq(VisibleMessage) : w = Append(v, a)
  <2>1. Append(v, a) \in Seq(VisibleMessage)
    BY ONLY v \in Seq(VisibleMessage), a \in VisibleMessage
  <2>2. QED
    BY <2>1
<1>3. SettledPrompt(Append(w, m))
  BY <1>1, <1>2, SettledPrompted
<1>4. Append(w, m) = v \o <<a, m>>
  BY <1>2
<1>5. QED
  BY <1>3, <1>4

\* Calls with all their results.
LEMMA SettledExchange ==
  ASSUME NEW v \in Seq(VisibleMessage), NEW calls \in Nat \ {0},
         NEW results \in ToolResultBatches(calls), SettledPrompt(v)
  PROVE  SettledPrompt(Append(v, Message("calls", calls)) \o results)
<1> DEFINE w == Append(v, Message("calls", calls)) \o results
<1>1. PICK n \in Nat : n = Len(v)
  OBVIOUS
<1>2. PICK k \in Nat \ {0} : k = Len(results)
  BY ResultsOfCalls
<1>3. results \in Seq(VisibleMessage) /\ \A j \in 1..k : results[j].kind = "tool"
  BY <1>2, ResultsOfCalls
<1>4. Message("calls", calls) \in VisibleMessage
  BY DEF Message, VisibleMessage, AssistantKinds
<1>5. /\ w \in Seq(VisibleMessage) /\ Len(w) = n + 1 + k
      /\ w[n + 1] = Message("calls", calls)
      /\ \A i \in 1..n : w[i] = v[i]
      /\ \A j \in 1..k : w[n + 1 + j] = results[j]
  BY <1>1, <1>2, <1>3, <1>4
<1> HIDE DEF w
<1>6. \A i \in (n + 2)..(n + 1 + k) : w[i].kind = "tool"
  <2>1. SUFFICES ASSUME NEW i \in (n + 2)..(n + 1 + k)
                 PROVE  w[i].kind = "tool"
    OBVIOUS
  <2>2. i - n - 1 \in 1..k /\ n + 1 + (i - n - 1) = i
    OBVIOUS
  <2>3. w[i] = results[i - n - 1]
    BY <1>5, <2>2
  <2>4. QED
    BY <1>3, <2>2, <2>3
<1>7. ToolExchangesComplete(w)
  <2>1. SUFFICES ASSUME NEW i \in 1..(n + 1 + k)
                 PROVE  /\ w[i].kind = "calls" => Answered(w, i)
                        /\ w[i].kind = "tool" => i > 1 /\ w[i - 1].kind \in {"tool", "calls"}
    BY <1>5 DEF ToolExchangesComplete
  <2>2. CASE i \in 1..n
    <3>1. w[i] = v[i] /\ i \in 1..Len(v) /\ i \in 1..Len(w)
      BY <1>1, <1>5, <2>2
    <3>2. ASSUME w[i].kind = "calls"
          PROVE  Answered(w, i)
      <4>1. PICK given \in ToolResultBatches(v[i].n) : AnsweredBy(v, i, given)
        BY <3>1, <3>2, AnsweredPointwise DEF SettledPrompt, ToolExchangesComplete
      <4>2. PICK g \in Nat : g = Len(given)
        BY <3>1, VisibleFields, ResultsOfCalls
      <4>3. /\ i + g <= n /\ \A j \in 1..g : v[i + j] = given[j]
            /\ i + g < n => v[i + g + 1].kind # "tool"
        BY <1>1, <4>1, <4>2 DEF AnsweredBy
      <4>4. \A j \in 1..g : w[i + j] = given[j]
        <5>1. \A j \in 1..g : i + j \in 1..n
          BY <2>2, <4>3
        <5>2. QED
          BY <1>5, <4>3, <5>1
      <4>5. w[i + g + 1].kind # "tool"
        <5>1. ASSUME i + g < n
              PROVE  w[i + g + 1].kind # "tool"
          <6>1. i + g + 1 \in 1..n
            BY <2>2, <5>1
          <6>2. w[i + g + 1] = v[i + g + 1]
            BY <1>5, <6>1
          <6>3. v[i + g + 1].kind # "tool"
            BY <4>3, <5>1
          <6>4. QED
            BY ONLY <6>2, <6>3
        <5>2. CASE i + g = n
          BY <1>5, <5>2 DEF Message
        <5>3. i + g < n \/ i + g = n
          <6>1. i + g <= n
            BY <4>3
          <6>2. QED
            BY ONLY <2>2, <6>1, n \in Nat, g \in Nat
        <5>4. QED
          BY <5>1, <5>2, <5>3
      <4>6. AnsweredBy(w, i, given)
        BY <1>5, <2>2, <4>2, <4>3, <4>4, <4>5 DEF AnsweredBy
      <4>7. QED
        BY <1>5, <3>1, <4>1, <4>6, AnsweredPointwise
    <3>3. ASSUME w[i].kind = "tool"
          PROVE  i > 1 /\ w[i - 1].kind \in {"tool", "calls"}
      <4>1. i > 1 /\ v[i - 1].kind \in {"tool", "calls"}
        BY <3>1, <3>3 DEF SettledPrompt, ToolExchangesComplete
      <4>2. w[i - 1] = v[i - 1]
        BY <1>5, <2>2, <4>1
      <4>3. QED
        BY <4>1, <4>2
    <3>4. QED
      BY <3>2, <3>3
  <2>3. CASE i = n + 1
    <3>1. w[i].n = calls /\ w[i].kind = "calls" /\ i \in 1..Len(w)
      BY <1>5, <2>3 DEF Message
    <3>2. AnsweredBy(w, i, results)
      BY <1>2, <1>5, <2>3 DEF AnsweredBy
    <3>3. Answered(w, i)
      BY <1>5, <3>1, <3>2, AnsweredPointwise
    <3>4. QED
      BY <3>1, <3>3
  <2>4. CASE i \in (n + 2)..(n + 1 + k)
    <3>1. w[i].kind = "tool" /\ i > 1
      BY <1>6, <2>4
    <3>2. w[i - 1].kind \in {"tool", "calls"}
      <4>1. CASE i = n + 2
        BY <1>5, <4>1 DEF Message
      <4>2. CASE i # n + 2
        BY <1>6, <2>4, <4>2
      <4>3. QED
        BY <4>1, <4>2
    <3>3. QED
      BY <3>1, <3>2
  <2>5. QED
    BY <2>1, <2>2, <2>3, <2>4
<1>8. \A i \in (n + 2)..(n + 1 + k) : ~IsAssistant(w[i])
  BY <1>6 DEF IsAssistant, AssistantKinds
<1>9. NoTwoAnswers(w)
  <2>1. SUFFICES ASSUME NEW i \in 2..(n + 1 + k), IsAssistant(w[i])
                 PROVE  ~IsAssistant(w[i - 1])
    BY <1>5 DEF NoTwoAnswers
  <2>2. i <= n + 1
    BY <1>8, <2>1
  <2>3. CASE i = n + 1
    <3>1. w[i - 1] = v[n] /\ n > 0
      BY <1>5, <2>1, <2>3
    <3>2. QED
      BY <1>1, <3>1 DEF SettledPrompt, EndsOpen
  <2>4. CASE i # n + 1
    <3>1. i \in 2..n /\ w[i] = v[i] /\ w[i - 1] = v[i - 1]
      BY <1>5, <2>2, <2>4
    <3>2. QED
      BY <1>1, <2>1, <3>1 DEF SettledPrompt, NoTwoAnswers
  <2>5. QED
    BY <2>3, <2>4
<1>10. EndsOpen(w)
  BY <1>2, <1>5, <1>8 DEF EndsOpen
<1>11. QED
  BY <1>7, <1>9, <1>10 DEF SettledPrompt, w

\* Cutting a settled conversation between two exchanges.
LEMMA SettledCut ==
  ASSUME NEW v \in Seq(VisibleMessage), NEW k \in 0..Len(v), SettledPrompt(v),
         k < Len(v) => v[k + 1].kind # "tool", k > 0 => ~IsAssistant(v[k])
  PROVE  SettledPrompt(SubSeq(v, 1, k))
<1> DEFINE w == SubSeq(v, 1, k)
<1>1. PICK n \in Nat : n = Len(v)
  OBVIOUS
<1>2. w \in Seq(VisibleMessage) /\ Len(w) = k /\ \A i \in 1..k : w[i] = v[i]
  BY <1>1
<1>3. k \in Nat /\ k <= n
  BY <1>1
<1> HIDE DEF w
<1>4. ToolExchangesComplete(w)
  <2>1. SUFFICES ASSUME NEW i \in 1..k
                 PROVE  /\ w[i].kind = "calls" => Answered(w, i)
                        /\ w[i].kind = "tool" => i > 1 /\ w[i - 1].kind \in {"tool", "calls"}
    BY <1>2 DEF ToolExchangesComplete
  <2>2. w[i] = v[i] /\ i \in 1..Len(v) /\ i \in 1..Len(w) /\ i <= k
    BY <1>1, <1>2, <1>3
  <2>3. ASSUME w[i].kind = "calls"
        PROVE  Answered(w, i)
    <3>1. i # k
      BY <1>3, <2>2, <2>3 DEF IsAssistant, AssistantKinds
    <3>2. PICK given \in ToolResultBatches(v[i].n) : AnsweredBy(v, i, given)
      BY <2>2, <2>3, AnsweredPointwise DEF SettledPrompt, ToolExchangesComplete
    <3>3. PICK g \in Nat : g = Len(given) /\ \A j \in 1..g : given[j].kind = "tool"
      <4>1. PICK calls \in Nat : calls = v[i].n
        BY <2>2, VisibleFields
      <4>2. given \in Seq(VisibleMessage) /\ \A j \in 1..Len(given) : given[j].kind = "tool"
        BY <3>2, <4>1, ResultsOfCalls
      <4>3. QED
        BY <4>2
    <3>4. \A j \in 1..g : given[j].kind = "tool"
      BY <3>3
    <3>5. /\ i + g <= n /\ \A j \in 1..g : v[i + j] = given[j]
          /\ i + g < n => v[i + g + 1].kind # "tool"
      BY <1>1, <3>2, <3>3 DEF AnsweredBy
    <3>6. i + g <= k
      <4>1. SUFFICES ASSUME i + g > k
                     PROVE  FALSE
        BY <1>3
      <4>2. k + 1 - i \in 1..g /\ i + (k + 1 - i) = k + 1 /\ k < n
        BY <1>3, <2>2, <3>1, <3>5, <4>1
      <4>3. v[k + 1] = given[k + 1 - i]
        BY <3>5, <4>2
      <4>4. v[k + 1].kind = "tool"
        BY <3>4, <4>2, <4>3
      <4>5. QED
        BY <1>1, <4>2, <4>4
    <3>7. AnsweredBy(w, i, given)
      <4>1. \A j \in 1..g : w[i + j] = given[j]
        BY <1>2, <1>3, <2>2, <3>5, <3>6
      <4>2. i + g < k => w[i + g + 1].kind # "tool"
        BY <1>2, <1>3, <2>2, <3>5
      <4>3. QED
        BY <1>2, <3>3, <3>6, <4>1, <4>2 DEF AnsweredBy
    <3>8. QED
      BY <1>2, <2>2, <3>2, <3>7, AnsweredPointwise
  <2>4. ASSUME w[i].kind = "tool"
        PROVE  i > 1 /\ w[i - 1].kind \in {"tool", "calls"}
    <3>1. i > 1 /\ v[i - 1].kind \in {"tool", "calls"}
      BY <2>2, <2>4 DEF SettledPrompt, ToolExchangesComplete
    <3>2. w[i - 1] = v[i - 1]
      BY <1>2, <1>3, <2>2, <3>1
    <3>3. QED
      BY <3>1, <3>2
  <2>5. QED
    BY <2>3, <2>4
<1>5. NoTwoAnswers(w)
  <2>1. \A i \in 2..k : w[i] = v[i] /\ w[i - 1] = v[i - 1] /\ i \in 2..Len(v)
    BY <1>1, <1>2, <1>3
  <2>2. QED
    BY <1>2, <2>1 DEF SettledPrompt, NoTwoAnswers
<1>6. EndsOpen(w)
  BY <1>2, <1>3 DEF EndsOpen
<1>7. QED
  BY <1>4, <1>5, <1>6 DEF SettledPrompt, w

-----------------------------------------------------------------------------
(***************************************************************************)
(* What a rollback leaves in sight.                                        *)
(***************************************************************************)
LastSystem(v) == SelectLastInSeq(v, LAMBDA m : m.kind = "system")
LastAssistant(v) == SelectLastInSeq(v, IsAssistant)
LastOther(v) == SelectLastInSeq(v, LAMBDA m : m.kind # "tool")

LEMMA LastChosen ==
  ASSUME NEW n \in Nat, NEW I \in SUBSET (1..n)
  PROVE  LET last == IF I # {} THEN Max(I) ELSE 0
         IN  last \in 0..n /\ (last > 0 => last \in I) /\ \A i \in I : i <= last
<1>1. CASE I = {}
  BY <1>1
<1>2. CASE I # {}
  <2>1. Max(I) \in I /\ \A i \in I : i <= Max(I)
    BY <1>2, MaxOfPositions
  <2>2. Max(I) \in 1..n
    BY <2>1
  <2>3. QED
    BY <1>2, <2>1, <2>2
<1>3. QED
  BY <1>1, <1>2

LEMMA LastSystemIs ==
  ASSUME NEW v \in Seq(VisibleMessage), SystemLeads(v)
  PROVE  /\ LastSystem(v) \in 0..Len(v) /\ LastSystem(v) <= 1
         /\ LastSystem(v) = 1 <=> Len(v) > 0 /\ v[1].kind = "system"
<1> DEFINE I == {i \in 1..Len(v) : v[i].kind = "system"}
<1>1. PICK n \in Nat : n = Len(v)
  OBVIOUS
<1>2. PICK last : last = LastSystem(v)
  OBVIOUS
<1>3. last = IF I # {} THEN Max(I) ELSE 0
  BY <1>2 DEF LastSystem, SelectLastInSeq
<1>4. I \in SUBSET (1..n) /\ \A i \in I : i = 1
  BY <1>1 DEF SystemLeads
<1>5. n > 0 /\ v[1].kind = "system" <=> 1 \in I
  BY <1>1
<1> HIDE DEF I
<1>6. last \in 0..n /\ (last > 0 => last \in I) /\ \A i \in I : i <= last
  BY <1>3, <1>4, LastChosen
<1>7. QED
  BY <1>1, <1>2, <1>4, <1>5, <1>6

LEMMA LastAssistantIs ==
  ASSUME NEW v \in Seq(VisibleMessage)
  PROVE  /\ LastAssistant(v) \in 0..Len(v)
         /\ LastAssistant(v) > 0 => IsAssistant(v[LastAssistant(v)])
         /\ \A i \in 1..Len(v) : IsAssistant(v[i]) => i <= LastAssistant(v)
<1> DEFINE I == {i \in 1..Len(v) : IsAssistant(v[i])}
<1>1. PICK n \in Nat : n = Len(v)
  OBVIOUS
<1>2. PICK last : last = LastAssistant(v)
  OBVIOUS
<1>3. last = IF I # {} THEN Max(I) ELSE 0
  BY <1>2 DEF LastAssistant, SelectLastInSeq
<1>4. I \in SUBSET (1..n) /\ \A i \in 1..n : IsAssistant(v[i]) <=> i \in I
  BY <1>1
<1> HIDE DEF I
<1>5. last \in 0..n /\ (last > 0 => last \in I) /\ \A i \in I : i <= last
  BY <1>3, <1>4, LastChosen
<1>6. QED
  BY <1>1, <1>2, <1>4, <1>5

LEMMA LastOtherIs ==
  ASSUME NEW v \in Seq(VisibleMessage)
  PROVE  /\ LastOther(v) \in 0..Len(v)
         /\ \A i \in 1..Len(v) : v[i].kind # "tool" => i <= LastOther(v)
<1> DEFINE I == {i \in 1..Len(v) : v[i].kind # "tool"}
<1>1. PICK n \in Nat : n = Len(v)
  OBVIOUS
<1>2. PICK last : last = LastOther(v)
  OBVIOUS
<1>3. last = IF I # {} THEN Max(I) ELSE 0
  BY <1>2 DEF LastOther, SelectLastInSeq
<1>4. I \in SUBSET (1..n) /\ \A i \in 1..n : v[i].kind # "tool" <=> i \in I
  BY <1>1
<1> HIDE DEF I
<1>5. last \in 0..n /\ (last > 0 => last \in I) /\ \A i \in I : i <= last
  BY <1>3, <1>4, LastChosen
<1>6. QED
  BY <1>1, <1>2, <1>4, <1>5

\* A rollback is a cut, not before the system prompt.
LEMMA RollbackCuts ==
  ASSUME NEW v \in Seq(VisibleMessage), SystemLeads(v), NEW count \in Nat
  PROVE  \E k \in 0..Len(v) :
           /\ RollbackLast(v, count) = SubSeq(v, 1, k)
           /\ \/ k = Len(v) - count /\ k >= LastSystem(v)
              \/ k = LastSystem(v) /\ k >= Len(v) - count
<1>1. PICK n \in Nat : n = Len(v)
  OBVIOUS
<1>2. PICK last \in 0..n : last = LastSystem(v)
  BY <1>1, LastSystemIs
<1>3. RollbackLast(v, count) = SubSeq(v, 1, IF n - count > last THEN n - count ELSE last)
  BY <1>1, <1>2 DEF RollbackLast, LastSystem
<1>4. CASE n - count > last
  BY <1>1, <1>2, <1>3, <1>4
<1>5. CASE n - count <= last
  <2>1. ~(n - count > last)
    BY <1>5
  <2>2. QED
    BY <1>1, <1>2, <1>3, <1>5, <2>1
<1>6. QED
  BY <1>4, <1>5

LEMMA SystemLeadsCut ==
  ASSUME NEW v \in Seq(VisibleMessage), SystemLeads(v), NEW k \in 0..Len(v)
  PROVE  SystemLeads(SubSeq(v, 1, k))
<1>1. Len(SubSeq(v, 1, k)) = k /\ \A i \in 1..k : SubSeq(v, 1, k)[i] = v[i]
  OBVIOUS
<1>2. \A i \in 2..k : i \in 1..k /\ i \in 2..Len(v)
  OBVIOUS
<1>3. QED
  BY <1>1, <1>2 DEF SystemLeads

LEMMA SystemLeadsJoined ==
  ASSUME NEW v \in Seq(VisibleMessage), SystemLeads(v), NEW u \in Seq(VisibleMessage),
         \A i \in 1..Len(u) : u[i].kind # "system"
  PROVE  SystemLeads(v \o u)
<1> DEFINE w == v \o u
<1>1. PICK n \in Nat : n = Len(v)
  OBVIOUS
<1>2. PICK k \in Nat : k = Len(u)
  OBVIOUS
<1>3. Len(w) = n + k /\ (\A i \in 1..n : w[i] = v[i]) /\ \A i \in (n + 1)..(n + k) : w[i] = u[i - n]
  BY <1>1, <1>2
<1> HIDE DEF w
<1>4. SUFFICES ASSUME NEW i \in 2..(n + k)
               PROVE  w[i].kind # "system"
  BY <1>3 DEF SystemLeads, w
<1>5. CASE i <= n
  BY <1>1, <1>3, <1>5 DEF SystemLeads
<1>6. CASE i > n
  <2>1. i - n \in 1..k /\ i \in (n + 1)..(n + k)
    BY <1>6
  <2>2. QED
    BY <1>2, <1>3, <2>1
<1>7. QED
  BY <1>5, <1>6

LEMMA TaskCut ==
  ASSUME NEW v \in Seq(VisibleMessage), TaskInSight(v), NEW k \in 0..Len(v), k >= Opening
  PROVE  TaskInSight(SubSeq(v, 1, k))
<1>1. Len(SubSeq(v, 1, k)) = k /\ \A i \in 1..k : SubSeq(v, 1, k)[i] = v[i]
  OBVIOUS
<1>2. Opening \in 1..k /\ 1 \in 1..k
  BY DEF Opening
<1>3. QED
  BY <1>1, <1>2 DEF TaskInSight

LEMMA TaskJoined ==
  ASSUME NEW v \in Seq(VisibleMessage), TaskInSight(v), NEW u \in Seq(VisibleMessage)
  PROVE  TaskInSight(v \o u)
<1>1. Len(v \o u) >= Len(v) /\ \A i \in 1..Len(v) : (v \o u)[i] = v[i]
  OBVIOUS
<1>2. Opening \in 1..Len(v) /\ 1 \in 1..Len(v)
  BY DEF Opening, TaskInSight
<1>3. QED
  BY <1>1, <1>2 DEF TaskInSight

\* The messages of the opening are neither answers nor results.
LEMMA OpeningKinds ==
  ASSUME NEW v \in Seq(VisibleMessage), TaskInSight(v), NEW i \in 1..Len(v), i <= Opening
  PROVE  v[i].kind \in {"system", "task"}
<1>1. i = Opening \/ (SystemPrompt /\ i = 1)
  BY DEF Opening
<1>2. QED
  BY <1>1 DEF TaskInSight, TaskMessage, SystemMessage, Message

\* The cut right after the system prompt, or of everything.
LEMMA SettledToSystem ==
  ASSUME NEW v \in Seq(VisibleMessage), SettledPrompt(v), SystemLeads(v)
  PROVE  SettledPrompt(SubSeq(v, 1, LastSystem(v)))
<1>1. PICK last \in 0..Len(v) : last = LastSystem(v) /\ last <= 1 /\ (last = 1 => v[1].kind = "system")
  BY LastSystemIs
<1>2. last < Len(v) => v[last + 1].kind # "tool"
  <2>1. SUFFICES ASSUME last < Len(v), v[last + 1].kind = "tool"
                 PROVE  FALSE
    OBVIOUS
  <2>2. last + 1 \in 1..Len(v)
    BY <1>1, <2>1
  <2>3. last + 1 > 1 /\ v[last].kind \in {"tool", "calls"}
    BY <2>1, <2>2 DEF SettledPrompt, ToolExchangesComplete
  <2>4. QED
    BY <1>1, <2>3
<1>3. last > 0 => ~IsAssistant(v[last])
  BY <1>1 DEF IsAssistant, AssistantKinds
<1>4. QED
  BY <1>1, <1>2, <1>3, SettledCut

LEMMA SettledRollback ==
  ASSUME NEW v \in Seq(VisibleMessage), SettledPrompt(v), SystemLeads(v), NEW count \in Nat,
         NEW kept \in Int, kept = Len(v) - count,
         kept >= 0 /\ kept < Len(v) => v[kept + 1].kind # "tool",
         kept > 0 => ~IsAssistant(v[kept])
  PROVE  SettledPrompt(RollbackLast(v, count))
<1>1. PICK k \in 0..Len(v) :
           /\ RollbackLast(v, count) = SubSeq(v, 1, k)
           /\ \/ k = Len(v) - count /\ k >= LastSystem(v)
              \/ k = LastSystem(v) /\ k >= Len(v) - count
  BY RollbackCuts
<1>2. CASE k = LastSystem(v)
  BY <1>1, <1>2, SettledToSystem
<1>3. CASE k = Len(v) - count
  BY <1>1, <1>3, SettledCut
<1>4. QED
  BY <1>1, <1>2, <1>3

\* A context rollback that goes back through the latest answer leaves a settled prompt.
LEMMA ContextRollbackSettles ==
  ASSUME ConfigAssumption, NEW v \in Seq(VisibleMessage), SettledPrompt(v), SystemLeads(v),
         ~HidesResultsOnly, NEW at
  PROVE  SettledPrompt(RollbackLast(v, ContextRollbackCount(v, at)))
<1>1. PICK n \in Nat : n = Len(v)
  OBVIOUS
<1>2. PICK system \in 0..n : system = LastSystem(v) /\ system <= 1
  BY <1>1, LastSystemIs
<1>3. PICK answer \in 0..n : answer = LastAssistant(v) /\ (answer > 0 => IsAssistant(v[answer]))
  BY <1>1, LastAssistantIs
<1>4. ContextRollbackCount(v, at) = IF answer > system THEN n - answer + 1 ELSE n - system
  BY <1>1, <1>2, <1>3 DEF ContextRollbackCount, LastSystem, LastAssistant
<1>5. CASE answer > system
  <2> DEFINE count == n - answer + 1
             kept == answer - 1
  <2>1. count \in Nat /\ kept \in Int /\ kept = n - count /\ answer > 0 /\ answer \in 1..n
    BY <1>5
  <2>2. v[kept + 1].kind # "tool"
    <3>1. kept + 1 = answer /\ IsAssistant(v[answer])
      BY <1>3, <2>1
    <3>2. v[answer].kind \in AssistantKinds
      BY <3>1 DEF IsAssistant
    <3>3. QED
      BY <3>1, <3>2 DEF AssistantKinds
  <2>3. kept > 0 => ~IsAssistant(v[kept])
    <3>1. kept > 0 => answer \in 2..n /\ kept = answer - 1
      BY <2>1
    <3>2. QED
      BY <1>1, <1>3, <2>1, <3>1 DEF SettledPrompt, NoTwoAnswers
  <2>4. ContextRollbackCount(v, at) = count
    BY <1>4, <1>5
  <2> HIDE DEF count, kept
  <2>5. SettledPrompt(RollbackLast(v, count))
    BY <1>1, <2>1, <2>2, <2>3, SettledRollback
  <2>6. QED
    BY <2>4, <2>5
<1>6. CASE answer <= system
  <2> DEFINE count == n - system
  <2>1. count \in Nat /\ ContextRollbackCount(v, at) = count /\ n - count = system
    BY <1>4, <1>6
  <2> HIDE DEF count
  <2>2. PICK k \in 0..n :
           /\ RollbackLast(v, count) = SubSeq(v, 1, k)
           /\ \/ k = n - count /\ k >= LastSystem(v)
              \/ k = LastSystem(v) /\ k >= n - count
    BY <1>1, <2>1, RollbackCuts
  <2>3. k = LastSystem(v)
    BY <1>2, <2>1, <2>2
  <2>4. QED
    BY <2>1, <2>2, <2>3, SettledToSystem
<1>7. QED
  BY <1>5, <1>6

\* A context rollback never reaches the task: some answer, or some result, stands after it.
LEMMA ContextRollbackSparesTask ==
  ASSUME ConfigAssumption, NEW v \in Seq(VisibleMessage), TaskInSight(v), SystemLeads(v),
         HasAssistant(v), NEW at
  PROVE  TaskInSight(RollbackLast(v, ContextRollbackCount(v, at)))
<1>1. PICK n \in Nat : n = Len(v)
  OBVIOUS
<1>2. PICK system \in 0..n : system = LastSystem(v) /\ system <= 1
  BY <1>1, LastSystemIs
<1>3. PICK answer \in 0..n : answer = LastAssistant(v) /\ \A i \in 1..n : IsAssistant(v[i]) => i <= answer
  BY <1>1, LastAssistantIs
<1>4. PICK other \in 0..n : other = LastOther(v) /\ \A i \in 1..n : v[i].kind # "tool" => i <= other
  BY <1>1, LastOtherIs
<1>5. Opening \in 1..n /\ Opening \in Nat
  BY <1>1 DEF TaskInSight, Opening
<1>6. answer > Opening
  <2>1. PICK i \in 1..n : IsAssistant(v[i])
    BY <1>1 DEF HasAssistant
  <2>2. i > Opening
    <3>1. SUFFICES ASSUME i <= Opening
                   PROVE  FALSE
      BY <1>5
    <3>2. v[i].kind \in {"system", "task"}
      BY <1>1, <3>1, OpeningKinds
    <3>3. QED
      BY <2>1, <3>2 DEF IsAssistant, AssistantKinds
  <2>3. QED
    BY <1>3, <1>5, <2>1, <2>2
<1>7. other >= Opening
  <2>1. v[Opening].kind # "tool"
    BY DEF TaskInSight, TaskMessage, Message
  <2>2. QED
    BY <1>4, <1>5, <2>1
<1>8. system < answer
  BY <1>2, <1>5, <1>6
<1>9. ContextRollbackCount(v, at) \in {n - other, n - answer + 1}
  BY <1>1, <1>2, <1>3, <1>4, <1>8 DEF ContextRollbackCount, LastSystem, LastAssistant, LastOther
<1>10. PICK count \in Nat : count = ContextRollbackCount(v, at) /\ n - count >= Opening
  <2>1. n - other \in Nat /\ n - answer + 1 \in Nat /\ n - (n - other) >= Opening
          /\ n - (n - answer + 1) >= Opening
    BY <1>5, <1>6, <1>7
  <2>2. QED
    BY <1>9, <2>1
<1>11. PICK k \in 0..n :
           /\ RollbackLast(v, count) = SubSeq(v, 1, k)
           /\ \/ k = n - count /\ k >= LastSystem(v)
              \/ k = LastSystem(v) /\ k >= n - count
  BY <1>1, RollbackCuts
<1>12. k >= Opening
  BY <1>2, <1>5, <1>10, <1>11
<1>13. QED
  BY <1>1, <1>10, <1>11, <1>12, TaskCut

\* Where the latest exchange that can be hidden begins: at a call after the task.
LEMMA LatestExchangeBegins ==
  ASSUME NEW v \in Seq(VisibleMessage), LatestToolExchange(v) > 0
  PROVE  \E i \in 1..Len(v) : v[i].kind = "calls" /\ LatestToolExchange(v) = Len(v) - i + 1
<1> DEFINE prompted == HasForcePrompt /\ Len(v) > 0
                         /\ \/ v[Len(v)].kind = "force_prompt"
                            \/ ~EarlyStopPrompt /\ v[Len(v)].kind = "final_prompt"
           lastResult == Len(v) - (IF prompted THEN 1 ELSE 0)
           caller == SelectLastInSubSeq(v, 1, lastResult, LAMBDA m : m.kind # "tool")
           I == {i \in 1..lastResult : v[i].kind # "tool"}
<1>1. lastResult \in 0..Len(v) /\ Len(v) \in Nat
  <2>1. prompted => Len(v) > 0
    OBVIOUS
  <2>2. Len(v) \in Nat
    OBVIOUS
  <2> HIDE DEF prompted
  <2>3. QED
    BY <2>1, <2>2
<1>2. caller = IF I # {} THEN Max(I) ELSE 0
  BY DEF SelectLastInSubSeq
<1>3. LatestToolExchange(v) = IF caller > 0 /\ caller < lastResult /\ v[caller].kind = "calls"
                                THEN Len(v) - caller + 1 ELSE 0
  BY DEF LatestToolExchange
<1> HIDE DEF prompted, lastResult, caller
<1>4. I \in SUBSET (1..lastResult)
  OBVIOUS
<1> HIDE DEF I
<1>5. caller \in 0..lastResult
  BY <1>1, <1>2, <1>4, LastPosition
<1>6. caller > 0 /\ v[caller].kind = "calls" /\ LatestToolExchange(v) = Len(v) - caller + 1
  BY <1>3
<1>7. caller \in 1..Len(v)
  BY <1>1, <1>5, <1>6
<1>8. QED
  BY <1>6, <1>7

LEMMA DropSettles ==
  ASSUME NEW v \in Seq(VisibleMessage), SettledPrompt(v), SystemLeads(v), LatestToolExchange(v) > 0
  PROVE  SettledPrompt(RollbackLast(v, LatestToolExchange(v)))
<1>1. PICK i \in 1..Len(v) : v[i].kind = "calls" /\ LatestToolExchange(v) = Len(v) - i + 1
  BY LatestExchangeBegins
<1>2. PICK count \in Nat : count = LatestToolExchange(v)
  BY <1>1
<1>3. PICK kept \in Int : kept = i - 1
  OBVIOUS
<1>4. kept = Len(v) - count /\ kept + 1 = i
  BY <1>1, <1>2, <1>3
<1>5. kept > 0 => ~IsAssistant(v[kept])
  <2>1. kept > 0 => i \in 2..Len(v) /\ kept = i - 1
    BY <1>3
  <2>2. IsAssistant(v[i])
    BY <1>1 DEF IsAssistant, AssistantKinds
  <2>3. QED
    BY <2>1, <2>2 DEF SettledPrompt, NoTwoAnswers
<1>6. QED
  BY <1>1, <1>2, <1>4, <1>5, SettledRollback

LEMMA DropSparesTask ==
  ASSUME NEW v \in Seq(VisibleMessage), TaskInSight(v), SystemLeads(v), LatestToolExchange(v) > 0
  PROVE  TaskInSight(RollbackLast(v, LatestToolExchange(v)))
<1>1. PICK i \in 1..Len(v) : v[i].kind = "calls" /\ LatestToolExchange(v) = Len(v) - i + 1
  BY LatestExchangeBegins
<1>2. PICK count \in Nat : count = LatestToolExchange(v)
  BY <1>1
<1>3. Opening \in {1, 2}
  BY DEF Opening
<1>4. i > Opening
  <2>1. i <= Opening => v[i].kind \in {"system", "task"}
    BY OpeningKinds
  <2>2. QED
    BY <1>1, <1>3, <2>1
<1>5. PICK k \in 0..Len(v) :
           /\ RollbackLast(v, count) = SubSeq(v, 1, k)
           /\ \/ k = Len(v) - count /\ k >= LastSystem(v)
              \/ k = LastSystem(v) /\ k >= Len(v) - count
  BY RollbackCuts
<1>6. k >= Opening
  <2>1. Len(v) - count >= Opening
    BY <1>1, <1>2, <1>3, <1>4
  <2>2. LastSystem(v) \in Int
    BY LastSystemIs
  <2>3. QED
    BY <1>3, <1>5, <2>1, <2>2
<1>7. QED
  BY <1>2, <1>5, <1>6, TaskCut

\* Hiding the last message, when it is not the system prompt.
LEMMA RollbackOfOne ==
  ASSUME NEW v \in Seq(VisibleMessage), NEW m \in VisibleMessage, m.kind # "system"
  PROVE  RollbackLast(Append(v, m), 1) = v
<1> DEFINE w == Append(v, m)
           I == {i \in 1..Len(w) : w[i].kind = "system"}
<1>1. PICK n \in Nat : n = Len(v)
  OBVIOUS
<1>2. Len(w) = n + 1 /\ w[n + 1] = m /\ SubSeq(w, 1, n) = v
  BY <1>1
<1>3. I \in SUBSET (1..n)
  BY <1>1, <1>2
<1>4. PICK last : last = LastSystem(w)
  OBVIOUS
<1>5. last = IF I # {} THEN Max(I) ELSE 0
  BY <1>4 DEF LastSystem, SelectLastInSeq
<1>6. RollbackLast(w, 1) = SubSeq(w, 1, IF Len(w) - 1 > last THEN Len(w) - 1 ELSE last)
  BY <1>4 DEF RollbackLast, LastSystem
<1> HIDE DEF w, I
<1>7. last \in 0..n
  BY <1>3, <1>5, LastChosen
<1>8. (IF Len(w) - 1 > last THEN Len(w) - 1 ELSE last) = n
  BY <1>2, <1>7
<1>9. QED
  BY <1>2, <1>6, <1>8 DEF w

-----------------------------------------------------------------------------
(***************************************************************************)
(* What a step logs, and the stage it reaches when it does not raise.      *)
(***************************************************************************)
LEMMA TransitEnds ==
  ASSUME NEW path, TransitAlong(path), raised' = FALSE
  PROVE  stage' = path[Len(path)]
BY DEF TransitAlong

LEMMA SettleEnds ==
  ASSUME NEW entries, NEW hidden, NEW path, Settle(entries, hidden, path), raised' = FALSE
  PROVE  Log(entries, hidden, << >>) /\ stage' = path[Len(path)]
BY TransitEnds DEF Settle

LEMMA SettleThree ==
  ASSUME NEW entries, NEW hidden, NEW a, NEW b, NEW c, Settle(entries, hidden, <<a, b, c>>), raised' = FALSE
  PROVE  Log(entries, hidden, << >>) /\ stage' = c
<1> DEFINE path == <<a, b, c>>
<1>1. path[Len(path)] = c /\ Settle(entries, hidden, path)
  OBVIOUS
<1> HIDE DEF path
<1>2. QED
  BY <1>1, SettleEnds

LEMMA SettleFour ==
  ASSUME NEW entries, NEW hidden, NEW a, NEW b, NEW c, NEW d, Settle(entries, hidden, <<a, b, c, d>>),
         raised' = FALSE
  PROVE  Log(entries, hidden, << >>) /\ stage' = d
<1> DEFINE path == <<a, b, c, d>>
<1>1. path[Len(path)] = d /\ Settle(entries, hidden, path)
  OBVIOUS
<1> HIDE DEF path
<1>2. QED
  BY <1>1, SettleEnds

LEMMA ForceFinalEnds ==
  ASSUME NEW entries, NEW hidden, NEW path \in Seq(AllStages), NEW trigger,
         ForceFinal(entries, hidden, path, trigger), raised' = FALSE
  PROVE  Log(entries, hidden, ForcePrompt) /\ stage' = "force_final"
<1> DEFINE whole == Append(path, "force_final")
<1>1. whole[Len(whole)] = "force_final"
  OBVIOUS
<1>2. Log(entries, hidden, ForcePrompt) /\ TransitAlong(whole)
  BY DEF ForceFinal
<1> HIDE DEF whole
<1>3. QED
  BY <1>1, <1>2, TransitEnds

LEMMA AwaitAssistantEnds ==
  ASSUME NEW entries, NEW path \in Seq(AllStages), NEW turns, AwaitAssistant(entries, path, turns),
         raised' = FALSE
  PROVE  \/ Log(entries, 0, ForcePrompt) /\ stage' = "force_final"
         \/ Log(entries, 0, << >>) /\ stage' = path[Len(path)]
<1>1. CASE ForceFinal(entries, 0, path, "turn_limit")
  BY <1>1, ForceFinalEnds
<1>2. CASE Settle(entries, 0, path)
  BY <1>2, SettleEnds
<1>3. QED
  BY <1>1, <1>2 DEF AwaitAssistant

LEMMA ForceFinalDueToContextEnds ==
  ASSUME NEW entries, NEW path \in Seq(AllStages), NEW mayRollBack, NEW fits,
         ForceFinalDueToContext(entries, path, mayRollBack, fits), raised' = FALSE
  PROVE  \E hidden \in {0, ContextRollbackCount(visibleConversation \o entries, path[Len(path)])} :
           /\ hidden # 0 => MayRollBackFrom(path[Len(path)])
           /\ \/ Log(entries, hidden, ForcePrompt) /\ stage' = "force_final"
              \/ Log(entries, hidden, << >>) /\ stage' = "token_exceed"
<1> DEFINE at == path[Len(path)]
           hidden == IF mayRollBack /\ MayRollBackFrom(at)
                       THEN ContextRollbackCount(visibleConversation \o entries, at) ELSE 0
           reached == IF hidden > 0 THEN Append(path, "context_rollback") ELSE path
           whole == Append(reached, "token_exceed")
<1>1. \/ ForceFinal(entries, hidden, reached, "context_limit")
      \/ Settle(entries, hidden, whole)
  BY DEF ForceFinalDueToContext
<1>2. hidden \in {0, ContextRollbackCount(visibleConversation \o entries, at)}
  OBVIOUS
<1>3. hidden # 0 => MayRollBackFrom(at)
  OBVIOUS
<1>4. {"context_rollback", "token_exceed"} \subseteq AllStages
  BY DEF AllStages, Stages, DoneStages, InternalStages
<1> HIDE DEF hidden
<1>5. reached \in Seq(AllStages)
  BY <1>4
<1> HIDE DEF reached
<1>6. whole[Len(whole)] = "token_exceed"
  BY <1>5
<1> HIDE DEF whole
<1>7. CASE ForceFinal(entries, hidden, reached, "context_limit")
  BY <1>2, <1>3, <1>5, <1>7, ForceFinalEnds
<1>8. CASE Settle(entries, hidden, whole)
  BY <1>2, <1>3, <1>6, <1>8, SettleEnds
<1>9. QED
  BY <1>1, <1>7, <1>8

LEMMA RollbackOfNone ==
  ASSUME NEW v \in Seq(VisibleMessage), SystemLeads(v)
  PROVE  RollbackLast(v, 0) = v
<1>1. PICK n \in Nat : n = Len(v)
  OBVIOUS
<1>2. PICK last \in 0..n : last = LastSystem(v)
  BY <1>1, LastSystemIs
<1>3. PICK k \in 0..n :
           /\ RollbackLast(v, 0) = SubSeq(v, 1, k)
           /\ \/ k = n - 0 /\ k >= LastSystem(v)
              \/ k = LastSystem(v) /\ k >= n - 0
  BY <1>1, RollbackCuts
<1>4. k = n
  BY <1>2, <1>3
<1>5. SubSeq(v, 1, n) = v
  BY <1>1
<1>6. QED
  BY <1>3, <1>4, <1>5

NoSystem(u) == \A i \in 1..Len(u) : u[i].kind # "system"

LEMMA JoinedType ==
  ASSUME NEW S, NEW a \in Seq(S), NEW b \in Seq(S)
  PROVE  a \o b \in Seq(S)
OBVIOUS

LEMMA VisibleEntries ==
  /\ VisibleMessage \subseteq Entry /\ Seq(VisibleMessage) \subseteq Seq(Entry)
  /\ \A m \in VisibleMessage : ~IsMarker(m)
<1>1. VisibleMessage \subseteq Entry
  BY DEF Entry
<1>2. \A m \in VisibleMessage : ~IsMarker(m)
  BY DEF VisibleMessage, IsMarker, MarkerKinds, AssistantKinds, UserPromptKinds
<1>3. QED
  BY <1>1, <1>2

\* Messages replayed after a log that shows "seen" join what is in sight.
LEMMA ReplayVisible ==
  ASSUME NEW s \in Seq(Entry), NEW seen \in Seq(VisibleMessage), NEW u \in Seq(VisibleMessage),
         Replay(<< >>, s) = seen
  PROVE  Replay(<< >>, s \o u) = seen \o u
<1>1. PICK n \in Nat : n = Len(u)
  OBVIOUS
<1> DEFINE bad == {k \in 0..n : Replay(<< >>, s \o SubSeq(u, 1, k)) # seen \o SubSeq(u, 1, k)}
<1>2. bad # {} => \E k \in bad : \A m \in bad : k <= m
  <2>1. bad \in SUBSET Nat
    OBVIOUS
  <2> HIDE DEF bad
  <2>2. QED
    BY <2>1, LeastOf
<1>3. 0 \notin bad
  <2>1. SubSeq(u, 1, 0) = << >> /\ s \o << >> = s /\ seen \o << >> = seen
    OBVIOUS
  <2>2. QED
    BY <2>1
<1>4. ASSUME NEW k \in bad, \A m \in bad : k <= m
      PROVE  FALSE
  <2>1. k \in 1..n /\ k - 1 \in 0..n /\ ~(k <= k - 1)
    BY <1>3
  <2>2. k - 1 \notin bad
    <3> HIDE DEF bad
    <3>1. QED
      BY <1>4, <2>1
  <2>3. PICK part : part = SubSeq(u, 1, k - 1)
    OBVIOUS
  <2>4. Replay(<< >>, s \o part) = seen \o part
    BY <2>1, <2>2, <2>3
  <2>5. part \in Seq(VisibleMessage) /\ u[k] \in VisibleMessage /\ SubSeq(u, 1, k) = Append(part, u[k])
    <3> HIDE DEF bad
    <3>1. QED
      BY <1>1, <2>1, <2>3, OneLonger
  <2>6. part \in Seq(Entry) /\ u[k] \in Entry /\ ~IsMarker(u[k])
    <3> HIDE DEF bad
    <3>1. QED
      BY <2>5, VisibleEntries
  <2>7. Replay(<< >>, s \o SubSeq(u, 1, k)) = seen \o SubSeq(u, 1, k)
    <3> HIDE DEF bad
    <3>1. PICK e \in Entry : e = u[k]
      BY <2>6
    <3>2. Replay(<< >>, s \o Append(part, e)) = seen \o Append(part, e)
      <4>1. ~IsMarker(e) /\ part \in Seq(Entry)
        BY <2>6, <3>1
      <4>2. s \o Append(part, e) = Append(s \o part, e) /\ seen \o Append(part, e) = Append(seen \o part, e)
              /\ s \o part \in Seq(Entry)
        BY <4>1
      <4>3. PICK both \in Seq(Entry) : both = s \o part
        BY <4>2
      <4>4. Replay(<< >>, Append(both, e)) = ReplayEntry(Replay(<< >>, both), e)
        BY ReplayOneMore
      <4>5. e.kind # "rollback" /\ e.kind # "compaction" /\ e.kind # "discard_all"
        BY <4>1 DEF IsMarker, MarkerKinds
      <4>6. ReplayEntry(seen \o part, e) = Append(seen \o part, e)
        BY <4>5 DEF ReplayEntry
      <4>7. QED
        BY <2>4, <4>2, <4>3, <4>4, <4>6
    <3>3. QED
      BY <2>5, <3>1, <3>2
  <2>8. QED
    BY <2>7
<1>5. n \notin bad
  <2> HIDE DEF bad
  <2>1. QED
    BY <1>2, <1>4
<1>6. SubSeq(u, 1, n) = u /\ n \in 0..n
  BY <1>1
<1>7. Replay(<< >>, s \o SubSeq(u, 1, n)) = seen \o SubSeq(u, 1, n)
  BY <1>5, <1>6
<1>8. QED
  BY <1>6, <1>7

\* Whatever a step logs, the log still replays to what is in sight.
LEMMA LogReplays ==
  ASSUME LogsOK, ReplayAgrees, NEW before \in Seq(VisibleMessage), NEW hidden \in Nat,
         NEW after \in Seq(VisibleMessage), SystemLeads(visibleConversation \o before),
         Log(before, hidden, after)
  PROVE  ReplayAgrees'
<1>1. PICK full \in Seq(Entry) : full = fullConversation
  BY DEF LogsOK
<1>2. PICK seen \in Seq(VisibleMessage) : seen = visibleConversation
  BY DEF LogsOK
<1>3. RollbackMarker(hidden) \in Entry
  BY DEF Entry, RollbackMarker, Message, MarkerKinds
<1>5. before \in Seq(Entry)
  BY VisibleEntries
<1>6. Replay(<< >>, full) = seen
  BY <1>1, <1>2 DEF ReplayAgrees
<1>7. PICK seen1 \in Seq(VisibleMessage) : seen1 = seen \o before
  BY JoinedType
<1>8. PICK full1 \in Seq(Entry) : full1 = full \o before
  BY <1>5, JoinedType
<1>9. Replay(<< >>, full1) = seen1
  <2>1. Replay(<< >>, full \o before) = seen \o before
    BY <1>6, ReplayVisible
  <2>2. QED
    BY <1>7, <1>8, <2>1
<1>10. PICK seen2 \in Seq(VisibleMessage) : seen2 = RollbackLast(seen1, hidden)
  BY RollbackLastType
<1>11. PICK marker \in Seq(Entry) : marker = IF hidden > 0 THEN <<RollbackMarker(hidden)>> ELSE << >>
  <2>1. <<RollbackMarker(hidden)>> \in Seq(Entry) /\ << >> \in Seq(Entry)
    BY ONLY <1>3
  <2>2. QED
    BY <2>1
<1>12. PICK full2 \in Seq(Entry) : full2 = full1 \o marker
  BY JoinedType
<1>13. Replay(<< >>, full2) = seen2
  <2>1. CASE hidden > 0
    <3>1. full2 = Append(full1, RollbackMarker(hidden))
      BY <1>3, <1>11, <1>12, <2>1
    <3>2. Replay(<< >>, full2) = ReplayEntry(seen1, RollbackMarker(hidden))
      BY <1>9, <3>1, ReplayOneMore
    <3>3. ReplayEntry(seen1, RollbackMarker(hidden)) = RollbackLast(seen1, hidden)
      BY DEF ReplayEntry, RollbackMarker, Message
    <3>4. QED
      BY <1>10, <3>2, <3>3
  <2>2. CASE hidden = 0
    <3>1. full2 = full1
      BY <1>11, <1>12, <2>2
    <3>2. seen2 = seen1
      BY <1>2, <1>7, <1>10, <2>2, RollbackOfNone
    <3>3. QED
      BY <1>9, <3>1, <3>2
  <2>3. QED
    BY <2>1, <2>2
<1>14. Replay(<< >>, full2 \o after) = seen2 \o after
  BY <1>13, ReplayVisible
<1>15. fullConversation' = full2 \o after
  BY <1>1, <1>8, <1>11, <1>12 DEF Log
<1>16. visibleConversation' = seen2 \o after
  BY <1>2, <1>7, <1>10 DEF Log
<1>17. QED
  BY <1>14, <1>15, <1>16 DEF ReplayAgrees

\* Nor does a second system message come into sight.
LEMMA LogKeeps ==
  ASSUME LogsOK, ReplayAgrees, SystemLeads(visibleConversation), NEW before \in Seq(VisibleMessage),
         NEW hidden \in Nat, NEW after \in Seq(VisibleMessage), NoSystem(before), NoSystem(after),
         Log(before, hidden, after)
  PROVE  /\ ReplayAgrees' /\ SystemLeads(visibleConversation')
         /\ SystemLeads(visibleConversation \o before)
         /\ visibleConversation' = RollbackLast(visibleConversation \o before, hidden) \o after
         /\ RollbackLast(visibleConversation \o before, hidden) \in Seq(VisibleMessage)
         /\ visibleConversation \o before \in Seq(VisibleMessage)
<1>1. PICK seen \in Seq(VisibleMessage) : seen = visibleConversation
  BY DEF LogsOK
<1>2. SystemLeads(seen \o before)
  BY <1>1, SystemLeadsJoined DEF NoSystem
<1>3. PICK seen1 \in Seq(VisibleMessage) : seen1 = seen \o before
  BY JoinedType
<1>4. PICK seen2 \in Seq(VisibleMessage) : seen2 = RollbackLast(seen1, hidden)
  BY RollbackLastType
<1>5. SystemLeads(seen2)
  <2>1. PICK k \in 0..Len(seen1) : RollbackLast(seen1, hidden) = SubSeq(seen1, 1, k)
    BY <1>2, <1>3, RollbackCuts
  <2>2. QED
    BY <1>2, <1>3, <1>4, <2>1, SystemLeadsCut
<1>6. SystemLeads(seen2 \o after)
  BY <1>5, SystemLeadsJoined DEF NoSystem
<1>7. visibleConversation' = seen2 \o after
  BY <1>1, <1>3, <1>4 DEF Log
<1>8. ReplayAgrees'
  BY <1>1, <1>2, LogReplays
<1>9. QED
  BY <1>1, <1>2, <1>3, <1>4, <1>6, <1>7, <1>8

-----------------------------------------------------------------------------
(***************************************************************************)
(* The inductive invariant of what is in sight.  A prompt is settled; the  *)
(* call that waits for its results stands alone at the end of one; where a *)
(* context rollback is legal some answer stands after the task.            *)
(***************************************************************************)
RaisedWhere == raised => stage \in {"initial_user", "format_error", "final_prompt"}

NothingYet ==
  /\ stage = "not_initialized" => fullConversation = << >> /\ visibleConversation = << >>
  /\ stage = "await_tools" => Len(visibleConversation) > 0

TaskKept ==
  ~OrchestratorRollbacks =>
    /\ stage # "not_initialized" => TaskInSight(visibleConversation)
    /\ stage \in {"tool_messages", "format_error"} => HasAssistant(visibleConversation)

PromptsSettled ==
  ~HidesResultsOnly /\ ~(Preflight /\ MinTokens) =>
    /\ stage \in CallModelStages => SettledPrompt(visibleConversation)
    /\ stage = "await_tools" =>
         SettledPrompt(SubSeq(visibleConversation, 1, Len(visibleConversation) - 1))

SightInv ==
  /\ NothingYet
  /\ PendingCallsMatch
  /\ RaisedWhere
  /\ ReplayAgrees
  /\ SystemLeads(visibleConversation)
  /\ TaskKept
  /\ PromptsSettled

\* The facts about the present that every step starts from.
LEMMA SightNow ==
  ASSUME Inv, SightInv
  PROVE  /\ LogsOK /\ visibleConversation \in Seq(VisibleMessage) /\ ReplayAgrees
         /\ SystemLeads(visibleConversation) /\ pendingCalls \in Nat
         /\ ~OrchestratorRollbacks /\ stage # "not_initialized" => TaskInSight(visibleConversation)
         /\ ~HidesResultsOnly /\ ~(Preflight /\ MinTokens) /\ stage \in CallModelStages
              => SettledPrompt(visibleConversation)
BY TypeOKParts DEF Inv, SightInv, LogsOK, CountersOK, TaskKept, PromptsSettled

LEMMA ForcePromptIs ==
  /\ ForcePrompt \in Seq(VisibleMessage) /\ NoSystem(ForcePrompt)
  /\ \A v \in Seq(VisibleMessage) : SettledPrompt(v) => SettledPrompt(v \o ForcePrompt)
<1> DEFINE m == Message("force_prompt", 0)
<1>1. m \in VisibleMessage /\ m.kind = "force_prompt" /\ m.kind \in UserPromptKinds \cup {"system"}
  BY DEF Message, VisibleMessage, UserPromptKinds
<1>2. ForcePrompt = <<m>> \/ ForcePrompt = << >>
  BY DEF ForcePrompt
<1> HIDE DEF m
<1>3. ForcePrompt \in Seq(VisibleMessage) /\ NoSystem(ForcePrompt)
  <2>1. CASE ForcePrompt = <<m>>
    BY <1>1, <2>1 DEF NoSystem
  <2>2. CASE ForcePrompt = << >>
    BY <2>2 DEF NoSystem
  <2>3. QED
    BY <1>2, <2>1, <2>2
<1>4. ASSUME NEW v \in Seq(VisibleMessage), SettledPrompt(v)
      PROVE  SettledPrompt(v \o ForcePrompt)
  <2>1. SettledPrompt(Append(v, m))
    BY <1>1, <1>4, SettledPrompted DEF SettledPrompt
  <2>2. v \o <<m>> = Append(v, m) /\ v \o << >> = v
    OBVIOUS
  <2>3. QED
    BY <1>2, <1>4, <2>1, <2>2
<1>5. QED
  BY <1>3, <1>4

LEMMA AfterIs ==
  ASSUME NEW after \in {<< >>, ForcePrompt}
  PROVE  after \in Seq(VisibleMessage) /\ NoSystem(after)
<1>1. CASE after = ForcePrompt
  BY <1>1, ForcePromptIs
<1>2. CASE after = << >>
  BY <1>2 DEF NoSystem
<1>3. QED
  BY <1>1, <1>2

LEMMA AssistantMessageIs ==
  ASSUME ConfigAssumption, NEW r \in Response
  PROVE  /\ AssistantMessage(r) \in VisibleMessage
         /\ IsAssistant(AssistantMessage(r))
         /\ AssistantMessage(r).kind # "system" /\ AssistantMessage(r).kind # "tool"
         /\ r.calls = 0 => AssistantMessage(r).kind # "calls"
         /\ r.calls > 0 => AssistantMessage(r) = Message("calls", r.calls)
<1>1. r.calls \in Nat
  BY ResponseCalls
<1>2. QED
  BY <1>1 DEF AssistantMessage, Message, VisibleMessage, IsAssistant, AssistantKinds

LEMMA SettledNothing == SettledPrompt(<< >>) /\ << >> \in Seq(VisibleMessage) /\ SystemLeads(<< >>)
BY DEF SettledPrompt, ToolExchangesComplete, NoTwoAnswers, EndsOpen, SystemLeads

\* A step that logs messages without hiding any.
LEMMA Logged ==
  ASSUME Inv, SightInv, NEW before \in Seq(VisibleMessage), NEW after \in Seq(VisibleMessage),
         NoSystem(before), NoSystem(after), Log(before, 0, after)
  PROVE  /\ ReplayAgrees' /\ SystemLeads(visibleConversation')
         /\ visibleConversation' = (visibleConversation \o before) \o after
         /\ ~OrchestratorRollbacks /\ stage # "not_initialized" => TaskInSight(visibleConversation')
<1>1. LogsOK /\ ReplayAgrees /\ SystemLeads(visibleConversation) /\ 0 \in Nat
  BY SightNow
<1>2. /\ ReplayAgrees' /\ SystemLeads(visibleConversation')
      /\ SystemLeads(visibleConversation \o before)
      /\ visibleConversation' = RollbackLast(visibleConversation \o before, 0) \o after
      /\ visibleConversation \o before \in Seq(VisibleMessage)
  BY <1>1, LogKeeps
<1>3. RollbackLast(visibleConversation \o before, 0) = visibleConversation \o before
  BY <1>2, RollbackOfNone
<1>4. ASSUME ~OrchestratorRollbacks, stage # "not_initialized"
      PROVE  TaskInSight(visibleConversation')
  <2>1. PICK seen \in Seq(VisibleMessage) : seen = visibleConversation
    BY SightNow
  <2>2. TaskInSight(seen)
    BY <1>4, <2>1, SightNow
  <2>3. TaskInSight(seen \o before)
    BY <2>2, TaskJoined
  <2>4. PICK seen1 \in Seq(VisibleMessage) : seen1 = seen \o before
    BY JoinedType
  <2>5. TaskInSight(seen1 \o after)
    BY <2>3, <2>4, TaskJoined
  <2>6. QED
    BY <1>2, <1>3, <2>1, <2>4, <2>5
<1>5. QED
  BY <1>2, <1>3, <1>4

\* No calls become pending.
LEMMA NothingPending ==
  ASSUME Inv, SightInv, stage # "await_tools", stage' # "await_tools", pendingCalls' = pendingCalls
  PROVE  PendingCallsMatch'
<1>1. ~(pendingCalls > 0)
  BY DEF SightInv, PendingCallsMatch
<1>2. QED
  BY <1>1 DEF PendingCallsMatch

\* An answer that ends the conversation, or on which the final answer is forced.
LEMMA FinalSight ==
  ASSUME Inv, SightInv, stage \in CallModelStages, NEW a \in VisibleMessage, a.kind # "system",
         NEW after \in Seq(VisibleMessage), NoSystem(after), Log(<<a>>, 0, after),
         stage' \in DoneStages \/ (stage' = "force_final" /\ Preflight /\ MinTokens),
         pendingCalls' = pendingCalls, raised' = FALSE
  PROVE  SightInv'
<1>1. <<a>> \in Seq(VisibleMessage) /\ NoSystem(<<a>>)
  BY DEF NoSystem
<1>2. /\ ReplayAgrees' /\ SystemLeads(visibleConversation')
      /\ ~OrchestratorRollbacks /\ stage # "not_initialized" => TaskInSight(visibleConversation')
  BY <1>1, Logged
<1>3. stage # "not_initialized" /\ stage # "await_tools"
  BY DEF CallModelStages
<1>4. stage' \notin {"not_initialized", "await_tools", "tool_messages", "format_error"}
  BY DEF DoneStages
<1>5. stage' \in CallModelStages => Preflight /\ MinTokens
  BY DEF DoneStages, CallModelStages
<1>6. PendingCallsMatch'
  BY <1>3, <1>4, NothingPending
<1>7. TaskKept' /\ PromptsSettled' /\ RaisedWhere' /\ NothingYet'
  BY <1>2, <1>3, <1>4, <1>5 DEF TaskKept, PromptsSettled, RaisedWhere, NothingYet
<1>8. QED
  BY <1>2, <1>6, <1>7 DEF SightInv

\* Calls wait at the end of what was a settled prompt.
LEMMA RequestSight ==
  ASSUME Inv, SightInv, stage \in CallModelStages, NEW n \in Nat \ {0},
         Log(<<Message("calls", n)>>, 0, << >>), stage' = "await_tools", pendingCalls' = n, raised' = FALSE
  PROVE  SightInv'
<1> DEFINE m == Message("calls", n)
<1>1. m \in VisibleMessage /\ m.kind # "system" /\ m = Message("calls", n)
  BY DEF Message, VisibleMessage, AssistantKinds
<1> HIDE DEF m
<1>2. <<m>> \in Seq(VisibleMessage) /\ NoSystem(<<m>>) /\ << >> \in Seq(VisibleMessage) /\ NoSystem(<< >>)
  BY <1>1 DEF NoSystem
<1>3. PICK seen \in Seq(VisibleMessage) : seen = visibleConversation
  BY SightNow
<1>4. /\ ReplayAgrees' /\ SystemLeads(visibleConversation')
      /\ visibleConversation' = (visibleConversation \o <<m>>) \o << >>
      /\ ~OrchestratorRollbacks /\ stage # "not_initialized" => TaskInSight(visibleConversation')
  BY <1>1, <1>2, Logged
<1>5. stage # "not_initialized"
  BY DEF CallModelStages
<1>6. visibleConversation' = Append(seen, m)
  BY <1>1, <1>3, <1>4
<1>7. Append(seen, m)[Len(Append(seen, m))] = m /\ Len(Append(seen, m)) > 0 /\ SubSeq(Append(seen, m), 1, Len(Append(seen, m)) - 1) = seen
  BY <1>1
<1>8. PendingCallsMatch'
  BY <1>1, <1>6, <1>7 DEF PendingCallsMatch
<1>9. PromptsSettled'
  <2>1. ~HidesResultsOnly /\ ~(Preflight /\ MinTokens) => SettledPrompt(seen)
    BY <1>3, SightNow
  <2>2. stage' \notin CallModelStages
    BY DEF CallModelStages
  <2>3. QED
    BY <1>6, <1>7, <2>1, <2>2 DEF PromptsSettled
<1>10. TaskKept' /\ RaisedWhere' /\ NothingYet'
  BY <1>4, <1>5, <1>6, <1>7 DEF TaskKept, RaisedWhere, NothingYet
<1>11. QED
  BY <1>4, <1>8, <1>9, <1>10 DEF SightInv

\* A withdrawn answer leaves the prompt as it was.
LEMMA WithdrawSight ==
  ASSUME Inv, SightInv, NEW a \in VisibleMessage, a.kind # "system", Log(<<a>>, 1, << >>),
         \/ stage = "initial_user" /\ stage' = "initial_user"
         \/ stage \in {"tool_messages", "format_error"} /\ stage' = "tool_messages",
         pendingCalls' = pendingCalls, raised' = FALSE
  PROVE  SightInv'
<1>1. <<a>> \in Seq(VisibleMessage) /\ NoSystem(<<a>>) /\ << >> \in Seq(VisibleMessage) /\ NoSystem(<< >>)
        /\ 1 \in Nat
  BY DEF NoSystem
<1>2. PICK seen \in Seq(VisibleMessage) : seen = visibleConversation
  BY SightNow
<1>3. /\ ReplayAgrees' /\ SystemLeads(visibleConversation')
      /\ visibleConversation' = RollbackLast(visibleConversation \o <<a>>, 1) \o << >>
  BY <1>1, LogKeeps, SightNow
<1>4. visibleConversation' = seen
  <2>1. seen \o <<a>> = Append(seen, a) /\ seen \o << >> = seen
    OBVIOUS
  <2>2. RollbackLast(Append(seen, a), 1) = seen
    BY RollbackOfOne
  <2>3. QED
    BY <1>2, <1>3, <2>1, <2>2
<1>5. visibleConversation' = visibleConversation
  BY <1>2, <1>4
<1>6. stage # "not_initialized" /\ stage # "await_tools" /\ stage' # "not_initialized" /\ stage' # "await_tools"
        /\ stage \in CallModelStages
  BY DEF CallModelStages
<1>7. PendingCallsMatch'
  BY <1>6, NothingPending
<1>8. TaskKept'
  <2>1. TaskKept
    BY DEF SightInv
  <2>2. QED
    BY <1>5, <1>6, <2>1 DEF TaskKept
<1>9. PromptsSettled'
  <2>1. PromptsSettled
    BY DEF SightInv
  <2>2. QED
    BY <1>5, <1>6, <2>1 DEF PromptsSettled
<1>10. RaisedWhere' /\ NothingYet'
  BY <1>6 DEF RaisedWhere, NothingYet
<1>11. QED
  BY <1>3, <1>7, <1>8, <1>9, <1>10 DEF SightInv

\* An answer and a prompt, perhaps two.
LEMMA PromptSight ==
  ASSUME Inv, SightInv, stage \in CallModelStages, NEW a \in VisibleMessage, IsAssistant(a),
         a.kind \notin {"calls", "tool", "system"},
         NEW m \in VisibleMessage, m.kind \in UserPromptKinds, NEW after \in {<< >>, ForcePrompt},
         Log(<<a, m>>, 0, after), stage' \in {"format_error", "final_prompt", "force_final"},
         pendingCalls' = pendingCalls, raised' = FALSE
  PROVE  SightInv'
<1>1. <<a, m>> \in Seq(VisibleMessage) /\ NoSystem(<<a, m>>)
  BY DEF NoSystem, UserPromptKinds
<1>2. after \in Seq(VisibleMessage) /\ NoSystem(after)
  BY AfterIs
<1>3. PICK seen \in Seq(VisibleMessage) : seen = visibleConversation
  BY SightNow
<1>4. /\ ReplayAgrees' /\ SystemLeads(visibleConversation')
      /\ visibleConversation' = (visibleConversation \o <<a, m>>) \o after
      /\ ~OrchestratorRollbacks /\ stage # "not_initialized" => TaskInSight(visibleConversation')
  BY <1>1, <1>2, Logged
<1>5. PICK seen1 \in Seq(VisibleMessage) : seen1 = seen \o <<a, m>>
  BY <1>1, JoinedType
<1>6. visibleConversation' = seen1 \o after
  BY <1>3, <1>4, <1>5
<1>7. stage # "not_initialized" /\ stage # "await_tools" /\ stage' # "await_tools" /\ stage' # "not_initialized"
  BY DEF CallModelStages
<1>8. PendingCallsMatch'
  BY <1>7, NothingPending
<1>9. HasAssistant(visibleConversation')
  <2>1. Len(seen1 \o after) = Len(seen) + 2 + Len(after) /\ seen1[Len(seen) + 1] = a
    BY <1>2, <1>5
  <2>2. Len(seen) + 1 \in 1..Len(seen1 \o after) /\ (seen1 \o after)[Len(seen) + 1] = a
    BY <1>2, <1>5, <2>1
  <2>3. QED
    BY <1>6, <2>2 DEF HasAssistant
<1>10. TaskKept'
  BY <1>4, <1>7, <1>9 DEF TaskKept
<1>11. PromptsSettled'
  <2>1. SUFFICES ASSUME ~HidesResultsOnly /\ ~(Preflight /\ MinTokens)
                 PROVE  SettledPrompt(seen1 \o after)
    BY <1>6, <1>7 DEF PromptsSettled
  <2>2. SettledPrompt(seen1)
    BY <1>3, <1>5, <2>1, SightNow, SettledAnswered
  <2>3. seen1 \o << >> = seen1
    OBVIOUS
  <2>4. QED
    BY <2>2, <2>3, ForcePromptIs
<1>12. RaisedWhere' /\ NothingYet'
  BY <1>7 DEF RaisedWhere, NothingYet
<1>13. QED
  BY <1>4, <1>8, <1>10, <1>11, <1>12 DEF SightInv

LEMMA RolledBack ==
  ASSUME ConfigAssumption, NEW w \in Seq(VisibleMessage), SystemLeads(w), NEW at,
         NEW hidden \in {0, ContextRollbackCount(w, at)}, NEW after \in {<< >>, ForcePrompt}
  PROVE  /\ hidden \in Nat
         /\ ~HidesResultsOnly /\ SettledPrompt(w) => SettledPrompt(RollbackLast(w, hidden) \o after)
         /\ TaskInSight(w) /\ (HasAssistant(w) \/ hidden = 0) => TaskInSight(RollbackLast(w, hidden) \o after)
<1>1. hidden \in Nat
  BY ContextRollbackCountType
<1>2. PICK cut \in Seq(VisibleMessage) : cut = RollbackLast(w, hidden)
  BY <1>1, RollbackLastType
<1>3. cut \o << >> = cut /\ after \in Seq(VisibleMessage)
  <2>1. cut \o << >> = cut
    BY ONLY cut \in Seq(VisibleMessage)
  <2>2. QED
    BY <2>1, AfterIs
<1>4. hidden = 0 => cut = w
  BY <1>2, RollbackOfNone
<1>5. ~HidesResultsOnly /\ SettledPrompt(w) => SettledPrompt(cut)
  BY <1>2, <1>4, ContextRollbackSettles
<1>6. SettledPrompt(cut) => SettledPrompt(cut \o after)
  BY <1>3, ForcePromptIs
<1>7. TaskInSight(w) /\ (HasAssistant(w) \/ hidden = 0) => TaskInSight(cut)
  BY <1>2, <1>4, ContextRollbackSparesTask
<1>8. TaskInSight(cut) => TaskInSight(cut \o after)
  BY <1>3, TaskJoined
<1>9. QED
  BY <1>1, <1>2, <1>5, <1>6, <1>7, <1>8

\* The conversation that waits for tools, taken apart.
LEMMA WaitingIs ==
  ASSUME Inv, SightInv, stage = "await_tools"
  PROVE  \E p \in Seq(VisibleMessage) :
           /\ pendingCalls \in Nat \ {0}
           /\ Message("calls", pendingCalls) \in VisibleMessage
           /\ visibleConversation = Append(p, Message("calls", pendingCalls))
           /\ ~HidesResultsOnly /\ ~(Preflight /\ MinTokens) => SettledPrompt(p)
<1>1. pendingCalls \in Nat \ {0}
  <2>1. pendingCalls \in Nat /\ pendingCalls > 0
    BY SightNow DEF SightInv, PendingCallsMatch
  <2>2. QED
    BY <2>1
<1>2. Message("calls", pendingCalls) \in VisibleMessage
  BY <1>1 DEF Message, VisibleMessage, AssistantKinds
<1>3. PICK seen \in Seq(VisibleMessage) : seen = visibleConversation
  BY SightNow
<1>4. seen[Len(seen)] = Message("calls", pendingCalls)
  BY <1>3 DEF SightInv, PendingCallsMatch
<1>5. Len(seen) > 0
  BY <1>3 DEF SightInv, NothingYet
<1>6. PICK p \in Seq(VisibleMessage) : p = SubSeq(seen, 1, Len(seen) - 1)
  <2>1. PICK n \in Nat : n = Len(seen)
    OBVIOUS
  <2>2. n \in 1..Len(seen)
    BY <1>5, <2>1
  <2>3. QED
    BY <2>1, <2>2, OneLonger
<1>7. seen = Append(p, Message("calls", pendingCalls))
  <2>1. PICK m \in VisibleMessage : m = Message("calls", pendingCalls)
    BY <1>2
  <2>2. PICK n \in Nat : n = Len(seen) /\ n > 0
    BY <1>5
  <2>3. SubSeq(seen, 1, n) = Append(SubSeq(seen, 1, n - 1), seen[n]) /\ SubSeq(seen, 1, n) = seen
    <3>1. n \in 1..Len(seen)
      BY <2>2
    <3>2. QED
      BY <2>2, <3>1, OneLonger
  <2>4. QED
    BY <1>4, <1>6, <2>2, <2>3
<1>8. ~HidesResultsOnly /\ ~(Preflight /\ MinTokens) => SettledPrompt(p)
  BY <1>3, <1>6 DEF SightInv, PromptsSettled
<1>9. QED
  BY <1>1, <1>2, <1>3, <1>7, <1>8

\* The results join the calls; the rollback, if any, takes both away or the results alone.
LEMMA ToolsSight ==
  ASSUME ConfigAssumption, Inv, SightInv, stage = "await_tools", NEW results \in ToolResultBatches(pendingCalls),
         NEW hidden \in {0, ContextRollbackCount(visibleConversation \o results, "tool_messages")},
         NEW after \in {<< >>, ForcePrompt}, Log(results, hidden, after),
         \/ stage' \in {"force_final", "token_exceed"}
         \/ stage' = "tool_messages" /\ hidden = 0,
         pendingCalls' = 0, raised' = FALSE
  PROVE  SightInv'
<1>1. PICK p \in Seq(VisibleMessage) :
           /\ pendingCalls \in Nat \ {0}
           /\ Message("calls", pendingCalls) \in VisibleMessage
           /\ visibleConversation = Append(p, Message("calls", pendingCalls))
           /\ ~HidesResultsOnly /\ ~(Preflight /\ MinTokens) => SettledPrompt(p)
  BY WaitingIs
<1>2. results \in Seq(VisibleMessage) /\ NoSystem(results)
  BY <1>1, ResultsOfCalls DEF NoSystem
<1>3. after \in Seq(VisibleMessage) /\ NoSystem(after)
  BY AfterIs
<1>4. PICK seen \in Seq(VisibleMessage) : seen = visibleConversation
  BY SightNow
<1>5. PICK w \in Seq(VisibleMessage) : w = seen \o results
  BY <1>2, JoinedType
<1>6. SystemLeads(w)
  BY <1>2, <1>4, <1>5, SightNow, SystemLeadsJoined DEF NoSystem
<1>7. PICK given \in Nat : given = hidden
  BY <1>4, <1>5, ContextRollbackCountType
<1>8. /\ ReplayAgrees' /\ SystemLeads(visibleConversation')
      /\ visibleConversation' = RollbackLast(w, hidden) \o after
  BY <1>2, <1>3, <1>4, <1>5, <1>7, LogKeeps, SightNow
<1>9. /\ ~HidesResultsOnly /\ SettledPrompt(w) => SettledPrompt(RollbackLast(w, hidden) \o after)
      /\ TaskInSight(w) /\ (HasAssistant(w) \/ hidden = 0) => TaskInSight(RollbackLast(w, hidden) \o after)
  BY <1>4, <1>5, <1>6, RolledBack
<1>10. HasAssistant(w)
  <2>1. seen[Len(seen)] = Message("calls", pendingCalls) /\ Len(seen) > 0
    BY <1>1, <1>4
  <2>2. Len(seen) \in 1..Len(w) /\ w[Len(seen)] = Message("calls", pendingCalls)
    BY <1>2, <1>5, <2>1
  <2>3. IsAssistant(Message("calls", pendingCalls))
    BY DEF IsAssistant, AssistantKinds, Message
  <2>4. QED
    BY <2>2, <2>3 DEF HasAssistant
<1>11. hidden = 0 => HasAssistant(RollbackLast(w, hidden) \o after)
  <2>1. SUFFICES ASSUME hidden = 0
                 PROVE  HasAssistant(w \o after)
    BY <1>6, RollbackOfNone
  <2>2. PICK i \in 1..Len(w) : IsAssistant(w[i])
    BY <1>10 DEF HasAssistant
  <2>3. i \in 1..Len(w \o after) /\ (w \o after)[i] = w[i]
    BY <1>3, <2>2
  <2>4. QED
    BY <2>2, <2>3 DEF HasAssistant
<1>12. ~OrchestratorRollbacks => TaskInSight(visibleConversation')
  <2>1. SUFFICES ASSUME ~OrchestratorRollbacks
                 PROVE  TaskInSight(w)
    BY <1>8, <1>9, <1>10
  <2>2. TaskInSight(seen)
    BY <1>4, <2>1, SightNow
  <2>3. QED
    BY <1>2, <1>5, <2>2, TaskJoined
<1>13. stage' # "not_initialized" /\ stage' # "await_tools" /\ stage' # "format_error"
  OBVIOUS
<1>14. TaskKept'
  BY <1>8, <1>11, <1>12, <1>13 DEF TaskKept
<1>15. PromptsSettled'
  <2>1. SUFFICES ASSUME ~HidesResultsOnly /\ ~(Preflight /\ MinTokens)
                 PROVE  SettledPrompt(w)
    BY <1>8, <1>9, <1>13 DEF PromptsSettled
  <2>2. SettledPrompt(p)
    BY <1>1, <2>1
  <2>3. SettledPrompt(Append(p, Message("calls", pendingCalls)) \o results)
    BY <1>1, <2>2, SettledExchange
  <2>4. QED
    BY <1>1, <1>4, <1>5, <2>3
<1>16. PendingCallsMatch' /\ RaisedWhere' /\ NothingYet'
  BY <1>13 DEF PendingCallsMatch, RaisedWhere, NothingYet
<1>17. QED
  BY <1>8, <1>14, <1>15, <1>16 DEF SightInv

\* The provider rejects a prompt, and the answer is forced or the task given up.
LEMMA ForcedSight ==
  ASSUME ConfigAssumption, Inv, SightInv, stage \in CallModelStages,
         NEW hidden \in Nat, NEW after \in {<< >>, ForcePrompt}, Log(<< >>, hidden, after),
         stage' \in {"force_final", "token_exceed"}, pendingCalls' = pendingCalls, raised' = FALSE,
         ~HidesResultsOnly /\ SettledPrompt(visibleConversation) =>
           SettledPrompt(RollbackLast(visibleConversation, hidden) \o after),
         ~OrchestratorRollbacks /\ TaskInSight(visibleConversation) =>
           TaskInSight(RollbackLast(visibleConversation, hidden) \o after)
  PROVE  SightInv'
<1>1. << >> \in Seq(VisibleMessage) /\ NoSystem(<< >>)
  BY DEF NoSystem
<1>2. after \in Seq(VisibleMessage) /\ NoSystem(after)
  BY AfterIs
<1>3. PICK seen \in Seq(VisibleMessage) : seen = visibleConversation
  BY SightNow
<1>4. seen \o << >> = seen
  OBVIOUS
<1>5. /\ ReplayAgrees' /\ SystemLeads(visibleConversation')
      /\ visibleConversation' = RollbackLast(seen, hidden) \o after
  <2>1. /\ ReplayAgrees' /\ SystemLeads(visibleConversation')
        /\ visibleConversation' = RollbackLast(visibleConversation \o << >>, hidden) \o after
    BY <1>1, <1>2, LogKeeps, SightNow
  <2>2. QED
    BY <1>3, <1>4, <2>1
<1>6. stage # "not_initialized" /\ stage # "await_tools"
  BY DEF CallModelStages
<1>7. stage' \notin {"not_initialized", "await_tools", "tool_messages", "format_error"}
  OBVIOUS
<1>8. TaskKept'
  <2>1. ~OrchestratorRollbacks => TaskInSight(seen)
    BY <1>3, <1>6, SightNow
  <2>2. QED
    BY <1>3, <1>5, <1>7, <2>1 DEF TaskKept
<1>9. PromptsSettled'
  <2>1. ~HidesResultsOnly /\ ~(Preflight /\ MinTokens) => SettledPrompt(seen)
    BY <1>3, SightNow
  <2>2. QED
    BY <1>3, <1>5, <1>7, <2>1 DEF PromptsSettled
<1>10. PendingCallsMatch'
  BY <1>6, <1>7, NothingPending
<1>11. RaisedWhere' /\ NothingYet'
  BY <1>7 DEF RaisedWhere, NothingYet
<1>12. QED
  BY <1>5, <1>8, <1>9, <1>10, <1>11 DEF SightInv

\* The orchestrator withdraws calls it did not answer: the prompt they came from is left.
LEMMA CallsWithdrawnSight ==
  ASSUME Inv, SightInv, OrchestratorRollbacks, stage = "await_tools", Log(<< >>, 1, << >>),
         stage' = "tool_messages", pendingCalls' = 0, raised' = FALSE
  PROVE  SightInv'
<1>1. PICK p \in Seq(VisibleMessage) :
           /\ pendingCalls \in Nat \ {0}
           /\ Message("calls", pendingCalls) \in VisibleMessage
           /\ visibleConversation = Append(p, Message("calls", pendingCalls))
           /\ ~HidesResultsOnly /\ ~(Preflight /\ MinTokens) => SettledPrompt(p)
  BY WaitingIs
<1>2. << >> \in Seq(VisibleMessage) /\ NoSystem(<< >>) /\ 1 \in Nat
  BY DEF NoSystem
<1>3. PICK m \in VisibleMessage : m = Message("calls", pendingCalls) /\ m.kind # "system"
  BY <1>1 DEF Message
<1>4. /\ ReplayAgrees' /\ SystemLeads(visibleConversation')
      /\ visibleConversation' = RollbackLast(visibleConversation \o << >>, 1) \o << >>
  BY <1>2, LogKeeps, SightNow
<1>5. visibleConversation' = p
  <2>1. Append(p, m) \o << >> = Append(p, m) /\ p \o << >> = p
    OBVIOUS
  <2>2. RollbackLast(Append(p, m), 1) = p
    BY <1>3, RollbackOfOne
  <2>3. QED
    BY <1>1, <1>3, <1>4, <2>1, <2>2
<1>6. TaskKept' /\ PromptsSettled' /\ PendingCallsMatch' /\ RaisedWhere' /\ NothingYet'
  BY <1>1, <1>5 DEF TaskKept, PromptsSettled, PendingCallsMatch, RaisedWhere, NothingYet
<1>7. QED
  BY <1>4, <1>6 DEF SightInv

-----------------------------------------------------------------------------
(***************************************************************************)
(* Every action keeps the invariant of what is in sight.                   *)
(***************************************************************************)
LEMMA InitSight == ASSUME Init PROVE SightInv
<1>1. SettledPrompt(<< >>) /\ SystemLeads(<< >>) /\ Replay(<< >>, << >>) = << >>
  BY SettledNothing, ReplayNothing
<1>2. NothingYet /\ PendingCallsMatch /\ RaisedWhere /\ SystemLeads(visibleConversation)
  BY <1>1 DEF Init, NothingYet, PendingCallsMatch, RaisedWhere
<1>3. ReplayAgrees
  BY <1>1 DEF Init, ReplayAgrees
<1>4. TaskKept /\ PromptsSettled
  BY DEF Init, TaskKept, PromptsSettled, CallModelStages
<1>5. QED
  BY <1>2, <1>3, <1>4 DEF SightInv

\* The opening: the task, after the system prompt if there is one.
LEMMA OpeningIs ==
  ASSUME NEW opening, opening = IF SystemPrompt THEN <<SystemMessage, TaskMessage>> ELSE <<TaskMessage>>
  PROVE  /\ opening \in Seq(VisibleMessage) /\ SystemLeads(opening)
         /\ TaskInSight(opening) /\ SettledPrompt(opening)
<1>1. /\ SystemMessage \in VisibleMessage /\ SystemMessage.kind = "system"
      /\ TaskMessage \in VisibleMessage /\ TaskMessage.kind = "task" /\ TaskMessage.kind \in UserPromptKinds
  BY DEF SystemMessage, TaskMessage, Message, VisibleMessage, UserPromptKinds
<1>2. CASE SystemPrompt
  <2>1. opening = <<SystemMessage, TaskMessage>>
    BY <1>2
  <2>2. PICK first \in Seq(VisibleMessage) : first = <<SystemMessage>>
    <3>1. <<SystemMessage>> \in Seq(VisibleMessage)
      BY ONLY <1>1
    <3>2. QED
      BY <3>1
  <2>3. Append(<< >>, SystemMessage) = first /\ Append(first, TaskMessage) = opening
    BY <2>1, <2>2
  <2>4. SettledPrompt(first)
    BY <1>1, <2>3, SettledPrompted, SettledNothing DEF SettledPrompt
  <2>5. SettledPrompt(opening)
    BY <1>1, <2>3, <2>4, SettledPrompted DEF SettledPrompt
  <2>6. opening \in Seq(VisibleMessage) /\ SystemLeads(opening) /\ TaskInSight(opening)
    BY <1>1, <1>2, <2>1 DEF SystemLeads, TaskInSight, Opening
  <2>7. QED
    BY <2>5, <2>6
<1>3. CASE ~SystemPrompt
  <2>1. opening = <<TaskMessage>>
    BY <1>3
  <2>2. Append(<< >>, TaskMessage) = opening
    BY <2>1
  <2>3. SettledPrompt(opening)
    BY <1>1, <2>2, SettledPrompted, SettledNothing DEF SettledPrompt
  <2>4. opening \in Seq(VisibleMessage) /\ SystemLeads(opening) /\ TaskInSight(opening)
    BY <1>1, <1>3, <2>1 DEF SystemLeads, TaskInSight, Opening
  <2>5. QED
    BY <2>3, <2>4
<1>4. QED
  BY <1>2, <1>3

LEMMA InitializeSight ==
  ASSUME ConfigAssumption, Inv, SightInv, InitializeConversation
  PROVE  SightInv'
<1>1. raised' = FALSE
  BY InitializeInv
<1>2. stage = "not_initialized" /\ visibleConversation = << >> /\ pendingCalls' = pendingCalls
  BY DEF InitializeConversation, SightInv, NothingYet, counters
<1>3. PICK opening : opening = IF SystemPrompt THEN <<SystemMessage, TaskMessage>> ELSE <<TaskMessage>>
  OBVIOUS
<1>4. \/ Log(opening, 0, ForcePrompt) /\ stage' = "force_final"
      \/ Log(opening, 0, << >>) /\ stage' = "initial_user"
  <2>1. {"not_initialized", "system_set", "initial_user"} \subseteq AllStages
    BY DEF AllStages, Stages, CallModelStages, InternalStages
  <2>2. CASE SystemPrompt
    <3> DEFINE path == <<"not_initialized", "system_set", "initial_user">>
    <3>1. path \in Seq(AllStages) /\ path[Len(path)] = "initial_user"
      BY <2>1
    <3>2. AwaitAssistant(opening, path, turnCount)
      BY <1>3, <2>2 DEF InitializeConversation
    <3> HIDE DEF path
    <3>3. QED
      BY <1>1, <3>1, <3>2, AwaitAssistantEnds
  <2>3. CASE ~SystemPrompt
    <3> DEFINE path == <<"not_initialized", "initial_user">>
    <3>1. path \in Seq(AllStages) /\ path[Len(path)] = "initial_user"
      BY <2>1
    <3>2. AwaitAssistant(opening, path, turnCount)
      BY <1>3, <2>3 DEF InitializeConversation
    <3> HIDE DEF path
    <3>3. QED
      BY <1>1, <3>1, <3>2, AwaitAssistantEnds
  <2>4. QED
    BY <2>2, <2>3
<1>5. PICK after \in {<< >>, ForcePrompt} : Log(opening, 0, after)
  BY <1>4
<1>6. stage' \in {"force_final", "initial_user"}
  BY <1>4
<1>7. /\ opening \in Seq(VisibleMessage) /\ SystemLeads(opening)
      /\ TaskInSight(opening) /\ SettledPrompt(opening)
  BY <1>3, OpeningIs
<1>8. after \in Seq(VisibleMessage) /\ NoSystem(after)
  BY AfterIs
<1>9. << >> \o opening = opening /\ opening \o << >> = opening
  BY <1>7
<1>10. ReplayAgrees'
  BY <1>2, <1>5, <1>7, <1>8, <1>9, LogReplays, SightNow
<1>11. visibleConversation' = opening \o after
  <2>1. RollbackLast(opening, 0) = opening
    BY <1>7, RollbackOfNone
  <2>2. visibleConversation' = RollbackLast(visibleConversation \o opening, 0) \o after
    BY <1>5 DEF Log
  <2>3. QED
    BY <1>2, <1>9, <2>1, <2>2
<1>12. SystemLeads(opening \o after) /\ TaskInSight(opening \o after) /\ SettledPrompt(opening \o after)
  BY <1>7, <1>8, <1>9, SystemLeadsJoined, TaskJoined, ForcePromptIs DEF NoSystem
<1>13. stage' \notin {"not_initialized", "await_tools", "tool_messages", "format_error"}
  BY <1>6
<1>14. PendingCallsMatch'
  BY <1>2, <1>13, NothingPending
<1>15. TaskKept' /\ PromptsSettled' /\ RaisedWhere' /\ NothingYet'
  BY <1>1, <1>11, <1>12, <1>13 DEF TaskKept, PromptsSettled, RaisedWhere, NothingYet
<1>16. QED
  BY <1>10, <1>11, <1>12, <1>14, <1>15 DEF SightInv

LEMMA BudgetsAfterAnswer ==
  ASSUME NEW budget \in AfterAssistantBudgets, budget # "ok"
  PROVE  Preflight /\ MinTokens
BY DEF AfterAssistantBudgets

LEMMA TerminalSight ==
  ASSUME ConfigAssumption, Inv, SightInv, NEW r \in Response, NEW budget,
         TokenExhausted(r) \/ ForceFinalResponse(r) \/ TruncatedResponse(r) \/ CompleteNormally(r, budget)
  PROVE  SightInv'
<1>1. raised' = FALSE
  BY TerminalResponses
<1>2. stage \in CallModelStages /\ pendingCalls' = pendingCalls
  BY DEF TokenExhausted, ForceFinalResponse, TruncatedResponse, CompleteNormally, Accepted, Received
<1>3. \E next \in DoneStages : Settle(<<AssistantMessage(r)>>, 0, <<stage, "received", next>>)
  BY DEF TokenExhausted, ForceFinalResponse, TruncatedResponse, CompleteNormally, ForceCompletedStage, DoneStages
<1>4. PICK next \in DoneStages : Settle(<<AssistantMessage(r)>>, 0, <<stage, "received", next>>)
  BY <1>3
<1>5. Log(<<AssistantMessage(r)>>, 0, << >>) /\ stage' = next
  BY <1>1, <1>4, SettleThree
<1>6. << >> \in Seq(VisibleMessage) /\ NoSystem(<< >>)
  BY DEF NoSystem
<1>7. QED
  BY <1>1, <1>2, <1>5, <1>6, AssistantMessageIs, FinalSight

LEMMA BudgetSight ==
  ASSUME ConfigAssumption, Inv, SightInv, NEW r \in Response, NEW budget \in AfterAssistantBudgets,
         NEW fits \in BOOLEAN, BudgetAfterAssistant(r, budget, fits)
  PROVE  SightInv'
<1>1. raised' = FALSE
  BY BudgetAfterAssistantInv
<1>2. stage \in CallModelStages /\ pendingCalls' = pendingCalls
  BY DEF BudgetAfterAssistant, Received
<1>3. Preflight /\ MinTokens
  <2>1. budget # "ok"
    BY DEF BudgetAfterAssistant
  <2>2. QED
    BY <2>1, BudgetsAfterAnswer
<1>4. PICK a \in VisibleMessage : a = AssistantMessage(r) /\ a.kind # "system"
  BY AssistantMessageIs
<1>5. \/ Log(<<a>>, 0, ForcePrompt) /\ stage' = "force_final"
      \/ Log(<<a>>, 0, << >>) /\ stage' = "token_exceed"
  <2>1. CASE Settle(<<AssistantMessage(r)>>, 0, <<stage, "received", "token_exceed">>)
    BY <1>1, <1>4, <2>1, SettleThree
  <2>2. CASE ForceFinalDueToContext(<<AssistantMessage(r)>>, <<stage, "received">>, FALSE, fits)
    <3> DEFINE path == <<stage, "received">>
    <3>1. path \in Seq(AllStages) /\ path[Len(path)] = "received"
      BY <1>2, ReceivedPath DEF AfterReceived
    <3>2. ForceFinalDueToContext(<<a>>, path, FALSE, fits)
      BY <1>4, <2>2
    <3> HIDE DEF path
    <3>3. PICK hidden \in {0, ContextRollbackCount(visibleConversation \o <<a>>, path[Len(path)])} :
           /\ hidden # 0 => MayRollBackFrom(path[Len(path)])
           /\ \/ Log(<<a>>, hidden, ForcePrompt) /\ stage' = "force_final"
              \/ Log(<<a>>, hidden, << >>) /\ stage' = "token_exceed"
      BY <1>1, <3>1, <3>2, ForceFinalDueToContextEnds
    <3>4. ~MayRollBackFrom("received")
      BY DEF MayRollBackFrom, ValidStageTransition, DoneStages
    <3>5. QED
      BY <3>1, <3>3, <3>4
  <2>3. QED
    BY <2>1, <2>2 DEF BudgetAfterAssistant
<1>6. stage' \in DoneStages \/ (stage' = "force_final" /\ Preflight /\ MinTokens)
  BY <1>3, <1>5 DEF DoneStages
<1>7. PICK after \in {<< >>, ForcePrompt} : Log(<<a>>, 0, after)
  BY <1>5
<1>8. QED
  BY <1>1, <1>2, <1>4, <1>6, <1>7, AfterIs, FinalSight

LEMMA AnswerWithoutCalls ==
  ASSUME ConfigAssumption, NEW r \in Response, NEW budget, Judged(r, budget)
  PROVE  /\ stage \in CallModelStages /\ stage \notin {"force_final", "final_prompt"}
         /\ AssistantMessage(r) \in VisibleMessage /\ IsAssistant(AssistantMessage(r))
         /\ AssistantMessage(r).kind \notin {"calls", "tool", "system"}
BY AssistantMessageIs DEF Judged, Accepted, Received

LEMMA AssistantSight ==
  ASSUME ConfigAssumption, Inv, SightInv, AssistantStep
  PROVE  SightInv'
<1>1. PICK r \in Response, budget \in AfterAssistantBudgets, fits \in WarningFits :
        ApplyAssistantMessage(r, budget, fits)
  BY DEF AssistantStep
<1>2. fits \in BOOLEAN
  BY DEF WarningFits
<1>3. CASE TokenExhausted(r) \/ ForceFinalResponse(r) \/ TruncatedResponse(r) \/ CompleteNormally(r, budget)
  BY <1>3, TerminalSight
<1>4. CASE BudgetAfterAssistant(r, budget, fits)
  BY <1>2, <1>4, BudgetSight
<1>5. CASE RequestTools(r, budget)
  <2>1. raised' = FALSE
    BY <1>5, RequestToolsInv
  <2>2. stage \in CallModelStages /\ r.calls > 0 /\ pendingCalls' = r.calls
          /\ Settle(<<AssistantMessage(r)>>, 0, <<stage, "received", "await_tools">>)
    BY <1>5 DEF RequestTools, Accepted, Received
  <2>3. r.calls \in Nat \ {0} /\ AssistantMessage(r) = Message("calls", r.calls)
    <3>1. r.calls \in Nat
      BY ResponseCalls
    <3>2. QED
      BY <2>2, <3>1, AssistantMessageIs
  <2>4. Log(<<Message("calls", r.calls)>>, 0, << >>) /\ stage' = "await_tools"
    BY <2>1, <2>2, <2>3, SettleThree
  <2>5. QED
    BY <2>1, <2>2, <2>3, <2>4, RequestSight
<1>6. CASE WithdrawAssistantMessage(r, budget)
  <2>1. raised' = FALSE
    BY <1>6, WithdrawInv
  <2>2. PICK next : next = IF stage = "initial_user" THEN "initial_user" ELSE "tool_messages"
    OBVIOUS
  <2>3. /\ Judged(r, budget) /\ pendingCalls' = pendingCalls
        /\ Settle(<<AssistantMessage(r)>>, 1, <<stage, "received", "assistant_rollback", next>>)
    BY <1>6, <2>2 DEF WithdrawAssistantMessage
  <2>4. Log(<<AssistantMessage(r)>>, 1, << >>) /\ stage' = next
    BY <2>1, <2>3, SettleFour
  <2>5. stage \in {"initial_user", "tool_messages", "format_error"}
    BY <2>3, AnswerWithoutCalls DEF CallModelStages
  <2>6. PICK a \in VisibleMessage : a = AssistantMessage(r) /\ a.kind # "system"
    BY AssistantMessageIs
  <2>7. QED
    BY <2>1, <2>2, <2>3, <2>4, <2>5, <2>6, WithdrawSight
<1>7. CASE RepromptFormatError(r, budget) \/ AskFinalResponse(r, budget)
  <2>1. raised' = FALSE
    BY <1>7, PromptingResponses
  <2>2. Judged(r, budget) /\ pendingCalls' = pendingCalls
    BY <1>7 DEF RepromptFormatError, AskFinalResponse
  <2>3. PICK a \in VisibleMessage :
          a = AssistantMessage(r) /\ IsAssistant(a) /\ a.kind \notin {"calls", "tool", "system"}
    BY <2>2, AnswerWithoutCalls
  <2>4. stage \in CallModelStages
    BY <2>2, AnswerWithoutCalls
  <2>5. PICK kind \in {"reprompt", "final_prompt"}, next \in {"format_error", "final_prompt"} :
          AwaitAssistant(<<a, Message(kind, 0)>>, <<stage, "received", next>>, turnCount + 1)
    BY <1>7, <2>3 DEF RepromptFormatError, AskFinalResponse
  <2>6. PICK m \in VisibleMessage : m = Message(kind, 0) /\ m.kind \in UserPromptKinds
    <3>1. kind \in UserPromptKinds
      BY DEF UserPromptKinds
    <3>2. Message(kind, 0) \in VisibleMessage /\ Message(kind, 0).kind = kind
      BY <3>1 DEF Message, VisibleMessage
    <3>3. QED
      BY <3>1, <3>2
  <2>7. \/ Log(<<a, m>>, 0, ForcePrompt) /\ stage' = "force_final"
        \/ Log(<<a, m>>, 0, << >>) /\ stage' = next
    <3> DEFINE path == <<stage, "received", next>>
    <3>1. next \in AfterReceived
      BY DEF AfterReceived
    <3>2. path \in Seq(AllStages) /\ path[Len(path)] = next
      BY <2>4, <3>1, ReceivedPath
    <3>3. AwaitAssistant(<<a, m>>, path, turnCount + 1)
      BY <2>5, <2>6
    <3> HIDE DEF path
    <3>4. QED
      BY <2>1, <3>2, <3>3, AwaitAssistantEnds
  <2>8. stage' \in {"format_error", "final_prompt", "force_final"}
    BY <2>7
  <2>9. PICK after \in {<< >>, ForcePrompt} : Log(<<a, m>>, 0, after)
    BY <2>7
  <2>10. QED
    BY <2>1, <2>2, <2>3, <2>4, <2>6, <2>8, <2>9, PromptSight
<1>8. QED
  BY <1>1, <1>3, <1>4, <1>5, <1>6, <1>7 DEF ApplyAssistantMessage

LEMMA ToolSight ==
  ASSUME ConfigAssumption, Inv, SightInv, ToolStep
  PROVE  SightInv'
<1>1. PICK results \in ToolResultBatches(pendingCalls), exhausted \in BOOLEAN,
           budget \in BeforeGenerationBudgets, fits \in WarningFits :
        ApplyBatchToolMessages(results, exhausted, budget, fits)
  BY DEF ToolStep
<1> DEFINE path == <<stage, "tool_messages">>
<1>2. raised' = FALSE
  BY ToolStepInv
<1>3. stage = "await_tools" /\ pendingCalls' = 0
  BY <1>1 DEF ApplyBatchToolMessages
<1>4. path \in Seq(AllStages) /\ path[Len(path)] = "tool_messages"
  BY <1>3 DEF AllStages, Stages, ExecuteToolsStages, CallModelStages
<1>5. \/ ForceFinal(results, 0, path, "tools_exhausted")
      \/ Settle(results, 0, Append(path, "token_exceed"))
      \/ ForceFinalDueToContext(results, path, TRUE, fits)
      \/ AwaitAssistant(results, path, turnCount)
  BY <1>1 DEF ApplyBatchToolMessages
<1> DEFINE whole == Append(path, "token_exceed")
<1> HIDE DEF path
<1>6. whole[Len(whole)] = "token_exceed"
  <2>1. "token_exceed" \in AllStages
    BY DEF AllStages, Stages, DoneStages
  <2>2. QED
    BY <1>4, <2>1
<1> HIDE DEF whole
<1>7. \E hidden \in {0, ContextRollbackCount(visibleConversation \o results, "tool_messages")} :
        \/ Log(results, hidden, ForcePrompt) /\ stage' = "force_final"
        \/ Log(results, hidden, << >>) /\ stage' \in {"token_exceed"}
        \/ Log(results, hidden, << >>) /\ stage' = "tool_messages" /\ hidden = 0
  <2>1. CASE ForceFinal(results, 0, path, "tools_exhausted")
    BY <1>2, <1>4, <2>1, ForceFinalEnds
  <2>2. CASE Settle(results, 0, Append(path, "token_exceed"))
    <3>1. Settle(results, 0, whole)
      BY <2>2 DEF whole
    <3>2. Log(results, 0, << >>) /\ stage' = "token_exceed"
      BY <1>2, <1>6, <3>1, SettleEnds
    <3>3. QED
      BY <3>2
  <2>3. CASE ForceFinalDueToContext(results, path, TRUE, fits)
    <3>1. PICK hidden \in {0, ContextRollbackCount(visibleConversation \o results, path[Len(path)])} :
           /\ hidden # 0 => MayRollBackFrom(path[Len(path)])
           /\ \/ Log(results, hidden, ForcePrompt) /\ stage' = "force_final"
              \/ Log(results, hidden, << >>) /\ stage' = "token_exceed"
      BY <1>2, <1>4, <2>3, ForceFinalDueToContextEnds
    <3>2. hidden \in {0, ContextRollbackCount(visibleConversation \o results, "tool_messages")}
      BY <1>4, <3>1
    <3>3. QED
      BY <3>1, <3>2
  <2>4. CASE AwaitAssistant(results, path, turnCount)
    <3>1. \/ Log(results, 0, ForcePrompt) /\ stage' = "force_final"
          \/ Log(results, 0, << >>) /\ stage' = "tool_messages"
      BY <1>2, <1>4, <2>4, AwaitAssistantEnds
    <3>2. QED
      BY <3>1
  <2>5. QED
    BY <1>5, <2>1, <2>2, <2>3, <2>4
<1>8. PICK hidden \in {0, ContextRollbackCount(visibleConversation \o results, "tool_messages")} :
        \/ Log(results, hidden, ForcePrompt) /\ stage' = "force_final"
        \/ Log(results, hidden, << >>) /\ stage' \in {"token_exceed"}
        \/ Log(results, hidden, << >>) /\ stage' = "tool_messages" /\ hidden = 0
  BY <1>7
<1>9. PICK after \in {<< >>, ForcePrompt} : Log(results, hidden, after)
  BY <1>8
<1>10. stage' \in {"force_final", "token_exceed"} \/ (stage' = "tool_messages" /\ hidden = 0)
  BY <1>8
<1>11. QED
  BY <1>2, <1>3, <1>9, <1>10, ToolsSight

\* Where a context rollback is legal.
LEMMA RollbackStages ==
  ASSUME NEW at, MayRollBackFrom(at)
  PROVE  at \in {"tool_messages", "force_final"}
BY DEF MayRollBackFrom, ValidStageTransition, DoneStages

\* A forced answer that does not fit, where nothing can be rolled back: nothing happens
\* but that the step raises.
LEMMA RaisedError ==
  ASSUME ConfigAssumption, Inv, ForceFinalDueToContext(<< >>, <<stage>>, TRUE, FALSE),
         stage \in {"initial_user", "format_error", "final_prompt"}, raised' # FALSE,
         SystemLeads(visibleConversation)
  PROVE  /\ stage' = stage
         /\ fullConversation' = fullConversation /\ visibleConversation' = visibleConversation
<1> DEFINE path == <<stage>>
           whole == Append(path, "token_exceed")
<1>1. path[Len(path)] = stage /\ path \in Seq(AllStages) /\ Len(path) = 1 /\ path[1] = stage
  BY DEF AllStages, Stages, CallModelStages
<1>2. ~MayRollBackFrom(stage)
  BY RollbackStages
<1>3. Settle(<< >>, 0, whole)
  <2>1. ForceFinalDueToContext(<< >>, path, TRUE, FALSE)
    OBVIOUS
  <2> HIDE DEF path
  <2>2. ~MayRollBackFrom(path[Len(path)])
    BY <1>1, <1>2
  <2>3. Settle(<< >>, 0, Append(path, "token_exceed"))
    BY <2>1, <2>2 DEF ForceFinalDueToContext
  <2>4. QED
    BY <1>1, <2>3
<1>4. Log(<< >>, 0, << >>) /\ TransitAlong(whole)
  BY <1>3 DEF Settle
<1>5. stage' = stage
  <2>1. PICK last \in 1..Len(whole) : stage' = whole[last] /\ (last = Len(whole) => raised' = FALSE)
    BY <1>4 DEF TransitAlong
  <2>2. Len(whole) = 2 /\ whole[1] = stage
    <3>1. "token_exceed" \in AllStages
      BY DEF AllStages, Stages, DoneStages
    <3>2. PICK first \in Seq(AllStages) : first = path
      BY <1>1
    <3>3. Len(first) = 1 /\ first[1] = stage
      BY <1>1, <3>2
    <3>4. PICK final \in AllStages : final = "token_exceed"
      BY <3>1
    <3>5. Len(Append(first, final)) = Len(first) + 1 /\ \A i \in 1..Len(first) : Append(first, final)[i] = first[i]
      BY ONLY first \in Seq(AllStages), final \in AllStages
    <3>6. QED
      BY <3>2, <3>3, <3>4, <3>5
  <2> HIDE DEF whole
  <2>3. last # 2
    BY <2>1, <2>2
  <2>4. last = 1
    BY <2>1, <2>2, <2>3
  <2>5. QED
    BY <2>1, <2>2, <2>4
<1>6. PICK seen \in Seq(VisibleMessage) : seen = visibleConversation
  BY TypeOKParts DEF Inv, LogsOK
<1>7. PICK full \in Seq(Entry) : full = fullConversation
  BY TypeOKParts DEF Inv, LogsOK
<1>8. seen \o << >> = seen /\ full \o << >> = full
  BY ONLY seen \in Seq(VisibleMessage), full \in Seq(Entry)
<1>9. RollbackLast(seen, 0) = seen
  BY <1>6, RollbackOfNone
<1>10. visibleConversation' = RollbackLast(visibleConversation \o << >>, 0) \o << >>
        /\ fullConversation' = fullConversation \o << >> \o << >> \o << >>
  BY <1>4 DEF Log
<1>11. QED
  BY <1>5, <1>6, <1>7, <1>8, <1>9, <1>10

LEMMA ContextErrorSight ==
  ASSUME ConfigAssumption, Inv, SightInv, ContextErrorStep
  PROVE  SightInv'
<1>1. PICK fits \in WarningFits : ForceFinalAfterContextError(fits)
  BY DEF ContextErrorStep
<1>2. fits \in BOOLEAN
  BY DEF WarningFits
<1>3. /\ stage \in CallModelStages \ {"force_final"} /\ pendingCalls' = pendingCalls
      /\ ForceFinalDueToContext(<< >>, <<stage>>, TRUE, fits)
  BY <1>1 DEF ForceFinalAfterContextError, counters
<1>4. stage \in AllStages /\ raised' \in BOOLEAN
  <2>1. Inv'
    BY <1>1, <1>2, ContextErrorInv
  <2>2. QED
    BY <2>1, TypeOKParts DEF Inv, TypeOK
<1> DEFINE path == <<stage>>
<1>5. path \in Seq(AllStages) /\ path[Len(path)] = stage /\ Len(path) >= 1 /\ LegalPath(path)
  BY <1>4 DEF LegalPath
<1>6. ForceFinalDueToContext(<< >>, path, TRUE, fits)
  BY <1>3
<1> HIDE DEF path
<1>7. PICK seen \in Seq(VisibleMessage) : seen = visibleConversation
  BY SightNow
<1>8. seen \o << >> = seen
  BY ONLY seen \in Seq(VisibleMessage)
<1>9. CASE raised' = FALSE
  <2>1. PICK hidden \in {0, ContextRollbackCount(visibleConversation \o << >>, path[Len(path)])} :
           /\ hidden # 0 => MayRollBackFrom(path[Len(path)])
           /\ \/ Log(<< >>, hidden, ForcePrompt) /\ stage' = "force_final"
              \/ Log(<< >>, hidden, << >>) /\ stage' = "token_exceed"
    BY <1>5, <1>6, <1>9, ForceFinalDueToContextEnds
  <2>2. hidden \in {0, ContextRollbackCount(seen, stage)} /\ (hidden # 0 => MayRollBackFrom(stage))
    BY <1>5, <1>7, <1>8, <2>1
  <2>3. PICK after \in {<< >>, ForcePrompt} : Log(<< >>, hidden, after)
    BY <2>1
  <2>4. stage' \in {"force_final", "token_exceed"}
    BY <2>1
  <2>5. /\ hidden \in Nat
        /\ ~HidesResultsOnly /\ SettledPrompt(seen) => SettledPrompt(RollbackLast(seen, hidden) \o after)
        /\ TaskInSight(seen) /\ (HasAssistant(seen) \/ hidden = 0) => TaskInSight(RollbackLast(seen, hidden) \o after)
    <3>1. SystemLeads(seen)
      BY <1>7, SightNow
    <3>2. QED
      BY <2>2, <3>1, RolledBack
  <2>6. hidden # 0 => stage = "tool_messages"
    BY <1>3, <2>2, RollbackStages
  <2>7. ~OrchestratorRollbacks => HasAssistant(seen) \/ hidden = 0
    BY <1>7, <2>6 DEF SightInv, TaskKept
  <2>8. QED
    BY <1>3, <1>7, <1>9, <2>3, <2>4, <2>5, <2>7, ForcedSight
<1>10. CASE raised' # FALSE
  <2>1. fits = FALSE
    BY <1>1, <1>2, <1>10, ContextErrorInv
  <2>2. stage # "tool_messages"
    <3>1. SUFFICES ASSUME stage = "tool_messages"
                   PROVE  raised' = FALSE
      BY <1>10
    <3>2. <<path[Len(path)], "token_exceed">> \in ValidStageTransition
            /\ <<path[Len(path)], "force_final">> \in ValidStageTransition
      BY <1>5, <3>1, LegalHops
    <3>3. LogsOK /\ FinalOK /\ << >> \in Seq(VisibleMessage) /\ TRUE \in BOOLEAN
      BY TypeOKParts DEF Inv
    <3>4. QED
      BY <1>2, <1>5, <1>6, <3>2, <3>3, ForceFinalDueToContextType
  <2>3. stage \in {"initial_user", "format_error", "final_prompt"}
    BY <1>3, <2>2 DEF CallModelStages
  <2>4. /\ stage' = stage
        /\ fullConversation' = fullConversation /\ visibleConversation' = visibleConversation
    BY <1>3, <1>10, <2>1, <2>3, RaisedError, SightNow
  <2>5. QED
    BY <1>3, <2>3, <2>4 DEF SightInv, NothingYet, PendingCallsMatch, RaisedWhere, ReplayAgrees, TaskKept,
                            PromptsSettled
<1>11. QED
  BY <1>9, <1>10

LEMMA DropSight ==
  ASSUME ConfigAssumption, Inv, SightInv, DropExchangeStep
  PROVE  SightInv'
<1>1. raised' = FALSE
  BY DropExchangeInv
<1>2. PICK trigger : DropLatestExchange(trigger)
  BY DEF DropExchangeStep
<1>3. /\ stage \in CallModelStages /\ pendingCalls' = pendingCalls
      /\ LatestToolExchange(visibleConversation) > 0
      /\ ForceFinal(<< >>, LatestToolExchange(visibleConversation), <<stage, "context_rollback">>, trigger)
  BY <1>2 DEF DropLatestExchange, CanDropLatestExchange, counters
<1>4. PICK seen \in Seq(VisibleMessage) : seen = visibleConversation
  BY SightNow
<1>5. PICK hidden \in Nat : hidden = LatestToolExchange(seen) /\ hidden > 0
  BY <1>3, <1>4, LatestToolExchangeType
<1>6. Log(<< >>, hidden, ForcePrompt) /\ stage' = "force_final"
  <2>1. stage \in AllStages /\ "context_rollback" \in AllStages
    BY TypeOKParts DEF Inv, AllStages, InternalStages
  <2>2. <<stage, "context_rollback">> \in Seq(AllStages)
    BY <2>1
  <2>3. ForceFinal(<< >>, hidden, <<stage, "context_rollback">>, trigger)
    BY <1>3, <1>4, <1>5
  <2>4. QED
    BY <1>1, <2>2, <2>3, ForceFinalEnds
<1>7. PICK cut \in Seq(VisibleMessage) : cut = RollbackLast(seen, hidden)
  BY RollbackLastType
<1>8. SystemLeads(seen)
  BY <1>4, SightNow
<1>9. SettledPrompt(seen) => SettledPrompt(cut \o ForcePrompt)
  BY <1>5, <1>7, <1>8, DropSettles, ForcePromptIs
<1>10. TaskInSight(seen) => TaskInSight(cut \o ForcePrompt)
  BY <1>5, <1>7, <1>8, DropSparesTask, ForcePromptIs, TaskJoined
<1>11. QED
  BY <1>1, <1>3, <1>4, <1>6, <1>7, <1>9, <1>10, ForcedSight

LEMMA StepSight ==
  ASSUME ConfigAssumption, Inv, SightInv, [Next]_runtimeVars
  PROVE  SightInv'
<1>1. CASE InitializeConversation
  BY <1>1, InitializeSight
<1>2. CASE AssistantStep
  BY <1>2, AssistantSight
<1>3. CASE ToolStep
  BY <1>3, ToolSight
<1>4. CASE ContextErrorStep
  BY <1>4, ContextErrorSight
<1>5. CASE DropExchangeStep
  BY <1>5, DropSight
<1>6. CASE RollbackAssistantToolCalls
  <2>1. raised' = FALSE
    BY <1>6, RollbackToolCallsInv
  <2>2. /\ OrchestratorRollbacks /\ stage = "await_tools" /\ pendingCalls' = 0
        /\ Settle(<< >>, 1, <<stage, "assistant_rollback", "tool_messages">>)
    BY <1>6 DEF RollbackAssistantToolCalls
  <2>3. Log(<< >>, 1, << >>) /\ stage' = "tool_messages"
    BY <2>1, <2>2, SettleThree
  <2>4. QED
    BY <2>1, <2>2, <2>3, CallsWithdrawnSight
<1>7. CASE ResetRollbackCounter \/ UNCHANGED runtimeVars
  <2>1. /\ stage' = stage /\ pendingCalls' = pendingCalls /\ raised' = raised
        /\ fullConversation' = fullConversation /\ visibleConversation' = visibleConversation
    BY <1>7 DEF ResetRollbackCounter, runtimeVars, counters
  <2>2. QED
    BY <2>1 DEF SightInv, NothingYet, PendingCallsMatch, RaisedWhere, ReplayAgrees, TaskKept, PromptsSettled
<1>8. QED
  BY <1>1, <1>2, <1>3, <1>4, <1>5, <1>6, <1>7 DEF Next

-----------------------------------------------------------------------------
(***************************************************************************)
(* The theorems about what is in sight.                                    *)
(***************************************************************************)

\* What is in sight in every reachable state of every configuration.
THEOREM SightHolds == Spec => [](Inv /\ SightInv)
<1>1. Init => Inv /\ SightInv
  BY ConfigAssumption, InitInv, InitSight
<1>2. Inv /\ SightInv /\ [Next]_runtimeVars => (Inv /\ SightInv)'
  BY ConfigAssumption, StepInv, StepSight
<1>3. QED
  BY <1>1, <1>2, PTL DEF Spec

\* The stage table carries every run: calls are pending exactly while the runtime waits
\* for tools, and are those of the last message in sight; no step raises, but one that
\* forces an answer that need not fit, and it raises where nothing can be rolled back.
THEOREM StagesRespected == Spec => []StageTableRespected
<1>1. CASE Preflight /\ MinTokens /\ HasForcePrompt
  <2>1. SightInv => StageTableRespected
    BY <1>1 DEF SightInv, RaisedWhere, StageTableRespected
  <2>2. QED
    BY <2>1, SightHolds, PTL
<1>2. CASE ~(Preflight /\ MinTokens /\ HasForcePrompt)
  <2>1. SightInv /\ NoInvalidTransition => StageTableRespected
    BY <1>2 DEF SightInv, RaisedWhere, StageTableRespected
  <2>2. Spec => []NoInvalidTransition
    BY <1>2, NoStepRaises
  <2>3. QED
    BY <2>1, <2>2, SightHolds, PTL
<1>3. QED
  BY <1>1, <1>2

\* A sequence that begins with one or two messages.
LEMMA FirstOnes ==
  ASSUME NEW S, NEW v \in Seq(S)
  PROVE  /\ Len(v) >= 1 => SubSeq(v, 1, 1) = <<v[1]>>
         /\ Len(v) >= 2 => SubSeq(v, 1, 2) = <<v[1], v[2]>>
<1>1. ASSUME Len(v) >= 1
      PROVE  SubSeq(v, 1, 1) = <<v[1]>>
  <2>1. PICK a : a = SubSeq(v, 1, 1)
    OBVIOUS
  <2>2. a \in Seq(S) /\ Len(a) = 1 /\ a[1] = v[1]
    BY <1>1, <2>1
  <2>3. a = <<a[1]>>
    BY <2>2
  <2>4. QED
    BY <2>1, <2>2, <2>3
<1>2. ASSUME Len(v) >= 2
      PROVE  SubSeq(v, 1, 2) = <<v[1], v[2]>>
  <2>1. PICK a : a = SubSeq(v, 1, 2)
    OBVIOUS
  <2>2. a \in Seq(S) /\ Len(a) = 2 /\ a[1] = v[1] /\ a[2] = v[2]
    BY <1>2, <2>1
  <2>3. a = <<a[1], a[2]>>
    BY <2>2
  <2>4. QED
    BY <2>1, <2>2, <2>3
<1>3. QED
  BY <1>1, <1>2
LEMMA TaskVisible ==
  ASSUME Inv, SightInv, ~OrchestratorRollbacks
  PROVE  TaskAlwaysVisible
<1>1. SUFFICES ASSUME stage # "not_initialized"
               PROVE  IsPrefix(IF SystemPrompt THEN <<SystemMessage, TaskMessage>> ELSE <<TaskMessage>>,
                               visibleConversation)
  BY DEF TaskAlwaysVisible
<1>2. PICK seen \in Seq(VisibleMessage) : seen = visibleConversation
  BY SightNow
<1>3. TaskInSight(seen)
  BY <1>1, <1>2, SightNow
<1>4. CASE SystemPrompt
  <2>1. 2 <= Len(seen) /\ seen[1] = SystemMessage /\ seen[2] = TaskMessage
    BY <1>3, <1>4 DEF TaskInSight, Opening
  <2>2. SubSeq(seen, 1, 2) = <<SystemMessage, TaskMessage>>
    BY <2>1, FirstOnes
  <2>3. QED
    BY <1>2, <1>4, <2>1, <2>2 DEF IsPrefix
<1>5. CASE ~SystemPrompt
  <2>1. 1 <= Len(seen) /\ seen[1] = TaskMessage
    BY <1>3, <1>5 DEF TaskInSight, Opening
  <2>2. SubSeq(seen, 1, 1) = <<TaskMessage>>
    BY <2>1, FirstOnes
  <2>3. QED
    BY <1>2, <1>5, <2>1, <2>2 DEF IsPrefix
<1>6. QED
  BY <1>4, <1>5

\* Whatever has been withdrawn, hidden or forced, the model is asked about its task, with
\* every call followed by all its results and the floor open to it; and the log replays,
\* from nothing, to what the model is shown.
THEOREM PromptsAreReadable == Spec => []PromptsReadable
<1>1. Inv /\ SightInv => PromptsReadable
  <2>1. SUFFICES ASSUME Inv, SightInv
                 PROVE  PromptsReadable
    OBVIOUS
  <2>2. ReplayAgrees /\ (~OrchestratorRollbacks => TaskAlwaysVisible)
    BY <2>1, TaskVisible DEF SightInv
  <2>3. ASSUME ~HidesResultsOnly /\ ~(Preflight /\ MinTokens)
        PROVE  PromptsWellFormed /\ (~OrchestratorRollbacks => PromptEndsWithInput)
    <3>1. stage \in CallModelStages => SettledPrompt(visibleConversation)
      BY <2>1, <2>3 DEF SightInv, PromptsSettled
    <3>2. ~OrchestratorRollbacks /\ stage \in CallModelStages => Len(visibleConversation) > 0
      <4>1. stage \in CallModelStages => stage # "not_initialized"
        BY DEF CallModelStages
      <4>2. QED
        BY <2>1, <4>1, SightNow DEF TaskInSight, Opening
    <3>3. QED
      BY <3>1, <3>2 DEF PromptsWellFormed, PromptEndsWithInput, SettledPrompt, EndsOpen
  <2>4. QED
    BY <2>2, <2>3 DEF PromptsReadable
<1>2. QED
  BY <1>1, SightHolds, PTL

=============================================================================
