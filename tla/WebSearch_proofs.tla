------------------------- MODULE WebSearch_proofs -------------------------
(***************************************************************************)
(* The attempts of the web-search recipe, the series they form, what is    *)
(* told of them, and the search tool they use, for every limit, context    *)
(* policy, storm of rollbacks and set of queries, answers and cards.       *)
(***************************************************************************)
EXTENDS WebSearchAttempt, WebSearchRetry, AttemptProvenance, SearchTool, ConversationContracts_proofs

-----------------------------------------------------------------------------
(***************************************************************************)
(* One attempt. Whatever is withdrawn, dropped, summarized or reset, the   *)
(* conversation begins with the system prompt and the task: rollbacks and  *)
(* resets stop at their prefix, because no message after it is the         *)
(* system's. The turn limit is an equality, so outside the final round a   *)
(* turn is always left for it; and a reset, which cuts a conversation that *)
(* is longer than its prefix, is paid for with the turn that made it       *)
(* longer.                                                                 *)
(***************************************************************************)


-----------------------------------------------------------------------------
(***************************************************************************)
(* Conversations that begin with the system prompt and the task.           *)
(***************************************************************************)
MessageKinds == {"system", "task", "calls", "text", "empty", "tool", "force_prompt", "summary"}
Messages == [kind : MessageKinds, n : Nat]

WithTask(visible) ==
  /\ Len(visible) >= 2 /\ visible[1] = SystemMessage /\ visible[2] = TaskMessage
  /\ \A i \in 2..Len(visible) : visible[i].kind # "system"

Conversations == {visible \in Seq(Messages) : WithTask(visible)}

LEMMA PrefixIsConversation == Prefix \in Conversations /\ Len(Prefix) = 2
<1>1. Prefix \in Seq(Messages) /\ Len(Prefix) = 2
  <2>1. SystemMessage \in Messages /\ TaskMessage \in Messages
    BY DEF SystemMessage, TaskMessage, Message, Messages, MessageKinds
  <2> HIDE DEF Messages
  <2>2. QED
    BY <2>1 DEF Prefix
<1>2. WithTask(Prefix)
  BY DEF Prefix, SystemMessage, TaskMessage, Message, WithTask
<1>3. QED
  BY <1>1, <1>2 DEF Conversations

\* Later messages that are not the system's leave the task where it is.
LEMMA LoggedConversation ==
  ASSUME NEW v \in Conversations, NEW w \in Seq(Messages), \A i \in 1..Len(w) : w[i].kind # "system"
  PROVE  v \o w \in Conversations /\ Len(v \o w) = Len(v) + Len(w)
<1>1. v \in Seq(Messages) /\ Len(v) \in Nat /\ Len(w) \in Nat /\ WithTask(v)
  BY DEF Conversations
<1>2. v \o w \in Seq(Messages) /\ Len(v \o w) = Len(v) + Len(w)
  BY <1>1
<1>3. \A i \in 1..Len(v) + Len(w) : (v \o w)[i] = IF i <= Len(v) THEN v[i] ELSE w[i - Len(v)]
  BY <1>1
<1>4. WithTask(v \o w)
  <2>1. (v \o w)[1] = v[1] /\ (v \o w)[2] = v[2] /\ Len(v) >= 2
    BY <1>1, <1>3 DEF WithTask
  <2>2. ASSUME NEW i \in 2..Len(v) + Len(w)
        PROVE  (v \o w)[i].kind # "system"
    <3>1. CASE i <= Len(v)
      BY <1>1, <1>3, <3>1 DEF WithTask
    <3>2. CASE i > Len(v)
      <4>1. i - Len(v) \in 1..Len(w)
        BY <1>1, <3>2
      <4>2. QED
        BY <1>1, <1>3, <3>2, <4>1
    <3>3. QED
      BY <1>1, <3>1, <3>2
  <2> HIDE <1>3
  <2>3. QED
    BY <1>1, <1>2, <2>1, <2>2 DEF WithTask
<1>5. QED
  BY <1>2, <1>4 DEF Conversations

LEMMA AppendedConversation ==
  ASSUME NEW v \in Conversations, NEW m \in Messages, m.kind # "system"
  PROVE  Append(v, m) \in Conversations /\ Len(Append(v, m)) = Len(v) + 1
<1>1. Append(v, m) = v \o <<m>>
  BY DEF Conversations
<1>2. <<m>> \in Seq(Messages) /\ Len(<<m>>) = 1 /\ \A i \in 1..Len(<<m>>) : <<m>>[i].kind # "system"
  OBVIOUS
<1>3. v \o <<m>> \in Conversations /\ Len(v \o <<m>>) = Len(v) + Len(<<m>>)
  BY <1>2, LoggedConversation
<1>4. QED
  BY <1>1, <1>2, <1>3

\* What is cut off behind the task leaves it in place.
LEMMA ShortenedConversation ==
  ASSUME NEW v \in Conversations, NEW k \in 2..Len(v)
  PROVE  SubSeq(v, 1, k) \in Conversations /\ Len(SubSeq(v, 1, k)) = k
<1>1. v \in Seq(Messages) /\ Len(v) \in Nat /\ WithTask(v)
  BY DEF Conversations
<1>2. SubSeq(v, 1, k) \in Seq(Messages) /\ Len(SubSeq(v, 1, k)) = k
  BY <1>1
<1>3. \A i \in 1..k : SubSeq(v, 1, k)[i] = v[i]
  BY <1>1
<1>4. WithTask(SubSeq(v, 1, k))
  BY <1>1, <1>2, <1>3 DEF WithTask
<1>5. QED
  BY <1>2, <1>4 DEF Conversations

\* A rollback that leaves two messages stops where it is told to: the only system
\* message is the first one.
LEMMA RolledBackConversation ==
  ASSUME NEW v \in Conversations, NEW count \in Nat, Len(v) - count >= 2
  PROVE  RollbackLast(v, count) \in Conversations /\ Len(RollbackLast(v, count)) = Len(v) - count
<1> DEFINE I == {i \in 1..Len(v) : v[i].kind = "system"}
           last == SelectLastInSeq(v, LAMBDA m : m.kind = "system")
<1>1. v \in Seq(Messages) /\ Len(v) \in Nat /\ WithTask(v)
  BY DEF Conversations
<1>2. last = IF I # {} THEN Max(I) ELSE 0
  BY DEF SelectLastInSeq
<1>3. I \in SUBSET (1..Len(v)) /\ \A i \in I : i < 2
  BY <1>1 DEF WithTask
<1> HIDE DEF I
<1>4. last \in Int /\ last < 2
  <2>1. CASE I = {}
    BY <1>2, <2>1
  <2>2. CASE I # {}
    <3>1. Max(I) \in I
      BY <1>1, <1>3, <2>2, MaxOfPositions
    <3>2. QED
      BY <1>1, <1>2, <1>3, <2>2, <3>1
  <2>3. QED
    BY <2>1, <2>2
<1>5. RollbackLast(v, count) = SubSeq(v, 1, IF Len(v) - count > last THEN Len(v) - count ELSE last)
  BY DEF RollbackLast
<1> HIDE DEF last
<1>6. RollbackLast(v, count) = SubSeq(v, 1, Len(v) - count) /\ Len(v) - count \in 2..Len(v)
  BY <1>1, <1>4, <1>5
<1>7. QED
  BY <1>6, ShortenedConversation

\* The results a context rollback takes back came after the task.
LEMMA TrailingResultsAfterTask ==
  ASSUME NEW v \in Conversations
  PROVE  TrailingResults(v) \in Nat /\ Len(v) - TrailingResults(v) >= 2
<1> DEFINE I == {i \in 1..Len(v) : v[i].kind # "tool"}
           last == SelectLastInSeq(v, LAMBDA m : m.kind # "tool")
<1>1. v \in Seq(Messages) /\ Len(v) \in Nat /\ WithTask(v)
  BY DEF Conversations
<1>2. last = IF I # {} THEN Max(I) ELSE 0
  BY DEF SelectLastInSeq
<1>3. I \in SUBSET (1..Len(v)) /\ 2 \in I
  BY <1>1 DEF WithTask, TaskMessage, Message
<1> HIDE DEF I
<1>4. Max(I) \in I /\ 2 <= Max(I)
  BY <1>1, <1>3, MaxOfPositions
<1>5. last \in 2..Len(v)
  BY <1>1, <1>2, <1>3, <1>4
<1>6. TrailingResults(v) = Len(v) - last
  BY DEF TrailingResults
<1> HIDE DEF last
<1>7. QED
  BY <1>1, <1>5, <1>6

\* The exchange that can be dropped begins after the task: neither the system prompt
\* nor the task is a message that called for tools.
LEMMA ExchangeAfterTask ==
  ASSUME NEW v \in Conversations
  PROVE  /\ ExchangeLength(v) \in Nat
         /\ ExchangeLength(v) > 0 => Len(v) - ExchangeLength(v) >= 2
<1> DEFINE end == Len(v) - (IF Last(v).kind = "force_prompt" THEN 1 ELSE 0)
           I == {i \in 1..end : v[i].kind # "tool"}
           caller == SelectLastInSubSeq(v, 1, end, LAMBDA m : m.kind # "tool")
<1>1. v \in Seq(Messages) /\ Len(v) \in Nat /\ Len(v) >= 2 /\ WithTask(v)
  BY DEF Conversations, WithTask
<1>2. end \in 2..Len(v)
  <2>1. Last(v) = v[Len(v)]
    BY DEF Last
  <2>2. CASE Len(v) = 2
    <3>1. Last(v).kind = "task"
      BY <2>1, <2>2, <1>1 DEF WithTask, TaskMessage, Message
    <3>2. QED
      BY <3>1, <2>2
  <2>3. CASE Len(v) # 2
    <3>1. PICK d \in 0..1 : d = (IF Last(v).kind = "force_prompt" THEN 1 ELSE 0)
      OBVIOUS
    <3>2. end = Len(v) - d
      BY <3>1
    <3> HIDE DEF end
    <3>3. QED
      BY <1>1, <2>3, <3>2
  <2>4. QED
    BY <2>2, <2>3
<1>3. caller = IF I # {} THEN Max(I) ELSE 0
  BY DEF SelectLastInSubSeq
<1>4. ExchangeLength(v) = IF caller < end /\ v[caller].kind = "calls" THEN Len(v) - caller + 1 ELSE 0
  BY DEF ExchangeLength
<1> HIDE DEF end
<1>5. I \in SUBSET (1..end) /\ 2 \in I
  BY <1>1, <1>2 DEF WithTask, TaskMessage, Message
<1> HIDE DEF I
<1>6. Max(I) \in I /\ 2 <= Max(I)
  <2>1. end \in Nat /\ I # {}
    BY <1>2, <1>5
  <2>2. Max(I) \in I /\ \A y \in I : y <= Max(I)
    BY <1>5, <2>1, MaxOfPositions
  <2>3. QED
    BY <1>5, <2>2
<1>7. caller \in 2..end
  BY <1>2, <1>3, <1>5, <1>6
<1>8. v[2].kind # "calls"
  BY <1>1 DEF WithTask, TaskMessage, Message
<1> HIDE DEF caller
<1>9. QED
  BY <1>1, <1>2, <1>4, <1>7, <1>8

\* A summary replaces messages after the task.
LEMMA CompactedConversation ==
  ASSUME NEW v \in Conversations, NEW older \in 1..(Len(v) - 2)
  PROVE  /\ SpliceCompaction(v, Len(Prefix), older) \in Conversations
         /\ Len(SpliceCompaction(v, Len(Prefix), older)) > 2
<1> DEFINE head == SubSeq(v, 1, 2)
           rest == SubSeq(v, 2 + older + 1, Len(v))
           digest == Message("summary", 0)
<1>1. v \in Seq(Messages) /\ Len(v) \in Nat /\ WithTask(v)
  BY DEF Conversations
<1>2. SpliceCompaction(v, Len(Prefix), older) = head \o <<digest>> \o rest
  BY <1>1, PrefixIsConversation DEF SpliceCompaction
<1>3. head \in Conversations /\ Len(head) = 2
  BY <1>1, ShortenedConversation
<1>4. /\ rest \in Seq(Messages)
      /\ Len(rest) = Len(v) - (2 + older + 1) + 1
      /\ \A i \in 1..Len(rest) : rest[i] = v[i + (2 + older)]
  <2>1. 2 + older + 1 \in 1..(Len(v) + 1)
    BY <1>1
  <2>2. QED
    BY <1>1, <2>1
<1>5. \A i \in 1..Len(rest) : rest[i].kind # "system"
  BY <1>1, <1>4 DEF WithTask
<1>6. digest \in Messages /\ digest.kind # "system"
  BY DEF Message, Messages, MessageKinds
<1>7. head \o <<digest>> = Append(head, digest)
  <2>1. head \in Seq(Messages)
    BY <1>3 DEF Conversations
  <2> HIDE DEF head, digest
  <2>2. QED
    BY <2>1, <1>6
<1> HIDE DEF head, rest, digest
<1>8. Append(head, digest) \in Conversations /\ Len(Append(head, digest)) = Len(head) + 1
  BY <1>3, <1>6, AppendedConversation
<1>9. /\ Append(head, digest) \o rest \in Conversations
      /\ Len(Append(head, digest) \o rest) = Len(Append(head, digest)) + Len(rest)
  BY <1>4, <1>5, <1>8, LoggedConversation
<1>10. Len(rest) \in Nat
  BY <1>4
<1>11. SpliceCompaction(v, Len(Prefix), older) = Append(head, digest) \o rest
  BY <1>2, <1>7
<1>12. Len(Append(head, digest) \o rest) > 2
  BY <1>3, <1>8, <1>9, <1>10
<1>13. QED
  BY <1>9, <1>11, <1>12

-----------------------------------------------------------------------------
(***************************************************************************)
(* The operations of the runtime.                                          *)
(***************************************************************************)
Chats ==
  [stage : Stages, turns : Nat, limit : Nat, rollbacks : 0..MaxAssistantRollbacks,
   trigger : Triggers \cup {NoTrigger}, prompted : BOOLEAN, skip : BOOLEAN, visible : Conversations]

\* Waiting for the model; the final round knows which limit forced it.
Open(rt) ==
  /\ rt.stage \in {"initial_user", "tool_messages", "force_final"}
  /\ rt.stage = "force_final" => rt.trigger \in Triggers

\* The operations that leave the limit, the switch and the counted turns alone.
SameBudget(rt, new) ==
  new.limit = rt.limit /\ new.turns = rt.turns /\ new.skip = rt.skip

\* The stages an action of the model can be taken in.
LEMMA StageNames ==
  /\ {"initial_user", "tool_messages", "force_final", "await_tools", "completed", "force_completed",
      "calls_rejected", "token_exceed"} \subseteq Stages
  /\ LimitTriggers \subseteq Triggers /\ "empty_response" \in Triggers /\ NoTrigger \notin Triggers
BY DEF Stages, CallModelStages, ExecuteToolsStages, DoneStages, LimitTriggers, Triggers, NoTrigger

\* Forcing the final round moves nothing but the stage, what caused it and its prompt.
LEMMA ForcedRound ==
  ASSUME NEW rt \in Chats, NEW trigger \in Triggers
  PROVE  LET new == ForceFinalRound(rt, trigger)
         IN  /\ new \in Chats /\ new.stage = "force_final" /\ new.trigger = trigger
             /\ SameBudget(rt, new) /\ new.rollbacks = rt.rollbacks
<1> DEFINE silent == rt.skip /\ trigger \in LimitTriggers
<1>1. PICK quiet \in BOOLEAN : quiet = silent
  OBVIOUS
<1>2. PICK visible \in Conversations :
        visible = IF silent THEN rt.visible ELSE Append(rt.visible, Message("force_prompt", 0))
  <2>1. rt.visible \in Conversations
    BY DEF Chats
  <2>2. Message("force_prompt", 0) \in Messages /\ Message("force_prompt", 0).kind # "system"
    BY DEF Message, Messages, MessageKinds
  <2>3. QED
    BY <2>1, <2>2, AppendedConversation
<1>3. ForceFinalRound(rt, trigger) =
        [rt EXCEPT !.stage = "force_final", !.trigger = trigger, !.prompted = ~quiet, !.visible = visible]
  BY <1>1, <1>2 DEF ForceFinalRound
<1> HIDE DEF silent
<1>4. QED
  BY <1>1, <1>2, <1>3, StageNames DEF Chats, SameBudget

\* The model is awaited again, or forced where the turn limit leaves one turn.
LEMMA ModelAwaited ==
  ASSUME NEW rt \in Chats
  PROVE  LET new == AwaitModel(rt)
         IN  /\ new \in Chats /\ SameBudget(rt, new) /\ new.rollbacks = rt.rollbacks
             /\ IF rt.turns + 1 = rt.limit THEN new.stage = "force_final" /\ new.trigger = "turn_limit"
                ELSE new = rt
<1>1. CASE rt.turns + 1 = rt.limit
  <2>1. AwaitModel(rt) = ForceFinalRound(rt, "turn_limit")
    BY <1>1 DEF AwaitModel
  <2>2. "turn_limit" \in Triggers
    BY DEF Triggers
  <2>3. LET new == ForceFinalRound(rt, "turn_limit")
        IN  /\ new \in Chats /\ new.stage = "force_final" /\ new.trigger = "turn_limit"
            /\ SameBudget(rt, new) /\ new.rollbacks = rt.rollbacks
    BY <2>2, ForcedRound
  <2>4. QED
    BY <1>1, <2>1, <2>3
<1>2. CASE rt.turns + 1 # rt.limit
  BY <1>2 DEF AwaitModel, SameBudget
<1>3. QED
  BY <1>1, <1>2

\* A message is withdrawn while rollbacks are left.
LEMMA MessageWithdrawn ==
  ASSUME NEW rt \in Chats, MayRollBack(rt), Len(rt.visible) > 2
  PROVE  LET new == Withdraw(rt)
         IN  /\ new \in Chats /\ SameBudget(rt, new) /\ Len(new.visible) = Len(rt.visible) - 1
             /\ new.stage \in {"initial_user", "tool_messages"}
<1>1. rt.visible \in Conversations /\ rt.rollbacks \in 0..MaxAssistantRollbacks
  BY DEF Chats
<1>2. Len(rt.visible) \in Nat
  BY <1>1 DEF Conversations
<1>3. PICK visible \in Conversations : visible = RollbackLast(rt.visible, 1) /\ Len(visible) = Len(rt.visible) - 1
  BY <1>1, <1>2, RolledBackConversation
<1>4. PICK stage \in {"initial_user", "tool_messages"} :
        stage = IF rt.stage = "initial_user" THEN rt.stage ELSE "tool_messages"
  OBVIOUS
<1>5. rt.rollbacks + 1 \in 0..MaxAssistantRollbacks
  BY <1>1, AttemptAssumption DEF MayRollBack
<1>6. Withdraw(rt) = [rt EXCEPT !.stage = stage, !.rollbacks = rt.rollbacks + 1, !.visible = visible]
  BY <1>3, <1>4 DEF Withdraw
<1>7. stage \in Stages
  BY StageNames
<1>8. QED
  BY <1>3, <1>5, <1>6, <1>7 DEF Chats, SameBudget

LEMMA CallsWithdrawn ==
  ASSUME NEW rt \in Chats, MayRollBack(rt), Len(rt.visible) > 2
  PROVE  LET new == WithdrawCalls(rt)
         IN  /\ new \in Chats /\ new.limit = rt.limit /\ new.skip = rt.skip
             /\ new.turns = (IF rt.turns > 0 THEN rt.turns - 1 ELSE 0)
             /\ Len(new.visible) = Len(rt.visible) - 1
             /\ new.stage \in {"initial_user", "tool_messages"}
<1>1. PICK w : w = Withdraw(rt)
  OBVIOUS
<1>2. /\ w \in Chats /\ SameBudget(rt, w) /\ Len(w.visible) = Len(rt.visible) - 1
      /\ w.stage \in {"initial_user", "tool_messages"}
  BY <1>1, MessageWithdrawn
<1>3. WithdrawCalls(rt) = [w EXCEPT !.turns = IF w.turns > 0 THEN w.turns - 1 ELSE 0]
  BY <1>1 DEF WithdrawCalls
<1>4. rt.turns \in Nat /\ w.turns = rt.turns
  BY <1>2 DEF Chats, SameBudget
<1>5. PICK turns \in Nat : turns = IF rt.turns > 0 THEN rt.turns - 1 ELSE 0
  BY <1>4
<1>6. WithdrawCalls(rt) = [w EXCEPT !.turns = turns]
  BY <1>3, <1>4, <1>5
<1>7. QED
  BY <1>2, <1>5, <1>6 DEF Chats, SameBudget

\* A message that is heard counts as a turn and is appended.
LEMMA MessageHeard ==
  ASSUME NEW rt \in Chats, NEW kind \in {"calls", "empty", "text"}, NEW n \in Nat
  PROVE  LET new == [Logged(rt, <<Message(kind, n)>>) EXCEPT !.turns = @ + 1]
         IN  /\ new \in Chats /\ new.turns = rt.turns + 1 /\ Len(new.visible) = Len(rt.visible) + 1
             /\ new.limit = rt.limit /\ new.skip = rt.skip /\ new.stage = rt.stage
             /\ new.rollbacks = rt.rollbacks /\ new.trigger = rt.trigger /\ new.prompted = rt.prompted
<1>1. PICK m \in Messages : m = Message(kind, n) /\ m.kind # "system"
  <2>1. Message(kind, n) \in Messages
    BY DEF Message, Messages, MessageKinds
  <2>2. Message(kind, n).kind # "system"
    BY DEF Message
  <2>3. QED
    BY <2>1, <2>2
<1>2. rt.visible \in Conversations /\ rt.turns + 1 \in Nat
  BY DEF Chats
<1>3. <<m>> \in Seq(Messages) /\ Len(<<m>>) = 1 /\ \A i \in 1..Len(<<m>>) : <<m>>[i].kind # "system"
  BY <1>1
<1>4. rt.visible \o <<m>> \in Conversations /\ Len(rt.visible \o <<m>>) = Len(rt.visible) + Len(<<m>>)
  BY <1>2, <1>3, LoggedConversation
<1>5. PICK visible \in Conversations : visible = rt.visible \o <<m>> /\ Len(visible) = Len(rt.visible) + 1
  BY <1>3, <1>4
<1>6. PICK logged : logged = Logged(rt, <<m>>)
  OBVIOUS
<1>7. logged = [rt EXCEPT !.visible = visible]
  BY <1>5, <1>6 DEF Logged
<1>8. logged.turns = rt.turns
  BY <1>7 DEF Chats
<1>9. [logged EXCEPT !.turns = @ + 1] = [rt EXCEPT !.visible = visible, !.turns = rt.turns + 1]
  BY <1>7, <1>8
<1>10. QED
  BY <1>1, <1>2, <1>5, <1>6, <1>9 DEF Chats

\* A message with tool calls, before the final round.
LEMMA CallsHeard ==
  ASSUME NEW rt \in Chats, rt.stage # "force_final", NEW n \in Nat
  PROVE  LET new == Hear(rt, "calls", n)
         IN  /\ new \in Chats /\ new.turns = rt.turns + 1 /\ Len(new.visible) = Len(rt.visible) + 1
             /\ new.limit = rt.limit /\ new.skip = rt.skip /\ new.rollbacks = rt.rollbacks
             /\ new.stage = "await_tools"
<1>1. PICK heard : heard = [Logged(rt, <<Message("calls", n)>>) EXCEPT !.turns = @ + 1]
  OBVIOUS
<1>2. /\ heard \in Chats /\ heard.turns = rt.turns + 1 /\ Len(heard.visible) = Len(rt.visible) + 1
      /\ heard.limit = rt.limit /\ heard.skip = rt.skip /\ heard.rollbacks = rt.rollbacks
  BY <1>1, MessageHeard
<1>3. Hear(rt, "calls", n) = [heard EXCEPT !.stage = "await_tools"]
  BY <1>1 DEF Hear
<1>4. QED
  BY <1>2, <1>3, StageNames DEF Chats

\* A message without calls to execute ends the attempt, but for a refusal that is
\* withdrawn: that one leaves the runtime as it was.
LEMMA ReplyHeard ==
  ASSUME NEW rt \in Chats, Open(rt), NEW reply \in {"text", "refusal", "calls", "nothing"}, NEW n \in Nat,
         reply = "calls" => rt.stage = "force_final"
  PROVE  LET new == Hear(rt, reply, n)
             ending == EndedBy(StepOf(new))
         IN  /\ new \in Chats /\ new.limit = rt.limit /\ new.skip = rt.skip
             /\ ending \in Verdicts
             /\ new.turns = IF ending = Running THEN rt.turns ELSE rt.turns + 1
             /\ ending = Running => /\ rt.stage # "force_final" /\ reply # "nothing"
                                   /\ new.stage \in {"initial_user", "tool_messages"}
                                   /\ Len(new.visible) = Len(rt.visible)
<1> DEFINE kind == IF reply = "calls" THEN "calls" ELSE IF reply = "nothing" THEN "empty" ELSE "text"
           ending(new) == EndedBy(StepOf(new))
<1>1. PICK heard : heard = [Logged(rt, <<Message(kind, n)>>) EXCEPT !.turns = @ + 1]
  OBVIOUS
<1>2. /\ heard \in Chats /\ heard.turns = rt.turns + 1 /\ Len(heard.visible) = Len(rt.visible) + 1
      /\ heard.limit = rt.limit /\ heard.skip = rt.skip /\ heard.stage = rt.stage
      /\ heard.rollbacks = rt.rollbacks /\ heard.trigger = rt.trigger /\ heard.prompted = rt.prompted
  <2>1. kind \in {"calls", "empty", "text"}
    OBVIOUS
  <2> HIDE DEF kind
  <2>2. QED
    BY <1>1, <2>1, MessageHeard
<1>3. Hear(rt, reply, n) =
        IF reply = "nothing" THEN [heard EXCEPT !.stage = "token_exceed"]
        ELSE IF reply = "calls"
          THEN [heard EXCEPT !.stage = IF rt.stage = "force_final" THEN "calls_rejected" ELSE "await_tools"]
        ELSE IF rt.stage = "force_final"
          THEN [heard EXCEPT !.stage = IF rt.prompted THEN "force_completed" ELSE "completed"]
        ELSE IF reply = "refusal" /\ MayRollBack(rt) THEN [Withdraw(heard) EXCEPT !.turns = rt.turns]
        ELSE [heard EXCEPT !.stage = "completed", !.rollbacks = 0]
  BY <1>1 DEF Hear
<1> HIDE DEF kind
<1>4. rt.turns \in Nat /\ 0 \in 0..MaxAssistantRollbacks
  BY AttemptAssumption DEF Chats
<1>5. \A new : (new.stage \in {"token_exceed", "calls_rejected", "completed"}) =>
        (ending(new) \in Verdicts /\ ending(new) # Running)
  BY DEF EndedBy, StepOf, Verdicts, Running
<1>6. CASE reply = "nothing"
  <2>1. Hear(rt, reply, n) = [heard EXCEPT !.stage = "token_exceed"]
    BY <1>3, <1>6
  <2>2. QED
    BY <1>2, <1>5, <2>1, StageNames DEF Chats
<1>7. CASE reply = "calls"
  <2>1. Hear(rt, reply, n) = [heard EXCEPT !.stage = "calls_rejected"]
    BY <1>3, <1>7
  <2>2. QED
    BY <1>2, <1>5, <2>1, StageNames DEF Chats
<1>8. CASE reply \in {"text", "refusal"} /\ rt.stage = "force_final"
  <2>1. PICK stage \in {"force_completed", "completed"} :
          stage = IF rt.prompted THEN "force_completed" ELSE "completed"
    OBVIOUS
  <2>2. PICK new : new = [heard EXCEPT !.stage = stage]
    OBVIOUS
  <2>3. Hear(rt, reply, n) = new
    BY <1>3, <1>8, <2>1, <2>2
  <2>4. /\ new \in Chats /\ new.limit = rt.limit /\ new.skip = rt.skip /\ new.turns = rt.turns + 1
        /\ new.stage = stage /\ new.trigger = rt.trigger
    BY <1>2, <2>1, <2>2, StageNames DEF Chats
  <2>5. rt.trigger \in Triggers
    BY <1>8 DEF Open
  <2>6. ending(new) \in Verdicts /\ ending(new) # Running
    BY <2>1, <2>4, <2>5 DEF EndedBy, StepOf, Verdicts, Running, LimitTriggers, Triggers
  <2>7. QED
    BY <2>3, <2>4, <2>6
<1>9. CASE reply \in {"text", "refusal"} /\ rt.stage # "force_final"
  <2>1. CASE reply = "refusal" /\ MayRollBack(rt)
    <3>1. PICK w : w = Withdraw(heard)
      OBVIOUS
    <3>2. MayRollBack(heard) /\ Len(heard.visible) > 2
      <4>1. Len(rt.visible) \in Nat /\ Len(rt.visible) >= 2
        BY DEF Chats, Conversations, WithTask
      <4>2. QED
        BY <1>2, <2>1, <4>1 DEF MayRollBack
    <3>3. /\ w \in Chats /\ SameBudget(heard, w) /\ Len(w.visible) = Len(heard.visible) - 1
          /\ w.stage \in {"initial_user", "tool_messages"}
      BY <1>2, <3>1, <3>2, MessageWithdrawn
    <3>4. PICK new : new = [w EXCEPT !.turns = rt.turns]
      OBVIOUS
    <3>5. Hear(rt, reply, n) = new
      BY <1>3, <1>9, <2>1, <3>1, <3>4
    <3>6. /\ new \in Chats /\ new.limit = rt.limit /\ new.skip = rt.skip /\ new.turns = rt.turns
          /\ new.stage \in {"initial_user", "tool_messages"} /\ Len(new.visible) = Len(heard.visible) - 1
      BY <1>2, <1>4, <3>3, <3>4 DEF Chats, SameBudget
    <3>7. ending(new) = Running /\ Running \in Verdicts
      BY <3>6 DEF EndedBy, StepOf, Verdicts
    <3>8. Len(heard.visible) - 1 = Len(rt.visible)
      BY <1>2 DEF Chats, Conversations
    <3>9. QED
      BY <1>9, <3>5, <3>6, <3>7, <3>8
  <2>2. CASE ~(reply = "refusal" /\ MayRollBack(rt))
    <3>1. PICK new : new = [heard EXCEPT !.stage = "completed", !.rollbacks = 0]
      OBVIOUS
    <3>2. Hear(rt, reply, n) = new
      BY <1>3, <1>9, <2>2, <3>1
    <3>3. /\ new \in Chats /\ new.limit = rt.limit /\ new.skip = rt.skip /\ new.turns = rt.turns + 1
          /\ new.stage = "completed"
      BY <1>2, <1>4, <3>1, StageNames DEF Chats
    <3>4. QED
      BY <1>5, <3>2, <3>3
  <2>3. QED
    BY <2>1, <2>2
<1>10. QED
  BY <1>6, <1>7, <1>8, <1>9

\* However the calls come out, the model is asked next, in the final round if the turn
\* limit leaves no other.
LEMMA CallsAnswered ==
  ASSUME NEW rt \in Chats, NEW n \in Nat, NEW outcome
  PROVE  LET new == AnswerCalls(rt, n, outcome)
         IN  /\ new \in Chats /\ SameBudget(rt, new) /\ Open(new)
             /\ new.stage # "force_final" => new.turns + 1 # new.limit
<1> DEFINE results == [i \in 1..n |-> Message("tool", 1)]
<1>1. results \in Seq(Messages) /\ \A i \in 1..Len(results) : results[i].kind # "system"
  <2>1. Message("tool", 1) \in Messages /\ Message("tool", 1).kind # "system"
    BY DEF Message, Messages, MessageKinds
  <2>2. results \in [1..n -> Messages] /\ \A i \in 1..n : results[i] = Message("tool", 1)
    BY <2>1
  <2> HIDE DEF results, Messages
  <2>3. results \in Seq(Messages) /\ Len(results) = n
    BY <2>2
  <2>4. QED
    BY <2>1, <2>2, <2>3
<1>2. PICK heard : heard = [Logged(rt, results) EXCEPT !.stage = "tool_messages"]
  OBVIOUS
<1>3. heard \in Chats /\ SameBudget(rt, heard) /\ heard.stage = "tool_messages"
  <2>1. rt.visible \o results \in Conversations
    <3>1. rt.visible \in Conversations
      BY DEF Chats
    <3> HIDE DEF results
    <3>2. QED
      BY <1>1, <3>1, LoggedConversation
  <2>2. PICK visible \in Conversations : visible = rt.visible \o results
    BY <2>1
  <2> HIDE DEF results
  <2>3. PICK logged : logged = Logged(rt, results)
    OBVIOUS
  <2>4. logged = [rt EXCEPT !.visible = visible]
    BY <2>2, <2>3 DEF Logged
  <2>5. heard = [logged EXCEPT !.stage = "tool_messages"]
    BY <1>2, <2>3
  <2>6. QED
    BY <2>2, <2>4, <2>5, StageNames DEF Chats, SameBudget
<1>4. PICK trimmed : trimmed = [heard EXCEPT !.visible = RollbackLast(@, TrailingResults(@))]
  OBVIOUS
<1>5. trimmed \in Chats /\ SameBudget(rt, trimmed)
  <2>1. heard.visible \in Conversations
    BY <1>3 DEF Chats
  <2>2. TrailingResults(heard.visible) \in Nat /\ Len(heard.visible) - TrailingResults(heard.visible) >= 2
    BY <2>1, TrailingResultsAfterTask
  <2>3. PICK visible \in Conversations : visible = RollbackLast(heard.visible, TrailingResults(heard.visible))
    BY <2>1, <2>2, RolledBackConversation
  <2>4. trimmed = [heard EXCEPT !.visible = visible]
    BY <1>4, <2>3
  <2>5. QED
    BY <1>3, <2>3, <2>4 DEF Chats, SameBudget
<1>6. AnswerCalls(rt, n, outcome) =
        IF outcome = "exhausted" THEN ForceFinalRound(heard, "tools_exhausted")
        ELSE IF outcome = "full" THEN ForceFinalRound(IF rt.skip THEN heard ELSE trimmed, "context_limit")
        ELSE AwaitModel(heard)
  BY <1>2, <1>4 DEF AnswerCalls
<1> HIDE DEF results
<1>7. {"tools_exhausted", "context_limit", "turn_limit"} \subseteq Triggers
  BY DEF Triggers
<1>8. \A c \in Chats, trigger \in Triggers : SameBudget(rt, c) =>
        LET new == ForceFinalRound(c, trigger)
        IN  new \in Chats /\ SameBudget(rt, new) /\ Open(new) /\ new.stage = "force_final"
  BY ForcedRound DEF SameBudget, Open
<1>9. CASE outcome = "exhausted"
  <2>1. AnswerCalls(rt, n, outcome) = ForceFinalRound(heard, "tools_exhausted")
    BY <1>6, <1>9
  <2>2. QED
    BY <1>3, <1>7, <1>8, <2>1
<1>10. CASE outcome = "full"
  <2>1. PICK c \in Chats : c = (IF rt.skip THEN heard ELSE trimmed) /\ SameBudget(rt, c)
    BY <1>3, <1>5
  <2>2. AnswerCalls(rt, n, outcome) = ForceFinalRound(c, "context_limit")
    BY <1>6, <1>10, <2>1
  <2>3. QED
    BY <1>7, <1>8, <2>1, <2>2
<1>11. CASE outcome \notin {"exhausted", "full"}
  <2>1. AnswerCalls(rt, n, outcome) = AwaitModel(heard)
    BY <1>6, <1>11
  <2>2. PICK new : new = AwaitModel(heard)
    OBVIOUS
  <2>3. /\ new \in Chats /\ SameBudget(heard, new)
        /\ IF heard.turns + 1 = heard.limit THEN new.stage = "force_final" /\ new.trigger = "turn_limit"
           ELSE new = heard
    BY <1>3, <2>2, ModelAwaited
  <2>4. QED
    BY <1>3, <1>7, <2>1, <2>2, <2>3 DEF Open, SameBudget
<1>12. QED
  BY <1>9, <1>10, <1>11

\* An exchange that is dropped came after the task, and the final round follows.
LEMMA ExchangeDropped ==
  ASSUME NEW rt \in Chats, CanDropExchange(rt), NEW trigger \in Triggers
  PROVE  LET new == DropExchange(rt, trigger)
         IN  /\ new \in Chats /\ SameBudget(rt, new) /\ Open(new) /\ new.stage = "force_final"
             /\ Len(rt.visible) > 2 /\ Len(new.visible) \in Nat
<1>1. rt.visible \in Conversations /\ ExchangeLength(rt.visible) > 0
  BY DEF Chats, CanDropExchange
<1>2. ExchangeLength(rt.visible) \in Nat /\ Len(rt.visible) - ExchangeLength(rt.visible) >= 2
  BY <1>1, ExchangeAfterTask
<1>3. PICK visible \in Conversations : visible = RollbackLast(rt.visible, ExchangeLength(rt.visible))
  BY <1>1, <1>2, RolledBackConversation
<1>4. PICK c : c = [rt EXCEPT !.visible = visible]
  OBVIOUS
<1>5. c \in Chats /\ SameBudget(rt, c)
  BY <1>3, <1>4 DEF Chats, SameBudget
<1>6. DropExchange(rt, trigger) = ForceFinalRound(c, trigger)
  BY <1>3, <1>4 DEF DropExchange
<1>7. PICK new : new = ForceFinalRound(c, trigger)
  OBVIOUS
<1>8. new \in Chats /\ new.stage = "force_final" /\ new.trigger = trigger /\ SameBudget(c, new)
  BY <1>5, <1>7, ForcedRound
<1>9. Len(rt.visible) \in Nat
  BY <1>1 DEF Conversations
<1>10. Len(new.visible) \in Nat
  BY <1>8 DEF Chats, Conversations
<1>11. QED
  BY <1>1, <1>2, <1>5, <1>6, <1>7, <1>8, <1>9, <1>10 DEF SameBudget, Open

\* A reset leaves the prefix alone and opens the conversation again.
LEMMA ContextReopened ==
  ASSUME NEW rt \in Chats
  PROVE  LET new == Reopened(rt)
         IN  /\ new \in Chats /\ SameBudget(rt, new) /\ new.stage = "initial_user" /\ Len(new.visible) = 2
<1>1. rt.visible \in Conversations /\ 0 \in 0..MaxAssistantRollbacks
  BY AttemptAssumption DEF Chats
<1>2. Len(rt.visible) \in Nat /\ Len(rt.visible) >= 2
  BY <1>1 DEF Conversations, WithTask
<1>3. SpliceDiscardAll(rt.visible, Len(Prefix)) = SubSeq(rt.visible, 1, 2)
  BY <1>2, PrefixIsConversation DEF SpliceDiscardAll
<1>4. PICK visible \in Conversations : visible = SpliceDiscardAll(rt.visible, Len(Prefix)) /\ Len(visible) = 2
  <2>1. 2 \in 2..Len(rt.visible)
    BY <1>2
  <2>2. QED
    BY <1>1, <1>3, <2>1, ShortenedConversation
<1>5. PICK new : new = [rt EXCEPT !.stage = "initial_user", !.rollbacks = 0, !.trigger = NoTrigger,
                                  !.prompted = FALSE, !.visible = visible]
  OBVIOUS
<1>6. Reopened(rt) = new
  BY <1>4, <1>5 DEF Reopened
<1>7. new \in Chats /\ SameBudget(rt, new) /\ new.stage = "initial_user" /\ new.visible = visible
  BY <1>1, <1>4, <1>5, StageNames DEF Chats, SameBudget
<1>8. QED
  BY <1>4, <1>6, <1>7

-----------------------------------------------------------------------------
(***************************************************************************)
(* The invariant, stated of a turn: what a pass yields, and what stands    *)
(* between two passes.                                                     *)
(***************************************************************************)
StepCopies == [stage : Stages, trigger : Triggers \cup {NoTrigger}, visible : Seq(Messages)]

DiscardCounts == [resets : Nat, lastTurn : Int, lastAttempt : BOOLEAN, high : BOOLEAN]

TurnsKept ==
  [chat : Chats, step : StepCopies, used : SUBSET Queries, calls : Nat, discard : DiscardCounts,
   ending : Verdicts]

\* The turns of a limit in force: the final round may use the last one, any other leaves
\* one for it.
InBudget(rt, ending) ==
  /\ rt.turns <= rt.limit
  /\ ending = Running => IF rt.stage = "force_final" THEN rt.turns + 1 <= rt.limit ELSE rt.turns + 1 < rt.limit

\* What a reset, and what the end of a silent attempt, can still be paid with: a
\* conversation longer than its prefix is one that a reset could cut.
Longer(rt) == (IF Len(rt.visible) > 2 THEN 1 ELSE 0) + (IF rt.skip THEN 1 ELSE 0)

TurnOK(t) ==
  /\ t \in TurnsKept
  /\ t.ending = Running => (Open(t.chat) /\ t.step.visible = t.chat.visible)
  /\ (t.discard.resets = 0 \/ t.discard.lastAttempt) => InBudget(t.chat, t.ending)
  /\ t.discard.resets <= t.chat.turns + 1
  /\ t.ending = Running => t.discard.resets + Longer(t.chat) <= t.chat.turns + 1
  /\ OutOfCalls(t.calls) => t.discard.lastAttempt

Standing ==
  [chat |-> chat, step |-> loopStep, used |-> usedQueries, calls |-> toolCalls, discard |-> discard,
   ending |-> verdict]

AttemptInv ==
  /\ attemptPolicy \in AttemptPolicies
  /\ TurnOK(Standing)
  /\ lastSummary \in Nat /\ asked \in Nat

LEMMA LongerRange == ASSUME NEW rt PROVE Longer(rt) \in 0..2
BY DEF Longer

LEMMA ChatSteps == ASSUME NEW rt \in Chats PROVE StepOf(rt) \in StepCopies /\ StepOf(rt).visible = rt.visible
BY DEF StepOf, StepCopies, Chats, Conversations

\* What stands between two passes, as a turn.
LEMMA StandingParts ==
  ASSUME AttemptInv, verdict = Running
  PROVE  /\ chat \in Chats /\ loopStep \in StepCopies /\ usedQueries \in SUBSET Queries /\ toolCalls \in Nat
         /\ discard \in DiscardCounts
         /\ Open(chat) /\ loopStep.visible = chat.visible
         /\ (discard.resets = 0 \/ discard.lastAttempt) => InBudget(chat, Running)
         /\ discard.resets + Longer(chat) <= chat.turns + 1
         /\ OutOfCalls(toolCalls) => discard.lastAttempt
         /\ verdict \in Verdicts
<1> DEFINE t == Standing
<1>1. /\ t.chat = chat /\ t.step = loopStep /\ t.used = usedQueries /\ t.calls = toolCalls
      /\ t.discard = discard /\ t.ending = verdict
  BY DEF Standing
<1>2. TurnOK(t)
  BY DEF AttemptInv
<1> HIDE DEF t
<1>3. t \in TurnsKept
  BY <1>2 DEF TurnOK
<1>4. t.chat \in Chats /\ t.step \in StepCopies /\ t.used \in SUBSET Queries /\ t.calls \in Nat
      /\ t.discard \in DiscardCounts /\ t.ending \in Verdicts
  BY <1>3 DEF TurnsKept
<1>5. QED
  BY <1>1, <1>2, <1>4 DEF TurnOK

\* A turn without tool calls: the counters of the attempt stand.
LEMMA QuietTurn ==
  ASSUME AttemptInv, verdict = Running,
         NEW rt \in Chats, NEW step \in StepCopies, NEW ending \in Verdicts,
         ending = Running => (Open(rt) /\ step.visible = rt.visible /\ Longer(rt) <= Longer(chat)),
         chat.turns <= rt.turns,
         InBudget(chat, Running) => InBudget(rt, ending)
  PROVE  TurnOK([chat |-> rt, step |-> step, used |-> usedQueries, calls |-> toolCalls, discard |-> discard,
                 ending |-> ending])
<1> DEFINE t == [chat |-> rt, step |-> step, used |-> usedQueries, calls |-> toolCalls, discard |-> discard,
                 ending |-> ending]
<1>1. /\ chat \in Chats /\ loopStep \in StepCopies /\ usedQueries \in SUBSET Queries /\ toolCalls \in Nat
      /\ discard \in DiscardCounts
      /\ (discard.resets = 0 \/ discard.lastAttempt) => InBudget(chat, Running)
      /\ discard.resets + Longer(chat) <= chat.turns + 1
      /\ OutOfCalls(toolCalls) => discard.lastAttempt
  BY StandingParts
<1>2. /\ t.chat = rt /\ t.step = step /\ t.used = usedQueries /\ t.calls = toolCalls
      /\ t.discard = discard /\ t.ending = ending
  OBVIOUS
<1>3. t \in TurnsKept
  BY <1>1 DEF TurnsKept
<1>4. /\ discard.resets \in Nat /\ Longer(chat) \in 0..2 /\ Longer(rt) \in 0..2
      /\ chat.turns \in Nat /\ rt.turns \in Nat
  BY <1>1, LongerRange DEF DiscardCounts, Chats
<1>5. discard.resets <= rt.turns + 1
  BY <1>1, <1>4
<1>6. ending = Running => discard.resets + Longer(rt) <= rt.turns + 1
  BY <1>1, <1>4
<1> HIDE DEF t
<1>7. (t.discard.resets = 0 \/ t.discard.lastAttempt) => InBudget(t.chat, t.ending)
  BY <1>1, <1>2
<1>8. t.ending = Running => (Open(t.chat) /\ t.step.visible = t.chat.visible)
  BY <1>2
<1>9. OutOfCalls(t.calls) => t.discard.lastAttempt
  BY <1>1, <1>2
<1>10. /\ t.discard.resets <= t.chat.turns + 1
       /\ t.ending = Running => t.discard.resets + Longer(t.chat) <= t.chat.turns + 1
  BY <1>2, <1>5, <1>6
<1>11. TurnOK(t)
  BY <1>3, <1>7, <1>8, <1>9, <1>10 DEF TurnOK
<1>12. QED
  BY <1>11 DEF t

\* The last attempt is entered where the calls run out, in the tool phase; everywhere
\* else there is nothing left to do.
LEMMA LastAttemptEntered ==
  ASSUME NEW t, TurnOK(t)
  PROVE  EnterLastAttempt(t) = t
BY DEF TurnOK, EnterLastAttempt

\* A reset takes the conversation back to its prefix, which pays for it.
LEMMA ResetMade ==
  ASSUME NEW t, TurnOK(t), t.ending = Running, ResetAllowed(t)
  PROVE  /\ TurnOK(Reset(t))
         /\ Reset(t).used = t.used /\ Reset(t).calls = t.calls /\ Reset(t).ending = t.ending
         /\ Reset(t).chat \in Chats
<1>1. t \in TurnsKept
  BY DEF TurnOK
<1>2. t.chat \in Chats /\ t.step \in StepCopies /\ t.calls \in Nat /\ t.discard \in DiscardCounts
  BY <1>1 DEF TurnsKept
<1>3. PICK rt : rt = Reopened(t.chat)
  OBVIOUS
<1>4. rt \in Chats /\ SameBudget(t.chat, rt) /\ rt.stage = "initial_user" /\ Len(rt.visible) = 2
  BY <1>2, <1>3, ContextReopened
<1>5. PICK step \in StepCopies : step = [t.step EXCEPT !.visible = rt.visible] /\ step.visible = rt.visible
  <2>1. PICK visible \in Seq(Messages) : visible = rt.visible
    BY <1>4 DEF Chats, Conversations
  <2>2. PICK step : step = [t.step EXCEPT !.visible = visible]
    OBVIOUS
  <2>3. step \in StepCopies /\ step.visible = visible
    BY <1>2, <2>2 DEF StepCopies
  <2>4. QED
    BY <2>1, <2>2, <2>3
<1>6. PICK counts \in DiscardCounts :
        /\ counts = [t.discard EXCEPT !.resets = t.discard.resets + 1, !.lastTurn = rt.turns]
        /\ counts.resets = t.discard.resets + 1 /\ counts.lastAttempt = t.discard.lastAttempt
  <2>1. t.discard.resets + 1 \in Nat /\ rt.turns \in Int
    BY <1>2, <1>4 DEF DiscardCounts, Chats
  <2>2. PICK resets \in Nat : resets = t.discard.resets + 1
    BY <2>1
  <2>3. PICK counts : counts = [t.discard EXCEPT !.resets = resets, !.lastTurn = rt.turns]
    OBVIOUS
  <2>4. counts \in DiscardCounts /\ counts.resets = resets /\ counts.lastAttempt = t.discard.lastAttempt
    BY <1>2, <2>1, <2>3 DEF DiscardCounts
  <2>5. QED
    BY <2>2, <2>3, <2>4
<1>7. PICK new : new = [t EXCEPT !.chat = rt, !.step = step, !.discard = counts]
  OBVIOUS
<1>8. Reset(t) = new
  BY <1>3, <1>5, <1>6, <1>7 DEF Reset
<1>9. /\ new \in TurnsKept /\ new.chat = rt /\ new.step = step /\ new.discard = counts
      /\ new.used = t.used /\ new.calls = t.calls /\ new.ending = t.ending
  BY <1>1, <1>4, <1>7 DEF TurnsKept
<1>10. Longer(t.chat) = Longer(rt) + 1
  BY <1>4, PrefixIsConversation DEF Longer, SameBudget, ResetAllowed
<1>11. /\ counts.resets # 0 /\ counts.lastAttempt = FALSE
       /\ counts.resets <= rt.turns + 1 /\ counts.resets + Longer(rt) <= rt.turns + 1
  <2>1. /\ t.discard.resets \in Nat /\ Longer(rt) \in 0..2
        /\ t.chat.turns \in Nat /\ rt.turns = t.chat.turns
    BY <1>2, <1>4, LongerRange DEF DiscardCounts, Chats, SameBudget
  <2>2. t.discard.resets + Longer(t.chat) <= t.chat.turns + 1
    BY DEF TurnOK
  <2>3. counts.lastAttempt = FALSE
    BY <1>2, <1>6 DEF ResetAllowed, DiscardCounts
  <2>4. QED
    BY <1>2, <1>6, <1>10, <2>1, <2>2, <2>3
<1>12. Open(rt)
  BY <1>4 DEF Open
<1>13. ~OutOfCalls(t.calls)
  BY <1>2, AttemptAssumption DEF ResetAllowed, OutOfCalls
<1>14. QED
  BY <1>4, <1>5, <1>8, <1>9, <1>11, <1>12, <1>13 DEF TurnOK

-----------------------------------------------------------------------------
(***************************************************************************)
(* The turns.                                                              *)
(***************************************************************************)
\* The attempt ends where it stands, or asks again.
LEMMA UnchangedTurn ==
  ASSUME AttemptInv, verdict = Running, NEW ending \in Verdicts
  PROVE  TurnOK([Turn(chat, ending) EXCEPT !.step = loopStep])
<1>1. [Turn(chat, ending) EXCEPT !.step = loopStep] =
        [chat |-> chat, step |-> loopStep, used |-> usedQueries, calls |-> toolCalls, discard |-> discard,
         ending |-> ending]
  BY DEF Turn
<1>2. /\ chat \in Chats /\ loopStep \in StepCopies /\ Open(chat) /\ loopStep.visible = chat.visible
  BY StandingParts
<1>3. Longer(chat) <= Longer(chat) /\ chat.turns <= chat.turns
  BY <1>2, LongerRange DEF Chats
<1>4. InBudget(chat, Running) => InBudget(chat, ending)
  BY DEF InBudget
<1>5. QED
  BY <1>1, <1>2, <1>3, <1>4, QuietTurn

LEMMA SkippedTurnOK ==
  ASSUME AttemptInv, verdict = Running, SkipsFinalRound
  PROVE  TurnOK(SkippedTurn)
<1>1. loopStep.trigger \in Verdicts
  BY DEF SkipsFinalRound, Verdicts
<1>2. QED
  BY <1>1, UnchangedTurn DEF SkippedTurn

LEMMA FailedTurnOK ==
  ASSUME AttemptInv, verdict = Running
  PROVE  TurnOK(FailedTurn) /\ TurnOK(EmptyTurn)
<1>1. "model_error" \in Verdicts /\ Running \in Verdicts
  BY DEF Verdicts
<1>2. QED
  BY <1>1, UnchangedTurn DEF FailedTurn, EmptyTurn

\* Dropping the latest exchange, with the silence of the attempt lifted or not.
LEMMA DroppingTurn ==
  ASSUME AttemptInv, verdict = Running, CanDropExchange(chat), NEW trigger \in Triggers,
         NEW from \in {chat, [chat EXCEPT !.skip = FALSE]}
  PROVE  TurnOK(Turn(DropExchange(from, trigger), Running))
<1>1. chat \in Chats /\ Open(chat)
  BY StandingParts
<1>2. /\ from \in Chats /\ from.visible = chat.visible /\ from.stage = chat.stage /\ from.limit = chat.limit
      /\ from.turns = chat.turns /\ (from.skip => chat.skip)
  BY <1>1 DEF Chats
<1>3. CanDropExchange(from)
  BY <1>2 DEF CanDropExchange
<1>4. PICK new : new = DropExchange(from, trigger)
  OBVIOUS
<1>5. /\ new \in Chats /\ SameBudget(from, new) /\ Open(new) /\ new.stage = "force_final"
      /\ Len(from.visible) > 2
  BY <1>2, <1>3, <1>4, ExchangeDropped
<1>6. Longer(new) <= Longer(chat)
  <2>1. Len(chat.visible) > 2 /\ (new.skip => chat.skip)
    BY <1>2, <1>5 DEF SameBudget
  <2>2. Longer(chat) = 1 + (IF chat.skip THEN 1 ELSE 0)
    BY <2>1 DEF Longer
  <2>3. QED
    BY <2>1, <2>2 DEF Longer
<1>7. chat.turns <= new.turns /\ (InBudget(chat, Running) => InBudget(new, Running))
  <2>1. chat.turns \in Nat /\ chat.limit \in Nat
    BY <1>1 DEF Chats
  <2>2. new.turns = chat.turns /\ new.limit = chat.limit
    BY <1>2, <1>5 DEF SameBudget
  <2>3. QED
    BY <1>5, <2>1, <2>2 DEF InBudget
<1>8. Turn(new, Running) =
        [chat |-> new, step |-> StepOf(new), used |-> usedQueries, calls |-> toolCalls, discard |-> discard,
         ending |-> Running]
  BY DEF Turn
<1>9. StepOf(new) \in StepCopies /\ StepOf(new).visible = new.visible /\ Running \in Verdicts
  BY <1>5, ChatSteps DEF Verdicts
<1>10. QED
  BY <1>4, <1>5, <1>6, <1>7, <1>8, <1>9, QuietTurn

\* An answer without a choice drops the latest exchange, if there is one.
LEMMA NoChoiceTurnOK ==
  ASSUME AttemptInv, verdict = Running
  PROVE  TurnOK(NoChoiceTurn)
<1>1. CASE CanDropExchange(chat)
  <2>1. NoChoiceTurn = Turn(DropExchange(chat, "empty_response"), Running)
    BY <1>1 DEF NoChoiceTurn
  <2>2. QED
    BY <1>1, <2>1, DroppingTurn, StageNames
<1>2. CASE ~CanDropExchange(chat)
  <2>1. "empty_response" \in Verdicts
    BY DEF Verdicts
  <2>2. QED
    BY <1>2, <2>1, UnchangedTurn DEF NoChoiceTurn
<1>3. QED
  BY <1>1, <1>2

\* A reply that ends the attempt, or a refusal that is withdrawn.
LEMMA RepliedTurn ==
  ASSUME AttemptInv, verdict = Running,
         NEW reply \in {"text", "refusal", "calls", "nothing"}, NEW n \in Nat,
         reply = "calls" => chat.stage = "force_final"
  PROVE  LET rt == Hear(chat, reply, n)
         IN  TurnOK(Turn(rt, EndedBy(StepOf(rt))))
<1>1. chat \in Chats /\ Open(chat)
  BY StandingParts
<1>2. PICK rt : rt = Hear(chat, reply, n)
  OBVIOUS
<1>3. PICK ending : ending = EndedBy(StepOf(rt))
  OBVIOUS
<1>4. /\ rt \in Chats /\ rt.limit = chat.limit /\ rt.skip = chat.skip
      /\ ending \in Verdicts
      /\ rt.turns = IF ending = Running THEN chat.turns ELSE chat.turns + 1
      /\ ending = Running => /\ chat.stage # "force_final"
                            /\ rt.stage \in {"initial_user", "tool_messages"}
                            /\ Len(rt.visible) = Len(chat.visible)
  BY <1>1, <1>2, <1>3, ReplyHeard
<1>5. ending = Running => Longer(rt) <= Longer(chat)
  BY <1>4, LongerRange DEF Longer
<1>6. chat.turns <= rt.turns /\ (InBudget(chat, Running) => InBudget(rt, ending))
  <2>1. chat.turns \in Nat /\ chat.limit \in Nat
    BY <1>1 DEF Chats
  <2>2. QED
    BY <1>4, <2>1 DEF InBudget
<1>7. Turn(rt, ending) =
        [chat |-> rt, step |-> StepOf(rt), used |-> usedQueries, calls |-> toolCalls, discard |-> discard,
         ending |-> ending]
  BY DEF Turn
<1>8. StepOf(rt) \in StepCopies /\ StepOf(rt).visible = rt.visible
  BY <1>4, ChatSteps
<1>9. ending = Running => Open(rt)
  BY <1>4 DEF Open
<1>10. TurnOK(Turn(rt, ending))
  BY <1>4, <1>5, <1>6, <1>7, <1>8, <1>9, QuietTurn
<1>11. QED
  BY <1>2, <1>3, <1>10

LEMMA PlainTurnOK ==
  ASSUME AttemptInv, verdict = Running, NEW reply \in {"text", "refusal", "calls"},
         reply = "calls" => chat.stage = "force_final"
  PROVE  TurnOK(PlainTurn(reply))
<1>1. PICK n \in Nat : n = IF reply = "calls" THEN 1 ELSE 0
  OBVIOUS
<1>2. LET rt == Hear(chat, reply, n)
      IN  TurnOK(Turn(rt, EndedBy(StepOf(rt))))
  BY RepliedTurn
<1>3. QED
  BY <1>1, <1>2 DEF PlainTurn

\* A truncated answer: withdrawn and the exchange before it dropped, or heard as it is.
LEMMA TruncatedTurnOK ==
  ASSUME AttemptInv, verdict = Running
  PROVE  TurnOK(TruncatedTurn)
<1>1. CASE attemptPolicy.recover /\ CanDropExchange(chat)
  <2>1. TruncatedTurn = Turn(DropExchange([chat EXCEPT !.skip = FALSE], "context_limit"), Running)
    BY <1>1 DEF TruncatedTurn
  <2>2. "context_limit" \in Triggers
    BY DEF Triggers
  <2>3. QED
    BY <1>1, <2>1, <2>2, DroppingTurn
<1>2. CASE ~(attemptPolicy.recover /\ CanDropExchange(chat))
  <2>1. TruncatedTurn = Turn(Hear(chat, "nothing", 0), "token_exceed")
    BY <1>2 DEF TruncatedTurn
  <2>2. PICK rt : rt = Hear(chat, "nothing", 0)
    OBVIOUS
  <2>3. TurnOK(Turn(rt, EndedBy(StepOf(rt))))
    BY <2>2, RepliedTurn
  <2>4. rt.stage = "token_exceed"
    <3>1. PICK heard : heard = [Logged(chat, <<Message("empty", 0)>>) EXCEPT !.turns = @ + 1]
      OBVIOUS
    <3>2. heard \in Chats
      BY <3>1, StandingParts, MessageHeard
    <3>3. rt = [heard EXCEPT !.stage = "token_exceed"]
      BY <2>2, <3>1 DEF Hear
    <3>4. QED
      BY <3>2, <3>3 DEF Chats
  <2>5. EndedBy(StepOf(rt)) = "token_exceed"
    BY <2>4 DEF EndedBy, StepOf
  <2>6. QED
    BY <2>1, <2>2, <2>3, <2>5
<1>3. QED
  BY <1>1, <1>2

LEMMA FreshCopy ==
  ASSUME NEW t, TurnOK(t)
  PROVE  LET new == [t EXCEPT !.step = StepOf(t.chat)]
         IN  /\ TurnOK(new) /\ new.chat = t.chat /\ new.ending = t.ending
             /\ new.used = t.used /\ new.calls = t.calls
<1>1. t \in TurnsKept /\ t.chat \in Chats
  BY DEF TurnOK, TurnsKept
<1>2. PICK step \in StepCopies : step = StepOf(t.chat) /\ step.visible = t.chat.visible
  BY <1>1, ChatSteps
<1>3. PICK new : new = [t EXCEPT !.step = step]
  OBVIOUS
<1>4. /\ new \in TurnsKept /\ new.chat = t.chat /\ new.step = step /\ new.discard = t.discard
      /\ new.used = t.used /\ new.calls = t.calls /\ new.ending = t.ending
  BY <1>1, <1>3 DEF TurnsKept
<1>5. TurnOK(new)
  BY <1>2, <1>4 DEF TurnOK
<1>6. QED
  BY <1>2, <1>3, <1>4, <1>5

\* A context error ends the attempt or asks for its final answer.
LEMMA ContextErrorTurnOK ==
  ASSUME AttemptInv, verdict = Running
  PROVE  TurnOK(ContextErrorTurn)
<1>1. PICK t : t = [Turn(chat, Running) EXCEPT !.step = loopStep]
  OBVIOUS
<1>2. TurnOK(t)
  <2>1. Running \in Verdicts
    BY DEF Verdicts
  <2>2. QED
    BY <1>1, <2>1, UnchangedTurn
<1>3. EnterLastAttempt(t) = t
  BY <1>2, LastAttemptEntered
<1>4. t = [chat |-> chat, step |-> loopStep, used |-> usedQueries, calls |-> toolCalls, discard |-> discard,
           ending |-> Running]
  BY <1>1 DEF Turn
<1>5. PICK dropped : dropped = DropExchange([t.chat EXCEPT !.skip = FALSE], "context_limit")
  OBVIOUS
<1>6. ContextErrorTurn =
        IF ResetAllowed(t) THEN [Reset(t) EXCEPT !.step = StepOf(Reset(t).chat)]
        ELSE IF attemptPolicy.recover /\ CanDropExchange(t.chat)
          THEN [t EXCEPT !.chat = dropped, !.step = StepOf(dropped)]
        ELSE [t EXCEPT !.ending = "context_limit"]
  BY <1>1, <1>3, <1>5 DEF ContextErrorTurn
<1>7. t.chat = chat /\ t.ending = Running
  BY <1>4
<1>8. CASE ResetAllowed(t)
  <2>1. PICK reset : reset = Reset(t)
    OBVIOUS
  <2>2. TurnOK(reset)
    BY <1>2, <1>7, <1>8, <2>1, ResetMade
  <2>3. ContextErrorTurn = [reset EXCEPT !.step = StepOf(reset.chat)]
    BY <1>6, <1>8, <2>1
  <2>4. QED
    BY <2>2, <2>3, FreshCopy
<1>9. CASE ~ResetAllowed(t) /\ attemptPolicy.recover /\ CanDropExchange(t.chat)
  <2>1. ContextErrorTurn = [t EXCEPT !.chat = dropped, !.step = StepOf(dropped)]
    BY <1>6, <1>9
  <2>2. ContextErrorTurn = Turn(dropped, Running)
    BY <2>1, <1>4 DEF Turn
  <2>3. "context_limit" \in Triggers
    BY DEF Triggers
  <2>4. TurnOK(Turn(DropExchange([chat EXCEPT !.skip = FALSE], "context_limit"), Running))
    BY <1>7, <1>9, <2>3, DroppingTurn
  <2>5. QED
    BY <1>5, <1>7, <2>2, <2>4
<1>10. CASE ~ResetAllowed(t) /\ ~(attemptPolicy.recover /\ CanDropExchange(t.chat))
  <2>1. ContextErrorTurn = [t EXCEPT !.ending = "context_limit"]
    BY <1>6, <1>10
  <2>2. ContextErrorTurn = [Turn(chat, "context_limit") EXCEPT !.step = loopStep]
    BY <2>1, <1>4 DEF Turn
  <2>3. "context_limit" \in Verdicts
    BY DEF Verdicts, LimitTriggers
  <2>4. QED
    BY <2>2, <2>3, UnchangedTurn
<1>11. QED
  BY <1>8, <1>9, <1>10

-----------------------------------------------------------------------------
(***************************************************************************)
(* The tool phase.                                                         *)
(***************************************************************************)
LEMMA CallsCounted ==
  ASSUME NEW queries \in Requests
  PROVE  CallCount(queries) \in Nat \ {0} /\ queries \subseteq Queries
<1>1. IsFiniteSet(queries) /\ queries \subseteq Queries
  BY DEF Requests
<1>2. Cardinality(queries) \in Nat /\ (Cardinality(queries) = 0 <=> queries = {})
  BY <1>1, FS_CardinalityType, FS_EmptySet
<1>3. QED
  BY <1>1, <1>2 DEF CallCount

\* Calls that are taken back, for a duplicate query or past the query budget.
LEMMA WithdrawnTurn ==
  ASSUME AttemptInv, verdict = Running, chat.stage # "force_final", NEW n \in Nat, MayRollBack(chat),
         NEW ending \in Verdicts
  PROVE  TurnOK(Turn(WithdrawCalls(Hear(chat, "calls", n)), ending))
<1>1. chat \in Chats /\ Open(chat) /\ Len(chat.visible) \in Nat /\ Len(chat.visible) >= 2
  BY StandingParts DEF Chats, Conversations, WithTask
<1>2. PICK rt : rt = Hear(chat, "calls", n)
  OBVIOUS
<1>3. /\ rt \in Chats /\ rt.turns = chat.turns + 1 /\ Len(rt.visible) = Len(chat.visible) + 1
      /\ rt.limit = chat.limit /\ rt.skip = chat.skip /\ rt.rollbacks = chat.rollbacks
  BY <1>1, <1>2, CallsHeard
<1>4. PICK new : new = WithdrawCalls(rt)
  OBVIOUS
<1>5. MayRollBack(rt) /\ Len(rt.visible) > 2
  BY <1>1, <1>3 DEF MayRollBack
<1>6. /\ new \in Chats /\ new.limit = rt.limit /\ new.skip = rt.skip
      /\ new.turns = (IF rt.turns > 0 THEN rt.turns - 1 ELSE 0)
      /\ Len(new.visible) = Len(rt.visible) - 1
      /\ new.stage \in {"initial_user", "tool_messages"}
  BY <1>3, <1>4, <1>5, CallsWithdrawn
<1>7. chat.turns \in Nat /\ chat.limit \in Nat
  BY <1>1 DEF Chats
<1>8. new.turns = chat.turns /\ Len(new.visible) = Len(chat.visible)
  BY <1>1, <1>3, <1>6, <1>7
<1>9. Longer(new) <= Longer(chat)
  BY <1>3, <1>6, <1>8, LongerRange DEF Longer
<1>10. chat.turns <= new.turns /\ (InBudget(chat, Running) => InBudget(new, ending))
  BY <1>3, <1>6, <1>7, <1>8 DEF InBudget
<1>11. Turn(new, ending) =
         [chat |-> new, step |-> StepOf(new), used |-> usedQueries, calls |-> toolCalls, discard |-> discard,
          ending |-> ending]
  BY DEF Turn
<1>12. StepOf(new) \in StepCopies /\ StepOf(new).visible = new.visible
  BY <1>6, ChatSteps
<1>13. Open(new)
  BY <1>6 DEF Open
<1>14. TurnOK(Turn(new, ending))
  BY <1>6, <1>9, <1>10, <1>11, <1>12, <1>13, QuietTurn
<1>15. QED
  BY <1>2, <1>4, <1>14

\* A tool result that ends the attempt leaves its turn within the bounds.
LEMMA SemanticEndOK ==
  ASSUME AttemptInv, verdict = Running, chat.stage # "force_final", NEW n \in Nat
  PROVE  TurnOK(SemanticEnd(Hear(chat, "calls", n)))
<1>1. chat \in Chats
  BY StandingParts
<1>2. PICK rt : rt = Hear(chat, "calls", n)
  OBVIOUS
<1>3. /\ rt \in Chats /\ rt.turns = chat.turns + 1 /\ rt.limit = chat.limit /\ rt.rollbacks = chat.rollbacks
  BY <1>1, <1>2, CallsHeard
<1>4. "semantic_query_budget" \in Verdicts /\ "semantic_query_budget" # Running
  BY DEF Verdicts, Running
<1>5. CASE MayRollBack(rt)
  <2>1. SemanticEnd(rt) = Turn(WithdrawCalls(rt), "semantic_query_budget")
    BY <1>5 DEF SemanticEnd
  <2>2. MayRollBack(chat)
    BY <1>3, <1>5 DEF MayRollBack
  <2>3. QED
    BY <1>2, <1>4, <2>1, <2>2, WithdrawnTurn
<1>6. CASE ~MayRollBack(rt)
  <2>1. PICK step \in StepCopies : step = [StepOf(rt) EXCEPT !.visible = RollbackLast(@, 1)]
    <3>1. PICK visible \in Seq(Messages) : visible = RollbackLast(rt.visible, 1)
      <4>1. rt.visible \in Seq(Messages)
        BY <1>3 DEF Chats, Conversations
      <4>2. QED
        BY <4>1, RollbackLastType
    <3>2. StepOf(rt) \in StepCopies /\ StepOf(rt).visible = rt.visible
      BY <1>3, ChatSteps
    <3>3. PICK copy : copy = StepOf(rt)
      OBVIOUS
    <3>4. [copy EXCEPT !.visible = visible] \in StepCopies
      BY <3>2, <3>3 DEF StepCopies
    <3>5. QED
      BY <3>1, <3>2, <3>3, <3>4
  <2>2. SemanticEnd(rt) = [Turn(rt, "semantic_query_budget") EXCEPT !.step.visible = RollbackLast(@, 1)]
    BY <1>6 DEF SemanticEnd
  <2>3. SemanticEnd(rt) =
          [chat |-> rt, step |-> step, used |-> usedQueries, calls |-> toolCalls, discard |-> discard,
           ending |-> "semantic_query_budget"]
    BY <2>1, <2>2 DEF Turn
  <2>4. chat.turns <= rt.turns /\ (InBudget(chat, Running) => InBudget(rt, "semantic_query_budget"))
    <3>1. chat.turns \in Nat /\ chat.limit \in Nat
      BY <1>1 DEF Chats
    <3>2. QED
      BY <1>3, <1>4, <3>1 DEF InBudget
  <2>5. QED
    BY <1>2, <1>3, <1>4, <2>3, <2>4, QuietTurn
<1>7. QED
  BY <1>2, <1>5, <1>6

\* Calls that were executed: the conversation is no longer than before, or longer by an
\* exchange that its turn pays for, however many of the calls were counted.
LEMMA ExecutedTurnOK ==
  ASSUME AttemptInv, verdict = Running, chat.stage # "force_final", NEW queries \in Requests,
         NEW execution, execution.counted \in Nat
  PROVE  TurnOK(ExecutedTurn(Hear(chat, "calls", CallCount(queries)), queries, execution))
<1>1. PICK n \in Nat \ {0} : n = CallCount(queries) /\ queries \subseteq Queries
  BY CallsCounted
<1>2. /\ chat \in Chats /\ usedQueries \in SUBSET Queries /\ toolCalls \in Nat
      /\ discard \in DiscardCounts /\ Open(chat)
      /\ (discard.resets = 0 \/ discard.lastAttempt) => InBudget(chat, Running)
      /\ discard.resets + Longer(chat) <= chat.turns + 1
  BY StandingParts
<1>3. PICK rt : rt = Hear(chat, "calls", n)
  OBVIOUS
<1>4. /\ rt \in Chats /\ rt.turns = chat.turns + 1 /\ Len(rt.visible) = Len(chat.visible) + 1
      /\ rt.limit = chat.limit /\ rt.skip = chat.skip /\ rt.rollbacks = chat.rollbacks
  BY <1>2, <1>3, CallsHeard
<1>5. chat.turns \in Nat /\ chat.limit \in Nat /\ discard.resets \in Nat /\ Running \in Verdicts
  BY <1>2 DEF Chats, DiscardCounts, Verdicts
<1>6. Len(rt.visible) > 2
  <2>1. Len(chat.visible) \in Nat /\ Len(chat.visible) >= 2
    BY <1>2 DEF Chats, Conversations, WithTask
  <2>2. QED
    BY <1>4, <2>1
<1>7. PICK calls \in Nat : calls = toolCalls + execution.counted
  BY <1>2
<1>8. PICK begun : begun = [chat |-> rt, step |-> StepOf(rt), used |-> usedQueries, calls |-> calls,
                            discard |-> discard, ending |-> Running]
  OBVIOUS
<1>9. [Turn(rt, Running) EXCEPT !.calls = @ + execution.counted] = begun
  BY <1>7, <1>8 DEF Turn
<1>10. \E c \in Chats, d \in DiscardCounts :
         /\ EnterLastAttempt(begun) = [chat |-> c, step |-> StepOf(rt), used |-> usedQueries, calls |-> calls,
                                        discard |-> d, ending |-> Running]
         /\ c.turns = rt.turns /\ c.visible = rt.visible /\ c.skip = rt.skip /\ c.rollbacks = rt.rollbacks
         /\ d.resets = discard.resets /\ (OutOfCalls(calls) => d.lastAttempt)
         /\ (d.resets = 0 \/ d.lastAttempt) => c.turns < c.limit
  <2>1. CASE OutOfCalls(calls) /\ ~discard.lastAttempt
    <3>1. PICK limit \in Nat : limit = rt.turns + MaxTurns /\ rt.turns < limit
      <4>1. rt.turns \in Nat /\ MaxTurns \in Nat \ {0}
        BY <1>4, <1>5, AttemptAssumption
      <4>2. QED
        BY <4>1
    <3>2. PICK c : c = [rt EXCEPT !.limit = limit]
      OBVIOUS
    <3>3. /\ c \in Chats /\ c.turns = rt.turns /\ c.visible = rt.visible /\ c.skip = rt.skip
          /\ c.rollbacks = rt.rollbacks /\ c.limit = limit
      BY <1>4, <3>2 DEF Chats
    <3>4. PICK d : d = [discard EXCEPT !.lastAttempt = TRUE]
      OBVIOUS
    <3>5. d \in DiscardCounts /\ d.resets = discard.resets /\ d.lastAttempt = TRUE
      BY <1>2, <3>4 DEF DiscardCounts
    <3>6. EnterLastAttempt(begun) = [chat |-> c, step |-> StepOf(rt), used |-> usedQueries, calls |-> calls,
                                        discard |-> d, ending |-> Running]
      <4>1. begun.calls = calls /\ begun.chat = rt /\ begun.discard = discard
        BY <1>8
      <4>2. EnterLastAttempt(begun) = [begun EXCEPT !.discard.lastAttempt = TRUE, !.chat.limit = rt.turns + MaxTurns]
        BY <2>1, <4>1 DEF EnterLastAttempt
      <4>3. [begun EXCEPT !.discard.lastAttempt = TRUE, !.chat.limit = rt.turns + MaxTurns] =
              [chat |-> c, step |-> StepOf(rt), used |-> usedQueries, calls |-> calls,
                                        discard |-> d, ending |-> Running]
        <5>1. PICK half : half = [begun EXCEPT !.discard.lastAttempt = TRUE]
          OBVIOUS
        <5>2. half = [chat |-> rt, step |-> StepOf(rt), used |-> usedQueries, calls |-> calls,
                      discard |-> d, ending |-> Running]
          BY <1>8, <3>4, <5>1
        <5>3. [half EXCEPT !.chat.limit = limit] =
                [chat |-> c, step |-> StepOf(rt), used |-> usedQueries, calls |-> calls,
                 discard |-> d, ending |-> Running]
          BY <3>2, <5>2
        <5>4. QED
          BY <3>1, <5>1, <5>3
      <4>4. QED
        BY <4>2, <4>3
    <3>7. c.turns < c.limit
      BY <3>1, <3>3
    <3>8. QED
      BY <3>3, <3>5, <3>6, <3>7
  <2>2. CASE ~(OutOfCalls(calls) /\ ~discard.lastAttempt)
    <3>1. begun.calls = calls /\ begun.chat = rt /\ begun.discard = discard
      BY <1>8
    <3>2. EnterLastAttempt(begun) = begun
      BY <2>2, <3>1 DEF EnterLastAttempt
    <3>4. (discard.resets = 0 \/ discard.lastAttempt) => rt.turns < rt.limit
      BY <1>2, <1>4, <1>5 DEF InBudget
    <3>5. OutOfCalls(calls) => discard.lastAttempt
      BY <2>2
    <3>6. QED
      BY <1>2, <1>4, <1>8, <3>2, <3>4, <3>5
  <2>3. QED
    BY <2>1, <2>2
<1>11. PICK c \in Chats, d \in DiscardCounts :
         /\ EnterLastAttempt(begun) = [chat |-> c, step |-> StepOf(rt), used |-> usedQueries, calls |-> calls,
                                        discard |-> d, ending |-> Running]
         /\ c.turns = rt.turns /\ c.visible = rt.visible /\ c.skip = rt.skip /\ c.rollbacks = rt.rollbacks
         /\ d.resets = discard.resets /\ (OutOfCalls(calls) => d.lastAttempt)
         /\ (d.resets = 0 \/ d.lastAttempt) => c.turns < c.limit
  BY <1>10
<1>12. PICK executed : executed = [chat |-> c, step |-> StepOf(rt), used |-> usedQueries, calls |-> calls,
                                   discard |-> d, ending |-> Running]
  OBVIOUS
<1>13. EnterLastAttempt(begun) = executed
  BY <1>8, <1>11, <1>12
<1>14. c.turns \in Nat /\ c.limit \in Nat /\ c.turns = chat.turns + 1
  BY <1>4, <1>11 DEF Chats
\* Whatever the conversation is afterwards, within these bounds.
<1>15. ASSUME NEW new \in Chats, NEW step \in StepCopies, NEW used \in SUBSET Queries,
              Open(new), step.visible = new.visible, new.skip = c.skip, new.limit = c.limit,
              new.turns \in Nat, Longer(new) + chat.turns <= Longer(chat) + new.turns,
              c.turns < c.limit => InBudget(new, Running)
       PROVE  TurnOK([chat |-> new, step |-> step, used |-> used, calls |-> calls, discard |-> d,
                      ending |-> Running])
  <2>1. PICK t : t = [chat |-> new, step |-> step, used |-> used, calls |-> calls, discard |-> d,
                      ending |-> Running]
    OBVIOUS
  <2>2. /\ t.chat = new /\ t.step = step /\ t.used = used /\ t.calls = calls /\ t.discard = d
        /\ t.ending = Running
    BY <2>1
  <2>3. t \in TurnsKept
    BY <1>5, <2>1 DEF TurnsKept
  <2>4. PICK longer \in 0..2 : longer = Longer(chat)
    BY LongerRange
  <2>5. PICK later \in 0..2 : later = Longer(new)
    BY LongerRange
  <2>6. later + chat.turns <= longer + new.turns
    BY <1>15, <2>4, <2>5
  <2>7. d.resets <= new.turns + 1 /\ d.resets + later <= new.turns + 1
    <3>1. d.resets \in Nat /\ d.resets + longer <= chat.turns + 1
      BY <1>2, <1>5, <1>11, <2>4
    <3>2. QED
      BY <1>5, <1>15, <2>6, <3>1
  <2>8. (d.resets = 0 \/ d.lastAttempt) => InBudget(new, Running)
    BY <1>11, <1>15
  <2>9. OutOfCalls(calls) => d.lastAttempt
    BY <1>11
  <2>10. TurnOK(t)
    BY <1>15, <2>2, <2>3, <2>5, <2>7, <2>8, <2>9 DEF TurnOK
  <2>11. QED
    BY <2>1, <2>10
<1>16. PICK withdrawn : withdrawn = WithdrawCalls(c)
  OBVIOUS
<1>17. PICK heard : heard = AnswerCalls(c, n, execution.outcome)
  OBVIOUS
<1>18. ExecutedTurn(rt, queries, execution) =
         IF execution.outcome = "failed" /\ MayRollBack(rt)
           THEN [executed EXCEPT !.chat = withdrawn, !.step = StepOf(withdrawn)]
           ELSE [executed EXCEPT !.chat = [heard EXCEPT !.rollbacks = 0], !.step = StepOf(heard),
                                 !.used = @ \cup queries]
  <2>1. executed.chat = c
    BY <1>12
  <2>2. QED
    BY <1>1, <1>9, <1>13, <1>16, <1>17, <2>1 DEF ExecutedTurn
<1>19. CASE execution.outcome = "failed" /\ MayRollBack(rt)
  <2>1. MayRollBack(c) /\ Len(c.visible) > 2
    BY <1>6, <1>11, <1>19 DEF MayRollBack
  <2>2. /\ withdrawn \in Chats /\ withdrawn.limit = c.limit /\ withdrawn.skip = c.skip
        /\ withdrawn.turns = (IF c.turns > 0 THEN c.turns - 1 ELSE 0)
        /\ Len(withdrawn.visible) = Len(c.visible) - 1
        /\ withdrawn.stage \in {"initial_user", "tool_messages"}
    BY <1>16, <2>1, CallsWithdrawn
  <2>3. withdrawn.turns \in Nat /\ Open(withdrawn) /\ (c.turns < c.limit => InBudget(withdrawn, Running))
    BY <1>5, <1>14, <2>2 DEF Open, InBudget
  <2>4. Longer(withdrawn) + chat.turns <= Longer(chat) + withdrawn.turns
    <3>1. withdrawn.turns = chat.turns /\ withdrawn.skip = chat.skip
      BY <1>4, <1>5, <1>11, <1>14, <2>2
    <3>2. Len(withdrawn.visible) = Len(chat.visible)
      <4>1. Len(chat.visible) \in Nat
        BY <1>2 DEF Chats, Conversations
      <4>2. QED
        BY <1>4, <1>11, <2>2, <4>1
    <3>3. Longer(withdrawn) = Longer(chat)
      BY <3>1, <3>2 DEF Longer
    <3>4. QED
      BY <1>5, <3>1, <3>3, LongerRange
  <2>5. PICK step \in StepCopies : step = StepOf(withdrawn) /\ step.visible = withdrawn.visible
    BY <2>2, ChatSteps
  <2>6. ExecutedTurn(rt, queries, execution) =
          [chat |-> withdrawn, step |-> step, used |-> usedQueries, calls |-> calls, discard |-> d,
           ending |-> Running]
    BY <1>12, <1>18, <1>19, <2>5
  <2>7. TurnOK([chat |-> withdrawn, step |-> step, used |-> usedQueries, calls |-> calls, discard |-> d,
                ending |-> Running])
    BY <1>2, <1>15, <2>2, <2>3, <2>5, <2>4
  <2>8. QED
    BY <1>1, <1>3, <2>6, <2>7
<1>20. CASE ~(execution.outcome = "failed" /\ MayRollBack(rt))
  <2>1. /\ heard \in Chats /\ SameBudget(c, heard) /\ Open(heard)
        /\ heard.stage # "force_final" => heard.turns + 1 # heard.limit
    BY <1>1, <1>17, CallsAnswered
  <2>2. PICK new : new = [heard EXCEPT !.rollbacks = 0]
    OBVIOUS
  <2>3. /\ new \in Chats /\ SameBudget(c, new) /\ new.stage = heard.stage /\ new.trigger = heard.trigger
        /\ new.visible = heard.visible
    <3>1. 0 \in 0..MaxAssistantRollbacks
      BY AttemptAssumption
    <3>2. QED
      BY <2>1, <2>2, <3>1 DEF Chats, SameBudget
  <2>4. /\ new.turns \in Nat /\ new.skip = c.skip /\ new.limit = c.limit /\ Open(new)
        /\ (c.turns < c.limit => InBudget(new, Running))
    BY <1>14, <2>1, <2>3 DEF SameBudget, Open, InBudget
  <2>5. Longer(new) + chat.turns <= Longer(chat) + new.turns
    <3>1. new.turns = chat.turns + 1 /\ new.skip = chat.skip
      BY <1>4, <1>11, <1>14, <2>3 DEF SameBudget
    <3>2. PICK longer \in 0..2, later \in 0..2 : longer = Longer(chat) /\ later = Longer(new)
      BY LongerRange
    <3>3. later <= longer + 1
      BY <3>1, <3>2 DEF Longer
    <3>4. QED
      BY <1>5, <3>1, <3>2, <3>3
  <2>6. PICK step \in StepCopies : step = StepOf(heard) /\ step.visible = heard.visible
    BY <2>1, ChatSteps
  <2>7. PICK used \in SUBSET Queries : used = usedQueries \cup queries
    BY <1>1, <1>2
  <2>8. ExecutedTurn(rt, queries, execution) =
          [chat |-> new, step |-> step, used |-> used, calls |-> calls, discard |-> d, ending |-> Running]
    BY <1>12, <1>18, <1>20, <2>2, <2>6, <2>7
  <2>9. TurnOK([chat |-> new, step |-> step, used |-> used, calls |-> calls, discard |-> d,
                ending |-> Running])
    BY <1>15, <2>3, <2>4, <2>6, <2>5
  <2>10. QED
    BY <1>1, <1>3, <2>8, <2>9
<1>21. QED
  BY <1>19, <1>20

\* The tool phase, whatever is done with the calls.
LEMMA ToolTurnOK ==
  ASSUME AttemptInv, verdict = Running, chat.stage # "force_final", NEW queries \in Requests,
         NEW execution, execution.counted \in Nat
  PROVE  TurnOK(ToolTurn(queries, execution))
<1>1. PICK n \in Nat : n = CallCount(queries)
  BY CallsCounted
<1>2. PICK rt : rt = Hear(chat, "calls", n)
  OBVIOUS
<1>3. ToolTurn(queries, execution) =
        IF RefuseDuplicate(rt, queries) THEN Turn(WithdrawCalls(rt), Running)
        ELSE IF OverSemanticBudget(queries) THEN SemanticEnd(rt)
        ELSE ExecutedTurn(rt, queries, execution)
  BY <1>1, <1>2 DEF ToolTurn
<1>4. CASE RefuseDuplicate(rt, queries)
  <2>1. chat \in Chats
    BY StandingParts
  <2>2. rt.rollbacks = chat.rollbacks
    BY <1>2, <2>1, CallsHeard
  <2>3. MayRollBack(chat) /\ Running \in Verdicts
    BY <1>4, <2>2 DEF RefuseDuplicate, MayRollBack, Verdicts
  <2>4. QED
    BY <1>2, <1>3, <1>4, <2>3, WithdrawnTurn
<1>5. CASE ~RefuseDuplicate(rt, queries) /\ OverSemanticBudget(queries)
  BY <1>2, <1>3, <1>5, SemanticEndOK
<1>6. CASE ~RefuseDuplicate(rt, queries) /\ ~OverSemanticBudget(queries)
  BY <1>1, <1>2, <1>3, <1>6, ExecutedTurnOK
<1>7. QED
  BY <1>4, <1>5, <1>6

-----------------------------------------------------------------------------
(***************************************************************************)
(* Between turns, and the passes of the loop.                              *)
(***************************************************************************)
LEMMA SummaryMade ==
  ASSUME NEW t, TurnOK(t), NEW succeeds
  PROVE  LET new == AfterSummary(t, succeeds)
         IN  TurnOK(new) /\ new.used = t.used /\ new.calls = t.calls /\ new.ending = t.ending
<1>1. CASE ~(SummaryDue(t) /\ succeeds /\ Summarizable(t))
  BY <1>1 DEF AfterSummary
<1>2. CASE SummaryDue(t) /\ succeeds /\ Summarizable(t)
  <2>1. t \in TurnsKept /\ t.chat \in Chats /\ t.step \in StepCopies /\ t.discard \in DiscardCounts /\ t.calls \in Nat
    BY DEF TurnOK, TurnsKept
  <2>2. t.ending = Running /\ Open(t.chat)
    BY <1>2 DEF SummaryDue, TurnOK
  <2>3. t.chat.visible \in Conversations /\ Len(t.chat.visible) \in Nat
    BY <2>1 DEF Chats, Conversations
  <2>4. PICK older \in 1..(Len(t.chat.visible) - 2) : older = OlderMessages(t.chat.visible)
    <3>1. OlderMessages(t.chat.visible) = Len(t.chat.visible) - 2 - RecentMessages
      BY PrefixIsConversation DEF OlderMessages
    <3>2. PICK i \in 3..(2 + OlderMessages(t.chat.visible)) : TRUE
      BY <1>2, PrefixIsConversation DEF Summarizable
    <3>3. RecentMessages \in Nat
      BY AttemptAssumption
    <3>4. OlderMessages(t.chat.visible) \in 1..(Len(t.chat.visible) - 2)
      <4>1. PICK kept \in Int : kept = OlderMessages(t.chat.visible)
        <5>1. PICK n \in Nat : n = Len(t.chat.visible)
          BY <2>3
        <5>2. n - 2 - RecentMessages \in Int
          BY <3>3
        <5>3. OlderMessages(t.chat.visible) = n - 2 - RecentMessages
          BY <3>1, <5>1
        <5>4. QED
          BY <5>2, <5>3
      <4>2. i \in 3..(2 + kept)
        BY <3>2, <4>1
      <4>3. QED
        BY <2>3, <3>1, <3>3, <4>1, <4>2
    <3>5. QED
      BY <3>4
  <2>5. PICK visible \in Conversations :
          visible = SpliceCompaction(t.chat.visible, Len(Prefix), OlderMessages(t.chat.visible))
    BY <2>3, <2>4, CompactedConversation
  <2>6. PICK rt : rt = [t.chat EXCEPT !.visible = visible]
    OBVIOUS
  <2>7. /\ rt \in Chats /\ SameBudget(t.chat, rt) /\ rt.stage = t.chat.stage /\ rt.trigger = t.chat.trigger
        /\ rt.visible = visible
    BY <2>1, <2>5, <2>6 DEF Chats, SameBudget
  <2>8. PICK step : step = [t.step EXCEPT !.visible = visible]
    OBVIOUS
  <2>9. step \in StepCopies /\ step.visible = visible
    <3>1. visible \in Seq(Messages)
      BY <2>5 DEF Conversations
    <3>2. QED
      BY <2>1, <2>8, <3>1 DEF StepCopies
  <2>10. PICK new : new = [t EXCEPT !.chat = rt, !.step = step]
    OBVIOUS
  <2>11. AfterSummary(t, succeeds) = new
    BY <1>2, <2>5, <2>6, <2>8, <2>10 DEF AfterSummary, Compacted
  <2>12. /\ new \in TurnsKept /\ new.chat = rt /\ new.step = step /\ new.discard = t.discard
         /\ new.used = t.used /\ new.calls = t.calls /\ new.ending = t.ending
    BY <2>1, <2>7, <2>9, <2>10 DEF TurnsKept
  <2>13. Open(rt) /\ (InBudget(t.chat, Running) => InBudget(rt, Running))
    BY <2>2, <2>7 DEF Open, InBudget, SameBudget
  <2>14. PICK before \in 0..2, after \in 0..2 : before = Longer(t.chat) /\ after = Longer(rt)
    BY LongerRange
  <2>15. after <= before
    BY <2>3, <2>4, <2>7, <2>14 DEF Longer, SameBudget
  <2>16. t.discard.resets + after <= rt.turns + 1 /\ t.discard.resets <= rt.turns + 1
    <3>1. /\ t.discard.resets \in Nat /\ t.discard.resets + before <= t.chat.turns + 1
          /\ t.chat.turns \in Nat /\ rt.turns = t.chat.turns
      BY <2>1, <2>2, <2>7, <2>14 DEF DiscardCounts, TurnOK, Chats, SameBudget
    <3>2. QED
      BY <2>1, <2>15, <3>1
  <2>17. TurnOK(new)
    BY <2>2, <2>7, <2>9, <2>12, <2>13, <2>14, <2>16 DEF TurnOK
  <2>18. QED
    BY <2>11, <2>12, <2>17
<1>3. QED
  BY <1>1, <1>2

\* Between turns: a summary, or the discard-all reset.
LEMMA AfterTurnOK ==
  ASSUME NEW t, TurnOK(t), NEW succeeds
  PROVE  LET new == AfterTurn(t, succeeds)
         IN  TurnOK(new) /\ new.used = t.used /\ new.calls = t.calls /\ new.ending = t.ending
<1>1. PICK compacted : compacted = AfterSummary(t, succeeds)
  OBVIOUS
<1>2. /\ TurnOK(compacted) /\ compacted.used = t.used /\ compacted.calls = t.calls
      /\ compacted.ending = t.ending
  BY <1>1, SummaryMade
<1>3. EnterLastAttempt(compacted) = compacted
  BY <1>2, LastAttemptEntered
<1>4. AfterTurn(t, succeeds) = AfterDiscard(compacted)
  BY <1>1, <1>3 DEF AfterTurn
<1>5. CASE AfterDiscard(compacted) = compacted
  BY <1>2, <1>4, <1>5
<1>6. CASE AfterDiscard(compacted) # compacted
  <2>1. AfterDiscard(compacted) = Reset(compacted) /\ compacted.ending = Running /\ ResetAllowed(compacted)
    BY <1>6 DEF AfterDiscard
  <2>2. /\ TurnOK(Reset(compacted)) /\ Reset(compacted).used = compacted.used
        /\ Reset(compacted).calls = compacted.calls /\ Reset(compacted).ending = compacted.ending
    BY <1>2, <2>1, ResetMade
  <2>3. QED
    BY <1>2, <1>4, <2>1, <2>2
<1>7. QED
  BY <1>5, <1>6

\* What the provider reports about the prompt changes no bound.
LEMMA ObservedOK ==
  ASSUME NEW t, TurnOK(t), NEW high \in BOOLEAN
  PROVE  TurnOK(Observed(t, high))
<1>1. t \in TurnsKept /\ t.discard \in DiscardCounts
  BY DEF TurnOK, TurnsKept
<1>2. PICK counts : counts = [t.discard EXCEPT !.high = high]
  OBVIOUS
<1>3. counts \in DiscardCounts /\ counts.resets = t.discard.resets /\ counts.lastAttempt = t.discard.lastAttempt
  BY <1>1, <1>2 DEF DiscardCounts
<1>4. PICK new : new = [t EXCEPT !.discard = counts]
  OBVIOUS
<1>5. Observed(t, high) = new
  BY <1>2, <1>4 DEF Observed
<1>6. /\ new \in TurnsKept /\ new.chat = t.chat /\ new.step = t.step /\ new.discard = counts
      /\ new.used = t.used /\ new.calls = t.calls /\ new.ending = t.ending
  BY <1>1, <1>3, <1>4 DEF TurnsKept
<1>7. TurnOK(new)
  BY <1>3, <1>6 DEF TurnOK
<1>8. QED
  BY <1>5, <1>7

LEMMA PassInv ==
  ASSUME AttemptInv, NEW turn, TurnOK(turn), Pass(turn), asked' \in Nat
  PROVE  AttemptInv'
<1>1. PICK succeeds : /\ verdict' = turn.ending /\ usedQueries' = turn.used /\ toolCalls' = turn.calls
                      /\ lastSummary' = (IF SummaryDue(turn) THEN turn.chat.turns ELSE lastSummary)
                      /\ chat' = AfterTurn(turn, succeeds).chat /\ loopStep' = AfterTurn(turn, succeeds).step
                      /\ discard' = AfterTurn(turn, succeeds).discard
                      /\ attemptPolicy' = attemptPolicy
  BY DEF Pass
<1>2. PICK after : after = AfterTurn(turn, succeeds)
  OBVIOUS
<1>3. TurnOK(after) /\ after.used = turn.used /\ after.calls = turn.calls /\ after.ending = turn.ending
  BY <1>2, AfterTurnOK
<1>4. after \in TurnsKept /\ turn \in TurnsKept
  BY <1>3 DEF TurnOK
<1>5. Standing' = after
  <2>1. Standing' = [chat |-> after.chat, step |-> after.step, used |-> after.used, calls |-> after.calls,
                     discard |-> after.discard, ending |-> after.ending]
    BY <1>1, <1>2, <1>3 DEF Standing
  <2>2. after = [chat |-> after.chat, step |-> after.step, used |-> after.used, calls |-> after.calls,
                 discard |-> after.discard, ending |-> after.ending]
    BY <1>4 DEF TurnsKept
  <2>3. QED
    BY <2>1, <2>2
<1>6. TurnOK(Standing)'
  BY <1>1, <1>3, <1>5 DEF TurnOK, OutOfCalls, Discards
<1>7. lastSummary' \in Nat
  <2>1. turn.chat \in Chats
    BY <1>4 DEF TurnsKept
  <2>2. turn.chat.turns \in Nat
    BY <2>1 DEF Chats
  <2>3. QED
    BY <1>1, <2>2 DEF AttemptInv
<1>8. QED
  BY <1>1, <1>6, <1>7 DEF AttemptInv

LEMMA AttemptInitInv == AttemptInit => AttemptInv
<1> SUFFICES ASSUME AttemptInit PROVE AttemptInv
  OBVIOUS
<1>1. PICK chosen \in AttemptPolicies :
        /\ attemptPolicy = chosen
        /\ chat = InitialChat(chosen.skip)
        /\ loopStep = StepOf(InitialChat(chosen.skip))
        /\ usedQueries = {}
        /\ toolCalls = 0
        /\ discard = [resets |-> 0, lastTurn |-> NeverReset, lastAttempt |-> FALSE, high |-> FALSE]
        /\ lastSummary = 0
        /\ asked = 0
        /\ verdict = Running
  BY DEF AttemptInit
<1>2. MaxTurns \in Nat \ {0} /\ MaxToolCalls \in Nat \ {0} /\ 0 \in 0..MaxAssistantRollbacks
  BY AttemptAssumption
<1>3. PICK fresh : fresh = [stage |-> "initial_user", turns |-> 0, limit |-> MaxTurns, rollbacks |-> 0,
                            trigger |-> NoTrigger, prompted |-> FALSE, skip |-> chosen.skip, visible |-> Prefix]
  OBVIOUS
<1>4. /\ fresh \in Chats /\ fresh.stage = "initial_user" /\ fresh.turns = 0 /\ fresh.limit = MaxTurns
      /\ fresh.visible = Prefix
  BY <1>1, <1>2, <1>3, StageNames, PrefixIsConversation DEF Chats, AttemptPolicies
<1>5. chat = AwaitModel(fresh)
  BY <1>1, <1>3 DEF InitialChat
<1>6. /\ chat \in Chats /\ SameBudget(fresh, chat)
      /\ IF fresh.turns + 1 = fresh.limit THEN chat.stage = "force_final" /\ chat.trigger = "turn_limit"
         ELSE chat = fresh
  BY <1>4, <1>5, ModelAwaited
<1>7. Open(chat) /\ InBudget(chat, Running)
  BY <1>2, <1>4, <1>6 DEF Open, InBudget, SameBudget, Triggers
<1>8. loopStep \in StepCopies /\ loopStep.visible = chat.visible
  BY <1>1, <1>6, ChatSteps
<1>9. Longer(chat) <= 1
  <2>1. CASE fresh.turns + 1 = fresh.limit
    <3>1. chat = ForceFinalRound(fresh, "turn_limit")
      BY <1>5, <2>1 DEF AwaitModel
    <3>2. fresh.skip = chosen.skip /\ chosen.skip \in BOOLEAN
      BY <1>3 DEF AttemptPolicies
    <3>3. chat.skip = fresh.skip
      BY <1>6 DEF SameBudget
    <3>4. CASE fresh.skip
      <4>1. chat.visible = Prefix
        BY <1>3, <3>1, <3>4 DEF ForceFinalRound, LimitTriggers
      <4>2. QED
        BY <3>3, <4>1, PrefixIsConversation DEF Longer
    <3>5. CASE ~fresh.skip
      BY <3>3, <3>5 DEF Longer
    <3>6. QED
      BY <3>4, <3>5
  <2>2. CASE fresh.turns + 1 # fresh.limit
    <3>1. chat = fresh
      BY <1>6, <2>2
    <3>2. chat.visible = Prefix
      BY <1>4, <3>1
    <3>3. QED
      BY <3>2, PrefixIsConversation DEF Longer
  <2>3. QED
    BY <2>1, <2>2
<1>10. discard \in DiscardCounts /\ discard.resets = 0
  BY <1>1 DEF DiscardCounts, NeverReset
<1>11. ~OutOfCalls(0)
  BY <1>2 DEF OutOfCalls
<1>12. Standing \in TurnsKept
  BY <1>1, <1>6, <1>8, <1>10 DEF Standing, TurnsKept, Verdicts
<1>13. TurnOK(Standing)
  <2>1. PICK t : t = Standing
    OBVIOUS
  <2>2. /\ t.chat = chat /\ t.step = loopStep /\ t.calls = 0 /\ t.discard = discard /\ t.ending = Running
    BY <1>1, <2>1 DEF Standing
  <2>3. PICK longer \in 0..1 : longer = Longer(chat)
    BY <1>9, LongerRange
  <2>4. chat.turns = 0
    BY <1>4, <1>6 DEF SameBudget
  <2>5. TurnOK(t)
    BY <1>7, <1>8, <1>10, <1>11, <1>12, <2>1, <2>2, <2>3, <2>4 DEF TurnOK
  <2>6. QED
    BY <2>1, <2>5
<1>14. QED
  BY <1>1, <1>13 DEF AttemptInv

\* One pass of the loop keeps the invariant.
LEMMA LoopPassInv ==
  ASSUME AttemptInv, LoopPass
  PROVE  AttemptInv'
<1>1. asked \in Nat /\ asked + 1 \in Nat
  BY DEF AttemptInv
<1>2. CASE GiveUpLooping
  <2>1. PICK ending : ending = "loop_safety_limit" /\ ending \in Verdicts /\ ending # Running
    BY DEF Verdicts, Running
  <2>2. verdict = Running /\ verdict' = ending
    BY <1>2, <2>1 DEF GiveUpLooping
  <2>3. TurnOK([Turn(chat, ending) EXCEPT !.step = loopStep])
    BY <2>1, <2>2, UnchangedTurn
  <2>4. Standing' = [Turn(chat, ending) EXCEPT !.step = loopStep]
    BY <1>2, <2>2 DEF GiveUpLooping, Standing, Turn
  <2>5. TurnOK(Standing)'
    BY <1>2, <2>3, <2>4 DEF GiveUpLooping, TurnOK, OutOfCalls, Discards
  <2>6. QED
    BY <1>2, <2>5 DEF GiveUpLooping, AttemptInv
<1>3. CASE SkipFinalRound
  <2>1. verdict = Running /\ SkipsFinalRound /\ Pass(SkippedTurn) /\ asked' = asked
    BY <1>3 DEF SkipFinalRound, CanLoop
  <2>2. TurnOK(SkippedTurn)
    BY <2>1, SkippedTurnOK
  <2>3. QED
    BY <1>1, <2>1, <2>2, PassInv
<1>4. ASSUME AskModel PROVE verdict = Running /\ asked' \in Nat
  BY <1>1, <1>4 DEF AskModel, CanLoop
<1>5. CASE ModelFailure
  <2>1. verdict = Running /\ asked' \in Nat /\ Pass(FailedTurn)
    BY <1>4, <1>5 DEF ModelFailure
  <2>2. QED
    BY <2>1, FailedTurnOK, PassInv
<1>6. CASE NoChoice
  <2>1. verdict = Running /\ asked' \in Nat /\ Pass(NoChoiceTurn)
    BY <1>4, <1>6 DEF NoChoice
  <2>2. QED
    BY <2>1, NoChoiceTurnOK, PassInv
<1>7. CASE ContextError
  <2>1. verdict = Running /\ asked' \in Nat /\ Pass(ContextErrorTurn)
    BY <1>4, <1>7 DEF ContextError
  <2>2. QED
    BY <2>1, ContextErrorTurnOK, PassInv
<1>8. CASE Truncation
  <2>1. verdict = Running /\ asked' \in Nat /\ Pass(TruncatedTurn)
    BY <1>4, <1>8 DEF Truncation
  <2>2. QED
    BY <2>1, TruncatedTurnOK, PassInv
<1>9. CASE EmptyReply
  <2>1. PICK high \in BOOLEAN : Pass(Observed(EmptyTurn, high))
    BY <1>9 DEF EmptyReply, Observations
  <2>2. verdict = Running /\ asked' \in Nat
    BY <1>4, <1>9 DEF EmptyReply
  <2>3. TurnOK(EmptyTurn)
    BY <2>2, FailedTurnOK
  <2>4. TurnOK(Observed(EmptyTurn, high))
    BY <2>3, ObservedOK
  <2>5. QED
    BY <2>1, <2>2, <2>4, PassInv
<1>10. CASE PlainReply
  <2>1. PICK reply \in {"text", "refusal", "calls"}, high \in BOOLEAN :
          /\ reply = "calls" => chat.stage = "force_final"
          /\ Pass(Observed(PlainTurn(reply), high))
    BY <1>10 DEF PlainReply, Observations
  <2>2. verdict = Running /\ asked' \in Nat
    BY <1>4, <1>10 DEF PlainReply
  <2>3. TurnOK(PlainTurn(reply))
    BY <2>1, <2>2, PlainTurnOK
  <2>4. TurnOK(Observed(PlainTurn(reply), high))
    BY <2>3, ObservedOK
  <2>5. QED
    BY <2>1, <2>2, <2>4, PassInv
<1>11. CASE ToolReply
  <2>1. PICK queries \in Requests, high \in BOOLEAN :
          \E execution \in Executions(queries) : Pass(Observed(ToolTurn(queries, execution), high))
    BY <1>11 DEF ToolReply, Observations
  <2>2. PICK execution \in Executions(queries) : Pass(Observed(ToolTurn(queries, execution), high))
    BY <2>1
  <2>3. execution.counted \in Nat
    <3>1. CallCount(queries) \in Nat
      BY CallsCounted
    <3>2. QED
      BY <3>1 DEF Executions
  <2>4. verdict = Running /\ asked' \in Nat /\ chat.stage # "force_final"
    BY <1>4, <1>11 DEF ToolReply
  <2>5. TurnOK(ToolTurn(queries, execution))
    BY <2>3, <2>4, ToolTurnOK
  <2>6. TurnOK(Observed(ToolTurn(queries, execution), high))
    BY <2>5, ObservedOK
  <2>7. QED
    BY <2>2, <2>4, <2>6, PassInv
<1>12. QED
  BY <1>2, <1>3, <1>5, <1>6, <1>7, <1>8, <1>9, <1>10, <1>11 DEF LoopPass

\* A branch lifts the silence of the attempt, which is what its prompt is paid with.
LEMMA BranchInv ==
  ASSUME AttemptInv, BranchFromFinalRound \/ BranchFromCheckpoint
  PROVE  AttemptInv'
<1>1. BecomeFinal
  BY DEF BranchFromFinalRound, BranchFromCheckpoint
<1>2. /\ verdict = Running /\ chat.skip
      /\ UNCHANGED <<usedQueries, toolCalls, discard, lastSummary, verdict>>
  BY <1>1 DEF BecomeFinal
<1>3. attemptPolicy' \in AttemptPolicies /\ attemptPolicy'.context = attemptPolicy.context
  <2>1. PICK recover \in BOOLEAN : attemptPolicy' = [attemptPolicy EXCEPT !.skip = FALSE, !.recover = recover]
    BY <1>1 DEF BecomeFinal
  <2>2. attemptPolicy \in AttemptPolicies
    BY DEF AttemptInv
  <2>3. QED
    BY <2>1, <2>2 DEF AttemptPolicies
<1>4. /\ chat \in Chats /\ loopStep \in StepCopies /\ Open(chat) /\ loopStep.visible = chat.visible
  BY <1>2, StandingParts
<1>5. asked' \in Nat /\ lastSummary' \in Nat
  BY <1>2 DEF BranchFromFinalRound, BranchFromCheckpoint, AttemptInv
<1>6. \E rt \in Chats, step \in StepCopies :
        /\ chat' = rt /\ loopStep' = step /\ step.visible = rt.visible
        /\ rt.stage = chat.stage /\ rt.trigger = chat.trigger /\ rt.turns = chat.turns /\ rt.limit = chat.limit
        /\ ~rt.skip
  <2>1. CASE BranchFromFinalRound
    <3>1. PICK m : m = Message("force_prompt", 0)
      OBVIOUS
    <3>2. m \in Messages /\ m.kind # "system"
      BY <3>1 DEF Message, Messages, MessageKinds
    <3>3. <<m>> \in Seq(Messages) /\ \A i \in 1..Len(<<m>>) : <<m>>[i].kind # "system"
      BY <3>2
    <3>4. chat.visible \in Conversations
      BY <1>4 DEF Chats
    <3>5. PICK visible \in Conversations : visible = chat.visible \o <<m>>
      BY <3>3, <3>4, LoggedConversation
    <3>6. PICK logged : logged = Logged(chat, <<m>>)
      OBVIOUS
    <3>7. logged = [chat EXCEPT !.visible = visible]
      BY <3>5, <3>6 DEF Logged
    <3>8. PICK rt : rt = [logged EXCEPT !.skip = FALSE, !.prompted = TRUE]
      OBVIOUS
    <3>9. chat' = rt
      BY <2>1, <3>1, <3>6, <3>8 DEF BranchFromFinalRound
    <3>10. /\ rt \in Chats /\ rt.visible = visible /\ rt.stage = chat.stage /\ rt.trigger = chat.trigger
           /\ rt.turns = chat.turns /\ rt.limit = chat.limit /\ ~rt.skip
      BY <1>4, <3>5, <3>7, <3>8 DEF Chats
    <3>11. PICK step : step = [loopStep EXCEPT !.visible = visible]
      OBVIOUS
    <3>12. step \in StepCopies /\ step.visible = visible
      <4>1. visible \in Seq(Messages)
        BY <3>5 DEF Conversations
      <4>2. QED
        BY <1>4, <3>11, <4>1 DEF StepCopies
    <3>13. loopStep' = step
      BY <2>1, <3>9, <3>10, <3>11 DEF BranchFromFinalRound
    <3>14. QED
      BY <3>9, <3>10, <3>12, <3>13
  <2>2. CASE BranchFromCheckpoint
    <3>1. PICK rt : rt = [chat EXCEPT !.skip = FALSE]
      OBVIOUS
    <3>2. chat' = rt /\ loopStep' = loopStep
      BY <2>2, <3>1 DEF BranchFromCheckpoint
    <3>3. /\ rt \in Chats /\ rt.visible = chat.visible /\ rt.stage = chat.stage /\ rt.trigger = chat.trigger
          /\ rt.turns = chat.turns /\ rt.limit = chat.limit /\ ~rt.skip
      BY <1>4, <3>1 DEF Chats
    <3>4. QED
      BY <1>4, <3>2, <3>3
  <2>3. QED
    BY <2>1, <2>2
<1>7. PICK rt \in Chats, step \in StepCopies :
        /\ chat' = rt /\ loopStep' = step /\ step.visible = rt.visible
        /\ rt.stage = chat.stage /\ rt.trigger = chat.trigger /\ rt.turns = chat.turns /\ rt.limit = chat.limit
        /\ ~rt.skip
  BY <1>6
<1>8. Open(rt) /\ (InBudget(chat, Running) => InBudget(rt, Running))
  BY <1>4, <1>7 DEF Open, InBudget
<1>9. Longer(rt) <= Longer(chat) /\ chat.turns <= rt.turns
  BY <1>2, <1>4, <1>7 DEF Longer, Chats
<1>10. TurnOK([chat |-> rt, step |-> step, used |-> usedQueries, calls |-> toolCalls, discard |-> discard,
               ending |-> Running])
  <2>1. Running \in Verdicts
    BY DEF Verdicts
  <2>2. QED
    BY <1>2, <1>7, <1>8, <1>9, <2>1, QuietTurn
<1>11. Standing' = [chat |-> rt, step |-> step, used |-> usedQueries, calls |-> toolCalls, discard |-> discard,
                    ending |-> Running]
  BY <1>2, <1>7 DEF Standing
<1>12. TurnOK(Standing)'
  BY <1>3, <1>10, <1>11 DEF TurnOK, OutOfCalls, Discards
<1>13. QED
  BY <1>3, <1>5, <1>12 DEF AttemptInv

LEMMA AttemptInvariant == AttemptSpec => []AttemptInv
<1>1. AttemptInit => AttemptInv
  BY AttemptInitInv
<1>2. AttemptInv /\ [AttemptNext]_attemptVars => AttemptInv'
  <2> SUFFICES ASSUME AttemptInv, [AttemptNext]_attemptVars PROVE AttemptInv'
    OBVIOUS
  <2>1. CASE BranchFromFinalRound \/ BranchFromCheckpoint
    BY <2>1, BranchInv
  <2>2. CASE LoopPass
    BY <2>2, LoopPassInv
  <2>3. CASE UNCHANGED attemptVars
    <3>1. Standing' = Standing
      BY <2>3 DEF attemptVars, Standing
    <3>2. QED
      BY <2>3, <3>1 DEF attemptVars, AttemptInv, TurnOK, OutOfCalls, Discards
  <2>4. QED
    BY <2>1, <2>2, <2>3 DEF AttemptNext
<1>3. QED
  BY <1>1, <1>2, PTL DEF AttemptSpec

\* TaskSurvives for every limit, context policy and set of queries: whatever is reset, dropped,
\* summarized or withdrawn, the conversation begins with the system prompt and the task, and
\* the loop's copy of it is the runtime's (_apply_discard_all_reset, _handle_model_error,
\* _maybe_apply_context_compression, _apply_duplicate_query_rollback).
THEOREM TaskAlwaysSurvives == AttemptSpec => []TaskSurvives
<1>1. AttemptInv => TaskSurvives
  <2> SUFFICES ASSUME AttemptInv PROVE TaskSurvives
    OBVIOUS
  <2>1. PICK t : t = Standing
    OBVIOUS
  <2>2. t.chat = chat /\ t.step = loopStep /\ t.ending = verdict
    BY <2>1 DEF Standing
  <2>3. TurnOK(t) /\ t \in TurnsKept
    BY <2>1 DEF AttemptInv, TurnOK
  <2>4. verdict = Running => loopStep.visible = chat.visible
    BY <2>2, <2>3 DEF TurnOK
  <2>5. chat.visible \in Conversations
    <3>1. t.chat \in Chats
      BY <2>3 DEF TurnsKept
    <3>2. QED
      BY <2>2, <3>1 DEF Chats
  <2>6. IsPrefix(Prefix, chat.visible)
    <3>1. PICK v : v = chat.visible
      OBVIOUS
    <3>2. /\ v \in Seq(Messages) /\ Len(v) \in Nat /\ Len(v) >= 2
          /\ v[1] = SystemMessage /\ v[2] = TaskMessage
      BY <2>5, <3>1 DEF Conversations, WithTask
    <3>3. PICK head : head = SubSeq(v, 1, 2)
      OBVIOUS
    <3>4. head \in Seq(Messages) /\ Len(head) = 2 /\ head[1] = SystemMessage /\ head[2] = TaskMessage
      BY <3>2, <3>3
    <3>5. PICK start : start = SubSeq(Prefix, 1, 2)
      OBVIOUS
    <3>6. start \in Seq(Messages) /\ Len(start) = 2 /\ start[1] = SystemMessage /\ start[2] = TaskMessage
      <4>1. PICK p : p = Prefix
        OBVIOUS
      <4>2. p \in Seq(Messages) /\ Len(p) >= 2 /\ p[1] = SystemMessage /\ p[2] = TaskMessage /\ Len(p) = 2
        BY <4>1, PrefixIsConversation DEF Conversations, WithTask
      <4>3. QED
        BY <3>5, <4>1, <4>2
    <3>7. start = head
      BY <3>4, <3>6
    <3>8. QED
      BY <3>1, <3>2, <3>3, <3>5, <3>7, PrefixIsConversation DEF IsPrefix
  <2>7. QED
    BY <2>4, <2>6 DEF TaskSurvives
<1>2. QED
  BY <1>1, AttemptInvariant, PTL

\* AttemptBounded for every configuration: the limit in force is kept until the first reset
\* and in the last attempt, and every reset but one is paid for with a turn of its own
\* (_maybe_apply_discard_all, _maybe_enter_discard_all_last_attempt).
THEOREM AttemptAlwaysBounded == AttemptSpec => []AttemptBounded
<1>1. AttemptInv => AttemptBounded
  <2> SUFFICES ASSUME AttemptInv PROVE AttemptBounded
    OBVIOUS
  <2>1. PICK t : t = Standing
    OBVIOUS
  <2>2. t.chat = chat /\ t.discard = discard
    BY <2>1 DEF Standing
  <2>3. TurnOK(t)
    BY <2>1 DEF AttemptInv
  <2>4. QED
    BY <2>2, <2>3 DEF TurnOK, InBudget, AttemptBounded
<1>2. QED
  BY <1>1, AttemptInvariant, PTL

-----------------------------------------------------------------------------
(***************************************************************************)
(* A series of attempts. Budgets are answered from the smallest on: those  *)
(* below the attempt in hand have their answer, the others wait for the    *)
(* answer that is being verified or for the next attempt. Where nothing is *)
(* asked twice and no summary is kept, the answer a sweep falls back on is *)
(* the one run would have.                                                 *)
(***************************************************************************)
Boxes == Answers \cup {NoAnswer}
Outputs == Answers \cup {FormatError}

RetryTypeOK ==
  /\ options \in [sweep : BOOLEAN, verifies : BOOLEAN, summarizes : BOOLEAN, asksAgain : BOOLEAN]
  /\ phase \in {"attempt", "prepare", "finalize", "verify", "reanswer", "advance", "returned"}
  /\ attempt \in Budgets
  /\ result \in [reason : Reasons \cup {"none"}, output : Outputs, boxed : Boxes, recovered : BOOLEAN]
  /\ branched \in BOOLEAN /\ settled \in BOOLEAN /\ noBox \in Nat
  /\ boxed \in Boxes /\ summary \in Boxes /\ ownSummary \in Boxes
  /\ goal \in SUBSET Budgets
  /\ check \in [answer : Outputs \cup {NoAnswer}, used : Nat, passed : BOOLEAN]
  /\ submitted \in [Budgets -> Outputs \cup {Unset}]
  /\ returned \in [Budgets -> Outputs \cup {Unset}]
  /\ plain \in Outputs \cup {Unset}

Verifying == phase \in {"verify", "reanswer"}
Decided == phase \in {"finalize", "verify", "reanswer", "advance"}

\* Budgets are answered from the smallest on: those below the attempt in hand have their
\* answer, the others wait for the answer that is being verified, or for the next attempt.
SettledWhenFinal ==
  /\ Decided => (IsFinal => settled)
  /\ phase = "finalize" => (settled => IsFinal) /\ options.sweep

Waiting ==
  phase \in {"attempt", "prepare", "finalize", "verify", "reanswer"} =>
    \A b \in Budgets : /\ b >= attempt => returned[b] = Unset
                       /\ options.sweep /\ b < attempt => returned[b] # Unset

GoalInHand ==
  Verifying =>
    /\ Valid(check.answer)
    /\ \A b \in goal : b >= attempt
    /\ attempt \in goal \/ ~options.sweep
    /\ settled => MaxAttempts \in goal /\ (options.sweep => attempt..MaxAttempts \subseteq goal)
    /\ ~settled => goal = {attempt} /\ options.sweep

AnsweredSoFar ==
  phase = "advance" =>
    /\ \A b \in Budgets : options.sweep /\ (b <= attempt \/ settled) => returned[b] # Unset
    /\ settled => returned[MaxAttempts] # Unset
    /\ ~settled => options.sweep /\ \A b \in Budgets : b > attempt => returned[b] = Unset

AllAnswered == phase = "returned" => \A b \in Budgets : options.sweep \/ b = MaxAttempts => returned[b] # Unset

ValidKept == \A b \in Budgets : Valid(submitted[b]) /\ returned[b] # Unset => Valid(returned[b])

BudgetsInTurn == SettledWhenFinal /\ Waiting /\ GoalInHand /\ AnsweredSoFar /\ AllAnswered /\ ValidKept

\* Where nothing is asked twice and no summary kept, the series has what run would have.
KeepsToRun ==
  ~options.summarizes /\ ~options.asksAgain =>
    /\ summary = NoAnswer /\ ownSummary = NoAnswer
    /\ IsFinal => ~branched
    /\ phase = "finalize" /\ IsFinal => plain = Fallback(result.output, NoAnswer)
    /\ Decided /\ ~settled /\ Capped(noBox) => plain = result.output
    /\ (Verifying \/ phase = "advance") /\ settled => submitted[MaxAttempts] = plain
    /\ phase = "returned" => submitted[MaxAttempts] = plain

RetryInv == RetryTypeOK /\ BudgetsInTurn /\ KeepsToRun

-----------------------------------------------------------------------------
\* The invariant is enough for both properties of a series.
LEMMA RetrySafe == RetryInv => BudgetsAnswered /\ PlainSweepReproducesRun
  BY DEF RetryInv, BudgetsInTurn, AllAnswered, ValidKept, KeepsToRun, BudgetsAnswered, PlainSweepReproducesRun, SweepReproducesRun, RetryTypeOK

LEMMA RetryStarts == RetryInit => RetryInv
  <1> SUFFICES ASSUME RetryInit PROVE RetryInv
    OBVIOUS
  <1>1. 1 \in Budgets /\ MaxAttempts \in Budgets
    BY RetryAssumption DEF Budgets
  <1>2. RetryTypeOK
    BY <1>1 DEF RetryInit, RetryTypeOK, NoOutcome, Outputs, Boxes
  <1>3. BudgetsInTurn
    BY RetryAssumption DEF RetryInit, BudgetsInTurn, SettledWhenFinal, Waiting, GoalInHand, AnsweredSoFar, AllAnswered,
       ValidKept, Decided, Verifying, Valid, Unset, Budgets
  <1>4. KeepsToRun
    BY DEF RetryInit, KeepsToRun, Decided, Verifying
  <1> QED BY <1>2, <1>3, <1>4 DEF RetryInv

-----------------------------------------------------------------------------
(***************************************************************************)
(* The building blocks.                                                    *)
(***************************************************************************)
LEMMA RenewalBoxes ==
  ASSUME NEW old \in Boxes, NEW new \in Renewals(old)
  PROVE  new \in Boxes /\ (~options.summarizes => new = old)
  <1>1. RescuedAnswers \subseteq Boxes
    <2>1. ASSUME NEW first \in Candidates, NEW second \in Candidates PROVE Rescued(first, second) \in Boxes
      BY DEF Rescued, Candidates, Boxes
    <2> QED BY <2>1 DEF RescuedAnswers
  <1> QED BY <1>1 DEF Renewals

\* What the end of an attempt makes of its output: the output itself, a format error
\* where it was rejected, or, in a last attempt that asks again, another answer.
LEMMA PreparedOutput ==
  ASSUME NEW o, o.output \in Outputs, NEW final \in BOOLEAN, NEW output \in PreparedOutputs(o, final)
  PROVE  /\ output \in Outputs
         /\ Rejected(o, final) => output = FormatError
         /\ ~Rejected(o, final) /\ (~final \/ ~options.asksAgain) => output = o.output
  BY DEF PreparedOutputs, FinalRetries, Outputs

\* What is fallen back on is an output, too.
LEMMA FallbackOutput ==
  ASSUME NEW output \in Outputs, NEW fromSummary
  PROVE  Fallback(output, fromSummary) \in Outputs
  BY DEF Fallback, Valid, Outputs

\* An answer that is submitted for budgets waiting for theirs: it answers them, now or
\* after a verification, and leaves the others as they were.
LEMMA SubmitKeeps ==
  ASSUME RetryTypeOK, NEW output \in Outputs, NEW bs \in SUBSET Budgets, Submit(output, bs),
         \A b \in bs : returned[b] = Unset, ValidKept
  PROVE  /\ phase' \in {"verify", "advance"}
         /\ goal' = bs
         /\ check' \in [answer : Outputs \cup {NoAnswer}, used : Nat, passed : BOOLEAN]
         /\ submitted' \in [Budgets -> Outputs \cup {Unset}]
         /\ returned' \in [Budgets -> Outputs \cup {Unset}]
         /\ \A b \in bs : submitted'[b] = output
         /\ \A b \in Budgets : b \notin bs => returned'[b] = returned[b] /\ submitted'[b] = submitted[b]
         /\ phase' = "verify" => Valid(check'.answer) /\ returned' = returned
         /\ phase' = "advance" => \A b \in bs : returned'[b] = output
  <1>1. /\ goal' = bs
        /\ submitted' = [b \in Budgets |-> IF b \in bs THEN output ELSE submitted[b]]
        /\ check' = [answer |-> output, used |-> 0, passed |-> FALSE]
        /\ \/ phase' = "verify" /\ Valid(output) /\ returned' = returned
           \/ phase' = "advance" /\ returned' = [b \in Budgets |-> IF b \in bs THEN output ELSE returned[b]]
    BY DEF Submit
  <1>2. /\ submitted \in [Budgets -> Outputs \cup {Unset}]
        /\ returned \in [Budgets -> Outputs \cup {Unset}]
    BY DEF RetryTypeOK
  <1>3. check' \in [answer : Outputs \cup {NoAnswer}, used : Nat, passed : BOOLEAN] /\ check'.answer = output
    BY <1>1
  <1>4. /\ submitted' \in [Budgets -> Outputs \cup {Unset}]
        /\ \A b \in bs : submitted'[b] = output
        /\ \A b \in Budgets : b \notin bs => submitted'[b] = submitted[b]
    BY <1>1, <1>2
  <1>5. CASE phase' = "verify" /\ Valid(output) /\ returned' = returned
    BY <1>1, <1>2, <1>3, <1>4, <1>5
  <1>6. CASE phase' = "advance" /\ returned' = [b \in Budgets |-> IF b \in bs THEN output ELSE returned[b]]
    <2>1. /\ returned' \in [Budgets -> Outputs \cup {Unset}]
          /\ \A b \in bs : returned'[b] = output
          /\ \A b \in Budgets : b \notin bs => returned'[b] = returned[b]
      BY <1>2, <1>6
    <2> QED BY <1>1, <1>3, <1>4, <1>6, <2>1
  <1> QED BY <1>1, <1>5, <1>6

\* The marks for "no answer" are no answers.
LEMMA Sentinels == FormatError \notin Answers /\ NoAnswer \notin Answers /\ Unset \notin Answers /\ Unset \notin Outputs
  BY RetryAssumption DEF FormatError, NoAnswer, Unset, Outputs

\* It keeps the budgets in turn when the goal is what the attempt is there for.
LEMMA SubmitInTurn ==
  ASSUME RetryTypeOK, NEW output \in Outputs, NEW bs \in SUBSET Budgets, Submit(output, bs), ValidKept,
         \A b \in Budgets : b >= attempt => returned[b] = Unset,
         \A b \in Budgets : options.sweep /\ b < attempt => returned[b] # Unset,
         \A b \in bs : b >= attempt,
         attempt \in bs \/ ~options.sweep,
         UNCHANGED <<options, attempt>>, IsFinal => settled',
         settled' => MaxAttempts \in bs /\ (options.sweep => attempt..MaxAttempts \subseteq bs),
         ~settled' => bs = {attempt} /\ options.sweep
  PROVE  BudgetsInTurn'
  <1>1. /\ attempt \in 1..MaxAttempts /\ MaxAttempts \in Nat /\ attempt' = attempt /\ options' = options
        /\ \A b \in bs : b \in Budgets /\ returned[b] = Unset
        /\ \A b \in Budgets : b \in 1..MaxAttempts
    BY RetryAssumption DEF RetryTypeOK, Budgets
  <1>2. /\ phase' \in {"verify", "advance"}
        /\ goal' = bs
        /\ \A b \in bs : submitted'[b] = output
        /\ \A b \in Budgets : b \notin bs => returned'[b] = returned[b] /\ submitted'[b] = submitted[b]
        /\ phase' = "verify" => Valid(check'.answer) /\ returned' = returned
        /\ phase' = "advance" => \A b \in bs : returned'[b] = output
    BY <1>1, SubmitKeeps
  <1>3. output # Unset
    BY Sentinels
  <1>4. SettledWhenFinal'
    BY <1>1, <1>2 DEF SettledWhenFinal, IsFinal
  <1>5. Waiting'
    <2>1. CASE phase' = "verify"
      BY <1>1, <1>2, <2>1 DEF Waiting, Budgets
    <2>2. CASE phase' = "advance"
      BY <2>2 DEF Waiting
    <2> QED BY <1>2, <2>1, <2>2
  <1>6. GoalInHand'
    BY <1>1, <1>2 DEF GoalInHand, Verifying
  <1>7. AnsweredSoFar'
    <2> SUFFICES ASSUME phase' = "advance" PROVE AnsweredSoFar'
      BY DEF AnsweredSoFar
    <2>1. \A b \in bs : returned'[b] # Unset
      BY <1>2, <1>3
    <2>2. \A b \in Budgets : b \notin bs => returned'[b] = returned[b]
      BY <1>2
    <2>3. ASSUME NEW b \in Budgets, options.sweep, b <= attempt \/ settled' PROVE returned'[b] # Unset
      <3>1. CASE b \in bs
        BY <2>1, <3>1
      <3>2. CASE b \notin bs
        <4>1. b < attempt
          BY <1>1, <2>3, <3>2
        <4> QED BY <2>2, <2>3, <3>2, <4>1
      <3> QED BY <3>1, <3>2
    <2>4. ASSUME ~settled', NEW b \in Budgets, b > attempt PROVE returned'[b] = Unset
      BY <1>1, <2>2, <2>4
    <2> QED BY <1>1, <2>1, <2>3, <2>4 DEF AnsweredSoFar, Budgets
  <1>8. AllAnswered'
    BY <1>2 DEF AllAnswered
  <1>9. ValidKept'
    <2> SUFFICES ASSUME NEW b \in Budgets, Valid(submitted'[b]), returned'[b] # Unset
                 PROVE  Valid(returned'[b])
      BY DEF ValidKept, Valid, Budgets
    <2>1. CASE b \in bs
      BY <1>1, <1>2, <2>1
    <2>2. CASE b \notin bs
      BY <1>2, <2>2 DEF ValidKept
    <2> QED BY <2>1, <2>2
  <1> QED BY <1>4, <1>5, <1>6, <1>7, <1>8, <1>9 DEF BudgetsInTurn

\* Answers that are returned as they are, to the budgets that have none.
LEMMA ReturnKeeps ==
  ASSUME RetryTypeOK, NEW output \in Outputs, NEW bs \in SUBSET Budgets, Return(output, bs), ValidKept,
         \A b \in Budgets : options.sweep \/ b = MaxAttempts => b \in bs \/ returned[b] # Unset,
         UNCHANGED options
  PROVE  /\ phase' = "returned" /\ goal' = bs /\ check' = check
         /\ submitted' \in [Budgets -> Outputs \cup {Unset}]
         /\ returned' \in [Budgets -> Outputs \cup {Unset}]
         /\ \A b \in bs : submitted'[b] = output
         /\ BudgetsInTurn'
  <1>1. /\ phase' = "returned" /\ goal' = bs /\ check' = check
        /\ submitted' = [b \in Budgets |-> IF b \in bs THEN output ELSE submitted[b]]
        /\ returned' = [b \in Budgets |-> IF b \in bs THEN output ELSE returned[b]]
        /\ submitted \in [Budgets -> Outputs \cup {Unset}]
        /\ returned \in [Budgets -> Outputs \cup {Unset}]
    BY DEF Return, RetryTypeOK
  <1>2. output # Unset
    BY Sentinels
  <1>3. AllAnswered'
    BY <1>1, <1>2 DEF AllAnswered, Budgets
  <1>4. ValidKept'
    BY <1>1 DEF ValidKept, Valid, Budgets
  <1>5. SettledWhenFinal' /\ Waiting' /\ GoalInHand' /\ AnsweredSoFar'
    BY <1>1 DEF SettledWhenFinal, Waiting, GoalInHand, AnsweredSoFar, Decided, Verifying
  <1>6. /\ submitted' \in [Budgets -> Outputs \cup {Unset}]
        /\ returned' \in [Budgets -> Outputs \cup {Unset}]
        /\ \A b \in bs : submitted'[b] = output
    BY <1>1
  <1> QED BY <1>1, <1>3, <1>4, <1>5, <1>6 DEF BudgetsInTurn

-----------------------------------------------------------------------------
(***************************************************************************)
(* The steps.                                                              *)
(***************************************************************************)
LEMMA RunAttemptKeeps ==
  ASSUME RetryInv, RunAttempt
  PROVE  RetryInv'
  <1> USE DEF RetryInv
  <1>1. PICK o \in Outcomes, renewed \in Renewals(summary) :
          \E b \in IF MayBranch(o) THEN BOOLEAN ELSE {FALSE} :
            /\ result' = o /\ boxed' = o.boxed /\ branched' = b
            /\ ownSummary' = IF renewed # summary THEN renewed ELSE ownSummary
            /\ summary' \in IF b THEN Renewals(renewed) ELSE {renewed}
    BY DEF RunAttempt
  <1>2. PICK b \in IF MayBranch(o) THEN BOOLEAN ELSE {FALSE} :
            /\ result' = o /\ boxed' = o.boxed /\ branched' = b
            /\ ownSummary' = IF renewed # summary THEN renewed ELSE ownSummary
            /\ summary' \in IF b THEN Renewals(renewed) ELSE {renewed}
    BY <1>1
  <1>3. renewed \in Boxes /\ (~options.summarizes => renewed = summary)
    BY RenewalBoxes DEF RetryTypeOK
  <1>4. summary' \in Boxes /\ (~options.summarizes => summary' = summary)
    BY <1>2, <1>3, RenewalBoxes
  <1>5. ownSummary' \in Boxes /\ (~options.summarizes => ownSummary' = ownSummary)
    BY <1>2, <1>3 DEF RetryTypeOK
  <1>6. o \in [reason : Reasons, output : Outputs, boxed : Boxes, recovered : BOOLEAN] /\ o.boxed \in Boxes
    BY DEF Outcomes, Outputs, Boxes
  <1>7. phase = "attempt" /\ phase' = "prepare"
        /\ UNCHANGED <<options, attempt, settled, noBox, plain, goal, check, submitted, returned>>
    BY DEF RunAttempt, resultVars
  <1>8. b \in BOOLEAN /\ (IsFinal => ~b)
    BY <1>2 DEF MayBranch
  <1>9. RetryTypeOK'
    BY <1>2, <1>4, <1>5, <1>6, <1>7, <1>8 DEF RetryTypeOK
  <1>10. BudgetsInTurn'
    BY <1>7 DEF BudgetsInTurn, SettledWhenFinal, Waiting, GoalInHand, AnsweredSoFar, AllAnswered, ValidKept,
                Budgets, Valid, Decided, Verifying, IsFinal
  <1>11. KeepsToRun'
    BY <1>2, <1>4, <1>5, <1>7, <1>8 DEF KeepsToRun, Decided, Verifying, IsFinal
  <1> QED BY <1>9, <1>10, <1>11

\* An attempt that is prepared settles its budgets, or leaves them waiting.
LEMMA PrepareKeeps ==
  ASSUME RetryInv, Prepare
  PROVE  RetryInv'
  <1> USE DEF RetryInv
  <1>1. PICK output \in PreparedOutputs(result, IsFinal) :
       LET count == NextNoBox(result, output)
           here == IF Rejected(result, IsFinal) THEN result ELSE [result EXCEPT !.output = output]
       IN  /\ settled' = (Valid(output) \/ IsFinal)
           /\ noBox' = count
           /\ plain' = RunAnswer(output, count)
           /\ \/ /\ Valid(output)
                 /\ Submit(output, BudgetsServed)
                 /\ Stay(here)
              \/ /\ ~Valid(output) /\ options.sweep
                 /\ phase' = "finalize"
                 /\ Stay(here)
                 /\ UNCHANGED resultVars
              \/ /\ ~Valid(output) /\ ~options.sweep /\ IsFinal
                 /\ Submit(Fallback(output, summary), {MaxAttempts})
                 /\ Stay(here)
              \/ /\ ~Valid(output) /\ ~options.sweep /\ Capped(count)
                 /\ Return(result.output, {MaxAttempts})
                 /\ Stay(here)
              \/ /\ ~Valid(output) /\ ~options.sweep /\ ~IsFinal /\ ~Capped(count)
                 /\ NextAttempt
                 /\ UNCHANGED resultVars
    BY DEF Prepare
  <1> DEFINE count == NextNoBox(result, output)
             here == IF Rejected(result, IsFinal) THEN result ELSE [result EXCEPT !.output = output]
  <1>2. /\ phase = "prepare"
        /\ UNCHANGED <<options, summary, ownSummary>>
    BY DEF Prepare
  <1>3. /\ attempt \in 1..MaxAttempts /\ MaxAttempts \in Nat /\ attempt \in Nat
        /\ result.output \in Outputs /\ IsFinal \in BOOLEAN
    BY RetryAssumption DEF RetryTypeOK, Budgets, IsFinal
  <1>4. /\ output \in Outputs
        /\ Rejected(result, IsFinal) => output = FormatError
        /\ ~Rejected(result, IsFinal) /\ (~IsFinal \/ ~options.asksAgain) => output = result.output
        /\ IsFinal => ~Rejected(result, IsFinal)
    BY <1>3, PreparedOutput DEF Rejected
  <1>5. count \in Nat
    BY DEF NextNoBox, RetryTypeOK
  <1>6. /\ here \in [reason : Reasons \cup {"none"}, output : Outputs, boxed : Boxes, recovered : BOOLEAN]
        /\ here.output = IF Rejected(result, IsFinal) THEN result.output ELSE output
    BY <1>4 DEF RetryTypeOK
  <1>7. /\ \A b \in Budgets : b >= attempt => returned[b] = Unset
        /\ \A b \in Budgets : options.sweep /\ b < attempt => returned[b] # Unset
        /\ ValidKept
    BY <1>2 DEF BudgetsInTurn, Waiting
  <1>8. /\ settled' = (Valid(output) \/ IsFinal) /\ noBox' = count /\ plain' = RunAnswer(output, count)
    BY <1>1
  <1>9. MaxAttempts \in Budgets /\ {MaxAttempts} \in SUBSET Budgets /\ BudgetsServed \in SUBSET Budgets
        /\ attempt \in Budgets
    BY <1>3 DEF Budgets, BudgetsServed
  <1>10. /\ MaxAttempts \in BudgetsServed /\ \A b \in BudgetsServed : b >= attempt
         /\ options.sweep => BudgetsServed = attempt..MaxAttempts
         /\ attempt \in BudgetsServed \/ ~options.sweep
    BY <1>3 DEF BudgetsServed
  <1>11. RunAnswer(output, count) \in Outputs \cup {Unset}
    BY <1>3, <1>4, FallbackOutput DEF RunAnswer, RetryTypeOK
  <1>12. /\ plain' \in Outputs \cup {Unset} /\ settled' \in BOOLEAN /\ noBox' \in Nat
         /\ summary' \in Boxes /\ ownSummary' \in Boxes
         /\ options' \in [sweep : BOOLEAN, verifies : BOOLEAN, summarizes : BOOLEAN, asksAgain : BOOLEAN]
    BY <1>2, <1>5, <1>8, <1>11 DEF RetryTypeOK
  <1>13. ASSUME Stay(here)
         PROVE  /\ UNCHANGED <<attempt, boxed, branched>> /\ result' = here
                /\ attempt' \in Budgets /\ branched' \in BOOLEAN /\ boxed' \in Boxes
                /\ result' \in [reason : Reasons \cup {"none"}, output : Outputs, boxed : Boxes, recovered : BOOLEAN]
    BY <1>6, <1>13 DEF Stay, RetryTypeOK
  <1>14. ~options.summarizes /\ ~options.asksAgain =>
           summary' = NoAnswer /\ ownSummary' = NoAnswer /\ summary = NoAnswer /\ ownSummary = NoAnswer
           /\ (IsFinal => ~branched)
    BY <1>2 DEF KeepsToRun
  <1> HIDE DEF count, here
  <1>15. CASE Valid(output) /\ Submit(output, BudgetsServed) /\ Stay(here)
    <2>1. \A b \in BudgetsServed : returned[b] = Unset
      BY <1>7, <1>9, <1>10
    <2>2. plain' = output
      BY <1>8, <1>15 DEF RunAnswer
    <2>3. /\ phase' \in {"verify", "advance"}
          /\ goal' = BudgetsServed
          /\ check' \in [answer : Outputs \cup {NoAnswer}, used : Nat, passed : BOOLEAN]
          /\ submitted' \in [Budgets -> Outputs \cup {Unset}]
          /\ returned' \in [Budgets -> Outputs \cup {Unset}]
          /\ submitted'[MaxAttempts] = output
      BY <1>4, <1>7, <1>9, <1>10, <1>15, <2>1, SubmitKeeps
    <2>4. settled' = TRUE
      BY <1>8, <1>15
    <2>5. RetryTypeOK'
      BY <1>9, <1>12, <1>13, <1>15, <2>3 DEF RetryTypeOK, Budgets, Outputs, Boxes, Reasons
    <2>6. BudgetsInTurn'
      BY <1>2, <1>4, <1>7, <1>9, <1>10, <1>13, <1>15, <2>4, SubmitInTurn
    <2>7. KeepsToRun'
      BY <1>2, <1>13, <1>14, <1>15, <2>2, <2>3, <2>4 DEF KeepsToRun, Decided, Verifying, IsFinal
    <2> QED BY <2>5, <2>6, <2>7
  <1>16. CASE ~Valid(output) /\ options.sweep /\ phase' = "finalize" /\ Stay(here) /\ UNCHANGED resultVars
    <2>1. UNCHANGED <<attempt, boxed, branched, goal, check, submitted, returned>> /\ result' = here
      BY <1>13, <1>16 DEF resultVars
    <2>2. RetryTypeOK'
      BY <1>12, <1>13, <1>16, <2>1 DEF RetryTypeOK, Budgets, Outputs, Boxes, Reasons
    <2>3. SettledWhenFinal' /\ GoalInHand' /\ AnsweredSoFar' /\ AllAnswered'
      BY <1>2, <1>8, <1>16, <2>1
         DEF SettledWhenFinal, GoalInHand, AnsweredSoFar, AllAnswered, Decided, Verifying, IsFinal
    <2>4. Waiting' /\ ValidKept'
      BY <1>2, <1>7, <2>1 DEF Waiting, ValidKept, Budgets, Valid
    <2>5. BudgetsInTurn'
      BY <2>3, <2>4 DEF BudgetsInTurn
    <2>6. KeepsToRun'
      <3> SUFFICES ASSUME ~options.summarizes, ~options.asksAgain PROVE KeepsToRun'
        BY <1>2 DEF KeepsToRun
      <3>1. result'.output = result.output
        BY <1>4, <1>6, <2>1
      <3>2. IsFinal => RunAnswer(output, count) = Fallback(result.output, NoAnswer)
        <4> SUFFICES ASSUME IsFinal PROVE RunAnswer(output, count) = Fallback(result.output, NoAnswer)
          OBVIOUS
        <4>1. output = result.output /\ ownSummary = NoAnswer
          BY <1>4, <1>14
        <4>2. RunAnswer(output, count) = Fallback(output, ownSummary)
          BY <1>16 DEF RunAnswer
        <4> QED BY <4>1, <4>2
      <3>3. ~IsFinal /\ Capped(count) => plain' = result.output
        BY <1>8, <1>16 DEF RunAnswer
      <3>4. Fallback(result.output, NoAnswer)' = Fallback(result.output, NoAnswer)
        BY <2>1, <3>1 DEF Fallback, Valid
      <3>5. IsFinal' = IsFinal /\ Capped(noBox)' = Capped(count)
        BY <1>8, <2>1 DEF IsFinal, Capped
      <3>6. (IsFinal => plain = Fallback(result.output, NoAnswer))'
        BY <1>8, <3>2, <3>4, <3>5
      <3>7. (~settled /\ Capped(noBox) => plain = result.output)'
        <4>1. Capped(noBox)' => ~IsFinal /\ Capped(count)
          BY <3>5 DEF Capped
        <4> QED BY <3>1, <3>3, <4>1
      <3>8. (summary = NoAnswer /\ ownSummary = NoAnswer /\ (IsFinal => ~branched))'
        BY <1>14, <2>1, <3>5
      <3> QED BY <1>16, <3>6, <3>7, <3>8 DEF KeepsToRun, Decided, Verifying
    <2> QED BY <2>2, <2>5, <2>6
  <1>17. CASE ~Valid(output) /\ ~options.sweep /\ IsFinal /\ Submit(Fallback(output, summary), {MaxAttempts}) /\ Stay(here)
    <2>1. \A b \in {MaxAttempts} : returned[b] = Unset
      BY <1>3, <1>7, <1>9
    <2>2. plain' = Fallback(output, ownSummary)
      BY <1>8, <1>17 DEF RunAnswer
    <2>3. Fallback(output, summary) \in Outputs
      BY <1>4, FallbackOutput
    <2>4. /\ phase' \in {"verify", "advance"}
          /\ goal' = {MaxAttempts}
          /\ check' \in [answer : Outputs \cup {NoAnswer}, used : Nat, passed : BOOLEAN]
          /\ submitted' \in [Budgets -> Outputs \cup {Unset}]
          /\ returned' \in [Budgets -> Outputs \cup {Unset}]
          /\ submitted'[MaxAttempts] = Fallback(output, summary)
      BY <1>7, <1>9, <1>17, <2>1, <2>3, SubmitKeeps
    <2>5. settled' = TRUE
      BY <1>8, <1>17
    <2>6. RetryTypeOK'
      BY <1>9, <1>12, <1>13, <1>17, <2>4 DEF RetryTypeOK, Budgets, Outputs, Boxes, Reasons
    <2>7. BudgetsInTurn'
      BY <1>2, <1>3, <1>7, <1>9, <1>13, <1>17, <2>3, <2>5, SubmitInTurn
    <2>8. KeepsToRun'
      BY <1>2, <1>13, <1>14, <1>17, <2>2, <2>4, <2>5 DEF KeepsToRun, Decided, Verifying, IsFinal
    <2> QED BY <2>6, <2>7, <2>8
  <1>18. CASE ~Valid(output) /\ ~options.sweep /\ Capped(count) /\ Return(result.output, {MaxAttempts}) /\ Stay(here)
    <2>1. ~IsFinal /\ plain' = result.output
      BY <1>8, <1>18 DEF RunAnswer, Capped
    <2>2. /\ phase' = "returned" /\ goal' = {MaxAttempts} /\ check' = check
          /\ submitted' \in [Budgets -> Outputs \cup {Unset}]
          /\ returned' \in [Budgets -> Outputs \cup {Unset}]
          /\ submitted'[MaxAttempts] = result.output
          /\ BudgetsInTurn'
      BY <1>2, <1>3, <1>7, <1>9, <1>18, ReturnKeeps
    <2>3. RetryTypeOK'
      BY <1>9, <1>12, <1>13, <1>18, <2>2 DEF RetryTypeOK, Budgets, Outputs, Boxes, Reasons
    <2>4. KeepsToRun'
      BY <1>2, <1>13, <1>14, <1>18, <2>1, <2>2 DEF KeepsToRun, Decided, Verifying, IsFinal
    <2> QED BY <2>2, <2>3, <2>4
  <1>19. CASE ~Valid(output) /\ ~options.sweep /\ ~IsFinal /\ NextAttempt /\ UNCHANGED resultVars
    <2>1. /\ UNCHANGED <<goal, check, submitted, returned>> /\ attempt' = attempt + 1 /\ attempt + 1 \in Budgets
          /\ phase' = "attempt" /\ result' = NoOutcome /\ boxed' = NoAnswer /\ branched' = FALSE
      BY <1>3, <1>19 DEF NextAttempt, resultVars, IsFinal, Budgets
    <2>2. RetryTypeOK'
      BY <1>12, <2>1 DEF RetryTypeOK, NoOutcome, Outputs, Boxes
    <2>3. SettledWhenFinal' /\ GoalInHand' /\ AnsweredSoFar' /\ AllAnswered'
      BY <2>1 DEF SettledWhenFinal, GoalInHand, AnsweredSoFar, AllAnswered, Decided, Verifying
    <2>4. ValidKept'
      BY <1>7, <2>1 DEF ValidKept, Budgets, Valid
    <2>5. Waiting'
      BY <1>2, <1>3, <1>7, <1>19, <2>1 DEF Waiting, Budgets
    <2>6. KeepsToRun'
      BY <1>2, <1>14, <2>1 DEF KeepsToRun, Decided, Verifying
    <2> QED BY <2>2, <2>3, <2>4, <2>5, <2>6 DEF BudgetsInTurn
  <1> QED BY <1>1, <1>15, <1>16, <1>17, <1>18, <1>19 DEF count, here

\* The answer of a budget that has no attempt left is that of the attempt in hand.
LEMMA FinalizeKeeps ==
  ASSUME RetryInv, FinalizeBudget
  PROVE  RetryInv'
  <1> USE DEF RetryInv
  <1>1. PICK source \in FinalSources : \E output \in PreparedOutputs(source, TRUE) : FinalizeFrom(source, output)
    BY DEF FinalizeBudget
  <1>2. PICK output \in PreparedOutputs(source, TRUE) : FinalizeFrom(source, output)
    BY <1>1
  <1>3. source.output \in Outputs
    BY DEF FinalSources, Outcomes, RetryTypeOK, Outputs
  <1>4. output \in Outputs /\ (~options.asksAgain => output = source.output)
    BY <1>3, PreparedOutput DEF Rejected
  <1>5. /\ phase = "finalize" /\ Submit(Fallback(output, summary), {attempt})
        /\ UNCHANGED <<options, attempt, result, branched, boxed, summary, ownSummary, settled, noBox, plain>>
    BY <1>2 DEF FinalizeFrom
  <1>6. Fallback(output, summary) \in Outputs /\ {attempt} \in SUBSET Budgets /\ attempt \in Budgets
    BY <1>4, FallbackOutput DEF RetryTypeOK
  <1>7. attempt \in 1..MaxAttempts /\ MaxAttempts \in Nat
    BY RetryAssumption DEF RetryTypeOK, Budgets
  <1>8. /\ \A b \in Budgets : b >= attempt => returned[b] = Unset
        /\ \A b \in Budgets : options.sweep /\ b < attempt => returned[b] # Unset
        /\ ValidKept
    BY <1>5 DEF BudgetsInTurn, Waiting
  <1>9. options.sweep /\ (settled <=> IsFinal)
    BY <1>5 DEF BudgetsInTurn, SettledWhenFinal, Decided
  <1>10. /\ phase' \in {"verify", "advance"}
         /\ goal' = {attempt}
         /\ check' \in [answer : Outputs \cup {NoAnswer}, used : Nat, passed : BOOLEAN]
         /\ submitted' \in [Budgets -> Outputs \cup {Unset}]
         /\ returned' \in [Budgets -> Outputs \cup {Unset}]
         /\ submitted'[attempt] = Fallback(output, summary)
    BY <1>5, <1>6, <1>7, <1>8, SubmitKeeps
  <1>11. RetryTypeOK'
    BY <1>5, <1>6, <1>10 DEF RetryTypeOK, Budgets, Outputs, Boxes, Reasons
  <1>12. BudgetsInTurn'
    <2>1. /\ \A b \in {attempt} : b >= attempt
          /\ attempt \in {attempt}
          /\ settled' => MaxAttempts \in {attempt} /\ attempt..MaxAttempts \subseteq {attempt}
          /\ IsFinal => settled'
      BY <1>5, <1>7, <1>9 DEF IsFinal
    <2> QED BY <1>5, <1>6, <1>8, <1>9, <2>1, SubmitInTurn
  <1>13. KeepsToRun'
    <2> SUFFICES ASSUME ~options.summarizes, ~options.asksAgain PROVE KeepsToRun'
      BY <1>5 DEF KeepsToRun
    <2>1. settled => submitted'[MaxAttempts] = plain
      <3> SUFFICES ASSUME settled PROVE submitted'[MaxAttempts] = plain
        OBVIOUS
      <3>1. IsFinal /\ ~branched /\ summary = NoAnswer /\ plain = Fallback(result.output, NoAnswer)
        BY <1>5, <1>9 DEF KeepsToRun
      <3>2. source = result /\ output = result.output
        BY <1>4, <3>1 DEF FinalSources
      <3> QED BY <1>10, <3>1, <3>2 DEF IsFinal
    <2>2. summary' = NoAnswer /\ ownSummary' = NoAnswer /\ (IsFinal => ~branched)
      BY <1>5 DEF KeepsToRun
    <2>3. ~settled /\ Capped(noBox) => plain = result.output
      BY <1>5 DEF KeepsToRun, Decided
    <2>4. IsFinal' = IsFinal /\ Capped(noBox)' = Capped(noBox)
      BY <1>5 DEF IsFinal, Capped
    <2> QED BY <1>5, <1>10, <2>1, <2>2, <2>3, <2>4 DEF KeepsToRun, Decided, Verifying
  <1> QED BY <1>11, <1>12, <1>13

\* The next attempt serves the budgets that still wait.
LEMMA AdvanceKeeps ==
  ASSUME RetryInv, Advance
  PROVE  RetryInv'
  <1> USE DEF RetryInv
  <1>1. phase = "advance" /\ UNCHANGED <<options, summary, ownSummary, settled, noBox, plain>>
    BY DEF Advance
  <1>2. attempt \in 1..MaxAttempts /\ MaxAttempts \in Nat /\ MaxAttempts \in Budgets
    BY RetryAssumption DEF RetryTypeOK, Budgets
  <1>3. /\ ValidKept
        /\ \A b \in Budgets : options.sweep /\ (b <= attempt \/ settled) => returned[b] # Unset
        /\ settled => returned[MaxAttempts] # Unset
        /\ ~settled => options.sweep /\ \A b \in Budgets : b > attempt => returned[b] = Unset
    BY <1>1 DEF BudgetsInTurn, AnsweredSoFar
  <1>4. ~options.summarizes /\ ~options.asksAgain =>
          /\ summary = NoAnswer /\ ownSummary = NoAnswer /\ (IsFinal => ~branched)
          /\ ~settled /\ Capped(noBox) => plain = result.output
          /\ settled => submitted[MaxAttempts] = plain
    BY <1>1 DEF KeepsToRun, Decided
  <1>5. CASE settled /\ phase' = "returned" /\ Stay(result) /\ UNCHANGED resultVars
    <2>1. UNCHANGED <<result, attempt, boxed, branched, goal, check, submitted, returned>>
      BY <1>5 DEF Stay, resultVars
    <2>2. RetryTypeOK'
      BY <1>1, <1>5, <2>1 DEF RetryTypeOK, Budgets, Outputs, Boxes, Reasons
    <2>3. SettledWhenFinal' /\ Waiting' /\ GoalInHand' /\ AnsweredSoFar'
      BY <1>5 DEF SettledWhenFinal, Waiting, GoalInHand, AnsweredSoFar, Decided, Verifying
    <2>4. AllAnswered' /\ ValidKept'
      BY <1>1, <1>3, <1>5, <2>1 DEF AllAnswered, ValidKept, Budgets, Valid
    <2>5. KeepsToRun'
      BY <1>1, <1>4, <1>5, <2>1 DEF KeepsToRun, Decided, Verifying, IsFinal
    <2> QED BY <2>2, <2>3, <2>4, <2>5 DEF BudgetsInTurn
  <1>6. CASE ~settled /\ Capped(noBox) /\ Return(result.output, (attempt + 1)..MaxAttempts) /\ Stay(result)
    <2>1. UNCHANGED <<result, attempt, boxed, branched>>
      BY <1>6 DEF Stay
    <2>2. (attempt + 1)..MaxAttempts \in SUBSET Budgets /\ MaxAttempts \in (attempt + 1)..MaxAttempts
      BY <1>2, <1>6 DEF Budgets, Capped, IsFinal
    <2>3. \A b \in Budgets : b \in (attempt + 1)..MaxAttempts \/ returned[b] # Unset
      BY <1>2, <1>3, <1>6 DEF Budgets
    <2>4. result.output \in Outputs
      BY DEF RetryTypeOK
    <2>5. /\ phase' = "returned" /\ goal' = (attempt + 1)..MaxAttempts /\ check' = check
          /\ submitted' \in [Budgets -> Outputs \cup {Unset}]
          /\ returned' \in [Budgets -> Outputs \cup {Unset}]
          /\ submitted'[MaxAttempts] = result.output
          /\ BudgetsInTurn'
      BY <1>1, <1>3, <1>6, <2>2, <2>3, <2>4, ReturnKeeps
    <2>6. RetryTypeOK'
      BY <1>1, <2>1, <2>2, <2>5 DEF RetryTypeOK, Budgets, Outputs, Boxes, Reasons
    <2>7. KeepsToRun'
      BY <1>1, <1>4, <1>6, <2>1, <2>5 DEF KeepsToRun, Decided, Verifying, IsFinal
    <2> QED BY <2>5, <2>6, <2>7
  <1>7. CASE ~settled /\ NextAttempt /\ UNCHANGED resultVars
    <2>1. ~IsFinal
      BY <1>1, <1>7 DEF BudgetsInTurn, SettledWhenFinal, Decided
    <2>2. /\ UNCHANGED <<goal, check, submitted, returned>> /\ attempt' = attempt + 1 /\ attempt + 1 \in Budgets
          /\ phase' = "attempt" /\ result' = NoOutcome /\ boxed' = NoAnswer /\ branched' = FALSE
      BY <1>2, <1>7, <2>1 DEF NextAttempt, resultVars, IsFinal, Budgets
    <2>3. RetryTypeOK'
      BY <1>1, <2>2 DEF RetryTypeOK, NoOutcome, Outputs, Boxes
    <2>4. SettledWhenFinal' /\ GoalInHand' /\ AnsweredSoFar' /\ AllAnswered'
      BY <2>2 DEF SettledWhenFinal, GoalInHand, AnsweredSoFar, AllAnswered, Decided, Verifying
    <2>5. ValidKept'
      BY <1>3, <2>2 DEF ValidKept, Budgets, Valid
    <2>6. Waiting'
      BY <1>1, <1>2, <1>3, <1>7, <2>2 DEF Waiting, Budgets
    <2>7. KeepsToRun'
      BY <1>1, <1>4, <2>2 DEF KeepsToRun, Decided, Verifying
    <2> QED BY <2>3, <2>4, <2>5, <2>6, <2>7 DEF BudgetsInTurn
  <1> QED BY <1>5, <1>6, <1>7 DEF Advance

\* A verification that goes on, with another valid answer at most, or that is over.
LEMMA VerificationKeeps ==
  ASSUME RetryInv, Verifying, UNCHANGED auxiliaryUnchanged, summary' \in Renewals(summary),
         NEW answer \in Answers, NEW used \in Nat,
         (\E next \in {"verify", "reanswer"} : Continue(answer, used, next)) \/ (\E passed \in BOOLEAN : Conclude(answer, used, passed))
  PROVE  RetryInv'
  <1> USE DEF RetryInv
  <1>1. UNCHANGED <<options, attempt, result, branched, boxed, ownSummary, settled, noBox, goal, submitted, plain>>
    BY DEF auxiliaryUnchanged
  <1>2. summary' \in Boxes /\ (~options.summarizes => summary' = summary)
    BY RenewalBoxes DEF RetryTypeOK
  <1>3. attempt \in 1..MaxAttempts /\ MaxAttempts \in Nat /\ MaxAttempts \in Budgets
    BY RetryAssumption DEF RetryTypeOK, Budgets
  <1>4. /\ \A b \in goal : b >= attempt /\ b \in Budgets
        /\ attempt \in goal \/ ~options.sweep
        /\ settled => MaxAttempts \in goal /\ (options.sweep => attempt..MaxAttempts \subseteq goal)
        /\ ~settled => goal = {attempt} /\ options.sweep
    BY DEF BudgetsInTurn, GoalInHand, RetryTypeOK
  <1>5. /\ \A b \in Budgets : b >= attempt => returned[b] = Unset
        /\ \A b \in Budgets : options.sweep /\ b < attempt => returned[b] # Unset
        /\ ValidKept /\ (IsFinal => settled)
    BY DEF BudgetsInTurn, Waiting, SettledWhenFinal, Verifying, Decided
  <1>6. ~options.summarizes /\ ~options.asksAgain =>
          /\ summary = NoAnswer /\ ownSummary = NoAnswer /\ (IsFinal => ~branched)
          /\ ~settled /\ Capped(noBox) => plain = result.output
          /\ settled => submitted[MaxAttempts] = plain
    BY DEF KeepsToRun, Decided, Verifying
  <1>7. IsFinal' = IsFinal /\ Capped(noBox)' = Capped(noBox)
    BY <1>1 DEF IsFinal, Capped
  <1>8. CASE \E next \in {"verify", "reanswer"} : Continue(answer, used, next)
    <2>1. /\ phase' \in {"verify", "reanswer"} /\ UNCHANGED returned
          /\ check' \in [answer : Answers, used : Nat, passed : BOOLEAN] /\ Valid(check'.answer)
      BY <1>8 DEF Continue, Valid
    <2>2. RetryTypeOK'
      BY <1>1, <1>2, <2>1 DEF RetryTypeOK, Budgets, Outputs, Boxes, Reasons
    <2>3. SettledWhenFinal' /\ AnsweredSoFar' /\ AllAnswered' /\ GoalInHand'
      BY <1>1, <1>4, <1>5, <1>7, <2>1 DEF SettledWhenFinal, AnsweredSoFar, AllAnswered, GoalInHand, Verifying
    <2>4. Waiting' /\ ValidKept'
      BY <1>1, <1>5, <2>1 DEF Waiting, ValidKept, Budgets, Valid
    <2>5. KeepsToRun'
      BY <1>1, <1>2, <1>6, <1>7, <2>1 DEF KeepsToRun, Decided, Verifying
    <2> QED BY <2>2, <2>3, <2>4, <2>5 DEF BudgetsInTurn
  <1>9. CASE \E passed \in BOOLEAN : Conclude(answer, used, passed)
    <2>1. /\ phase' = "advance" /\ returned' = [b \in Budgets |-> IF b \in goal THEN answer ELSE returned[b]]
          /\ check' \in [answer : Answers, used : Nat, passed : BOOLEAN]
      BY <1>9 DEF Conclude
    <2>2. RetryTypeOK'
      BY <1>1, <1>2, <2>1 DEF RetryTypeOK, Budgets, Outputs, Boxes, Reasons
    <2>3. SettledWhenFinal' /\ Waiting' /\ AllAnswered' /\ GoalInHand'
      BY <1>5, <1>1, <1>7, <2>1 DEF SettledWhenFinal, Waiting, AllAnswered, GoalInHand, Verifying
    <2>4. /\ \A b \in goal : returned'[b] = answer
          /\ \A b \in Budgets : b \notin goal => returned'[b] = returned[b]
          /\ answer # Unset /\ Valid(answer)
      BY <1>4, <2>1, Sentinels DEF Valid
    <2>5. ValidKept'
      <3> SUFFICES ASSUME NEW b \in Budgets, Valid(submitted[b]), returned'[b] # Unset PROVE Valid(returned'[b])
        BY <1>1 DEF ValidKept, Budgets, Valid
      <3> QED BY <1>5, <2>4 DEF ValidKept
    <2>6. AnsweredSoFar'
      <3>1. ASSUME NEW b \in Budgets, options.sweep, b <= attempt \/ settled PROVE returned'[b] # Unset
        BY <1>3, <1>4, <1>5, <2>4, <3>1 DEF Budgets
      <3>2. ASSUME ~settled, NEW b \in Budgets, b > attempt PROVE returned'[b] = Unset
        BY <1>3, <1>4, <1>5, <2>4, <3>2 DEF Budgets
      <3> QED BY <1>1, <1>4, <2>4, <3>1, <3>2 DEF AnsweredSoFar, Budgets
    <2>7. KeepsToRun'
      BY <1>1, <1>2, <1>6, <1>7, <2>1 DEF KeepsToRun, Decided, Verifying
    <2> QED BY <2>2, <2>3, <2>5, <2>6, <2>7 DEF BudgetsInTurn
  <1> QED BY <1>8, <1>9

LEMMA VerifyKeeps ==
  ASSUME RetryInv, Verify
  PROVE  RetryInv'
  <1>1. Verifying /\ check.answer \in Answers /\ check.used \in Nat
    BY DEF Verify, Verifying, RetryInv, BudgetsInTurn, GoalInHand, RetryTypeOK, Valid
  <1>2. /\ UNCHANGED auxiliaryUnchanged /\ summary' \in Renewals(summary)
        /\ \/ \E passed \in BOOLEAN : Conclude(check.answer, check.used, passed)
           \/ Continue(check.answer, check.used + 1, "reanswer")
    BY DEF Verify
  <1> QED BY <1>1, <1>2, VerificationKeeps

LEMMA ReanswerKeeps ==
  ASSUME RetryInv, Reanswer
  PROVE  RetryInv'
  <1>1. Verifying /\ check.answer \in Answers /\ check.used \in Nat
    BY DEF Reanswer, Verifying, RetryInv, BudgetsInTurn, GoalInHand, RetryTypeOK, Valid
  <1>2. PICK output \in Answers \cup {FormatError} :
       \/ check.used < MaxReanswers /\ Continue(AfterReanswer(output), check.used, "verify")
       \/ check.used >= MaxReanswers /\ Conclude(AfterReanswer(output), check.used, FALSE)
    BY DEF Reanswer
  <1>3. AfterReanswer(output) \in Answers
    BY <1>1 DEF AfterReanswer, Valid
  <1>4. UNCHANGED auxiliaryUnchanged /\ summary' \in Renewals(summary)
    BY DEF Reanswer
  <1> QED BY <1>1, <1>2, <1>3, <1>4, VerificationKeeps

LEMMA RetrySteps == RetryInv /\ [RetryNext]_retryVars => RetryInv'
  <1> SUFFICES ASSUME RetryInv, [RetryNext]_retryVars PROVE RetryInv'
    OBVIOUS
  <1>1. CASE RetryNext
    BY <1>1, RunAttemptKeeps, PrepareKeeps, FinalizeKeeps, AdvanceKeeps, VerifyKeeps, ReanswerKeeps DEF RetryNext
  <1>2. CASE UNCHANGED retryVars
    BY <1>2 DEF retryVars, RetryInv, RetryTypeOK, BudgetsInTurn, KeepsToRun, Decided, Verifying, IsFinal, Capped, Fallback,
                SettledWhenFinal, Waiting, GoalInHand, AnsweredSoFar, AllAnswered, ValidKept, Budgets, Valid, Outputs, Boxes,
                Reasons
  <1> QED BY <1>1, <1>2

LEMMA RetryInvariant == RetrySpec => []RetryInv
  BY RetryStarts, RetrySteps, PTL DEF RetrySpec

\* BudgetsAnswered for every number of attempts and every set of answers: when a series
\* returns, each budget it was to answer has its answer, and no valid one was replaced by
\* one that is not (run, run_attempt_budget_sweep, _maybe_apply_self_verification).
THEOREM EveryBudgetAnswered == RetrySpec => []BudgetsAnswered
  <1>1. RetryInv => BudgetsAnswered
    BY RetrySafe
  <1> QED BY <1>1, RetryInvariant, PTL

\* PlainSweepReproducesRun for every number of attempts and every set of answers: where
\* nothing is asked twice and no summary is kept, a sweep (run_attempt_budget_sweep) answers
\* its largest budget as run would have.
THEOREM SeriesAnswersAsRun == RetrySpec => []PlainSweepReproducesRun
  <1>1. RetryInv => PlainSweepReproducesRun
    BY RetrySafe
  <1> QED BY <1>1, RetryInvariant, PTL

-----------------------------------------------------------------------------
(***************************************************************************)
(* A search. The ladder of wider queries gives up one of at most three     *)
(* things at each rung.                                                    *)
(***************************************************************************)
\* How much of a query the ladder can still give up.
Losses(q) == (IF q.quoted THEN 1 ELSE 0) + (IF q.site = "path" THEN 2 ELSE IF q.site = "domain" THEN 1 ELSE 0)

SearchTypeOK ==
  /\ search \in {"idle", "requesting", "found", "shown", "failed"}
  /\ bounded \in BOOLEAN
  /\ form \in Forms \cup {NoForm} /\ request \in 0..MaxSearchAttempts
  /\ cards \in SUBSET Kinds
  /\ answered \in Seq([form : Forms, requests : 0..MaxSearchAttempts, cards : SUBSET Kinds])

\* Each answered form was given up for want of cards, for one that says less.
Widened == \A n \in 1..Len(answered) - 1 : answered[n].cards = {} /\ Weaker(answered[n + 1].form, answered[n].form)

Asking ==
  search = "requesting" =>
    /\ form \in Forms /\ Len(answered) + Losses(form) <= 3
    /\ answered # <<>> => answered[Len(answered)].cards = {} /\ Weaker(form, answered[Len(answered)].form)

Answered ==
  search \in {"found", "shown"} =>
    /\ form \in Forms /\ Len(answered) + Losses(form) <= 4
    /\ answered # <<>> /\ answered[Len(answered)].cards = cards /\ answered[Len(answered)].form = form
    /\ "banned" \notin cards /\ (bounded => "late" \notin cards)
    /\ search = "shown" => cards # {} \/ Wider(form) = {}

SearchInv ==
  SearchTypeOK /\ Widened /\ Asking /\ Answered /\ (search = "idle" => answered = <<>>) /\ Len(answered) <= 4

\* The parts of a form of the query.
LEMMA FormParts ==
  ASSUME NEW q \in Forms
  PROVE  /\ q = [quoted |-> q.quoted, site |-> q.site, words |-> q.words]
         /\ q.quoted \in BOOLEAN /\ q.site \in {"none", "domain", "path"} /\ q.words \in BOOLEAN
         /\ q.quoted \/ q.site # "none" \/ q.words
         /\ Losses(q) \in 0..3
  BY DEF Forms, Losses

\* A wider form gives something up, so that the ladder has at most four forms.
LEMMA WiderIsWeaker ==
  ASSUME NEW q \in Forms, NEW w \in Wider(q)
  PROVE  w \in Forms /\ Weaker(w, q) /\ Losses(w) <= Losses(q) - 1
  <1>1. /\ q = [quoted |-> q.quoted, site |-> q.site, words |-> q.words]
        /\ q.quoted \in BOOLEAN /\ q.site \in {"none", "domain", "path"} /\ q.words \in BOOLEAN
        /\ q.quoted \/ q.site # "none" \/ q.words
    BY FormParts
  <1>2. CASE q.quoted /\ Unquoted(q) \in Forms
    <2>1. w = Unquoted(q) /\ w.quoted = FALSE /\ w.site = q.site /\ w.words = q.words
      BY <1>1, <1>2 DEF Wider, Unquoted
    <2> QED BY <1>1, <1>2, <2>1 DEF Weaker, Losses
  <1>3. CASE ~(q.quoted /\ Unquoted(q) \in Forms) /\ q.site = "path"
    <2>1. w = BareDomain(q) /\ w.quoted = q.quoted /\ w.site = "domain" /\ w.words = q.words
      BY <1>1, <1>3 DEF Wider, BareDomain
    <2>2. w \in Forms
      BY <1>1, <2>1 DEF Forms, BareDomain
    <2> QED BY <1>1, <1>3, <2>1, <2>2 DEF Weaker, Losses
  <1>4. CASE ~(q.quoted /\ Unquoted(q) \in Forms) /\ q.site = "domain" /\ SiteDropped(q) \in Forms
    <2>1. w = SiteDropped(q) /\ w.quoted = q.quoted /\ w.site = "none" /\ w.words = q.words
      BY <1>1, <1>4 DEF Wider, SiteDropped
    <2> QED BY <1>1, <1>4, <2>1 DEF Weaker, Losses
  <1> QED BY <1>2, <1>3, <1>4 DEF Wider

\* The last form of the ladder gives up all it can without losing its words.
LEMMA NoneWider ==
  ASSUME NEW p \in Forms, Wider(p) = {}, NEW q \in Forms, Weaker(q, p)
  PROVE  q.words # p.words
  <1>1. /\ p = [quoted |-> p.quoted, site |-> p.site, words |-> p.words]
        /\ p.quoted \in BOOLEAN /\ p.site \in {"none", "domain", "path"} /\ p.words \in BOOLEAN
        /\ q = [quoted |-> q.quoted, site |-> q.site, words |-> q.words]
        /\ q.quoted \in BOOLEAN /\ q.site \in {"none", "domain", "path"} /\ q.words \in BOOLEAN
        /\ q.quoted \/ q.site # "none" \/ q.words
    BY FormParts
  <1>2. /\ ~(p.quoted /\ Unquoted(p) \in Forms)
        /\ p.site # "path"
        /\ ~(p.site = "domain" /\ SiteDropped(p) \in Forms)
    BY DEF Wider
  <1>3. /\ p.site # "none" \/ p.words => Unquoted(p) \in Forms
        /\ p.quoted \/ p.words => SiteDropped(p) \in Forms
    BY DEF Forms, Unquoted, SiteDropped
  <1>4. p.quoted => p.site = "none" /\ ~p.words
    BY <1>1, <1>2, <1>3
  <1>5. p.site = "domain" => ~p.quoted /\ ~p.words
    BY <1>1, <1>2, <1>3
  <1>6. q.quoted # p.quoted \/ q.site # p.site \/ q.words # p.words
    BY <1>1 DEF Weaker
  <1> QED BY <1>1, <1>2, <1>4, <1>5, <1>6 DEF Weaker

\* The invariant is enough: a form has at most three things to give up.
LEMMA SearchSafe == SearchInv => SearchAccounted
  <1> SUFFICES ASSUME SearchInv PROVE SearchAccounted
    OBVIOUS
  <1> USE SearchAssumption
  <1>1. answered \in Seq([form : Forms, requests : 0..MaxSearchAttempts, cards : SUBSET Kinds])
    BY DEF SearchInv, SearchTypeOK
  <1>2. \A n \in DOMAIN answered : answered[n].requests <= MaxSearchAttempts
    <2>1. DOMAIN answered = 1..Len(answered)
      BY <1>1
    <2> DEFINE Entries == [form : Forms, requests : 0..MaxSearchAttempts, cards : SUBSET Kinds]
    <2>2. ASSUME NEW n \in 1..Len(answered) PROVE answered[n] \in Entries
      <3>1. answered \in Seq(Entries)
        BY <1>1
      <3> HIDE DEF Entries
      <3> QED BY <3>1
    <2>3. ASSUME NEW n \in 1..Len(answered) PROVE answered[n].requests <= MaxSearchAttempts
      <3>1. answered[n].requests \in 0..MaxSearchAttempts
        BY <2>2
      <3> QED BY <3>1
    <2> QED BY <2>1, <2>3
  <1>3. request <= MaxSearchAttempts
    BY DEF SearchInv, SearchTypeOK
  <1>4. ASSUME search = "shown"
        PROVE  /\ cards = Last(answered).cards /\ "banned" \notin cards /\ (bounded => "late" \notin cards)
               /\ cards = {} => ~\E q \in Forms : Weaker(q, form) /\ q.words = form.words
    <2>1. Last(answered) = answered[Len(answered)]
      BY DEF Last
    <2>2. form \in Forms /\ (cards = {} => Wider(form) = {})
      BY <1>4 DEF SearchInv, Answered
    <2> QED BY <1>4, <2>1, <2>2, NoneWider DEF SearchInv, Answered
  <1> QED BY <1>2, <1>3, <1>4 DEF SearchInv, Widened, SearchAccounted

LEMMA SearchStarts == SearchInit => SearchInv
  BY SearchAssumption DEF SearchInit, SearchInv, SearchTypeOK, Widened, Asking, Answered

LEMMA SearchSteps == SearchInv /\ [SearchNext]_searchVars => SearchInv'
  <1> SUFFICES ASSUME SearchInv, [SearchNext]_searchVars PROVE SearchInv'
    OBVIOUS
  <1> USE SearchAssumption
  <1> DEFINE Entries == [form : Forms, requests : 0..MaxSearchAttempts, cards : SUBSET Kinds]
  <1>1. answered \in Seq(Entries) /\ Len(answered) \in Nat
    BY DEF SearchInv, SearchTypeOK
  <1>2. CASE RefuseSearch
    BY <1>2 DEF RefuseSearch, SearchInv, SearchTypeOK, Widened, Asking, Answered
  <1>3. ASSUME NEW query \in Forms, BeginSearch(query) PROVE SearchInv'
    <2>1. Losses(query) \in 0..3 /\ answered = <<>>
      BY <1>3, FormParts DEF BeginSearch, SearchInv
    <2> QED BY <1>3, <2>1 DEF BeginSearch, Request, SearchInv, SearchTypeOK, Widened, Asking, Answered
  <1>4. ASSUME NEW error \in SearchErrors, RequestFails(error) PROVE SearchInv'
    BY <1>4 DEF RequestFails, Retries, SearchInv, SearchTypeOK, Widened, Asking, Answered
  <1>5. ASSUME NEW found \in SUBSET Kinds, RequestSucceeds(found) PROVE SearchInv'
    <2> DEFINE entry == [form |-> form, requests |-> request, cards |-> Screened(found)]
    <2>1. /\ search = "requesting" /\ search' = "found" /\ cards' = Screened(found)
          /\ answered' = Append(answered, entry) /\ UNCHANGED <<bounded, policy, form, request>>
      BY <1>5 DEF RequestSucceeds
    <2>2. /\ form \in Forms /\ request \in 0..MaxSearchAttempts /\ Losses(form) \in 0..3
          /\ Len(answered) + Losses(form) <= 3
          /\ answered # <<>> => answered[Len(answered)].cards = {} /\ Weaker(form, answered[Len(answered)].form)
      BY <2>1, FormParts DEF SearchInv, SearchTypeOK, Asking
    <2>3. Screened(found) \in SUBSET Kinds /\ "banned" \notin Screened(found)
          /\ (bounded => "late" \notin Screened(found))
      BY DEF Screened
    <2>4. entry \in Entries /\ entry.form = form /\ entry.cards = Screened(found)
      BY <2>2, <2>3
    <2> HIDE DEF entry, Entries
    <2>5. /\ answered' \in Seq(Entries) /\ Len(answered') = Len(answered) + 1
          /\ answered'[Len(answered) + 1] = entry
          /\ \A n \in 1..Len(answered) : answered'[n] = answered[n]
          /\ answered' # <<>>
      BY <1>1, <2>1, <2>4
    <2>6. SearchTypeOK'
      BY <2>1, <2>3, <2>5 DEF SearchInv, SearchTypeOK, Entries
    <2>7. Widened'
      <3> SUFFICES ASSUME NEW n \in 1..Len(answered)
                   PROVE  answered'[n].cards = {} /\ Weaker(answered'[n + 1].form, answered'[n].form)
        BY <1>1, <2>5 DEF Widened, Weaker
      <3>1. CASE n = Len(answered)
        <4>1. answered # <<>> /\ answered'[n] = answered[Len(answered)] /\ answered'[n + 1] = entry
          BY <1>1, <2>5, <3>1
        <4> QED BY <2>2, <2>4, <4>1
      <3>2. CASE n # Len(answered)
        <4>1. n \in 1..Len(answered) - 1 /\ n + 1 \in 1..Len(answered)
          BY <1>1, <3>2
        <4> QED BY <2>5, <4>1 DEF SearchInv, Widened
      <3> QED BY <3>1, <3>2
    <2>8. Asking' /\ Answered'
      <3>1. Losses(form)' = Losses(form)
        BY <2>1 DEF Losses
      <3> QED BY <1>1, <2>1, <2>2, <2>3, <2>4, <2>5, <3>1 DEF Asking, Answered
    <2> QED BY <1>1, <2>1, <2>2, <2>5, <2>6, <2>7, <2>8 DEF SearchInv
  <1>6. CASE Widen
    <2>1. PICK wider \in Wider(form) : Request(wider)
      BY <1>6 DEF Widen
    <2>2. /\ search = "found" /\ cards = {} /\ search' = "requesting" /\ form' = wider /\ request' = 1
          /\ UNCHANGED <<bounded, policy, cards, answered>>
      BY <1>6, <2>1 DEF Widen, Request
    <2>3. /\ form \in Forms /\ Len(answered) + Losses(form) <= 4
          /\ answered[Len(answered)].cards = {} /\ answered[Len(answered)].form = form
      BY <2>2 DEF SearchInv, Answered
    <2>4. wider \in Forms /\ Weaker(wider, form) /\ Losses(wider) <= Losses(form) - 1
      BY <2>3, WiderIsWeaker
    <2>5. Losses(form) \in 0..3 /\ Losses(wider) \in 0..3
      BY <2>3, <2>4, FormParts
    <2>6. Losses(form)' = Losses(wider) /\ Weaker(form, answered[Len(answered)].form)' = Weaker(wider, form)
      BY <2>2, <2>3 DEF Losses, Weaker
    <2>7. SearchTypeOK'
      BY <2>2, <2>4 DEF SearchInv, SearchTypeOK
    <2>8. Widened'
      BY <2>2 DEF SearchInv, Widened, Weaker
    <2>9. Asking'
      BY <1>1, <2>2, <2>3, <2>4, <2>5, <2>6 DEF Asking
    <2>10. Answered'
      BY <2>2 DEF Answered
    <2> QED BY <2>2, <2>7, <2>8, <2>9, <2>10 DEF SearchInv
  <1>7. CASE Show
    <2>1. Losses(form)' = Losses(form)
      BY <1>7 DEF Show, Losses
    <2> QED BY <1>7, <2>1 DEF Show, SearchInv, SearchTypeOK, Widened, Asking, Answered, Weaker, Wider, Unquoted, BareDomain, SiteDropped
  <1>8. CASE UNCHANGED searchVars
    <2>1. Losses(form)' = Losses(form)
      BY <1>8 DEF searchVars, Losses
    <2> QED BY <1>8, <2>1 DEF searchVars, SearchInv, SearchTypeOK, Widened, Asking, Answered, Weaker, Wider, Unquoted, BareDomain, SiteDropped
  <1> QED BY <1>2, <1>3, <1>4, <1>5, <1>6, <1>7, <1>8 DEF SearchNext

\* SearchAccounted for every number of tries and every choice of cards (_search): each answered
\* form was given up for want of cards alone and for one that says less, there are at most
\* four of them, and what is shown is what the last form kept of its screened cards.
THEOREM EverySearchAccounted == SearchSpec => []SearchAccounted
  <1>1. SearchSpec => []SearchInv
    BY SearchStarts, SearchSteps, PTL DEF SearchSpec
  <1> QED BY <1>1, SearchSafe, PTL

-----------------------------------------------------------------------------
(***************************************************************************)
(* What is recorded of the attempts of a series. The list of the series is *)
(* a chain that ends with the attempt in hand or with the one before it;   *)
(* the list a budget is given is the chain up to its own attempt, or to    *)
(* the last one if the series stopped before.                              *)
(***************************************************************************)
Statuses == {"valid", "format_error"}
Decisions == {"return_success", "return_final_failure", "return_final_fallback", "block_no_box_turn_limit_cap", "retry"}
RetryWhys ==
  {"non_final_turn_limit", "non_final_prompted_final_answer", "non_final_token_exhaustion",
   "format_error_retry_available"}
Whys ==
  RetryWhys \cup {"valid_output", "final_attempt", "intermediate_boxed_fallback", "compression_state_answer_attempt",
                  "no_box_turn_limit_cap"}

EntryRecords ==
  [attempt : Nat, budget : Nat, final : BOOLEAN, reason : Reasons \cup {"none"}, status : Statuses,
   previous : Reasons \cup {"none"}, noBox : Nat, decision : Decisions, why : Whys, launched : BOOLEAN,
   afterLimit : BOOLEAN, storm : {Storm(events) : events \in Storms}]

Counted == {"retry", "block_no_box_turn_limit_cap"}

\* A chain of entries of attempts that suffered these storms.
LinkedAt(list, storms, i) ==
  /\ list[i].attempt = i
  /\ list[i].previous = IF i = 1 THEN "none" ELSE list[i - 1].reason
  /\ list[i].decision \in Counted =>
       list[i].noBox = IF list[i].reason # "turn_limit" THEN 0 ELSE IF i = 1 THEN 1 ELSE list[i - 1].noBox + 1
  /\ list[i].storm = Storm(storms[i])
  /\ list[i].launched <=> list[i].decision = "retry"
  /\ i < Len(list) => list[i].launched

Linked(list, storms) ==
  /\ list \in Seq(EntryRecords) /\ Len(list) <= Len(storms)
  /\ \A i \in 1..Len(list) : LinkedAt(list, storms, i)

AllLaunched(list) == \A i \in 1..Len(list) : list[i].launched

LastReason(list) == IF Len(list) = 0 THEN "none" ELSE list[Len(list)].reason
CountBefore(list) == IF Len(list) = 0 THEN 0 ELSE list[Len(list)].noBox

\* An entry that continues the chain.
Follows(list, e, storms) ==
  /\ e \in EntryRecords /\ e.attempt = Len(list) + 1 /\ Len(list) < Len(storms)
  /\ e.previous = LastReason(list)
  /\ e.decision \in Counted => e.noBox = IF e.reason # "turn_limit" THEN 0 ELSE CountBefore(list) + 1
  /\ e.storm = Storm(storms[Len(list) + 1])
  /\ e.launched <=> e.decision = "retry"

LEMMA ChainContinued ==
  ASSUME NEW list, NEW storms \in Seq(Storms), NEW e, Linked(list, storms), AllLaunched(list), Follows(list, e, storms)
  PROVE  /\ Linked(Append(list, e), storms) /\ Len(Append(list, e)) = Len(list) + 1
         /\ Append(list, e)[Len(list) + 1] = e
         /\ \A i \in 1..Len(list) : Append(list, e)[i] = list[i]
         /\ e.launched => AllLaunched(Append(list, e))
  <1>1. list \in Seq(EntryRecords) /\ e \in EntryRecords /\ Len(list) \in Nat /\ Len(storms) \in Nat
    BY DEF Linked, Follows
  <1>0. Append(list, e) \in Seq(EntryRecords)
    BY <1>1
  <1>2. PICK longer \in Seq(EntryRecords) : longer = Append(list, e)
    BY <1>0
  <1>3. /\ Len(longer) = Len(list) + 1 /\ longer[Len(list) + 1] = e
        /\ \A i \in 1..Len(list) : longer[i] = list[i]
    BY <1>1, <1>2
  <1>4. ASSUME NEW i \in 1..Len(list)
        PROVE  LinkedAt(longer, storms, i)
    <2>1. LinkedAt(list, storms, i) /\ list[i].launched
      BY DEF Linked, AllLaunched
    <2>2. longer[i] = list[i] /\ (i # 1 => i - 1 \in 1..Len(list) /\ longer[i - 1] = list[i - 1])
      BY <1>1, <1>3
    <2> QED BY <2>1, <2>2 DEF LinkedAt
  <1>5. LinkedAt(longer, storms, Len(list) + 1)
    <2>1. CASE Len(list) = 0
      BY <1>3, <2>1 DEF LinkedAt, Follows, LastReason, CountBefore
    <2>2. CASE Len(list) # 0
      <3>1. longer[Len(list)] = list[Len(list)] /\ (Len(list) + 1) - 1 = Len(list) /\ Len(list) + 1 # 1
        BY <1>1, <1>3, <2>2
      <3> QED BY <1>1, <1>3, <2>2, <3>1 DEF LinkedAt, Follows, LastReason, CountBefore
    <2> QED BY <2>1, <2>2
  <1>6. Linked(longer, storms)
    <2>1. Len(longer) <= Len(storms)
      BY <1>1, <1>3 DEF Follows
    <2>2. \A i \in 1..Len(longer) : i \in 1..Len(list) \/ i = Len(list) + 1
      BY <1>1, <1>3
    <2>3. \A i \in 1..Len(longer) : LinkedAt(longer, storms, i)
      BY <1>4, <1>5, <2>2
    <2> QED BY <2>1, <2>3 DEF Linked
  <1>7. e.launched => AllLaunched(longer)
    <2>1. \A i \in 1..Len(longer) : i \in 1..Len(list) \/ i = Len(list) + 1
      BY <1>1, <1>3
    <2> QED BY <1>3, <2>1 DEF AllLaunched
  <1> QED BY <1>2, <1>3, <1>6, <1>7

\* Later storms change nothing for it.
LEMMA ChainKept ==
  ASSUME NEW list, NEW storms \in Seq(Storms), NEW events \in Storms, Linked(list, storms)
  PROVE  Linked(list, Append(storms, events))
  <1>1. list \in Seq(EntryRecords) /\ Len(list) \in Nat /\ Len(storms) \in Nat /\ Len(list) <= Len(storms)
    BY DEF Linked
  <1>2. Len(Append(storms, events)) = Len(storms) + 1 /\ \A i \in 1..Len(list) : Append(storms, events)[i] = storms[i]
    BY <1>1
  <1>3. \A i \in 1..Len(list) : LinkedAt(list, storms, i)
    BY DEF Linked
  <1>4. \A i \in 1..Len(list) : LinkedAt(list, Append(storms, events), i)
    BY <1>2, <1>3 DEF LinkedAt
  <1> QED BY <1>1, <1>2, <1>4 DEF Linked

-----------------------------------------------------------------------------
\* An entry as the result for a budget tells it.
ForBudget(e, i, b) == [e EXCEPT !.budget = b, !.final = (i = b)]
SaysWhether(e, i, b) == e.final = (i = b)
Restates(told, e) ==
  /\ told.attempt = e.attempt /\ told.reason = e.reason /\ told.status = e.status
  /\ told.previous = e.previous /\ told.noBox = e.noBox /\ told.decision = e.decision
  /\ told.launched = e.launched /\ told.storm = e.storm

LEMMA ToldFields ==
  ASSUME NEW e \in EntryRecords, NEW i \in Nat, NEW b \in Nat
  PROVE  /\ ForBudget(e, i, b) \in EntryRecords
         /\ ForBudget(e, i, b).budget = b /\ SaysWhether(ForBudget(e, i, b), i, b)
         /\ Restates(ForBudget(e, i, b), e)
  <1>1. PICK here \in BOOLEAN : here = (i = b)
    OBVIOUS
  <1>2. PICK told : told = [e EXCEPT !.budget = b, !.final = here]
    OBVIOUS
  <1>3. /\ told \in EntryRecords /\ told.budget = b /\ told.final = here
        /\ Restates(told, e)
    BY <1>2 DEF EntryRecords, Restates
  <1>4. told = ForBudget(e, i, b)
    BY <1>1, <1>2 DEF ForBudget
  <1>5. SaysWhether(told, i, b)
    BY <1>1, <1>3 DEF SaysWhether
  <1> QED BY <1>3, <1>4, <1>5

LEMMA ToldAgain ==
  ASSUME NEW e \in EntryRecords, NEW i \in Nat, NEW b \in Nat, NEW c \in Nat
  PROVE  ForBudget(ForBudget(e, i, b), i, c) = ForBudget(e, i, c)
  <1>1. PICK here \in BOOLEAN : here = (i = b)
    OBVIOUS
  <1>2. PICK there \in BOOLEAN : there = (i = c)
    OBVIOUS
  <1>3. [[e EXCEPT !.budget = b, !.final = here] EXCEPT !.budget = c, !.final = there] = [e EXCEPT !.budget = c, !.final = there]
    BY DEF EntryRecords
  <1> QED BY <1>1, <1>2, <1>3 DEF ForBudget

\* The list of a budget is the chain itself but for what it says of the budget.
LEMMA NormalizedChain ==
  ASSUME NEW list, NEW storms \in Seq(Storms), NEW b \in Nat, Linked(list, storms), Len(list) <= b
  PROVE  /\ Linked(Normalized(list, b), storms) /\ Len(Normalized(list, b)) = Len(list)
         /\ OfBudget(Normalized(list, b), b)
         /\ \A i \in 1..Len(list) : Normalized(list, b)[i] = ForBudget(list[i], i, b)
  <1>1. list \in Seq(EntryRecords) /\ Len(list) \in Nat /\ DOMAIN list = 1..Len(list)
    BY DEF Linked
  <1>2. \A i \in 1..Len(list) : LinkedAt(list, storms, i) /\ list[i] \in EntryRecords
    BY <1>1 DEF Linked
  <1>3. PICK told : told = Normalized(list, b)
    OBVIOUS
  <1>4. told = [i \in 1..Len(list) |-> ForBudget(list[i], i, b)]
    <2>1. told = [i \in 1..Len(list) |->
                    [list[i] EXCEPT !.budget = b,
                                    !.final = IF list[i].attempt <= b THEN list[i].attempt = b ELSE list[i].final]]
      BY <1>1, <1>3 DEF Normalized
    <2>2. ASSUME NEW i \in 1..Len(list)
          PROVE  (IF list[i].attempt <= b THEN list[i].attempt = b ELSE list[i].final) = (i = b)
      <3>1. list[i].attempt = i /\ i <= b
        BY <1>1, <1>2 DEF LinkedAt
      <3> QED BY <3>1
    <2> QED BY <2>1, <2>2 DEF ForBudget
  <1>5. ASSUME NEW i \in 1..Len(list)
        PROVE  /\ told[i] = ForBudget(list[i], i, b) /\ told[i] \in EntryRecords
               /\ told[i].budget = b /\ SaysWhether(told[i], i, b) /\ Restates(told[i], list[i])
    <2>1. list[i] \in EntryRecords /\ i \in Nat
      BY <1>1, <1>2
    <2>2. /\ ForBudget(list[i], i, b) \in EntryRecords
          /\ ForBudget(list[i], i, b).budget = b /\ SaysWhether(ForBudget(list[i], i, b), i, b)
          /\ Restates(ForBudget(list[i], i, b), list[i])
      BY <2>1, ToldFields
    <2>3. told[i] = ForBudget(list[i], i, b)
      BY <1>4
    <2> QED BY <2>2, <2>3
  <1>6. told \in Seq(EntryRecords) /\ Len(told) = Len(list) /\ DOMAIN told = 1..Len(list)
    <2>1. told = [i \in 1..Len(list) |-> told[i]]
      BY <1>4
    <2> QED BY <1>1, <1>5, <2>1
  <1>7. ASSUME NEW i \in 1..Len(list)
        PROVE  LinkedAt(told, storms, i) /\ told[i].budget = b /\ SaysWhether(told[i], i, b)
    <2>2. told[i].budget = b /\ SaysWhether(told[i], i, b) /\ Restates(told[i], list[i])
      BY <1>5
    <2>3. i # 1 => told[i - 1].reason = list[i - 1].reason /\ told[i - 1].noBox = list[i - 1].noBox
      <3> SUFFICES ASSUME i # 1
                   PROVE  told[i - 1].reason = list[i - 1].reason /\ told[i - 1].noBox = list[i - 1].noBox
        OBVIOUS
      <3>1. PICK j \in 1..Len(list) : j = i - 1
        BY <1>1
      <3>2. told[j].reason = list[j].reason /\ told[j].noBox = list[j].noBox
        BY <1>5 DEF Restates
      <3> QED BY <3>1, <3>2
    <2> QED BY <1>2, <1>6, <2>2, <2>3 DEF LinkedAt, Restates
  <1>8. OfBudget(told, b)
    BY <1>6, <1>7 DEF OfBudget, SaysWhether
  <1>9. Linked(told, storms)
    BY <1>6, <1>7 DEF Linked
  <1> QED BY <1>3, <1>5, <1>6, <1>8, <1>9

-----------------------------------------------------------------------------
\* The list tells of the budget: all its attempts in a chain that ends there, and what
\* they share with the series.
EndsAsAnswered(last, answer) == (last.status = "valid" <=> Valid(answer)) \/ last.decision = "block_no_box_turn_limit_cap"

SharedWith(list, b, series) ==
  \A i \in 1..(b - 1) :
    /\ i <= Len(list) <=> i <= Len(series)
    /\ i <= Len(list) => list[i] = ForBudget(series[i], i, b)

TellsOf(list, b, sweep, storms, series, answer) ==
  /\ Linked(list, storms) /\ Len(list) # 0 /\ ~list[Len(list)].launched
  /\ OfBudget(list, b)
  /\ EndsAsAnswered(list[Len(list)], answer)
  /\ sweep => SharedWith(list, b, series)

\* The series goes on: the chain awaits the entry of the attempt in hand.
GoesOn == phase \in {"attempt", "prepare", "finalize"} \/ (phase \in {"verify", "reanswer", "advance"} /\ ~settled)

Underway ==
  /\ Len(provenance) = attempt - 1 /\ AllLaunched(provenance) /\ previous = LastReason(provenance)
  /\ noBox = IF phase \in {"attempt", "prepare"} THEN CountBefore(provenance)
             ELSE IF result.reason = "turn_limit" THEN CountBefore(provenance) + 1 ELSE 0

IsTold(b) == carried[b] # <<>>

ToldSoFar ==
  /\ options.sweep /\ phase \in {"attempt", "prepare", "finalize"} => \A b \in Budgets : IsTold(b) <=> b < attempt
  /\ options.sweep /\ phase \in {"verify", "reanswer", "advance"} => \A b \in Budgets : IsTold(b) <=> (b <= attempt \/ settled)
  /\ options.sweep /\ phase = "returned" => \A b \in Budgets : IsTold(b)
  /\ ~options.sweep /\ phase \in {"verify", "reanswer", "advance", "returned"} => IsTold(MaxAttempts)

Sufferings ==
  /\ suffered \in Seq(Storms) /\ Len(suffered) = IF phase = "attempt" THEN attempt - 1 ELSE attempt
  /\ phase # "attempt" => rollbacks = suffered[attempt] /\ rollbacks \in Storms

RecordInv ==
  /\ recorded \in BOOLEAN
  /\ recorded =>
       /\ Sufferings
       /\ Linked(provenance, suffered) /\ OfBudget(provenance, MaxAttempts)
       /\ GoesOn => Underway
       /\ carried = [b \in Budgets |-> carried[b]]
       /\ ToldSoFar
       /\ \A b \in Budgets : IsTold(b) => TellsOf(carried[b], b, options.sweep, suffered, provenance, submitted[b])

-----------------------------------------------------------------------------
LEMMA SameTruth ==
  ASSUME NEW x \in BOOLEAN, NEW i \in Nat, NEW n \in Nat, i <= n, i < n => x, i = n => ~x
  PROVE  x = (i < n)
  OBVIOUS

\* What is told of every budget is true of it.
LEMMA ToldChain ==
  ASSUME NEW list, NEW b, NEW sweep, NEW series, NEW answer, TellsOf(list, b, sweep, suffered, series, answer)
  PROVE  /\ list # <<>> /\ Chained(list) /\ CountsRuns(list) /\ OfBudget(list, b) /\ OwnStorms(list)
         /\ LET last == list[Len(list)]
            IN  (last.status = "valid") = Valid(answer) \/ last.decision = "block_no_box_turn_limit_cap"
  <1>1. /\ list \in Seq(EntryRecords) /\ Len(list) \in Nat /\ Len(list) # 0 /\ DOMAIN list = 1..Len(list)
        /\ \A i \in 1..Len(list) : LinkedAt(list, suffered, i)
        /\ ~list[Len(list)].launched /\ OfBudget(list, b) /\ EndsAsAnswered(list[Len(list)], answer)
    BY DEF TellsOf, Linked
  <1>2. Chained(list)
    <2>1. ASSUME NEW i \in 1..Len(list)
          PROVE  /\ list[i].attempt = i
                 /\ list[i].launched = (i < Len(list))
                 /\ list[i].previous = IF i = 1 THEN "none" ELSE list[i - 1].reason
      <3>1. list[i] \in EntryRecords
        BY <1>1
      <3>2. list[i].launched \in BOOLEAN
        BY <3>1 DEF EntryRecords
      <3>3. i < Len(list) => list[i].launched
        BY <1>1 DEF LinkedAt
      <3>4. i = Len(list) => ~list[i].launched
        BY <1>1
      <3>5. Len(list) \in Nat /\ i \in Nat /\ i <= Len(list)
        BY <1>1
      <3>7. list[i].launched = (i < Len(list))
        BY <3>2, <3>3, <3>4, <3>5, SameTruth
      <3>8. list[i].attempt = i /\ list[i].previous = IF i = 1 THEN "none" ELSE list[i - 1].reason
        BY <1>1 DEF LinkedAt
      <3> QED BY <3>7, <3>8
    <2> QED BY <1>1, <2>1 DEF Chained
  <1>3. CountsRuns(list)
    BY <1>1 DEF CountsRuns, LinkedAt, Counted
  <1>4. OwnStorms(list)
    BY <1>1 DEF OwnStorms, LinkedAt
  <1>5. LET last == list[Len(list)]
        IN  (last.status = "valid") = Valid(answer) \/ last.decision = "block_no_box_turn_limit_cap"
    BY <1>1 DEF EndsAsAnswered, Valid
  <1> QED BY <1>1, <1>2, <1>3, <1>4, <1>5

LEMMA RecordSafe == RetryInv /\ RecordInv => ProvenanceTrue
  <1> SUFFICES ASSUME RetryInv, RecordInv, recorded, phase = "returned"
               PROVE  ProvenanceTrue
    BY DEF ProvenanceTrue
  <1>1. \A b \in Budgets : options.sweep \/ b = MaxAttempts => IsTold(b)
    BY DEF RecordInv, ToldSoFar
  <1>2. \A b \in Budgets : IsTold(b) => TellsOf(carried[b], b, options.sweep, suffered, provenance, submitted[b])
    BY DEF RecordInv
  <1>3. ASSUME NEW b \in Budgets, options.sweep \/ b = MaxAttempts
        PROVE  /\ carried[b] # <<>>
               /\ Chained(carried[b]) /\ CountsRuns(carried[b]) /\ OfBudget(carried[b], b) /\ OwnStorms(carried[b])
               /\ LET last == carried[b][Len(carried[b])]
                  IN  (last.status = "valid") = Valid(submitted[b]) \/ last.decision = "block_no_box_turn_limit_cap"
    <2>1. TellsOf(carried[b], b, options.sweep, suffered, provenance, submitted[b])
      BY <1>1, <1>2, <1>3
    <2> QED BY <2>1, ToldChain
  <1>4. ASSUME NEW b \in Budgets, NEW c \in Budgets, options.sweep, b < c, NEW i \in 1..(b - 1), i \in DOMAIN carried[b]
        PROVE  ForBudget(carried[b][i], i, c) = carried[c][i]
    <2>1. /\ Linked(carried[b], suffered) /\ SharedWith(carried[b], b, provenance)
          /\ SharedWith(carried[c], c, provenance)
      BY <1>1, <1>2, <1>4 DEF TellsOf
    <2>2. b \in Nat /\ c \in Nat /\ i \in Nat /\ i \in 1..(c - 1)
      BY <1>4, RetryAssumption DEF Budgets
    <2>3. i <= Len(carried[b])
      BY <1>4, <2>1 DEF Linked
    <2>4. i <= Len(provenance) /\ carried[b][i] = ForBudget(provenance[i], i, b)
      BY <2>1, <2>3 DEF SharedWith
    <2>5. carried[c][i] = ForBudget(provenance[i], i, c)
      BY <2>1, <2>2, <2>4 DEF SharedWith
    <2>6. provenance[i] \in EntryRecords
      <3>1. provenance \in Seq(EntryRecords)
        BY DEF RecordInv, Linked
      <3> QED BY <2>2, <2>4, <3>1
    <2>7. ForBudget(ForBudget(provenance[i], i, b), i, c) = ForBudget(provenance[i], i, c)
      BY <2>2, <2>6, ToldAgain
    <2>8. ForBudget(carried[b][i], i, c) = carried[c][i]
      BY <2>4, <2>5, <2>7
    <2> QED BY <2>8
  <1>5. \A b \in Budgets : options.sweep \/ b = MaxAttempts =>
          /\ carried[b] # <<>>
          /\ Chained(carried[b]) /\ CountsRuns(carried[b]) /\ OfBudget(carried[b], b) /\ OwnStorms(carried[b])
          /\ LET last == carried[b][Len(carried[b])]
             IN  (last.status = "valid") = Valid(submitted[b]) \/ last.decision = "block_no_box_turn_limit_cap"
    BY <1>3
  <1>6. \A b, c \in Budgets : options.sweep /\ b < c => \A i \in 1..(b - 1) : i \in DOMAIN carried[b] =>
          ForBudget(carried[b][i], i, c) = carried[c][i]
    BY <1>4
  <1>7. \A b, c \in Budgets : options.sweep /\ b < c => \A i \in 1..(b - 1) : i \in DOMAIN carried[b] =>
          [carried[b][i] EXCEPT !.budget = c, !.final = i = c] = carried[c][i]
    BY <1>6 DEF ForBudget
  <1> QED BY <1>5, <1>7 DEF ProvenanceTrue

-----------------------------------------------------------------------------
(***************************************************************************)
(* The entries.                                                            *)
(***************************************************************************)
\* The words of the entries.
LEMMA EntryWords ==
  /\ {"valid", "format_error"} = Statuses
  /\ {"return_success", "return_final_failure", "return_final_fallback", "block_no_box_turn_limit_cap", "retry"} = Decisions
  /\ \A why \in RetryWhys : why \in Whys
  /\ "valid_output" \in Whys /\ "final_attempt" \in Whys /\ "intermediate_boxed_fallback" \in Whys
  /\ "compression_state_answer_attempt" \in Whys /\ "no_box_turn_limit_cap" \in Whys
  /\ "valid" \in Statuses /\ "format_error" \in Statuses
  /\ "return_success" \in Decisions /\ "return_final_failure" \in Decisions /\ "return_final_fallback" \in Decisions
  /\ "block_no_box_turn_limit_cap" \in Decisions /\ "retry" \in Decisions
  /\ "block_no_box_turn_limit_cap" \in Counted /\ "retry" \in Counted
  /\ "return_success" \notin Counted /\ "return_final_failure" \notin Counted /\ "return_final_fallback" \notin Counted
  BY DEF Statuses, Decisions, Whys, RetryWhys, Counted

\* What is noted of the attempt in hand continues the chain.
Noted(e, reason, status, count, final, decision) ==
  /\ Follows(provenance, e, suffered)
  /\ e.status = status /\ e.decision = decision /\ e.final = final /\ e.budget = MaxAttempts
  /\ e.reason = reason /\ e.noBox = count
  /\ e.launched <=> decision = "retry"

LEMMA EntryFollows ==
  ASSUME RetryInv, RecordInv, recorded, Underway, phase # "attempt",
         NEW o, o.reason \in Reasons \cup {"none"}, NEW status \in Statuses, NEW count \in Nat, NEW final \in BOOLEAN,
         NEW decision \in Decisions, NEW why \in Whys,
         decision \in Counted => count = IF o.reason # "turn_limit" THEN 0 ELSE CountBefore(provenance) + 1,
         NEW e, e = Entry(o, status, count, final, decision, why)
  PROVE  Noted(e, o.reason, status, count, final, decision)
  <1>1. /\ attempt \in Nat /\ MaxAttempts \in Nat
        /\ Len(provenance) = attempt - 1 /\ previous = LastReason(provenance)
        /\ suffered \in Seq(Storms) /\ Len(suffered) = attempt /\ rollbacks = suffered[attempt] /\ rollbacks \in Storms
    BY RetryAssumption DEF RetryInv, RetryTypeOK, Budgets, Underway, RecordInv, Sufferings
  <1>2. LastReason(provenance) \in Reasons \cup {"none"}
    <2>1. provenance \in Seq(EntryRecords) /\ Len(provenance) \in Nat
      BY DEF RecordInv, Linked
    <2>2. Len(provenance) # 0 => provenance[Len(provenance)] \in EntryRecords
      BY <2>1
    <2> QED BY <2>2 DEF LastReason, EntryRecords
  <1>3. PICK launched \in BOOLEAN : launched <=> decision = "retry"
    OBVIOUS
  <1>4. PICK afterLimit \in BOOLEAN : afterLimit <=> (o.reason = "turn_limit" /\ ~final)
    OBVIOUS
  <1>5. PICK storm \in {Storm(events) : events \in Storms} : storm = Storm(rollbacks)
    BY <1>1
  <1>6. e = [attempt |-> attempt, budget |-> MaxAttempts, final |-> final, reason |-> o.reason, status |-> status,
             previous |-> previous, noBox |-> count, decision |-> decision, why |-> why,
             launched |-> launched, afterLimit |-> afterLimit, storm |-> storm]
    <2>1. launched = (decision = "retry") /\ afterLimit = (o.reason = "turn_limit" /\ ~final)
      BY <1>3, <1>4
    <2> QED BY <1>5, <2>1 DEF Entry, AttachedStorm
  <1>7. e \in EntryRecords
    BY <1>1, <1>2, <1>6 DEF EntryRecords
  <1>8. /\ e.attempt = attempt /\ e.previous = previous /\ e.storm = storm
        /\ e.status = status /\ e.decision = decision /\ e.final = final /\ e.budget = MaxAttempts
        /\ e.reason = o.reason /\ e.noBox = count /\ (e.launched <=> decision = "retry")
    BY <1>3, <1>6
  <1>9. attempt = Len(provenance) + 1 /\ Len(provenance) < Len(suffered)
    BY <1>1
  <1> QED BY <1>1, <1>5, <1>7, <1>8, <1>9 DEF Noted, Follows

\* The entry of the last attempt.
LEMMA ClosingEntry ==
  ASSUME RetryInv, RecordInv, recorded, Underway, phase # "attempt",
         NEW o, o.reason \in Reasons \cup {"none"}, NEW status \in Statuses, NEW count \in Nat, NEW final \in BOOLEAN,
         NEW decision \in Decisions, decision \notin Counted, NEW why \in Whys,
         NEW e, e = Entry(o, status, count, final, decision, why)
  PROVE  /\ Follows(provenance, e, suffered) /\ e.status = status /\ e.final = final
         /\ e.budget = MaxAttempts /\ ~e.launched
  <1>1. Noted(e, o.reason, status, count, final, decision)
    BY EntryFollows
  <1>2. decision # "retry"
    BY EntryWords
  <1> QED BY <1>1, <1>2 DEF Noted

\* The entry of an attempt without an answer that is not the last one, or is capped.
LEMMA CountedEntry ==
  ASSUME RetryInv, RecordInv, recorded, Underway, phase # "attempt",
         NEW o, o.reason \in Reasons \cup {"none"}, NEW status \in Statuses, NEW count \in Nat, NEW final \in BOOLEAN,
         count = IF o.reason # "turn_limit" THEN 0 ELSE CountBefore(provenance) + 1,
         NEW decision \in Counted, NEW why \in Whys,
         NEW e, e = Entry(o, status, count, final, decision, why)
  PROVE  Noted(e, o.reason, status, count, final, decision)
  <1>1. decision \in Decisions
    BY EntryWords DEF Counted
  <1> QED BY <1>1, EntryFollows

\* The chain with the entry.
LEMMA ChainWith ==
  ASSUME RetryInv, RecordInv, recorded, Underway, NEW e, Follows(provenance, e, suffered),
         e.budget = MaxAttempts
  PROVE  /\ With(provenance, e) = Append(provenance, e)
         /\ Linked(Append(provenance, e), suffered)
         /\ e.final = (attempt = MaxAttempts) => OfBudget(Append(provenance, e), MaxAttempts)
         /\ Len(Append(provenance, e)) = attempt /\ Append(provenance, e)[attempt] = e
         /\ \A i \in 1..(attempt - 1) : Append(provenance, e)[i] = provenance[i]
         /\ e.launched => AllLaunched(Append(provenance, e))
  <1>1. /\ attempt \in Nat /\ suffered \in Seq(Storms) /\ Linked(provenance, suffered) /\ AllLaunched(provenance)
        /\ Len(provenance) = attempt - 1 /\ OfBudget(provenance, MaxAttempts)
    BY RetryAssumption DEF RetryInv, RetryTypeOK, Budgets, Underway, RecordInv, Sufferings
  <1>2. PICK longer : longer = Append(provenance, e)
    OBVIOUS
  <1>3. /\ Linked(longer, suffered) /\ Len(longer) = Len(provenance) + 1
        /\ longer[Len(provenance) + 1] = e
        /\ \A i \in 1..Len(provenance) : longer[i] = provenance[i]
        /\ e.launched => AllLaunched(longer)
    BY <1>1, <1>2, ChainContinued
  <1>4. Len(longer) = attempt /\ longer[attempt] = e /\ \A i \in 1..(attempt - 1) : longer[i] = provenance[i]
    BY <1>1, <1>3
  <1>5. e.final = (attempt = MaxAttempts) => OfBudget(longer, MaxAttempts)
    <2>1. DOMAIN longer = 1..attempt /\ DOMAIN provenance = 1..(attempt - 1)
      BY <1>1, <1>3, <1>4 DEF Linked
    <2> QED BY <1>1, <1>4, <2>1 DEF OfBudget
  <1>6. With(provenance, e) = longer
    BY <1>2 DEF With
  <1> QED BY <1>2, <1>3, <1>4, <1>5, <1>6

\* The same list is carried to some budgets; the others keep theirs.
MayCarry(list, bs, series, answers) ==
  /\ Carry(list, bs)
  /\ Linked(list, suffered) /\ Len(list) # 0 /\ ~list[Len(list)].launched
  /\ options.sweep \/ OfBudget(list, MaxAttempts)
  /\ IF options.sweep THEN \A b \in bs : Len(list) <= b ELSE bs = {MaxAttempts}
  /\ \A b \in bs : EndsAsAnswered(list[Len(list)], answers[b])
  /\ \A b \in bs : \A i \in 1..(b - 1) :
       (i <= Len(list) <=> i <= Len(series)) /\ (i <= Len(list) => list[i] = series[i])
  /\ \A b \in Budgets \ bs : answers[b] = submitted[b]
  /\ \A b \in Budgets \ bs : options.sweep /\ IsTold(b) => \A i \in 1..(b - 1) :
       (i <= Len(provenance) <=> i <= Len(series)) /\ (i <= Len(provenance) => series[i] = provenance[i])

CarriedTo(bs, series, answers) ==
  /\ carried' = [b \in Budgets |-> carried'[b]]
  /\ \A b \in Budgets : carried'[b] # <<>> <=> b \in bs \/ IsTold(b)
  /\ \A b \in Budgets : carried'[b] # <<>> => TellsOf(carried'[b], b, options.sweep, suffered, series, answers[b])

LEMMA Carrying ==
  ASSUME RetryInv, RecordInv, recorded, NEW list, NEW bs \in SUBSET Budgets, NEW series, NEW answers,
         MayCarry(list, bs, series, answers)
  PROVE  CarriedTo(bs, series, answers)
  <1> USE DEF MayCarry
  <1>1. /\ carried' = [b \in Budgets |-> carried'[b]]
        /\ \A b \in Budgets : carried'[b] = IF b \notin bs THEN carried[b]
                                            ELSE IF options.sweep THEN Normalized(list, b) ELSE list
    BY DEF Carry
  <1>2. /\ list \in Seq(EntryRecords) /\ Len(list) \in Nat /\ suffered \in Seq(Storms)
        /\ \A b \in Budgets : b \in Nat
    BY RetryAssumption DEF Linked, RecordInv, Sufferings, Budgets
  <1>3. ASSUME NEW b \in bs
        PROVE  carried'[b] # <<>> /\ TellsOf(carried'[b], b, options.sweep, suffered, series, answers[b])
    <2>1. CASE options.sweep
      <3>1. PICK told : told = Normalized(list, b)
        OBVIOUS
      <3>2. b \in Nat /\ Len(list) <= b
        BY <1>2, <2>1
      <3>3. /\ Linked(told, suffered) /\ Len(told) = Len(list) /\ OfBudget(told, b)
            /\ \A i \in 1..Len(list) : told[i] = ForBudget(list[i], i, b)
        BY <1>2, <3>1, <3>2, NormalizedChain
      <3>4. told[Len(list)] = ForBudget(list[Len(list)], Len(list), b) /\ list[Len(list)] \in EntryRecords
        BY <1>2, <3>3
      <3>5. /\ told[Len(list)].launched = list[Len(list)].launched /\ told[Len(list)].status = list[Len(list)].status
            /\ told[Len(list)].decision = list[Len(list)].decision
        <4>1. Len(list) \in Nat /\ b \in Nat
          BY <1>2, <3>2
        <4>2. Restates(ForBudget(list[Len(list)], Len(list), b), list[Len(list)])
          BY <3>4, <4>1, ToldFields
        <4> QED BY <3>4, <4>2 DEF Restates
      <3>6. EndsAsAnswered(told[Len(told)], answers[b]) /\ ~told[Len(told)].launched
        BY <3>3, <3>5 DEF EndsAsAnswered
      <3>7. SharedWith(told, b, series)
        BY <1>2, <3>2, <3>3 DEF SharedWith
      <3>8. carried'[b] = told /\ told # <<>>
        BY <1>1, <2>1, <3>1, <3>3
      <3> QED BY <3>3, <3>6, <3>7, <3>8 DEF TellsOf
    <2>2. CASE ~options.sweep
      <3>1. b = MaxAttempts /\ carried'[b] = list /\ list # <<>>
        BY <1>1, <2>2
      <3> QED BY <2>2, <3>1 DEF TellsOf
    <2> QED BY <2>1, <2>2
  <1>4. ASSUME NEW b \in Budgets \ bs, IsTold(b)
        PROVE  TellsOf(carried'[b], b, options.sweep, suffered, series, answers[b])
    <2>1. carried'[b] = carried[b] /\ TellsOf(carried[b], b, options.sweep, suffered, provenance, submitted[b])
      BY <1>1, <1>4 DEF RecordInv
    <2>2. options.sweep /\ SharedWith(carried[b], b, provenance) => SharedWith(carried[b], b, series)
      BY <1>4 DEF SharedWith
    <2> QED BY <1>4, <2>1, <2>2 DEF TellsOf
  <1>5. \A b \in Budgets : carried'[b] # <<>> <=> b \in bs \/ IsTold(b)
    BY <1>1, <1>3 DEF IsTold
  <1> QED BY <1>1, <1>3, <1>4, <1>5 DEF CarriedTo, IsTold

-----------------------------------------------------------------------------
(***************************************************************************)
(* The steps.                                                              *)
(***************************************************************************)
\* The last entry of the series: every budget that has no answer yet is given the chain.
LEMMA ClosedKeeps ==
  ASSUME RetryInv, RecordInv, recorded, Underway, phase # "attempt", NEW e, NEW bs \in SUBSET Budgets,
         Follows(provenance, e, suffered), ~e.launched, e.budget = MaxAttempts, e.final = (attempt = MaxAttempts),
         Close(e, bs),
         IF options.sweep THEN \A b \in bs : attempt <= b ELSE bs = {MaxAttempts},
         \A b \in bs : EndsAsAnswered(e, submitted'[b]),
         \A b \in Budgets \ bs : submitted'[b] = submitted[b],
         options.sweep => \A b \in Budgets : b \in bs \/ (IsTold(b) /\ b <= attempt),
         UNCHANGED <<recorded, rollbacks, suffered, options, attempt>>,
         phase' \in {"verify", "advance", "returned"}, phase' # "returned" => settled'
  PROVE  RecordInv'
  <1>1. PICK list : list = Append(provenance, e)
    OBVIOUS
  <1>2. /\ provenance' = list /\ Carry(list, bs)
        /\ Linked(list, suffered) /\ OfBudget(list, MaxAttempts)
        /\ Len(list) = attempt /\ list[attempt] = e
        /\ \A i \in 1..(attempt - 1) : list[i] = provenance[i]
    BY <1>1, ChainWith DEF Close
  <1>3. /\ attempt \in Nat /\ attempt # 0 /\ Len(provenance) = attempt - 1 /\ MaxAttempts \in Budgets
        /\ \A b \in Budgets : b \in Nat
    BY RetryAssumption DEF RetryInv, RetryTypeOK, Budgets, Underway
  <1>4. PICK answers : answers = submitted'
    OBVIOUS
  <1>5. \A b \in bs : EndsAsAnswered(list[Len(list)], answers[b])
    BY <1>2, <1>4
  <1>6. \A b \in Budgets \ bs : options.sweep /\ IsTold(b) =>
          \A i \in 1..(b - 1) : (i <= Len(provenance) <=> i <= Len(list)) /\ (i <= Len(provenance) => list[i] = provenance[i])
    <2> SUFFICES ASSUME NEW b \in Budgets \ bs, options.sweep, NEW i \in 1..(b - 1)
                 PROVE  i <= Len(provenance) /\ i <= Len(list) /\ list[i] = provenance[i]
      OBVIOUS
    <2>1. b <= attempt /\ b \in Nat
      BY <1>3
    <2>2. i \in 1..(attempt - 1)
      BY <1>3, <2>1
    <2> QED BY <1>2, <1>3, <2>2
  <1>7. /\ carried' = [b \in Budgets |-> carried'[b]]
        /\ \A b \in Budgets : carried'[b] # <<>> <=> b \in bs \/ IsTold(b)
        /\ \A b \in Budgets : carried'[b] # <<>> => TellsOf(carried'[b], b, options.sweep, suffered, list, answers[b])
    <2>1. Len(list) # 0 /\ ~list[Len(list)].launched
      BY <1>2, <1>3
    <2>2. IF options.sweep THEN \A b \in bs : Len(list) <= b ELSE bs = {MaxAttempts}
      BY <1>2
    <2>3. \A b \in bs : \A i \in 1..(b - 1) : (i <= Len(list) <=> i <= Len(list)) /\ (i <= Len(list) => list[i] = list[i])
      OBVIOUS
    <2>4. \A b \in Budgets \ bs : answers[b] = submitted[b]
      BY <1>4
    <2>5. MayCarry(list, bs, list, answers)
      BY <1>2, <1>5, <1>6, <2>1, <2>2, <2>3, <2>4 DEF MayCarry
    <2>6. CarriedTo(bs, list, answers)
      BY <2>5, Carrying
    <2> QED BY <2>6 DEF CarriedTo
  <1>8. Sufferings'
    BY DEF RecordInv, Sufferings
  <1>9. ToldSoFar'
    <2>1. \A b \in Budgets : options.sweep => carried'[b] # <<>>
      BY <1>7
    <2>2. ~options.sweep => carried'[MaxAttempts] # <<>>
      BY <1>3, <1>7
    <2> QED BY <2>1, <2>2 DEF ToldSoFar, IsTold, Budgets
  <1>10. ~GoesOn'
    BY DEF GoesOn
  <1>11. (\A b \in Budgets : IsTold(b) => TellsOf(carried[b], b, options.sweep, suffered, provenance, submitted[b]))'
    <2> SUFFICES ASSUME NEW b \in Budgets, carried'[b] # <<>>
                 PROVE  TellsOf(carried'[b], b, options'.sweep, suffered', provenance', submitted'[b])
      BY DEF IsTold, Budgets, TellsOf, EndsAsAnswered, SharedWith, OfBudget, Linked, LinkedAt
    <2> QED BY <1>2, <1>4, <1>7
  <1>12. Linked(provenance, suffered)' /\ OfBudget(provenance, MaxAttempts)'
    BY <1>2 DEF Linked, LinkedAt, OfBudget
  <1>13. (carried = [b \in Budgets |-> carried[b]])'
    BY <1>7 DEF Budgets
  <1>14. recorded' \in BOOLEAN
    BY DEF RecordInv
  <1> QED BY <1>8, <1>9, <1>10, <1>11, <1>12, <1>13, <1>14 DEF RecordInv

\* The entry of an attempt that another one follows.
LEMMA GoneOnKeeps ==
  ASSUME RetryInv, RecordInv, recorded, Underway, phase # "attempt", ~IsFinal,
         NEW o, o.reason \in Reasons \cup {"none"}, NEW count \in Nat,
         count = IF o.reason # "turn_limit" THEN 0 ELSE CountBefore(provenance) + 1,
         GoOn(o, count), noBox' = count, phase' = "attempt", attempt' = attempt + 1,
         UNCHANGED <<recorded, rollbacks, suffered, options, submitted>>,
         options.sweep => \A b \in Budgets : IsTold(b) <=> b <= attempt
  PROVE  RecordInv'
  <1>1. PICK e : e = RetryEntry(o, count)
    OBVIOUS
  <1>2. RetryReason(o) \in RetryWhys
    <2>1. CASE o.reason \notin {"turn_limit", "prompted", "cut"}
      BY <2>1 DEF RetryReason, RetryWhys
    <2>2. CASE o.reason = "turn_limit"
      BY <2>2 DEF RetryReason, RetryWhys
    <2>3. CASE o.reason = "prompted"
      BY <2>3 DEF RetryReason, RetryWhys
    <2>4. CASE o.reason = "cut"
      BY <2>4 DEF RetryReason, RetryWhys
    <2> QED BY <2>1, <2>2, <2>3, <2>4
  <1>3. /\ Follows(provenance, e, suffered) /\ e.final = FALSE /\ e.budget = MaxAttempts
        /\ e.reason = o.reason /\ e.noBox = count /\ e.launched
    <2>1. PICK why \in RetryWhys : why = RetryReason(o)
      BY <1>2
    <2>2. e = Entry(o, "format_error", count, FALSE, "retry", why)
      BY <1>1, <2>1 DEF RetryEntry
    <2>3. PICK decision \in Counted : decision = "retry"
      BY EntryWords
    <2>4. PICK status \in Statuses : status = "format_error"
      BY EntryWords
    <2>5. PICK final \in BOOLEAN : final = FALSE
      OBVIOUS
    <2>6. why \in Whys /\ e = Entry(o, status, count, final, decision, why)
      BY <2>1, <2>2, <2>3, <2>4, <2>5, EntryWords
    <2>7. Noted(e, o.reason, status, count, final, decision)
      BY <2>6, CountedEntry
    <2> QED BY <2>3, <2>5, <2>7 DEF Noted
  <1>4. e.final = (attempt = MaxAttempts)
    BY <1>3 DEF IsFinal
  <1>5. PICK list : list = Append(provenance, e)
    OBVIOUS
  <1>6. /\ provenance' = list
        /\ Linked(list, suffered) /\ OfBudget(list, MaxAttempts) /\ AllLaunched(list)
        /\ Len(list) = attempt /\ list[attempt] = e
        /\ \A i \in 1..(attempt - 1) : list[i] = provenance[i]
    BY <1>1, <1>3, <1>4, <1>5, ChainWith DEF GoOn
  <1>7. /\ attempt \in Nat /\ attempt # 0 /\ Len(provenance) = attempt - 1
        /\ \A b \in Budgets : b \in Nat
    BY RetryAssumption DEF RetryInv, RetryTypeOK, Budgets, Underway
  <1>8. carried' = carried /\ previous' = o.reason
    BY DEF GoOn
  <1>9. Underway'
    <2>1. Len(list) = attempt' - 1 /\ LastReason(list) = o.reason /\ CountBefore(list) = count
      BY <1>3, <1>6, <1>7 DEF LastReason, CountBefore
    <2> QED BY <1>6, <1>8, <2>1 DEF Underway, AllLaunched, LastReason, CountBefore
  <1>10. Sufferings'
    BY <1>7 DEF RecordInv, Sufferings
  <1>11. ToldSoFar'
    BY <1>7, <1>8 DEF ToldSoFar, IsTold, Budgets
  <1>12. (\A b \in Budgets : IsTold(b) => TellsOf(carried[b], b, options.sweep, suffered, provenance, submitted[b]))'
    <2> SUFFICES ASSUME NEW b \in Budgets, IsTold(b)
                 PROVE  TellsOf(carried[b], b, options.sweep, suffered, list, submitted[b])
      BY <1>6, <1>8 DEF IsTold, Budgets, TellsOf, EndsAsAnswered, SharedWith, OfBudget, Linked, LinkedAt
    <2>1. TellsOf(carried[b], b, options.sweep, suffered, provenance, submitted[b])
      BY DEF RecordInv
    <2>2. options.sweep => SharedWith(carried[b], b, list)
      <3> SUFFICES ASSUME options.sweep, NEW i \in 1..(b - 1)
                   PROVE  /\ i <= Len(carried[b]) <=> i <= Len(list)
                          /\ i <= Len(carried[b]) => carried[b][i] = ForBudget(list[i], i, b)
        BY DEF SharedWith
      <3>1. i \in 1..(attempt - 1)
        BY <1>7
      <3>2. i <= Len(list) /\ i <= Len(provenance) /\ list[i] = provenance[i]
        BY <1>6, <1>7, <3>1
      <3> QED BY <2>1, <3>2 DEF TellsOf, SharedWith
    <2> QED BY <2>1, <2>2 DEF TellsOf
  <1>13. Linked(provenance, suffered)' /\ OfBudget(provenance, MaxAttempts)'
    BY <1>6 DEF Linked, LinkedAt, OfBudget
  <1>14. (carried = [b \in Budgets |-> carried[b]])' /\ recorded' \in BOOLEAN
    BY <1>8 DEF RecordInv, Budgets
  <1> QED BY <1>9, <1>10, <1>11, <1>12, <1>13, <1>14 DEF RecordInv

\* What is submitted for some budgets.
LEMMA SubmitsTo ==
  ASSUME NEW output, NEW bs \in SUBSET Budgets, Submit(output, bs) \/ Return(output, bs)
  PROVE  /\ \A b \in bs : submitted'[b] = output
         /\ \A b \in Budgets \ bs : submitted'[b] = submitted[b]
  BY DEF Submit, Return

\* An attempt begins: its rollbacks are its own.
LEMMA AttemptRecorded ==
  ASSUME RetryInv, RecordInv, recorded, RecordedAttempt
  PROVE  RecordInv'
  <1>1. /\ phase = "attempt" /\ phase' = "prepare"
        /\ UNCHANGED <<options, attempt, settled, noBox, submitted, recorded, provenance, previous, carried>>
    BY DEF RecordedAttempt, RunAttempt, resultVars
  <1>2. PICK events \in Storms : rollbacks' = events /\ suffered' = Append(suffered, events)
    BY DEF RecordedAttempt, FreshRollbacks
  <1>3. /\ suffered \in Seq(Storms) /\ Len(suffered) = attempt - 1 /\ attempt \in Nat
    BY <1>1, RetryAssumption DEF RecordInv, Sufferings, RetryInv, RetryTypeOK, Budgets
  <1>4. Sufferings'
    BY <1>1, <1>2, <1>3 DEF Sufferings
  <1>5. Linked(provenance, suffered') /\ OfBudget(provenance, MaxAttempts)
    BY <1>2, <1>3, ChainKept DEF RecordInv
  <1>6. Underway'
    BY <1>1 DEF RecordInv, GoesOn, Underway, AllLaunched, LastReason, CountBefore
  <1>7. ToldSoFar'
    BY <1>1 DEF RecordInv, ToldSoFar, IsTold, Budgets
  <1>8. ASSUME NEW b \in Budgets, IsTold(b)
        PROVE  TellsOf(carried[b], b, options.sweep, suffered', provenance, submitted[b])
    <2>1. TellsOf(carried[b], b, options.sweep, suffered, provenance, submitted[b])
      BY <1>8 DEF RecordInv
    <2>2. Linked(carried[b], suffered')
      BY <1>2, <1>3, <2>1, ChainKept DEF TellsOf
    <2> QED BY <2>1, <2>2 DEF TellsOf
  <1>9. (\A b \in Budgets : IsTold(b) => TellsOf(carried[b], b, options.sweep, suffered, provenance, submitted[b]))'
    BY <1>1, <1>8 DEF IsTold, Budgets, TellsOf, EndsAsAnswered, SharedWith, OfBudget, Linked, LinkedAt
  <1>10. Linked(provenance, suffered)' /\ OfBudget(provenance, MaxAttempts)'
    BY <1>1, <1>5 DEF Linked, LinkedAt, OfBudget
  <1>11. (carried = [b \in Budgets |-> carried[b]])' /\ recorded' \in BOOLEAN
    BY <1>1 DEF RecordInv, Budgets
  <1> QED BY <1>4, <1>6, <1>7, <1>9, <1>10, <1>11 DEF RecordInv

\* Nothing of it is recorded.
LEMMA NothingRecorded ==
  ASSUME RecordInv, recorded, UNCHANGED recordVars, UNCHANGED <<options, attempt, submitted>>,
         phase # "attempt", phase' # "attempt", GoesOn' => Underway', ToldSoFar'
  PROVE  RecordInv'
  <1>1. UNCHANGED <<recorded, rollbacks, suffered, provenance, previous, carried>>
    BY DEF recordVars
  <1>2. Sufferings'
    BY <1>1 DEF RecordInv, Sufferings
  <1>3. (\A b \in Budgets : IsTold(b) => TellsOf(carried[b], b, options.sweep, suffered, provenance, submitted[b]))'
    BY <1>1 DEF RecordInv, IsTold, Budgets, TellsOf, EndsAsAnswered, SharedWith, OfBudget, Linked, LinkedAt
  <1>4. Linked(provenance, suffered)' /\ OfBudget(provenance, MaxAttempts)'
    BY <1>1 DEF RecordInv, Linked, LinkedAt, OfBudget
  <1>5. (carried = [b \in Budgets |-> carried[b]])' /\ recorded' \in BOOLEAN
    BY <1>1 DEF RecordInv, Budgets
  <1> QED BY <1>2, <1>3, <1>4, <1>5 DEF RecordInv

LEMMA VerificationRecorded ==
  ASSUME RetryInv, RecordInv, recorded, RecordedVerification
  PROVE  RecordInv'
  <1>1. /\ phase \in {"verify", "reanswer"} /\ phase' \in {"verify", "reanswer", "advance"}
        /\ UNCHANGED <<options, attempt, result, settled, noBox, submitted>>
        /\ UNCHANGED recordVars
    BY DEF RecordedVerification, Verify, Reanswer, Conclude, Continue, auxiliaryUnchanged
  <1>2. GoesOn' => Underway'
    BY <1>1 DEF RecordInv, GoesOn, Underway, recordVars, AllLaunched, LastReason, CountBefore
  <1>3. ToldSoFar'
    BY <1>1 DEF RecordInv, ToldSoFar, IsTold, recordVars, Budgets
  <1> QED BY <1>1, <1>2, <1>3, NothingRecorded

LEMMA AdvanceRecorded ==
  ASSUME RetryInv, RecordInv, recorded, RecordedAdvance
  PROVE  RecordInv'
  <1>1. /\ Advance /\ phase = "advance" /\ UNCHANGED <<options, settled, noBox, recorded, rollbacks, suffered>>
    BY DEF RecordedAdvance, Advance
  <1>2. /\ attempt \in Nat /\ attempt # 0 /\ MaxAttempts \in Nat /\ attempt <= MaxAttempts
        /\ noBox \in Nat /\ result.reason \in Reasons \cup {"none"} /\ \A b \in Budgets : b \in 1..MaxAttempts
    BY RetryAssumption DEF RetryInv, RetryTypeOK, Budgets
  <1>3. CASE settled
    <2>1. UNCHANGED <<provenance, previous, carried>>
      BY <1>3 DEF RecordedAdvance
    <2>2. phase' = "returned" /\ UNCHANGED <<attempt, submitted>>
      BY <1>1, <1>3 DEF Advance, Stay, resultVars
    <2>3. ~GoesOn'
      BY <2>2 DEF GoesOn
    <2>4. ToldSoFar'
      BY <1>1, <1>3, <2>1, <2>2 DEF RecordInv, ToldSoFar, IsTold, Budgets
    <2> QED BY <1>1, <2>1, <2>2, <2>3, <2>4, NothingRecorded DEF recordVars
  <1>4. ASSUME ~settled
        PROVE  /\ Underway /\ options.sweep /\ ~IsFinal
               /\ noBox = IF result.reason = "turn_limit" THEN CountBefore(provenance) + 1 ELSE 0
               /\ \A b \in Budgets : IsTold(b) <=> b <= attempt
    <2>1. options.sweep /\ ~IsFinal
      BY <1>1, <1>4 DEF RetryInv, BudgetsInTurn, AnsweredSoFar, SettledWhenFinal, Decided
    <2>2. Underway
      BY <1>1, <1>4 DEF RecordInv, GoesOn
    <2>3. \A b \in Budgets : IsTold(b) <=> b <= attempt
      BY <1>1, <1>4, <2>1 DEF RecordInv, ToldSoFar
    <2> QED BY <1>1, <2>1, <2>2, <2>3 DEF Underway
  <1>5. CASE ~settled /\ Capped(noBox)
    <2> DEFINE bs == (attempt + 1)..MaxAttempts
    <2>1. Close(CapEntry(result, noBox), bs)
      BY <1>5 DEF RecordedAdvance
    <2>2. phase' = "returned" /\ UNCHANGED attempt /\ Return(result.output, bs)
      BY <1>1, <1>5 DEF Advance, Stay, Return
    <2>3. PICK e : e = CapEntry(result, noBox)
      OBVIOUS
    <2>4. /\ Follows(provenance, e, suffered) /\ e.decision = "block_no_box_turn_limit_cap" /\ e.final = FALSE
          /\ e.budget = MaxAttempts /\ ~e.launched
      <3>1. phase # "attempt" /\ Underway /\ result.reason \in Reasons \cup {"none"}
        BY <1>1, <1>2, <1>4, <1>5
      <3>2. PICK n \in Nat : n = noBox
        BY <1>2
      <3>3. n = IF result.reason # "turn_limit" THEN 0 ELSE CountBefore(provenance) + 1
        BY <1>4, <1>5, <3>2
      <3>4. PICK decision \in Counted : decision = "block_no_box_turn_limit_cap"
        BY EntryWords
      <3>5. PICK status \in Statuses : status = "format_error"
        BY EntryWords
      <3>6. PICK final \in BOOLEAN : final = FALSE
        OBVIOUS
      <3>7. PICK why \in Whys : why = "no_box_turn_limit_cap"
        BY EntryWords
      <3>8. e = Entry(result, status, n, final, decision, why)
        BY <2>3, <3>2, <3>4, <3>5, <3>6, <3>7 DEF CapEntry
      <3>9. Noted(e, result.reason, status, n, final, decision)
        BY <3>1, <3>3, <3>8, CountedEntry
      <3> QED BY <3>4, <3>6, <3>9 DEF Noted
    <2>5. e.final = (attempt = MaxAttempts)
      BY <1>4, <1>5, <2>4 DEF IsFinal
    <2>6. bs \in SUBSET Budgets /\ \A b \in bs : attempt <= b
      BY <1>2 DEF Budgets
    <2>7. \A b \in Budgets : b \in bs \/ (IsTold(b) /\ b <= attempt)
      BY <1>2, <1>4, <1>5
    <2>8. \A b \in Budgets \ bs : submitted'[b] = submitted[b]
      BY <2>2, <2>6, SubmitsTo
    <2>9. \A b \in bs : EndsAsAnswered(e, submitted'[b])
      BY <2>4 DEF EndsAsAnswered
    <2> HIDE DEF bs
    <2> QED BY <1>1, <1>4, <1>5, <2>1, <2>2, <2>3, <2>4, <2>5, <2>6, <2>7, <2>8, <2>9, ClosedKeeps
  <1>6. CASE ~settled /\ ~Capped(noBox)
    <2>1. GoOn(result, noBox)
      BY <1>6 DEF RecordedAdvance
    <2>2. phase' = "attempt" /\ attempt' = attempt + 1 /\ UNCHANGED submitted
      BY <1>1, <1>6 DEF Advance, NextAttempt, resultVars
    <2>3. noBox = IF result.reason # "turn_limit" THEN 0 ELSE CountBefore(provenance) + 1
      BY <1>4, <1>6
    <2> QED BY <1>1, <1>2, <1>4, <1>6, <2>1, <2>2, <2>3, GoneOnKeeps
  <1> QED BY <1>3, <1>5, <1>6

\* The answer had the attempt been the last one: its list is a copy of the series'.
LEMMA FinalizeRecorded ==
  ASSUME RetryInv, RecordInv, recorded, RecordedFinalize
  PROVE  RecordInv'
  <1>1. PICK source \in FinalSources :
          \E output \in PreparedOutputs(source, TRUE) :
            /\ FinalizeFrom(source, output)
            /\ LET count == IF source.reason = "turn_limit" /\ noBox = 0 THEN 1 ELSE noBox
                   entry == IF Valid(output) THEN SuccessEntry(source, noBox, TRUE) ELSE FinalEntry(source, output, count)
               IN  Carry(With(provenance, entry), {attempt})
    BY DEF RecordedFinalize
  <1>2. PICK output \in PreparedOutputs(source, TRUE) :
            /\ FinalizeFrom(source, output)
            /\ LET count == IF source.reason = "turn_limit" /\ noBox = 0 THEN 1 ELSE noBox
                   entry == IF Valid(output) THEN SuccessEntry(source, noBox, TRUE) ELSE FinalEntry(source, output, count)
               IN  Carry(With(provenance, entry), {attempt})
    BY <1>1
  <1> DEFINE count == IF source.reason = "turn_limit" /\ noBox = 0 THEN 1 ELSE noBox
             entry == IF Valid(output) THEN SuccessEntry(source, noBox, TRUE) ELSE FinalEntry(source, output, count)
             answer == Fallback(output, summary)
  <1>3. UNCHANGED <<recorded, rollbacks, suffered, provenance, previous>> /\ Carry(With(provenance, entry), {attempt})
    BY <1>2 DEF RecordedFinalize
  <1>4. /\ phase = "finalize" /\ Submit(answer, {attempt})
        /\ UNCHANGED <<options, attempt, result, settled, noBox>>
    BY <1>2 DEF FinalizeFrom
  <1>5. phase' \in {"verify", "advance"}
    BY <1>4 DEF Submit
  <1>6. /\ attempt \in Nat /\ attempt # 0 /\ MaxAttempts \in Nat /\ attempt <= MaxAttempts /\ attempt \in Budgets
        /\ noBox \in Nat /\ source.reason \in Reasons \cup {"none"} /\ \A b \in Budgets : b \in 1..MaxAttempts
    BY RetryAssumption DEF RetryInv, RetryTypeOK, Budgets, FinalSources, Outcomes
  <1>7. Underway /\ options.sweep /\ (settled => IsFinal) /\ \A b \in Budgets : IsTold(b) <=> b < attempt
    BY <1>4 DEF RecordInv, GoesOn, ToldSoFar, RetryInv, BudgetsInTurn, SettledWhenFinal
  <1>8. count \in Nat
    BY <1>6
  <1> HIDE DEF count
  <1>9. PICK e : e = entry
    OBVIOUS
  <1>10. Follows(provenance, e, suffered) /\ ~e.launched /\ EndsAsAnswered(e, answer) /\ e.budget = MaxAttempts
    <2>1. CASE Valid(output)
      <3>1. e = Entry(source, "valid", noBox, TRUE, "return_success", "valid_output") /\ answer = output
        BY <1>9, <2>1 DEF SuccessEntry, Fallback
      <3>2. Follows(provenance, e, suffered) /\ e.status = "valid" /\ ~e.launched /\ e.budget = MaxAttempts
        <4>1. phase # "attempt" /\ Underway
          BY <1>4, <1>7
        <4>2. PICK decision \in Decisions : decision = "return_success" /\ decision \notin Counted
          BY EntryWords
        <4>3. PICK status \in Statuses : status = "valid"
          BY EntryWords
        <4>4. PICK final \in BOOLEAN : final = TRUE
          OBVIOUS
        <4>5. PICK why \in Whys : why = "valid_output"
          BY EntryWords
        <4>6. e = Entry(source, status, noBox, final, decision, why)
          BY <3>1, <4>2, <4>3, <4>4, <4>5
        <4>7. Follows(provenance, e, suffered) /\ e.status = status /\ ~e.launched /\ e.budget = MaxAttempts
          BY <1>6, <1>8, <4>1, <4>2, <4>6, ClosingEntry
        <4> QED BY <4>3, <4>7
      <3> QED BY <2>1, <3>1, <3>2 DEF EndsAsAnswered
    <2>2. CASE ~Valid(output) /\ Valid(answer)
      <3>1. PICK why \in Whys : why = IF Valid(boxed) THEN "intermediate_boxed_fallback" ELSE "compression_state_answer_attempt"
        BY EntryWords
      <3>2. e = Entry(source, "valid", count, TRUE, "return_final_fallback", why)
        BY <1>9, <2>2, <3>1 DEF FinalEntry
      <3>3. Follows(provenance, e, suffered) /\ e.status = "valid" /\ ~e.launched /\ e.budget = MaxAttempts
        <4>1. phase # "attempt" /\ Underway
          BY <1>4, <1>7
        <4>2. PICK decision \in Decisions : decision = "return_final_fallback" /\ decision \notin Counted
          BY EntryWords
        <4>3. PICK status \in Statuses : status = "valid"
          BY EntryWords
        <4>4. PICK final \in BOOLEAN : final = TRUE
          OBVIOUS
        <4>6. e = Entry(source, status, count, final, decision, why)
          BY <3>2, <4>2, <4>3, <4>4
        <4>7. Follows(provenance, e, suffered) /\ e.status = status /\ ~e.launched /\ e.budget = MaxAttempts
          BY <1>6, <1>8, <4>1, <4>2, <4>6, ClosingEntry
        <4> QED BY <4>3, <4>7
      <3> QED BY <2>2, <3>3 DEF EndsAsAnswered
    <2>3. CASE ~Valid(output) /\ ~Valid(answer)
      <3>1. e = Entry(source, "format_error", count, TRUE, "return_final_failure", "final_attempt")
        BY <1>9, <2>3 DEF FinalEntry
      <3>2. Follows(provenance, e, suffered) /\ e.status = "format_error" /\ ~e.launched /\ e.budget = MaxAttempts
        <4>1. phase # "attempt" /\ Underway
          BY <1>4, <1>7
        <4>2. PICK decision \in Decisions : decision = "return_final_failure" /\ decision \notin Counted
          BY EntryWords
        <4>3. PICK status \in Statuses : status = "format_error"
          BY EntryWords
        <4>4. PICK final \in BOOLEAN : final = TRUE
          OBVIOUS
        <4>5. PICK why \in Whys : why = "final_attempt"
          BY EntryWords
        <4>6. e = Entry(source, status, count, final, decision, why)
          BY <3>1, <4>2, <4>3, <4>4, <4>5
        <4>7. Follows(provenance, e, suffered) /\ e.status = status /\ ~e.launched /\ e.budget = MaxAttempts
          BY <1>6, <1>8, <4>1, <4>2, <4>6, ClosingEntry
        <4> QED BY <4>3, <4>7
      <3> QED BY <2>3, <3>2 DEF EndsAsAnswered
    <2> QED BY <2>1, <2>2, <2>3
  <1> HIDE DEF entry, answer
  <1>11. PICK list : list = Append(provenance, e)
    OBVIOUS
  <1>12. /\ With(provenance, e) = list /\ Linked(list, suffered)
         /\ Len(list) = attempt /\ list[attempt] = e
         /\ \A i \in 1..(attempt - 1) : list[i] = provenance[i]
    BY <1>7, <1>10, <1>11, ChainWith
  <1>13. PICK answers : answers = submitted'
    OBVIOUS
  <1>14. answers[attempt] = answer /\ \A b \in Budgets \ {attempt} : answers[b] = submitted[b]
    BY <1>4, <1>6, <1>13, SubmitsTo
  <1>15. /\ carried' = [b \in Budgets |-> carried'[b]]
         /\ \A b \in Budgets : carried'[b] # <<>> <=> b \in {attempt} \/ IsTold(b)
         /\ \A b \in Budgets : carried'[b] # <<>> => TellsOf(carried'[b], b, options.sweep, suffered, provenance, answers[b])
    <2>0. PICK bs \in SUBSET Budgets : bs = {attempt}
      BY <1>6
    <2>9. PICK series : series = provenance
      OBVIOUS
    <2>1. Carry(list, bs)
      BY <1>3, <1>9, <1>12, <2>0
    <2>2. Len(list) # 0 /\ ~list[Len(list)].launched
      BY <1>6, <1>10, <1>12
    <2>3. IF options.sweep THEN \A b \in bs : Len(list) <= b ELSE bs = {MaxAttempts}
      BY <1>6, <1>7, <1>12, <2>0
    <2>4. \A b \in bs : EndsAsAnswered(list[Len(list)], answers[b])
      BY <1>10, <1>12, <1>14, <2>0
    <2>5. \A b \in bs : \A i \in 1..(b - 1) :
            (i <= Len(list) <=> i <= Len(series)) /\ (i <= Len(list) => list[i] = series[i])
      BY <1>6, <1>7, <1>12, <2>0, <2>9 DEF Underway
    <2>6. \A b \in Budgets \ bs : answers[b] = submitted[b]
      BY <1>14, <2>0
    <2>7. \A b \in Budgets \ bs : options.sweep /\ IsTold(b) => \A i \in 1..(b - 1) :
            (i <= Len(provenance) <=> i <= Len(series)) /\ (i <= Len(provenance) => series[i] = provenance[i])
      BY <2>9
    <2>8. MayCarry(list, bs, series, answers)
      BY <1>7, <1>12, <2>1, <2>2, <2>3, <2>4, <2>5, <2>6, <2>7 DEF MayCarry
    <2>10. CarriedTo(bs, series, answers)
      BY <2>8, Carrying
    <2> QED BY <2>0, <2>9, <2>10 DEF CarriedTo
  <1>16. Sufferings'
    BY <1>3, <1>4, <1>5 DEF RecordInv, Sufferings
  <1>17. ToldSoFar'
    <2>1. \A b \in Budgets : carried'[b] # <<>> <=> b <= attempt
      BY <1>6, <1>7, <1>15
    <2>2. settled => \A b \in Budgets : b <= attempt
      BY <1>6, <1>7 DEF IsFinal
    <2> QED BY <1>4, <1>5, <1>7, <2>1, <2>2 DEF ToldSoFar, IsTold, Budgets
  <1>18. Underway'
    BY <1>3, <1>4, <1>5, <1>7 DEF Underway, AllLaunched, LastReason, CountBefore
  <1>19. (\A b \in Budgets : IsTold(b) => TellsOf(carried[b], b, options.sweep, suffered, provenance, submitted[b]))'
    <2> SUFFICES ASSUME NEW b \in Budgets, carried'[b] # <<>>
                 PROVE  TellsOf(carried'[b], b, options'.sweep, suffered', provenance', submitted'[b])
      BY DEF IsTold, Budgets, TellsOf, EndsAsAnswered, SharedWith, OfBudget, Linked, LinkedAt
    <2> QED BY <1>3, <1>4, <1>13, <1>15
  <1>20. Linked(provenance, suffered)' /\ OfBudget(provenance, MaxAttempts)'
    BY <1>3 DEF RecordInv, Linked, LinkedAt, OfBudget
  <1>21. (carried = [b \in Budgets |-> carried[b]])' /\ recorded' \in BOOLEAN
    BY <1>3, <1>15 DEF RecordInv, Budgets
  <1> QED BY <1>16, <1>17, <1>18, <1>19, <1>20, <1>21 DEF RecordInv

LEMMA PrepareRecorded ==
  ASSUME RetryInv, RecordInv, recorded, RecordedPrepare
  PROVE  RecordInv'
  <1>1. PICK output \in PreparedOutputs(result, IsFinal) :
       LET count == NextNoBox(result, output)
           here == IF Rejected(result, IsFinal) THEN result ELSE [result EXCEPT !.output = output]
       IN  /\ settled' = (Valid(output) \/ IsFinal)
           /\ noBox' = count
           /\ \/ /\ Valid(output)
                 /\ Submit(output, BudgetsServed)
                 /\ Stay(here)
              \/ /\ ~Valid(output) /\ options.sweep
                 /\ phase' = "finalize"
                 /\ Stay(here)
                 /\ UNCHANGED resultVars
              \/ /\ ~Valid(output) /\ ~options.sweep /\ IsFinal
                 /\ Submit(Fallback(output, summary), {MaxAttempts})
                 /\ Stay(here)
              \/ /\ ~Valid(output) /\ ~options.sweep /\ Capped(count)
                 /\ Return(result.output, {MaxAttempts})
                 /\ Stay(here)
              \/ /\ ~Valid(output) /\ ~options.sweep /\ ~IsFinal /\ ~Capped(count)
                 /\ NextAttempt
                 /\ UNCHANGED resultVars
    BY DEF RecordedPrepare, Prepare
  <1> DEFINE count == NextNoBox(result, output)
             here == IF Rejected(result, IsFinal) THEN result ELSE [result EXCEPT !.output = output]
             success == settled' /\ Valid(result'.output)
  <1>2. /\ phase = "prepare" /\ UNCHANGED <<options, summary, recorded, rollbacks, suffered>>
        /\ settled' = (Valid(output) \/ IsFinal) /\ noBox' = count
    BY <1>1 DEF RecordedPrepare, Prepare
  <1>3. /\ attempt \in Nat /\ attempt # 0 /\ MaxAttempts \in Nat /\ attempt <= MaxAttempts
        /\ attempt \in Budgets /\ MaxAttempts \in Budgets
        /\ noBox \in Nat /\ \A b \in Budgets : b \in 1..MaxAttempts
        /\ result \in [reason : Reasons \cup {"none"}, output : Outputs, boxed : Boxes, recovered : BOOLEAN]
    BY RetryAssumption DEF RetryInv, RetryTypeOK, Budgets
  <1>4. Underway /\ noBox = CountBefore(provenance) /\ (options.sweep => \A b \in Budgets : IsTold(b) <=> b < attempt)
    BY <1>2 DEF RecordInv, GoesOn, ToldSoFar, Underway
  <1>5. /\ count \in Nat
        /\ Valid(output) => count = 0
        /\ ~Valid(output) => count = IF result.reason # "turn_limit" THEN 0 ELSE CountBefore(provenance) + 1
    BY <1>3, <1>4 DEF NextNoBox
  <1>6. /\ Rejected(result, IsFinal) => output = FormatError /\ ~IsFinal
        /\ ~Valid(FormatError)
    BY Sentinels DEF PreparedOutputs, Rejected, Valid
  <1>7. here.reason = result.reason /\ (~Rejected(result, IsFinal) => here.output = output)
    BY <1>3
  <1>8. success <=> Valid(output)
    <2>1. CASE Valid(output)
      <3>1. result' = here /\ settled'
        BY <1>1, <2>1 DEF Stay
      <3> QED BY <1>6, <1>7, <2>1, <3>1
    <2>2. CASE ~Valid(output)
      <3> SUFFICES ASSUME settled'
                   PROVE  ~Valid(result'.output)
        BY <2>2
      <3>1. IsFinal
        BY <1>2, <2>2
      <3>2. result' = here
        BY <1>1, <2>2, <3>1 DEF Stay
      <3> QED BY <1>6, <1>7, <2>2, <3>1, <3>2
    <2> QED BY <2>1, <2>2
  <1>9. \/ /\ success
           /\ Close(SuccessEntry(result', noBox', IsFinal), BudgetsServed)
        \/ /\ ~success /\ options.sweep
           /\ UNCHANGED <<provenance, previous, carried>>
        \/ /\ ~success /\ ~options.sweep /\ IsFinal
           /\ Close(FinalEntry(result', result'.output, noBox'), {MaxAttempts})
        \/ /\ ~success /\ ~options.sweep /\ ~IsFinal /\ Capped(noBox')
           /\ Close(CapEntry(result, noBox'), {MaxAttempts})
        \/ /\ ~success /\ ~options.sweep /\ ~IsFinal /\ ~Capped(noBox')
           /\ GoOn(result, noBox')
    <2>1. Capped(noBox') => ~IsFinal
      BY DEF Capped
    <2> QED BY <2>1 DEF RecordedPrepare
  <1> HIDE DEF count, here, success
  <1>10. CASE Valid(output)
    <2>1. Close(SuccessEntry(result', noBox', IsFinal), BudgetsServed)
      BY <1>8, <1>9, <1>10
    <2>2. Submit(output, BudgetsServed) /\ result' = here /\ UNCHANGED attempt /\ settled'
      BY <1>1, <1>2, <1>10 DEF Stay, here, count
    <2>3. phase' \in {"verify", "advance"}
      BY <2>2 DEF Submit
    <2>4. PICK final \in BOOLEAN : final = IsFinal
      BY DEF IsFinal
    <2>5. PICK e : e = Entry(result', "valid", noBox', final, "return_success", "valid_output")
      OBVIOUS
    <2>6. /\ Follows(provenance, e, suffered) /\ e.status = "valid" /\ e.final = final
          /\ e.budget = MaxAttempts /\ ~e.launched
      <3>1. /\ result'.reason \in Reasons \cup {"none"} /\ noBox' \in Nat
            /\ phase # "attempt" /\ Underway
        BY <1>2, <1>3, <1>4, <1>5, <1>7, <2>2
      <3>2. PICK o : o = result'
        OBVIOUS
      <3>3. PICK n \in Nat : n = noBox'
        BY <3>1
      <3>4. o.reason \in Reasons \cup {"none"} /\ e = Entry(o, "valid", n, final, "return_success", "valid_output")
        BY <2>5, <3>1, <3>2, <3>3
      <3> QED BY <3>1, <3>4, EntryWords, ClosingEntry
    <2>7. e = SuccessEntry(result', noBox', IsFinal) /\ e.final = (attempt = MaxAttempts)
      BY <2>4, <2>5, <2>6 DEF SuccessEntry, IsFinal
    <2>8. /\ BudgetsServed \in SUBSET Budgets
          /\ IF options.sweep THEN \A b \in BudgetsServed : attempt <= b ELSE BudgetsServed = {MaxAttempts}
          /\ options.sweep => \A b \in Budgets : b \in BudgetsServed \/ (IsTold(b) /\ b <= attempt)
      BY <1>3, <1>4 DEF BudgetsServed, Budgets
    <2>9. /\ \A b \in BudgetsServed : submitted'[b] = output
          /\ \A b \in Budgets \ BudgetsServed : submitted'[b] = submitted[b]
      BY <2>2, <2>8, SubmitsTo
    <2>10. \A b \in BudgetsServed : EndsAsAnswered(e, submitted'[b])
      BY <1>10, <2>6, <2>9 DEF EndsAsAnswered
    <2> QED BY <1>2, <1>4, <2>1, <2>2, <2>3, <2>6, <2>7, <2>8, <2>9, <2>10, ClosedKeeps
  <1>11. CASE ~Valid(output) /\ options.sweep
    <2>1. UNCHANGED <<provenance, previous, carried>>
      BY <1>8, <1>9, <1>11
    <2>2. phase' = "finalize" /\ result' = here /\ UNCHANGED <<attempt, submitted>>
      BY <1>1, <1>11 DEF Stay, here, count, resultVars
    <2>3. Underway'
      BY <1>2, <1>4, <1>5, <1>7, <1>11, <2>1, <2>2 DEF Underway, AllLaunched, LastReason, CountBefore
    <2>4. ToldSoFar'
      BY <1>2, <1>4, <1>11, <2>1, <2>2 DEF ToldSoFar, IsTold, Budgets
    <2> QED BY <1>2, <2>1, <2>2, <2>3, <2>4, NothingRecorded DEF recordVars
  <1>12. CASE ~Valid(output) /\ ~options.sweep /\ IsFinal
    <2>1. Close(FinalEntry(result', result'.output, noBox'), {MaxAttempts})
      BY <1>8, <1>9, <1>12
    <2>2. Submit(Fallback(output, summary), {MaxAttempts}) /\ result' = here /\ UNCHANGED attempt /\ settled'
      BY <1>1, <1>2, <1>12 DEF Stay, here, count, Capped
    <2>3. phase' \in {"verify", "advance"}
      BY <2>2 DEF Submit
    <2>4. PICK answer : answer = Fallback(output, summary)
      OBVIOUS
    <2>5. PICK e : e = FinalEntry(result', result'.output, noBox')
      OBVIOUS
    <2>6. result'.output = output /\ result'.reason = result.reason
      BY <1>6, <1>7, <1>12, <2>2
    <2>7. /\ Follows(provenance, e, suffered) /\ e.final = TRUE /\ e.budget = MaxAttempts /\ ~e.launched
          /\ EndsAsAnswered(e, answer)
      <3>1. CASE Valid(answer)
        <4>1. PICK why \in Whys : why = IF Valid(boxed) THEN "intermediate_boxed_fallback" ELSE "compression_state_answer_attempt"
          BY EntryWords
        <4>2. e = Entry(result', "valid", noBox', TRUE, "return_final_fallback", why)
          BY <2>4, <2>5, <2>6, <3>1, <4>1 DEF FinalEntry
        <4>3. /\ Follows(provenance, e, suffered) /\ e.final = TRUE /\ e.budget = MaxAttempts /\ ~e.launched
              /\ e.status = "valid"
          <5>1. /\ result'.reason \in Reasons \cup {"none"} /\ noBox' \in Nat
                /\ phase # "attempt" /\ Underway
            BY <1>2, <1>3, <1>4, <1>5, <2>6
          <5>2. PICK o : o = result'
            OBVIOUS
          <5>3. PICK n \in Nat : n = noBox'
            BY <5>1
          <5>4. PICK decision \in Decisions : decision = "return_final_fallback" /\ decision \notin Counted
            BY EntryWords
          <5>5. PICK status \in Statuses : status = "valid"
            BY EntryWords
          <5>6. PICK final \in BOOLEAN : final = TRUE
            OBVIOUS
          <5>8. o.reason \in Reasons \cup {"none"} /\ e = Entry(o, status, n, final, decision, why)
            BY <4>2, <5>1, <5>2, <5>3, <5>4, <5>5, <5>6
          <5>9. /\ Follows(provenance, e, suffered) /\ e.status = status /\ e.final = final
                /\ e.budget = MaxAttempts /\ ~e.launched
            BY <5>1, <5>4, <5>8, ClosingEntry
          <5> QED BY <5>5, <5>6, <5>9
        <4> QED BY <3>1, <4>3 DEF EndsAsAnswered
      <3>2. CASE ~Valid(answer)
        <4>1. e = Entry(result', "format_error", noBox', TRUE, "return_final_failure", "final_attempt")
          BY <2>4, <2>5, <2>6, <3>2 DEF FinalEntry
        <4>2. /\ Follows(provenance, e, suffered) /\ e.final = TRUE /\ e.budget = MaxAttempts /\ ~e.launched
              /\ e.status = "format_error"
          <5>1. /\ result'.reason \in Reasons \cup {"none"} /\ noBox' \in Nat
                /\ phase # "attempt" /\ Underway
            BY <1>2, <1>3, <1>4, <1>5, <2>6
          <5>2. PICK o : o = result'
            OBVIOUS
          <5>3. PICK n \in Nat : n = noBox'
            BY <5>1
          <5>4. PICK decision \in Decisions : decision = "return_final_failure" /\ decision \notin Counted
            BY EntryWords
          <5>5. PICK status \in Statuses : status = "format_error"
            BY EntryWords
          <5>6. PICK final \in BOOLEAN : final = TRUE
            OBVIOUS
          <5>7. PICK why \in Whys : why = "final_attempt"
            BY EntryWords
          <5>8. o.reason \in Reasons \cup {"none"} /\ e = Entry(o, status, n, final, decision, why)
            BY <4>1, <5>1, <5>2, <5>3, <5>4, <5>5, <5>6, <5>7
          <5>9. /\ Follows(provenance, e, suffered) /\ e.status = status /\ e.final = final
                /\ e.budget = MaxAttempts /\ ~e.launched
            BY <5>1, <5>4, <5>8, ClosingEntry
          <5> QED BY <5>5, <5>6, <5>9
        <4> QED BY <3>2, <4>2 DEF EndsAsAnswered
      <3> QED BY <3>1, <3>2
    <2>8. {MaxAttempts} \in SUBSET Budgets /\ e.final = (attempt = MaxAttempts)
      BY <1>3, <1>12, <2>7 DEF IsFinal
    <2>9. /\ \A b \in {MaxAttempts} : submitted'[b] = answer
          /\ \A b \in Budgets \ {MaxAttempts} : submitted'[b] = submitted[b]
      BY <2>2, <2>4, <2>8, SubmitsTo
    <2>10. \A b \in {MaxAttempts} : EndsAsAnswered(e, submitted'[b])
      BY <2>7, <2>9
    <2> QED BY <1>2, <1>4, <1>12, <2>1, <2>2, <2>3, <2>5, <2>7, <2>8, <2>9, <2>10, ClosedKeeps
  <1>13. CASE ~Valid(output) /\ ~options.sweep /\ ~IsFinal /\ Capped(count)
    <2>1. Close(CapEntry(result, noBox'), {MaxAttempts})
      BY <1>2, <1>8, <1>9, <1>13
    <2>2. Return(result.output, {MaxAttempts}) /\ UNCHANGED attempt
      BY <1>1, <1>13 DEF Stay, count
    <2>3. phase' = "returned"
      BY <2>2 DEF Return
    <2>4. PICK e : e = CapEntry(result, noBox')
      OBVIOUS
    <2>5. /\ Follows(provenance, e, suffered) /\ e.decision = "block_no_box_turn_limit_cap" /\ e.final = FALSE
          /\ e.budget = MaxAttempts /\ ~e.launched
      <3>1. phase # "attempt" /\ Underway /\ result.reason \in Reasons \cup {"none"}
        BY <1>2, <1>3, <1>4
      <3>2. PICK n \in Nat : n = noBox'
        BY <1>2, <1>5
      <3>3. n = IF result.reason # "turn_limit" THEN 0 ELSE CountBefore(provenance) + 1
        BY <1>2, <1>5, <1>13, <3>2
      <3>4. PICK decision \in Counted : decision = "block_no_box_turn_limit_cap"
        BY EntryWords
      <3>5. PICK status \in Statuses : status = "format_error"
        BY EntryWords
      <3>6. PICK final \in BOOLEAN : final = FALSE
        OBVIOUS
      <3>7. PICK why \in Whys : why = "no_box_turn_limit_cap"
        BY EntryWords
      <3>8. e = Entry(result, status, n, final, decision, why)
        BY <2>4, <3>2, <3>4, <3>5, <3>6, <3>7 DEF CapEntry
      <3>9. Noted(e, result.reason, status, n, final, decision)
        BY <3>1, <3>3, <3>8, CountedEntry
      <3> QED BY <3>4, <3>6, <3>9 DEF Noted
    <2>6. {MaxAttempts} \in SUBSET Budgets /\ e.final = (attempt = MaxAttempts)
      BY <1>3, <1>13, <2>5 DEF IsFinal
    <2>7. \A b \in Budgets \ {MaxAttempts} : submitted'[b] = submitted[b]
      BY <2>2, <2>6, SubmitsTo
    <2>8. \A b \in {MaxAttempts} : EndsAsAnswered(e, submitted'[b])
      BY <2>5 DEF EndsAsAnswered
    <2> QED BY <1>2, <1>4, <1>13, <2>1, <2>2, <2>3, <2>4, <2>5, <2>6, <2>7, <2>8, ClosedKeeps
  <1>14. CASE ~Valid(output) /\ ~options.sweep /\ ~IsFinal /\ ~Capped(count)
    <2>1. GoOn(result, count)
      BY <1>2, <1>8, <1>9, <1>14
    <2>2. phase' = "attempt" /\ attempt' = attempt + 1 /\ UNCHANGED submitted
      BY <1>1, <1>14 DEF NextAttempt, resultVars, count
    <2>3. count = IF result.reason # "turn_limit" THEN 0 ELSE CountBefore(provenance) + 1
      BY <1>5, <1>14
    <2> QED BY <1>2, <1>3, <1>4, <1>5, <1>14, <2>1, <2>2, <2>3, GoneOnKeeps
  <1> QED BY <1>10, <1>11, <1>12, <1>13, <1>14

-----------------------------------------------------------------------------
LEMMA RecordStarts == ProvenanceInit => RetryInv /\ RecordInv
  <1> SUFFICES ASSUME ProvenanceInit
               PROVE  RetryInv /\ RecordInv
    OBVIOUS
  <1>1. RetryInit /\ RecordInit /\ RetryInv
    BY RetryStarts DEF ProvenanceInit
  <1>2. /\ phase = "attempt" /\ attempt = 1 /\ noBox = 0
        /\ suffered = <<>> /\ provenance = <<>> /\ previous = "none" /\ recorded \in BOOLEAN
        /\ carried = [b \in Budgets |-> <<>>]
    BY <1>1 DEF RetryInit, RecordInit
  <1>3. Sufferings /\ Linked(provenance, suffered) /\ OfBudget(provenance, MaxAttempts)
    BY <1>2 DEF Sufferings, Linked, OfBudget
  <1>4. Underway
    BY <1>2 DEF Underway, AllLaunched, LastReason, CountBefore
  <1>5. ToldSoFar /\ \A b \in Budgets : ~IsTold(b)
    BY <1>2, RetryAssumption DEF ToldSoFar, IsTold, Budgets
  <1> QED BY <1>1, <1>2, <1>3, <1>4, <1>5 DEF RecordInv

LEMMA RecordedStepsRetry == [ProvenanceNext]_provenanceVars => [RetryNext]_retryVars
  <1> SUFFICES ASSUME [ProvenanceNext]_provenanceVars
               PROVE  [RetryNext]_retryVars
    OBVIOUS
  <1>1. CASE RecordedFinalize
    <2>1. FinalizeBudget
      BY <1>1 DEF RecordedFinalize, FinalizeBudget
    <2> QED BY <2>1 DEF RetryNext
  <1> QED BY <1>1 DEF ProvenanceNext, RecordedAttempt, RecordedPrepare, RecordedAdvance, RecordedVerification,
                      RetryNext, provenanceVars

LEMMA RecordSteps == RetryInv /\ RecordInv /\ [ProvenanceNext]_provenanceVars => RetryInv' /\ RecordInv'
  <1> SUFFICES ASSUME RetryInv, RecordInv, [ProvenanceNext]_provenanceVars
               PROVE  RetryInv' /\ RecordInv'
    OBVIOUS
  <1>1. RetryInv'
    BY RecordedStepsRetry, RetrySteps
  <1>2. CASE ~recorded
    <2>1. recorded' = recorded
      BY DEF ProvenanceNext, RecordedAttempt, RecordedPrepare, RecordedFinalize, RecordedAdvance, RecordedVerification,
             provenanceVars, recordVars
    <2> QED BY <1>1, <1>2, <2>1 DEF RecordInv
  <1>3. CASE recorded /\ UNCHANGED provenanceVars
    <2>1. /\ UNCHANGED recordVars
          /\ UNCHANGED <<options, phase, attempt, result, settled, noBox, submitted>>
          /\ UNCHANGED <<recorded, rollbacks, suffered, provenance, previous, carried>>
      BY <1>3 DEF provenanceVars, retryVars, recordVars
    <2> QED BY <1>1, <2>1 DEF RecordInv, Sufferings, GoesOn, Underway, ToldSoFar, IsTold, Budgets, TellsOf,
               EndsAsAnswered, SharedWith, OfBudget, Linked, LinkedAt, AllLaunched, LastReason, CountBefore
  <1>4. CASE recorded /\ ProvenanceNext
    BY <1>1, <1>4, AttemptRecorded, PrepareRecorded, FinalizeRecorded, AdvanceRecorded, VerificationRecorded
       DEF ProvenanceNext
  <1> QED BY <1>2, <1>3, <1>4

\* ProvenanceTrue for any number of attempts, answers and storms: what the result for a
\* budget tells of its attempts is true of that budget alone (_append_retry_attempt_provenance,
\* _normalize_attempt_budget_provenance, _rollback_storm_shadow_metadata).
THEOREM ProvenanceIsTrue == ProvenanceSpec => []ProvenanceTrue
  <1>1. RetryInv /\ RecordInv => ProvenanceTrue
    BY RecordSafe
  <1> QED BY <1>1, RecordStarts, RecordSteps, PTL DEF ProvenanceSpec
=============================================================================
