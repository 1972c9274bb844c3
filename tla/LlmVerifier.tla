------------------------------ MODULE LlmVerifier ------------------------------
(***************************************************************************)
(* Judging one answer (recipe/web_search/eval/llm_verifier.py, ajudge): a  *)
(* number of independent decisions is asked for, one after the other, each *)
(* in a loop that tells three ways of failing apart: the endpoint errs,    *)
(* the answer cannot be parsed, or it was cut off and may be asked for     *)
(* again with more room.                                                   *)
(***************************************************************************)
EXTENDS Integers, FiniteSets, SequencesExt

CONSTANTS
  JudgeTimes,    \* judge_times
  JudgeRetries,  \* max_retries
  JudgeRooms     \* the settings of judge_max_tokens and of its ceiling: records [first, ceiling]

ASSUME VerifierAssumption ==
  /\ JudgeTimes \in Nat \ {0} /\ JudgeRetries \in Nat \ {0}
  /\ JudgeRooms \subseteq [first : Nat \ {0}, ceiling : Nat \ {0}]

VARIABLES
  verifier,       \* where ajudge is
  rooms,          \* its settings
  room,           \* current_max_tokens
  endpointErrors, parseFailures,
  decisions,      \* the choices of the judges that have decided
  calls           \* history: how the calls of the present judge went, and in what room

verifierVars == <<verifier, rooms, room, endpointErrors, parseFailures, decisions, calls>>

VerifierInit ==
  /\ verifier = "asked" /\ rooms \in JudgeRooms /\ room = rooms.first
  /\ endpointErrors = 0 /\ parseFailures = 0 /\ decisions = <<>> /\ calls = <<>>

-----------------------------------------------------------------------------
\* A content is told by the choices its labels stand for, by those its fragments are
\* decisions on, and by the details of its JSON: which of the answers were found, and
\* whether there were others.
NoDetails == [found |-> {}, excessive |-> FALSE]
Details == [found : SUBSET BOOLEAN, excessive : BOOLEAN]
Contents == [labels : SUBSET {"A", "B"}, fragments : SUBSET {"A", "B"}, details : Details]

\* parse_ab_judge_choice
AbChoice(content) ==
  IF \E c \in content.fragments : content.fragments = {c} /\ content.labels \subseteq {c}
    THEN CHOOSE c \in content.fragments : TRUE ELSE "none"

\* parse_deepsearchqa_judge_choice
DeepSearchChoice(content) ==
  IF AbChoice(content) # "none" THEN AbChoice(content)
  ELSE IF content.details.found = {} THEN "none"
  ELSE IF content.details.found = {TRUE} /\ ~content.details.excessive THEN "A" ELSE "B"

\* The parser depends on the benchmark: what the other one says counts for nothing.
JudgeChoices == {AbChoice(content) : content \in Contents} \cup {DeepSearchChoice(content) : content \in Contents}

\* _next_length_retry_max_tokens
NextRoom(now) ==
  LET grown == IF 4 * now < rooms.ceiling THEN 4 * now ELSE rooms.ceiling
  IN  IF now < 128 THEN 128 ELSE grown

\* Defect in the operator below: room that cannot grow is asked for all the same.
GrowsUnclamped(length) == length

\* There is more room to be had for an answer that was cut off.
Grows(length) == length /\ NextRoom(room) > room

\* The last of its retries.
Spent(failures) == failures + 1 >= JudgeRetries

-----------------------------------------------------------------------------
\* No answer, or the label itself: no model is asked.
SkipJudge ==
  /\ verifier = "asked" /\ verifier' = "judged"
  /\ \E choice \in {"A", "B"} : decisions' = [n \in 1..JudgeTimes |-> choice]
  /\ UNCHANGED <<rooms, room, endpointErrors, parseFailures, calls>>

AskJudges ==
  /\ verifier = "asked" /\ verifier' = "asking"
  /\ UNCHANGED <<rooms, room, endpointErrors, parseFailures, decisions, calls>>

Called(how) == verifier = "asking" /\ calls' = Append(calls, [how |-> how, room |-> room])

\* A judge has decided: the next has its own room and budgets.
Decide(choice) ==
  /\ verifier = "asking" /\ choice # "none"
  /\ decisions' = Append(decisions, choice)
  /\ verifier' = IF Len(decisions) + 1 = JudgeTimes THEN "judged" ELSE "asking"
  /\ room' = rooms.first /\ endpointErrors' = 0 /\ parseFailures' = 0 /\ calls' = <<>>
  /\ UNCHANGED rooms

\* The answer was cut off, and there is more room.
GrowRoom ==
  /\ Called("cut") /\ Grows(TRUE)
  /\ room' = NextRoom(room)
  /\ UNCHANGED <<verifier, rooms, endpointErrors, parseFailures, decisions>>

\* It cannot be parsed, cut off or not.
FailToParse(length) ==
  /\ "none" \in JudgeChoices /\ Called(IF length THEN "cut" ELSE "garbled") /\ ~Grows(length)
  /\ parseFailures' = parseFailures + 1
  /\ verifier' = IF Spent(parseFailures) THEN "given_up" ELSE "asking"
  /\ UNCHANGED <<rooms, room, endpointErrors, decisions>>

EndpointErrs ==
  /\ Called("error")
  /\ endpointErrors' = endpointErrors + 1
  /\ verifier' = IF Spent(endpointErrors) THEN "given_up" ELSE "asking"
  /\ UNCHANGED <<rooms, room, parseFailures, decisions>>

VerifierNext ==
  \/ SkipJudge \/ AskJudges \/ GrowRoom \/ EndpointErrs
  \/ \E choice \in JudgeChoices : Decide(choice)
  \/ \E length \in BOOLEAN : FailToParse(length)

VerifierSpec == VerifierInit /\ [][VerifierNext]_verifierVars

-----------------------------------------------------------------------------
(***************************************************************************)
(* Properties.                                                             *)
(***************************************************************************)

\* The calls that failed at the endpoint, and those whose answer no more room would have
\* helped.
Errors == Cardinality({n \in DOMAIN calls : calls[n].how = "error"})
WasHopeless(c, ceiling) == c.how = "garbled" \/ (c.how = "cut" /\ c.room >= 128 /\ c.room >= ceiling)
Hopeless == Cardinality({n \in DOMAIN calls : WasHopeless(calls[n], rooms.ceiling)})

\* The three modes "don't steal each other's retries" (llm_verifier.py): a judge is given
\* up exactly when one of the two budgets is spent by its own kind of failure, an answer
\* cut off in less than all the room costs neither, and yet the calls of a judge are few:
\* every one of the others is in more room than the one before it.
EachModeItsBudget ==
  /\ verifier = "given_up" <=> Errors = JudgeRetries \/ Hopeless = JudgeRetries
  /\ Errors <= JudgeRetries /\ Hopeless <= JudgeRetries
  /\ \A m, n \in DOMAIN calls : m < n /\ calls[m].how = "cut" /\ calls[m].room = calls[n].room => calls[m].room >= rooms.ceiling
=============================================================================
