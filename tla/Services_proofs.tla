-------------------------- MODULE Services_proofs --------------------------
(***************************************************************************)
(* What an attempt works with: the tool manager, the cache of extractions  *)
(* and the sandbox for code. Each part has its own invariant; the parts    *)
(* share nothing.                                                          *)
(***************************************************************************)
EXTENDS ToolManager, ExtractionCache, CodeSandbox, FiniteSetTheorems, TLAPS

-----------------------------------------------------------------------------
(***************************************************************************)
(* The tool manager's limits and books, for every set of tools, every      *)
(* limit and any number of rounds, snapshots and restored attempts.        *)
(***************************************************************************)
AccountingIn(asked, outcome) ==
  \A n \in Names : asked[n] = outcome[n]["success"] + outcome[n]["failed"] + outcome[n]["rejected"]

BudgetsIn(total, calls) ==
  /\ Within(total, MaxPerTask)
  /\ \A t \in Tools : Within(calls[t], MaxPerTool[t])

RepeatsIn(args, repeat) ==
  \A t \in Tools :
    /\ Within(repeat[t], MaxConsecutive[t])
    /\ repeat[t] = 0 <=> args[t] = None

\* A success of this round that repeats the previous round's was below its limit.
RoundRepeats ==
  \A t \in Tools :
    (roundArgs[t] # None /\ lastRepeat[t] > 0 /\ lastArgs[t] = roundArgs[t])
      => ~Reached(lastRepeat[t], MaxConsecutive[t])

\* The inductive invariant: the limits and the books of the present state, of the
\* snapshot that may be restored, and what the round in progress has established.
Inv ==
  /\ TypeOK
  /\ AccountingIn(requested, became)
  /\ Within(stepCount, MaxPerStep)
  /\ BudgetsIn(totalCalls, callCounts)
  /\ RepeatsIn(lastArgs, lastRepeat)
  /\ RoundRepeats
  /\ ~inRound => \A t \in Tools : roundArgs[t] = None
  /\ saved # None =>
       /\ AccountingIn(saved.requested, saved.became)
       /\ BudgetsIn(saved.totalCalls, saved.callCounts)
       /\ RepeatsIn(saved.lastArgs, saved.lastRepeat)

-----------------------------------------------------------------------------
(***************************************************************************)
(* Lemmas about the pieces of a step.                                      *)
(***************************************************************************)

\* Counting a request with its outcome keeps the types and the books.
LEMMA CountAccounts ==
  ASSUME requested \in [Names -> Nat], became \in [Names -> [Outcomes -> Nat]],
         AccountingIn(requested, became), NEW name \in Names, NEW outcome \in Outcomes,
         Count(name, outcome)
  PROVE  /\ requested' \in [Names -> Nat] /\ became' \in [Names -> [Outcomes -> Nat]]
         /\ AccountingIn(requested, became)'
<1>1. /\ requested' = [requested EXCEPT ![name] = @ + 1]
      /\ became' = [became EXCEPT ![name] = [became[name] EXCEPT ![outcome] = became[name][outcome] + 1]]
  BY DEF Count
<1>2. requested' \in [Names -> Nat] /\ became' \in [Names -> [Outcomes -> Nat]]
  <2> DEFINE counted == [became[name] EXCEPT ![outcome] = became[name][outcome] + 1]
  <2>1. became[name] \in [Outcomes -> Nat]
    OBVIOUS
  <2>2. counted \in [Outcomes -> Nat]
    BY <2>1
  <2>3. became' = [became EXCEPT ![name] = counted]
    BY <1>1
  <2> HIDE DEF counted
  <2>4. became' \in [Names -> [Outcomes -> Nat]]
    BY <2>2, <2>3
  <2>5. requested' \in [Names -> Nat]
    BY <1>1
  <2>6. QED
    BY <2>4, <2>5
<1>3. ASSUME NEW n \in Names
      PROVE  requested'[n] = became'[n]["success"] + became'[n]["failed"] + became'[n]["rejected"]
  <2>1. requested[n] = became[n]["success"] + became[n]["failed"] + became[n]["rejected"]
    BY DEF AccountingIn
  <2>2. \A o \in Outcomes : became[n][o] \in Nat
    OBVIOUS
  <2>3. CASE n # name
    BY <1>1, <2>1, <2>3
  <2>4. CASE n = name
    <3>1. requested'[n] = requested[n] + 1
      BY <1>1, <2>4
    <3>2. \A o \in Outcomes : became'[n][o] = IF o = outcome THEN became[n][o] + 1 ELSE became[n][o]
      <4>1. became'[n] = [became[name] EXCEPT ![outcome] = became[name][outcome] + 1]
        BY <1>1, <2>4
      <4>2. became[name] \in [Outcomes -> Nat]
        OBVIOUS
      <4>3. QED
        BY <2>4, <4>1, <4>2
    <3>3. QED
      BY <2>1, <2>2, <3>1, <3>2 DEF Outcomes
  <2>5. QED
    BY <2>3, <2>4
<1>4. QED
  BY <1>2, <1>3 DEF AccountingIn

LEMMA BelowLimit ==
  ASSUME NEW n \in Nat, NEW limit, IsLimit(limit), ~Reached(n, limit)
  PROVE  Within(n + 1, limit)
BY DEF IsLimit, Reached, Within

LEMMA ZeroAndOneWithin ==
  ASSUME NEW limit, IsLimit(limit)
  PROVE  Within(0, limit) /\ Within(1, limit)
BY DEF IsLimit, Within

LEMMA TakeRequest ==
  ASSUME TypeOK, NextRequest
  PROVE  /\ Current \in Request /\ Current.tool \in Names /\ Current.args \in Args
         /\ requests' \in Seq(Request)
<1>1. requests \in Seq(Request) /\ requests # << >> /\ requests' = Tail(requests)
  BY DEF TypeOK, NextRequest
<1>2. Len(requests) \in Nat /\ Len(requests) >= 1
  BY <1>1
<1>3. Current \in Request
  BY <1>1, <1>2 DEF Current
<1>4. requests' \in Seq(Request)
  BY <1>1
<1>5. QED
  BY <1>3, <1>4 DEF Request

-----------------------------------------------------------------------------
(***************************************************************************)
(* Every action keeps the invariant.                                       *)
(***************************************************************************)

LEMMA InitInv == Init => Inv
<1>1. SUFFICES ASSUME Init PROVE Inv
  OBVIOUS
<1>2. /\ IsLimit(MaxPerStep) /\ IsLimit(MaxPerTask)
      /\ \A t \in Tools : IsLimit(MaxPerTool[t]) /\ IsLimit(MaxConsecutive[t])
  BY ToolAssumption
<1>3. TypeOK
  <2>1. requested \in [Names -> Nat] /\ became \in [Names -> [Outcomes -> Nat]]
    BY <1>1 DEF Init
  <2>2. requests \in Seq(Request)
    BY <1>1 DEF Init
  <2>3. QED
    BY <1>1, <2>1, <2>2 DEF Init, TypeOK
<1>4. AccountingIn(requested, became)
  BY <1>1 DEF Init, AccountingIn, Outcomes
<1>5. Within(stepCount, MaxPerStep) /\ BudgetsIn(totalCalls, callCounts)
  BY <1>1, <1>2, ZeroAndOneWithin DEF Init, BudgetsIn
<1>6. RepeatsIn(lastArgs, lastRepeat) /\ RoundRepeats
  BY <1>1, <1>2, ZeroAndOneWithin DEF Init, RepeatsIn, RoundRepeats
<1>7. QED
  BY <1>1, <1>3, <1>4, <1>5, <1>6 DEF Init, Inv

LEMMA RejectInv ==
  ASSUME Inv, RejectCall
  PROVE  Inv'
<1>1. TypeOK /\ NextRequest /\ Count(Current.tool, "rejected") /\ "rejected" \in Outcomes
  BY DEF Inv, RejectCall, Outcomes
<1>2. UNCHANGED <<callCounts, totalCalls, lastArgs, lastRepeat, inRound, stepCount, roundArgs, saved>>
  BY DEF RejectCall, counts, previous
<1>3. Current.tool \in Names /\ requests' \in Seq(Request)
  BY <1>1, TakeRequest
<1>4. /\ requested' \in [Names -> Nat] /\ became' \in [Names -> [Outcomes -> Nat]]
      /\ AccountingIn(requested, became)'
  BY <1>1, <1>3, CountAccounts DEF Inv, TypeOK
<1>5. TypeOK'
  BY <1>1, <1>2, <1>3, <1>4 DEF TypeOK
<1>6. QED
  BY <1>2, <1>4, <1>5 DEF Inv, RoundRepeats, BudgetsIn, RepeatsIn, AccountingIn

LEMMA FailInv ==
  ASSUME Inv, FailCall
  PROVE  Inv'
<1>1. TypeOK /\ NextRequest /\ Count(Current.tool, "failed") /\ "failed" \in Outcomes
  BY DEF Inv, FailCall, Outcomes
<1>2. /\ UNCHANGED <<callCounts, totalCalls, lastArgs, lastRepeat, inRound, roundArgs, saved>>
      /\ stepCount' = stepCount + 1 /\ ~Reached(stepCount, MaxPerStep)
  BY DEF FailCall, counts, previous, Allowed, StepLimitReached
<1>3. Current.tool \in Names /\ requests' \in Seq(Request)
  BY <1>1, TakeRequest
<1>4. /\ requested' \in [Names -> Nat] /\ became' \in [Names -> [Outcomes -> Nat]]
      /\ AccountingIn(requested, became)'
  BY <1>1, <1>3, CountAccounts DEF Inv, TypeOK
<1>5. TypeOK' /\ stepCount \in Nat
  BY <1>1, <1>2, <1>3, <1>4 DEF TypeOK
<1>6. Within(stepCount', MaxPerStep)
  BY <1>2, <1>5, BelowLimit, ToolAssumption
<1>7. QED
  BY <1>2, <1>4, <1>5, <1>6 DEF Inv, RoundRepeats, BudgetsIn, RepeatsIn, AccountingIn

LEMMA RunInv ==
  ASSUME Inv, NEW succeeds \in BOOLEAN, RunCall(succeeds)
  PROVE  Inv'
<1> DEFINE tool == Current.tool
           outcome == IF succeeds THEN "success" ELSE "failed"
<1>1. TypeOK /\ NextRequest /\ Count(tool, outcome) /\ outcome \in Outcomes
  BY DEF Inv, RunCall, Outcomes
<1>2. /\ callCounts' = [callCounts EXCEPT ![tool] = @ + 1]
      /\ totalCalls' = totalCalls + 1
      /\ stepCount' = stepCount + 1
      /\ roundArgs' = IF succeeds THEN [roundArgs EXCEPT ![tool] = Current.args] ELSE roundArgs
      /\ UNCHANGED <<lastArgs, lastRepeat, inRound, saved>>
  BY DEF RunCall, previous
<1>3. /\ Current \in Request /\ tool \in Names /\ Current.args \in Args
      /\ requests' \in Seq(Request)
  BY <1>1, TakeRequest
<1>4. /\ tool \in Tools
      /\ ~Reached(stepCount, MaxPerStep) /\ ~Reached(totalCalls, MaxPerTask)
      /\ ~Reached(callCounts[tool], MaxPerTool[tool])
      /\ ~RepeatsTooOften(tool, Current.args)
  BY DEF RunCall, Allowed, StepLimitReached, TaskBudgetReached, ToolBudgetReached
<1>5. /\ requested' \in [Names -> Nat] /\ became' \in [Names -> [Outcomes -> Nat]]
      /\ AccountingIn(requested, became)'
  <2> HIDE DEF tool, outcome
  <2>1. QED
    BY <1>1, <1>3, CountAccounts DEF Inv, TypeOK
<1> HIDE DEF tool, outcome
<1>6. TypeOK'
  <2>1. callCounts' \in [Tools -> Nat] /\ totalCalls' \in Nat /\ stepCount' \in Nat
    BY <1>1, <1>2, <1>4 DEF TypeOK
  <2>2. roundArgs' \in [Tools -> Args \cup {None}]
    BY <1>1, <1>2, <1>3, <1>4 DEF TypeOK
  <2>3. QED
    BY <1>1, <1>2, <1>3, <1>5, <2>1, <2>2 DEF TypeOK
<1>7. Within(stepCount', MaxPerStep) /\ Within(totalCalls', MaxPerTask)
  BY <1>1, <1>2, <1>4, BelowLimit, ToolAssumption DEF TypeOK
<1>8. ASSUME NEW t \in Tools
      PROVE  Within(callCounts'[t], MaxPerTool[t])
  <2>1. Within(callCounts[t], MaxPerTool[t]) /\ callCounts[t] \in Nat /\ IsLimit(MaxPerTool[t])
    BY <1>1, ToolAssumption DEF Inv, BudgetsIn, TypeOK
  <2>2. CASE t = tool
    <3>1. callCounts'[t] = callCounts[t] + 1
      BY <1>1, <1>2, <2>2 DEF TypeOK
    <3>2. QED
      BY <1>4, <2>1, <2>2, <3>1, BelowLimit
  <2>3. CASE t # tool
    <3>1. callCounts'[t] = callCounts[t]
      BY <1>1, <1>2, <2>3 DEF TypeOK
    <3>2. QED
      BY <2>1, <3>1
  <2>4. QED
    BY <2>2, <2>3
<1>9. RoundRepeats'
  <2>1. SUFFICES ASSUME NEW t \in Tools, roundArgs'[t] # None, lastRepeat[t] > 0, lastArgs[t] = roundArgs'[t]
                 PROVE  ~Reached(lastRepeat[t], MaxConsecutive[t])
    BY <1>2 DEF RoundRepeats
  <2>2. CASE roundArgs'[t] = roundArgs[t]
    BY <2>1, <2>2 DEF Inv, RoundRepeats
  <2>3. CASE roundArgs'[t] # roundArgs[t]
    <3>1. t = tool /\ roundArgs'[t] = Current.args
      BY <1>1, <1>2, <2>3 DEF TypeOK
    <3>2. QED
      BY <1>4, <2>1, <3>1 DEF RepeatsTooOften
  <2>4. QED
    BY <2>2, <2>3
<1>10. inRound'
  BY <1>1, <1>2 DEF NextRequest
<1>11. QED
  BY <1>2, <1>5, <1>6, <1>7, <1>8, <1>9, <1>10 DEF Inv, BudgetsIn, RepeatsIn, AccountingIn

LEMMA StartRoundInv ==
  ASSUME Inv, NEW n \in 1..MaxBatch, NEW batch \in [1..n -> Request], StartRound(batch)
  PROVE  Inv'
<1>1. batch \in Seq(Request)
  <2>1. n \in Nat
    BY ToolAssumption
  <2>2. QED
    BY <2>1
<1>2. /\ inRound' = TRUE /\ requests' = batch
      /\ UNCHANGED <<callCounts, totalCalls, lastArgs, lastRepeat, requested, became, stepCount, roundArgs, saved>>
  BY DEF StartRound, counts, previous, metrics
<1>3. TypeOK'
  BY <1>1, <1>2 DEF Inv, TypeOK
<1>4. QED
  BY <1>2, <1>3 DEF Inv, RoundRepeats, BudgetsIn, RepeatsIn, AccountingIn

LEMMA EndRoundInv ==
  ASSUME Inv, EndRound
  PROVE  Inv'
<1>1. /\ inRound' = FALSE /\ stepCount' = 0
      /\ lastArgs' = roundArgs
      /\ roundArgs' = [t \in Tools |-> None]
      /\ UNCHANGED <<callCounts, totalCalls, requested, became, requests, saved>>
  BY DEF EndRound, counts, metrics
<1>2. TypeOK
  BY DEF Inv
<1>3. ASSUME NEW t \in Tools
      PROVE  lastRepeat'[t] = IF roundArgs[t] = None THEN 0
                              ELSE IF lastRepeat[t] > 0 /\ lastArgs[t] = roundArgs[t] THEN lastRepeat[t] + 1
                              ELSE 1
  BY DEF EndRound
<1>4. lastRepeat' \in [Tools -> Nat]
  <2>1. \A t \in Tools : lastRepeat[t] \in Nat
    BY <1>2 DEF TypeOK
  <2>2. \A t \in Tools : lastRepeat'[t] \in Nat
    BY <1>3, <2>1
  <2>3. PICK f : lastRepeat' = [t \in Tools |-> f[t]]
    <3> DEFINE g == [t \in Tools |->
       CASE roundArgs[t] = None -> 0
         [] roundArgs[t] # None /\ lastRepeat[t] > 0 /\ lastArgs[t] = roundArgs[t] -> lastRepeat[t] + 1
         [] OTHER -> 1]
    <3>1. lastRepeat' = g /\ g = [t \in Tools |-> g[t]]
      BY DEF EndRound
    <3> HIDE DEF g
    <3>2. QED
      BY <3>1
  <2>4. QED
    BY <2>2, <2>3
<1>5. TypeOK'
  <2>1. stepCount' \in Nat /\ inRound' \in BOOLEAN
    BY <1>1
  <2>3. roundArgs' \in [Tools -> Args \cup {None}]
    BY <1>1
  <2>4. QED
    BY <1>1, <1>2, <1>4, <2>1, <2>3 DEF TypeOK
<1>6. ASSUME NEW t \in Tools
      PROVE  Within(lastRepeat'[t], MaxConsecutive[t]) /\ (lastRepeat'[t] = 0 <=> lastArgs'[t] = None)
  <2>1. IsLimit(MaxConsecutive[t]) /\ lastRepeat[t] \in Nat
    BY <1>2, ToolAssumption DEF TypeOK
  <2>2. CASE roundArgs[t] = None
    BY <1>1, <1>3, <2>1, <2>2, ZeroAndOneWithin
  <2>3. CASE roundArgs[t] # None /\ lastRepeat[t] > 0 /\ lastArgs[t] = roundArgs[t]
    <3>1. lastRepeat'[t] = lastRepeat[t] + 1
      BY <1>3, <2>3
    <3>2. ~Reached(lastRepeat[t], MaxConsecutive[t])
      BY <2>3 DEF Inv, RoundRepeats
    <3>3. Within(lastRepeat'[t], MaxConsecutive[t])
      BY <2>1, <3>1, <3>2, BelowLimit
    <3>4. QED
      BY <1>1, <2>1, <2>3, <3>1, <3>3
  <2>4. CASE roundArgs[t] # None /\ ~(lastRepeat[t] > 0 /\ lastArgs[t] = roundArgs[t])
    BY <1>1, <1>3, <2>1, <2>4, ZeroAndOneWithin
  <2>5. QED
    BY <2>2, <2>3, <2>4
<1>7. RoundRepeats'
  BY <1>1 DEF RoundRepeats
<1>8. Within(stepCount', MaxPerStep)
  BY <1>1, ZeroAndOneWithin, ToolAssumption
<1>9. QED
  BY <1>1, <1>5, <1>6, <1>7, <1>8 DEF Inv, BudgetsIn, RepeatsIn, AccountingIn

LEMMA RecordRejectionInv ==
  ASSUME Inv, NEW name \in Names, RecordRejection(name)
  PROVE  Inv'
<1>1. TypeOK /\ Count(name, "rejected") /\ "rejected" \in Outcomes
  BY DEF Inv, RecordRejection, Outcomes
<1>2. UNCHANGED <<callCounts, totalCalls, lastArgs, lastRepeat, inRound, requests, stepCount, roundArgs, saved>>
  BY DEF RecordRejection, counts, previous, roundVars
<1>3. /\ requested' \in [Names -> Nat] /\ became' \in [Names -> [Outcomes -> Nat]]
      /\ AccountingIn(requested, became)'
  BY <1>1, CountAccounts DEF Inv, TypeOK
<1>4. TypeOK'
  BY <1>1, <1>2, <1>3 DEF TypeOK
<1>5. QED
  BY <1>2, <1>3, <1>4 DEF Inv, RoundRepeats, BudgetsIn, RepeatsIn, AccountingIn

LEMMA ResetInv ==
  ASSUME Inv, ResetTaskState
  PROVE  Inv'
<1>1. /\ callCounts' = [t \in Tools |-> 0] /\ totalCalls' = 0
      /\ lastArgs' = [t \in Tools |-> None] /\ lastRepeat' = [t \in Tools |-> 0]
      /\ requested' = [n \in Names |-> 0] /\ became' = [n \in Names |-> [o \in Outcomes |-> 0]]
      /\ UNCHANGED <<inRound, requests, stepCount, roundArgs, saved>>
  BY DEF ResetTaskState, NoMetrics, roundVars
<1>2. TypeOK'
  <2>1. requested' \in [Names -> Nat] /\ became' \in [Names -> [Outcomes -> Nat]]
    BY <1>1
  <2>2. QED
    BY <1>1, <2>1 DEF Inv, TypeOK
<1>3. AccountingIn(requested, became)'
  BY <1>1 DEF AccountingIn, Outcomes
<1>4. BudgetsIn(totalCalls, callCounts)' /\ RepeatsIn(lastArgs, lastRepeat)' /\ RoundRepeats'
  BY <1>1, ZeroAndOneWithin, ToolAssumption DEF BudgetsIn, RepeatsIn, RoundRepeats
<1>5. QED
  BY <1>1, <1>2, <1>3, <1>4 DEF Inv, BudgetsIn, RepeatsIn, AccountingIn

LEMMA SnapshotInv ==
  ASSUME Inv, SnapshotTaskState
  PROVE  Inv'
<1>1. /\ saved' = [callCounts |-> callCounts, totalCalls |-> totalCalls, lastArgs |-> lastArgs,
                   lastRepeat |-> lastRepeat, requested |-> requested, became |-> became]
      /\ UNCHANGED <<callCounts, totalCalls, lastArgs, lastRepeat, requested, became,
                     inRound, requests, stepCount, roundArgs>>
  BY DEF SnapshotTaskState, counts, previous, metrics, roundVars
<1>2. TypeOK'
  BY <1>1 DEF Inv, TypeOK, Snapshot
<1>3. /\ AccountingIn(saved'.requested, saved'.became)
      /\ BudgetsIn(saved'.totalCalls, saved'.callCounts)
      /\ RepeatsIn(saved'.lastArgs, saved'.lastRepeat)
  BY <1>1 DEF Inv
<1>4. QED
  BY <1>1, <1>2, <1>3 DEF Inv, RoundRepeats, BudgetsIn, RepeatsIn, AccountingIn

\* Restored limits hold because the snapshot satisfied them when it was taken.
LEMMA RestoreInv ==
  ASSUME Inv, RestoreTaskState
  PROVE  Inv'
<1>1. /\ callCounts' = saved.callCounts /\ totalCalls' = saved.totalCalls
      /\ lastArgs' = saved.lastArgs /\ lastRepeat' = saved.lastRepeat
      /\ requested' = saved.requested /\ became' = saved.became
      /\ UNCHANGED <<inRound, requests, stepCount, roundArgs, saved>>
      /\ saved # None /\ ~inRound
  BY DEF RestoreTaskState, roundVars
<1>2. saved \in Snapshot
  BY <1>1 DEF Inv, TypeOK
<1>3. TypeOK'
  BY <1>1, <1>2 DEF Inv, TypeOK, Snapshot
<1>4. /\ AccountingIn(requested', became')
      /\ BudgetsIn(totalCalls', callCounts')
      /\ RepeatsIn(lastArgs', lastRepeat')
  BY <1>1 DEF Inv
<1>5. QED
  BY <1>1, <1>3, <1>4 DEF Inv, RoundRepeats, BudgetsIn, RepeatsIn, AccountingIn

LEMMA StepInv == Inv /\ [Next]_toolVars => Inv'
<1>1. SUFFICES ASSUME Inv, [Next]_toolVars PROVE Inv'
  OBVIOUS
<1>2. CASE \E n \in 1..MaxBatch : \E batch \in [1..n -> Request] : StartRound(batch)
  BY <1>1, <1>2, StartRoundInv
<1>3. CASE ExecuteRequest
  BY <1>1, <1>3, RejectInv, FailInv, RunInv DEF ExecuteRequest
<1>4. CASE EndRound
  BY <1>1, <1>4, EndRoundInv
<1>5. CASE \E name \in Names : RecordRejection(name)
  BY <1>1, <1>5, RecordRejectionInv
<1>6. CASE ResetTaskState
  BY <1>1, <1>6, ResetInv
<1>7. CASE SnapshotTaskState
  BY <1>1, <1>7, SnapshotInv
<1>8. CASE RestoreTaskState
  BY <1>1, <1>8, RestoreInv
<1>9. CASE UNCHANGED toolVars
  <2>1. UNCHANGED <<callCounts, totalCalls, lastArgs, lastRepeat, requested, became,
                    inRound, requests, stepCount, roundArgs, saved>>
    BY <1>9 DEF toolVars, counts, previous, metrics, roundVars
  <2>2. TypeOK'
    BY <1>1, <2>1 DEF Inv, TypeOK
  <2>3. QED
    BY <1>1, <2>1, <2>2 DEF Inv, RoundRepeats, BudgetsIn, RepeatsIn, AccountingIn
<1>10. QED
  BY <1>1, <1>2, <1>3, <1>4, <1>5, <1>6, <1>7, <1>8, <1>9 DEF Next

-----------------------------------------------------------------------------
(***************************************************************************)
(* Theorems.                                                               *)
(***************************************************************************)

\* The inductive invariant holds in every behaviour of the manager.
THEOREM Invariance == Spec => []Inv
BY InitInv, StepInv, PTL DEF Spec

\* Every counter is a natural number and every table covers exactly the registered tools.
THEOREM TypeCorrect == Spec => []TypeOK
<1>1. Inv => TypeOK
  BY DEF Inv
<1>2. QED
  BY Invariance, <1>1, PTL

\* The metrics written by execute_tool_calls and record_rejection account for every
\* request once, across resets and restored snapshots.
THEOREM AccountingHolds == Spec => []Accounting
<1>1. Inv => Accounting
  BY DEF Inv, Accounting, AccountingIn
<1>2. QED
  BY Invariance, <1>1, PTL

\* The step, task and per-tool budgets _execute enforces are never exceeded.
THEOREM BudgetsHold == Spec => []BudgetsRespected
<1>1. Inv => BudgetsRespected
  BY DEF Inv, BudgetsRespected, BudgetsIn
<1>2. QED
  BY Invariance, <1>1, PTL

\* _prev_round_args never records more rounds of the same arguments than the limit.
THEOREM RepeatsHold == Spec => []RepeatsBounded
<1>1. Inv => RepeatsBounded
  BY DEF Inv, RepeatsBounded, RepeatsIn
<1>2. QED
  BY Invariance, <1>1, PTL

\* All four limits of the manager hold in every reachable state.
THEOREM LimitsHold == Spec => []LimitsRespected
<1>1. BudgetsRespected /\ RepeatsBounded => LimitsRespected
  BY DEF LimitsRespected
<1>2. QED
  BY BudgetsHold, RepeatsHold, <1>1, PTL

\* A step of a round that starts with every tool exhausted executes no call of it.
LEMMA ExhaustionStep ==
  ASSUME [Next]_toolVars, AllToolsExhausted, inRound \/ inRound'
  PROVE  AllToolsExhausted' /\ UNCHANGED counts
<1>2. AllToolsExhausted /\ (inRound \/ inRound')
  OBVIOUS
<1>3. UNCHANGED counts => AllToolsExhausted'
  BY <1>2 DEF counts, AllToolsExhausted, TaskBudgetReached, ToolBudgetReached
<1>4. CASE ExecuteRequest
  <2>1. ASSUME NEW succeeds \in BOOLEAN, RunCall(succeeds)
        PROVE  FALSE
    BY <1>2, <2>1 DEF RunCall, Allowed, AllToolsExhausted
  <2>2. UNCHANGED counts
    BY <1>4, <2>1 DEF ExecuteRequest, RejectCall, FailCall
  <2>3. QED
    BY <1>3, <2>2
<1>5. CASE \E n \in 1..MaxBatch : \E batch \in [1..n -> Request] : StartRound(batch)
  BY <1>3, <1>5 DEF StartRound
<1>6. CASE EndRound
  BY <1>3, <1>6 DEF EndRound
<1>7. CASE ResetTaskState \/ RestoreTaskState
  BY <1>2, <1>7 DEF ResetTaskState, RestoreTaskState, roundVars
<1>8. CASE SnapshotTaskState \/ \E name \in Names : RecordRejection(name)
  BY <1>3, <1>8 DEF SnapshotTaskState, RecordRejection
<1>9. CASE UNCHANGED toolVars
  BY <1>3, <1>9 DEF toolVars
<1>10. QED
  BY <1>4, <1>5, <1>6, <1>7, <1>8, <1>9 DEF Next

\* all_tools_exhausted is stable: once it holds in a round, no call of that round runs
\* and it still holds at the round's end, when the orchestrator asks.
THEOREM ExhaustionIsFinal == Spec => ExhaustionFinal
<1>1. [Next]_toolVars => [AllToolsExhausted /\ (inRound \/ inRound') => AllToolsExhausted' /\ UNCHANGED counts]_toolVars
  BY ExhaustionStep
<1>2. QED
  BY <1>1, PTL DEF Spec, ExhaustionFinal

-----------------------------------------------------------------------------
(***************************************************************************)
(* No answer that a process keeps is forgotten, whatever the number of     *)
(* processes and calls.  The argument is about the window between writing  *)
(* the temporary file and putting it in place of the file: the two locks   *)
(* leave one call in that window, so that the file it read is still the    *)
(* file it replaces.                                                       *)
(***************************************************************************)
CacheTypeOK ==
  /\ file \subseteq Keys
  /\ loaded \subseteq Runners
  /\ store \in [Runners -> SUBSET Keys]
  /\ dirty \in [Runners -> SUBSET Keys]
  /\ written \in [Runners -> SUBSET Keys]
  /\ threadLock \in [Runners -> Extractions \cup {Free}]
  /\ fileLock \in Runners \cup {Free}
  /\ extractions \in [Extractions -> Extraction]

\* A flush holds the lock of its process, and the lock on the file while it writes.
FlushHoldsLocks ==
  \A c \in Extractions :
    /\ extractions[c].at \in {"flushing", "writing"} => threadLock[RunnerOf[c]] = c
    /\ extractions[c].at = "writing" => fileLock = RunnerOf[c]

\* What is written to the temporary file still covers the file.
TemporaryCoversFile ==
  \A c \in Extractions : extractions[c].at = "writing" => file \subseteq written[RunnerOf[c]]

CacheInv == CacheTypeOK /\ FlushHoldsLocks /\ TemporaryCoversFile /\ NothingForgotten

-----------------------------------------------------------------------------
\* A process of a call is one of the processes.
LEMMA RunnerKnown ==
  ASSUME NEW c \in Extractions
  PROVE  RunnerOf[c] \in Runners
  BY DEF Runners

LEMMA NoExtractionType == NoExtraction \in Extraction
  <1>1. (CHOOSE k \in Keys : TRUE) \in Keys
    BY CacheAssumption
  <1> QED BY <1>1, CacheAssumption DEF NoExtraction, Extraction, Stages

\* The cache starts with the invariant.
LEMMA CacheStarts == CacheInit => CacheInv
  <1> SUFFICES ASSUME CacheInit PROVE CacheInv
    OBVIOUS
  <1>1. CacheTypeOK
    BY NoExtractionType, CacheAssumption DEF CacheInit, CacheTypeOK
  <1>2. \A c \in Extractions : extractions[c].at = "idle"
    BY DEF CacheInit, NoExtraction
  <1> QED BY <1>1, <1>2, RunnerKnown DEF CacheInit, CacheInv, FlushHoldsLocks, TemporaryCoversFile, NothingForgotten

\* A step that leaves the file, the locks and the temporary files alone, and moves one
\* call that is not flushing to where it is not flushing either, keeps the locks in order.
LEMMA QuietStepKeepsOrder ==
  ASSUME CacheInv, NEW c \in Extractions,
         UNCHANGED <<file, written, threadLock, fileLock>>,
         extractions' \in [Extractions -> Extraction],
         \A d \in Extractions \ {c} : extractions'[d] = extractions[d],
         extractions'[c].at \notin {"flushing", "writing"}
  PROVE  (FlushHoldsLocks /\ TemporaryCoversFile)'
  <1>1. ASSUME NEW d \in Extractions
        PROVE  /\ extractions'[d].at \in {"flushing", "writing"} => threadLock[RunnerOf[d]] = d
               /\ extractions'[d].at = "writing" => fileLock = RunnerOf[d] /\ file \subseteq written[RunnerOf[d]]
    <2>1. CASE d = c
      BY <2>1
    <2>2. CASE d # c
      BY <2>2 DEF CacheInv, FlushHoldsLocks, TemporaryCoversFile
    <2> QED BY <2>1, <2>2
  <1> QED BY <1>1 DEF FlushHoldsLocks, TemporaryCoversFile

LEMMA LookupKeeps ==
  ASSUME CacheInv, NEW c \in Extractions, Lookup(c)
  PROVE  CacheInv'
  <1> DEFINE p == RunnerOf[c]
  <1> p \in Runners
    BY RunnerKnown
  <1>1. Loaded(p) \subseteq Keys /\ Loaded(p) \subseteq file \cup dirty[p]
    BY DEF CacheInv, CacheTypeOK, NothingForgotten, Loaded
  <1>2. PICK new \in Extraction :
          /\ extractions' = [extractions EXCEPT ![c] = new]
          /\ new.at \notin {"flushing", "writing"}
    <2>1. PICK k \in Keys :
            IF k \in Loaded(p) THEN Ends(c, "done")
            ELSE extractions' = [extractions EXCEPT ![c] = [at |-> "asking", key |-> k, size |-> PageSize, transient |-> 0]]
      BY DEF Lookup
    <2>2. CASE k \in Loaded(p)
      <3>1. [NoExtraction EXCEPT !.at = "done"] \in Extraction
        BY NoExtractionType DEF Extraction, Stages
      <3>2. [NoExtraction EXCEPT !.at = "done"].at = "done"
        BY DEF NoExtraction
      <3> QED BY <2>1, <2>2, <3>1, <3>2 DEF Ends
    <2>3. CASE k \notin Loaded(p)
      <3>1. [at |-> "asking", key |-> k, size |-> PageSize, transient |-> 0] \in Extraction
        BY CacheAssumption DEF Extraction, Stages
      <3> QED BY <2>1, <2>3, <3>1
    <2> QED BY <2>2, <2>3
  <1>3. CacheTypeOK'
    BY <1>1, <1>2 DEF Lookup, CacheInv, CacheTypeOK
  <1>4. (FlushHoldsLocks /\ TemporaryCoversFile)'
    <2>1. extractions'[c] = new /\ \A d \in Extractions \ {c} : extractions'[d] = extractions[d]
      BY <1>2 DEF CacheInv, CacheTypeOK
    <2> QED BY <1>2, <1>3, <2>1, QuietStepKeepsOrder DEF Lookup, CacheTypeOK
  <1>5. NothingForgotten'
    BY <1>1 DEF Lookup, CacheInv, CacheTypeOK, NothingForgotten
  <1> QED BY <1>3, <1>4, <1>5 DEF CacheInv

\* The request loop changes nothing but the call.
LEMMA AskKeeps ==
  ASSUME CacheInv, NEW c \in Extractions,
         AskAboutHalf(c) \/ AskAgain(c) \/ AskFails(c) \/ AskSucceeds(c)
  PROVE  CacheInv'
  <1> USE DEF CacheInv
  <1>0. extractions[c] \in Extraction /\ extractions[c].at = "asking"
    BY DEF CacheTypeOK, AskAboutHalf, AskAgain, AskFails, AskSucceeds
  <1>1. PICK new \in Extraction :
          /\ extractions' = [extractions EXCEPT ![c] = new]
          /\ new.at \notin {"flushing", "writing"}
    <2>1. CASE AskAboutHalf(c)
      <3> DEFINE new == [extractions[c] EXCEPT !.size = extractions[c].size \div 2]
      <3>1. extractions' = [extractions EXCEPT ![c] = new]
        BY <2>1 DEF AskAboutHalf
      <3>2. extractions[c].size \div 2 \in 0..PageSize
        BY <1>0, CacheAssumption DEF Extraction
      <3>3. new \in Extraction /\ new.at = "asking"
        BY <1>0, <3>2 DEF Extraction
      <3> QED BY <3>1, <3>3
    <2>2. CASE AskAgain(c)
      <3> DEFINE new == [extractions[c] EXCEPT !.transient = extractions[c].transient + 1]
      <3>1. extractions' = [extractions EXCEPT ![c] = new]
        BY <2>2 DEF AskAgain
      <3>2. extractions[c].transient + 1 \in 0..MaxTries
        BY <1>0, <2>2, CacheAssumption DEF Extraction, AskAgain
      <3>3. new \in Extraction /\ new.at = "asking"
        BY <1>0, <3>2 DEF Extraction
      <3> QED BY <3>1, <3>3
    <2>3. CASE AskFails(c)
      <3> DEFINE new == [NoExtraction EXCEPT !.at = "failed"]
      <3>1. new \in Extraction /\ new.at = "failed"
        BY NoExtractionType DEF Extraction, Stages
      <3> QED BY <2>3, <3>1 DEF AskFails, Ends
    <2>4. CASE AskSucceeds(c)
      <3> DEFINE new == [NoExtraction EXCEPT !.at = "answered", !.key = extractions[c].key]
      <3>1. new \in Extraction /\ new.at = "answered"
        BY <1>0, NoExtractionType DEF Extraction, Stages
      <3> QED BY <2>4, <3>1 DEF AskSucceeds
    <2> QED BY <2>1, <2>2, <2>3, <2>4
  <1>2. UNCHANGED <<file, loaded, store, dirty, written, threadLock, fileLock>>
    BY DEF AskAboutHalf, AskAgain, AskFails, AskSucceeds
  <1>3. CacheTypeOK'
    BY <1>1, <1>2 DEF CacheTypeOK
  <1>4. (FlushHoldsLocks /\ TemporaryCoversFile)'
    <2>1. extractions'[c] = new /\ \A d \in Extractions \ {c} : extractions'[d] = extractions[d]
      BY <1>1 DEF CacheTypeOK
    <2> QED BY <1>1, <1>2, <1>3, <2>1, QuietStepKeepsOrder DEF CacheTypeOK
  <1>5. NothingForgotten'
    BY <1>2 DEF NothingForgotten
  <1> QED BY <1>3, <1>4, <1>5

LEMMA PutKeeps ==
  ASSUME CacheInv, NEW c \in Extractions, Put(c)
  PROVE  CacheInv'
  <1> USE DEF CacheInv
  <1> DEFINE p == RunnerOf[c]
             new == [extractions[c] EXCEPT !.at = "flushing"]
  <1> p \in Runners
    BY RunnerKnown
  <1>0. extractions[c] \in Extraction /\ extractions[c].key \in Keys
    BY DEF CacheTypeOK, Extraction
  <1>1. Loaded(p) \subseteq Keys /\ Loaded(p) \subseteq file \cup dirty[p]
    BY DEF CacheTypeOK, NothingForgotten, Loaded
  <1>2. new \in Extraction /\ new.at = "flushing" /\ extractions' = [extractions EXCEPT ![c] = new]
    BY <1>0 DEF Put, Goes, Extraction, Stages
  <1>3. CacheTypeOK'
    BY <1>0, <1>1, <1>2 DEF Put, CacheTypeOK
  <1>4. ASSUME NEW d \in Extractions
        PROVE  /\ extractions'[d].at \in {"flushing", "writing"} => threadLock'[RunnerOf[d]] = d
               /\ extractions'[d].at = "writing" => fileLock' = RunnerOf[d] /\ file' \subseteq written'[RunnerOf[d]]
    <2>1. CASE d = c
      BY <1>2, <2>1, CacheAssumption DEF Put, CacheTypeOK
    <2>2. CASE d # c
      <3>1. extractions'[d] = extractions[d]
        BY <1>2, <2>2 DEF CacheTypeOK
      <3>2. extractions[d].at \in {"flushing", "writing"} => RunnerOf[d] # p
        BY CacheAssumption DEF Put, FlushHoldsLocks
      <3>3. RunnerOf[d] # p => threadLock'[RunnerOf[d]] = threadLock[RunnerOf[d]]
        BY RunnerKnown DEF Put, CacheTypeOK
      <3> QED BY <3>1, <3>2, <3>3 DEF Put, FlushHoldsLocks, TemporaryCoversFile
    <2> QED BY <2>1, <2>2
  <1>5. NothingForgotten'
    BY <1>1 DEF Put, CacheTypeOK, NothingForgotten
  <1> QED BY <1>3, <1>4, <1>5 DEF FlushHoldsLocks, TemporaryCoversFile

LEMMA WriteKeeps ==
  ASSUME CacheInv, NEW c \in Extractions, WriteTemporary(c)
  PROVE  CacheInv'
  <1> USE DEF CacheInv
  <1> DEFINE p == RunnerOf[c]
             new == [extractions[c] EXCEPT !.at = "writing"]
  <1> p \in Runners
    BY RunnerKnown
  <1>1. Merged(p) \subseteq Keys /\ file \subseteq Merged(p)
    BY DEF CacheTypeOK, Merged
  <1>2. new \in Extraction /\ new.at = "writing" /\ extractions' = [extractions EXCEPT ![c] = new]
    <2>1. extractions[c] \in Extraction
      BY DEF CacheTypeOK
    <2> QED BY <2>1 DEF WriteTemporary, Goes, Extraction, Stages
  <1>3. CacheTypeOK'
    BY <1>1, <1>2 DEF WriteTemporary, CacheTypeOK
  <1>4. ASSUME NEW d \in Extractions
        PROVE  /\ extractions'[d].at \in {"flushing", "writing"} => threadLock'[RunnerOf[d]] = d
               /\ extractions'[d].at = "writing" => fileLock' = RunnerOf[d] /\ file' \subseteq written'[RunnerOf[d]]
    <2>1. CASE d = c
      BY <1>1, <1>2, <2>1 DEF WriteTemporary, CacheTypeOK, FlushHoldsLocks
    <2>2. CASE d # c
      <3>1. extractions'[d] = extractions[d]
        BY <1>2, <2>2 DEF CacheTypeOK
      <3>2. extractions[d].at # "writing"
        BY CacheAssumption, RunnerKnown DEF WriteTemporary, FlushHoldsLocks
      <3> QED BY <3>1, <3>2 DEF WriteTemporary, FlushHoldsLocks
    <2> QED BY <2>1, <2>2
  <1>5. NothingForgotten'
    BY DEF WriteTemporary, NothingForgotten
  <1> QED BY <1>3, <1>4, <1>5 DEF FlushHoldsLocks, TemporaryCoversFile

\* A process that lets its locks go, because a flush is over or because it dies, leaves
\* the others as they are, provided the file is only replaced while nobody else writes.
LEMMA ReleaseKeepsOrder ==
  ASSUME CacheInv, NEW p \in Runners, Release(p),
         \A d \in Extractions : RunnerOf[d] = p => extractions'[d].at \notin {"flushing", "writing"},
         \A d \in Extractions : RunnerOf[d] # p => extractions'[d].at = extractions[d].at,
         file' = file \/ \A d \in Extractions : RunnerOf[d] # p => extractions[d].at # "writing"
  PROVE  (FlushHoldsLocks /\ TemporaryCoversFile)'
  <1> USE DEF CacheInv
  <1>1. ASSUME NEW d \in Extractions
        PROVE  /\ extractions'[d].at \in {"flushing", "writing"} => threadLock'[RunnerOf[d]] = d
               /\ extractions'[d].at = "writing" => fileLock' = RunnerOf[d] /\ file' \subseteq written'[RunnerOf[d]]
    <2>1. CASE RunnerOf[d] = p
      BY <2>1
    <2>2. CASE RunnerOf[d] # p
      <3>1. /\ threadLock'[RunnerOf[d]] = threadLock[RunnerOf[d]]
            /\ written'[RunnerOf[d]] = written[RunnerOf[d]]
        BY <2>2, RunnerKnown DEF Release, CacheTypeOK
      <3>2. extractions[d].at \in {"flushing", "writing"} => threadLock[RunnerOf[d]] = d
        BY DEF FlushHoldsLocks
      <3>3. extractions[d].at = "writing" => fileLock' = RunnerOf[d]
        BY <2>2 DEF Release, FlushHoldsLocks
      <3>4. extractions[d].at = "writing" => file' \subseteq written[RunnerOf[d]]
        BY <2>2 DEF TemporaryCoversFile
      <3> QED BY <2>2, <3>1, <3>2, <3>3, <3>4
    <2> QED BY <2>1, <2>2
  <1> QED BY <1>1 DEF FlushHoldsLocks, TemporaryCoversFile

\* What Release writes has its type.
LEMMA ReleaseTypes ==
  ASSUME CacheInv, NEW p \in Runners, Release(p)
  PROVE  /\ written' \in [Runners -> SUBSET Keys]
         /\ threadLock' \in [Runners -> Extractions \cup {Free}]
         /\ fileLock' \in Runners \cup {Free}
  BY DEF CacheInv, CacheTypeOK, Release

LEMMA FlushEndKeeps ==
  ASSUME CacheInv, NEW c \in Extractions, ReplaceFile(c) \/ FlushFails(c)
  PROVE  CacheInv'
  <1> USE DEF CacheInv
  <1> DEFINE p == RunnerOf[c]
             new == [NoExtraction EXCEPT !.at = "done"]
  <1> p \in Runners
    BY RunnerKnown
  <1>1. /\ extractions[c].at \in {"flushing", "writing"}
        /\ extractions' = [extractions EXCEPT ![c] = new]
        /\ Release(p)
    BY DEF ReplaceFile, FlushFails, Ends
  <1>2. new \in Extraction /\ new.at = "done"
    BY NoExtractionType DEF Extraction, Stages
  <1>3. CacheTypeOK'
    <2>1. extractions' \in [Extractions -> Extraction]
      BY <1>1, <1>2 DEF CacheTypeOK
    <2>2. file' \subseteq Keys /\ loaded' \subseteq Runners
      BY DEF ReplaceFile, FlushFails, CacheTypeOK
    <2>3. store' \in [Runners -> SUBSET Keys] /\ dirty' \in [Runners -> SUBSET Keys]
      BY DEF ReplaceFile, FlushFails, CacheTypeOK
    <2> QED BY <1>1, <2>1, <2>2, <2>3, ReleaseTypes DEF CacheTypeOK
  <1>4. threadLock[p] = c
    BY <1>1 DEF FlushHoldsLocks
  <1>5. \A d \in Extractions : RunnerOf[d] = p => extractions'[d].at \notin {"flushing", "writing"}
    <2> TAKE d \in Extractions
    <2>1. CASE d = c
      BY <1>1, <1>2, <2>1 DEF CacheTypeOK
    <2>2. CASE d # c
      BY <1>1, <1>4, <2>2 DEF CacheTypeOK, FlushHoldsLocks
    <2> QED BY <2>1, <2>2
  <1>6. \A d \in Extractions : RunnerOf[d] # p => extractions'[d].at = extractions[d].at
    BY <1>1 DEF CacheTypeOK
  <1>7. file' = file \/ \A d \in Extractions : RunnerOf[d] # p => extractions[d].at # "writing"
    <2>1. CASE ReplaceFile(c)
      BY <2>1 DEF ReplaceFile, FlushHoldsLocks
    <2>2. CASE FlushFails(c)
      BY <2>2 DEF FlushFails
    <2> QED BY <2>1, <2>2
  <1>8. (FlushHoldsLocks /\ TemporaryCoversFile)'
    BY <1>1, <1>5, <1>6, <1>7, ReleaseKeepsOrder
  <1>9. NothingForgotten'
    <2>1. CASE ReplaceFile(c)
      <3>1. file \subseteq file' /\ file' = written[p]
        BY <2>1 DEF ReplaceFile, TemporaryCoversFile
      <3>2. ASSUME NEW q \in Runners
            PROVE  store'[q] \subseteq file' \cup dirty'[q]
        <4>1. CASE q = p
          BY <2>1, <3>1, <4>1 DEF ReplaceFile, CacheTypeOK
        <4>2. CASE q # p
          BY <2>1, <3>1, <4>2 DEF ReplaceFile, CacheTypeOK, NothingForgotten
        <4> QED BY <4>1, <4>2
      <3> QED BY <3>2 DEF NothingForgotten
    <2>2. CASE FlushFails(c)
      BY <2>2 DEF FlushFails, NothingForgotten
    <2> QED BY <2>1, <2>2
  <1> QED BY <1>3, <1>8, <1>9

LEMMA DeathKeeps ==
  ASSUME CacheInv, NEW p \in Runners, ProcessDies(p)
  PROVE  CacheInv'
  <1> USE DEF CacheInv
  <1>1. CacheTypeOK'
    <2>1. extractions' \in [Extractions -> Extraction]
      BY NoExtractionType DEF ProcessDies, CacheTypeOK
    <2> QED BY <2>1, ReleaseTypes DEF ProcessDies, CacheTypeOK
  <1>2. \A d \in Extractions : RunnerOf[d] = p => extractions'[d].at \notin {"flushing", "writing"}
    BY DEF ProcessDies, NoExtraction
  <1>3. (FlushHoldsLocks /\ TemporaryCoversFile)'
    BY <1>2, ReleaseKeepsOrder DEF ProcessDies
  <1>4. NothingForgotten'
    BY DEF ProcessDies, NothingForgotten, CacheTypeOK
  <1> QED BY <1>1, <1>3, <1>4

\* Nothing the invariant speaks of changes when the cache does not move.
LEMMA CacheRests == CacheInv /\ UNCHANGED cacheVars => CacheInv'
  BY DEF CacheInv, CacheTypeOK, FlushHoldsLocks, TemporaryCoversFile, NothingForgotten, cacheVars

\* Every answer a process has got and kept is in the file or still marked as to be written
\* there, for any number of processes and of calls, flushes that fail and deaths included.
THEOREM CacheForgetsNothing == CacheSpec => []NothingForgotten
  <1>1. CacheInv /\ [CacheNext]_cacheVars => CacheInv'
    <2> SUFFICES ASSUME CacheInv, CacheNext PROVE CacheInv'
      BY CacheRests
    <2>1. ASSUME NEW c \in Extractions, ExtractionStep(c) PROVE CacheInv'
      BY <2>1, LookupKeeps, AskKeeps, PutKeeps, WriteKeeps, FlushEndKeeps DEF ExtractionStep
    <2> QED BY <2>1, DeathKeeps DEF CacheNext
  <1>2. CacheInv => NothingForgotten
    BY DEF CacheInv
  <1> QED BY CacheStarts, <1>1, <1>2, PTL DEF CacheSpec

-----------------------------------------------------------------------------
(***************************************************************************)
(* No sandbox but the attempt's own runs, for any number of attempts,      *)
(* sandboxes and tries.  The argument is that the handle is the last       *)
(* sandbox that was made, and is only given up with a kill, which leaves   *)
(* the sandbox running where it is refused and nowhere else.               *)
(***************************************************************************)
\* How many sandboxes have been made is told by the attempts they were made in.
SandboxTypeOK ==
  /\ attempt \in Nat /\ open \in BOOLEAN
  /\ request \in {"none", "create", "run", "recreate"}
  /\ \E n \in Nat : born \in [1..n -> Nat]
  /\ alive \subseteq Made /\ escaped \subseteq Made
  /\ sandbox \in Made \cup {NoSandbox}

\* A handle is of this attempt and of no call that is making another; a call belongs to
\* an open attempt, and what runs without being held was not to be killed.
SandboxInv ==
  /\ SandboxTypeOK
  /\ sandbox # NoSandbox => open /\ born[sandbox] = attempt
  /\ request # "none" => open
  /\ Creating => sandbox = NoSandbox
  /\ alive \ escaped \subseteq {sandbox}

LEMMA SandboxSafe == SandboxInv => OnlyOwnSandboxRuns
  <1> SUFFICES ASSUME SandboxInv, NEW s \in alive \ escaped
               PROVE  s = sandbox /\ open /\ born[s] = attempt
    BY DEF OnlyOwnSandboxRuns
  <1>1. s \in Nat /\ s = sandbox
    BY DEF SandboxInv, SandboxTypeOK, Made
  <1> QED BY <1>1, SandboxAssumption DEF SandboxInv

LEMMA SandboxStarts == SandboxInit => SandboxInv
  <1> SUFFICES ASSUME SandboxInit PROVE SandboxInv
    OBVIOUS
  <1>1. born \in [1..0 -> Nat]
    BY DEF SandboxInit
  <1> QED BY <1>1 DEF SandboxInit, SandboxInv, SandboxTypeOK, Creating, Made

\* A kill leaves nothing running that is not accounted for.
LEMMA KilledOrEscaped ==
  ASSUME SandboxInv, Kill(sandbox)
  PROVE  alive' \subseteq alive /\ escaped' \subseteq Made /\ alive' \subseteq escaped'
  <1>1. CASE sandbox = NoSandbox
    <2>1. alive \subseteq Nat
      <3>1. PICK n \in Nat : born \in [1..n -> Nat]
        BY DEF SandboxInv, SandboxTypeOK
      <3> QED BY <3>1 DEF SandboxInv, SandboxTypeOK, Made
    <2>2. NoSandbox \notin alive
      BY <2>1, SandboxAssumption
    <2> QED BY <1>1, <2>2 DEF Kill, SandboxInv, SandboxTypeOK
  <1>2. CASE sandbox # NoSandbox
    <2>1. alive \subseteq escaped \cup {sandbox} /\ sandbox \in Made /\ escaped \subseteq Made
      BY <1>2 DEF SandboxInv, SandboxTypeOK
    <2>2. CASE alive' = alive \ {sandbox} /\ UNCHANGED escaped
      BY <2>1, <2>2
    <2>3. CASE escaped' = escaped \cup {sandbox} /\ UNCHANGED alive
      BY <2>1, <2>3
    <2> QED BY <1>2, <2>2, <2>3 DEF Kill
  <1> QED BY <1>1, <1>2

LEMMA CreateKeeps ==
  ASSUME SandboxInv, CreateSucceeds
  PROVE  SandboxInv'
  <1>1. PICK n \in Nat : born \in [1..n -> Nat]
    BY DEF SandboxInv, SandboxTypeOK
  <1>2. Made = 1..n /\ Cardinality(Made) = n
    BY <1>1, FS_Interval DEF Made
  <1>3. /\ sandbox' = n + 1 /\ alive' = alive \cup {n + 1}
        /\ born' = [x \in 1..n \cup {n + 1} |-> IF x = n + 1 THEN attempt ELSE born[x]]
        /\ UNCHANGED <<attempt, open, escaped>> /\ request' = "run"
    BY <1>2 DEF CreateSucceeds, Now
  <1>4. 1..n \cup {n + 1} = 1..(n + 1)
    OBVIOUS
  <1>5. born' \in [1..(n + 1) -> Nat] /\ born'[n + 1] = attempt
    BY <1>1, <1>3, <1>4 DEF SandboxInv, SandboxTypeOK
  <1>6. Made' = 1..(n + 1) /\ n + 1 \in Nat
    BY <1>5 DEF Made
  <1>7. open /\ sandbox = NoSandbox
    BY DEF CreateSucceeds, Creating, SandboxInv
  <1>8. alive \ escaped = {}
    BY <1>2, <1>7, SandboxAssumption DEF SandboxInv, SandboxTypeOK
  <1>9. SandboxTypeOK'
    BY <1>2, <1>3, <1>5, <1>6 DEF SandboxInv, SandboxTypeOK
  <1> QED BY <1>3, <1>5, <1>7, <1>8, <1>9 DEF SandboxInv, Creating

\* Steps in which a sandbox is given up.
LEMMA GivenUpKeeps ==
  ASSUME SandboxInv, EndTask \/ RunFindsNoSandbox
  PROVE  SandboxInv'
  <1>1. CASE sandbox' = NoSandbox /\ Kill(sandbox)
    <2>1. alive' \subseteq alive /\ escaped' \subseteq Made /\ alive' \subseteq escaped'
      BY <1>1, KilledOrEscaped
    <2>2. UNCHANGED <<attempt, born>> /\ Made' = Made
      BY DEF EndTask, RunFindsNoSandbox, Made
    <2>3. request' \in {"none", "recreate"} /\ open' \in BOOLEAN /\ (request' # "none" => open')
      BY DEF EndTask, RunFindsNoSandbox, SandboxInv, SandboxTypeOK, call, Now, Over
    <2> QED BY <1>1, <2>1, <2>2, <2>3 DEF SandboxInv, SandboxTypeOK, Creating
  <1>2. CASE ~(sandbox' = NoSandbox /\ Kill(sandbox))
    <2>1. UNCHANGED <<attempt, open, sandbox, alive, born, escaped>> /\ request' = "none"
      BY <1>2 DEF EndTask, RunFindsNoSandbox, Over, Now
    <2> QED BY <2>1 DEF SandboxInv, SandboxTypeOK, Creating, Made
  <1> QED BY <1>1, <1>2

\* Steps in which the handle stays.
LEMMA HeldKeeps ==
  ASSUME SandboxInv, TakeTask \/ CallTool \/ CreateFails \/ RunSucceeds \/ RunRefused \/ Expires
  PROVE  SandboxInv'
  <1>1. UNCHANGED <<sandbox, born, escaped>> /\ Made' = Made /\ alive' \subseteq alive
    BY DEF TakeTask, CallTool, CreateFails, RunSucceeds, RunRefused, Expires, Made
  <1>2. CASE TakeTask
    <2>1. sandbox = NoSandbox /\ request = "none"
      BY <1>2 DEF TakeTask, SandboxInv
    <2> QED BY <1>1, <1>2, <2>1 DEF TakeTask, call, SandboxInv, SandboxTypeOK, Creating
  <1>3. CASE ~TakeTask
    <2>1. UNCHANGED <<attempt, open>>
      BY <1>3 DEF CallTool, CreateFails, RunSucceeds, RunRefused, Expires
    <2>2. /\ request' \in {"none", "create", "run", "recreate"} /\ (request' # "none" => open)
          /\ Creating' => sandbox = NoSandbox
      BY <1>3 DEF CallTool, CreateFails, RunSucceeds, RunRefused, Expires, Now, Over, call, SandboxInv, SandboxTypeOK, Creating
    <2> QED BY <1>1, <2>1, <2>2 DEF SandboxInv, SandboxTypeOK
  <1> QED BY <1>2, <1>3

LEMMA SandboxSteps == SandboxInv /\ [SandboxNext]_sandboxVars => SandboxInv'
  <1> SUFFICES ASSUME SandboxInv, [SandboxNext]_sandboxVars PROVE SandboxInv'
    OBVIOUS
  <1>1. CASE SandboxNext
    BY <1>1, CreateKeeps, GivenUpKeeps, HeldKeeps DEF SandboxNext
  <1>2. CASE UNCHANGED sandboxVars
    BY <1>2 DEF sandboxVars, SandboxInv, SandboxTypeOK, Creating, Made
  <1> QED BY <1>1, <1>2

\* Whatever the service refuses or lets expire, the only sandbox that runs is the one the
\* attempt in hand made and still uses, but for those whose kill was refused, for any
\* number of attempts, tries and sandboxes.
THEOREM OnlyOwnSandbox == SandboxSpec => []OnlyOwnSandboxRuns
  <1>1. SandboxSpec => []SandboxInv
    BY SandboxStarts, SandboxSteps, PTL DEF SandboxSpec
  <1> QED BY <1>1, SandboxSafe, PTL

=============================================================================
