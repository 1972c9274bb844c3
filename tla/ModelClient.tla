---------------------------- MODULE ModelClient ----------------------------
(***************************************************************************)
(* The calls to a model endpoint.  OpenAICompatibleModelClient             *)
(* (agentic/model_clients/openai_client.py) sends one request again for as *)
(* long as the endpoint fails for a moment, and RetryingModelClient        *)
(* (agentic/model_clients/retry_wrapper.py) around it asks again when the  *)
(* answer is no use.  The tasks of a run call one client concurrently and  *)
(* share its window of endpoint errors, which ends the whole process when  *)
(* it has been open too long.                                              *)
(*                                                                         *)
(* Time passes in ticks; only how long the window has been open, and how   *)
(* long each call still sleeps, are kept.                                  *)
(***************************************************************************)
EXTENDS Integers

CONSTANTS
  Callers,        \* concurrent calls of acomplete
  MaxRetries,     \* RetryingModelClient.max_retries, at least one
  RetryWait,      \* retry_wait_seconds
  MaxTokens,      \* max_output_tokens of the inner client
  Rooms,          \* what the context may leave for the answer, by the estimate
  ScalePercent,   \* length_retry_scale
  Waits,          \* waits before a request is sent again: back-off or Retry-After
  ExitAfter       \* endpoint_error_exit_after_seconds

ASSUME ClientAssumption ==
  /\ MaxRetries \in Nat \ {0} /\ RetryWait \in Nat /\ MaxTokens \in Nat \ {0}
  /\ Rooms \subseteq Int /\ Waits \subseteq Nat /\ ExitAfter \in Nat
  /\ ScalePercent \in Nat

VARIABLES
  exited,  \* SystemExit was raised
  window,  \* for how long _endpoint_error_window_started_at has been set
  quiet,   \* history: ticks since a request last ended otherwise than by a transient error
  calls    \* the state of each call

clientVars == <<exited, window, quiet, calls>>

NoWindow == -1

Least(a, b) == IF a <= b THEN a ELSE b
Greatest(a, b) == IF a <= b THEN b ELSE a

-----------------------------------------------------------------------------
(***************************************************************************)
(* RetryingModelClient.                                                    *)
(***************************************************************************)

\* _cap_max_tokens_for_context
WithinRoom(requested, room) == Greatest(1, Least(requested, room))

\* int(current_max_tokens * length_retry_scale)
Growth(tokens) == (tokens * ScalePercent) \div 100

\* Defect in the operator below: a small number scaled and rounded down stays as it is.
GrownByScale(tokens, room) == WithinRoom(Growth(tokens), room)

\* The tokens asked for after a truncated answer.
Grown(tokens, room) == WithinRoom(Greatest(tokens + 1, Growth(tokens)), room)

NewCall(room) ==
  [at |-> "request", attempt |-> 0, tokens |-> WithinRoom(MaxTokens, room), room |-> room, sleep |-> 0, answer |-> "none"]

\* One pass of _call_with_retries, once the inner client has answered.  An empty answer
\* is an error in the end; a truncated or repeating one is returned as it is.
AfterAnswer(call, answer) ==
  IF answer # "good" /\ call.attempt < MaxRetries - 1
    THEN [call EXCEPT !.at = "retry", !.attempt = @ + 1, !.sleep = RetryWait, !.answer = answer,
                      !.tokens = IF answer = "truncated" THEN Grown(@, call.room) ELSE @]
    ELSE [call EXCEPT !.at = IF answer = "empty" THEN "raised" ELSE "returned", !.answer = answer]

-----------------------------------------------------------------------------
(***************************************************************************)
(* OpenAICompatibleModelClient.                                            *)
(***************************************************************************)
ClientInit ==
  /\ exited = FALSE /\ window = NoWindow /\ quiet = 0
  /\ \E room \in [Callers -> Rooms] : calls = [c \in Callers |-> NewCall(room[c])]

Requesting(c) == ~exited /\ calls[c].at = "request"

\* Defect in the action below: only the call that opened the window closes it.
CloseWindowLate == quiet' = 0 /\ UNCHANGED window

\* _reset_endpoint_error_window
CloseWindow == quiet' = 0 /\ window' = NoWindow

\* The endpoint answered, if only with no choice at all.
Responded(c) ==
  /\ Requesting(c)
  /\ \E answer \in {"good", "truncated", "repeating", "empty"} :
       calls' = [calls EXCEPT ![c] = AfterAnswer(@, answer)]
  /\ CloseWindow
  /\ UNCHANGED exited

\* The prompt is too long, or an error nobody retries: it goes to the caller.
Refused(c) ==
  /\ Requesting(c)
  /\ calls' = [calls EXCEPT ![c].at = "raised", ![c].answer = "refused"]
  /\ CloseWindow
  /\ UNCHANGED exited

\* Defect in the operator below: every error opens the window anew.
WindowAtErrorReopened == 0

WindowAtError == IF window = NoWindow THEN 0 ELSE window

\* Defect in the operator below: a Retry-After is obeyed whatever it says.
SleepForUncapped(wait) == wait

SleepFor(wait) == Least(wait, ExitAfter - WindowAtError)

\* A timeout, a lost connection or a status that may be retried:
\* _sleep_or_exit_on_transient_endpoint_error.
TransientError(c) ==
  /\ Requesting(c)
  /\ window' = WindowAtError
  /\ IF window' >= ExitAfter
       THEN exited' = TRUE /\ UNCHANGED calls
       ELSE /\ \E wait \in Waits : calls' = [calls EXCEPT ![c].at = "again", ![c].sleep = SleepFor(wait)]
            /\ UNCHANGED exited
  /\ UNCHANGED quiet

\* The sleep of either client is over.
Wake(c) ==
  /\ ~exited /\ calls[c].at \in {"retry", "again"} /\ calls[c].sleep = 0
  /\ calls' = [calls EXCEPT ![c].at = "request"]
  /\ UNCHANGED <<exited, window, quiet>>

\* An open window is not looked at beyond ExitAfter.
Tick ==
  /\ ~exited /\ \E c \in Callers : calls[c].at \notin {"returned", "raised"}
  /\ window' = IF window = NoWindow THEN NoWindow ELSE Least(window + 1, ExitAfter)
  /\ quiet' = Least(quiet + 1, ExitAfter)
  /\ calls' = [c \in Callers |-> [calls[c] EXCEPT !.sleep = Greatest(@ - 1, 0)]]
  /\ UNCHANGED exited

CallEnds(c) == Responded(c) \/ Refused(c) \/ TransientError(c)

ClientNext == Tick \/ \E c \in Callers : CallEnds(c) \/ Wake(c)

\* Time passes, requests time out if nothing else happens, and sleeps end.
ClientFairness ==
  /\ WF_clientVars(Tick)
  /\ \A c \in Callers : WF_clientVars(CallEnds(c)) /\ WF_clientVars(Wake(c))

ClientSpec == ClientInit /\ [][ClientNext]_clientVars /\ ClientFairness

-----------------------------------------------------------------------------
(***************************************************************************)
(* Properties.                                                             *)
(***************************************************************************)

\* One call that fails cannot end the process while others get their answers: it is
\* ended only when no request of any call has ended otherwise for the whole period.
ExitJustified == exited => quiet >= ExitAfter

\* No sleep goes beyond the end of the window, however long the endpoint asks to wait,
\* and whichever call closes and opens the window meanwhile.
SleepsEndInTime ==
  \A c \in Callers : calls[c].at = "again" /\ window # NoWindow => calls[c].sleep <= ExitAfter - window

\* A truncated answer is asked for again with more room than before, unless it had all
\* that the context leaves.
TruncatedGrows ==
  [][\A c \in Callers :
       (calls[c].at = "request" /\ calls'[c].at = "retry" /\ calls'[c].answer = "truncated") =>
         calls'[c].tokens > calls[c].tokens \/ calls'[c].tokens = Greatest(1, calls[c].room)]_clientVars
=============================================================================
