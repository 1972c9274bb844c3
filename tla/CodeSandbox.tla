----------------------------- MODULE CodeSandbox -----------------------------
(***************************************************************************)
(* The sandbox that python_exec and shell_exec share                       *)
(* (agentic/tools/code_sandbox/code_exec.py,                               *)
(* SessionScopedCodeExecutionRuntime).  It is made at the first call of an *)
(* attempt, runs the calls one after the other and is killed with the      *)
(* attempt.  The service may refuse any request, and a sandbox may expire  *)
(* between two of them.                                                    *)
(***************************************************************************)
EXTENDS Integers, FiniteSets

CONSTANTS
  SandboxTries,   \* retry.max_attempts
  NoSandbox,      \* no handle
  MaxSessions,    \* bound: attempts of the task
  MaxSandboxes    \* bound: sandboxes made, over all attempts

ASSUME SandboxAssumption ==
  /\ SandboxTries \in Nat \ {0} /\ MaxSessions \in Nat /\ MaxSandboxes \in Nat
  /\ NoSandbox \notin Nat

VARIABLES
  attempt,     \* the attempt of the task, 0 before the first
  open,        \* between begin_task and end_task of the attempt
  sandbox,     \* self._sandbox
  request,     \* what the current call is doing: "none", "create", "run", "recreate"
  createTries, \* tries of _ensure_sandbox
  runTries,    \* tries of _execute
  alive,       \* sandboxes that run at the service
  born,        \* history: the attempt each sandbox was made in
  escaped      \* history: sandboxes whose kill the service refused

sandboxVars == <<attempt, open, sandbox, request, createTries, runTries, alive, born, escaped>>
call == <<request, createTries, runTries>>

Made == DOMAIN born

SandboxInit ==
  /\ attempt = 0 /\ open = FALSE /\ sandbox = NoSandbox
  /\ request = "none" /\ createTries = 0 /\ runTries = 0
  /\ alive = {} /\ born = <<>> /\ escaped = {}

Now(what, creates, runs) == request' = what /\ createTries' = creates /\ runTries' = runs
Over == Now("none", 0, 0)

\* sandbox.kill, whose failure is suppressed.
Kill(s) ==
  IF s = NoSandbox THEN UNCHANGED <<alive, escaped>>
  ELSE \/ alive' = alive \ {s} /\ UNCHANGED escaped
       \/ s \in alive /\ escaped' = escaped \cup {s} /\ UNCHANGED alive

TakeTask ==
  /\ ~open /\ attempt < MaxSessions
  /\ open' = TRUE /\ attempt' = attempt + 1
  /\ UNCHANGED <<sandbox, call, alive, born, escaped>>

\* Defect in the operator below: the sandbox is left to its timeout.
EndTaskOnly ==
  /\ open /\ request = "none"
  /\ open' = FALSE
  /\ UNCHANGED <<attempt, sandbox, call, alive, born, escaped>>

\* end_task, of either tool: the second finds no sandbox.
EndTask ==
  /\ open /\ request = "none"
  /\ open' = FALSE
  /\ sandbox' = NoSandbox /\ Kill(sandbox)
  /\ UNCHANGED <<attempt, call, born>>

\* _execute and _ensure_sandbox.
CallTool ==
  /\ open /\ request = "none"
  /\ IF sandbox = NoSandbox THEN Now("create", 1, 0) ELSE Now("run", 0, 1)
  /\ UNCHANGED <<attempt, open, sandbox, alive, born, escaped>>

Creating == request \in {"create", "recreate"}

CreateSucceeds ==
  /\ Creating /\ Cardinality(Made) < MaxSandboxes
  /\ LET s == Cardinality(Made) + 1
     IN  /\ sandbox' = s /\ alive' = alive \cup {s}
         /\ born' = [x \in Made \cup {s} |-> IF x = s THEN attempt ELSE born[x]]
  /\ Now("run", 0, runTries + 1)
  /\ UNCHANGED <<attempt, open, escaped>>

\* A refusal worth another try is tried again; otherwise the call fails, or, where the
\* sandbox was to replace one that had expired, raises the error of the expired one.
CreateFails ==
  /\ Creating
  /\ \/ createTries < SandboxTries /\ Now(request, createTries + 1, runTries)
     \/ Over
  /\ UNCHANGED <<attempt, open, sandbox, alive, born, escaped>>

RunSucceeds ==
  /\ request = "run" /\ sandbox \in alive
  /\ Over
  /\ UNCHANGED <<attempt, open, sandbox, alive, born, escaped>>

RunRefused ==
  /\ request = "run"
  /\ \/ runTries < SandboxTries /\ Now("run", 0, runTries + 1)
     \/ Over
  /\ UNCHANGED <<attempt, open, sandbox, alive, born, escaped>>

\* The sandbox is not found: it is given up for another, unless this was the last try.
RunFindsNoSandbox ==
  /\ request = "run" /\ sandbox \notin alive
  /\ IF runTries < SandboxTries
     THEN sandbox' = NoSandbox /\ Kill(sandbox) /\ Now("recreate", 1, runTries)
     ELSE Over /\ UNCHANGED <<sandbox, alive, escaped>>
  /\ UNCHANGED <<attempt, open, born>>

\* The service ends a sandbox: its timeout is over, or it is lost.
Expires ==
  /\ \E s \in alive : alive' = alive \ {s}
  /\ UNCHANGED <<attempt, open, sandbox, call, born, escaped>>

SandboxNext ==
  \/ TakeTask \/ EndTask \/ CallTool \/ CreateSucceeds \/ CreateFails
  \/ RunSucceeds \/ RunRefused \/ RunFindsNoSandbox \/ Expires

SandboxSpec == SandboxInit /\ [][SandboxNext]_sandboxVars

-----------------------------------------------------------------------------
\* Whatever fails, expires or is made again, the only sandbox that runs is the one the
\* attempt in hand made for itself and still uses, but for one whose kill was refused: no
\* attempt goes on in the state another left, and none is paid for after its attempt
\* ("A new attempt gets a fresh sandbox.").
OnlyOwnSandboxRuns ==
  \A s \in alive \ escaped : s = sandbox /\ open /\ born[s] = attempt
=============================================================================
