----------------------------- MODULE TaskLogger -----------------------------
(***************************************************************************)
(* The trace logger of a run (agentic/observability/task_logger.py, class  *)
(* TaskLogger).  Two threads: the event loop, whose calls are atomic to    *)
(* one another since none of them awaits, and the trace writer, which      *)
(* interleaves with each of their steps.  A process may die at any point;  *)
(* another one then runs over the same directory.                          *)
(***************************************************************************)
EXTENDS Integers, Sequences, FiniteSets

CONSTANTS
  Tasks,       \* task ids
  Modes,       \* the values of background_persist_json that runs use
  QueueMax,    \* background_queue_maxsize, at least one
  FlushSteps,  \* incremental_flush_steps; none if 0
  Absent,      \* no such file, no such trace, no job
  Torn,        \* a file whose contents do not parse
  MaxSteps,    \* bound: entries of a trace
  MaxStarts,   \* bound: tasks started, over all processes
  MaxFaults    \* bound: writes the disk refuses

ASSUME LoggerAssumption ==
  /\ Modes \subseteq BOOLEAN
  /\ QueueMax \in Nat \ {0} /\ FlushSteps \in Nat
  /\ MaxSteps \in Nat /\ MaxStarts \in Nat /\ MaxFaults \in Nat

VARIABLES
  background, \* self._background_persist_json
  live,       \* self._live_traces
  sinceFlush, \* self._step_counters
  queue,      \* self._trace_write_queue: traces to write, then Absent to stop
  unfinished, \* its unfinished tasks, what join waits for
  closed,     \* self._trace_writer_closed
  stopped,    \* the writer thread has returned
  errors,     \* self._trace_writer_errors: the tasks they are about
  annotated,  \* tasks whose run_info has got its task_logger_timing
  call,       \* what the event loop is doing in the logger
  job,        \* what each thread is persisting
  final,      \* <task>.json
  partial,    \* <task>.partial.json
  starts,     \* history: tasks started so far
  latest,     \* history: which of these starts was the last of each id
  owned,      \* history: ids this process started
  done,       \* history: the trace of a task this process called finish_task for
  merged,     \* history: tasks whose metadata an update reported merged
  cut,        \* history: tasks whose final file a death or a refusal cut short
  faults      \* history: writes the disk refused

writerVars == <<background, queue, unfinished, closed, stopped, errors>>
files == <<final, partial>>
historyVars == <<starts, latest, owned, done, merged, cut, faults>>
loggerVars == <<live, sinceFlush, writerVars, annotated, call, job, files, historyVars>>

Threads == {"loop", "writer"}
Trace == [run : 1..MaxStarts, steps : 0..MaxSteps]
Final == [trace : Trace, timed : BOOLEAN, updated : BOOLEAN]

ASSUME AbsentAssumption == Absent # Torn /\ {Absent, Torn} \cap (Tasks \cup Trace \cup Final) = {}

Written(trace) == [trace |-> trace, timed |-> FALSE, updated |-> FALSE]
Intact(task) == final[task] \notin {Absent, Torn}

Idle == [op |-> "idle", task |-> Absent, at |-> "start", read |-> Absent]
Call(op, task, at) == [op |-> op, task |-> task, at |-> at, read |-> Absent]
At(op, at) == call.op = op /\ call.at = at
NoJob == [task |-> Absent, trace |-> Absent, at |-> "start", knew |-> FALSE]

-----------------------------------------------------------------------------
(***************************************************************************)
(* Recording a running task.                                               *)
(***************************************************************************)
Running(task) == live[task] # Absent /\ done[task] = Absent

\* Callers never start an id again in one process: attempts are numbered.
Track(task, steps) ==
  /\ call = Idle /\ ~closed
  /\ live[task] = Absent /\ task \notin owned /\ starts < MaxStarts
  /\ starts' = starts + 1
  /\ latest' = [latest EXCEPT ![task] = starts']
  /\ owned' = owned \cup {task}
  /\ live' = [live EXCEPT ![task] = [run |-> starts', steps |-> steps]]
  /\ UNCHANGED <<sinceFlush, writerVars, annotated, call, job, files, done, merged, cut, faults>>

StartTask(task) == Track(task, 0)

\* fork_live_trace: the branch of an attempt starts with a copy of its trace.
ForkLiveTrace(source, task) ==
  /\ Running(source)
  /\ Track(task, live[source].steps)

\* add_step and add_tool_trace, as far as the start of an incremental flush.
AddStep(task) ==
  /\ call = Idle /\ Running(task) /\ live[task].steps < MaxSteps
  /\ live' = [live EXCEPT ![task].steps = @ + 1]
  /\ \/ /\ FlushSteps = 0
        /\ UNCHANGED <<sinceFlush, call>>
     \/ /\ FlushSteps > 0 /\ sinceFlush[task] + 1 < FlushSteps
        /\ sinceFlush' = [sinceFlush EXCEPT ![task] = @ + 1]
        /\ UNCHANGED call
     \/ /\ FlushSteps > 0 /\ sinceFlush[task] + 1 >= FlushSteps
        /\ sinceFlush' = [sinceFlush EXCEPT ![task] = 0]
        /\ call' = Call("flush", task, "open")
  /\ UNCHANGED <<writerVars, annotated, job, files, historyVars>>

\* write_text truncates the partial file, then fills it.
OpenPartial ==
  /\ At("flush", "open")
  /\ partial' = [partial EXCEPT ![call.task] = Torn]
  /\ call' = [call EXCEPT !.at = "write"]
  /\ UNCHANGED <<live, sinceFlush, writerVars, annotated, job, final, historyVars>>

WritePartial ==
  /\ At("flush", "write")
  /\ partial' = [partial EXCEPT ![call.task] = live[call.task]]
  /\ call' = Idle
  /\ UNCHANGED <<live, sinceFlush, writerVars, annotated, job, final, historyVars>>

-----------------------------------------------------------------------------
(***************************************************************************)
(* Finishing a task, on the event loop.                                    *)
(***************************************************************************)
JobOf(task) == [task |-> task, trace |-> live[task], at |-> "serialize", knew |-> task \in annotated]

\* finish_task, as far as the write: after close it persists on the event loop again.
FinishTask(task) ==
  /\ call = Idle /\ Running(task)
  /\ done' = [done EXCEPT ![task] = live[task]]
  /\ IF background /\ ~closed
       THEN call' = Call("finish", task, "enqueue") /\ UNCHANGED job
       ELSE call' = Call("finish", task, "persist") /\ job' = [job EXCEPT !["loop"] = JobOf(task)]
  /\ UNCHANGED <<live, sinceFlush, writerVars, annotated, files, starts, latest, owned, merged, cut, faults>>

\* The end of finish_task: the trace is no longer live.
Forget(task) ==
  /\ live' = [live EXCEPT ![task] = Absent]
  /\ sinceFlush' = [sinceFlush EXCEPT ![task] = 0]

\* _enqueue_trace_write tries again until the queue has room.
Enqueue ==
  /\ At("finish", "enqueue") /\ Len(queue) < QueueMax
  /\ queue' = Append(queue, JobOf(call.task))
  /\ unfinished' = unfinished + 1
  /\ Forget(call.task)
  /\ call' = [call EXCEPT !.at = "annotate"]
  /\ UNCHANGED <<background, closed, stopped, errors, annotated, job, files, historyVars>>

\* The caller adds task_logger_timing to run_info, which the trace's metadata holds.
Annotate ==
  /\ At("finish", "annotate")
  /\ annotated' = annotated \cup {call.task}
  /\ call' = Idle
  /\ UNCHANGED <<live, sinceFlush, writerVars, job, files, historyVars>>

-----------------------------------------------------------------------------
(***************************************************************************)
(* Persisting a trace, _persist_trace_to_file, on either thread.           *)
(***************************************************************************)
Move(thread, at) == job' = [job EXCEPT ![thread].at = at]

\* What follows a call that returned: _trace_writer_loop, or the rest of finish_task.
Persisted(thread) ==
  /\ job' = [job EXCEPT ![thread] = NoJob]
  /\ \/ /\ thread = "writer"
        /\ unfinished' = unfinished - 1
        /\ UNCHANGED <<live, sinceFlush, call>>
     \/ /\ thread = "loop"
        /\ Forget(call.task)
        /\ call' = [call EXCEPT !.at = "annotate"]
        /\ UNCHANGED unfinished
  /\ UNCHANGED <<background, queue, closed, stopped, errors, annotated, historyVars>>

\* Defect in the operator below: task_done is not in a finally clause.
WriterRaisedUncounted(thread) ==
  /\ job' = [job EXCEPT ![thread] = NoJob]
  /\ IF thread = "writer"
       THEN errors' = errors \cup {job[thread].task} /\ UNCHANGED call
       ELSE call' = Idle /\ UNCHANGED errors
  /\ UNCHANGED unfinished

\* Defect in the operator below: the writer forgets the exception.
WriterRaisedSilently(thread) ==
  /\ job' = [job EXCEPT ![thread] = NoJob]
  /\ IF thread = "writer"
       THEN unfinished' = unfinished - 1 /\ UNCHANGED <<errors, call>>
       ELSE call' = Idle /\ UNCHANGED <<errors, unfinished>>

\* What follows a call that raised: the writer keeps the error, finish_task does not
\* catch it and leaves the trace live.
PersistRaised(thread) ==
  /\ job' = [job EXCEPT ![thread] = NoJob]
  /\ IF thread = "writer"
       THEN errors' = errors \cup {job[thread].task} /\ unfinished' = unfinished - 1 /\ UNCHANGED call
       ELSE call' = Idle /\ UNCHANGED <<errors, unfinished>>

Unpersisted == UNCHANGED <<background, live, sinceFlush, queue, closed, stopped, annotated, starts, latest, owned, done, merged>>

\* asdict iterates over run_info: it may raise if that grows a key meanwhile.
Serialize(thread) ==
  /\ job[thread].at = "serialize" /\ job[thread].task # Absent
  /\ \/ /\ Move(thread, "open")
        /\ UNCHANGED <<live, sinceFlush, writerVars, annotated, call, files, historyVars>>
     \/ /\ job[thread].task \in annotated /\ ~job[thread].knew
        /\ PersistRaised(thread)
        /\ Unpersisted
        /\ UNCHANGED <<files, cut, faults>>

\* Defect in the action below: the partial file goes once the final one is open.
OpenFinalUnlinks(thread) ==
  /\ job[thread].at = "open"
  /\ final' = [final EXCEPT ![job[thread].task] = Torn]
  /\ partial' = [partial EXCEPT ![job[thread].task] = Absent]
  /\ Move(thread, "write")
  /\ UNCHANGED <<live, sinceFlush, writerVars, annotated, call, historyVars>>

\* write_bytes truncates the final file, then fills it.
OpenFinal(thread) ==
  /\ job[thread].at = "open"
  /\ final' = [final EXCEPT ![job[thread].task] = Torn]
  /\ Move(thread, "write")
  /\ UNCHANGED <<live, sinceFlush, writerVars, annotated, call, partial, historyVars>>

WriteFinal(thread) ==
  /\ job[thread].at = "write"
  /\ final' = [final EXCEPT ![job[thread].task] = Written(job[thread].trace)]
  /\ cut' = cut \ {job[thread].task}
  /\ Move(thread, "unlink")
  /\ UNCHANGED <<live, sinceFlush, writerVars, annotated, call, partial, starts, latest, owned, done, merged, faults>>

UnlinkPartial(thread) ==
  /\ job[thread].at = "unlink"
  /\ partial' = [partial EXCEPT ![job[thread].task] = Absent]
  /\ Move(thread, "patch")
  /\ UNCHANGED <<live, sinceFlush, writerVars, annotated, call, final, historyVars>>

\* The timings go over their placeholders, at the offsets these have in the payload: in
\* any other file they go over something else.
Patch(thread) ==
  LET task == job[thread].task IN
  /\ job[thread].at = "patch"
  /\ final' = [final EXCEPT ![task] =
       IF final[task] = Written(job[thread].trace) THEN [Written(job[thread].trace) EXCEPT !.timed = TRUE] ELSE Torn]
  /\ Persisted(thread)
  /\ UNCHANGED partial

\* The disk refuses an open, a write or an unlink.
PersistRefused(thread) ==
  /\ job[thread].at \in {"open", "write", "unlink", "patch"} /\ faults < MaxFaults
  /\ faults' = faults + 1
  /\ cut' = IF job[thread].at = "write" THEN cut \cup {job[thread].task} ELSE cut
  /\ PersistRaised(thread)
  /\ Unpersisted
  /\ UNCHANGED files

PersistStep(thread) ==
  Serialize(thread) \/ OpenFinal(thread) \/ WriteFinal(thread) \/ UnlinkPartial(thread) \/ Patch(thread)

-----------------------------------------------------------------------------
(***************************************************************************)
(* The writer thread, _trace_writer_loop.                                  *)
(***************************************************************************)
TakeJob ==
  /\ ~stopped /\ job["writer"] = NoJob /\ queue # <<>> /\ Head(queue) # NoJob
  /\ job' = [job EXCEPT !["writer"] = [Head(queue) EXCEPT !.knew = Head(queue).task \in annotated]]
  /\ queue' = Tail(queue)
  /\ UNCHANGED <<background, live, sinceFlush, unfinished, closed, stopped, errors, annotated, call, files, historyVars>>

StopWriter ==
  /\ ~stopped /\ job["writer"] = NoJob /\ queue # <<>> /\ Head(queue) = NoJob
  /\ queue' = Tail(queue)
  /\ unfinished' = unfinished - 1
  /\ stopped' = TRUE
  /\ UNCHANGED <<background, live, sinceFlush, closed, errors, annotated, call, job, files, historyVars>>

WriterStep == TakeJob \/ StopWriter \/ PersistStep("writer")

-----------------------------------------------------------------------------
(***************************************************************************)
(* update_finished_trace_metadata: merging into a trace that is on disk.   *)
(***************************************************************************)
UpdateFinished(task) ==
  /\ call = Idle /\ ~closed
  /\ done[task] # Absent /\ live[task] = Absent
  /\ call' = Call("update", task, "drain")
  /\ UNCHANGED <<live, sinceFlush, writerVars, annotated, job, files, historyVars>>

\* drain: every job put has been done with.
Drained == unfinished = 0

ReadTrace ==
  /\ At("update", "drain") /\ Drained
  /\ call' = IF Intact(call.task) THEN [call EXCEPT !.at = "open", !.read = final[call.task]] ELSE Idle
  /\ UNCHANGED <<live, sinceFlush, writerVars, annotated, job, files, historyVars>>

OpenUpdate ==
  /\ At("update", "open")
  /\ final' = [final EXCEPT ![call.task] = Torn]
  /\ call' = [call EXCEPT !.at = "write"]
  /\ UNCHANGED <<live, sinceFlush, writerVars, annotated, job, partial, historyVars>>

WriteUpdate ==
  /\ At("update", "write")
  /\ final' = [final EXCEPT ![call.task] = [call.read EXCEPT !.updated = TRUE]]
  /\ merged' = merged \cup {call.task}
  /\ call' = Idle
  /\ UNCHANGED <<live, sinceFlush, writerVars, annotated, job, partial, starts, latest, owned, done, cut, faults>>

\* An OSError of the write: the update reports that it failed, over a truncated file.
UpdateRefused ==
  /\ call.op = "update" /\ call.at \in {"open", "write"} /\ faults < MaxFaults
  /\ faults' = faults + 1
  /\ cut' = IF call.at = "write" THEN cut \cup {call.task} ELSE cut
  /\ call' = Idle
  /\ UNCHANGED <<live, sinceFlush, writerVars, annotated, job, files, starts, latest, owned, done, merged>>

-----------------------------------------------------------------------------
(***************************************************************************)
(* close: drain, stop the writer and join it.                              *)
(***************************************************************************)
Close ==
  /\ call = Idle /\ background /\ ~closed
  /\ call' = Call("close", Absent, "drain")
  /\ UNCHANGED <<live, sinceFlush, writerVars, annotated, job, files, historyVars>>

\* The queue is empty once drained, so that the put of None does not wait.
SendStop ==
  /\ At("close", "drain") /\ Drained
  /\ closed' = TRUE
  /\ queue' = Append(queue, NoJob)
  /\ unfinished' = unfinished + 1
  /\ call' = [call EXCEPT !.at = "join"]
  /\ UNCHANGED <<background, live, sinceFlush, stopped, errors, annotated, job, files, historyVars>>

JoinWriter ==
  /\ At("close", "join") /\ stopped
  /\ call' = Idle
  /\ UNCHANGED <<live, sinceFlush, writerVars, annotated, job, files, historyVars>>

-----------------------------------------------------------------------------
(***************************************************************************)
(* The process and its restarts.                                           *)
(***************************************************************************)
BeingWritten(task) ==
  \/ \E thread \in Threads : job[thread].task = task /\ job[thread].at = "write"
  \/ call.task = task /\ At("update", "write")

LoggerInit ==
  /\ background \in Modes
  /\ live = [task \in Tasks |-> Absent] /\ sinceFlush = [task \in Tasks |-> 0]
  /\ queue = <<>> /\ unfinished = 0 /\ errors = {}
  /\ closed = FALSE /\ stopped = FALSE
  /\ annotated = {} /\ call = Idle /\ job = [thread \in Threads |-> NoJob]
  /\ final = [task \in Tasks |-> Absent] /\ partial = [task \in Tasks |-> Absent]
  /\ starts = 0 /\ latest = [task \in Tasks |-> 0] /\ done = [task \in Tasks |-> Absent]
  /\ owned = {} /\ merged = {} /\ cut = {} /\ faults = 0

\* A death, or the end of the run, and the resumed run: both threads are gone with
\* whatever they held, the files stay as they are.
Restart ==
  /\ owned # {} /\ starts < MaxStarts
  /\ background' \in Modes
  /\ live' = [task \in Tasks |-> Absent] /\ sinceFlush' = [task \in Tasks |-> 0]
  /\ queue' = <<>> /\ unfinished' = 0 /\ errors' = {}
  /\ closed' = FALSE /\ stopped' = FALSE
  /\ annotated' = {} /\ call' = Idle /\ job' = [thread \in Threads |-> NoJob]
  /\ owned' = {} /\ merged' = {} /\ done' = [task \in Tasks |-> Absent]
  /\ cut' = cut \cup {task \in Tasks : BeingWritten(task)}
  /\ UNCHANGED <<files, starts, latest, faults>>

LoopStep ==
  \/ OpenPartial \/ WritePartial \/ Enqueue \/ Annotate \/ PersistStep("loop")
  \/ ReadTrace \/ OpenUpdate \/ WriteUpdate
  \/ SendStop \/ JoinWriter

Refused == UpdateRefused \/ \E thread \in Threads : PersistRefused(thread)

TaskCall(task) ==
  StartTask(task) \/ AddStep(task) \/ FinishTask(task) \/ UpdateFinished(task)

LoggerNext ==
  \/ \E task \in Tasks : TaskCall(task)
  \/ \E source, task \in Tasks : ForkLiveTrace(source, task)
  \/ LoopStep \/ WriterStep \/ Refused \/ Close \/ Restart

\* A call in the logger goes on by itself, and so does the writer.
LoggerSpec == LoggerInit /\ [][LoggerNext]_loggerVars /\ WF_loggerVars(LoopStep) /\ WF_loggerVars(WriterStep)

-----------------------------------------------------------------------------
(***************************************************************************)
(* Properties.                                                             *)
(***************************************************************************)

JobType ==
  [task : Tasks, trace : Trace, at : {"serialize", "open", "write", "unlink", "patch"}, knew : BOOLEAN]

CallType ==
  [op : {"idle", "flush", "finish", "update", "close"}, task : Tasks \cup {Absent},
   at : {"start", "open", "write", "enqueue", "persist", "annotate", "drain", "join"}, read : Final \cup {Absent}]

\* The shape of the state; the queue keeps to the bound it was created with.
LoggerTypeOK ==
  /\ live \in [Tasks -> Trace \cup {Absent}] /\ done \in [Tasks -> Trace \cup {Absent}]
  /\ sinceFlush \in [Tasks -> Nat]
  /\ queue \in Seq(JobType \cup {NoJob}) /\ Len(queue) <= QueueMax
  /\ unfinished \in Nat
  /\ background \in BOOLEAN /\ closed \in BOOLEAN /\ stopped \in BOOLEAN
  /\ job \in [Threads -> JobType \cup {NoJob}] /\ call \in CallType
  /\ final \in [Tasks -> Final \cup {Absent, Torn}]
  /\ partial \in [Tasks -> Trace \cup {Absent, Torn}]
  /\ starts \in 0..MaxStarts /\ latest \in [Tasks -> 0..starts] /\ faults \in 0..MaxFaults
  /\ owned \in SUBSET Tasks /\ errors \in SUBSET Tasks /\ annotated \in SUBSET Tasks
  /\ merged \in SUBSET Tasks /\ cut \in SUBSET Tasks

Pending(task) ==
  \/ \E i \in DOMAIN queue : queue[i].task = task
  \/ \E thread \in Threads : job[thread].task = task
  \/ call.op \in {"finish", "update"} /\ call.task = task

\* A finished task whose trace is no longer in hand is on disk, with all it had
\* recorded, its timings, and what an update reported merged; or the writer has
\* recorded an error about it, or the disk refused to rewrite its file.  And a trace
\* that resume cannot read is one that is being written, or one whose write a death or
\* a refusal cut short: the two threads never spoil one for each other.
FinishedIsOnDisk ==
  \A task \in Tasks :
    /\ (done[task] # Absent /\ live[task] = Absent /\ ~Pending(task) /\ task \notin errors \cup cut) =>
         final[task] = [trace |-> done[task], timed |-> TRUE, updated |-> task \in merged]
    /\ final[task] = Torn => BeingWritten(task) \/ task \in cut

\* The partial file of a task, all a crashed run leaves of it, goes only once the
\* finished trace of the same run can be read.
PartialOutlived ==
  [][\A task \in Tasks :
       (partial[task] # Absent /\ partial'[task] = Absent) =>
         /\ final[task] \notin {Absent, Torn}
         /\ final[task].trace.run = latest[task]]_loggerVars

\* No call of the event loop waits for ever: not for room in the queue, not to drain
\* it, not for the writer to stop, whatever became of the jobs.
CallsReturn == call # Idle ~> call = Idle

\* "Every task writes an append-only trace": once the logger is closed, each finished
\* task has its trace on disk.
EveryTaskTraced ==
  closed /\ stopped =>
    \A task \in Tasks : done[task] # Absent /\ live[task] = Absent => Intact(task)
=============================================================================
