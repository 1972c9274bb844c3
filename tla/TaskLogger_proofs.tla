------------------------- MODULE TaskLogger_proofs -------------------------
(***************************************************************************)
(* The files of the task logger, for any tasks, any length of the queue    *)
(* and any number of starts, refused writes and deaths; and the readers of *)
(* the logs it writes, for any number of results that are kept, messages   *)
(* that a compaction leaves alone and entries.                             *)
(*                                                                         *)
(* The argument about the files follows a trace: while it is live only the *)
(* event loop touches it; once it is handed over only one thread has it in *)
(* hand, and how far that thread is tells what there is on disk;           *)
(* afterwards only an update opens its file again, and it does so when the *)
(* queue has been drained.  The readers are the second part.               *)
(***************************************************************************)
EXTENDS TaskLogger, TraceReaders, WellFoundedInduction, TLAPS

\* What is being persisted is what the task had when it was finished; no update has
\* merged anything into its trace yet.
Founded(work) == done[work.task] = work.trace /\ work.task \notin merged

\* The calls of the event loop, and what they count on while they last.
CallInHand ==
  LET task == call.task IN
  /\ call.op = "idle" => call = Idle
  /\ call.op \in {"flush", "finish", "update"} => task \in Tasks
  /\ call.op = "flush" => call.at \in {"open", "write"} /\ live[task] # Absent
  /\ call.op = "finish" =>
       /\ call.at \in {"enqueue", "persist", "annotate"} /\ done[task] # Absent
       /\ call.at \in {"enqueue", "persist"} => live[task] = done[task]
  /\ call.op = "update" =>
       /\ call.at \in {"drain", "open", "write"} /\ done[task] # Absent /\ live[task] = Absent
       /\ call.at # "drain" => unfinished = 0 /\ call.read \in Final
       /\ call.at = "open" => final[task] = call.read
  /\ call.op = "close" => call.at \in {"drain", "join"} /\ task = Absent

\* The event loop persists only in finish_task; what it persists is still live.
LoopWork ==
  job["loop"] # NoJob => At("finish", "persist") /\ job["loop"].task = call.task /\ Founded(job["loop"])

\* What has been handed to the writer is no longer live, and is handed over once.
WriterWork ==
  /\ unfinished = Len(queue) + (IF job["writer"] = NoJob THEN 0 ELSE 1)
  /\ \A i \in 1..Len(queue) : queue[i] # NoJob => live[queue[i].task] = Absent /\ Founded(queue[i]) /\ queue[i].at = "serialize"
  /\ \A i, j \in 1..Len(queue) : queue[i] # NoJob /\ i # j => queue[i].task # queue[j].task
  /\ job["writer"] # NoJob =>
       /\ live[job["writer"].task] = Absent /\ Founded(job["writer"])
       /\ \A i \in 1..Len(queue) : queue[i].task # job["writer"].task

\* What is known of a task is about its last start, by this process.
KnownTasks ==
  \A task \in Tasks :
    /\ live[task] # Absent => task \in owned /\ live[task].run = latest[task]
    /\ done[task] # Absent => task \in owned /\ done[task].run = latest[task]
    /\ task \in merged => done[task] # Absent /\ live[task] = Absent

\* How far a write has come is what there is on disk.
StagesOnDisk ==
  \A thread \in Threads :
    LET work == job[thread] IN
    /\ work.at \in {"unlink", "patch"} => final[work.task] = Written(work.trace)

InHand(task) ==
  \/ \E i \in 1..Len(queue) : queue[i].task = task
  \/ \E thread \in Threads : job[thread].task = task

\* What is on disk, or was until an update opened it to write it anew.
OnDisk(task) == IF At("update", "write") /\ call.task = task THEN call.read ELSE final[task]

SettledOnDisk ==
  \A task \in Tasks :
    done[task] # Absent /\ live[task] = Absent /\ ~InHand(task) /\ task \notin errors \cup cut =>
      OnDisk(task) = [trace |-> done[task], timed |-> TRUE, updated |-> task \in merged]

TornIsCut == \A task \in Tasks : final[task] = Torn => BeingWritten(task) \/ task \in cut

LoggerInv ==
  /\ LoggerTypeOK /\ CallInHand /\ LoopWork /\ WriterWork
  /\ KnownTasks /\ StagesOnDisk /\ SettledOnDisk /\ TornIsCut

-----------------------------------------------------------------------------
\* What is not there is no trace and no file.
LEMMA AbsentApart ==
  /\ Absent # Torn /\ {Absent, Torn} \cap Tasks = {} /\ {Absent, Torn} \cap Trace = {} /\ {Absent, Torn} \cap Final = {}
  BY AbsentAssumption

LEMMA JobFields ==
  ASSUME NEW work \in JobType \cup {NoJob}
  PROVE  /\ work = NoJob => work.task = Absent /\ work.at = "start"
         /\ work # NoJob => /\ work \in JobType /\ work.task \in Tasks /\ work.task # Absent /\ work.trace \in Trace /\ work.trace # Absent
                             /\ work.at \in {"serialize", "open", "write", "unlink", "patch"}
  BY AbsentApart DEF JobType, NoJob

LEMMA CallMoved ==
  ASSUME NEW old \in CallType, NEW at \in {"start", "open", "write", "enqueue", "persist", "annotate", "drain", "join"}
  PROVE  LET new == [old EXCEPT !.at = at]
         IN  new \in CallType /\ new.op = old.op /\ new.task = old.task /\ new.at = at /\ new.read = old.read
  BY DEF CallType

LEMMA LoggerStarts == LoggerInit => LoggerInv
  <1> SUFFICES ASSUME LoggerInit PROVE LoggerInv
    OBVIOUS
  <1>1. LoggerTypeOK
    <2>1. /\ queue \in Seq(JobType \cup {NoJob}) /\ Len(queue) <= QueueMax
          /\ starts \in 0..MaxStarts /\ faults \in 0..MaxFaults /\ background \in BOOLEAN
      BY LoggerAssumption DEF LoggerInit
    <2>2. call \in CallType
      BY DEF LoggerInit, CallType, Idle
    <2>3. /\ live \in [Tasks -> Trace \cup {Absent}] /\ done \in [Tasks -> Trace \cup {Absent}]
          /\ sinceFlush \in [Tasks -> Nat] /\ job \in [Threads -> JobType \cup {NoJob}]
          /\ final \in [Tasks -> Final \cup {Absent, Torn}] /\ partial \in [Tasks -> Trace \cup {Absent, Torn}]
          /\ latest \in [Tasks -> 0..starts]
      BY DEF LoggerInit
    <2> QED BY <2>1, <2>2, <2>3 DEF LoggerInit, LoggerTypeOK
  <1>2. \A thread \in Threads : job[thread] = NoJob
    BY DEF LoggerInit
  <1>3. CallInHand /\ LoopWork /\ WriterWork /\ KnownTasks
    BY <1>2 DEF LoggerInit, CallInHand, LoopWork, WriterWork, KnownTasks, Idle, Threads
  <1>4. StagesOnDisk /\ SettledOnDisk /\ TornIsCut
    BY <1>2, AbsentApart DEF LoggerInit, StagesOnDisk, SettledOnDisk, TornIsCut, NoJob
  <1> QED BY <1>1, <1>3, <1>4 DEF LoggerInv

\* What is in hand is about tasks that this process has started and finished.
LEMMA WorkKnown ==
  ASSUME LoggerInv
  PROVE  /\ \A i \in 1..Len(queue) : queue[i] \in JobType \cup {NoJob}
         /\ \A i \in 1..Len(queue) : queue[i] # NoJob =>
              queue[i] \in JobType /\ queue[i].task \in Tasks /\ queue[i].task \in owned /\ done[queue[i].task] \in Trace
         /\ \A thread \in Threads : job[thread] \in JobType \cup {NoJob}
         /\ \A thread \in Threads : job[thread] # NoJob =>
              job[thread] \in JobType /\ job[thread].task \in Tasks /\ job[thread].task \in owned /\ done[job[thread].task] \in Trace
  <1>1. \A i \in 1..Len(queue) : queue[i] \in JobType \cup {NoJob}
    <2> DEFINE Jobs == JobType \cup {NoJob}
    <2>1. queue \in Seq(Jobs)
      BY DEF LoggerInv, LoggerTypeOK
    <2> HIDE DEF Jobs
    <2>2. \A i \in 1..Len(queue) : queue[i] \in Jobs
      BY <2>1
    <2> QED BY <2>2 DEF Jobs
  <1>2. \A thread \in Threads : job[thread] \in JobType \cup {NoJob}
    BY DEF LoggerInv, LoggerTypeOK
  <1>3. ASSUME NEW work \in JobType \cup {NoJob}, work # NoJob, Founded(work)
        PROVE  work \in JobType /\ work.task \in Tasks /\ work.task \in owned /\ done[work.task] \in Trace
    <2>1. work \in JobType /\ work.task \in Tasks /\ work.trace \in Trace /\ work.trace # Absent
      BY <1>3, JobFields
    <2> QED BY <1>3, <2>1 DEF LoggerInv, KnownTasks, Founded
  <1>4. \A i \in 1..Len(queue) : queue[i] # NoJob => Founded(queue[i])
    BY DEF LoggerInv, WriterWork
  <1>5. \A thread \in Threads : job[thread] # NoJob => Founded(job[thread])
    BY DEF LoggerInv, WriterWork, LoopWork, Threads
  <1> QED BY <1>1, <1>2, <1>3, <1>4, <1>5

\* A task is started again over whatever an earlier process left.
LEMMA TrackKeeps ==
  ASSUME LoggerInv, NEW task \in Tasks, NEW steps \in 0..MaxSteps, Track(task, steps)
  PROVE  LoggerInv'
  <1> DEFINE trace == [run |-> starts', steps |-> steps]
  <1>1. /\ task \notin owned /\ starts < MaxStarts /\ starts' = starts + 1 /\ owned' = owned \cup {task}
        /\ latest' = [latest EXCEPT ![task] = starts'] /\ live' = [live EXCEPT ![task] = trace]
        /\ UNCHANGED <<sinceFlush, background, queue, unfinished, closed, stopped, errors, annotated, call, job,
                       final, partial, done, merged, cut, faults>>
        /\ call = Idle
    BY DEF Track, writerVars, files
  <1>2. starts \in 0..MaxStarts /\ starts' \in 1..MaxStarts /\ trace \in Trace /\ trace.run = starts'
    BY <1>1, LoggerAssumption DEF LoggerInv, LoggerTypeOK, Trace
  <1> HIDE DEF trace
  <1>3. /\ live' \in [Tasks -> Trace \cup {Absent}] /\ live'[task] = trace /\ latest'[task] = starts'
        /\ \A t \in Tasks : t # task => live'[t] = live[t] /\ latest'[t] = latest[t]
    BY <1>1, <1>2 DEF LoggerInv, LoggerTypeOK
  <1>4. latest' \in [Tasks -> 0..starts']
    BY <1>1, <1>2 DEF LoggerInv, LoggerTypeOK
  <1>5. live[task] = Absent /\ done[task] = Absent /\ task \notin merged
    BY <1>1 DEF LoggerInv, KnownTasks
  <1>6. LoggerTypeOK'
    BY <1>1, <1>2, <1>3, <1>4 DEF LoggerInv, LoggerTypeOK
  <1>7. CallInHand' /\ LoopWork'
    BY <1>1, WorkKnown DEF LoggerInv, CallInHand, LoopWork, At, Idle, Founded
  <1>8. WriterWork'
    <2>1. \A i \in 1..Len(queue) : queue[i] # NoJob => live'[queue[i].task] = live[queue[i].task]
      BY <1>1, <1>3, WorkKnown
    <2>2. job["writer"] # NoJob => live'[job["writer"].task] = live[job["writer"].task]
      BY <1>1, <1>3, WorkKnown DEF Threads
    <2> QED BY <1>1, <2>1, <2>2 DEF LoggerInv, WriterWork, Founded
  <1>9. KnownTasks'
    BY <1>1, <1>2, <1>3, <1>5 DEF LoggerInv, KnownTasks
  <1>10. StagesOnDisk' /\ TornIsCut'
    BY <1>1 DEF LoggerInv, StagesOnDisk, TornIsCut, BeingWritten, At
  <1>11. SettledOnDisk'
    BY <1>1, <1>3, <1>5 DEF LoggerInv, SettledOnDisk, InHand, OnDisk, At
  <1> QED BY <1>6, <1>7, <1>8, <1>9, <1>10, <1>11 DEF LoggerInv

LEMMA AddStepKeeps ==
  ASSUME LoggerInv, NEW task \in Tasks, AddStep(task)
  PROVE  LoggerInv'
  <1> DEFINE trace == [live[task] EXCEPT !.steps = @ + 1]
  <1>1. /\ live[task] # Absent /\ done[task] = Absent /\ live[task].steps < MaxSteps
        /\ live' = [live EXCEPT ![task] = trace] /\ call = Idle
        /\ call' \in {Idle, Call("flush", task, "open")}
        /\ sinceFlush' = sinceFlush \/ sinceFlush' = [sinceFlush EXCEPT ![task] = @ + 1] \/ sinceFlush' = [sinceFlush EXCEPT ![task] = 0]
        /\ UNCHANGED <<background, queue, unfinished, closed, stopped, errors, annotated, job, final, partial,
                       starts, latest, owned, done, merged, cut, faults>>
    BY DEF AddStep, Running, writerVars, files, historyVars
  <1>2. trace \in Trace /\ trace.run = live[task].run
    <2>1. live[task] \in Trace
      BY <1>1 DEF LoggerInv, LoggerTypeOK
    <2>2. live[task].steps + 1 \in 0..MaxSteps
      BY <1>1, <2>1, LoggerAssumption DEF Trace
    <2> QED BY <2>1, <2>2 DEF Trace
  <1> HIDE DEF trace
  <1>3. /\ live' \in [Tasks -> Trace \cup {Absent}] /\ live'[task] = trace
        /\ \A t \in Tasks : t # task => live'[t] = live[t]
    BY <1>1, <1>2 DEF LoggerInv, LoggerTypeOK
  <1>4. sinceFlush' \in [Tasks -> Nat]
    <2>1. sinceFlush \in [Tasks -> Nat] /\ sinceFlush[task] + 1 \in Nat
      BY DEF LoggerInv, LoggerTypeOK
    <2> QED BY <1>1, <2>1
  <1>5. call' \in CallType
    BY <1>1 DEF CallType, Idle, Call
  <1>6. LoggerTypeOK'
    BY <1>1, <1>3, <1>4, <1>5 DEF LoggerInv, LoggerTypeOK
  <1>7. job["loop"] = NoJob
    BY <1>1 DEF LoggerInv, LoopWork, At, Idle
  <1>8. CallInHand' /\ LoopWork'
    BY <1>1, <1>2, <1>3, <1>7, AbsentApart DEF LoggerInv, CallInHand, LoopWork, Idle, Call
  <1>9. WriterWork'
    <2>1. \A i \in 1..Len(queue) : queue[i] # NoJob => live'[queue[i].task] = live[queue[i].task]
      BY <1>1, <1>3, WorkKnown DEF LoggerInv, WriterWork
    <2>2. job["writer"] # NoJob => live'[job["writer"].task] = live[job["writer"].task]
      BY <1>1, <1>3, WorkKnown DEF Threads, LoggerInv, WriterWork
    <2> QED BY <1>1, <2>1, <2>2 DEF LoggerInv, WriterWork, Founded
  <1>10. KnownTasks'
    BY <1>1, <1>2, <1>3 DEF LoggerInv, KnownTasks
  <1>11. StagesOnDisk' /\ TornIsCut'
    BY <1>1 DEF LoggerInv, StagesOnDisk, TornIsCut, BeingWritten, At, Call, Idle
  <1>12. SettledOnDisk'
    BY <1>1, <1>3 DEF LoggerInv, SettledOnDisk, InHand, OnDisk, At, Call, Idle
  <1> QED BY <1>6, <1>8, <1>9, <1>10, <1>11, <1>12 DEF LoggerInv

\* Partial files are written while the trace is live.
LEMMA FlushKeeps ==
  ASSUME LoggerInv, OpenPartial \/ WritePartial
  PROVE  LoggerInv'
  <1>1. /\ call.op = "flush" /\ call.task \in Tasks
        /\ \/ call' = [call EXCEPT !.at = "write"] /\ partial' = [partial EXCEPT ![call.task] = Torn]
           \/ call' = Idle /\ partial' = [partial EXCEPT ![call.task] = live[call.task]]
        /\ UNCHANGED <<live, sinceFlush, background, queue, unfinished, closed, stopped, errors, annotated, job, final,
                       starts, latest, owned, done, merged, cut, faults>>
    BY DEF OpenPartial, WritePartial, At, writerVars, historyVars, LoggerInv, CallInHand
  <1>2. live[call.task] # Absent /\ live[call.task] \in Trace
    BY <1>1 DEF LoggerInv, CallInHand, LoggerTypeOK
  <1>3. call' \in CallType /\ (call' = Idle \/ (call'.op = "flush" /\ call'.task = call.task /\ call'.at = "write"))
    <2>1. Idle \in CallType /\ call \in CallType
      BY DEF LoggerInv, LoggerTypeOK, CallType, Idle
    <2>2. CASE call' = Idle
      BY <2>1, <2>2
    <2>3. CASE call' = [call EXCEPT !.at = "write"]
      <3>1. call' \in CallType /\ call'.op = call.op /\ call'.task = call.task /\ call'.at = "write"
        BY <2>1, <2>3, CallMoved
      <3> QED BY <1>1, <3>1
    <2> QED BY <1>1, <2>2, <2>3
  <1>4. partial' \in [Tasks -> Trace \cup {Absent, Torn}]
    BY <1>1, <1>2 DEF LoggerInv, LoggerTypeOK
  <1>5. LoggerTypeOK'
    BY <1>1, <1>3, <1>4 DEF LoggerInv, LoggerTypeOK
  <1>6. CallInHand' /\ LoopWork'
    BY <1>1, <1>2, <1>3 DEF LoggerInv, CallInHand, LoopWork, At, Idle
  <1>7. WriterWork' /\ KnownTasks'
    BY <1>1 DEF LoggerInv, WriterWork, KnownTasks, Founded
  <1>8. StagesOnDisk' /\ TornIsCut'
    BY <1>1, <1>3 DEF LoggerInv, StagesOnDisk, TornIsCut, BeingWritten, At, Idle
  <1>9. SettledOnDisk'
    BY <1>1, <1>3 DEF LoggerInv, SettledOnDisk, InHand, OnDisk, At, Idle
  <1> QED BY <1>5, <1>6, <1>7, <1>8, <1>9 DEF LoggerInv

\* A finished trace is frozen before it is handed over.
LEMMA FinishTaskKeeps ==
  ASSUME LoggerInv, NEW task \in Tasks, FinishTask(task)
  PROVE  LoggerInv'
  <1> DEFINE work == JobOf(task)
  <1>1. /\ call = Idle /\ live[task] # Absent /\ done[task] = Absent
        /\ done' = [done EXCEPT ![task] = live[task]]
        /\ \/ call' = Call("finish", task, "enqueue") /\ job' = job
           \/ call' = Call("finish", task, "persist") /\ job' = [job EXCEPT !["loop"] = work]
        /\ UNCHANGED <<live, sinceFlush, background, queue, unfinished, closed, stopped, errors, annotated, final, partial,
                       starts, latest, owned, merged, cut, faults>>
    BY DEF FinishTask, Running, writerVars, files
  <1>2. live[task] \in Trace /\ task \notin merged
    BY <1>1 DEF LoggerInv, LoggerTypeOK, KnownTasks
  <1>3. work \in JobType /\ work.task = task /\ work.trace = live[task] /\ work.at = "serialize" /\ work # NoJob
    BY <1>2, AbsentApart DEF JobOf, JobType, NoJob
  <1> HIDE DEF work
  <1>4. /\ done' \in [Tasks -> Trace \cup {Absent}] /\ done'[task] = live[task]
        /\ \A t \in Tasks : t # task => done'[t] = done[t]
    BY <1>1, <1>2 DEF LoggerInv, LoggerTypeOK
  <1>5. call' \in CallType /\ call'.op = "finish" /\ call'.task = task /\ call'.at \in {"enqueue", "persist"}
    BY <1>1 DEF CallType, Call
  <1>6. job["loop"] = NoJob
    BY <1>1 DEF LoggerInv, LoopWork, At, Idle
  <1>7. /\ job' \in [Threads -> JobType \cup {NoJob}] /\ job'["writer"] = job["writer"]
        /\ job'["loop"] = NoJob \/ (job'["loop"] = work /\ call'.at = "persist")
    BY <1>1, <1>3, <1>6 DEF LoggerInv, LoggerTypeOK, Threads, Call
  <1>8. LoggerTypeOK'
    BY <1>1, <1>4, <1>5, <1>7 DEF LoggerInv, LoggerTypeOK
  <1>9. CallInHand' /\ LoopWork'
    BY <1>1, <1>2, <1>3, <1>4, <1>5, <1>7 DEF LoggerInv, CallInHand, LoopWork, At, Founded
  <1>10. WriterWork'
    <2>1. \A i \in 1..Len(queue) : queue[i] # NoJob => done'[queue[i].task] = done[queue[i].task]
      BY <1>1, <1>4, WorkKnown DEF LoggerInv, WriterWork
    <2>2. job["writer"] # NoJob => done'[job["writer"].task] = done[job["writer"].task]
      BY <1>1, <1>4, WorkKnown DEF Threads, LoggerInv, WriterWork
    <2> QED BY <1>1, <1>7, <2>1, <2>2 DEF LoggerInv, WriterWork, Founded
  <1>11. KnownTasks'
    BY <1>1, <1>4 DEF LoggerInv, KnownTasks
  <1>12. StagesOnDisk'
    BY <1>1, <1>3, <1>7 DEF LoggerInv, StagesOnDisk, Threads, NoJob
  <1>13. TornIsCut'
    BY <1>1, <1>5, <1>6, <1>7 DEF LoggerInv, TornIsCut, BeingWritten, At, Idle, Threads, NoJob
  <1>14. SettledOnDisk'
    <2>1. \A t \in Tasks : OnDisk(t)' = OnDisk(t)
      BY <1>1, <1>5 DEF OnDisk, At, Idle
    <2>2. \A t \in Tasks : InHand(t) => InHand(t)'
      <3>1. \A thread \in Threads : job[thread] = NoJob \/ job'[thread] = job[thread]
        BY <1>6, <1>7 DEF Threads
      <3>2. \A t \in Tasks : t # NoJob.task
        BY AbsentApart DEF NoJob
      <3> QED BY <1>1, <3>1, <3>2 DEF InHand
    <2> QED BY <1>1, <1>4, <2>1, <2>2 DEF LoggerInv, SettledOnDisk
  <1> QED BY <1>8, <1>9, <1>10, <1>11, <1>12, <1>13, <1>14 DEF LoggerInv

\* What is handed to the writer is no longer live, so it is handed over once.
LEMMA EnqueueKeeps ==
  ASSUME LoggerInv, Enqueue
  PROVE  LoggerInv'
  <1>0. PICK task, work : task = call.task /\ work = JobOf(call.task)
    OBVIOUS
  <1>1. /\ call.op = "finish" /\ call.at = "enqueue" /\ Len(queue) < QueueMax
        /\ queue' = Append(queue, work) /\ unfinished' = unfinished + 1
        /\ live' = [live EXCEPT ![task] = Absent] /\ sinceFlush' = [sinceFlush EXCEPT ![task] = 0]
        /\ call' = [call EXCEPT !.at = "annotate"]
        /\ UNCHANGED <<background, closed, stopped, errors, annotated, job, final, partial,
                       starts, latest, owned, done, merged, cut, faults>>
    BY <1>0 DEF Enqueue, At, Forget, files, historyVars
  <1>2. task \in Tasks /\ done[task] # Absent /\ live[task] = done[task] /\ live[task] \in Trace /\ task \notin merged
    BY <1>0, <1>1 DEF LoggerInv, CallInHand, LoggerTypeOK, KnownTasks
  <1>3. work \in JobType /\ work.task = task /\ work.trace = live[task] /\ work.at = "serialize" /\ work # NoJob
    BY <1>0, <1>2, AbsentApart DEF JobOf, JobType, NoJob
  <1>4. /\ live' \in [Tasks -> Trace \cup {Absent}] /\ live'[task] = Absent
        /\ \A t \in Tasks : t # task => live'[t] = live[t]
    BY <1>1, <1>2 DEF LoggerInv, LoggerTypeOK
  <1>5. call' \in CallType /\ call'.op = "finish" /\ call'.task = task /\ call'.at = "annotate"
    <2>1. call \in CallType
      BY DEF LoggerInv, LoggerTypeOK
    <2> QED BY <1>0, <1>1, <2>1, CallMoved
  <1>6. job["loop"] = NoJob
    BY <1>1 DEF LoggerInv, LoopWork, At
  <1>7. /\ queue' \in Seq(JobType \cup {NoJob}) /\ Len(queue') = Len(queue) + 1
        /\ queue'[Len(queue) + 1] = work
        /\ \A i \in 1..Len(queue) : queue'[i] = queue[i]
    <2> DEFINE Jobs == JobType \cup {NoJob}
    <2>1. queue \in Seq(Jobs) /\ work \in Jobs
      BY <1>3 DEF LoggerInv, LoggerTypeOK
    <2> HIDE DEF Jobs
    <2>2. /\ queue' \in Seq(Jobs) /\ Len(queue') = Len(queue) + 1 /\ queue'[Len(queue) + 1] = work
          /\ \A i \in 1..Len(queue) : queue'[i] = queue[i]
      BY <1>1, <2>1
    <2> QED BY <2>2 DEF Jobs
  <1>8. LoggerTypeOK'
    <2>1. sinceFlush' \in [Tasks -> Nat] /\ unfinished' \in Nat /\ Len(queue') <= QueueMax
      <3>1. Len(queue) \in Nat /\ Len(queue) + 1 <= QueueMax
        BY <1>1, LoggerAssumption DEF LoggerInv, LoggerTypeOK
      <3>2. sinceFlush' \in [Tasks -> Nat]
        BY <1>1, <1>2 DEF LoggerInv, LoggerTypeOK
      <3>3. unfinished' \in Nat
        BY <1>1 DEF LoggerInv, LoggerTypeOK
      <3> QED BY <1>7, <3>1, <3>2, <3>3
    <2> QED BY <1>1, <1>4, <1>5, <1>7, <2>1 DEF LoggerInv, LoggerTypeOK
  <1>9. CallInHand' /\ LoopWork'
    BY <1>0, <1>1, <1>2, <1>4, <1>5, <1>6 DEF LoggerInv, CallInHand, LoopWork
  <1>10. WriterWork'
    <2>1. \A i \in 1..Len(queue) : queue[i] # NoJob => queue[i].task # task /\ live'[queue[i].task] = live[queue[i].task]
      BY <1>2, <1>4, WorkKnown DEF LoggerInv, WriterWork
    <2>2. job["writer"] # NoJob => job["writer"].task # task /\ live'[job["writer"].task] = live[job["writer"].task]
      BY <1>2, <1>4, WorkKnown DEF Threads, LoggerInv, WriterWork
    <2>3. Founded(work)' /\ live'[work.task] = Absent
      BY <1>1, <1>2, <1>3, <1>4 DEF Founded
    <2>4. Len(queue) \in Nat /\ unfinished' = Len(queue') + (IF job'["writer"] = NoJob THEN 0 ELSE 1)
      BY <1>1, <1>7 DEF LoggerInv, WriterWork, LoggerTypeOK
    <2>5. \A i \in 1..Len(queue') : i \in 1..Len(queue) \/ i = Len(queue) + 1
      BY <1>7, <2>4
    <2>6. (\A i \in 1..Len(queue) : queue[i] # NoJob => live[queue[i].task] = Absent /\ Founded(queue[i]) /\ queue[i].at = "serialize")'
      BY <1>1, <1>3, <1>7, <2>1, <2>3, <2>5 DEF LoggerInv, WriterWork, Founded
    <2>7. \A i, j \in 1..Len(queue') : queue'[i] # NoJob /\ i # j => queue'[i].task # queue'[j].task
      <3>1. NoJob.task # task
        BY <1>2, AbsentApart DEF NoJob
      <3> QED BY <1>3, <1>7, <2>1, <2>5, <3>1 DEF LoggerInv, WriterWork
    <2>8. (job["writer"] # NoJob =>
             /\ live[job["writer"].task] = Absent /\ Founded(job["writer"])
             /\ \A i \in 1..Len(queue) : queue[i].task # job["writer"].task)'
      BY <1>1, <1>3, <1>7, <2>2, <2>5 DEF LoggerInv, WriterWork, Founded
    <2> QED BY <2>4, <2>6, <2>7, <2>8 DEF WriterWork
  <1>11. KnownTasks'
    BY <1>1, <1>2, <1>4 DEF LoggerInv, KnownTasks
  <1>12. StagesOnDisk' /\ TornIsCut'
    BY <1>1, <1>5 DEF LoggerInv, StagesOnDisk, TornIsCut, BeingWritten, At
  <1>13. SettledOnDisk'
    <2>1. InHand(task)'
      <3>1. Len(queue) + 1 \in 1..Len(queue')
        BY <1>7 DEF LoggerInv, LoggerTypeOK
      <3> QED BY <1>3, <1>7, <3>1 DEF InHand
    <2>2. \A t \in Tasks : InHand(t) => InHand(t)'
      <3>1. \A i \in 1..Len(queue) : i \in 1..Len(queue') /\ queue'[i] = queue[i]
        BY <1>7 DEF LoggerInv, LoggerTypeOK
      <3> QED BY <1>1, <3>1 DEF InHand
    <2>3. \A t \in Tasks : OnDisk(t)' = OnDisk(t)
      BY <1>1, <1>5 DEF OnDisk, At
    <2> QED BY <1>1, <1>4, <2>1, <2>2, <2>3 DEF LoggerInv, SettledOnDisk
  <1> QED BY <1>8, <1>9, <1>10, <1>11, <1>12, <1>13 DEF LoggerInv

\* A step of the event loop between its calls, or to where it waits.
LEMMA CallKeeps ==
  ASSUME LoggerInv, CallInHand', call' \in CallType, annotated' \in SUBSET Tasks, job["loop"] = NoJob,
         ~At("update", "write"), ~At("update", "write")',
         UNCHANGED <<background, live, sinceFlush, queue, unfinished, closed, stopped, errors, job, final, partial,
                     starts, latest, owned, done, merged, cut, faults>>
  PROVE  LoggerInv'
  <1>1. LoggerTypeOK'
    BY DEF LoggerInv, LoggerTypeOK
  <1>2. LoopWork' /\ WriterWork' /\ KnownTasks' /\ StagesOnDisk'
    BY DEF LoggerInv, LoopWork, WriterWork, KnownTasks, StagesOnDisk, Founded
  <1>3. TornIsCut'
    BY DEF LoggerInv, TornIsCut, BeingWritten
  <1>4. SettledOnDisk'
    BY DEF LoggerInv, SettledOnDisk, InHand, OnDisk
  <1> QED BY <1>1, <1>2, <1>3, <1>4 DEF LoggerInv

LEMMA CallsKeep ==
  ASSUME LoggerInv, Annotate \/ (\E task \in Tasks : UpdateFinished(task)) \/ ReadTrace \/ Close \/ JoinWriter
  PROVE  LoggerInv'
  <1>1. /\ UNCHANGED <<background, live, sinceFlush, queue, unfinished, closed, stopped, errors, job, final, partial,
                       starts, latest, owned, done, merged, cut, faults>>
    BY DEF Annotate, UpdateFinished, ReadTrace, Close, JoinWriter, writerVars, files, historyVars
  <1>2. job["loop"] = NoJob /\ ~At("update", "write")
    BY DEF LoggerInv, LoopWork, Annotate, UpdateFinished, ReadTrace, Close, JoinWriter, At, Idle
  <1>3. Idle \in CallType /\ call \in CallType
    BY DEF LoggerInv, LoggerTypeOK, CallType, Idle
  <1>4. CASE Annotate \/ Close \/ JoinWriter
    <2>1. /\ call' = Idle \/ call' = Call("close", Absent, "drain")
          /\ annotated' = annotated \/ (annotated' = annotated \cup {call.task} /\ call.op = "finish")
      BY <1>4 DEF Annotate, Close, JoinWriter, At
    <2>2. call' \in CallType
      BY <1>3, <2>1 DEF CallType, Call
    <2>3. CallInHand' /\ ~At("update", "write")'
      BY <2>1 DEF CallInHand, Idle, Call, At
    <2>4. annotated' \in SUBSET Tasks
      BY <2>1 DEF LoggerInv, LoggerTypeOK, CallInHand
    <2> QED BY <1>1, <1>2, <2>2, <2>3, <2>4, CallKeeps
  <1>5. CASE \E task \in Tasks : UpdateFinished(task)
    <2>1. PICK task \in Tasks : UpdateFinished(task)
      BY <1>5
    <2>2. /\ call' = Call("update", task, "drain") /\ done[task] # Absent /\ live[task] = Absent /\ UNCHANGED annotated
      BY <2>1 DEF UpdateFinished
    <2>3. call' \in CallType
      BY <2>2 DEF CallType, Call
    <2>4. CallInHand' /\ ~At("update", "write")'
      BY <1>1, <2>2 DEF CallInHand, Call, At
    <2>5. annotated' \in SUBSET Tasks
      BY <2>2 DEF LoggerInv, LoggerTypeOK
    <2> QED BY <1>1, <1>2, <2>3, <2>4, <2>5, CallKeeps
  <1>6. CASE ReadTrace
    <2>1. /\ call.op = "update" /\ unfinished = 0 /\ UNCHANGED annotated /\ call.task \in Tasks
          /\ call' = IF Intact(call.task) THEN [call EXCEPT !.at = "open", !.read = final[call.task]] ELSE Idle
      BY <1>6 DEF ReadTrace, At, Drained, LoggerInv, CallInHand
    <2>2. CASE ~Intact(call.task)
      <3>1. call' = Idle
        BY <2>1, <2>2
      <3>2. CallInHand' /\ ~At("update", "write")'
        BY <3>1 DEF CallInHand, Idle, At
      <3>3. annotated' \in SUBSET Tasks
        BY <2>1 DEF LoggerInv, LoggerTypeOK
      <3> QED BY <1>1, <1>2, <1>3, <3>1, <3>2, <3>3, CallKeeps
    <2>3. CASE Intact(call.task)
      <3>1. final[call.task] \in Final
        BY <2>1, <2>3 DEF Intact, LoggerInv, LoggerTypeOK
      <3>2. /\ call'.op = "update" /\ call'.task = call.task /\ call'.at = "open" /\ call'.read = final[call.task]
            /\ call' \in CallType
        BY <1>3, <2>1, <2>3, <3>1 DEF CallType
      <3>3. CallInHand' /\ ~At("update", "write")'
        BY <1>1, <2>1, <3>1, <3>2 DEF LoggerInv, CallInHand, At
      <3>4. annotated' \in SUBSET Tasks
        BY <2>1 DEF LoggerInv, LoggerTypeOK
      <3> QED BY <1>1, <1>2, <3>2, <3>3, <3>4, CallKeeps
    <2> QED BY <2>2, <2>3
  <1> QED BY <1>4, <1>5, <1>6

\* An update that has begun to write has the disk to itself.
LEMMA UpdateAlone ==
  ASSUME LoggerInv, call.op = "update", call.at # "drain"
  PROVE  /\ call.task \in Tasks /\ done[call.task] # Absent /\ live[call.task] = Absent
         /\ unfinished = 0 /\ Len(queue) = 0 /\ \A thread \in Threads : job[thread] = NoJob
         /\ \A task \in Tasks : ~InHand(task)
  <1>1. call.task \in Tasks /\ done[call.task] # Absent /\ live[call.task] = Absent /\ unfinished = 0
    BY DEF LoggerInv, CallInHand
  <1>2. Len(queue) = 0 /\ job["writer"] = NoJob
    BY <1>1 DEF LoggerInv, WriterWork, LoggerTypeOK
  <1>3. job["loop"] = NoJob
    BY DEF LoggerInv, LoopWork, At
  <1>4. \A thread \in Threads : job[thread] = NoJob
    BY <1>2, <1>3 DEF Threads
  <1>5. \A task \in Tasks : ~InHand(task)
    BY <1>2, <1>4, AbsentApart DEF InHand, NoJob
  <1> QED BY <1>1, <1>2, <1>4, <1>5

\* An update waits for the writer, so what it reads and writes again is whole.
LEMMA UpdateKeeps ==
  ASSUME LoggerInv, OpenUpdate \/ WriteUpdate \/ UpdateRefused
  PROVE  LoggerInv'
  <1>0. PICK task, read : task = call.task /\ read = call.read
    OBVIOUS
  <1>1. /\ call.op = "update" /\ call.at \in {"open", "write"}
        /\ UNCHANGED <<background, live, sinceFlush, queue, unfinished, closed, stopped, errors, annotated, job, partial,
                       starts, latest, owned, done>>
    BY DEF OpenUpdate, WriteUpdate, UpdateRefused, At, writerVars, files, historyVars
  <1>2. /\ task \in Tasks /\ done[task] # Absent /\ live[task] = Absent
        /\ unfinished = 0 /\ Len(queue) = 0 /\ (\A thread \in Threads : job[thread] = NoJob)
        /\ \A t \in Tasks : ~InHand(t)
    BY <1>0, <1>1, UpdateAlone
  <1>3. read \in Final /\ read \notin {Absent, Torn} /\ (call.at = "open" => final[task] = read) /\ OnDisk(task) = read
    BY <1>0, <1>1, AbsentApart DEF LoggerInv, CallInHand, OnDisk, At
  <1>4. /\ \A t \in Tasks : (~InHand(t))'
        /\ \A t \in Tasks : ~BeingWritten(t) \/ (t = task /\ call.at = "write")
    BY <1>0, <1>1, <1>2 DEF InHand, BeingWritten, At, NoJob
  <1>5. Idle \in CallType /\ call \in CallType
    BY DEF LoggerInv, LoggerTypeOK, CallType, Idle
  <1>6. WriterWork'
    <2>1. (\A i \in 1..Len(queue) : FALSE)' /\ job'["writer"] = NoJob /\ unfinished' = Len(queue')
      BY <1>1, <1>2 DEF Threads
    <2>2. Len(queue') \in Nat
      BY <1>1, <1>2
    <2> QED BY <2>1, <2>2 DEF WriterWork
  <1>7. StagesOnDisk' /\ LoopWork'
    BY <1>1, <1>2 DEF StagesOnDisk, LoopWork, NoJob, Threads
  <1>8. ASSUME NEW t \in Tasks
        PROVE  done[t] # Absent /\ live[t] = Absent /\ t \notin errors \cup cut =>
                 OnDisk(t) = [trace |-> done[t], timed |-> TRUE, updated |-> t \in merged]
    BY <1>2 DEF LoggerInv, SettledOnDisk
  <1>9. CASE OpenUpdate
    <2>1. /\ call.at = "open" /\ final' = [final EXCEPT ![task] = Torn] /\ call' = [call EXCEPT !.at = "write"]
          /\ UNCHANGED <<merged, cut, faults>>
      BY <1>0, <1>9 DEF OpenUpdate, At, historyVars
    <2>2. call' \in CallType /\ call'.op = "update" /\ call'.task = task /\ call'.read = read /\ call'.at = "write"
      BY <1>0, <1>1, <1>5, <2>1, CallMoved
    <2>3. /\ final' \in [Tasks -> Final \cup {Absent, Torn}]
          /\ \A t \in Tasks : t # task => final'[t] = final[t]
      BY <1>2, <2>1 DEF LoggerInv, LoggerTypeOK
    <2>4. LoggerTypeOK'
      BY <1>1, <2>1, <2>2, <2>3 DEF LoggerInv, LoggerTypeOK
    <2>5. CallInHand'
      BY <1>1, <1>2, <1>3, <2>2 DEF CallInHand
    <2>6. KnownTasks'
      BY <1>1, <2>1 DEF LoggerInv, KnownTasks
    <2>7. TornIsCut'
      BY <1>1, <1>4, <2>1, <2>2, <2>3 DEF LoggerInv, TornIsCut, BeingWritten, At
    <2>8. \A t \in Tasks : OnDisk(t)' = OnDisk(t)
      BY <1>0, <1>3, <2>1, <2>2, <2>3 DEF OnDisk, At
    <2>9. SettledOnDisk'
      BY <1>1, <1>8, <2>1, <2>8 DEF SettledOnDisk
    <2> QED BY <1>6, <1>7, <2>4, <2>5, <2>6, <2>7, <2>9 DEF LoggerInv
  <1>10. CASE WriteUpdate
    <2> DEFINE new == [read EXCEPT !.updated = TRUE]
    <2>1. /\ call.at = "write" /\ final' = [final EXCEPT ![task] = new] /\ call' = Idle
          /\ merged' = merged \cup {task} /\ UNCHANGED <<cut, faults>>
      BY <1>0, <1>10 DEF WriteUpdate, At
    <2>2. new \in Final /\ new.trace = read.trace /\ new.timed = read.timed /\ new.updated = TRUE /\ new = [trace |-> read.trace, timed |-> read.timed, updated |-> TRUE]
      <3>1. new \in Final /\ new.trace = read.trace /\ new.timed = read.timed /\ new.updated = TRUE
        BY <1>3 DEF Final
      <3> HIDE DEF new
      <3>2. new = [trace |-> new.trace, timed |-> new.timed, updated |-> new.updated]
        BY <3>1 DEF Final
      <3> QED BY <3>1, <3>2
    <2> HIDE DEF new
    <2>3. /\ final' \in [Tasks -> Final \cup {Absent, Torn}] /\ final'[task] = new /\ new # Torn
          /\ \A t \in Tasks : t # task => final'[t] = final[t]
      BY <1>2, <2>1, <2>2, AbsentApart DEF LoggerInv, LoggerTypeOK
    <2>4. LoggerTypeOK'
      BY <1>1, <1>2, <1>5, <2>1, <2>3 DEF LoggerInv, LoggerTypeOK
    <2>5. CallInHand'
      BY <2>1 DEF CallInHand, Idle
    <2>6. KnownTasks'
      BY <1>1, <1>2, <2>1 DEF LoggerInv, KnownTasks
    <2>7. TornIsCut'
      BY <1>1, <1>4, <2>1, <2>3 DEF LoggerInv, TornIsCut
    <2>8. \A t \in Tasks : OnDisk(t)' = IF t = task THEN new ELSE OnDisk(t)
      BY <1>0, <2>1, <2>3 DEF OnDisk, At, Idle
    <2>9. task \notin errors \cup cut => new = [trace |-> done[task], timed |-> TRUE, updated |-> TRUE]
      <3>1. task \notin errors \cup cut => read = [trace |-> done[task], timed |-> TRUE, updated |-> task \in merged]
        BY <1>2, <1>3, <1>8
      <3>2. task \notin errors \cup cut => read.trace = done[task] /\ read.timed = TRUE
        BY <3>1
      <3> QED BY <2>2, <3>2
    <2>10. SettledOnDisk'
      <3>1. ASSUME NEW t \in Tasks, done[t] # Absent, live[t] = Absent, t \notin errors \cup cut
            PROVE  OnDisk(t)' = [trace |-> done[t], timed |-> TRUE, updated |-> t \in merged']
        <4>1. CASE t = task
          <5>1. (t \in merged') = TRUE
            BY <2>1, <4>1
          <5> QED BY <2>8, <2>9, <3>1, <4>1, <5>1
        <4>2. CASE t # task
          <5>1. (t \in merged') = (t \in merged)
            BY <2>1, <4>2
          <5> QED BY <1>8, <2>8, <3>1, <4>2, <5>1
        <4> QED BY <4>1, <4>2
      <3> QED BY <1>1, <2>1, <3>1 DEF SettledOnDisk
    <2> QED BY <1>6, <1>7, <2>4, <2>5, <2>6, <2>7, <2>10 DEF LoggerInv
  <1>11. CASE UpdateRefused
    <2>1. /\ faults < MaxFaults /\ faults' = faults + 1 /\ call' = Idle /\ UNCHANGED <<final, merged>>
          /\ cut' = IF call.at = "write" THEN cut \cup {task} ELSE cut
      BY <1>0, <1>11 DEF UpdateRefused, files
    <2>2. cut' \in SUBSET Tasks /\ cut \subseteq cut' /\ (call.at = "write" => task \in cut')
      BY <1>2, <2>1 DEF LoggerInv, LoggerTypeOK
    <2>3. faults' \in 0..MaxFaults
      BY <2>1, LoggerAssumption DEF LoggerInv, LoggerTypeOK
    <2>4. LoggerTypeOK'
      BY <1>1, <1>5, <2>1, <2>2, <2>3 DEF LoggerInv, LoggerTypeOK
    <2>5. CallInHand'
      BY <2>1 DEF CallInHand, Idle
    <2>6. KnownTasks'
      BY <1>1, <2>1 DEF LoggerInv, KnownTasks
    <2>7. TornIsCut'
      BY <1>1, <1>4, <2>1, <2>2 DEF LoggerInv, TornIsCut
    <2>8. \A t \in Tasks : OnDisk(t)' = OnDisk(t) \/ t \in cut'
      BY <1>0, <2>1, <2>2 DEF OnDisk, At, Idle
    <2>9. SettledOnDisk'
      BY <1>1, <1>8, <2>1, <2>2, <2>8 DEF SettledOnDisk
    <2> QED BY <1>6, <1>7, <2>4, <2>5, <2>6, <2>7, <2>9 DEF LoggerInv
  <1> QED BY <1>9, <1>10, <1>11

LEMMA SendStopKeeps ==
  ASSUME LoggerInv, SendStop
  PROVE  LoggerInv'
  <1>1. /\ call.op = "close" /\ call.at = "drain" /\ unfinished = 0 /\ closed' = TRUE
        /\ queue' = Append(queue, NoJob) /\ unfinished' = unfinished + 1
        /\ call' = [call EXCEPT !.at = "join"]
        /\ UNCHANGED <<background, live, sinceFlush, stopped, errors, annotated, job, final, partial,
                       starts, latest, owned, done, merged, cut, faults>>
    BY DEF SendStop, At, Drained, files, historyVars
  <1>2. Len(queue) = 0 /\ job["writer"] = NoJob
    BY <1>1 DEF LoggerInv, WriterWork, LoggerTypeOK
  <1>3. job["loop"] = NoJob /\ call.task = Absent
    BY <1>1 DEF LoggerInv, LoopWork, CallInHand, At
  <1>4. queue' \in Seq(JobType \cup {NoJob}) /\ Len(queue') = 1 /\ queue'[1] = NoJob
    <2> DEFINE Jobs == JobType \cup {NoJob}
    <2>1. queue \in Seq(Jobs) /\ NoJob \in Jobs
      BY DEF LoggerInv, LoggerTypeOK
    <2> HIDE DEF Jobs
    <2>2. queue' \in Seq(Jobs) /\ Len(queue') = 1 /\ queue'[1] = NoJob
      BY <1>1, <1>2, <2>1
    <2> QED BY <2>2 DEF Jobs
  <1>5. call' \in CallType /\ call'.op = "close" /\ call'.at = "join" /\ call'.task = Absent
    <2>1. call \in CallType
      BY DEF LoggerInv, LoggerTypeOK
    <2> QED BY <1>1, <1>3, <2>1, CallMoved
  <1>6. LoggerTypeOK'
    <2>1. Len(queue') <= QueueMax /\ unfinished' \in Nat
      BY <1>1, <1>4, LoggerAssumption
    <2> QED BY <1>1, <1>4, <1>5, <2>1 DEF LoggerInv, LoggerTypeOK
  <1>7. CallInHand' /\ LoopWork'
    BY <1>1, <1>3, <1>5 DEF CallInHand, LoopWork
  <1>8. WriterWork'
    BY <1>1, <1>2, <1>4 DEF WriterWork
  <1>9. KnownTasks' /\ StagesOnDisk'
    BY <1>1 DEF LoggerInv, KnownTasks, StagesOnDisk
  <1>10. TornIsCut'
    BY <1>1, <1>5 DEF LoggerInv, TornIsCut, BeingWritten, At
  <1>11. SettledOnDisk'
    <2>1. \A t \in Tasks : OnDisk(t)' = OnDisk(t)
      BY <1>1, <1>5 DEF OnDisk, At
    <2>2. \A t \in Tasks : InHand(t) => InHand(t)'
      BY <1>1, <1>2 DEF InHand
    <2> QED BY <1>1, <2>1, <2>2 DEF LoggerInv, SettledOnDisk
  <1> QED BY <1>6, <1>7, <1>8, <1>9, <1>10, <1>11 DEF LoggerInv

LEMMA Dequeued ==
  ASSUME LoggerInv, queue # <<>>, queue' = Tail(queue)
  PROVE  /\ queue' \in Seq(JobType \cup {NoJob}) /\ Len(queue) \in Nat /\ Len(queue') = Len(queue) - 1 /\ Len(queue') <= QueueMax
         /\ 1 \in 1..Len(queue) /\ Head(queue) = queue[1]
         /\ \A i \in 1..Len(queue') : i + 1 \in 2..Len(queue) /\ queue'[i] = queue[i + 1]
         /\ \A i \in 2..Len(queue) : i - 1 \in 1..Len(queue') /\ queue'[i - 1] = queue[i]
  <1> DEFINE Jobs == JobType \cup {NoJob}
  <1>1. queue \in Seq(Jobs) /\ Len(queue) <= QueueMax
    BY DEF LoggerInv, LoggerTypeOK
  <1> HIDE DEF Jobs
  <1>2. queue' \in Seq(Jobs) /\ Len(queue) \in Nat /\ Len(queue) # 0 /\ Len(queue') = Len(queue) - 1 /\ Head(queue) = queue[1]
    BY <1>1
  <1>3. \A i \in 1..Len(queue') : i + 1 \in 2..Len(queue) /\ queue'[i] = queue[i + 1]
    BY <1>1, <1>2
  <1>4. \A i \in 2..Len(queue) : i - 1 \in 1..Len(queue') /\ queue'[i - 1] = queue[i]
    <2>1. ASSUME NEW i \in 2..Len(queue) PROVE i - 1 \in 1..Len(queue') /\ (i - 1) + 1 = i
      BY <1>2
    <2> QED BY <1>3, <2>1
  <1>5. 1 \in 1..Len(queue) /\ Len(queue') <= QueueMax
    BY <1>1, <1>2, LoggerAssumption
  <1> QED BY <1>2, <1>3, <1>4, <1>5 DEF Jobs

LEMMA TakeJobKeeps ==
  ASSUME LoggerInv, TakeJob
  PROVE  LoggerInv'
  <1>0. PICK work : work = [Head(queue) EXCEPT !.knew = Head(queue).task \in annotated]
    OBVIOUS
  <1>1. /\ job["writer"] = NoJob /\ queue # <<>> /\ Head(queue) # NoJob /\ queue' = Tail(queue)
        /\ job' = [job EXCEPT !["writer"] = work]
        /\ UNCHANGED <<background, live, sinceFlush, unfinished, closed, stopped, errors, annotated, call, final, partial,
                       starts, latest, owned, done, merged, cut, faults>>
    BY <1>0 DEF TakeJob, files, historyVars
  <1>2. /\ queue' \in Seq(JobType \cup {NoJob}) /\ Len(queue) \in Nat /\ Len(queue') = Len(queue) - 1 /\ Len(queue') <= QueueMax
        /\ 1 \in 1..Len(queue) /\ Head(queue) = queue[1]
        /\ \A i \in 1..Len(queue') : i + 1 \in 2..Len(queue) /\ queue'[i] = queue[i + 1]
        /\ \A i \in 2..Len(queue) : i - 1 \in 1..Len(queue') /\ queue'[i - 1] = queue[i]
    BY <1>1, Dequeued
  <1>3. queue[1] \in JobType /\ queue[1].task \in Tasks
    BY <1>1, <1>2, WorkKnown
  <1>4. work \in JobType /\ work.task = queue[1].task /\ work.trace = queue[1].trace /\ work.at = queue[1].at /\ work # NoJob
    <2>1. work \in JobType /\ work.task = queue[1].task /\ work.trace = queue[1].trace /\ work.at = queue[1].at
      <3>1. PICK knew \in BOOLEAN : knew = (Head(queue).task \in annotated)
        <4>1. (Head(queue).task \in annotated) \in BOOLEAN
          OBVIOUS
        <4> QED BY <4>1, Zenon
      <3>2. work = [queue[1] EXCEPT !.knew = knew]
        BY <1>0, <1>2, <3>1
      <3> QED BY <1>3, <3>2 DEF JobType
    <2> QED BY <1>3, <2>1, AbsentApart DEF NoJob
  <1>5. job' \in [Threads -> JobType \cup {NoJob}] /\ job'["writer"] = work /\ job'["loop"] = job["loop"]
    BY <1>1, <1>4 DEF LoggerInv, LoggerTypeOK, Threads
  <1>6. LoggerTypeOK'
    BY <1>1, <1>2, <1>5 DEF LoggerInv, LoggerTypeOK
  <1>7. CallInHand' /\ LoopWork' /\ KnownTasks'
    BY <1>1, <1>5 DEF LoggerInv, CallInHand, LoopWork, KnownTasks, At, Founded
  <1>8. WriterWork'
    <2>1. \A i \in 1..Len(queue') : i + 1 \in 1..Len(queue) /\ i + 1 # 1
      BY <1>2
    <2>2. (\A i \in 1..Len(queue) : queue[i] # NoJob => live[queue[i].task] = Absent /\ Founded(queue[i]) /\ queue[i].at = "serialize")'
      BY <1>1, <1>2, <2>1 DEF LoggerInv, WriterWork, Founded
    <2>3. (\A i, j \in 1..Len(queue) : queue[i] # NoJob /\ i # j => queue[i].task # queue[j].task)'
      <3>1. ASSUME NEW i \in 1..Len(queue'), NEW j \in 1..Len(queue'), queue'[i] # NoJob, i # j
            PROVE  queue'[i].task # queue'[j].task
        <4>1. PICK a, b \in 1..Len(queue) : a # b /\ queue'[i] = queue[a] /\ queue'[j] = queue[b]
          <5>1. i + 1 \in 1..Len(queue) /\ j + 1 \in 1..Len(queue) /\ i + 1 # j + 1
            BY <2>1, <3>1
          <5> QED BY <1>2, <5>1
        <4> QED BY <3>1, <4>1 DEF LoggerInv, WriterWork
      <3> QED BY <3>1
    <2>4. (job["writer"] # NoJob =>
             /\ live[job["writer"].task] = Absent /\ Founded(job["writer"])
             /\ \A i \in 1..Len(queue) : queue[i].task # job["writer"].task)'
      <3>1. live[work.task] = Absent /\ Founded(work)
        BY <1>1, <1>2, <1>4 DEF LoggerInv, WriterWork, Founded
      <3>2. \A i \in 1..Len(queue') : queue'[i].task # work.task
        BY <1>1, <1>2, <1>4, <2>1 DEF LoggerInv, WriterWork
      <3> QED BY <1>1, <1>5, <3>1, <3>2 DEF Founded
    <2>5. unfinished' = Len(queue') + 1
      BY <1>1, <1>2 DEF LoggerInv, WriterWork
    <2> QED BY <1>4, <1>5, <2>2, <2>3, <2>4, <2>5 DEF WriterWork
  <1>10. StagesOnDisk'
    <2>1. work.at = "serialize"
      BY <1>1, <1>2, <1>4 DEF LoggerInv, WriterWork
    <2> QED BY <1>1, <1>5, <2>1 DEF LoggerInv, StagesOnDisk, Threads
  <1>11. TornIsCut'
    BY <1>1, <1>5 DEF LoggerInv, TornIsCut, BeingWritten, At, Threads, NoJob
  <1>12. SettledOnDisk'
    <2>1. \A t \in Tasks : InHand(t) => InHand(t)'
      <3>1. ASSUME NEW t \in Tasks, NEW i \in 1..Len(queue), queue[i].task = t PROVE InHand(t)'
        <4>1. CASE i = 1
          BY <1>4, <1>5, <3>1, <4>1 DEF InHand, Threads
        <4>2. CASE i # 1
          <5>1. i \in 2..Len(queue)
            BY <1>2, <4>2
          <5>2. i - 1 \in 1..Len(queue') /\ queue'[i - 1] = queue[i]
            BY <1>2, <5>1
          <5> QED BY <3>1, <5>2 DEF InHand
        <4> QED BY <4>1, <4>2
      <3>2. ASSUME NEW t \in Tasks, NEW thread \in Threads, job[thread].task = t PROVE InHand(t)'
        <4>1. job'[thread] = job[thread]
          BY <1>1, <1>5, <3>2, AbsentApart DEF Threads, NoJob
        <4> QED BY <3>2, <4>1 DEF InHand
      <3> QED BY <3>1, <3>2 DEF InHand
    <2>2. \A t \in Tasks : OnDisk(t)' = OnDisk(t)
      BY <1>1 DEF OnDisk, At
    <2> QED BY <1>1, <2>1, <2>2 DEF LoggerInv, SettledOnDisk
  <1> QED BY <1>6, <1>7, <1>8, <1>10, <1>11, <1>12 DEF LoggerInv

LEMMA StopWriterKeeps ==
  ASSUME LoggerInv, StopWriter
  PROVE  LoggerInv'
  <1>1. /\ job["writer"] = NoJob /\ queue # <<>> /\ Head(queue) = NoJob /\ queue' = Tail(queue)
        /\ unfinished' = unfinished - 1 /\ stopped' = TRUE
        /\ UNCHANGED <<background, live, sinceFlush, closed, errors, annotated, call, job, final, partial,
                       starts, latest, owned, done, merged, cut, faults>>
    BY DEF StopWriter, files, historyVars
  <1>2. /\ queue' \in Seq(JobType \cup {NoJob}) /\ Len(queue) \in Nat /\ Len(queue') = Len(queue) - 1 /\ Len(queue') <= QueueMax
        /\ 1 \in 1..Len(queue) /\ Head(queue) = queue[1]
        /\ \A i \in 1..Len(queue') : i + 1 \in 2..Len(queue) /\ queue'[i] = queue[i + 1]
        /\ \A i \in 2..Len(queue) : i - 1 \in 1..Len(queue') /\ queue'[i - 1] = queue[i]
    BY <1>1, Dequeued
  <1>3. unfinished = Len(queue) /\ unfinished' = Len(queue')
    BY <1>1, <1>2 DEF LoggerInv, WriterWork
  <1>4. LoggerTypeOK'
    <2>1. unfinished' \in Nat
      BY <1>2, <1>3
    <2> QED BY <1>1, <1>2, <2>1 DEF LoggerInv, LoggerTypeOK
  <1>5. CallInHand'
    <2>1. unfinished # 0
      BY <1>2, <1>3
    <2> QED BY <1>1, <2>1 DEF LoggerInv, CallInHand
  <1>6. LoopWork' /\ KnownTasks' /\ StagesOnDisk'
    BY <1>1 DEF LoggerInv, LoopWork, KnownTasks, StagesOnDisk, At, Founded
  <1>7. WriterWork'
    <2>1. \A i \in 1..Len(queue') : i + 1 \in 1..Len(queue)
      BY <1>2
    <2>2. (\A i \in 1..Len(queue) : queue[i] # NoJob => live[queue[i].task] = Absent /\ Founded(queue[i]) /\ queue[i].at = "serialize")'
      BY <1>1, <1>2, <2>1 DEF LoggerInv, WriterWork, Founded
    <2>3. (\A i, j \in 1..Len(queue) : queue[i] # NoJob /\ i # j => queue[i].task # queue[j].task)'
      <3>1. ASSUME NEW i \in 1..Len(queue'), NEW j \in 1..Len(queue'), queue'[i] # NoJob, i # j
            PROVE  queue'[i].task # queue'[j].task
        <4>1. PICK a, b \in 1..Len(queue) : a # b /\ queue'[i] = queue[a] /\ queue'[j] = queue[b]
          <5>1. i + 1 \in 1..Len(queue) /\ j + 1 \in 1..Len(queue) /\ i + 1 # j + 1
            BY <2>1, <3>1
          <5> QED BY <1>2, <5>1
        <4> QED BY <3>1, <4>1 DEF LoggerInv, WriterWork
      <3> QED BY <3>1
    <2> QED BY <1>1, <1>2, <1>3, <2>2, <2>3 DEF WriterWork
  <1>8. TornIsCut'
    BY <1>1 DEF LoggerInv, TornIsCut, BeingWritten, At
  <1>9. SettledOnDisk'
    <2>1. ASSUME NEW t \in Tasks, InHand(t) PROVE InHand(t)'
      <3>1. ASSUME NEW i \in 1..Len(queue), queue[i].task = t PROVE InHand(t)'
        <4>1. i # 1
          BY <1>1, <1>2, <3>1, AbsentApart DEF NoJob
        <4>2. i \in 2..Len(queue)
          BY <1>2, <4>1
        <4>3. i - 1 \in 1..Len(queue') /\ queue'[i - 1] = queue[i]
          BY <1>2, <4>2
        <4> QED BY <3>1, <4>3 DEF InHand
      <3> QED BY <1>1, <2>1, <3>1 DEF InHand
    <2>2. \A t \in Tasks : OnDisk(t)' = OnDisk(t)
      BY <1>1 DEF OnDisk, At
    <2> QED BY <1>1, <2>1, <2>2 DEF LoggerInv, SettledOnDisk
  <1> QED BY <1>4, <1>5, <1>6, <1>7, <1>8, <1>9 DEF LoggerInv

\* A process that dies leaves the files it had open torn.
LEMMA RestartKeeps ==
  ASSUME LoggerInv, Restart
  PROVE  LoggerInv'
  <1>1. /\ background' \in BOOLEAN
        /\ live' = [task \in Tasks |-> Absent] /\ sinceFlush' = [task \in Tasks |-> 0]
        /\ queue' = <<>> /\ unfinished' = 0 /\ errors' = {} /\ closed' = FALSE /\ stopped' = FALSE
        /\ annotated' = {} /\ call' = Idle /\ job' = [thread \in Threads |-> NoJob]
        /\ owned' = {} /\ merged' = {} /\ done' = [task \in Tasks |-> Absent]
        /\ cut' = cut \cup {task \in Tasks : BeingWritten(task)}
        /\ UNCHANGED <<final, partial, starts, latest, faults>>
    BY LoggerAssumption DEF Restart, files
  <1>2. \A thread \in Threads : job'[thread] = NoJob
    BY <1>1
  <1>3. LoggerTypeOK'
    <2>1. queue' \in Seq(JobType \cup {NoJob}) /\ Len(queue') <= QueueMax
      BY <1>1, LoggerAssumption
    <2>2. call' \in CallType
      BY <1>1 DEF CallType, Idle
    <2>3. /\ live' \in [Tasks -> Trace \cup {Absent}] /\ done' \in [Tasks -> Trace \cup {Absent}]
          /\ sinceFlush' \in [Tasks -> Nat] /\ job' \in [Threads -> JobType \cup {NoJob}] /\ cut' \in SUBSET Tasks
      BY <1>1 DEF LoggerInv, LoggerTypeOK
    <2> QED BY <1>1, <2>1, <2>2, <2>3 DEF LoggerInv, LoggerTypeOK
  <1>4. CallInHand' /\ LoopWork' /\ WriterWork' /\ KnownTasks'
    BY <1>1, <1>2 DEF CallInHand, LoopWork, WriterWork, KnownTasks, Idle, Threads
  <1>5. StagesOnDisk' /\ SettledOnDisk'
    BY <1>1, <1>2 DEF StagesOnDisk, SettledOnDisk, NoJob
  <1>6. TornIsCut'
    BY <1>1 DEF LoggerInv, TornIsCut
  <1> QED BY <1>3, <1>4, <1>5, <1>6 DEF LoggerInv

-----------------------------------------------------------------------------
\* Who persists a trace is alone with its files.
LEMMA WorkAlone ==
  ASSUME LoggerInv, NEW thread \in Threads, job[thread] # NoJob
  PROVE  /\ job[thread] \in JobType /\ job[thread].task \in Tasks /\ job[thread].trace \in Trace
         /\ job[thread].trace = done[job[thread].task] /\ job[thread].task \notin merged
         /\ \A other \in Threads : other # thread => job[other].task # job[thread].task
         /\ ~At("update", "open") /\ ~At("update", "write")
         /\ thread = "loop" => At("finish", "persist") /\ call.task = job[thread].task /\ live[call.task] = done[call.task]
         /\ thread = "writer" => live[job[thread].task] = Absent
         /\ done[job[thread].task] # Absent
  <1>1. job[thread] \in JobType /\ job[thread].task \in Tasks /\ done[job[thread].task] \in Trace
    BY WorkKnown
  <1>2. job[thread].trace \in Trace
    BY <1>1 DEF JobType
  <1>3. Founded(job[thread])
    BY DEF LoggerInv, LoopWork, WriterWork, Threads
  <1>4. thread = "loop" => At("finish", "persist") /\ call.task = job[thread].task /\ live[call.task] = done[call.task]
    BY DEF LoggerInv, LoopWork, CallInHand, At
  <1>5. thread = "writer" => live[job[thread].task] = Absent
    BY DEF LoggerInv, WriterWork
  <1>6. done[job[thread].task] # Absent
    BY <1>1, AbsentApart
  <1>7. ASSUME NEW other \in Threads, other # thread PROVE job[other].task # job[thread].task
    <2>1. CASE job[other] = NoJob
      BY <1>1, <2>1, AbsentApart DEF NoJob
    <2>2. CASE job[other] # NoJob
      <3>1. job["loop"] # NoJob /\ job["writer"] # NoJob
        BY <1>7, <2>2 DEF Threads
      <3>2. live[job["loop"].task] # Absent
        <4>1. live[job["loop"].task] = done[job["loop"].task] /\ done[job["loop"].task] # Absent
          BY <3>1 DEF LoggerInv, LoopWork, CallInHand, At
        <4> QED BY <4>1
      <3>3. live[job["writer"].task] = Absent
        BY <3>1 DEF LoggerInv, WriterWork
      <3> QED BY <1>7, <3>2, <3>3 DEF Threads
    <2> QED BY <2>1, <2>2
  <1>8. ~At("update", "open") /\ ~At("update", "write")
    <2>1. call.op = "update" /\ call.at # "drain" => \A any \in Threads : job[any] = NoJob
      BY UpdateAlone
    <2> QED BY <2>1 DEF At
  <1> QED BY <1>1, <1>2, <1>3, <1>4, <1>5, <1>6, <1>7, <1>8 DEF Founded

\* Work that has come further is still the same work.
LEMMA MovedWork ==
  ASSUME LoggerInv, NEW thread \in Threads, job[thread] # NoJob,
         NEW at \in {"serialize", "open", "write", "unlink", "patch"}, Move(thread, at),
         UNCHANGED <<live, queue, unfinished, call, done, merged>>
  PROVE  /\ job' \in [Threads -> JobType \cup {NoJob}]
         /\ job'[thread].at = at /\ job'[thread].task = job[thread].task /\ job'[thread].trace = job[thread].trace
         /\ \A other \in Threads : other # thread => job'[other] = job[other]
         /\ LoopWork' /\ WriterWork'
         /\ \A task \in Tasks : InHand(task)' <=> InHand(task)
  <1>0. PICK work : work = [job[thread] EXCEPT !.at = at]
    OBVIOUS
  <1>1. job[thread] \in JobType /\ job[thread].task \in Tasks
    BY WorkKnown
  <1>2. work \in JobType /\ work.at = at /\ work.task = job[thread].task /\ work.trace = job[thread].trace
    BY <1>0, <1>1 DEF JobType
  <1>3. work # NoJob
    BY <1>1, <1>2, AbsentApart DEF NoJob
  <1>4. job' = [job EXCEPT ![thread] = work] /\ job \in [Threads -> JobType \cup {NoJob}]
    BY <1>0 DEF Move, LoggerInv, LoggerTypeOK
  <1>5. /\ job' \in [Threads -> JobType \cup {NoJob}] /\ job'[thread] = work
        /\ \A other \in Threads : other # thread => job'[other] = job[other]
    BY <1>2, <1>4
  <1>6. \A any \in Threads : job'[any].task = job[any].task /\ job'[any].trace = job[any].trace /\ (job'[any] = NoJob <=> job[any] = NoJob)
    BY <1>2, <1>3, <1>5
  <1>7. LoopWork' /\ WriterWork'
    BY <1>6 DEF LoggerInv, LoopWork, WriterWork, Founded, At, Threads
  <1>8. \A task \in Tasks : InHand(task)' <=> InHand(task)
    BY <1>6 DEF InHand
  <1> QED BY <1>2, <1>5, <1>7, <1>8

\* The steps of persisting a trace but for the last two.
LEMMA MovesKeep ==
  ASSUME LoggerInv, NEW thread \in Threads, job[thread] # NoJob,
         \/ job[thread].at = "serialize" /\ Move(thread, "open") /\ UNCHANGED <<files, cut>>
         \/ OpenFinal(thread) \/ WriteFinal(thread) \/ UnlinkPartial(thread),
         UNCHANGED <<live, sinceFlush, writerVars, annotated, call, starts, latest, owned, done, merged, faults>>
  PROVE  LoggerInv'
  <1>0. PICK task, trace : task = job[thread].task /\ trace = job[thread].trace
    OBVIOUS
  <1>1. /\ job[thread] \in JobType /\ task \in Tasks /\ trace \in Trace /\ trace = done[task] /\ task \notin merged
        /\ \A other \in Threads : other # thread => job[other].task # task
        /\ ~At("update", "open") /\ ~At("update", "write")
    BY <1>0, WorkAlone
  <1>2. PICK at \in {"open", "write", "unlink", "patch"} :
          /\ Move(thread, at)
          /\ \/ /\ final' = final /\ UNCHANGED cut
                /\ (at = "open" /\ job[thread].at = "serialize") \/ (at = "patch" /\ job[thread].at = "unlink")
             \/ final' = [final EXCEPT ![task] = Torn] /\ at = "write" /\ UNCHANGED cut
             \/ final' = [final EXCEPT ![task] = Written(trace)] /\ at = "unlink" /\ cut' = cut \ {task}
          /\ partial' = partial \/ partial' = [partial EXCEPT ![task] = Absent]
    BY <1>0 DEF OpenFinal, WriteFinal, UnlinkPartial, files, historyVars
  <1>3. UNCHANGED <<live, sinceFlush, background, queue, unfinished, closed, stopped, errors, annotated, call, starts, latest, owned,
                    done, merged, faults>>
    BY DEF writerVars
  <1>4. /\ job' \in [Threads -> JobType \cup {NoJob}]
        /\ job'[thread].at = at /\ job'[thread].task = task /\ job'[thread].trace = trace
        /\ \A other \in Threads : other # thread => job'[other] = job[other]
        /\ LoopWork' /\ WriterWork'
        /\ \A t \in Tasks : InHand(t)' <=> InHand(t)
    BY <1>0, <1>2, <1>3, MovedWork
  <1>6. Written(trace) \in Final /\ Written(trace) # Torn
    <2>1. Written(trace) \in Final
      BY <1>1 DEF Written, Final
    <2> QED BY <2>1, AbsentApart
  <1>7. \A t \in Tasks : t # task => final'[t] = final[t]
    BY <1>2 DEF LoggerInv, LoggerTypeOK
  <1>8. LoggerTypeOK'
    <2>1. final' \in [Tasks -> Final \cup {Absent, Torn}] /\ partial' \in [Tasks -> Trace \cup {Absent, Torn}] /\ cut' \in SUBSET Tasks
      <3>1. final' \in [Tasks -> Final \cup {Absent, Torn}]
        BY <1>1, <1>2, <1>6 DEF LoggerInv, LoggerTypeOK
      <3>2. partial' \in [Tasks -> Trace \cup {Absent, Torn}]
        BY <1>1, <1>2 DEF LoggerInv, LoggerTypeOK
      <3>3. cut' \in SUBSET Tasks
        BY <1>1, <1>2 DEF LoggerInv, LoggerTypeOK
      <3> QED BY <3>1, <3>2, <3>3
    <2> QED BY <1>3, <1>4, <2>1 DEF LoggerInv, LoggerTypeOK
  <1>9. CallInHand'
    BY <1>1, <1>3 DEF LoggerInv, CallInHand, At
  <1>10. KnownTasks'
    BY <1>3 DEF LoggerInv, KnownTasks
  <1>11. StagesOnDisk'
    <2>1. final'[task] = Written(trace) \/ at \notin {"unlink", "patch"}
      BY <1>0, <1>1, <1>2 DEF LoggerInv, StagesOnDisk, LoggerTypeOK
    <2>2. \A other \in Threads : other # thread /\ job[other].at \in {"unlink", "patch"} => final'[job[other].task] = final[job[other].task]
      BY <1>1, <1>7, WorkKnown DEF NoJob
    <2> QED BY <1>4, <2>1, <2>2 DEF LoggerInv, StagesOnDisk
  <1>12. TornIsCut'
    <2>1. ASSUME NEW t \in Tasks, t # task, BeingWritten(t) PROVE BeingWritten(t)'
      BY <1>0, <1>3, <1>4, <2>1 DEF BeingWritten, At
    <2>2. final'[task] = Torn => BeingWritten(task)' \/ task \in cut'
      <3>1. CASE final' = final /\ job[thread].at # "write" /\ UNCHANGED cut
        <4>1. ~BeingWritten(task)
          BY <1>0, <1>1, <3>1 DEF BeingWritten, At
        <4> QED BY <1>1, <3>1, <4>1 DEF LoggerInv, TornIsCut
      <3>2. CASE at = "write"
        BY <1>4, <3>2 DEF BeingWritten
      <3>3. CASE final' = [final EXCEPT ![task] = Written(trace)]
        BY <1>1, <1>6, <3>3 DEF LoggerInv, LoggerTypeOK
      <3> QED BY <1>2, <3>1, <3>2, <3>3
    <2>3. \A t \in Tasks : t # task /\ t \in cut => t \in cut'
      BY <1>2
    <2> QED BY <1>7, <2>1, <2>2, <2>3 DEF LoggerInv, TornIsCut
  <1>13. SettledOnDisk'
    <2>1. InHand(task)
      BY <1>0 DEF InHand
    <2>2. \A t \in Tasks : t # task => OnDisk(t)' = OnDisk(t) /\ (t \in cut => t \in cut')
      BY <1>1, <1>3, <1>2, <1>7 DEF OnDisk, At
    <2> QED BY <1>3, <1>4, <2>1, <2>2 DEF LoggerInv, SettledOnDisk
  <1> QED BY <1>4, <1>8, <1>9, <1>10, <1>11, <1>12, <1>13 DEF LoggerInv

\* A thread is through with its work, for good or ill.
LEMMA ReleasedWork ==
  ASSUME LoggerInv, NEW thread \in Threads, job[thread] # NoJob, job' = [job EXCEPT ![thread] = NoJob],
         \/ thread = "writer" /\ unfinished' = unfinished - 1 /\ UNCHANGED <<live, call>>
         \/ thread = "loop" /\ call' = Idle /\ UNCHANGED <<unfinished, live>>
         \/ thread = "loop" /\ call' = [call EXCEPT !.at = "annotate"] /\ live' = [live EXCEPT ![call.task] = Absent] /\ UNCHANGED unfinished,
         UNCHANGED <<queue, done, merged, owned, latest>>
  PROVE  /\ job' \in [Threads -> JobType \cup {NoJob}] /\ job'[thread] = NoJob
         /\ \A other \in Threads : other # thread => job'[other] = job[other]
         /\ live' \in [Tasks -> Trace \cup {Absent}] /\ unfinished' \in Nat /\ call' \in CallType
         /\ \A task \in Tasks : task # job[thread].task => live'[task] = live[task]
         /\ ~At("update", "write") /\ ~At("update", "write")'
         /\ CallInHand' /\ LoopWork' /\ WriterWork' /\ KnownTasks'
         /\ \A task \in Tasks : InHand(task) => InHand(task)' \/ task = job[thread].task
  <1>0. PICK task : task = job[thread].task
    OBVIOUS
  <1>1. /\ job[thread] \in JobType /\ task \in Tasks /\ done[task] # Absent /\ task \notin merged
        /\ \A other \in Threads : other # thread => job[other].task # task
        /\ ~At("update", "open") /\ ~At("update", "write")
        /\ thread = "loop" => At("finish", "persist") /\ call.task = task
    BY <1>0, WorkAlone
  <1>2. /\ job' \in [Threads -> JobType \cup {NoJob}] /\ job'[thread] = NoJob
        /\ \A other \in Threads : other # thread => job'[other] = job[other]
    BY DEF LoggerInv, LoggerTypeOK
  <1>3. /\ live' \in [Tasks -> Trace \cup {Absent}] /\ \A t \in Tasks : t # task => live'[t] = live[t]
        /\ live'[task] \in {live[task], Absent}
    BY <1>1 DEF LoggerInv, LoggerTypeOK
  <1>4. unfinished \in Nat /\ Len(queue) \in Nat /\ unfinished = Len(queue) + (IF job["writer"] = NoJob THEN 0 ELSE 1)
    BY DEF LoggerInv, LoggerTypeOK, WriterWork
  <1>5. unfinished' \in Nat
    BY <1>4
  <1>6. /\ call' \in CallType
        /\ \/ call' = call /\ thread = "writer" /\ live' = live /\ ~(call.op = "update" /\ call.at # "drain")
           \/ call' = Idle
           \/ call'.op = "finish" /\ call'.at = "annotate" /\ call'.task = task
    <2>1. Idle \in CallType /\ call \in CallType
      BY DEF LoggerInv, LoggerTypeOK, CallType, Idle
    <2>2. ~(call.op = "update" /\ call.at # "drain")
      BY UpdateAlone
    <2>3. CASE thread = "loop" /\ call' = [call EXCEPT !.at = "annotate"]
      BY <1>1, <2>1, <2>3, CallMoved DEF At
    <2> QED BY <2>1, <2>2, <2>3
  <1>7. CallInHand' /\ ~At("update", "write")'
    BY <1>1, <1>3, <1>6 DEF LoggerInv, CallInHand, At, Idle
  <1>8. LoopWork'
    BY <1>2, <1>6 DEF LoggerInv, LoopWork, Founded, At, Threads
  <1>9. WriterWork'
    <2>1. \A i \in 1..Len(queue) : queue[i] # NoJob => live'[queue[i].task] = Absent
      BY <1>3, WorkKnown DEF LoggerInv, WriterWork
    <2>2. job'["writer"] # NoJob => job'["writer"] = job["writer"] /\ live'[job["writer"].task] = Absent
      BY <1>2, <1>3, WorkKnown DEF LoggerInv, WriterWork, Threads
    <2>3. unfinished' = Len(queue') + (IF job'["writer"] = NoJob THEN 0 ELSE 1)
      BY <1>2, <1>4 DEF Threads
    <2> QED BY <2>1, <2>2, <2>3 DEF LoggerInv, WriterWork, Founded
  <1>10. KnownTasks'
    BY <1>1, <1>3 DEF LoggerInv, KnownTasks
  <1>11. \A t \in Tasks : InHand(t) => InHand(t)' \/ t = task
    BY <1>0, <1>2 DEF InHand
  <1> QED BY <1>0, <1>1, <1>2, <1>3, <1>5, <1>6, <1>7, <1>8, <1>9, <1>10, <1>11

\* The timing is added to what has just been written.
LEMMA PatchKeeps ==
  ASSUME LoggerInv, NEW thread \in Threads, Patch(thread)
  PROVE  LoggerInv'
  <1>0. PICK task, trace : task = job[thread].task /\ trace = job[thread].trace
    OBVIOUS
  <1>1. job[thread] # NoJob /\ job[thread].at = "patch"
    BY DEF Patch, NoJob
  <1>2. /\ job[thread] \in JobType /\ task \in Tasks /\ trace \in Trace /\ trace = done[task] /\ task \notin merged
        /\ (\A other \in Threads : other # thread => job[other].task # task)
    BY <1>0, <1>1, WorkAlone
  <1> DEFINE new == [trace |-> trace, timed |-> TRUE, updated |-> FALSE]
  <1>3. final[task] = Written(trace) /\ new \in Final /\ new # Torn
    <2>1. new \in Final
      BY <1>2 DEF Final
    <2> QED BY <1>0, <1>1, <2>1, AbsentApart DEF LoggerInv, StagesOnDisk
  <1>4. /\ final' = [final EXCEPT ![task] = new]
        /\ job' = [job EXCEPT ![thread] = NoJob]
        /\ UNCHANGED <<background, queue, closed, stopped, errors, annotated, partial, starts, latest, owned, done, merged, cut, faults>>
        /\ \/ thread = "writer" /\ unfinished' = unfinished - 1 /\ UNCHANGED <<live, sinceFlush, call>>
           \/ /\ thread = "loop" /\ call' = [call EXCEPT !.at = "annotate"] /\ live' = [live EXCEPT ![call.task] = Absent]
              /\ sinceFlush' = [sinceFlush EXCEPT ![call.task] = 0] /\ UNCHANGED unfinished
    <2>1. PICK timed : timed = [Written(trace) EXCEPT !.timed = TRUE]
      OBVIOUS
    <2>2. timed = new
      <3>1. Written(trace) \in Final /\ Written(trace).trace = trace /\ Written(trace).updated = FALSE
        BY <1>2 DEF Written, Final
      <3>2. timed \in Final /\ timed.trace = trace /\ timed.timed = TRUE /\ timed.updated = FALSE
        BY <2>1, <3>1 DEF Final
      <3>3. timed = [trace |-> timed.trace, timed |-> timed.timed, updated |-> timed.updated]
        BY <3>2 DEF Final
      <3> QED BY <3>2, <3>3
    <2>3. final' = [final EXCEPT ![task] = new]
      BY <1>0, <1>3, <2>1, <2>2 DEF Patch
    <2> QED BY <2>3 DEF Patch, Persisted, Forget, historyVars
  <1> HIDE DEF new
  <1>5. /\ job' \in [Threads -> JobType \cup {NoJob}] /\ job'[thread] = NoJob
        /\ \A other \in Threads : other # thread => job'[other] = job[other]
        /\ live' \in [Tasks -> Trace \cup {Absent}] /\ unfinished' \in Nat /\ call' \in CallType
        /\ \A t \in Tasks : t # task => live'[t] = live[t]
        /\ ~At("update", "write") /\ ~At("update", "write")'
        /\ CallInHand' /\ LoopWork' /\ WriterWork' /\ KnownTasks'
        /\ \A t \in Tasks : InHand(t) => InHand(t)' \/ t = task
    BY <1>0, <1>1, <1>4, ReleasedWork
  <1>6. /\ final' \in [Tasks -> Final \cup {Absent, Torn}] /\ final'[task] = new
        /\ \A t \in Tasks : t # task => final'[t] = final[t]
    BY <1>2, <1>3, <1>4 DEF LoggerInv, LoggerTypeOK
  <1>7. LoggerTypeOK'
    <2>1. sinceFlush' \in [Tasks -> Nat]
      BY <1>4 DEF LoggerInv, LoggerTypeOK
    <2> QED BY <1>4, <1>5, <1>6, <2>1 DEF LoggerInv, LoggerTypeOK
  <1>8. StagesOnDisk'
    <2>1. \A other \in Threads : other # thread /\ job[other].at \in {"unlink", "patch"} => final'[job[other].task] = final[job[other].task]
      BY <1>2, <1>6, WorkKnown DEF NoJob
    <2> QED BY <1>5, <2>1 DEF LoggerInv, StagesOnDisk, NoJob
  <1>9. TornIsCut'
    <2>1. ASSUME NEW t \in Tasks, t # task, BeingWritten(t) PROVE BeingWritten(t)'
      BY <1>0, <1>5, <2>1 DEF BeingWritten, At
    <2> QED BY <1>3, <1>4, <1>6, <2>1 DEF LoggerInv, TornIsCut
  <1>10. SettledOnDisk'
    <2>1. \A t \in Tasks : OnDisk(t) = final[t] /\ OnDisk(t)' = final'[t]
      BY <1>5 DEF OnDisk
    <2>2. new = [trace |-> done[task], timed |-> TRUE, updated |-> task \in merged]
      <3>1. (task \in merged) = FALSE
        BY <1>2
      <3> QED BY <1>2, <3>1 DEF new
    <2> QED BY <1>4, <1>5, <1>6, <2>1, <2>2 DEF LoggerInv, SettledOnDisk
  <1> QED BY <1>5, <1>7, <1>8, <1>9, <1>10 DEF LoggerInv

LEMMA RaisedKeeps ==
  ASSUME LoggerInv, NEW thread \in Threads, job[thread] # NoJob, PersistRaised(thread), Unpersisted, UNCHANGED files,
         cut' = IF job[thread].at = "write" THEN cut \cup {job[thread].task} ELSE cut,
         faults' \in 0..MaxFaults
  PROVE  LoggerInv'
  <1>0. PICK task : task = job[thread].task
    OBVIOUS
  <1>1. /\ job[thread] \in JobType /\ task \in Tasks
        /\ (\A other \in Threads : other # thread => job[other].task # task)
        /\ (thread = "loop" => call.task = task /\ live[call.task] = done[call.task]) /\ done[task] # Absent
    BY <1>0, WorkAlone
  <1>2. /\ job' = [job EXCEPT ![thread] = NoJob]
        /\ \/ thread = "writer" /\ unfinished' = unfinished - 1 /\ UNCHANGED call /\ errors' = errors \cup {task}
           \/ thread = "loop" /\ call' = Idle /\ UNCHANGED <<unfinished, errors>>
        /\ UNCHANGED <<live, background, sinceFlush, queue, closed, stopped, annotated, final, partial, starts, latest, owned, done, merged>>
    BY <1>0 DEF PersistRaised, Unpersisted, files, Threads
  <1>3. /\ job' \in [Threads -> JobType \cup {NoJob}] /\ job'[thread] = NoJob
        /\ \A other \in Threads : other # thread => job'[other] = job[other]
        /\ live' \in [Tasks -> Trace \cup {Absent}] /\ unfinished' \in Nat /\ call' \in CallType
        /\ ~At("update", "write") /\ ~At("update", "write")'
        /\ CallInHand' /\ LoopWork' /\ WriterWork' /\ KnownTasks'
        /\ \A t \in Tasks : InHand(t) => InHand(t)' \/ t = task
    BY <1>0, <1>2, ReleasedWork
  <1>4. /\ cut' \in SUBSET Tasks /\ cut \subseteq cut' /\ (job[thread].at = "write" => task \in cut')
        /\ errors' \in SUBSET Tasks /\ errors \subseteq errors'
    BY <1>0, <1>1, <1>2 DEF LoggerInv, LoggerTypeOK
  <1>5. LoggerTypeOK'
    BY <1>2, <1>3, <1>4 DEF LoggerInv, LoggerTypeOK
  <1>6. StagesOnDisk'
    BY <1>2, <1>3 DEF LoggerInv, StagesOnDisk, NoJob
  <1>7. TornIsCut'
    <2>1. ASSUME NEW t \in Tasks, BeingWritten(t) PROVE BeingWritten(t)' \/ t \in cut'
      BY <1>0, <1>3, <1>4, <2>1 DEF BeingWritten, At
    <2> QED BY <1>2, <1>4, <2>1 DEF LoggerInv, TornIsCut
  <1>8. SettledOnDisk'
    <2>1. \A t \in Tasks : OnDisk(t) = final[t] /\ OnDisk(t)' = final'[t]
      BY <1>3 DEF OnDisk
    <2>2. task \in errors' \/ live'[task] # Absent
      BY <1>1, <1>2 DEF Threads
    <2> QED BY <1>2, <1>3, <1>4, <2>1, <2>2 DEF LoggerInv, SettledOnDisk
  <1> QED BY <1>3, <1>5, <1>6, <1>7, <1>8 DEF LoggerInv

LEMMA PersistKeeps ==
  ASSUME LoggerInv, NEW thread \in Threads, PersistStep(thread) \/ PersistRefused(thread)
  PROVE  LoggerInv'
  <1>1. job[thread] # NoJob
    BY DEF PersistStep, PersistRefused, Serialize, OpenFinal, WriteFinal, UnlinkPartial, Patch, NoJob
  <1>2. CASE OpenFinal(thread) \/ WriteFinal(thread) \/ UnlinkPartial(thread)
    <2>1. UNCHANGED <<live, sinceFlush, writerVars, annotated, call, starts, latest, owned, done, merged, faults>>
      BY <1>2 DEF OpenFinal, WriteFinal, UnlinkPartial, historyVars
    <2> QED BY <1>1, <1>2, <2>1, MovesKeep
  <1>3. CASE Patch(thread)
    BY <1>3, PatchKeeps
  <1>4. CASE PersistRefused(thread)
    <2>1. faults' \in 0..MaxFaults
      BY <1>4, LoggerAssumption DEF PersistRefused, LoggerInv, LoggerTypeOK
    <2> QED BY <1>1, <1>4, <2>1, RaisedKeeps DEF PersistRefused
  <1>5. CASE Serialize(thread)
    <2>1. CASE Move(thread, "open") /\ UNCHANGED <<live, sinceFlush, writerVars, annotated, call, files, historyVars>>
      <3>1. /\ job[thread].at = "serialize" /\ UNCHANGED <<files, cut>>
            /\ UNCHANGED <<live, sinceFlush, writerVars, annotated, call, starts, latest, owned, done, merged, faults>>
        BY <1>5, <2>1 DEF Serialize, historyVars
      <3> QED BY <1>1, <2>1, <3>1, MovesKeep
    <2>2. CASE PersistRaised(thread) /\ Unpersisted /\ UNCHANGED <<files, cut, faults>>
      <3>1. job[thread].at # "write" /\ faults' \in 0..MaxFaults
        BY <1>5, <2>2 DEF Serialize, LoggerInv, LoggerTypeOK
      <3> QED BY <1>1, <2>2, <3>1, RaisedKeeps
    <2> QED BY <1>5, <2>1, <2>2 DEF Serialize
  <1> QED BY <1>2, <1>3, <1>4, <1>5 DEF PersistStep

-----------------------------------------------------------------------------
LEMMA LoggerSteps == LoggerInv /\ [LoggerNext]_loggerVars => LoggerInv'
  <1> SUFFICES ASSUME LoggerInv, [LoggerNext]_loggerVars PROVE LoggerInv'
    OBVIOUS
  <1>1. ASSUME NEW task \in Tasks, TaskCall(task) PROVE LoggerInv'
    <2>1. CASE StartTask(task)
      <3>1. 0 \in 0..MaxSteps
        BY LoggerAssumption
      <3> QED BY <2>1, <3>1, TrackKeeps DEF StartTask
    <2>2. CASE UpdateFinished(task)
      BY <2>2, CallsKeep
    <2> QED BY <1>1, <2>1, <2>2, AddStepKeeps, FinishTaskKeeps DEF TaskCall
  <1>2. ASSUME NEW source \in Tasks, NEW task \in Tasks, ForkLiveTrace(source, task) PROVE LoggerInv'
    <2>1. live[source].steps \in 0..MaxSteps
      <3>1. live[source] \in Trace
        BY <1>2 DEF ForkLiveTrace, Running, LoggerInv, LoggerTypeOK
      <3> QED BY <3>1 DEF Trace
    <2> QED BY <1>2, <2>1, TrackKeeps DEF ForkLiveTrace
  <1>3. CASE LoopStep
    <2>1. CASE PersistStep("loop")
      BY <2>1, PersistKeeps DEF Threads
    <2> QED BY <1>3, <2>1, FlushKeeps, EnqueueKeeps, CallsKeep, UpdateKeeps, SendStopKeeps DEF LoopStep
  <1>4. CASE WriterStep
    <2>1. CASE PersistStep("writer")
      BY <2>1, PersistKeeps DEF Threads
    <2> QED BY <1>4, <2>1, TakeJobKeeps, StopWriterKeeps DEF WriterStep
  <1>5. CASE Refused
    BY <1>5, PersistKeeps, UpdateKeeps DEF Refused
  <1>6. CASE UNCHANGED loggerVars
    <2>1. UNCHANGED <<live, sinceFlush, background, queue, unfinished, closed, stopped, errors, annotated, call, job, final, partial,
                      starts, latest, owned, done, merged, cut, faults>>
      BY <1>6 DEF loggerVars, writerVars, files, historyVars
    <2>2. LoggerTypeOK' /\ CallInHand' /\ LoopWork' /\ WriterWork'
      BY <2>1 DEF LoggerInv, LoggerTypeOK, CallInHand, LoopWork, WriterWork, Founded, At
    <2>3. KnownTasks' /\ StagesOnDisk' /\ SettledOnDisk' /\ TornIsCut'
      BY <2>1 DEF LoggerInv, KnownTasks, StagesOnDisk, SettledOnDisk, TornIsCut, InHand, OnDisk, BeingWritten, At
    <2> QED BY <2>2, <2>3 DEF LoggerInv
  <1> QED BY <1>1, <1>2, <1>3, <1>4, <1>5, <1>6, CallsKeep, RestartKeeps DEF LoggerNext

\* The invariant is enough: what is in hand is pending.
LEMMA LoggerSafe == LoggerInv => FinishedIsOnDisk
  <1> SUFFICES ASSUME LoggerInv, NEW task \in Tasks
               PROVE  /\ (done[task] # Absent /\ live[task] = Absent /\ ~Pending(task) /\ task \notin errors \cup cut) =>
                           final[task] = [trace |-> done[task], timed |-> TRUE, updated |-> task \in merged]
                      /\ final[task] = Torn => BeingWritten(task) \/ task \in cut
    BY DEF FinishedIsOnDisk
  <1>1. final[task] = Torn => BeingWritten(task) \/ task \in cut
    BY DEF LoggerInv, TornIsCut
  <1>2. ~Pending(task) => ~InHand(task) /\ OnDisk(task) = final[task]
    <2>1. DOMAIN queue = 1..Len(queue)
      BY DEF LoggerInv, LoggerTypeOK
    <2> QED BY <2>1 DEF Pending, InHand, OnDisk, At
  <1>3. (done[task] # Absent /\ live[task] = Absent /\ ~Pending(task) /\ task \notin errors \cup cut) =>
          final[task] = [trace |-> done[task], timed |-> TRUE, updated |-> task \in merged]
    BY <1>2 DEF LoggerInv, SettledOnDisk
  <1> QED BY <1>1, <1>3

\* The shape of the state, and the bound of the queue, for any tasks and bounds.
THEOREM TypeCorrect == LoggerSpec => []LoggerTypeOK
  <1>1. LoggerSpec => []LoggerInv
    BY LoggerStarts, LoggerSteps, PTL DEF LoggerSpec
  <1>2. LoggerInv => LoggerTypeOK
    BY DEF LoggerInv
  <1> QED BY <1>1, <1>2, PTL

\* FinishedIsOnDisk for any tasks, length of the queue, refused writes and deaths: a finished
\* trace that is no longer in hand is on disk with all it had, or an error says why not, and
\* no trace is torn but for a death or a refusal (finish_task, _trace_writer_loop,
\* update_finished_trace_metadata).
THEOREM FinishedTracesOnDisk == LoggerSpec => []FinishedIsOnDisk
  <1>1. LoggerSpec => []LoggerInv
    BY LoggerStarts, LoggerSteps, PTL DEF LoggerSpec
  <1> QED BY <1>1, LoggerSafe, PTL

\* The partial file of a task goes once the finished trace of its run can be read.
LEMMA UnlinkedWhenReadable ==
  ASSUME LoggerInv, [LoggerNext]_loggerVars, NEW task \in Tasks, partial[task] # Absent, partial'[task] = Absent
  PROVE  final[task] \notin {Absent, Torn} /\ final[task].trace.run = latest[task]
  <1>1. PICK thread \in Threads : UnlinkPartial(thread) /\ job[thread].task = task
    <2>1. partial' # partial
      OBVIOUS
    <2>2. ~(OpenPartial \/ WritePartial)
      <3>1. partial \in [Tasks -> Trace \cup {Absent, Torn}]
        BY DEF LoggerInv, LoggerTypeOK
      <3>2. CASE OpenPartial
        BY <3>1, <3>2, AbsentApart DEF OpenPartial
      <3>3. CASE WritePartial
        <4>1. live[call.task] # Absent
          BY <3>3 DEF WritePartial, At, LoggerInv, CallInHand
        <4> QED BY <3>1, <3>3, <4>1 DEF WritePartial
      <3> QED BY <3>2, <3>3
    <2>3. \E thread \in Threads : UnlinkPartial(thread)
      BY <2>1, <2>2 DEF LoggerNext, TaskCall, StartTask, AddStep, FinishTask, UpdateFinished, ForkLiveTrace, Track, LoopStep, WriterStep,
        Refused, Close, Restart, Enqueue, Annotate, ReadTrace, OpenUpdate, WriteUpdate, UpdateRefused, SendStop, JoinWriter, TakeJob,
        StopWriter, PersistStep, PersistRefused, Serialize, OpenFinal, WriteFinal, Patch, files, loggerVars, Threads
    <2>4. partial \in [Tasks -> Trace \cup {Absent, Torn}]
      BY DEF LoggerInv, LoggerTypeOK
    <2> QED BY <2>3, <2>4 DEF UnlinkPartial
  <1>2. job[thread] # NoJob /\ job[thread].at = "unlink"
    BY <1>1 DEF UnlinkPartial, NoJob
  <1>3. job[thread].trace \in Trace /\ job[thread].trace = done[task] /\ done[task] # Absent
    BY <1>1, <1>2, WorkAlone
  <1>4. final[task] = Written(job[thread].trace)
    BY <1>1, <1>2 DEF LoggerInv, StagesOnDisk
  <1>5. Written(job[thread].trace) \in Final /\ Written(job[thread].trace).trace = job[thread].trace
    BY <1>3 DEF Written, Final
  <1>6. done[task].run = latest[task]
    BY <1>3 DEF LoggerInv, KnownTasks
  <1> QED BY <1>3, <1>4, <1>5, <1>6, AbsentApart

\* PartialOutlived for the same: no step removes the partial file of a task unless the
\* finished trace of the same run can be read (_persist_trace_to_file).
THEOREM PartialFilesOutlived == LoggerSpec => PartialOutlived
  <1>1. LoggerSpec => []LoggerInv
    BY LoggerStarts, LoggerSteps, PTL DEF LoggerSpec
  <1> DEFINE Outlived ==
        \A task \in Tasks :
          (partial[task] # Absent /\ partial'[task] = Absent) =>
            /\ final[task] \notin {Absent, Torn}
            /\ final[task].trace.run = latest[task]
  <1>2. LoggerInv /\ [LoggerNext]_loggerVars => [Outlived]_loggerVars
    BY UnlinkedWhenReadable
  <1> QED BY <1>1, <1>2, PTL DEF LoggerSpec, PartialOutlived

-----------------------------------------------------------------------------
(***************************************************************************)
(* The readers of a log.  Sums, joins and what is read of a log are        *)
(* recursive functions of how many elements are taken: first, what each is *)
(* of one element more, and that it is the same of sequences which agree   *)
(* so far.  Then what the tracker keeps of its segments when messages are  *)
(* added and taken; what a reader makes of one more entry; and that every  *)
(* step of the runtime leaves the log well read.                           *)
(***************************************************************************)
LEMMA LeastOf ==
  ASSUME NEW S \in SUBSET Nat, S # {}
  PROVE  \E k \in S : \A m \in S : k <= m
<1>1. IsWellFoundedOn(OpToRel(<, Nat), Nat)
  BY NatLessThanWellFounded
<1>2. PICK k \in S : \A m \in S : ~(<<m, k>> \in OpToRel(<, Nat))
  BY <1>1, WFMin
<1>3. ASSUME NEW m \in S
      PROVE  k <= m
  <2>1. m \in Nat /\ k \in Nat /\ ~(m < k)
    BY <1>2 DEF OpToRel
  <2>2. QED
    BY <2>1
<1>4. QED
  BY <1>3


-----------------------------------------------------------------------------
\* f holds the sums of the first of n numbers.
SumTold(s, f, n) == f = [i \in 0..n |-> IF i = 0 THEN 0 ELSE f[i - 1] + s[i]]

LEMMA SumOnce ==
  ASSUME NEW s, NEW k \in Nat, NEW f, SumTold(s, f, k)
  PROVE  \E g : SumTold(s, g, k + 1)
  <1> DEFINE g == [i \in 0..(k + 1) |-> IF i = 0 THEN 0 ELSE f[i - 1] + s[i]]
  <1>1. \A i \in 0..k : f[i] = IF i = 0 THEN 0 ELSE f[i - 1] + s[i]
    BY DEF SumTold
  <1>2. \A i \in 0..k : i \in 0..(k + 1) /\ g[i] = f[i]
    BY <1>1
  <1>3. \A i \in 0..(k + 1) : i # 0 => i - 1 \in 0..k
    OBVIOUS
  <1>4. \A i \in 0..(k + 1) : i # 0 => g[i - 1] = f[i - 1]
    BY <1>2, <1>3
  <1>5. g = [i \in 0..(k + 1) |-> IF i = 0 THEN 0 ELSE g[i - 1] + s[i]]
    BY <1>4
  <1> QED BY <1>5 DEF SumTold

LEMMA SumExists ==
  ASSUME NEW s, NEW n \in Nat
  PROVE  \E f : SumTold(s, f, n)
  <1> DEFINE missing == {m \in Nat : ~\E f : SumTold(s, f, m)}
  <1>1. missing # {} => \E k \in missing : \A m \in missing : k <= m
    <2>1. missing \in SUBSET Nat
      OBVIOUS
    <2> HIDE DEF missing
    <2> QED BY <2>1, LeastOf
  <1>2. 0 \notin missing
    <2>1. SumTold(s, [i \in 0..0 |-> 0], 0)
      BY DEF SumTold
    <2> QED BY <2>1
  <1>3. ASSUME NEW k \in missing, \A m \in missing : k <= m
        PROVE  FALSE
    <2>1. k # 0 /\ k - 1 \in Nat /\ k = (k - 1) + 1
      BY <1>2
    <2>2. k - 1 \notin missing
      <3>1. ~(k <= k - 1)
        BY <2>1
      <3> HIDE DEF missing
      <3> QED BY <1>3, <3>1
    <2>3. PICK f : SumTold(s, f, k - 1)
      BY <2>1, <2>2
    <2>4. \E g : SumTold(s, g, k)
      BY <2>1, <2>3, SumOnce
    <2> QED BY <2>4
  <1>4. n \notin missing
    BY <1>1, <1>3
  <1> QED BY <1>4

LEMMA SumAlike ==
  ASSUME NEW s, NEW u, NEW f, NEW g, NEW n \in Nat, NEW m \in Nat, NEW k \in Nat,
         k <= n, k <= m, SumTold(s, f, n), SumTold(u, g, m), \A i \in 1..k : s[i] = u[i]
  PROVE  f[k] = g[k]
  <1> DEFINE apart == {i \in Nat : i <= k /\ f[i] # g[i]}
  <1>1. apart # {} => \E j \in apart : \A i \in apart : j <= i
    <2>1. apart \in SUBSET Nat
      OBVIOUS
    <2> HIDE DEF apart
    <2> QED BY <2>1, LeastOf
  <1>2. \A i \in 0..k : f[i] = IF i = 0 THEN 0 ELSE f[i - 1] + s[i]
    <2>1. \A i \in 0..k : i \in 0..n
      OBVIOUS
    <2> QED BY <2>1 DEF SumTold
  <1>3. \A i \in 0..k : g[i] = IF i = 0 THEN 0 ELSE g[i - 1] + u[i]
    <2>1. \A i \in 0..k : i \in 0..m
      OBVIOUS
    <2> QED BY <2>1 DEF SumTold
  <1>4. ASSUME NEW j \in apart, \A i \in apart : j <= i
        PROVE  FALSE
    <2>1. j \in 0..k /\ f[j] # g[j] /\ j \in Nat
      OBVIOUS
    <2>2. j # 0
      BY <1>2, <1>3, <2>1
    <2>3. j - 1 \in Nat /\ j - 1 <= k /\ ~(j <= j - 1) /\ j \in 1..k
      BY <2>1, <2>2
    <2>4. j - 1 \notin apart
      <3> HIDE DEF apart
      <3> QED BY <1>4, <2>3
    <2>5. f[j - 1] = g[j - 1] /\ s[j] = u[j]
      BY <2>3, <2>4
    <2> QED BY <1>2, <1>3, <2>1, <2>2, <2>5
  <1> QED BY <1>1, <1>4

LEMMA SumSeen ==
  ASSUME NEW s, NEW n \in Nat
  PROVE  \E f : SumTold(s, f, n) /\ SumOf(s, n) = f[n]
  <1> DEFINE f == CHOOSE f : SumTold(s, f, n)
  <1>1. SumTold(s, f, n)
    BY SumExists
  <1>2. SumOf(s, n) = f[n]
    BY DEF SumOf, SumTold
  <1> QED BY <1>1, <1>2

LEMMA SumOneMore ==
  ASSUME NEW s, NEW n \in Nat
  PROVE  /\ SumOf(s, 0) = 0
         /\ SumOf(s, n + 1) = SumOf(s, n) + s[n + 1]
  <1>1. PICK z : SumTold(s, z, 0) /\ SumOf(s, 0) = z[0]
    BY SumSeen
  <1>2. PICK f : SumTold(s, f, n) /\ SumOf(s, n) = f[n]
    BY SumSeen
  <1>3. PICK g : SumTold(s, g, n + 1) /\ SumOf(s, n + 1) = g[n + 1]
    <2>1. n + 1 \in Nat
      OBVIOUS
    <2> QED BY <2>1, SumSeen
  <1>4. f[n] = g[n]
    <2>1. n + 1 \in Nat /\ n <= n /\ n <= n + 1
      OBVIOUS
    <2> QED BY <1>2, <1>3, <2>1, SumAlike
  <1>5. z[0] = 0
    BY <1>1 DEF SumTold
  <1>6. g[n + 1] = g[n] + s[n + 1]
    <2>1. n + 1 \in 0..(n + 1) /\ n + 1 # 0 /\ (n + 1) - 1 = n
      OBVIOUS
    <2>2. g[n + 1] = IF n + 1 = 0 THEN 0 ELSE g[(n + 1) - 1] + s[n + 1]
      BY <1>3, <2>1 DEF SumTold
    <2> QED BY <2>1, <2>2
  <1> QED BY <1>1, <1>2, <1>3, <1>4, <1>5, <1>6

LEMMA SumAgree ==
  ASSUME NEW s, NEW u, NEW n \in Nat, \A i \in 1..n : s[i] = u[i]
  PROVE  SumOf(s, n) = SumOf(u, n)
  <1>1. PICK f : SumTold(s, f, n) /\ SumOf(s, n) = f[n]
    BY SumSeen
  <1>2. PICK g : SumTold(u, g, n) /\ SumOf(u, n) = g[n]
    BY SumSeen
  <1>3. n <= n
    OBVIOUS
  <1>4. f[n] = g[n]
    BY <1>1, <1>2, <1>3, SumAlike
  <1> QED BY <1>1, <1>2, <1>4

-----------------------------------------------------------------------------
\* f holds what the first of n sequences make, put end to end.
JoinTold(s, f, n) == f = [i \in 0..n |-> IF i = 0 THEN << >> ELSE f[i - 1] \o s[i]]

LEMMA JoinOnce ==
  ASSUME NEW s, NEW k \in Nat, NEW f, JoinTold(s, f, k)
  PROVE  \E g : JoinTold(s, g, k + 1)
  <1> DEFINE g == [i \in 0..(k + 1) |-> IF i = 0 THEN << >> ELSE f[i - 1] \o s[i]]
  <1>1. \A i \in 0..k : f[i] = IF i = 0 THEN << >> ELSE f[i - 1] \o s[i]
    BY DEF JoinTold
  <1>2. \A i \in 0..k : i \in 0..(k + 1) /\ g[i] = f[i]
    BY <1>1
  <1>3. \A i \in 0..(k + 1) : i # 0 => i - 1 \in 0..k
    OBVIOUS
  <1>4. \A i \in 0..(k + 1) : i # 0 => g[i - 1] = f[i - 1]
    BY <1>2, <1>3
  <1>5. g = [i \in 0..(k + 1) |-> IF i = 0 THEN << >> ELSE g[i - 1] \o s[i]]
    BY <1>4
  <1> QED BY <1>5 DEF JoinTold

LEMMA JoinExists ==
  ASSUME NEW s, NEW n \in Nat
  PROVE  \E f : JoinTold(s, f, n)
  <1> DEFINE missing == {m \in Nat : ~\E f : JoinTold(s, f, m)}
  <1>1. missing # {} => \E k \in missing : \A m \in missing : k <= m
    <2>1. missing \in SUBSET Nat
      OBVIOUS
    <2> HIDE DEF missing
    <2> QED BY <2>1, LeastOf
  <1>2. 0 \notin missing
    <2>1. JoinTold(s, [i \in 0..0 |-> << >>], 0)
      BY DEF JoinTold
    <2> QED BY <2>1
  <1>3. ASSUME NEW k \in missing, \A m \in missing : k <= m
        PROVE  FALSE
    <2>1. k # 0 /\ k - 1 \in Nat /\ k = (k - 1) + 1
      BY <1>2
    <2>2. k - 1 \notin missing
      <3>1. ~(k <= k - 1)
        BY <2>1
      <3> HIDE DEF missing
      <3> QED BY <1>3, <3>1
    <2>3. PICK f : JoinTold(s, f, k - 1)
      BY <2>1, <2>2
    <2>4. \E g : JoinTold(s, g, k)
      BY <2>1, <2>3, JoinOnce
    <2> QED BY <2>4
  <1>4. n \notin missing
    BY <1>1, <1>3
  <1> QED BY <1>4

LEMMA JoinAlike ==
  ASSUME NEW s, NEW u, NEW f, NEW g, NEW n \in Nat, NEW m \in Nat, NEW k \in Nat,
         k <= n, k <= m, JoinTold(s, f, n), JoinTold(u, g, m), \A i \in 1..k : s[i] = u[i]
  PROVE  f[k] = g[k]
  <1> DEFINE apart == {i \in Nat : i <= k /\ f[i] # g[i]}
  <1>1. apart # {} => \E j \in apart : \A i \in apart : j <= i
    <2>1. apart \in SUBSET Nat
      OBVIOUS
    <2> HIDE DEF apart
    <2> QED BY <2>1, LeastOf
  <1>2. \A i \in 0..k : f[i] = IF i = 0 THEN << >> ELSE f[i - 1] \o s[i]
    <2>1. \A i \in 0..k : i \in 0..n
      OBVIOUS
    <2> QED BY <2>1 DEF JoinTold
  <1>3. \A i \in 0..k : g[i] = IF i = 0 THEN << >> ELSE g[i - 1] \o u[i]
    <2>1. \A i \in 0..k : i \in 0..m
      OBVIOUS
    <2> QED BY <2>1 DEF JoinTold
  <1>4. ASSUME NEW j \in apart, \A i \in apart : j <= i
        PROVE  FALSE
    <2>1. j \in 0..k /\ f[j] # g[j] /\ j \in Nat
      OBVIOUS
    <2>2. j # 0
      BY <1>2, <1>3, <2>1
    <2>3. j - 1 \in Nat /\ j - 1 <= k /\ ~(j <= j - 1) /\ j \in 1..k
      BY <2>1, <2>2
    <2>4. j - 1 \notin apart
      <3> HIDE DEF apart
      <3> QED BY <1>4, <2>3
    <2>5. f[j - 1] = g[j - 1] /\ s[j] = u[j]
      BY <2>3, <2>4
    <2> QED BY <1>2, <1>3, <2>1, <2>2, <2>5
  <1> QED BY <1>1, <1>4

LEMMA JoinSeen ==
  ASSUME NEW s, NEW n \in Nat
  PROVE  \E f : JoinTold(s, f, n) /\ Joined(s, n) = f[n]
  <1> DEFINE f == CHOOSE f : JoinTold(s, f, n)
  <1>1. JoinTold(s, f, n)
    BY JoinExists
  <1>2. Joined(s, n) = f[n]
    BY DEF Joined, JoinTold
  <1> QED BY <1>1, <1>2

LEMMA JoinOneMore ==
  ASSUME NEW s, NEW n \in Nat
  PROVE  /\ Joined(s, 0) = << >>
         /\ Joined(s, n + 1) = Joined(s, n) \o s[n + 1]
  <1>1. PICK z : JoinTold(s, z, 0) /\ Joined(s, 0) = z[0]
    BY JoinSeen
  <1>2. PICK f : JoinTold(s, f, n) /\ Joined(s, n) = f[n]
    BY JoinSeen
  <1>3. PICK g : JoinTold(s, g, n + 1) /\ Joined(s, n + 1) = g[n + 1]
    <2>1. n + 1 \in Nat
      OBVIOUS
    <2> QED BY <2>1, JoinSeen
  <1>4. f[n] = g[n]
    <2>1. n + 1 \in Nat /\ n <= n /\ n <= n + 1
      OBVIOUS
    <2> QED BY <1>2, <1>3, <2>1, JoinAlike
  <1>5. z[0] = << >>
    BY <1>1 DEF JoinTold
  <1>6. g[n + 1] = g[n] \o s[n + 1]
    <2>1. n + 1 \in 0..(n + 1) /\ n + 1 # 0 /\ (n + 1) - 1 = n
      OBVIOUS
    <2>2. g[n + 1] = IF n + 1 = 0 THEN << >> ELSE g[(n + 1) - 1] \o s[n + 1]
      BY <1>3, <2>1 DEF JoinTold
    <2> QED BY <2>1, <2>2
  <1> QED BY <1>1, <1>2, <1>3, <1>4, <1>5, <1>6

LEMMA JoinAgree ==
  ASSUME NEW s, NEW u, NEW n \in Nat, \A i \in 1..n : s[i] = u[i]
  PROVE  Joined(s, n) = Joined(u, n)
  <1>1. PICK f : JoinTold(s, f, n) /\ Joined(s, n) = f[n]
    BY JoinSeen
  <1>2. PICK g : JoinTold(u, g, n) /\ Joined(u, n) = g[n]
    BY JoinSeen
  <1>3. n <= n
    OBVIOUS
  <1>4. f[n] = g[n]
    BY <1>1, <1>2, <1>3, JoinAlike
  <1> QED BY <1>1, <1>2, <1>4

-----------------------------------------------------------------------------
\* f holds what is in sight after each of the first n entries.
SightTold(s, f, n) == f = [i \in 0..n |-> IF i = 0 THEN << >> ELSE SeenAfter(f[i - 1], s[i])]

LEMMA SightOnce ==
  ASSUME NEW s, NEW k \in Nat, NEW f, SightTold(s, f, k)
  PROVE  \E g : SightTold(s, g, k + 1)
  <1> DEFINE g == [i \in 0..(k + 1) |-> IF i = 0 THEN << >> ELSE SeenAfter(f[i - 1], s[i])]
  <1>1. \A i \in 0..k : f[i] = IF i = 0 THEN << >> ELSE SeenAfter(f[i - 1], s[i])
    BY DEF SightTold
  <1>2. \A i \in 0..k : i \in 0..(k + 1) /\ g[i] = f[i]
    BY <1>1
  <1>3. \A i \in 0..(k + 1) : i # 0 => i - 1 \in 0..k
    OBVIOUS
  <1>4. \A i \in 0..(k + 1) : i # 0 => g[i - 1] = f[i - 1]
    BY <1>2, <1>3
  <1>5. g = [i \in 0..(k + 1) |-> IF i = 0 THEN << >> ELSE SeenAfter(g[i - 1], s[i])]
    BY <1>4
  <1> QED BY <1>5 DEF SightTold

LEMMA SightExists ==
  ASSUME NEW s, NEW n \in Nat
  PROVE  \E f : SightTold(s, f, n)
  <1> DEFINE missing == {m \in Nat : ~\E f : SightTold(s, f, m)}
  <1>1. missing # {} => \E k \in missing : \A m \in missing : k <= m
    <2>1. missing \in SUBSET Nat
      OBVIOUS
    <2> HIDE DEF missing
    <2> QED BY <2>1, LeastOf
  <1>2. 0 \notin missing
    <2>1. SightTold(s, [i \in 0..0 |-> << >>], 0)
      BY DEF SightTold
    <2> QED BY <2>1
  <1>3. ASSUME NEW k \in missing, \A m \in missing : k <= m
        PROVE  FALSE
    <2>1. k # 0 /\ k - 1 \in Nat /\ k = (k - 1) + 1
      BY <1>2
    <2>2. k - 1 \notin missing
      <3>1. ~(k <= k - 1)
        BY <2>1
      <3> HIDE DEF missing
      <3> QED BY <1>3, <3>1
    <2>3. PICK f : SightTold(s, f, k - 1)
      BY <2>1, <2>2
    <2>4. \E g : SightTold(s, g, k)
      BY <2>1, <2>3, SightOnce
    <2> QED BY <2>4
  <1>4. n \notin missing
    BY <1>1, <1>3
  <1> QED BY <1>4

LEMMA SightAlike ==
  ASSUME NEW s, NEW u, NEW f, NEW g, NEW n \in Nat, NEW m \in Nat, NEW k \in Nat,
         k <= n, k <= m, SightTold(s, f, n), SightTold(u, g, m), \A i \in 1..k : s[i] = u[i]
  PROVE  f[k] = g[k]
  <1> DEFINE apart == {i \in Nat : i <= k /\ f[i] # g[i]}
  <1>1. apart # {} => \E j \in apart : \A i \in apart : j <= i
    <2>1. apart \in SUBSET Nat
      OBVIOUS
    <2> HIDE DEF apart
    <2> QED BY <2>1, LeastOf
  <1>2. \A i \in 0..k : f[i] = IF i = 0 THEN << >> ELSE SeenAfter(f[i - 1], s[i])
    <2>1. \A i \in 0..k : i \in 0..n
      OBVIOUS
    <2> QED BY <2>1 DEF SightTold
  <1>3. \A i \in 0..k : g[i] = IF i = 0 THEN << >> ELSE SeenAfter(g[i - 1], u[i])
    <2>1. \A i \in 0..k : i \in 0..m
      OBVIOUS
    <2> QED BY <2>1 DEF SightTold
  <1>4. ASSUME NEW j \in apart, \A i \in apart : j <= i
        PROVE  FALSE
    <2>1. j \in 0..k /\ f[j] # g[j] /\ j \in Nat
      OBVIOUS
    <2>2. j # 0
      BY <1>2, <1>3, <2>1
    <2>3. j - 1 \in Nat /\ j - 1 <= k /\ ~(j <= j - 1) /\ j \in 1..k
      BY <2>1, <2>2
    <2>4. j - 1 \notin apart
      <3> HIDE DEF apart
      <3> QED BY <1>4, <2>3
    <2>5. f[j - 1] = g[j - 1] /\ s[j] = u[j]
      BY <2>3, <2>4
    <2> QED BY <1>2, <1>3, <2>1, <2>2, <2>5
  <1> QED BY <1>1, <1>4

LEMMA SightSeen ==
  ASSUME NEW s, NEW n \in Nat
  PROVE  \E f : SightTold(s, f, n) /\ Materialized(s, n) = f[n]
  <1> DEFINE f == CHOOSE f : SightTold(s, f, n)
  <1>1. SightTold(s, f, n)
    BY SightExists
  <1>2. Materialized(s, n) = f[n]
    BY DEF Materialized, SightTold
  <1> QED BY <1>1, <1>2

LEMMA SightOneMore ==
  ASSUME NEW s, NEW n \in Nat
  PROVE  /\ Materialized(s, 0) = << >>
         /\ Materialized(s, n + 1) = SeenAfter(Materialized(s, n), s[n + 1])
  <1>1. PICK z : SightTold(s, z, 0) /\ Materialized(s, 0) = z[0]
    BY SightSeen
  <1>2. PICK f : SightTold(s, f, n) /\ Materialized(s, n) = f[n]
    BY SightSeen
  <1>3. PICK g : SightTold(s, g, n + 1) /\ Materialized(s, n + 1) = g[n + 1]
    <2>1. n + 1 \in Nat
      OBVIOUS
    <2> QED BY <2>1, SightSeen
  <1>4. f[n] = g[n]
    <2>1. n + 1 \in Nat /\ n <= n /\ n <= n + 1
      OBVIOUS
    <2> QED BY <1>2, <1>3, <2>1, SightAlike
  <1>5. z[0] = << >>
    BY <1>1 DEF SightTold
  <1>6. g[n + 1] = SeenAfter(g[n], s[n + 1])
    <2>1. n + 1 \in 0..(n + 1) /\ n + 1 # 0 /\ (n + 1) - 1 = n
      OBVIOUS
    <2>2. g[n + 1] = IF n + 1 = 0 THEN << >> ELSE SeenAfter(g[(n + 1) - 1], s[n + 1])
      BY <1>3, <2>1 DEF SightTold
    <2> QED BY <2>1, <2>2
  <1> QED BY <1>1, <1>2, <1>3, <1>4, <1>5, <1>6

LEMMA SightAgree ==
  ASSUME NEW s, NEW u, NEW n \in Nat, \A i \in 1..n : s[i] = u[i]
  PROVE  Materialized(s, n) = Materialized(u, n)
  <1>1. PICK f : SightTold(s, f, n) /\ Materialized(s, n) = f[n]
    BY SightSeen
  <1>2. PICK g : SightTold(u, g, n) /\ Materialized(u, n) = g[n]
    BY SightSeen
  <1>3. n <= n
    OBVIOUS
  <1>4. f[n] = g[n]
    BY <1>1, <1>2, <1>3, SightAlike
  <1> QED BY <1>1, <1>2, <1>4

-----------------------------------------------------------------------------
\* f holds what the statistics make of the first n entries.
TallyTold(s, f, n) == f = [i \in 0..n |-> IF i = 0 THEN [visible |-> << >>, turns |-> << >>] ELSE TurnsAfter(f[i - 1], s[i])]

LEMMA TallyOnce ==
  ASSUME NEW s, NEW k \in Nat, NEW f, TallyTold(s, f, k)
  PROVE  \E g : TallyTold(s, g, k + 1)
  <1> DEFINE g == [i \in 0..(k + 1) |-> IF i = 0 THEN [visible |-> << >>, turns |-> << >>] ELSE TurnsAfter(f[i - 1], s[i])]
  <1>1. \A i \in 0..k : f[i] = IF i = 0 THEN [visible |-> << >>, turns |-> << >>] ELSE TurnsAfter(f[i - 1], s[i])
    BY DEF TallyTold
  <1>2. \A i \in 0..k : i \in 0..(k + 1) /\ g[i] = f[i]
    BY <1>1
  <1>3. \A i \in 0..(k + 1) : i # 0 => i - 1 \in 0..k
    OBVIOUS
  <1>4. \A i \in 0..(k + 1) : i # 0 => g[i - 1] = f[i - 1]
    BY <1>2, <1>3
  <1>5. g = [i \in 0..(k + 1) |-> IF i = 0 THEN [visible |-> << >>, turns |-> << >>] ELSE TurnsAfter(g[i - 1], s[i])]
    BY <1>4
  <1> QED BY <1>5 DEF TallyTold

LEMMA TallyExists ==
  ASSUME NEW s, NEW n \in Nat
  PROVE  \E f : TallyTold(s, f, n)
  <1> DEFINE missing == {m \in Nat : ~\E f : TallyTold(s, f, m)}
  <1>1. missing # {} => \E k \in missing : \A m \in missing : k <= m
    <2>1. missing \in SUBSET Nat
      OBVIOUS
    <2> HIDE DEF missing
    <2> QED BY <2>1, LeastOf
  <1>2. 0 \notin missing
    <2>1. TallyTold(s, [i \in 0..0 |-> [visible |-> << >>, turns |-> << >>]], 0)
      BY DEF TallyTold
    <2> QED BY <2>1
  <1>3. ASSUME NEW k \in missing, \A m \in missing : k <= m
        PROVE  FALSE
    <2>1. k # 0 /\ k - 1 \in Nat /\ k = (k - 1) + 1
      BY <1>2
    <2>2. k - 1 \notin missing
      <3>1. ~(k <= k - 1)
        BY <2>1
      <3> HIDE DEF missing
      <3> QED BY <1>3, <3>1
    <2>3. PICK f : TallyTold(s, f, k - 1)
      BY <2>1, <2>2
    <2>4. \E g : TallyTold(s, g, k)
      BY <2>1, <2>3, TallyOnce
    <2> QED BY <2>4
  <1>4. n \notin missing
    BY <1>1, <1>3
  <1> QED BY <1>4

LEMMA TallyAlike ==
  ASSUME NEW s, NEW u, NEW f, NEW g, NEW n \in Nat, NEW m \in Nat, NEW k \in Nat,
         k <= n, k <= m, TallyTold(s, f, n), TallyTold(u, g, m), \A i \in 1..k : s[i] = u[i]
  PROVE  f[k] = g[k]
  <1> DEFINE apart == {i \in Nat : i <= k /\ f[i] # g[i]}
  <1>1. apart # {} => \E j \in apart : \A i \in apart : j <= i
    <2>1. apart \in SUBSET Nat
      OBVIOUS
    <2> HIDE DEF apart
    <2> QED BY <2>1, LeastOf
  <1>2. \A i \in 0..k : f[i] = IF i = 0 THEN [visible |-> << >>, turns |-> << >>] ELSE TurnsAfter(f[i - 1], s[i])
    <2>1. \A i \in 0..k : i \in 0..n
      OBVIOUS
    <2> QED BY <2>1 DEF TallyTold
  <1>3. \A i \in 0..k : g[i] = IF i = 0 THEN [visible |-> << >>, turns |-> << >>] ELSE TurnsAfter(g[i - 1], u[i])
    <2>1. \A i \in 0..k : i \in 0..m
      OBVIOUS
    <2> QED BY <2>1 DEF TallyTold
  <1>4. ASSUME NEW j \in apart, \A i \in apart : j <= i
        PROVE  FALSE
    <2>1. j \in 0..k /\ f[j] # g[j] /\ j \in Nat
      OBVIOUS
    <2>2. j # 0
      BY <1>2, <1>3, <2>1
    <2>3. j - 1 \in Nat /\ j - 1 <= k /\ ~(j <= j - 1) /\ j \in 1..k
      BY <2>1, <2>2
    <2>4. j - 1 \notin apart
      <3> HIDE DEF apart
      <3> QED BY <1>4, <2>3
    <2>5. f[j - 1] = g[j - 1] /\ s[j] = u[j]
      BY <2>3, <2>4
    <2> QED BY <1>2, <1>3, <2>1, <2>2, <2>5
  <1> QED BY <1>1, <1>4

LEMMA TallySeen ==
  ASSUME NEW s, NEW n \in Nat
  PROVE  \E f : TallyTold(s, f, n) /\ StatisticsView(s, n) = f[n]
  <1> DEFINE f == CHOOSE f : TallyTold(s, f, n)
  <1>1. TallyTold(s, f, n)
    BY TallyExists
  <1>2. StatisticsView(s, n) = f[n]
    BY DEF StatisticsView, TallyTold
  <1> QED BY <1>1, <1>2

LEMMA TallyOneMore ==
  ASSUME NEW s, NEW n \in Nat
  PROVE  /\ StatisticsView(s, 0) = [visible |-> << >>, turns |-> << >>]
         /\ StatisticsView(s, n + 1) = TurnsAfter(StatisticsView(s, n), s[n + 1])
  <1>1. PICK z : TallyTold(s, z, 0) /\ StatisticsView(s, 0) = z[0]
    BY TallySeen
  <1>2. PICK f : TallyTold(s, f, n) /\ StatisticsView(s, n) = f[n]
    BY TallySeen
  <1>3. PICK g : TallyTold(s, g, n + 1) /\ StatisticsView(s, n + 1) = g[n + 1]
    <2>1. n + 1 \in Nat
      OBVIOUS
    <2> QED BY <2>1, TallySeen
  <1>4. f[n] = g[n]
    <2>1. n + 1 \in Nat /\ n <= n /\ n <= n + 1
      OBVIOUS
    <2> QED BY <1>2, <1>3, <2>1, TallyAlike
  <1>5. z[0] = [visible |-> << >>, turns |-> << >>]
    BY <1>1 DEF TallyTold
  <1>6. g[n + 1] = TurnsAfter(g[n], s[n + 1])
    <2>1. n + 1 \in 0..(n + 1) /\ n + 1 # 0 /\ (n + 1) - 1 = n
      OBVIOUS
    <2>2. g[n + 1] = IF n + 1 = 0 THEN [visible |-> << >>, turns |-> << >>] ELSE TurnsAfter(g[(n + 1) - 1], s[n + 1])
      BY <1>3, <2>1 DEF TallyTold
    <2> QED BY <2>1, <2>2
  <1> QED BY <1>1, <1>2, <1>3, <1>4, <1>5, <1>6

LEMMA TallyAgree ==
  ASSUME NEW s, NEW u, NEW n \in Nat, \A i \in 1..n : s[i] = u[i]
  PROVE  StatisticsView(s, n) = StatisticsView(u, n)
  <1>1. PICK f : TallyTold(s, f, n) /\ StatisticsView(s, n) = f[n]
    BY TallySeen
  <1>2. PICK g : TallyTold(u, g, n) /\ StatisticsView(u, n) = g[n]
    BY TallySeen
  <1>3. n <= n
    OBVIOUS
  <1>4. f[n] = g[n]
    BY <1>1, <1>2, <1>3, TallyAlike
  <1> QED BY <1>1, <1>2, <1>4

-----------------------------------------------------------------------------
\* f holds the tracker and the messages at hand after each of the first n entries.
BatchTold(t, s, f, n) == f = [i \in 0..n |-> IF i = 0 THEN [tracker |-> t, batch |-> << >>] ELSE WithEntry(f[i - 1], s[i])]

LEMMA BatchOnce ==
  ASSUME NEW t, NEW s, NEW k \in Nat, NEW f, BatchTold(t, s, f, k)
  PROVE  \E g : BatchTold(t, s, g, k + 1)
  <1> DEFINE g == [i \in 0..(k + 1) |-> IF i = 0 THEN [tracker |-> t, batch |-> << >>] ELSE WithEntry(f[i - 1], s[i])]
  <1>1. \A i \in 0..k : f[i] = IF i = 0 THEN [tracker |-> t, batch |-> << >>] ELSE WithEntry(f[i - 1], s[i])
    BY DEF BatchTold
  <1>2. \A i \in 0..k : i \in 0..(k + 1) /\ g[i] = f[i]
    BY <1>1
  <1>3. \A i \in 0..(k + 1) : i # 0 => i - 1 \in 0..k
    OBVIOUS
  <1>4. \A i \in 0..(k + 1) : i # 0 => g[i - 1] = f[i - 1]
    BY <1>2, <1>3
  <1>5. g = [i \in 0..(k + 1) |-> IF i = 0 THEN [tracker |-> t, batch |-> << >>] ELSE WithEntry(g[i - 1], s[i])]
    BY <1>4
  <1> QED BY <1>5 DEF BatchTold

LEMMA BatchExists ==
  ASSUME NEW t, NEW s, NEW n \in Nat
  PROVE  \E f : BatchTold(t, s, f, n)
  <1> DEFINE missing == {m \in Nat : ~\E f : BatchTold(t, s, f, m)}
  <1>1. missing # {} => \E k \in missing : \A m \in missing : k <= m
    <2>1. missing \in SUBSET Nat
      OBVIOUS
    <2> HIDE DEF missing
    <2> QED BY <2>1, LeastOf
  <1>2. 0 \notin missing
    <2>1. BatchTold(t, s, [i \in 0..0 |-> [tracker |-> t, batch |-> << >>]], 0)
      BY DEF BatchTold
    <2> QED BY <2>1
  <1>3. ASSUME NEW k \in missing, \A m \in missing : k <= m
        PROVE  FALSE
    <2>1. k # 0 /\ k - 1 \in Nat /\ k = (k - 1) + 1
      BY <1>2
    <2>2. k - 1 \notin missing
      <3>1. ~(k <= k - 1)
        BY <2>1
      <3> HIDE DEF missing
      <3> QED BY <1>3, <3>1
    <2>3. PICK f : BatchTold(t, s, f, k - 1)
      BY <2>1, <2>2
    <2>4. \E g : BatchTold(t, s, g, k)
      BY <2>1, <2>3, BatchOnce
    <2> QED BY <2>4
  <1>4. n \notin missing
    BY <1>1, <1>3
  <1> QED BY <1>4

LEMMA BatchAlike ==
  ASSUME NEW t, NEW s, NEW u, NEW f, NEW g, NEW n \in Nat, NEW m \in Nat, NEW k \in Nat,
         k <= n, k <= m, BatchTold(t, s, f, n), BatchTold(t, u, g, m), \A i \in 1..k : s[i] = u[i]
  PROVE  f[k] = g[k]
  <1> DEFINE apart == {i \in Nat : i <= k /\ f[i] # g[i]}
  <1>1. apart # {} => \E j \in apart : \A i \in apart : j <= i
    <2>1. apart \in SUBSET Nat
      OBVIOUS
    <2> HIDE DEF apart
    <2> QED BY <2>1, LeastOf
  <1>2. \A i \in 0..k : f[i] = IF i = 0 THEN [tracker |-> t, batch |-> << >>] ELSE WithEntry(f[i - 1], s[i])
    <2>1. \A i \in 0..k : i \in 0..n
      OBVIOUS
    <2> QED BY <2>1 DEF BatchTold
  <1>3. \A i \in 0..k : g[i] = IF i = 0 THEN [tracker |-> t, batch |-> << >>] ELSE WithEntry(g[i - 1], u[i])
    <2>1. \A i \in 0..k : i \in 0..m
      OBVIOUS
    <2> QED BY <2>1 DEF BatchTold
  <1>4. ASSUME NEW j \in apart, \A i \in apart : j <= i
        PROVE  FALSE
    <2>1. j \in 0..k /\ f[j] # g[j] /\ j \in Nat
      OBVIOUS
    <2>2. j # 0
      BY <1>2, <1>3, <2>1
    <2>3. j - 1 \in Nat /\ j - 1 <= k /\ ~(j <= j - 1) /\ j \in 1..k
      BY <2>1, <2>2
    <2>4. j - 1 \notin apart
      <3> HIDE DEF apart
      <3> QED BY <1>4, <2>3
    <2>5. f[j - 1] = g[j - 1] /\ s[j] = u[j]
      BY <2>3, <2>4
    <2> QED BY <1>2, <1>3, <2>1, <2>2, <2>5
  <1> QED BY <1>1, <1>4

LEMMA BatchSeen ==
  ASSUME NEW t, NEW s, NEW n \in Nat
  PROVE  \E f : BatchTold(t, s, f, n) /\ AfterEntries(t, s, n) = f[n]
  <1> DEFINE f == CHOOSE f : BatchTold(t, s, f, n)
  <1>1. BatchTold(t, s, f, n)
    BY BatchExists
  <1>2. AfterEntries(t, s, n) = f[n]
    BY DEF AfterEntries, BatchTold
  <1> QED BY <1>1, <1>2

LEMMA BatchOneMore ==
  ASSUME NEW t, NEW s, NEW n \in Nat
  PROVE  /\ AfterEntries(t, s, 0) = [tracker |-> t, batch |-> << >>]
         /\ AfterEntries(t, s, n + 1) = WithEntry(AfterEntries(t, s, n), s[n + 1])
  <1>1. PICK z : BatchTold(t, s, z, 0) /\ AfterEntries(t, s, 0) = z[0]
    BY BatchSeen
  <1>2. PICK f : BatchTold(t, s, f, n) /\ AfterEntries(t, s, n) = f[n]
    BY BatchSeen
  <1>3. PICK g : BatchTold(t, s, g, n + 1) /\ AfterEntries(t, s, n + 1) = g[n + 1]
    <2>1. n + 1 \in Nat
      OBVIOUS
    <2> QED BY <2>1, BatchSeen
  <1>4. f[n] = g[n]
    <2>1. n + 1 \in Nat /\ n <= n /\ n <= n + 1
      OBVIOUS
    <2> QED BY <1>2, <1>3, <2>1, BatchAlike
  <1>5. z[0] = [tracker |-> t, batch |-> << >>]
    BY <1>1 DEF BatchTold
  <1>6. g[n + 1] = WithEntry(g[n], s[n + 1])
    <2>1. n + 1 \in 0..(n + 1) /\ n + 1 # 0 /\ (n + 1) - 1 = n
      OBVIOUS
    <2>2. g[n + 1] = IF n + 1 = 0 THEN [tracker |-> t, batch |-> << >>] ELSE WithEntry(g[(n + 1) - 1], s[n + 1])
      BY <1>3, <2>1 DEF BatchTold
    <2> QED BY <2>1, <2>2
  <1> QED BY <1>1, <1>2, <1>3, <1>4, <1>5, <1>6

LEMMA BatchAgree ==
  ASSUME NEW t, NEW s, NEW u, NEW n \in Nat, \A i \in 1..n : s[i] = u[i]
  PROVE  AfterEntries(t, s, n) = AfterEntries(t, u, n)
  <1>1. PICK f : BatchTold(t, s, f, n) /\ AfterEntries(t, s, n) = f[n]
    BY BatchSeen
  <1>2. PICK g : BatchTold(t, u, g, n) /\ AfterEntries(t, u, n) = g[n]
    BY BatchSeen
  <1>3. n <= n
    OBVIOUS
  <1>4. f[n] = g[n]
    BY <1>1, <1>2, <1>3, BatchAlike
  <1> QED BY <1>1, <1>2, <1>4

-----------------------------------------------------------------------------
(***************************************************************************)
(* Sums and sequences.                                                     *)
(***************************************************************************)
LEMMA FromBelow ==
  ASSUME NEW S \in SUBSET Nat, 0 \in S, \A k \in S : k + 1 \in S
  PROVE  \A n \in Nat : n \in S
  <1> DEFINE missing == Nat \ S
  <1>1. missing # {} => \E k \in missing : \A m \in missing : k <= m
    <2>1. missing \in SUBSET Nat
      OBVIOUS
    <2> HIDE DEF missing
    <2> QED BY <2>1, LeastOf
  <1>2. ASSUME NEW k \in missing, \A m \in missing : k <= m
        PROVE  FALSE
    <2>1. k # 0 /\ k - 1 \in Nat /\ k = (k - 1) + 1 /\ ~(k <= k - 1)
      OBVIOUS
    <2>2. k - 1 \in S
      BY <1>2, <2>1
    <2>3. (k - 1) + 1 \in S
      BY <2>2
    <2> QED BY <2>1, <2>3
  <1> QED BY <1>1, <1>2

LEMMA SumIsNumber ==
  ASSUME NEW f, NEW n \in Nat, \A i \in 1..n : f[i] \in Nat
  PROVE  \A k \in 0..n : SumOf(f, k) \in Nat
  <1> DEFINE good == {k \in Nat : k <= n => SumOf(f, k) \in Nat}
  <1>1. 0 \in good
    BY SumOneMore
  <1>2. ASSUME NEW k \in good
        PROVE  k + 1 \in good
    <2>1. SUFFICES ASSUME k + 1 <= n PROVE SumOf(f, k + 1) \in Nat
      OBVIOUS
    <2>2. k \in Nat /\ SumOf(f, k) \in Nat /\ f[k + 1] \in Nat
      BY <2>1
    <2>3. SumOf(f, k + 1) = SumOf(f, k) + f[k + 1]
      BY <2>2, SumOneMore
    <2> QED BY <2>2, <2>3
  <1>3. good \in SUBSET Nat
    OBVIOUS
  <1> HIDE DEF good
  <1>4. \A k \in Nat : k \in good
    BY <1>1, <1>2, <1>3, FromBelow
  <1> QED BY <1>4 DEF good

Numbers(f, n) == \A i \in 1..n : f[i] \in Nat

LEMMA SumGrows ==
  ASSUME NEW f, NEW n \in Nat, Numbers(f, n)
  PROVE  \A j, k \in 0..n : j <= k => SumOf(f, j) <= SumOf(f, k)
  <1> USE DEF Numbers
  <1> SUFFICES ASSUME NEW j \in 0..n, NEW k \in 0..n, j <= k
               PROVE  SumOf(f, j) <= SumOf(f, k)
    OBVIOUS
  <1> DEFINE good == {m \in Nat : j + m <= n => SumOf(f, j) <= SumOf(f, j + m)}
  <1>1. 0 \in good
    BY SumIsNumber
  <1>2. ASSUME NEW m \in good
        PROVE  m + 1 \in good
    <2>1. SUFFICES ASSUME j + (m + 1) <= n PROVE SumOf(f, j) <= SumOf(f, j + (m + 1))
      OBVIOUS
    <2>2. m \in Nat /\ j + m \in Nat /\ j + m \in 0..n /\ (j + m) + 1 \in 1..n /\ j + (m + 1) = (j + m) + 1
      BY <2>1
    <2>3. SumOf(f, (j + m) + 1) = SumOf(f, j + m) + f[(j + m) + 1]
      BY <2>2, SumOneMore
    <2>4. SumOf(f, j) \in Nat /\ SumOf(f, j + m) \in Nat /\ f[(j + m) + 1] \in Nat
      BY <2>2, SumIsNumber
    <2>5. SumOf(f, j) <= SumOf(f, j + m)
      BY <2>2
    <2> QED BY <2>2, <2>3, <2>4, <2>5
  <1>3. good \in SUBSET Nat
    OBVIOUS
  <1> HIDE DEF good
  <1>4. \A m \in Nat : m \in good
    BY <1>1, <1>2, <1>3, FromBelow
  <1>5. k - j \in Nat /\ j + (k - j) = k /\ k <= n
    OBVIOUS
  <1> QED BY <1>4, <1>5 DEF good

\* n numbers and then m numbers, all of them together.
OneAfterOther(f, n, g, m, h) ==
  /\ \A i \in 1..n : f[i] \in Nat /\ h[i] = f[i]
  /\ \A i \in 1..m : g[i] \in Nat /\ h[n + i] = g[i]

LEMMA SumJoins ==
  ASSUME NEW f, NEW g, NEW h, NEW n \in Nat, NEW m \in Nat, OneAfterOther(f, n, g, m, h)
  PROVE  SumOf(h, n + m) = SumOf(f, n) + SumOf(g, m)
  <1> USE DEF OneAfterOther
  <1> DEFINE good == {k \in Nat : k <= m => SumOf(h, n + k) = SumOf(f, n) + SumOf(g, k)}
  <1>1. SumOf(f, n) \in Nat /\ \A k \in 0..m : SumOf(g, k) \in Nat
    <2>1. n \in 0..n /\ (\A i \in 1..n : f[i] \in Nat) /\ (\A i \in 1..m : g[i] \in Nat)
      OBVIOUS
    <2>2. SumOf(f, n) \in Nat
      BY <2>1, SumIsNumber
    <2>3. \A k \in 0..m : SumOf(g, k) \in Nat
      BY <2>1, SumIsNumber
    <2> QED BY <2>2, <2>3
  <1>2. 0 \in good
    <2>1. SumOf(h, n) = SumOf(f, n)
      BY SumAgree
    <2>2. SumOf(g, 0) = 0
      BY SumOneMore
    <2> QED BY <1>1, <2>1, <2>2
  <1>3. ASSUME NEW k \in good
        PROVE  k + 1 \in good
    <2>1. SUFFICES ASSUME k + 1 <= m PROVE SumOf(h, n + (k + 1)) = SumOf(f, n) + SumOf(g, k + 1)
      OBVIOUS
    <2>2. k \in Nat /\ n + k \in Nat /\ n + (k + 1) = (n + k) + 1 /\ k + 1 \in 1..m /\ k \in 0..m
      BY <2>1
    <2>3. SumOf(h, (n + k) + 1) = SumOf(h, n + k) + h[(n + k) + 1]
      BY <2>2, SumOneMore
    <2>4. SumOf(g, k + 1) = SumOf(g, k) + g[k + 1]
      BY <2>2, SumOneMore
    <2>5. SumOf(h, n + k) = SumOf(f, n) + SumOf(g, k)
      BY <2>2
    <2>6. h[(n + k) + 1] = g[k + 1] /\ g[k + 1] \in Nat /\ SumOf(g, k) \in Nat
      BY <1>1, <2>2
    <2> QED BY <1>1, <2>2, <2>3, <2>4, <2>5, <2>6
  <1>4. good \in SUBSET Nat
    OBVIOUS
  <1> HIDE DEF good
  <1>5. \A k \in Nat : k \in good
    BY <1>2, <1>3, <1>4, FromBelow
  <1> QED BY <1>5 DEF good

LEMMA SameSeq ==
  ASSUME NEW S, NEW a \in Seq(S), NEW b \in Seq(S), Len(a) = Len(b), \A i \in 1..Len(a) : a[i] = b[i]
  PROVE  a = b
  OBVIOUS

LEMMA PrefixIs ==
  ASSUME NEW S, NEW a \in Seq(S), NEW k \in 0..Len(a)
  PROVE  SubSeq(a, 1, k) \in Seq(S) /\ Len(SubSeq(a, 1, k)) = k /\ \A i \in 1..k : SubSeq(a, 1, k)[i] = a[i]
  OBVIOUS

LEMMA WholePrefix ==
  ASSUME NEW S, NEW a \in Seq(S)
  PROVE  SubSeq(a, 1, Len(a)) = a
  <1>1. Len(a) \in 0..Len(a)
    OBVIOUS
  <1>2. PICK b \in Seq(S) : b = SubSeq(a, 1, Len(a))
    BY <1>1, PrefixIs
  <1>3. Len(b) = Len(a) /\ \A i \in 1..Len(a) : b[i] = a[i]
    BY <1>1, <1>2, PrefixIs
  <1> QED BY <1>2, <1>3, SameSeq

LEMMA JoinIs ==
  ASSUME NEW S, NEW a \in Seq(S), NEW b \in Seq(S)
  PROVE  /\ a \o b \in Seq(S) /\ Len(a \o b) = Len(a) + Len(b)
         /\ \A i \in 1..Len(a) : (a \o b)[i] = a[i]
         /\ \A i \in 1..Len(b) : (a \o b)[Len(a) + i] = b[i]
  OBVIOUS

LEMMA PrefixOfJoin ==
  ASSUME NEW S, NEW a \in Seq(S), NEW b \in Seq(S), NEW k \in 0..Len(a)
  PROVE  SubSeq(a \o b, 1, k) = SubSeq(a, 1, k)
  <1>1. PICK c \in Seq(S) : c = a \o b
    BY JoinIs
  <1>2. k \in 0..Len(c) /\ \A i \in 1..k : c[i] = a[i]
    BY <1>1, JoinIs
  <1>3. PICK d \in Seq(S) : d = SubSeq(c, 1, k)
    BY <1>2, PrefixIs
  <1>4. PICK e \in Seq(S) : e = SubSeq(a, 1, k)
    BY PrefixIs
  <1>5. Len(d) = k /\ Len(e) = k /\ \A i \in 1..k : d[i] = e[i]
    BY <1>2, <1>3, <1>4, PrefixIs
  <1>6. d = e
    BY <1>5, SameSeq
  <1> QED BY <1>1, <1>3, <1>4, <1>6

LEMMA PrefixWithin ==
  ASSUME NEW S, NEW a \in Seq(S), NEW b \in Seq(S), NEW k \in 0..Len(b)
  PROVE  SubSeq(a \o b, 1, Len(a) + k) = a \o SubSeq(b, 1, k)
  <1>1. PICK c \in Seq(S) : c = a \o b
    BY JoinIs
  <1>2. PICK n \in Nat : n = Len(a)
    OBVIOUS
  <1>3. Len(c) = n + Len(b) /\ n + k \in 0..Len(c) /\ k \in Nat
    BY <1>1, <1>2, JoinIs
  <1>4. PICK d \in Seq(S) : d = SubSeq(c, 1, n + k)
    BY <1>3, PrefixIs
  <1>5. PICK e \in Seq(S) : e = SubSeq(b, 1, k)
    BY PrefixIs
  <1>6. PICK f \in Seq(S) : f = a \o e
    BY JoinIs
  <1>7. Len(e) = k /\ \A i \in 1..k : e[i] = b[i]
    BY <1>5, PrefixIs
  <1>8. Len(d) = n + k /\ \A i \in 1..(n + k) : d[i] = c[i]
    BY <1>3, <1>4, PrefixIs
  <1>9. Len(f) = n + k
    BY <1>2, <1>6, <1>7, JoinIs
  <1>10. ASSUME NEW i \in 1..(n + k)
         PROVE  d[i] = f[i]
    <2>1. CASE i <= n
      <3>1. c[i] = a[i] /\ f[i] = a[i]
        BY <1>1, <1>2, <1>6, <2>1, JoinIs
      <3> QED BY <1>8, <3>1
    <2>2. CASE ~(i <= n)
      <3>1. PICK j \in 1..k : j = i - n
        BY <1>3, <2>2
      <3>2. n + j = i /\ j \in 1..Len(b) /\ j \in 1..Len(e)
        BY <1>3, <1>7, <3>1
      <3>3. c[n + j] = b[j]
        BY <1>1, <1>2, <3>2, JoinIs, SMTT(30)
      <3>4. f[n + j] = e[j]
        BY <1>2, <1>6, <3>2, JoinIs
      <3> QED BY <1>7, <1>8, <3>1, <3>2, <3>3, <3>4
    <2> QED BY <2>1, <2>2
  <1>11. d = f
    BY <1>8, <1>9, <1>10, SameSeq
  <1> QED BY <1>1, <1>2, <1>4, <1>5, <1>6, <1>11

LEMMA PrefixOfPrefix ==
  ASSUME NEW S, NEW a \in Seq(S), NEW k \in 0..Len(a), NEW j \in 0..k
  PROVE  SubSeq(SubSeq(a, 1, k), 1, j) = SubSeq(a, 1, j)
  <1>1. PICK b \in Seq(S) : b = SubSeq(a, 1, k)
    BY PrefixIs
  <1>2. Len(b) = k /\ (\A i \in 1..k : b[i] = a[i]) /\ j \in 0..Len(a) /\ j \in 0..Len(b)
    BY <1>1, PrefixIs
  <1>3. PICK c \in Seq(S) : c = SubSeq(b, 1, j)
    BY <1>2, PrefixIs
  <1>4. PICK d \in Seq(S) : d = SubSeq(a, 1, j)
    BY <1>2, PrefixIs
  <1>5. Len(c) = j /\ Len(d) = j /\ \A i \in 1..j : c[i] = d[i]
    BY <1>2, <1>3, <1>4, PrefixIs
  <1>6. c = d
    BY <1>5, SameSeq
  <1> QED BY <1>1, <1>3, <1>4, <1>6

\* Sequences put end to end are a sequence, as long as all of them, which begins with what
\* the first of them make.
Measured(S, parts, lengths, n) == \A i \in 1..n : parts[i] \in Seq(S) /\ lengths[i] = Len(parts[i])

LEMMA JoinedIs ==
  ASSUME NEW S, NEW parts, NEW lengths, NEW n \in Nat, Measured(S, parts, lengths, n)
  PROVE  \A k \in 0..n : Joined(parts, k) \in Seq(S) /\ Len(Joined(parts, k)) = SumOf(lengths, k)
  <1> USE DEF Measured
  <1> DEFINE good == {k \in Nat : k <= n => Joined(parts, k) \in Seq(S) /\ Len(Joined(parts, k)) = SumOf(lengths, k)}
  <1>1. 0 \in good
    <2>1. Joined(parts, 0) = << >> /\ SumOf(lengths, 0) = 0
      BY JoinOneMore, SumOneMore
    <2>2. << >> \in Seq(S) /\ Len(<< >>) = 0
      OBVIOUS
    <2> QED BY <2>1, <2>2
  <1>2. ASSUME NEW k \in good
        PROVE  k + 1 \in good
    <2>1. SUFFICES ASSUME k + 1 <= n
                   PROVE  Joined(parts, k + 1) \in Seq(S) /\ Len(Joined(parts, k + 1)) = SumOf(lengths, k + 1)
      OBVIOUS
    <2>2. k \in Nat /\ k + 1 \in 1..n /\ Joined(parts, k) \in Seq(S) /\ Len(Joined(parts, k)) = SumOf(lengths, k)
      BY <2>1
    <2>3. Joined(parts, k + 1) = Joined(parts, k) \o parts[k + 1] /\ SumOf(lengths, k + 1) = SumOf(lengths, k) + lengths[k + 1]
      BY <2>2, JoinOneMore, SumOneMore
    <2>4. parts[k + 1] \in Seq(S) /\ lengths[k + 1] = Len(parts[k + 1])
      BY <2>2
    <2>5. PICK a \in Seq(S) : a = Joined(parts, k)
      BY <2>2
    <2>6. PICK b \in Seq(S) : b = parts[k + 1]
      BY <2>4
    <2>7. a \o b \in Seq(S) /\ Len(a \o b) = Len(a) + Len(b)
      BY JoinIs
    <2> QED BY <2>2, <2>3, <2>4, <2>5, <2>6, <2>7
  <1>3. good \in SUBSET Nat
    OBVIOUS
  <1> HIDE DEF good
  <1>4. \A k \in Nat : k \in good
    BY <1>1, <1>2, <1>3, FromBelow
  <1> QED BY <1>4 DEF good

LEMMA JoinedBegins ==
  ASSUME NEW S, NEW parts, NEW n \in Nat, \A i \in 1..n : parts[i] \in Seq(S), NEW k \in 0..n
  PROVE  /\ SubSeq(Joined(parts, n), 1, Len(Joined(parts, k))) = Joined(parts, k)
         /\ Len(Joined(parts, k)) <= Len(Joined(parts, n))
  <1> DEFINE good == {m \in Nat : k + m <= n => /\ Len(Joined(parts, k)) <= Len(Joined(parts, k + m))
                                               /\ SubSeq(Joined(parts, k + m), 1, Len(Joined(parts, k))) = Joined(parts, k)}
  <1>1. PICK lengths : lengths = [i \in 1..n |-> Len(parts[i])]
    OBVIOUS
  <1>2. \A i \in 0..n : Joined(parts, i) \in Seq(S)
    <2>1. Measured(S, parts, lengths, n)
      BY <1>1 DEF Measured
    <2> QED BY <2>1, JoinedIs
  <1>3. PICK a \in Seq(S) : a = Joined(parts, k)
    BY <1>2
  <1>4. 0 \in good
    BY <1>3, WholePrefix
  <1>5. ASSUME NEW m \in good
        PROVE  m + 1 \in good
    <2>1. SUFFICES ASSUME k + (m + 1) <= n
                   PROVE  /\ Len(a) <= Len(Joined(parts, k + (m + 1)))
                          /\ SubSeq(Joined(parts, k + (m + 1)), 1, Len(a)) = a
      BY <1>3
    <2>2. m \in Nat
      OBVIOUS
    <2>3. m \in Nat /\ k + m \in 0..n /\ k + (m + 1) = (k + m) + 1 /\ (k + m) + 1 \in 1..n /\ k + m \in Nat
      BY ONLY <2>2, <2>1, k \in 0..n, n \in Nat
    <2>4. PICK b \in Seq(S) : b = Joined(parts, k + m)
      BY <1>2, <2>3
    <2>5. PICK c \in Seq(S) : c = parts[(k + m) + 1]
      BY <2>3
    <2>6. Joined(parts, k + (m + 1)) = b \o c
      BY <2>3, <2>4, <2>5, JoinOneMore
    <2>7. Len(a) <= Len(b) /\ SubSeq(b, 1, Len(a)) = a
      BY <1>3, <2>3, <2>4
    <2>8. Len(a) \in 0..Len(b) /\ Len(b \o c) = Len(b) + Len(c)
      BY <2>7, JoinIs
    <2>9. SubSeq(b \o c, 1, Len(a)) = a
      BY <2>7, <2>8, PrefixOfJoin
    <2>10. Len(a) <= Len(b \o c)
      <3>1. Len(a) \in Nat /\ Len(b) \in Nat /\ Len(c) \in Nat
        OBVIOUS
      <3> QED BY ONLY <3>1, <2>7, <2>8
    <2> QED BY <2>6, <2>9, <2>10, Zenon
  <1>6. good \in SUBSET Nat
    OBVIOUS
  <1> HIDE DEF good
  <1>7. \A m \in Nat : m \in good
    BY <1>4, <1>5, <1>6, FromBelow
  <1>8. PICK d \in Nat : k + d = n
    <2>1. n - k \in Nat /\ k + (n - k) = n
      OBVIOUS
    <2> QED BY <2>1
  <1>9. d \in good
    BY <1>7
  <1>10. k + d <= n => /\ SubSeq(Joined(parts, k + d), 1, Len(Joined(parts, k))) = Joined(parts, k)
                       /\ Len(Joined(parts, k)) <= Len(Joined(parts, k + d))
    BY <1>9 DEF good
  <1>11. k + d <= n
    BY <1>8
  <1> QED BY <1>8, <1>10, <1>11, Zenon

-----------------------------------------------------------------------------
(***************************************************************************)
(* The tracker.  A segment is estimated when it is appended and, at most   *)
(* once more, when its end is taken from it; each estimate is within a     *)
(* token of a third of the characters, so what is left of a segment is     *)
(* within two thirds of a token more.                                      *)
(***************************************************************************)
Message == [role : {"system", "user", "assistant", "tool"}, text : Nat, calls : Nat]
Segment == [messages : Seq(Message), tokens : Nat]
Trackers == [segments : Seq(Segment), tokens : Nat, anchor : Nat]

SizeOf(messages) == SumOf([i \in DOMAIN messages |-> Characters[messages[i].role] + 1], Len(messages))

Estimated(segment, clipped) ==
  /\ segment.messages # << >>
  /\ \/ segment.tokens = Tokens(segment.messages)
     \/ clipped /\ 3 * segment.tokens - SizeOf(segment.messages) \in -2..2

TrackerInv(t, clipped) ==
  /\ t \in Trackers
  /\ \A i \in 1..Len(t.segments) : Estimated(t.segments[i], clipped)
  /\ t.tokens = SumOf([i \in DOMAIN t.segments |-> t.segments[i].tokens], Len(t.segments))

LEMMA ElementsOf ==
  ASSUME NEW S, NEW s \in Seq(S)
  PROVE  Len(s) \in Nat /\ DOMAIN s = 1..Len(s) /\ \A p \in 1..Len(s) : s[p] \in S
  OBVIOUS

LEMMA SizeIs ==
  ASSUME NEW m \in Seq(Message)
  PROVE  SizeOf(m) \in Nat /\ (m # << >> => SizeOf(m) >= 6)
  <1>1. PICK n \in Nat : n = Len(m)
    OBVIOUS
  <1>2. PICK f : f = [i \in DOMAIN m |-> Characters[m[i].role] + 1]
    OBVIOUS
  <1>3. \A i \in 1..n : f[i] \in Nat /\ f[i] >= 6
    <2>1. \A i \in 1..n : i \in DOMAIN m /\ m[i] \in Message
      BY <1>1, ElementsOf
    <2>2. \A i \in 1..n : m[i].role \in {"system", "user", "assistant", "tool"}
      BY <2>1 DEF Message
    <2>3. \A role \in {"system", "user", "assistant", "tool"} : Characters[role] \in Nat /\ Characters[role] >= 5
      BY DEF Characters
    <2>4. \A i \in 1..n : Characters[m[i].role] \in Nat /\ Characters[m[i].role] >= 5
      BY <2>2, <2>3
    <2> QED BY <1>2, <2>1, <2>4
  <1>4. SizeOf(m) = SumOf(f, n)
    BY <1>1, <1>2 DEF SizeOf
  <1>5. \A k \in 0..n : SumOf(f, k) \in Nat
    BY <1>3, SumIsNumber
  <1>6. ASSUME m # << >>
        PROVE  SumOf(f, n) >= 6
    <2>1. n # 0
      BY <1>1, <1>6
    <2>2. n - 1 \in Nat /\ n - 1 \in 0..n /\ (n - 1) + 1 = n /\ n \in 1..n
      BY <2>1
    <2>3. SumOf(f, (n - 1) + 1) = SumOf(f, n - 1) + f[(n - 1) + 1]
      BY <2>2, SumOneMore
    <2>4. SumOf(f, n - 1) \in Nat /\ f[n] \in Nat /\ f[n] >= 6
      BY <1>3, <1>5, <2>2
    <2> QED BY <2>2, <2>3, <2>4
  <1>7. n \in 0..n
    OBVIOUS
  <1> QED BY <1>4, <1>5, <1>6, <1>7

LEMMA SizeJoin ==
  ASSUME NEW a \in Seq(Message), NEW b \in Seq(Message)
  PROVE  SizeOf(a \o b) = SizeOf(a) + SizeOf(b)
  <1>1. PICK c \in Seq(Message) : c = a \o b
    BY JoinIs
  <1>2. PICK n \in Nat : n = Len(a)
    OBVIOUS
  <1>3. PICK m \in Nat : m = Len(b)
    OBVIOUS
  <1>4. Len(c) = n + m /\ (\A i \in 1..n : c[i] = a[i]) /\ (\A i \in 1..m : c[n + i] = b[i])
    BY <1>1, <1>2, <1>3, JoinIs
  <1>5. PICK f : f = [i \in DOMAIN a |-> Characters[a[i].role] + 1]
    OBVIOUS
  <1>6. PICK g : g = [i \in DOMAIN b |-> Characters[b[i].role] + 1]
    OBVIOUS
  <1>7. PICK h : h = [i \in DOMAIN c |-> Characters[c[i].role] + 1]
    OBVIOUS
  <1>8. \A role \in {"system", "user", "assistant", "tool"} : Characters[role] + 1 \in Nat
    BY DEF Characters
  <1>9. \A i \in 1..n : f[i] \in Nat /\ h[i] = f[i]
    <2>1. \A i \in 1..n : i \in DOMAIN a /\ i \in DOMAIN c /\ a[i] \in Message
      BY <1>2, <1>4, ElementsOf
    <2>2. \A i \in 1..n : a[i].role \in {"system", "user", "assistant", "tool"}
      BY <2>1 DEF Message
    <2> QED BY <1>4, <1>5, <1>7, <1>8, <2>1, <2>2
  <1>10. \A i \in 1..m : g[i] \in Nat /\ h[n + i] = g[i]
    <2>1. \A i \in 1..m : i \in DOMAIN b /\ n + i \in DOMAIN c /\ b[i] \in Message
      BY <1>3, <1>4, ElementsOf
    <2>2. \A i \in 1..m : b[i].role \in {"system", "user", "assistant", "tool"}
      BY <2>1 DEF Message
    <2> QED BY <1>4, <1>6, <1>7, <1>8, <2>1, <2>2
  <1>11. SumOf(h, n + m) = SumOf(f, n) + SumOf(g, m)
    <2>1. \A i \in 1..n : f[i] \in Nat /\ h[i] = f[i]
      BY <1>9
    <2>2. \A i \in 1..m : g[i] \in Nat /\ h[n + i] = g[i]
      BY <1>10
    <2>3. OneAfterOther(f, n, g, m, h)
      BY <2>1, <2>2 DEF OneAfterOther
    <2> QED BY <2>3, SumJoins
  <1> QED BY <1>1, <1>2, <1>3, <1>4, <1>5, <1>6, <1>7, <1>11 DEF SizeOf

LEMMA TokensNear ==
  ASSUME NEW m \in Seq(Message), m # << >>
  PROVE  Tokens(m) \in Nat /\ 3 * Tokens(m) - SizeOf(m) \in -1..1
  <1>1. PICK size \in Nat : size = SizeOf(m) /\ size >= 6
    BY SizeIs
  <1>2. Length(m) = 1 + size
    BY <1>1 DEF Length, SizeOf
  <1>3. Tokens(m) = (1 + size) \div 3
    BY <1>1, <1>2 DEF Tokens
  <1>4. (1 + size) \div 3 \in Nat /\ 3 * ((1 + size) \div 3) - size \in -1..1
    BY <1>1
  <1> QED BY <1>1, <1>3, <1>4

\* A sequence is its beginning and the rest.
LEMMA TwoParts ==
  ASSUME NEW S, NEW m \in Seq(S), NEW k \in 0..Len(m)
  PROVE  /\ SubSeq(m, 1, k) \in Seq(S) /\ Len(SubSeq(m, 1, k)) = k
         /\ SubSeq(m, k + 1, Len(m)) \in Seq(S) /\ Len(SubSeq(m, k + 1, Len(m))) = Len(m) - k
         /\ m = SubSeq(m, 1, k) \o SubSeq(m, k + 1, Len(m))
  <1>1. PICK n \in Nat : n = Len(m)
    OBVIOUS
  <1>2. k \in Nat /\ k <= n
    BY <1>1
  <1>3. SubSeq(m, 1, k) \in Seq(S) /\ Len(SubSeq(m, 1, k)) = k /\ \A i \in 1..k : SubSeq(m, 1, k)[i] = m[i]
    BY PrefixIs
  <1>4. SubSeq(m, k + 1, n) \in Seq(S) /\ Len(SubSeq(m, k + 1, n)) = n - k
        /\ \A i \in 1..(n - k) : SubSeq(m, k + 1, n)[i] = m[k + i]
    BY <1>1, <1>2
  <1>5. PICK a \in Seq(S) : a = SubSeq(m, 1, k)
    BY <1>3
  <1>6. PICK b \in Seq(S) : b = SubSeq(m, k + 1, n)
    BY <1>4
  <1>7. a \o b \in Seq(S) /\ Len(a \o b) = n
    <2>1. Len(a) = k /\ Len(b) = n - k
      BY <1>3, <1>4, <1>5, <1>6
    <2>2. a \o b \in Seq(S) /\ Len(a \o b) = Len(a) + Len(b)
      BY JoinIs
    <2> QED BY <1>2, <2>1, <2>2
  <1>8. ASSUME NEW i \in 1..n
        PROVE  m[i] = (a \o b)[i]
    <2>1. CASE i <= k
      <3>1. i \in 1..k /\ i \in 1..Len(a)
        BY <1>2, <1>3, <1>5, <2>1
      <3> QED BY <1>3, <1>5, <3>1, JoinIs
    <2>2. CASE ~(i <= k)
      <3>1. PICK j \in 1..(n - k) : j = i - k
        BY <1>2, <2>2
      <3>2. k + j = i /\ j \in 1..Len(b) /\ Len(a) = k
        BY <1>2, <1>3, <1>4, <1>5, <1>6, <3>1
      <3>3. (a \o b)[k + j] = b[j]
        BY <3>2, JoinIs
      <3> QED BY <1>4, <1>6, <3>1, <3>2, <3>3
    <2> QED BY <2>1, <2>2
  <1>9. m = a \o b
    BY <1>1, <1>7, <1>8, SameSeq
  <1> QED BY <1>1, <1>3, <1>4, <1>5, <1>6, <1>9

\* What is left of a segment, all of which was estimated, if some of it is taken.
LEMMA ShortenedWell ==
  ASSUME NEW m \in Seq(Message), NEW k \in 1..(Len(m) - 1)
  PROVE  LET kept == SubSeq(m, 1, k)
             rest == SubSeq(m, k + 1, Len(m))
         IN  /\ Tokens(rest) \in Nat /\ Tokens(m) - Tokens(rest) \in Nat
             /\ 3 * (Tokens(m) - Tokens(rest)) - SizeOf(kept) \in -2..2
  <1>1. Len(m) \in Nat /\ k \in 0..Len(m) /\ k # 0 /\ Len(m) - k # 0 /\ Len(m) # 0
    OBVIOUS
  <1>2. PICK a \in Seq(Message) : a = SubSeq(m, 1, k)
    BY <1>1, TwoParts
  <1>3. PICK b \in Seq(Message) : b = SubSeq(m, k + 1, Len(m))
    BY <1>1, TwoParts
  <1>4. m = a \o b /\ Len(a) = k /\ Len(b) = Len(m) - k
    BY <1>1, <1>2, <1>3, TwoParts
  <1>5. a # << >> /\ b # << >> /\ m # << >>
    BY <1>1, <1>4
  <1>6. PICK sizeA \in Nat : sizeA = SizeOf(a) /\ sizeA >= 6
    BY <1>5, SizeIs
  <1>7. PICK sizeB \in Nat : sizeB = SizeOf(b)
    BY SizeIs
  <1>8. SizeOf(m) = sizeA + sizeB
    BY <1>4, <1>6, <1>7, SizeJoin
  <1>9. PICK all \in Nat : all = Tokens(m)
    BY <1>5, TokensNear
  <1>10. PICK taken \in Nat : taken = Tokens(b)
    BY <1>5, TokensNear
  <1>11. 3 * all - (sizeA + sizeB) \in -1..1 /\ 3 * taken - sizeB \in -1..1
    BY <1>5, <1>7, <1>8, <1>9, <1>10, TokensNear
  <1>12. all - taken \in Nat /\ 3 * (all - taken) - sizeA \in -2..2
    <2>1. 3 * all - (sizeA + sizeB) >= -1 /\ 3 * all - (sizeA + sizeB) <= 1 /\ 3 * taken - sizeB >= -1 /\ 3 * taken - sizeB <= 1
      BY ONLY <1>11, sizeA \in Nat, sizeB \in Nat, all \in Nat, taken \in Nat
    <2>2. sizeA >= 6
      BY <1>6
    <2>3. all - taken >= 0
      BY ONLY <2>1, <2>2, sizeA \in Nat, sizeB \in Nat, all \in Nat, taken \in Nat
    <2>4. 3 * (all - taken) - sizeA >= -2 /\ 3 * (all - taken) - sizeA <= 2
      BY ONLY <2>1, sizeA \in Nat, sizeB \in Nat, all \in Nat, taken \in Nat
    <2> QED BY ONLY <2>3, <2>4, sizeA \in Nat, all \in Nat, taken \in Nat
  <1> QED BY <1>2, <1>3, <1>6, <1>9, <1>10, <1>12

\* Each of n numbers is the sum of two others.
Splits(f, g, h, n) == \A i \in 1..n : g[i] \in Nat /\ h[i] \in Nat /\ f[i] = g[i] + h[i]

LEMMA SumSplits ==
  ASSUME NEW f, NEW g, NEW h, NEW n \in Nat, Splits(f, g, h, n)
  PROVE  SumOf(g, n) \in Nat /\ SumOf(h, n) \in Nat /\ SumOf(f, n) = SumOf(g, n) + SumOf(h, n)
  <1> USE DEF Splits
  <1> DEFINE good == {k \in Nat : k <= n => SumOf(f, k) = SumOf(g, k) + SumOf(h, k)}
  <1>1. \A k \in 0..n : SumOf(g, k) \in Nat
    <2>1. \A i \in 1..n : g[i] \in Nat
      OBVIOUS
    <2> QED BY <2>1, SumIsNumber
  <1>2. \A k \in 0..n : SumOf(h, k) \in Nat
    <2>1. \A i \in 1..n : h[i] \in Nat
      OBVIOUS
    <2> QED BY <2>1, SumIsNumber
  <1>3. 0 \in good
    <2>1. SumOf(f, 0) = 0 /\ SumOf(g, 0) = 0 /\ SumOf(h, 0) = 0
      BY SumOneMore
    <2> QED BY <2>1
  <1>4. ASSUME NEW k \in good
        PROVE  k + 1 \in good
    <2>1. SUFFICES ASSUME k + 1 <= n PROVE SumOf(f, k + 1) = SumOf(g, k + 1) + SumOf(h, k + 1)
      OBVIOUS
    <2>2. k \in Nat /\ k \in 0..n /\ k + 1 \in 1..n
      BY <2>1
    <2>3. SumOf(f, k + 1) = SumOf(f, k) + f[k + 1]
      BY <2>2, SumOneMore
    <2>4. SumOf(g, k + 1) = SumOf(g, k) + g[k + 1]
      BY <2>2, SumOneMore
    <2>5. SumOf(h, k + 1) = SumOf(h, k) + h[k + 1]
      BY <2>2, SumOneMore
    <2>6. SumOf(f, k) = SumOf(g, k) + SumOf(h, k)
      BY <2>1
    <2>7. SumOf(g, k) \in Nat /\ SumOf(h, k) \in Nat /\ g[k + 1] \in Nat /\ h[k + 1] \in Nat
          /\ f[k + 1] = g[k + 1] + h[k + 1]
      BY <1>1, <1>2, <2>2
    <2> QED BY <2>3, <2>4, <2>5, <2>6, <2>7
  <1>5. good \in SUBSET Nat
    OBVIOUS
  <1> HIDE DEF good
  <1>6. \A k \in Nat : k \in good
    BY <1>3, <1>4, <1>5, FromBelow
  <1>7. n \in 0..n /\ n <= n
    OBVIOUS
  <1> QED BY <1>1, <1>2, <1>6, <1>7 DEF good

LEMMA SumRests ==
  ASSUME NEW f, NEW r \in Nat, NEW n \in Nat, r <= n, \A i \in 1..r : f[i] \in Nat, \A i \in (r + 1)..n : f[i] = 0
  PROVE  SumOf(f, n) = SumOf(f, r)
  <1> DEFINE good == {k \in Nat : r + k <= n => SumOf(f, r + k) = SumOf(f, r)}
  <1>1. SumOf(f, r) \in Nat
    <2>1. r \in 0..r
      OBVIOUS
    <2> QED BY <2>1, SumIsNumber
  <1>2. 0 \in good
    OBVIOUS
  <1>3. ASSUME NEW k \in good
        PROVE  k + 1 \in good
    <2>1. SUFFICES ASSUME r + (k + 1) <= n PROVE SumOf(f, r + (k + 1)) = SumOf(f, r)
      OBVIOUS
    <2>2. k \in Nat /\ r + k \in Nat /\ r + (k + 1) = (r + k) + 1 /\ (r + k) + 1 \in (r + 1)..n
      BY <2>1
    <2>3. SumOf(f, (r + k) + 1) = SumOf(f, r + k) + f[(r + k) + 1]
      BY <2>2, SumOneMore
    <2>4. f[(r + k) + 1] = 0
      BY <2>2
    <2>5. SumOf(f, r + k) = SumOf(f, r)
      BY <2>1
    <2> QED BY <1>1, <2>2, <2>3, <2>4, <2>5
  <1>4. good \in SUBSET Nat
    OBVIOUS
  <1> HIDE DEF good
  <1>5. \A k \in Nat : k \in good
    BY <1>2, <1>3, <1>4, FromBelow
  <1>6. PICK d \in Nat : r + d = n
    <2>1. n - r \in Nat /\ r + (n - r) = n
      OBVIOUS
    <2> QED BY <2>1
  <1>7. r + d <= n => SumOf(f, r + d) = SumOf(f, r)
    BY <1>5 DEF good
  <1>8. r + d <= n
    BY <1>6
  <1> QED BY <1>6, <1>7, <1>8, Zenon

-----------------------------------------------------------------------------
PartsOf(t) == [i \in DOMAIN t.segments |-> t.segments[i].messages]

LEMMA SegmentsAre ==
  ASSUME NEW t, t.segments \in Seq(Segment)
  PROVE  /\ Len(t.segments) \in Nat /\ DOMAIN t.segments = 1..Len(t.segments)
         /\ \A i \in 1..Len(t.segments) : /\ t.segments[i] \in Segment
                                          /\ t.segments[i].messages \in Seq(Message)
                                          /\ t.segments[i].tokens \in Nat
                                          /\ PartsOf(t)[i] = t.segments[i].messages
  <1>1. Len(t.segments) \in Nat /\ DOMAIN t.segments = 1..Len(t.segments)
        /\ \A i \in 1..Len(t.segments) : t.segments[i] \in Segment
    BY ElementsOf
  <1>2. \A segment \in Segment : segment.messages \in Seq(Message) /\ segment.tokens \in Nat
    BY DEF Segment
  <1>3. \A i \in 1..Len(t.segments) : PartsOf(t)[i] = t.segments[i].messages
    BY <1>1 DEF PartsOf
  <1> QED BY <1>1, <1>2, <1>3

\* Every segment ends a beginning of what is in sight.
LEMMA SightIs ==
  ASSUME NEW t, t.segments \in Seq(Segment)
  PROVE  /\ InSight(t) = Joined(PartsOf(t), Len(t.segments))
         /\ InSight(t) \in Seq(Message) /\ Len(InSight(t)) = SegmentEnd(t, Len(t.segments))
         /\ \A k \in 0..Len(t.segments) : /\ Joined(PartsOf(t), k) \in Seq(Message)
                                          /\ SegmentEnd(t, k) \in Nat /\ Len(Joined(PartsOf(t), k)) = SegmentEnd(t, k)
                                          /\ Joined(PartsOf(t), k) = SubSeq(InSight(t), 1, SegmentEnd(t, k))
  <1>1. PICK n \in Nat : n = Len(t.segments)
    BY SegmentsAre
  <1>2. PICK parts : parts = PartsOf(t)
    OBVIOUS
  <1>3. PICK lengths : lengths = [j \in DOMAIN t.segments |-> Len(t.segments[j].messages)]
    OBVIOUS
  <1>4. \A i \in 1..n : parts[i] \in Seq(Message)
    BY <1>1, <1>2, SegmentsAre
  <1>5. Measured(Message, parts, lengths, n)
    BY <1>1, <1>2, <1>3, SegmentsAre DEF Measured
  <1>6. \A k \in 0..n : Joined(parts, k) \in Seq(Message) /\ Len(Joined(parts, k)) = SumOf(lengths, k)
    BY <1>5, JoinedIs
  <1>7. \A k \in 0..n : SubSeq(Joined(parts, n), 1, Len(Joined(parts, k))) = Joined(parts, k)
    BY <1>4, JoinedBegins
  <1>8. \A k : SegmentEnd(t, k) = SumOf(lengths, k)
    BY <1>3 DEF SegmentEnd
  <1>9. InSight(t) = Joined(parts, n)
    BY <1>1, <1>2 DEF InSight, PartsOf
  <1>10. \A k \in 0..n : SegmentEnd(t, k) \in Nat
    <2>1. \A k \in 0..n : Len(Joined(parts, k)) \in Nat
      BY <1>6, ElementsOf
    <2> QED BY <1>6, <1>8, <2>1
  <1>11. n \in 0..n
    OBVIOUS
  <1> QED BY <1>1, <1>2, <1>6, <1>7, <1>8, <1>9, <1>10, <1>11

LEMMA AppendedIs ==
  ASSUME NEW S, NEW s \in Seq(S), NEW e \in S
  PROVE  /\ Append(s, e) \in Seq(S) /\ Len(Append(s, e)) = Len(s) + 1
         /\ \A i \in 1..Len(s) : Append(s, e)[i] = s[i]
         /\ Append(s, e)[Len(s) + 1] = e
  OBVIOUS

\* Messages that are appended are a segment of their own.
LEMMA AddedIs ==
  ASSUME NEW clipped \in BOOLEAN, NEW t, TrackerInv(t, clipped), NEW m \in Seq(Message), m # << >>
  PROVE  /\ TrackerInv(Added(t, m), clipped) /\ InSight(Added(t, m)) = InSight(t) \o m
         /\ Added(t, m).anchor = t.anchor
         /\ Len(Added(t, m).segments) = Len(t.segments) + 1
         /\ Added(t, m).segments[Len(t.segments) + 1].messages = m
         /\ SegmentEnd(Added(t, m), Len(t.segments)) = Len(InSight(t))
  <1>1. t.segments \in Seq(Segment) /\ t.tokens \in Nat /\ t.anchor \in Nat /\ t = [segments |-> t.segments, tokens |-> t.tokens, anchor |-> t.anchor]
    BY DEF TrackerInv, Trackers
  <1>2. PICK size \in Nat : size = Tokens(m)
    BY TokensNear
  <1>3. PICK segment \in Segment : segment = [messages |-> m, tokens |-> size]
    BY DEF Segment
  <1>4. PICK old \in Seq(Segment) : old = t.segments
    BY <1>1
  <1>5. PICK new \in Seq(Segment) : new = Append(old, segment)
    BY AppendedIs
  <1>6. PICK n \in Nat : n = Len(old)
    OBVIOUS
  <1>7. Len(new) = n + 1 /\ (\A i \in 1..n : new[i] = old[i]) /\ new[n + 1] = segment
    BY <1>5, <1>6, AppendedIs
  <1>8. PICK u : u = Added(t, m)
    OBVIOUS
  <1>9. u = [segments |-> new, tokens |-> t.tokens + size, anchor |-> t.anchor]
    BY <1>1, <1>2, <1>3, <1>4, <1>5, <1>8 DEF Added
  <1>10. u \in Trackers /\ u.segments = new /\ u.tokens = t.tokens + size /\ u.anchor = t.anchor
    BY <1>1, <1>9 DEF Trackers
  <1>11. \A i \in 1..(n + 1) : Estimated(new[i], clipped)
    <2>1. \A i \in 1..n : Estimated(old[i], clipped)
      BY <1>4, <1>6 DEF TrackerInv
    <2>2. Estimated(segment, clipped)
      BY <1>2, <1>3 DEF Estimated
    <2>3. \A i \in 1..(n + 1) : i \in 1..n \/ i = n + 1
      OBVIOUS
    <2> QED BY <1>7, <2>1, <2>2, <2>3
  <1>12. u.tokens = SumOf([i \in DOMAIN new |-> new[i].tokens], n + 1)
    <2>1. PICK f : f = [i \in DOMAIN old |-> old[i].tokens]
      OBVIOUS
    <2>2. PICK g : g = [i \in DOMAIN new |-> new[i].tokens]
      OBVIOUS
    <2>3. \A i \in 1..n : f[i] = g[i]
      BY <1>6, <1>7, <2>1, <2>2, ElementsOf
    <2>4. g[n + 1] = size
      BY <1>3, <1>7, <2>2, ElementsOf
    <2>5. SumOf(g, n + 1) = SumOf(g, n) + g[n + 1]
      BY SumOneMore
    <2>6. SumOf(f, n) = SumOf(g, n)
      BY <2>3, SumAgree
    <2>7. t.tokens = SumOf(f, n)
      BY <1>4, <1>6, <2>1 DEF TrackerInv
    <2> QED BY <1>10, <2>2, <2>4, <2>5, <2>6, <2>7
  <1>13. TrackerInv(u, clipped)
    BY <1>7, <1>10, <1>11, <1>12 DEF TrackerInv
  <1>14. \A i \in 1..n : PartsOf(u)[i] = PartsOf(t)[i]
    BY <1>1, <1>4, <1>6, <1>7, <1>10, ElementsOf DEF PartsOf
  <1>15. PartsOf(u)[n + 1] = m
    BY <1>3, <1>7, <1>10, ElementsOf DEF PartsOf
  <1>16. Joined(PartsOf(u), n) = Joined(PartsOf(t), n)
    BY <1>14, JoinAgree
  <1>17. Joined(PartsOf(u), n + 1) = Joined(PartsOf(u), n) \o PartsOf(u)[n + 1]
    BY JoinOneMore
  <1>18. InSight(t) = Joined(PartsOf(t), n) /\ InSight(u) = Joined(PartsOf(u), n + 1)
    BY <1>1, <1>4, <1>6, <1>7, <1>10, SightIs
  <1>19. InSight(u) = InSight(t) \o m
    BY <1>15, <1>16, <1>17, <1>18
  <1>20. SegmentEnd(u, n) = Len(InSight(t))
    <2>1. n \in 0..Len(new)
      BY <1>7
    <2>2. Len(Joined(PartsOf(u), n)) = SegmentEnd(u, n)
      BY <1>10, <2>1, SightIs
    <2> QED BY <1>16, <1>18, <2>2
  <1> QED BY <1>3, <1>4, <1>6, <1>7, <1>8, <1>10, <1>13, <1>19, <1>20

LEMMA EmptyIs ==
  ASSUME NEW clipped \in BOOLEAN
  PROVE  TrackerInv(EmptyTracker, clipped) /\ InSight(EmptyTracker) = << >> /\ EmptyTracker.anchor = 0
  <1>1. PICK t : t = EmptyTracker
    OBVIOUS
  <1>2. t.segments = << >> /\ t.tokens = 0 /\ t.anchor = 0 /\ t \in Trackers
    BY <1>1 DEF EmptyTracker, Trackers
  <1>3. t.segments \in Seq(Segment) /\ Len(t.segments) = 0
    BY <1>2
  <1>4. InSight(t) = Joined(PartsOf(t), 0)
    BY <1>3, SightIs
  <1>5. InSight(t) = << >>
    BY <1>4, JoinOneMore
  <1>6. t.tokens = SumOf([i \in DOMAIN t.segments |-> t.segments[i].tokens], 0)
    BY <1>2, SumOneMore
  <1>7. TrackerInv(t, clipped)
    BY <1>2, <1>3, <1>6 DEF TrackerInv
  <1> QED BY <1>1, <1>2, <1>5, <1>7

LEMMA ReplacedIs ==
  ASSUME NEW clipped \in BOOLEAN, NEW m \in Seq(Message), m # << >>
  PROVE  TrackerInv(Replaced(m), clipped) /\ InSight(Replaced(m)) = m /\ Replaced(m).anchor = 0
  <1>1. TrackerInv(EmptyTracker, clipped) /\ InSight(EmptyTracker) = << >> /\ EmptyTracker.anchor = 0
    BY EmptyIs
  <1>2. PICK t : t = EmptyTracker
    OBVIOUS
  <1>3. TrackerInv(Added(t, m), clipped) /\ InSight(Added(t, m)) = << >> \o m /\ Added(t, m).anchor = 0
    <2>1. TrackerInv(t, clipped) /\ InSight(t) = << >> /\ t.anchor = 0
      BY <1>1, <1>2
    <2>2. TrackerInv(Added(t, m), clipped) /\ InSight(Added(t, m)) = InSight(t) \o m /\ Added(t, m).anchor = t.anchor
      BY <2>1, AddedIs, ZenonT(30)
    <2> QED BY <2>1, <2>2
  <1>4. << >> \o m = m
    OBVIOUS
  <1> QED BY <1>2, <1>3, <1>4 DEF Replaced

\* The estimates of n segments are within 2n thirds of a token.
LEMMA SightNear ==
  ASSUME NEW clipped \in BOOLEAN, NEW t, TrackerInv(t, clipped), InSight(t) # << >>
  PROVE  t.tokens - Tokens(InSight(t)) \in -Len(t.segments)..Len(t.segments)
  <1>1. t.segments \in Seq(Segment) /\ t.tokens \in Nat
    BY DEF TrackerInv, Trackers
  <1>2. PICK n \in Nat : n = Len(t.segments)
    BY <1>1, SegmentsAre
  <1>3. PICK parts : parts = PartsOf(t)
    OBVIOUS
  <1>4. PICK f : f = [i \in DOMAIN t.segments |-> t.segments[i].tokens]
    OBVIOUS
  <1>5. \A i \in 1..n : f[i] \in Nat /\ parts[i] \in Seq(Message) /\ 3 * f[i] - SizeOf(parts[i]) \in -2..2
    <2> TAKE i \in 1..n
    <2>1. PICK m \in Seq(Message) : m = t.segments[i].messages
      BY <1>1, <1>2, SegmentsAre
    <2>2. PICK size \in Nat : size = t.segments[i].tokens
      BY <1>1, <1>2, SegmentsAre
    <2>3. f[i] = size /\ parts[i] = m
      BY <1>1, <1>2, <1>3, <1>4, <2>1, <2>2, SegmentsAre
    <2>4. Estimated(t.segments[i], clipped)
      BY <1>2 DEF TrackerInv
    <2>5. m # << >> /\ (size = Tokens(m) \/ 3 * size - SizeOf(m) \in -2..2)
      BY <2>1, <2>2, <2>4 DEF Estimated
    <2>6. 3 * Tokens(m) - SizeOf(m) \in -1..1
      BY <2>5, TokensNear
    <2>7. 3 * size - SizeOf(m) \in -2..2
      <3>1. PICK whole \in Nat : whole = SizeOf(m)
        BY SizeIs
      <3> QED BY <2>5, <2>6, <3>1
    <2> QED BY <2>3, <2>7
  <1>6. \A k \in 0..n : SumOf(f, k) \in Nat
    BY <1>5, SumIsNumber
  <1>7. \A k \in 0..n : Joined(parts, k) \in Seq(Message)
    BY <1>1, <1>2, <1>3, SightIs
  <1> DEFINE good == {k \in Nat : k <= n => 3 * SumOf(f, k) - SizeOf(Joined(parts, k)) \in -(2 * k)..(2 * k)}
  <1>8. 0 \in good
    <2>1. SumOf(f, 0) = 0 /\ Joined(parts, 0) = << >>
      BY JoinOneMore, SumOneMore
    <2>2. SizeOf(<< >>) = 0
      BY SumOneMore DEF SizeOf
    <2> QED BY <2>1, <2>2
  <1>9. ASSUME NEW k \in good
        PROVE  k + 1 \in good
    <2>1. SUFFICES ASSUME k + 1 <= n
                   PROVE  3 * SumOf(f, k + 1) - SizeOf(Joined(parts, k + 1)) \in -(2 * (k + 1))..(2 * (k + 1))
      OBVIOUS
    <2>2. k \in Nat /\ k \in 0..n /\ k + 1 \in 1..n
      BY <2>1
    <2>3. PICK a \in Seq(Message) : a = Joined(parts, k)
      BY <1>7, <2>2
    <2>4. PICK b \in Seq(Message) : b = parts[k + 1]
      BY <1>5, <2>2
    <2>5. Joined(parts, k + 1) = a \o b
      BY <2>2, <2>3, <2>4, JoinOneMore
    <2>6. SizeOf(a \o b) = SizeOf(a) + SizeOf(b)
      BY SizeJoin
    <2>7. PICK sizeA \in Nat : sizeA = SizeOf(a)
      BY SizeIs
    <2>8. PICK sizeB \in Nat : sizeB = SizeOf(b)
      BY SizeIs
    <2>9. PICK p \in Nat : p = SumOf(f, k)
      BY <1>6, <2>2
    <2>10. PICK q \in Nat : q = f[k + 1]
      BY <1>5, <2>2
    <2>11. SumOf(f, k + 1) = p + q
      BY <2>2, <2>9, <2>10, SumOneMore
    <2>12. 3 * p - sizeA \in -(2 * k)..(2 * k)
      BY <2>1, <2>2, <2>3, <2>7, <2>9
    <2>13. 3 * q - sizeB \in -2..2
      BY <1>5, <2>2, <2>4, <2>8, <2>10
    <2>14. 3 * (p + q) - (sizeA + sizeB) \in -(2 * (k + 1))..(2 * (k + 1))
      BY <2>2, <2>12, <2>13
    <2> QED BY <2>5, <2>6, <2>7, <2>8, <2>11, <2>14
  <1>10. good \in SUBSET Nat
    OBVIOUS
  <1> HIDE DEF good
  <1>11. \A k \in Nat : k \in good
    BY <1>8, <1>9, <1>10, FromBelow
  <1>12. 3 * SumOf(f, n) - SizeOf(Joined(parts, n)) \in -(2 * n)..(2 * n)
    <2>1. n <= n
      OBVIOUS
    <2> QED BY <1>11, <2>1 DEF good
  <1>13. PICK v \in Seq(Message) : v = InSight(t)
    BY <1>1, SightIs
  <1>14. v = Joined(parts, n) /\ v # << >>
    BY <1>1, <1>2, <1>3, <1>13, SightIs
  <1>15. t.tokens = SumOf(f, n)
    BY <1>2, <1>4 DEF TrackerInv
  <1>16. PICK size \in Nat : size = SizeOf(v)
    BY SizeIs
  <1>17. PICK tokens \in Nat : tokens = Tokens(v)
    BY <1>14, TokensNear
  <1>18. 3 * tokens - size \in -1..1
    BY <1>14, <1>16, <1>17, TokensNear
  <1>19. n # 0
    <2>1. n = 0 => v = << >>
      BY <1>14, JoinOneMore
    <2> QED BY <1>14, <2>1
  <1>20. PICK all \in Nat : all = t.tokens
    BY <1>1
  <1>21. 3 * all - size \in -(2 * n)..(2 * n)
    BY <1>12, <1>14, <1>15, <1>16, <1>20
  <1>22. all - tokens \in -n..n
    BY <1>18, <1>19, <1>21
  <1> QED BY <1>2, <1>13, <1>17, <1>20, <1>22

\* The ends of the segments in order, each a step further.
LEMMA EndsGrow ==
  ASSUME NEW clipped \in BOOLEAN, NEW t, TrackerInv(t, clipped)
  PROVE  /\ SegmentEnd(t, 0) = 0
         /\ \A i \in 1..Len(t.segments) : /\ SegmentEnd(t, i - 1) \in Nat /\ SegmentEnd(t, i) \in Nat
                                          /\ Len(t.segments[i].messages) \in Nat \ {0}
                                          /\ SegmentEnd(t, i) = SegmentEnd(t, i - 1) + Len(t.segments[i].messages)
         /\ \A i, j \in 0..Len(t.segments) : i <= j => SegmentEnd(t, i) <= SegmentEnd(t, j)
  <1>1. t.segments \in Seq(Segment)
    BY DEF TrackerInv, Trackers
  <1>2. PICK n \in Nat : n = Len(t.segments)
    BY <1>1, SegmentsAre
  <1>3. PICK lengths : lengths = [j \in DOMAIN t.segments |-> Len(t.segments[j].messages)]
    OBVIOUS
  <1>4. \A k : SegmentEnd(t, k) = SumOf(lengths, k)
    BY <1>3 DEF SegmentEnd
  <1>5. \A i \in 1..n : lengths[i] = Len(t.segments[i].messages) /\ lengths[i] \in Nat \ {0}
    <2> TAKE i \in 1..n
    <2>1. PICK m \in Seq(Message) : m = t.segments[i].messages
      BY <1>1, <1>2, SegmentsAre
    <2>2. m # << >>
      BY <1>2, <2>1 DEF TrackerInv, Estimated
    <2>3. Len(m) \in Nat \ {0}
      BY <2>2
    <2> QED BY <1>1, <1>2, <1>3, <2>1, <2>3, SegmentsAre
  <1>6. \A k \in 0..n : SumOf(lengths, k) \in Nat
    BY <1>5, SumIsNumber
  <1>7. SumOf(lengths, 0) = 0
    BY SumOneMore
  <1>8. ASSUME NEW i \in 1..n
        PROVE  /\ SumOf(lengths, i - 1) \in Nat /\ SumOf(lengths, i) \in Nat
               /\ SumOf(lengths, i) = SumOf(lengths, i - 1) + lengths[i]
    <2>1. PICK k \in Nat : k + 1 = i
      <3>1. i - 1 \in Nat /\ (i - 1) + 1 = i
        OBVIOUS
      <3> QED BY <3>1
    <2>2. k \in 0..n /\ i \in 0..n /\ i - 1 = k
      BY <2>1
    <2>3. SumOf(lengths, k + 1) = SumOf(lengths, k) + lengths[k + 1]
      BY SumOneMore
    <2> QED BY <1>6, <2>1, <2>2, <2>3
  <1>9. ASSUME NEW i \in 0..n, NEW j \in 0..n, i <= j
        PROVE  SumOf(lengths, i) <= SumOf(lengths, j)
    <2>1. Numbers(lengths, n)
      BY <1>5 DEF Numbers
    <2> QED BY <1>9, <2>1, SumGrows
  <1>10. SegmentEnd(t, 0) = 0
    BY <1>4, <1>7
  <1>11. ASSUME NEW i \in 1..n
         PROVE  /\ SegmentEnd(t, i - 1) \in Nat /\ SegmentEnd(t, i) \in Nat
                /\ Len(t.segments[i].messages) \in Nat \ {0}
                /\ SegmentEnd(t, i) = SegmentEnd(t, i - 1) + Len(t.segments[i].messages)
    BY <1>4, <1>5, <1>8
  <1>12. \A i, j \in 0..n : i <= j => SegmentEnd(t, i) <= SegmentEnd(t, j)
    BY <1>4, <1>9
  <1> QED BY <1>2, <1>10, <1>11, <1>12

\* What a rollback leaves of a segment, and what it takes from the estimate.
LEMMA ShortenedIs ==
  ASSUME NEW t, TrackerInv(t, FALSE), NEW left \in Nat, NEW i \in 1..Len(t.segments), SegmentEnd(t, i - 1) < left
  PROVE  /\ Shortened(t, left, i) \in Segment /\ TakenFrom(t, left, i) \in Nat
         /\ t.segments[i].tokens = Shortened(t, left, i).tokens + TakenFrom(t, left, i)
         /\ Estimated(Shortened(t, left, i), TRUE)
         /\ SegmentEnd(t, i) <= left => Shortened(t, left, i) = t.segments[i] /\ TakenFrom(t, left, i) = 0
         /\ left <= SegmentEnd(t, i) =>
              /\ left - SegmentEnd(t, i - 1) \in 0..Len(t.segments[i].messages)
              /\ Shortened(t, left, i).messages = SubSeq(t.segments[i].messages, 1, left - SegmentEnd(t, i - 1))
  <1>1. t.segments \in Seq(Segment)
    BY DEF TrackerInv, Trackers
  <1>2. PICK segment \in Segment : segment = t.segments[i]
    BY <1>1, SegmentsAre
  <1>3. PICK m \in Seq(Message) : m = segment.messages
    BY <1>2 DEF Segment
  <1>4. PICK size \in Nat : size = segment.tokens
    BY <1>2 DEF Segment
  <1>5. m # << >> /\ size = Tokens(m) /\ Estimated(segment, TRUE)
    BY <1>2, <1>3, <1>4 DEF TrackerInv, Estimated
  <1>6. PICK start \in Nat : start = SegmentEnd(t, i - 1)
    BY EndsGrow
  <1>7. PICK end \in Nat : end = SegmentEnd(t, i)
    BY EndsGrow
  <1>8. end = start + Len(m) /\ Len(m) \in Nat /\ start < left
    BY <1>2, <1>3, <1>6, <1>7, EndsGrow
  <1>9. CASE end <= left
    <2>1. Shortened(t, left, i) = segment /\ TakenFrom(t, left, i) = 0
      BY <1>2, <1>7, <1>9 DEF Shortened, TakenFrom
    <2>2. left <= end => left - start \in 0..Len(m) /\ m = SubSeq(m, 1, left - start)
      <3>1. left <= end => left - start = Len(m)
        BY <1>8, <1>9
      <3>2. SubSeq(m, 1, Len(m)) = m
        BY WholePrefix
      <3> QED BY <1>8, <3>1, <3>2
    <2>3. size = size + 0
      OBVIOUS
    <2>4. t.segments[i].tokens = Shortened(t, left, i).tokens + TakenFrom(t, left, i)
      BY <1>2, <1>4, <2>1, <2>3
    <2>5. Shortened(t, left, i) \in Segment /\ TakenFrom(t, left, i) \in Nat /\ Estimated(Shortened(t, left, i), TRUE)
      <3>1. TakenFrom(t, left, i) \in Nat
        BY <2>1
      <3>2. Shortened(t, left, i) \in Segment /\ Estimated(Shortened(t, left, i), TRUE)
        BY <1>5, <2>1, Zenon
      <3> QED BY <3>1, <3>2
    <2>6. left <= SegmentEnd(t, i) =>
            /\ left - SegmentEnd(t, i - 1) \in 0..Len(t.segments[i].messages)
            /\ Shortened(t, left, i).messages = SubSeq(t.segments[i].messages, 1, left - SegmentEnd(t, i - 1))
      BY <1>2, <1>3, <1>6, <1>7, <2>1, <2>2
    <2> QED BY <1>2, <2>1, <2>4, <2>5, <2>6
  <1>10. CASE ~(end <= left)
    <2>1. PICK k \in 1..(Len(m) - 1) : k = left - start
      BY <1>8, <1>10
    <2>2. k \in 0..Len(m)
      BY <2>1
    <2>3. PICK kept \in Seq(Message) : kept = SubSeq(m, 1, k)
      BY <2>2, PrefixIs
    <2>4. PICK taken \in Nat : taken = Tokens(SubSeq(m, k + 1, Len(m))) /\ size - taken \in Nat
                               /\ 3 * (size - taken) - SizeOf(kept) \in -2..2
      BY <1>5, <2>3, ShortenedWell
    <2>5. TakenFrom(t, left, i) = taken
      BY <1>2, <1>3, <1>6, <1>7, <1>8, <1>10, <2>1, <2>4 DEF TakenFrom
    <2>6. Shortened(t, left, i) = [messages |-> kept, tokens |-> AtLeastZero(size - taken)]
      BY <1>2, <1>3, <1>4, <1>6, <1>7, <1>10, <2>1, <2>3, <2>5 DEF Shortened
    <2>7. AtLeastZero(size - taken) = size - taken
      BY <2>4 DEF AtLeastZero
    <2>8. PICK short \in Segment : short = [messages |-> kept, tokens |-> size - taken]
      BY <2>4 DEF Segment
    <2>9. kept # << >>
      <3>1. Len(kept) = k /\ k # 0
        BY <2>1, <2>3, PrefixIs
      <3> QED BY <3>1
    <2>10. Estimated(short, TRUE)
      BY <2>4, <2>8, <2>9 DEF Estimated
    <2>11. size = (size - taken) + taken
      BY <2>4
    <2>12. Shortened(t, left, i) = short
      BY <2>6, <2>7, <2>8
    <2>13. short.messages = kept /\ short.tokens = size - taken
      BY <2>8
    <2>14. t.segments[i].tokens = Shortened(t, left, i).tokens + TakenFrom(t, left, i)
      BY <1>2, <1>4, <2>5, <2>11, <2>12, <2>13
    <2>15. Shortened(t, left, i) \in Segment /\ TakenFrom(t, left, i) \in Nat /\ Estimated(Shortened(t, left, i), TRUE)
      BY <2>5, <2>10, <2>12
    <2>16. left - SegmentEnd(t, i - 1) \in 0..Len(t.segments[i].messages)
      BY <1>2, <1>3, <1>6, <2>2, <2>1
    <2>17. Shortened(t, left, i).messages = SubSeq(t.segments[i].messages, 1, left - SegmentEnd(t, i - 1))
      BY <1>2, <1>3, <1>6, <2>1, <2>3, <2>12, <2>13
    <2>18. ~(SegmentEnd(t, i) <= left)
      BY <1>7, <1>10
    <2> QED BY <2>14, <2>15, <2>16, <2>17, <2>18
  <1> QED BY <1>9, <1>10

\* Some segments, and some of the last of them, are left.
LEMMA RolledBackIs ==
  ASSUME NEW t, TrackerInv(t, FALSE), NEW count, NEW left \in 1..Len(InSight(t)),
         Len(AfterRollback(InSight(t), count)) = left
  PROVE  /\ TrackerInv(RolledBack(t, count), TRUE)
         /\ InSight(RolledBack(t, count)) = SubSeq(InSight(t), 1, left)
         /\ RolledBack(t, count).anchor = IF left < t.anchor THEN 0 ELSE t.anchor
         /\ (\E r \in 1..Len(t.segments) : left = SegmentEnd(t, r)) => TrackerInv(RolledBack(t, count), FALSE)
  <1>1. t.segments \in Seq(Segment) /\ t.tokens \in Nat /\ t.anchor \in Nat
    BY DEF TrackerInv, Trackers
  <1>2. PICK n \in Nat : n = Len(t.segments)
    BY <1>1, SegmentsAre
  <1>3. Len(InSight(t)) = SegmentEnd(t, n) /\ SegmentEnd(t, n) \in Nat /\ left \in Nat /\ left # 0 /\ left <= SegmentEnd(t, n)
    <2>1. Len(InSight(t)) = SegmentEnd(t, n) /\ n \in 0..n
      BY <1>1, <1>2, SightIs
    <2>2. SegmentEnd(t, n) \in Nat
      BY <1>1, <1>2, <2>1, SightIs
    <2> QED BY <2>1, <2>2
  <1>4. \A i \in 0..n : SegmentEnd(t, i) \in Nat
    BY <1>1, <1>2, SightIs
  <1>5. PICK r \in 1..n : SegmentEnd(t, r - 1) < left /\ left <= SegmentEnd(t, r)
    <2> DEFINE reached == {i \in Nat : i <= n /\ left <= SegmentEnd(t, i)}
    <2>1. n \in reached /\ reached \in SUBSET Nat
      BY <1>3
    <2>2. PICK r \in reached : \A m \in reached : r <= m
      <3> HIDE DEF reached
      <3> QED BY <2>1, LeastOf
    <2>3. r \in Nat /\ r <= n /\ left <= SegmentEnd(t, r)
      OBVIOUS
    <2>4. r # 0
      <3>1. SegmentEnd(t, 0) = 0
        BY EndsGrow
      <3>2. r = 0 => left <= 0
        BY <2>3, <3>1
      <3> QED BY <1>3, <3>2
    <2>5. r - 1 \in Nat /\ r - 1 <= n /\ ~(r <= r - 1) /\ r \in 1..n
      BY <2>3, <2>4
    <2>6. r - 1 \notin reached
      <3> HIDE DEF reached
      <3> QED BY <2>2, <2>5
    <2>7. ~(left <= SegmentEnd(t, r - 1))
      BY <2>5, <2>6
    <2>8. SegmentEnd(t, r - 1) \in Nat
      BY <1>4, <2>5
    <2>9. SegmentEnd(t, r - 1) < left
      BY <1>3, <2>7, <2>8
    <2> QED BY <2>3, <2>5, <2>9
  <1>6. \A i \in 1..n : i <= r => SegmentEnd(t, i - 1) < left
    <2> TAKE i \in 1..n
    <2>1. SUFFICES ASSUME i <= r PROVE SegmentEnd(t, i - 1) < left
      OBVIOUS
    <2>2. i - 1 \in 0..n /\ r - 1 \in 0..n /\ i - 1 <= r - 1
      BY <2>1
    <2>3. SegmentEnd(t, i - 1) <= SegmentEnd(t, r - 1) /\ SegmentEnd(t, i - 1) \in Nat /\ SegmentEnd(t, r - 1) \in Nat
      BY <1>2, <1>4, <2>2, EndsGrow
    <2> QED BY <1>3, <1>5, <2>3
  <1>7. \A i \in 1..n : i < r => SegmentEnd(t, i) < left
    <2> TAKE i \in 1..n
    <2>1. SUFFICES ASSUME i < r PROVE SegmentEnd(t, i) < left
      OBVIOUS
    <2>2. i + 1 \in 1..n /\ i + 1 <= r /\ (i + 1) - 1 = i
      BY <2>1
    <2> QED BY <1>6, <2>2
  <1>8. \A i \in 1..n : r < i => left <= SegmentEnd(t, i - 1) /\ left < SegmentEnd(t, i)
    <2> TAKE i \in 1..n
    <2>1. SUFFICES ASSUME r < i PROVE left <= SegmentEnd(t, i - 1) /\ left < SegmentEnd(t, i)
      OBVIOUS
    <2>2. i - 1 \in 0..n /\ r \in 0..n /\ r <= i - 1
      BY <2>1
    <2>3. SegmentEnd(t, r) <= SegmentEnd(t, i - 1) /\ SegmentEnd(t, r) \in Nat
      BY <1>2, <1>4, <2>2, EndsGrow
    <2>4. PICK more \in Nat \ {0} : SegmentEnd(t, i) = SegmentEnd(t, i - 1) + more
      BY <1>2, EndsGrow
    <2>5. SegmentEnd(t, i - 1) \in Nat
      BY <1>4, <2>2
    <2> QED BY <1>3, <1>5, <2>3, <2>4, <2>5
  <1>9. PICK u : u = RolledBack(t, count)
    OBVIOUS
  <1>10. PICK segments : segments = [i \in 1..r |-> Shortened(t, left, i)]
    OBVIOUS
  <1>11. PICK taken : taken = [i \in 1..n |-> TakenFrom(t, left, i)]
    OBVIOUS
  <1>12. u = [segments |-> segments, tokens |-> AtLeastZero(t.tokens - SumOf(taken, n)),
              anchor |-> IF left < t.anchor THEN 0 ELSE t.anchor]
    <2>1. DOMAIN t.segments = 1..n
      BY <1>1, <1>2, SegmentsAre
    <2>2. {j \in 1..n : SegmentEnd(t, j - 1) < left} = 1..r
      <3>1. ASSUME NEW j \in 1..n, SegmentEnd(t, j - 1) < left
            PROVE  j \in 1..r
        <4>1. SegmentEnd(t, j - 1) \in Nat
          <5>1. j - 1 \in 0..n
            OBVIOUS
          <5> QED BY <1>4, <5>1
        <4>2. ~(r < j)
          <5>1. SUFFICES ASSUME r < j PROVE FALSE
            OBVIOUS
          <5>2. left <= SegmentEnd(t, j - 1)
            BY <1>8, <5>1
          <5> QED BY <1>3, <3>1, <4>1, <5>2
        <4> QED BY <4>2
      <3>2. ASSUME NEW j \in 1..r
            PROVE  j \in 1..n /\ SegmentEnd(t, j - 1) < left
        <4>1. j \in 1..n /\ j <= r
          OBVIOUS
        <4> QED BY <1>6, <4>1
      <3> QED BY <3>1, <3>2
    <2>3. u = [segments |-> [i \in {j \in 1..n : SegmentEnd(t, j - 1) < left} |-> Shortened(t, left, i)],
               tokens |-> AtLeastZero(t.tokens - SumOf([i \in 1..n |-> TakenFrom(t, left, i)], n)),
               anchor |-> IF left < t.anchor THEN 0 ELSE t.anchor]
      BY <1>2, <1>9, <2>1 DEF RolledBack
    <2> QED BY <1>10, <1>11, <2>2, <2>3
  <1>13. \A i \in 1..r : /\ i \in 1..n /\ segments[i] = Shortened(t, left, i) /\ segments[i] \in Segment
                         /\ Estimated(segments[i], TRUE)
    <2> TAKE i \in 1..r
    <2>1. i \in 1..n /\ i <= r
      OBVIOUS
    <2>2. segments[i] = Shortened(t, left, i)
      BY <1>10
    <2>3. Shortened(t, left, i) \in Segment /\ Estimated(Shortened(t, left, i), TRUE)
      BY <1>2, <1>3, <1>6, <2>1, ShortenedIs
    <2> QED BY <2>1, <2>2, <2>3, Zenon
  <1>14. segments \in Seq(Segment) /\ Len(segments) = r /\ r \in Nat
    <2>1. segments \in [1..r -> Segment]
      BY <1>10, <1>13
    <2> QED BY <1>10, <2>1
  <1>15. PICK old : old = [i \in 1..n |-> t.segments[i].tokens]
    OBVIOUS
  <1>16. PICK kept : kept = [i \in 1..n |-> IF i <= r THEN segments[i].tokens ELSE 0]
    OBVIOUS
  <1>17. \A i \in 1..n : kept[i] \in Nat /\ taken[i] \in Nat /\ old[i] = kept[i] + taken[i]
    <2> TAKE i \in 1..n
    <2>1. CASE i <= r
      <3>1. i \in 1..r /\ kept[i] = segments[i].tokens /\ taken[i] = TakenFrom(t, left, i) /\ old[i] = t.segments[i].tokens
        BY <1>11, <1>15, <1>16, <2>1
      <3>2. segments[i] = Shortened(t, left, i) /\ segments[i] \in Segment
        BY <1>13, <3>1
      <3>3. segments[i].tokens \in Nat
        BY <3>2 DEF Segment
      <3>4. TakenFrom(t, left, i) \in Nat /\ t.segments[i].tokens = Shortened(t, left, i).tokens + TakenFrom(t, left, i)
        BY <1>2, <1>3, <1>6, <2>1, ShortenedIs
      <3> QED BY <3>1, <3>2, <3>3, <3>4
    <2>2. CASE ~(i <= r)
      <3>1. kept[i] = 0 /\ taken[i] = TakenFrom(t, left, i) /\ old[i] = t.segments[i].tokens
        BY <1>11, <1>15, <1>16, <2>2
      <3>2. r < i
        BY <2>2
      <3>3. left <= SegmentEnd(t, i - 1) /\ left < SegmentEnd(t, i)
        BY <1>8, <3>2
      <3>4. ~(SegmentEnd(t, i) <= left)
        BY <1>3, <1>4, <3>3
      <3>5. TakenFrom(t, left, i) = t.segments[i].tokens
        BY <3>3, <3>4 DEF TakenFrom
      <3>6. t.segments[i].tokens \in Nat
        BY <1>1, <1>2, SegmentsAre
      <3> QED BY <3>1, <3>5, <3>6
    <2> QED BY <2>1, <2>2
  <1>18. SumOf(kept, n) \in Nat /\ SumOf(taken, n) \in Nat /\ SumOf(old, n) = SumOf(kept, n) + SumOf(taken, n)
    <2>1. Splits(old, kept, taken, n)
      BY <1>17 DEF Splits
    <2> QED BY <2>1, SumSplits
  <1>19. t.tokens = SumOf(old, n)
    <2>1. old = [i \in DOMAIN t.segments |-> t.segments[i].tokens]
      BY <1>1, <1>2, <1>15, SegmentsAre
    <2> QED BY <1>2, <2>1 DEF TrackerInv
  <1>20. u.tokens = SumOf(kept, n)
    <2>1. t.tokens - SumOf(taken, n) = SumOf(kept, n)
      BY <1>18, <1>19
    <2> QED BY <1>12, <1>18, <2>1 DEF AtLeastZero
  <1>21. SumOf(kept, n) = SumOf([i \in DOMAIN segments |-> segments[i].tokens], r)
    <2>1. PICK new : new = [i \in DOMAIN segments |-> segments[i].tokens]
      OBVIOUS
    <2>2. \A i \in 1..r : kept[i] \in Nat /\ kept[i] = new[i]
      BY <1>10, <1>13, <1>16, <1>17, <2>1
    <2>3. \A i \in (r + 1)..n : kept[i] = 0
      BY <1>16
    <2>4. SumOf(kept, n) = SumOf(kept, r)
      BY <1>14, <2>2, <2>3, SumRests
    <2>5. SumOf(kept, r) = SumOf(new, r)
      BY <1>14, <2>2, SumAgree
    <2> QED BY <2>1, <2>4, <2>5
  <1>22. u.segments = segments /\ u.tokens \in Nat /\ u.anchor = (IF left < t.anchor THEN 0 ELSE t.anchor) /\ u \in Trackers
    <2>1. u.segments = segments /\ u.anchor = (IF left < t.anchor THEN 0 ELSE t.anchor)
      BY <1>12
    <2>2. u.tokens \in Nat
      BY <1>18, <1>20
    <2>3. u.anchor \in Nat
      BY <1>1, <2>1
    <2> QED BY <1>12, <1>14, <2>1, <2>2, <2>3 DEF Trackers
  <1>23. TrackerInv(u, TRUE)
    BY <1>13, <1>14, <1>20, <1>21, <1>22 DEF TrackerInv
  <1>24. PICK k \in Nat : k + 1 = r
    <2>1. r - 1 \in Nat /\ (r - 1) + 1 = r
      OBVIOUS
    <2> QED BY <2>1
  <1>25. r - 1 = k /\ k \in 0..n /\ r \in 0..n /\ k \in 0..r
    BY <1>24
  <1>26. InSight(u) = SubSeq(InSight(t), 1, left)
    <2>1. InSight(u) = Joined(PartsOf(u), r)
      BY <1>14, <1>22, SightIs
    <2>2. Joined(PartsOf(u), k + 1) = Joined(PartsOf(u), k) \o PartsOf(u)[k + 1]
      BY JoinOneMore
    <2>3. Joined(PartsOf(t), k + 1) = Joined(PartsOf(t), k) \o PartsOf(t)[k + 1]
      BY JoinOneMore
    <2>4. \A i \in 1..k : PartsOf(u)[i] = PartsOf(t)[i]
      <3> TAKE i \in 1..k
      <3>1. i \in 1..n /\ i \in 1..r /\ i < r /\ i <= r
        BY <1>24
      <3>2. SegmentEnd(t, i) <= left
        <4>1. SegmentEnd(t, i) < left /\ i \in 0..n
          BY <1>7, <3>1
        <4> QED BY <1>3, <1>4, <4>1
      <3>3. Shortened(t, left, i) = t.segments[i]
        BY <1>2, <1>3, <1>6, <3>1, <3>2, ShortenedIs
      <3>4. segments[i] = t.segments[i]
        BY <1>13, <3>1, <3>3
      <3>5. PartsOf(u)[i] = segments[i].messages
        BY <1>14, <1>22, <3>1, SegmentsAre
      <3>6. PartsOf(t)[i] = t.segments[i].messages
        BY <1>1, <1>2, <3>1, SegmentsAre
      <3> QED BY <3>4, <3>5, <3>6
    <2>5. Joined(PartsOf(u), k) = Joined(PartsOf(t), k)
      BY <2>4, JoinAgree
    <2>6. PICK a \in Seq(Message) : a = Joined(PartsOf(t), k)
      BY <1>1, <1>2, <1>25, SightIs
    <2>7. PICK b \in Seq(Message) : b = t.segments[r].messages
      BY <1>1, <1>2, SegmentsAre
    <2>8. PICK start \in Nat : start = SegmentEnd(t, k)
      BY <1>4, <1>25
    <2>9. Len(a) = start
      BY <1>1, <1>2, <1>25, <2>6, <2>8, SightIs
    <2>10. PICK some \in 0..Len(b) : some = left - start /\ Shortened(t, left, r).messages = SubSeq(b, 1, some)
      <3>1. left - start \in 0..Len(b) /\ Shortened(t, left, r).messages = SubSeq(b, 1, left - start)
        BY <1>2, <1>3, <1>5, <1>25, <2>7, <2>8, ShortenedIs
      <3> QED BY <3>1
    <2>11. PartsOf(u)[r] = SubSeq(b, 1, some)
      <3>1. r \in 1..r
        OBVIOUS
      <3>2. PartsOf(u)[r] = segments[r].messages
        BY <1>14, <1>22, <3>1, SegmentsAre
      <3>3. segments[r] = Shortened(t, left, r)
        BY <1>13, <3>1
      <3> QED BY <2>10, <3>2, <3>3
    <2>12. PartsOf(t)[r] = b
      BY <1>1, <1>2, <2>7, SegmentsAre
    <2>13. InSight(u) = a \o SubSeq(b, 1, some)
      BY <1>24, <2>1, <2>2, <2>5, <2>6, <2>11
    <2>14. PICK whole \in Seq(Message) : whole = InSight(t)
      BY <1>1, SightIs
    <2>15. PICK end \in Nat : end = SegmentEnd(t, r)
      BY <1>4, <1>25
    <2>16. a \o b = SubSeq(whole, 1, end)
      <3>1. Joined(PartsOf(t), r) = SubSeq(whole, 1, end)
        BY <1>1, <1>2, <1>25, <2>14, <2>15, SightIs
      <3> QED BY <1>24, <2>3, <2>6, <2>12, <3>1
    <2>17. SubSeq(a \o b, 1, Len(a) + some) = a \o SubSeq(b, 1, some)
      BY PrefixWithin
    <2>18. Len(a) + some = left
      BY <1>3, <2>9, <2>10
    <2>19. end \in 0..Len(whole) /\ left \in 0..end
      <3>1. SegmentEnd(t, r) <= SegmentEnd(t, n)
        <4>1. n \in 0..n /\ r <= n
          OBVIOUS
        <4> QED BY <1>2, <1>25, <4>1, EndsGrow
      <3> QED BY <1>3, <1>5, <2>14, <2>15, <3>1
    <2>20. SubSeq(SubSeq(whole, 1, end), 1, left) = SubSeq(whole, 1, left)
      BY <2>19, PrefixOfPrefix
    <2> QED BY <2>13, <2>14, <2>16, <2>17, <2>18, <2>20
  <1>27. ASSUME NEW q \in 1..n, left = SegmentEnd(t, q)
         PROVE  TrackerInv(u, FALSE)
    <2>1. SegmentEnd(t, r) <= left
      <3>1. r <= q
        <4>1. q < r => SegmentEnd(t, q) < left
          BY <1>7
        <4> QED BY <1>3, <1>27, <4>1
      <3>2. q \in 0..n
        OBVIOUS
      <3>3. SegmentEnd(t, r) <= SegmentEnd(t, q)
        BY <1>2, <1>25, <3>1, <3>2, EndsGrow
      <3> QED BY <1>27, <3>3
    <2>2. ASSUME NEW i \in 1..r
          PROVE  Estimated(segments[i], FALSE)
      <3>1. i \in 1..n /\ i <= r
        OBVIOUS
      <3>2. SegmentEnd(t, i) <= left
        <4>1. i \in 0..n
          BY <3>1
        <4>2. SegmentEnd(t, i) <= SegmentEnd(t, r) /\ SegmentEnd(t, i) \in Nat /\ SegmentEnd(t, r) \in Nat
          BY <1>2, <1>4, <1>25, <3>1, <4>1, EndsGrow
        <4> QED BY <1>3, <2>1, <4>2
      <3>3. Shortened(t, left, i) = t.segments[i]
        BY <1>2, <1>3, <1>6, <3>1, <3>2, ShortenedIs
      <3>4. segments[i] = t.segments[i]
        BY <1>13, <3>3
      <3>5. Estimated(t.segments[i], FALSE)
        BY <1>2, <3>1 DEF TrackerInv
      <3> QED BY <3>4, <3>5, Zenon
    <2> QED BY <1>14, <1>20, <1>21, <1>22, <2>2 DEF TrackerInv
  <1> QED BY <1>2, <1>9, <1>22, <1>23, <1>26, <1>27

-----------------------------------------------------------------------------
(***************************************************************************)
(* The inductive invariant, of a log, its tracker, the turns thrown away   *)
(* at each reset, the calls that await a result and the anchored messages. *)
(***************************************************************************)
Markers ==
  [role : {"runtime"}, name : {"rollback"}, count : Nat]
  \cup [role : {"runtime"}, name : {"compaction"}, prefix : Nat, count : Nat, summary : Nat]
  \cup [role : {"runtime"}, name : {"discard_all"}, prefix : Nat]
Entries == Message \cup Markers

PrefixOf(entries) == IF entries[1].role = "system" THEN 2 ELSE 1
Compacted(entries) == \E i \in DOMAIN entries : MarkerIs(entries[i], "compaction")

ReadAs(entries, visible, turns) ==
  /\ Materialized(entries, Len(entries)) = visible
  /\ StatisticsView(entries, Len(entries)) = [visible |-> visible, turns |-> turns]

\* The task's own messages are first and call no tool, no other is of the system.
Opened(visible, prefix) ==
  /\ prefix <= Len(visible)
  /\ \A i \in 1..prefix : visible[i].calls = 0
  /\ \A i \in 1..Len(visible) : visible[i].role = "system" => i = 1

\* At no place more results than calls, and at the end as many fewer as are awaited.
Paired(sample, waiting) ==
  /\ \A n \in 0..Len(sample) : Occurrences(sample, "tool_response", n) <= Occurrences(sample, "tool_call", n)
  /\ Occurrences(sample, "tool_response", Len(sample)) + waiting <= Occurrences(sample, "tool_call", Len(sample))

ReadWell(entries, t, clipped, turns, waiting, first) ==
  /\ entries \in Seq(Entries) /\ entries # << >>
  /\ TrackerInv(t, clipped)
  /\ ReadAs(entries, InSight(t), turns)
  /\ Opened(InSight(t), PrefixOf(entries))
  /\ t.anchor <= Len(InSight(t)) /\ (t.anchor > 0 => SubSeq(InSight(t), 1, t.anchor) = first)
  /\ ~Compacted(entries) => Paired(SampleOf(InSight(t)), waiting)

ReadersInv ==
  /\ keepToolResult \in KeepChoices /\ awaited \in {-1, 0, 1, 2} /\ forced \in BOOLEAN
  /\ ReadWell(log, tracker, forced, resets, IF awaited > 0 THEN awaited ELSE 0, anchored)
  /\ requests \subseteq PrefixViews(log)
  /\ awaited > 0 => ~forced /\ PrefixOf(log) < Len(InSight(tracker))

LEMMA PrefixGrows ==
  ASSUME NEW S, NEW a \in Seq(S), NEW k \in Nat, k + 1 <= Len(a)
  PROVE  SubSeq(a, 1, k + 1) = Append(SubSeq(a, 1, k), a[k + 1])
  <1>1. k \in 0..Len(a) /\ k + 1 \in 0..Len(a) /\ k + 1 \in 1..Len(a)
    OBVIOUS
  <1>2. a[k + 1] \in S
    BY <1>1, ElementsOf
  <1>3. PICK b \in Seq(S) : b = SubSeq(a, 1, k)
    BY <1>1, PrefixIs
  <1>4. PICK c \in Seq(S) : c = SubSeq(a, 1, k + 1)
    BY <1>1, PrefixIs
  <1>5. PICK d \in Seq(S) : d = Append(b, a[k + 1])
    BY <1>2, AppendedIs
  <1>6. Len(b) = k /\ (\A i \in 1..k : b[i] = a[i]) /\ Len(c) = k + 1 /\ (\A i \in 1..(k + 1) : c[i] = a[i])
    BY <1>1, <1>3, <1>4, PrefixIs
  <1>7. Len(d) = k + 1 /\ (\A i \in 1..k : d[i] = b[i]) /\ d[k + 1] = a[k + 1]
    BY <1>2, <1>5, <1>6, AppendedIs
  <1>8. \A i \in 1..(k + 1) : i \in 1..k \/ i = k + 1
    OBVIOUS
  <1>9. \A i \in 1..(k + 1) : c[i] = d[i]
    BY <1>6, <1>7, <1>8
  <1>10. c = d
    BY <1>6, <1>7, <1>9, SameSeq
  <1> QED BY <1>3, <1>4, <1>5, <1>10

LEMMA EmptyPrefix ==
  ASSUME NEW S, NEW a \in Seq(S)
  PROVE  SubSeq(a, 1, 0) = << >>
  <1>1. 0 \in 0..Len(a)
    OBVIOUS
  <1>2. PICK b \in Seq(S) : b = SubSeq(a, 1, 0)
    BY <1>1, PrefixIs
  <1>3. Len(b) = 0
    BY <1>1, <1>2, PrefixIs
  <1>4. b = << >>
    BY <1>3
  <1> QED BY <1>2, <1>4

LEMMA MessageIs ==
  ASSUME NEW m \in Message
  PROVE  m.role # "runtime" /\ m.role \in {"system", "user", "assistant", "tool"} /\ m.calls \in Nat
         /\ \A name : ~MarkerIs(m, name)
  BY DEF Message, MarkerIs

\* The messages of ms are the ones after the first n entries, up to the one at "end".
FollowedBy(entries, n, ms, end) ==
  /\ n \in Nat /\ end = n + Len(ms)
  /\ \A i \in 1..Len(ms) : entries[n + i] = ms[i]

\* Messages are collected until a marker comes.
Collected(t, entries, n, u, ms) == AfterEntries(t, entries, n) = [tracker |-> u, batch |-> ms]

LEMMA Batched ==
  ASSUME NEW t, NEW u, NEW entries, NEW n, NEW ms \in Seq(Message), NEW end, FollowedBy(entries, n, ms, end),
         Collected(t, entries, n, u, << >>)
  PROVE  Collected(t, entries, end, u, ms)
  <1> USE DEF Collected
  <1>1. PICK m \in Nat : m = Len(ms)
    OBVIOUS
  <1>2. n \in Nat /\ end = n + m
    BY <1>1 DEF FollowedBy
  <1> DEFINE good == {k \in Nat : k <= m => AfterEntries(t, entries, n + k) = [tracker |-> u, batch |-> SubSeq(ms, 1, k)]}
  <1>3. 0 \in good
    <2>1. n + 0 = n /\ SubSeq(ms, 1, 0) = << >>
      BY <1>2, EmptyPrefix
    <2> QED BY <2>1
  <1>4. ASSUME NEW k \in good
        PROVE  k + 1 \in good
    <2>1. SUFFICES ASSUME k + 1 <= m
                   PROVE  AfterEntries(t, entries, n + (k + 1)) = [tracker |-> u, batch |-> SubSeq(ms, 1, k + 1)]
      OBVIOUS
    <2>2. k \in Nat
      OBVIOUS
    <2>3. k \in Nat /\ n + k \in Nat /\ n + (k + 1) = (n + k) + 1 /\ k + 1 \in 1..Len(ms)
      <3> HIDE DEF good
      <3> QED BY <1>1, <1>2, <2>1, <2>2
    <2>4. PICK message \in Message : message = ms[k + 1]
      BY <2>3, ElementsOf
    <2>5. entries[n + (k + 1)] = message
      BY <2>3, <2>4 DEF FollowedBy
    <2>6. PICK some : some = SubSeq(ms, 1, k)
      OBVIOUS
    <2>7. PICK state : state = [tracker |-> u, batch |-> some]
      OBVIOUS
    <2>8. AfterEntries(t, entries, n + k) = state
      BY <2>1, <2>3, <2>6, <2>7
    <2>9. AfterEntries(t, entries, (n + k) + 1) = WithEntry(state, entries[(n + k) + 1])
      BY <2>3, <2>8, BatchOneMore
    <2>10. WithEntry(state, message) = [tracker |-> u, batch |-> Append(some, message)]
      BY <2>7, MessageIs DEF WithEntry
    <2>11. SubSeq(ms, 1, k + 1) = Append(some, message)
      BY <1>1, <2>1, <2>3, <2>4, <2>6, PrefixGrows
    <2> QED BY <2>3, <2>5, <2>9, <2>10, <2>11
  <1>5. good \in SUBSET Nat
    OBVIOUS
  <1> HIDE DEF good
  <1>6. \A k \in Nat : k \in good
    BY <1>3, <1>4, <1>5, FromBelow
  <1>7. m <= m
    OBVIOUS
  <1>8. AfterEntries(t, entries, n + m) = [tracker |-> u, batch |-> SubSeq(ms, 1, m)]
    BY <1>6, <1>7 DEF good
  <1> QED BY <1>1, <1>2, <1>8, WholePrefix

LEMMA AppliedMessages ==
  ASSUME NEW t, NEW ms \in Seq(Message), ms # << >>
  PROVE  AppliedTo(t, ms) = Added(t, ms)
  <1>1. PICK n \in Nat : n = Len(ms)
    OBVIOUS
  <1>2. FollowedBy(ms, 0, ms, n)
    BY <1>1 DEF FollowedBy
  <1>3. Collected(t, ms, 0, t, << >>)
    BY BatchOneMore DEF Collected
  <1>4. Collected(t, ms, n, t, ms)
    BY <1>2, <1>3, Batched
  <1>5. AfterEntries(t, ms, n) = [tracker |-> t, batch |-> ms]
    BY <1>4 DEF Collected
  <1>6. PICK end : end = [tracker |-> t, batch |-> ms]
    OBVIOUS
  <1>7. AfterEntries(t, ms, Len(ms)) = end /\ end.batch = ms /\ end.tracker = t
    BY <1>1, <1>5, <1>6
  <1> QED BY <1>7 DEF AppliedTo

AddedIfAny(t, ms) == IF ms = << >> THEN t ELSE Added(t, ms)

\* Messages, a marker, messages.
LEMMA AppliedMarked ==
  ASSUME NEW t, NEW ms \in Seq(Message), NEW marker \in Markers, NEW rest \in Seq(Message)
  PROVE  AppliedTo(t, (ms \o <<marker>>) \o rest) = AddedIfAny(Tracked(AddedIfAny(t, ms), marker), rest)
  <1>1. PICK n \in Nat : n = Len(ms)
    OBVIOUS
  <1>2. ms \in Seq(Entries) /\ rest \in Seq(Entries) /\ <<marker>> \in Seq(Entries) /\ Len(<<marker>>) = 1
    BY DEF Entries
  <1>3. PICK start \in Seq(Entries) : start = ms \o <<marker>>
    BY <1>2, JoinIs
  <1>4. PICK entries \in Seq(Entries) : entries = start \o rest
    BY <1>2, JoinIs
  <1>5. Len(start) = n + 1 /\ (\A i \in 1..n : start[i] = ms[i]) /\ start[n + 1] = marker
    <2>1. Len(start) = n + Len(<<marker>>) /\ (\A i \in 1..n : start[i] = ms[i])
          /\ \A i \in 1..Len(<<marker>>) : start[n + i] = <<marker>>[i]
      BY <1>1, <1>2, <1>3, JoinIs
    <2> QED BY <1>2, <2>1
  <1>6. Len(entries) = (n + 1) + Len(rest) /\ (\A i \in 1..(n + 1) : entries[i] = start[i])
        /\ \A i \in 1..Len(rest) : entries[(n + 1) + i] = rest[i]
    <2>1. Len(entries) = Len(start) + Len(rest) /\ (\A i \in 1..Len(start) : entries[i] = start[i])
          /\ \A i \in 1..Len(rest) : entries[Len(start) + i] = rest[i]
      BY <1>2, <1>4, JoinIs
    <2> QED BY <1>5, <2>1
  <1>7. FollowedBy(entries, 0, ms, n)
    <2>1. \A i \in 1..n : 0 + i = i /\ entries[i] = ms[i]
      BY <1>5, <1>6
    <2> QED BY <1>1, <2>1 DEF FollowedBy
  <1>8. AfterEntries(t, entries, n) = [tracker |-> t, batch |-> ms]
    <2>1. Collected(t, entries, 0, t, << >>)
      BY BatchOneMore DEF Collected
    <2>2. Collected(t, entries, n, t, ms)
      BY <1>7, <2>1, Batched
    <2> QED BY <2>2 DEF Collected
  <1>9. entries[n + 1] = marker
    <2>1. n + 1 \in 1..(n + 1)
      OBVIOUS
    <2> QED BY <1>5, <1>6, <2>1
  <1>10. PICK u : u = Tracked(AddedIfAny(t, ms), marker)
    OBVIOUS
  <1>11. Collected(t, entries, n + 1, u, << >>)
    <2>1. marker.role = "runtime"
      BY DEF Markers
    <2>2. PICK state : state = [tracker |-> t, batch |-> ms]
      OBVIOUS
    <2>3. AfterEntries(t, entries, n + 1) = WithEntry(state, marker)
      BY <1>8, <1>9, <2>2, BatchOneMore
    <2>4. WithEntry(state, marker) =
            [tracker |-> Tracked(IF ms = << >> THEN t ELSE Added(t, ms), marker), batch |-> << >>]
      BY <2>1, <2>2 DEF WithEntry
    <2> QED BY <1>10, <2>3, <2>4 DEF AddedIfAny, Collected
  <1>12. FollowedBy(entries, n + 1, rest, Len(entries))
    BY <1>6 DEF FollowedBy
  <1>13. Collected(t, entries, Len(entries), u, rest)
    BY <1>11, <1>12, Batched
  <1>14. AfterEntries(t, entries, Len(entries)) = [tracker |-> u, batch |-> rest]
    BY <1>13 DEF Collected
  <1>15. PICK end : end = [tracker |-> u, batch |-> rest]
    OBVIOUS
  <1>16. AfterEntries(t, entries, Len(entries)) = end /\ end.batch = rest /\ end.tracker = u
    BY <1>14, <1>15
  <1> QED BY <1>3, <1>4, <1>10, <1>16 DEF AppliedTo, AddedIfAny

LEMMA SeenMessage ==
  ASSUME NEW m \in Message, NEW visible, NEW turns
  PROVE  /\ SeenAfter(visible, m) = Append(visible, m)
         /\ TurnsAfter([visible |-> visible, turns |-> turns], m) = [visible |-> Append(visible, m), turns |-> turns]
  <1>1. \A name : ~MarkerIs(m, name)
    BY MessageIs
  <1> QED BY <1>1 DEF SeenAfter, TurnsAfter

LEMMA SeenRollback ==
  ASSUME NEW count \in Nat, NEW visible, NEW turns
  PROVE  /\ RollbackEntry(count) \in Markers
         /\ SeenAfter(visible, RollbackEntry(count)) = AfterRollback(visible, count)
         /\ TurnsAfter([visible |-> visible, turns |-> turns], RollbackEntry(count)) =
              [visible |-> SubSeq(visible, 1, IF Len(visible) - count > 0 THEN Len(visible) - count ELSE 0), turns |-> turns]
         /\ \A t : Tracked(t, RollbackEntry(count)) = RolledBack(t, count)
  <1>1. PICK e : e = RollbackEntry(count)
    OBVIOUS
  <1>2. e \in Markers /\ e.count = count /\ MarkerIs(e, "rollback")
        /\ ~MarkerIs(e, "compaction") /\ ~MarkerIs(e, "discard_all")
    BY <1>1 DEF RollbackEntry, MarkerIs, Markers
  <1>3. SeenAfter(visible, e) = AfterRollback(visible, count)
    BY <1>2 DEF SeenAfter
  <1>4. TurnsAfter([visible |-> visible, turns |-> turns], e) =
              [visible |-> SubSeq(visible, 1, IF Len(visible) - count > 0 THEN Len(visible) - count ELSE 0), turns |-> turns]
    BY <1>2 DEF TurnsAfter
  <1>5. \A t : Tracked(t, e) = RolledBack(t, count)
    BY <1>2 DEF Tracked
  <1> QED BY <1>1, <1>2, <1>3, <1>4, <1>5

LEMMA SeenCompaction ==
  ASSUME NEW prefix \in Nat, NEW count \in Nat, NEW summary \in Nat, NEW e, e = CompactionEntry(prefix, count, summary),
         NEW visible, NEW turns
  PROVE  /\ e \in Markers /\ e.prefix = prefix /\ e.count = count /\ e.summary = summary /\ MarkerIs(e, "compaction")
         /\ SeenAfter(visible, e) = Spliced(visible, e)
         /\ TurnsAfter([visible |-> visible, turns |-> turns], e) = [visible |-> Spliced(visible, e), turns |-> turns]
         /\ \A t : Tracked(t, e) = Replaced(Spliced(InSight(t), e))
  <1>1. /\ e \in Markers /\ e.prefix = prefix /\ e.count = count /\ e.summary = summary /\ MarkerIs(e, "compaction")
        /\ ~MarkerIs(e, "rollback") /\ ~MarkerIs(e, "discard_all")
    BY DEF CompactionEntry, MarkerIs, Markers
  <1>2. SeenAfter(visible, e) = Spliced(visible, e)
    BY <1>1 DEF SeenAfter
  <1>3. TurnsAfter([visible |-> visible, turns |-> turns], e) = [visible |-> Spliced(visible, e), turns |-> turns]
    BY <1>1 DEF TurnsAfter
  <1>4. \A t : Tracked(t, e) = Replaced(Spliced(InSight(t), e))
    BY <1>1 DEF Tracked
  <1> QED BY <1>1, <1>2, <1>3, <1>4

LEMMA SeenDiscard ==
  ASSUME NEW prefix \in Nat, NEW e, e = DiscardEntry(prefix), NEW visible, NEW turns
  PROVE  /\ e \in Markers /\ e.prefix = prefix
         /\ SeenAfter(visible, e) = Cut(visible, e)
         /\ TurnsAfter([visible |-> visible, turns |-> turns], e) =
              [visible |-> Cut(visible, e), turns |-> Append(turns, Turns(visible))]
         /\ \A t : Tracked(t, e) = Replaced(Cut(InSight(t), e))
  <1>1. /\ e \in Markers /\ e.prefix = prefix /\ MarkerIs(e, "discard_all")
        /\ ~MarkerIs(e, "rollback") /\ ~MarkerIs(e, "compaction")
    BY DEF DiscardEntry, MarkerIs, Markers
  <1>2. SeenAfter(visible, e) = Cut(visible, e)
    BY <1>1 DEF SeenAfter
  <1>3. TurnsAfter([visible |-> visible, turns |-> turns], e) =
          [visible |-> Cut(visible, e), turns |-> Append(turns, Turns(visible))]
    BY <1>1 DEF TurnsAfter
  <1>4. \A t : Tracked(t, e) = Replaced(Cut(InSight(t), e))
    BY <1>1 DEF Tracked
  <1> QED BY <1>1, <1>2, <1>3, <1>4

\* What the first n entries say.
ReadUpTo(entries, n, visible, turns) ==
  /\ n \in Nat
  /\ Materialized(entries, n) = visible
  /\ StatisticsView(entries, n) = [visible |-> visible, turns |-> turns]

LEMMA ReadMore ==
  ASSUME NEW entries, NEW n, NEW ms \in Seq(Message), NEW end, FollowedBy(entries, n, ms, end),
         NEW visible \in Seq(Message), NEW turns, ReadUpTo(entries, n, visible, turns)
  PROVE  ReadUpTo(entries, end, visible \o ms, turns)
  <1> USE DEF ReadUpTo
  <1>1. PICK m \in Nat : m = Len(ms)
    OBVIOUS
  <1>2. n \in Nat /\ end = n + m /\ end \in Nat
    BY <1>1 DEF FollowedBy
  <1> DEFINE good == {k \in Nat : k <= m =>
                        /\ Materialized(entries, n + k) = visible \o SubSeq(ms, 1, k)
                        /\ StatisticsView(entries, n + k) = [visible |-> visible \o SubSeq(ms, 1, k), turns |-> turns]}
  <1>3. 0 \in good
    <2>1. n + 0 = n /\ SubSeq(ms, 1, 0) = << >>
      BY <1>2, EmptyPrefix
    <2>2. visible \o << >> = visible
      OBVIOUS
    <2> QED BY <2>1, <2>2
  <1>4. ASSUME NEW k \in good
        PROVE  k + 1 \in good
    <2>1. SUFFICES ASSUME k + 1 <= m
                   PROVE  /\ Materialized(entries, n + (k + 1)) = visible \o SubSeq(ms, 1, k + 1)
                          /\ StatisticsView(entries, n + (k + 1)) =
                               [visible |-> visible \o SubSeq(ms, 1, k + 1), turns |-> turns]
      OBVIOUS
    <2>2. k \in Nat
      OBVIOUS
    <2>3. k \in Nat /\ n + k \in Nat /\ n + (k + 1) = (n + k) + 1 /\ k + 1 \in 1..Len(ms) /\ k \in 0..Len(ms) /\ k <= m
      <3> HIDE DEF good
      <3> QED BY <1>1, <1>2, <2>1, <2>2
    <2>4. PICK message \in Message : message = ms[k + 1]
      BY <2>3, ElementsOf
    <2>5. entries[(n + k) + 1] = message
      BY <2>3, <2>4 DEF FollowedBy
    <2>6. PICK some \in Seq(Message) : some = SubSeq(ms, 1, k)
      BY <2>3, PrefixIs
    <2>7. PICK before : before = visible \o some
      OBVIOUS
    <2>8. Materialized(entries, n + k) = before /\ StatisticsView(entries, n + k) = [visible |-> before, turns |-> turns]
      BY <2>3, <2>6, <2>7
    <2>9. Materialized(entries, (n + k) + 1) = SeenAfter(before, message)
      BY <2>3, <2>5, <2>8, SightOneMore
    <2>10. StatisticsView(entries, (n + k) + 1) = TurnsAfter([visible |-> before, turns |-> turns], message)
      BY <2>3, <2>5, <2>8, TallyOneMore
    <2>11. SubSeq(ms, 1, k + 1) = Append(some, message)
      BY <1>1, <2>1, <2>3, <2>4, <2>6, PrefixGrows
    <2>12. visible \o Append(some, message) = Append(before, message)
      BY <2>7
    <2>13. SeenAfter(before, message) = Append(before, message)
           /\ TurnsAfter([visible |-> before, turns |-> turns], message) = [visible |-> Append(before, message), turns |-> turns]
      BY SeenMessage
    <2>14. PICK after : after = Append(before, message)
      OBVIOUS
    <2>15. visible \o SubSeq(ms, 1, k + 1) = after
      BY <2>11, <2>12, <2>14
    <2>16. Materialized(entries, n + (k + 1)) = after /\ StatisticsView(entries, n + (k + 1)) = [visible |-> after, turns |-> turns]
      BY <2>3, <2>9, <2>10, <2>13, <2>14
    <2> QED BY <2>15, <2>16
  <1>5. good \in SUBSET Nat
    OBVIOUS
  <1> HIDE DEF good
  <1>6. \A k \in Nat : k \in good
    BY <1>3, <1>4, <1>5, FromBelow
  <1>7. m <= m
    OBVIOUS
  <1>8. /\ Materialized(entries, n + m) = visible \o SubSeq(ms, 1, m)
        /\ StatisticsView(entries, n + m) = [visible |-> visible \o SubSeq(ms, 1, m), turns |-> turns]
    BY <1>6, <1>7 DEF good
  <1> QED BY <1>1, <1>2, <1>8, WholePrefix

LEMMA ReadStill ==
  ASSUME NEW a \in Seq(Entries), NEW b \in Seq(Entries), NEW n \in 0..Len(a), NEW visible, NEW turns,
         ReadUpTo(a, n, visible, turns)
  PROVE  ReadUpTo(a \o b, n, visible, turns)
  <1>1. PICK c : c = a \o b
    OBVIOUS
  <1>2. \A i \in 1..n : a[i] = c[i]
    BY <1>1, JoinIs
  <1>3. n \in Nat
    OBVIOUS
  <1>4. Materialized(a, n) = Materialized(c, n)
    BY <1>2, <1>3, SightAgree
  <1>5. StatisticsView(a, n) = StatisticsView(c, n)
    BY <1>2, <1>3, TallyAgree
  <1> QED BY <1>1, <1>4, <1>5 DEF ReadUpTo

LEMMA ReadMessages ==
  ASSUME NEW entries \in Seq(Entries), NEW visible \in Seq(Message), NEW turns, ReadAs(entries, visible, turns),
         NEW ms \in Seq(Message)
  PROVE  ReadAs(entries \o ms, visible \o ms, turns)
  <1>1. PICK n \in Nat : n = Len(entries)
    OBVIOUS
  <1>2. ms \in Seq(Entries)
    BY DEF Entries
  <1>3. PICK more \in Seq(Entries) : more = entries \o ms
    BY <1>2, JoinIs
  <1>4. n \in 0..Len(entries) /\ ReadUpTo(entries, n, visible, turns)
    BY <1>1 DEF ReadAs, ReadUpTo
  <1>5. ReadUpTo(more, n, visible, turns)
    BY <1>2, <1>3, <1>4, ReadStill
  <1>6. FollowedBy(more, n, ms, Len(more))
    BY <1>1, <1>2, <1>3, JoinIs DEF FollowedBy
  <1>7. ReadUpTo(more, Len(more), visible \o ms, turns)
    BY <1>5, <1>6, ReadMore
  <1> QED BY <1>3, <1>7 DEF ReadAs, ReadUpTo

LEMMA ReadMarker ==
  ASSUME NEW entries \in Seq(Entries), NEW visible, NEW turns, ReadAs(entries, visible, turns), NEW e \in Markers
  PROVE  /\ Materialized(entries \o <<e>>, Len(entries \o <<e>>)) = SeenAfter(visible, e)
         /\ StatisticsView(entries \o <<e>>, Len(entries \o <<e>>)) = TurnsAfter([visible |-> visible, turns |-> turns], e)
  <1>1. PICK n \in Nat : n = Len(entries)
    OBVIOUS
  <1>2. <<e>> \in Seq(Entries) /\ Len(<<e>>) = 1 /\ <<e>>[1] = e
    BY DEF Entries
  <1>3. PICK more \in Seq(Entries) : more = entries \o <<e>>
    BY <1>2, JoinIs
  <1>4. n \in 0..Len(entries) /\ ReadUpTo(entries, n, visible, turns)
    BY <1>1 DEF ReadAs, ReadUpTo
  <1>5. ReadUpTo(more, n, visible, turns)
    BY <1>2, <1>3, <1>4, ReadStill
  <1>6. Len(more) = n + 1 /\ more[n + 1] = e
    <2>1. Len(more) = n + Len(<<e>>) /\ \A i \in 1..Len(<<e>>) : more[n + i] = <<e>>[i]
      BY <1>1, <1>2, <1>3, JoinIs
    <2> QED BY <1>2, <2>1
  <1>7. Materialized(more, n + 1) = SeenAfter(visible, e)
    BY <1>5, <1>6, SightOneMore DEF ReadUpTo
  <1>8. StatisticsView(more, n + 1) = TurnsAfter([visible |-> visible, turns |-> turns], e)
    BY <1>5, <1>6, TallyOneMore DEF ReadUpTo
  <1> QED BY <1>3, <1>6, <1>7, <1>8

-----------------------------------------------------------------------------
(***************************************************************************)
(* The last message that is of the system, or is no result.                *)
(***************************************************************************)
LEMMA LastOfSystem ==
  ASSUME NEW visible \in Seq(Message), \A i \in 1..Len(visible) : visible[i].role = "system" => i = 1
  PROVE  SelectLastInSeq(visible, LAMBDA e : e.role = "system") \in {0, 1}
  <1>1. PICK places : places = {i \in 1..Len(visible) : visible[i].role = "system"}
    OBVIOUS
  <1>2. SelectLastInSeq(visible, LAMBDA e : e.role = "system") = IF places # {} THEN Max(places) ELSE 0
    BY <1>1 DEF SelectLastInSeq
  <1>3. places # {} => places = {1}
    BY <1>1
  <1>4. places # {} => Max(places) = 1
    <2>1. SUFFICES ASSUME places # {} PROVE Max(places) = 1
      OBVIOUS
    <2>2. places = {1}
      BY <1>3, <2>1
    <2>3. \E x \in places : \A y \in places : x >= y
      BY <2>2
    <2>4. Max(places) \in places
      BY <2>3 DEF Max
    <2> QED BY <2>2, <2>4
  <1> QED BY <1>2, <1>4

LEMMA GreatestOf ==
  ASSUME NEW n \in Nat, NEW S \in SUBSET (1..n), S # {}
  PROVE  Max(S) \in S
  <1> DEFINE below == {k \in Nat : n - k \in S}
  <1>1. PICK x \in S : TRUE
    OBVIOUS
  <1>2. n - x \in below
    <2>1. x \in 1..n /\ n - x \in Nat /\ n - (n - x) = x
      BY <1>1
    <2> QED BY <1>1, <2>1
  <1>3. below \in SUBSET Nat /\ below # {}
    BY <1>2
  <1>4. PICK k \in below : \A m \in below : k <= m
    <2> HIDE DEF below
    <2> QED BY <1>3, LeastOf
  <1>5. k \in Nat /\ n - k \in S
    OBVIOUS
  <1>6. ASSUME NEW y \in S
        PROVE  n - k >= y
    <2>1. y \in 1..n /\ n - y \in Nat /\ n - (n - y) = y
      OBVIOUS
    <2>2. n - y \in below
      BY <2>1
    <2>3. k <= n - y
      <3> HIDE DEF below
      <3> QED BY <1>4, <2>2
    <2> QED BY <1>5, <2>1, <2>3
  <1>7. \E z \in S : \A y \in S : z >= y
    BY <1>5, <1>6
  <1> QED BY <1>7 DEF Max

LEMMA LastCaller ==
  ASSUME NEW visible \in Seq(Message)
  PROVE  SelectLastInSeq(visible, LAMBDA e : e.role # "tool") \in 0..Len(visible)
  <1>1. PICK places : places = {i \in 1..Len(visible) : visible[i].role # "tool"}
    OBVIOUS
  <1>2. SelectLastInSeq(visible, LAMBDA e : e.role # "tool") = IF places # {} THEN Max(places) ELSE 0
    BY <1>1 DEF SelectLastInSeq
  <1>3. PICK n \in Nat : n = Len(visible)
    OBVIOUS
  <1>4. places \in SUBSET (1..n)
    BY <1>1, <1>3
  <1>5. places # {} => Max(places) \in places
    BY <1>4, GreatestOf
  <1> QED BY <1>2, <1>3, <1>4, <1>5

\* A rollback that leaves the messages of the system takes what it says.
LEMMA LeftByRollback ==
  ASSUME NEW visible \in Seq(Message), \A i \in 1..Len(visible) : visible[i].role = "system" => i = 1,
         NEW count \in Nat, NEW left \in 1..Len(visible), left = Len(visible) - count
  PROVE  AfterRollback(visible, count) = SubSeq(visible, 1, left)
  <1>1. PICK system \in {0, 1} : system = SelectLastInSeq(visible, LAMBDA e : e.role = "system")
    BY LastOfSystem
  <1>2. AfterRollback(visible, count) = SubSeq(visible, 1, IF left > system THEN left ELSE system)
    BY <1>1 DEF AfterRollback
  <1>3. (IF left > system THEN left ELSE system) = left
    BY <1>1
  <1> QED BY <1>2, <1>3

-----------------------------------------------------------------------------
(***************************************************************************)
(* Samples: calls and results counted.                                     *)
(***************************************************************************)
Kinds == {"tool_call", "tool_response", "system", "user", "assistant"}
Marks(sample, role) == [i \in DOMAIN sample |-> IF sample[i] = role THEN 1 ELSE 0]

LEMMA OccursIs ==
  ASSUME NEW s \in Seq(Kinds), NEW role
  PROVE  /\ \A n : Occurrences(s, role, n) = SumOf(Marks(s, role), n)
         /\ \A n \in 0..Len(s) : Occurrences(s, role, n) \in Nat
         /\ \A i \in 1..Len(s) : Marks(s, role)[i] = (IF s[i] = role THEN 1 ELSE 0)
  <1>1. \A n : Occurrences(s, role, n) = SumOf(Marks(s, role), n)
    BY DEF Occurrences, Marks
  <1>2. PICK size \in Nat : size = Len(s)
    OBVIOUS
  <1>3. PICK f : f = Marks(s, role)
    OBVIOUS
  <1>4. \A i \in 1..size : f[i] = (IF s[i] = role THEN 1 ELSE 0)
    BY <1>2, <1>3, ElementsOf DEF Marks
  <1>5. \A i \in 1..size : f[i] \in Nat
    BY <1>4
  <1>6. \A n \in 0..size : SumOf(f, n) \in Nat
    BY <1>5, SumIsNumber
  <1> QED BY <1>1, <1>2, <1>3, <1>4, <1>6

LEMMA OccursFirst ==
  ASSUME NEW a \in Seq(Kinds), NEW b \in Seq(Kinds), NEW role
  PROVE  \A n \in 0..Len(a) : Occurrences(a \o b, role, n) = Occurrences(a, role, n)
  <1>1. PICK c \in Seq(Kinds) : c = a \o b
    BY JoinIs
  <1>2. PICK p \in Nat : p = Len(a)
    OBVIOUS
  <1>3. PICK q \in Nat : q = Len(b)
    OBVIOUS
  <1>4. Len(c) = p + q /\ (\A i \in 1..p : c[i] = a[i]) /\ (\A i \in 1..q : c[p + i] = b[i])
    BY <1>1, <1>2, <1>3, JoinIs
  <1>5. PICK f : f = Marks(a, role)
    OBVIOUS
  <1>6. PICK h : h = Marks(c, role)
    OBVIOUS
  <1>7. \A i \in 1..p : f[i] = (IF a[i] = role THEN 1 ELSE 0)
    BY <1>2, <1>5, OccursIs
  <1>8. \A i \in 1..(p + q) : h[i] = (IF c[i] = role THEN 1 ELSE 0)
    BY <1>4, <1>6, OccursIs
  <1>9. \A i \in 1..p : f[i] \in Nat /\ h[i] = f[i]
    <2> TAKE i \in 1..p
    <2>1. i \in 1..(p + q) /\ c[i] = a[i]
      BY <1>4
    <2>2. h[i] = (IF c[i] = role THEN 1 ELSE 0)
      BY <1>8, <2>1
    <2> QED BY <1>7, <2>1, <2>2
  <1>10. ASSUME NEW n \in 0..p
         PROVE  Occurrences(c, role, n) = Occurrences(a, role, n)
    <2>1. \A i \in 1..n : h[i] = f[i]
      BY <1>9
    <2>2. SumOf(h, n) = SumOf(f, n)
      BY <2>1, SumAgree
    <2> QED BY <1>5, <1>6, <2>2, OccursIs
  <1> QED BY <1>1, <1>2, <1>10

LEMMA OccursJoin ==
  ASSUME NEW a \in Seq(Kinds), NEW b \in Seq(Kinds), NEW role
  PROVE  \A n \in 0..Len(b) :
           Occurrences(a \o b, role, Len(a) + n) = Occurrences(a, role, Len(a)) + Occurrences(b, role, n)
  <1>1. PICK c \in Seq(Kinds) : c = a \o b
    BY JoinIs
  <1>2. PICK p \in Nat : p = Len(a)
    OBVIOUS
  <1>3. PICK q \in Nat : q = Len(b)
    OBVIOUS
  <1>4. Len(c) = p + q /\ (\A i \in 1..p : c[i] = a[i]) /\ (\A i \in 1..q : c[p + i] = b[i])
    BY <1>1, <1>2, <1>3, JoinIs
  <1>5. PICK f : f = Marks(a, role)
    OBVIOUS
  <1>6. PICK g : g = Marks(b, role)
    OBVIOUS
  <1>7. PICK h : h = Marks(c, role)
    OBVIOUS
  <1>8. \A i \in 1..p : f[i] = (IF a[i] = role THEN 1 ELSE 0)
    BY <1>2, <1>5, OccursIs
  <1>9. \A i \in 1..q : g[i] = (IF b[i] = role THEN 1 ELSE 0)
    BY <1>3, <1>6, OccursIs
  <1>10. \A i \in 1..(p + q) : h[i] = (IF c[i] = role THEN 1 ELSE 0)
    BY <1>4, <1>7, OccursIs
  <1>11. \A i \in 1..p : f[i] \in Nat /\ h[i] = f[i]
    <2> TAKE i \in 1..p
    <2>1. i \in 1..(p + q) /\ c[i] = a[i]
      BY <1>4
    <2>2. h[i] = (IF c[i] = role THEN 1 ELSE 0)
      BY <1>10, <2>1
    <2> QED BY <1>8, <2>1, <2>2
  <1>12. \A i \in 1..q : g[i] \in Nat /\ h[p + i] = g[i]
    <2> TAKE i \in 1..q
    <2>1. p + i \in 1..(p + q) /\ c[p + i] = b[i]
      BY <1>4
    <2>2. h[p + i] = (IF c[p + i] = role THEN 1 ELSE 0)
      BY <1>10, <2>1
    <2> QED BY <1>9, <2>1, <2>2
  <1>13. ASSUME NEW n \in 0..q
         PROVE  Occurrences(c, role, p + n) = Occurrences(a, role, p) + Occurrences(b, role, n)
    <2>1. OneAfterOther(f, p, g, n, h)
      BY <1>11, <1>12 DEF OneAfterOther
    <2>2. SumOf(h, p + n) = SumOf(f, p) + SumOf(g, n)
      BY <2>1, SumJoins
    <2>3. Occurrences(c, role, p + n) = SumOf(h, p + n)
      BY <1>7, OccursIs
    <2>4. Occurrences(a, role, p) = SumOf(f, p) /\ Occurrences(b, role, n) = SumOf(g, n)
      BY <1>5, <1>6, OccursIs
    <2> QED BY <2>2, <2>3, <2>4
  <1> QED BY <1>1, <1>2, <1>3, <1>13

\* A sequence that is all of one kind.
LEMMA OccursSame ==
  ASSUME NEW s \in Seq(Kinds), NEW kind, \A i \in 1..Len(s) : s[i] = kind, NEW role, NEW n \in 0..Len(s)
  PROVE  Occurrences(s, role, n) = IF kind = role THEN n ELSE 0
  <1>1. PICK size \in Nat : size = Len(s)
    OBVIOUS
  <1>2. PICK f : f = Marks(s, role)
    OBVIOUS
  <1>3. PICK one \in {0, 1} : one = (IF kind = role THEN 1 ELSE 0)
    OBVIOUS
  <1>4. \A i \in 1..size : f[i] = one
    BY <1>1, <1>2, <1>3, OccursIs
  <1> DEFINE good == {k \in Nat : k <= size => SumOf(f, k) = IF one = 1 THEN k ELSE 0}
  <1>5. 0 \in good
    BY SumOneMore
  <1>6. ASSUME NEW k \in good
        PROVE  k + 1 \in good
    <2>1. SUFFICES ASSUME k + 1 <= size PROVE SumOf(f, k + 1) = IF one = 1 THEN k + 1 ELSE 0
      OBVIOUS
    <2>2. k \in Nat /\ k + 1 \in 1..size /\ k <= size
      BY <2>1
    <2>3. SumOf(f, k + 1) = SumOf(f, k) + f[k + 1]
      BY <2>2, SumOneMore
    <2>4. f[k + 1] = one
      BY <1>4, <2>2
    <2>5. SumOf(f, k) = IF one = 1 THEN k ELSE 0
      BY <2>2
    <2> QED BY <2>2, <2>3, <2>4, <2>5
  <1>7. good \in SUBSET Nat
    OBVIOUS
  <1> HIDE DEF good
  <1>8. \A k \in Nat : k \in good
    BY <1>5, <1>6, <1>7, FromBelow
  <1>9. n \in Nat /\ n <= size
    BY <1>1
  <1>10. SumOf(f, n) = IF one = 1 THEN n ELSE 0
    BY <1>8, <1>9 DEF good
  <1>11. Occurrences(s, role, n) = SumOf(f, n)
    BY <1>2, OccursIs
  <1> QED BY <1>3, <1>10, <1>11

KindOf(m) ==
  IF m.role = "assistant" /\ m.calls > 0 THEN "tool_call" ELSE IF m.role = "tool" THEN "tool_response" ELSE m.role
PartsIn(m) == IF m.role = "assistant" /\ m.calls > 0 THEN m.calls ELSE 1

LEMMA PartsAre ==
  ASSUME NEW m \in Message
  PROVE  /\ KindOf(m) \in Kinds /\ PartsIn(m) \in Nat \ {0}
         /\ SampleParts(m) \in Seq(Kinds) /\ Len(SampleParts(m)) = PartsIn(m)
         /\ \A i \in 1..Len(SampleParts(m)) : SampleParts(m)[i] = KindOf(m)
  <1>1. m.role \in {"system", "user", "assistant", "tool"} /\ m.calls \in Nat
    BY MessageIs
  <1>2. CASE m.role = "assistant" /\ m.calls > 0
    <2>1. SampleParts(m) = [i \in 1..m.calls |-> "tool_call"]
      BY <1>2 DEF SampleParts
    <2>2. KindOf(m) = "tool_call" /\ PartsIn(m) = m.calls
      BY <1>2 DEF KindOf, PartsIn
    <2>3. PICK n \in Nat : n = m.calls
      BY <1>1
    <2>4. PICK s : s = [i \in 1..n |-> "tool_call"]
      OBVIOUS
    <2>5. s \in Seq(Kinds) /\ Len(s) = n /\ \A i \in 1..Len(s) : s[i] = "tool_call"
      BY <2>4 DEF Kinds
    <2> QED BY <1>1, <1>2, <2>1, <2>2, <2>3, <2>4, <2>5 DEF Kinds
  <1>3. CASE m.role = "tool"
    <2>1. SampleParts(m) = <<"tool_response">>
      BY <1>3 DEF SampleParts
    <2>2. KindOf(m) = "tool_response" /\ PartsIn(m) = 1
      BY <1>3 DEF KindOf, PartsIn
    <2>3. PICK s : s = <<"tool_response">>
      OBVIOUS
    <2>4. s \in Seq(Kinds) /\ Len(s) = 1 /\ \A i \in 1..Len(s) : s[i] = "tool_response"
      BY <2>3 DEF Kinds
    <2> QED BY <2>1, <2>2, <2>3, <2>4 DEF Kinds
  <1>4. CASE m.role # "tool" /\ ~(m.role = "assistant" /\ m.calls > 0)
    <2>1. SampleParts(m) = <<m.role>>
      BY <1>4 DEF SampleParts
    <2>2. KindOf(m) = m.role /\ PartsIn(m) = 1
      BY <1>4 DEF KindOf, PartsIn
    <2>3. PICK kind \in Kinds : kind = m.role
      BY <1>1, <1>4 DEF Kinds
    <2>4. PICK s : s = <<kind>>
      OBVIOUS
    <2>5. s \in Seq(Kinds) /\ Len(s) = 1 /\ \A i \in 1..Len(s) : s[i] = kind
      BY <2>4
    <2> QED BY <2>1, <2>2, <2>3, <2>4, <2>5
  <1> QED BY <1>2, <1>3, <1>4

LEMMA SampleIs ==
  ASSUME NEW v \in Seq(Message), NEW parts, parts = [i \in DOMAIN v |-> SampleParts(v[i])]
  PROVE  /\ SampleOf(v) = Joined(parts, Len(v)) /\ SampleOf(v) \in Seq(Kinds)
         /\ \A i \in 1..Len(v) : parts[i] = SampleParts(v[i]) /\ parts[i] \in Seq(Kinds)
         /\ \A k \in 0..Len(v) : Joined(parts, k) \in Seq(Kinds)
  <1>1. PICK n \in Nat : n = Len(v)
    OBVIOUS
  <1>2. \A i \in 1..n : parts[i] = SampleParts(v[i]) /\ v[i] \in Message
    BY <1>1, ElementsOf
  <1>3. \A i \in 1..n : parts[i] \in Seq(Kinds)
    BY <1>2, PartsAre
  <1>4. PICK lengths : lengths = [i \in 1..n |-> Len(parts[i])]
    OBVIOUS
  <1>5. Measured(Kinds, parts, lengths, n)
    BY <1>3, <1>4 DEF Measured
  <1>6. \A k \in 0..n : Joined(parts, k) \in Seq(Kinds)
    BY <1>5, JoinedIs
  <1>7. SampleOf(v) = Joined(parts, n)
    BY <1>1 DEF SampleOf
  <1>8. n \in 0..n
    OBVIOUS
  <1> QED BY <1>1, <1>2, <1>3, <1>6, <1>7, <1>8

LEMMA SampleMore ==
  ASSUME NEW v \in Seq(Message), NEW m \in Message
  PROVE  SampleOf(Append(v, m)) = SampleOf(v) \o SampleParts(m)
  <1>1. PICK n \in Nat : n = Len(v)
    OBVIOUS
  <1>2. PICK w \in Seq(Message) : w = Append(v, m)
    BY AppendedIs
  <1>3. Len(w) = n + 1 /\ (\A i \in 1..n : w[i] = v[i]) /\ w[n + 1] = m
    BY <1>1, <1>2, AppendedIs
  <1>4. PICK f : f = [i \in DOMAIN v |-> SampleParts(v[i])]
    OBVIOUS
  <1>5. PICK g : g = [i \in DOMAIN w |-> SampleParts(w[i])]
    OBVIOUS
  <1>6. SampleOf(v) = Joined(f, n) /\ \A i \in 1..n : f[i] = SampleParts(v[i])
    BY <1>1, <1>4, SampleIs
  <1>7. SampleOf(w) = Joined(g, n + 1) /\ \A i \in 1..(n + 1) : g[i] = SampleParts(w[i])
    BY <1>3, <1>5, SampleIs
  <1>8. \A i \in 1..n : f[i] = g[i]
    BY <1>3, <1>6, <1>7
  <1>9. Joined(f, n) = Joined(g, n)
    BY <1>8, JoinAgree
  <1>10. g[n + 1] = SampleParts(m)
    BY <1>3, <1>7
  <1>11. Joined(g, n + 1) = Joined(g, n) \o g[n + 1]
    BY JoinOneMore
  <1> QED BY <1>2, <1>6, <1>7, <1>9, <1>10, <1>11

LEMMA SamplePrefix ==
  ASSUME NEW v \in Seq(Message), NEW k \in 0..Len(v)
  PROVE  \E n \in 0..Len(SampleOf(v)) : SampleOf(SubSeq(v, 1, k)) = SubSeq(SampleOf(v), 1, n)
  <1>1. PICK w \in Seq(Message) : w = SubSeq(v, 1, k)
    BY PrefixIs
  <1>2. Len(w) = k /\ (\A i \in 1..k : w[i] = v[i]) /\ k \in Nat
    BY <1>1, PrefixIs
  <1>3. PICK n \in Nat : n = Len(v)
    OBVIOUS
  <1>4. k \in 0..n
    BY <1>3
  <1>5. PICK f : f = [i \in DOMAIN v |-> SampleParts(v[i])]
    OBVIOUS
  <1>6. PICK g : g = [i \in DOMAIN w |-> SampleParts(w[i])]
    OBVIOUS
  <1>7. SampleOf(v) = Joined(f, n) /\ SampleOf(v) \in Seq(Kinds) /\ \A i \in 1..n : f[i] = SampleParts(v[i]) /\ f[i] \in Seq(Kinds)
    BY <1>3, <1>5, SampleIs
  <1>8. SampleOf(w) = Joined(g, k) /\ SampleOf(w) \in Seq(Kinds) /\ \A i \in 1..k : g[i] = SampleParts(w[i])
    BY <1>2, <1>6, SampleIs
  <1>9. \A i \in 1..k : f[i] = g[i]
    <2> TAKE i \in 1..k
    <2>1. i \in 1..n
      BY <1>4
    <2> QED BY <1>2, <1>7, <1>8, <2>1
  <1>10. Joined(f, k) = Joined(g, k)
    BY <1>2, <1>9, JoinAgree
  <1>11. \A i \in 1..n : f[i] \in Seq(Kinds)
    BY <1>7
  <1>12. SubSeq(Joined(f, n), 1, Len(Joined(f, k))) = Joined(f, k) /\ Len(Joined(f, k)) <= Len(Joined(f, n))
    BY <1>4, <1>11, JoinedBegins
  <1>13. Len(SampleOf(w)) \in Nat /\ Len(SampleOf(v)) \in Nat
    BY <1>7, <1>8, ElementsOf
  <1>14. Len(SampleOf(w)) \in 0..Len(SampleOf(v)) /\ SampleOf(w) = SubSeq(SampleOf(v), 1, Len(SampleOf(w)))
    BY <1>7, <1>8, <1>10, <1>12, <1>13
  <1> QED BY <1>1, <1>14

LEMMA OccursPrefix ==
  ASSUME NEW s \in Seq(Kinds), NEW k \in 0..Len(s), NEW role
  PROVE  \A n \in 0..k : Occurrences(SubSeq(s, 1, k), role, n) = Occurrences(s, role, n)
  <1>1. PICK a \in Seq(Kinds) : a = SubSeq(s, 1, k)
    BY PrefixIs
  <1>2. Len(a) = k /\ \A i \in 1..k : a[i] = s[i]
    BY <1>1, PrefixIs
  <1>3. PICK b \in Seq(Kinds) : b = SubSeq(s, k + 1, Len(s))
    BY TwoParts
  <1>4. s = a \o b
    <2>1. s = SubSeq(s, 1, k) \o SubSeq(s, k + 1, Len(s))
      BY TwoParts
    <2> QED BY <1>1, <1>3, <2>1, Zenon
  <1>5. ASSUME NEW n \in 0..k
        PROVE  Occurrences(a, role, n) = Occurrences(s, role, n)
    <2>1. n \in 0..Len(a)
      BY <1>2
    <2>2. \A i \in 0..Len(a) : Occurrences(a \o b, role, i) = Occurrences(a, role, i)
      BY OccursFirst
    <2> QED BY <1>4, <2>1, <2>2, Zenon
  <1> QED BY <1>1, <1>5

LEMMA PairedPrefix ==
  ASSUME NEW s \in Seq(Kinds), NEW waiting \in Nat, Paired(s, waiting), NEW k \in 0..Len(s)
  PROVE  Paired(SubSeq(s, 1, k), 0)
  <1>1. PICK a \in Seq(Kinds) : a = SubSeq(s, 1, k)
    BY PrefixIs
  <1>2. Len(a) = k /\ k \in 0..k
    BY <1>1, PrefixIs
  <1>3. ASSUME NEW n \in 0..k
        PROVE  Occurrences(a, "tool_response", n) <= Occurrences(a, "tool_call", n)
    <2>1. Occurrences(a, "tool_response", n) = Occurrences(s, "tool_response", n)
      BY <1>1, OccursPrefix
    <2>2. Occurrences(a, "tool_call", n) = Occurrences(s, "tool_call", n)
      BY <1>1, OccursPrefix
    <2>3. n \in 0..Len(s)
      OBVIOUS
    <2> QED BY <2>1, <2>2, <2>3 DEF Paired
  <1>4. Occurrences(a, "tool_response", k) + 0 <= Occurrences(a, "tool_call", k)
    <2>1. Occurrences(a, "tool_response", k) \in Nat
      BY <1>2, OccursIs
    <2> QED BY <1>2, <1>3, <2>1
  <1> QED BY <1>1, <1>2, <1>3, <1>4 DEF Paired

\* Results only as long as calls await them.
WaitingAfter(m, waiting) ==
  IF m.role = "tool" THEN waiting - 1 ELSE IF m.role = "assistant" THEN waiting + m.calls ELSE waiting

LEMMA PairedMore ==
  ASSUME NEW s \in Seq(Kinds), NEW waiting \in Nat, Paired(s, waiting), NEW m \in Message,
         m.role = "tool" => waiting >= 1
  PROVE  Paired(s \o SampleParts(m), WaitingAfter(m, waiting))
  <1>1. PICK size \in Nat : size = Len(s)
    OBVIOUS
  <1>2. PICK b \in Seq(Kinds) : b = SampleParts(m)
    BY PartsAre
  <1>3. PICK more \in Nat \ {0} : more = PartsIn(m)
    BY PartsAre
  <1>4. PICK kind \in Kinds : kind = KindOf(m)
    BY PartsAre
  <1>5. Len(b) = more /\ \A i \in 1..Len(b) : b[i] = kind
    BY <1>2, <1>3, <1>4, PartsAre
  <1>6. \A n \in 0..more : /\ Occurrences(b, "tool_response", n) = (IF kind = "tool_response" THEN n ELSE 0)
                          /\ Occurrences(b, "tool_call", n) = (IF kind = "tool_call" THEN n ELSE 0)
    BY <1>5, OccursSame
  <1>7. PICK results \in Nat : results = Occurrences(s, "tool_response", size)
    <2>1. size \in 0..size
      OBVIOUS
    <2> QED BY <1>1, <2>1, OccursIs
  <1>8. PICK calls \in Nat : calls = Occurrences(s, "tool_call", size)
    <2>1. size \in 0..size
      OBVIOUS
    <2> QED BY <1>1, <2>1, OccursIs
  <1>9. results + waiting <= calls
    BY <1>1, <1>7, <1>8 DEF Paired
  <1>10. PICK c \in Seq(Kinds) : c = s \o b
    BY JoinIs
  <1>11. Len(c) = size + more
    BY <1>1, <1>5, <1>10, JoinIs
  <1>12. ASSUME NEW role
        PROVE  \A i \in 0..Len(s) : Occurrences(s \o b, role, i) = Occurrences(s, role, i)
    BY OccursFirst
  <1>13. ASSUME NEW n \in 0..size
         PROVE  Occurrences(c, "tool_response", n) <= Occurrences(c, "tool_call", n)
    <2>1. Occurrences(c, "tool_response", n) = Occurrences(s, "tool_response", n)
      BY <1>1, <1>10, <1>12
    <2>2. Occurrences(c, "tool_call", n) = Occurrences(s, "tool_call", n)
      BY <1>1, <1>10, <1>12
    <2> QED BY <1>1, <2>1, <2>2 DEF Paired
  <1>14. ASSUME NEW n \in 0..more
         PROVE  /\ Occurrences(c, "tool_response", size + n) = results + (IF kind = "tool_response" THEN n ELSE 0)
                /\ Occurrences(c, "tool_call", size + n) = calls + (IF kind = "tool_call" THEN n ELSE 0)
    <2>1. n \in 0..Len(b)
      BY <1>5
    <2>2. Occurrences(s \o b, "tool_response", Len(s) + n) =
            Occurrences(s, "tool_response", Len(s)) + Occurrences(b, "tool_response", n)
      BY <2>1, OccursJoin
    <2>3. Occurrences(s \o b, "tool_call", Len(s) + n) =
            Occurrences(s, "tool_call", Len(s)) + Occurrences(b, "tool_call", n)
      BY <2>1, OccursJoin
    <2> QED BY <1>1, <1>6, <1>7, <1>8, <1>10, <2>2, <2>3
  <1>15. PICK after : after = WaitingAfter(m, waiting)
    OBVIOUS
  <1>16. m.calls \in Nat
    BY MessageIs
  <1>17. /\ results + (IF kind = "tool_response" THEN more ELSE 0) + after <= calls + (IF kind = "tool_call" THEN more ELSE 0)
         /\ results + (IF kind = "tool_response" THEN more ELSE 0) <= calls + (IF kind = "tool_call" THEN more ELSE 0)
         /\ kind = "tool_response" => more = 1
    <2>1. CASE m.role = "tool"
      <3>1. kind = "tool_response" /\ more = 1 /\ after = waiting - 1 /\ waiting >= 1
        BY <1>3, <1>4, <1>15, <2>1 DEF KindOf, PartsIn, WaitingAfter
      <3> QED BY <1>9, <3>1
    <2>2. CASE m.role = "assistant" /\ m.calls > 0
      <3>1. kind = "tool_call" /\ more = m.calls /\ after = waiting + m.calls
        BY <1>3, <1>4, <1>15, <2>2 DEF KindOf, PartsIn, WaitingAfter
      <3>2. kind # "tool_response"
        BY <3>1
      <3>3. results + 0 + (waiting + more) <= calls + more /\ results + 0 <= calls + more
        BY <1>9
      <3> QED BY <3>1, <3>2, <3>3
    <2>3. CASE m.role # "tool" /\ ~(m.role = "assistant" /\ m.calls > 0)
      <3>1. kind = m.role /\ m.role \in {"system", "user", "assistant"}
        BY <1>4, <2>3, MessageIs DEF KindOf
      <3>2. kind # "tool_response" /\ kind # "tool_call"
        BY <3>1
      <3>3. after = waiting
        BY <1>15, <1>16, <2>3 DEF WaitingAfter
      <3> QED BY <1>9, <3>2, <3>3
    <2> QED BY <2>1, <2>2, <2>3
  <1>18. ASSUME NEW n \in 0..(size + more)
         PROVE  Occurrences(c, "tool_response", n) <= Occurrences(c, "tool_call", n)
    <2>1. CASE n <= size
      <3>1. n \in 0..size
        BY <2>1
      <3> QED BY <1>13, <3>1
    <2>2. CASE ~(n <= size)
      <3>1. PICK k \in 1..more : size + k = n
        <4>1. n - size \in 1..more /\ size + (n - size) = n
          BY <2>2
        <4> QED BY <4>1
      <3>2. /\ Occurrences(c, "tool_response", size + k) = results + (IF kind = "tool_response" THEN k ELSE 0)
            /\ Occurrences(c, "tool_call", size + k) = calls + (IF kind = "tool_call" THEN k ELSE 0)
        <4>1. k \in 0..more
          OBVIOUS
        <4> QED BY <1>14, <4>1
      <3>3. results + (IF kind = "tool_response" THEN k ELSE 0) <= calls + (IF kind = "tool_call" THEN k ELSE 0)
        <4>1. CASE kind = "tool_response"
          <5>1. k = 1 /\ more = 1 /\ kind # "tool_call"
            BY <1>17, <4>1
          <5> QED BY <1>17, <4>1, <5>1
        <4>2. CASE kind # "tool_response"
          BY <1>9, <4>2
        <4> QED BY <4>1, <4>2
      <3> QED BY <3>1, <3>2, <3>3
    <2> QED BY <2>1, <2>2
  <1>19. Occurrences(c, "tool_response", size + more) + after <= Occurrences(c, "tool_call", size + more)
    <2>1. more \in 0..more
      OBVIOUS
    <2> QED BY <1>14, <1>17, <2>1
  <1> QED BY <1>2, <1>10, <1>11, <1>15, <1>18, <1>19 DEF Paired

LEMMA PairedOne ==
  ASSUME NEW v \in Seq(Message), NEW m \in Message, NEW waiting \in Nat, Paired(SampleOf(v), waiting),
         m.role = "tool" => waiting >= 1
  PROVE  Paired(SampleOf(v \o <<m>>), WaitingAfter(m, waiting))
  <1>1. v \o <<m>> = Append(v, m)
    OBVIOUS
  <1>2. SampleOf(v \o <<m>>) = SampleOf(v) \o SampleParts(m)
    BY <1>1, SampleMore
  <1>3. PICK s \in Seq(Kinds) : s = SampleOf(v)
    BY SampleIs
  <1>4. Paired(s \o SampleParts(m), WaitingAfter(m, waiting))
    BY <1>3, PairedMore
  <1> QED BY <1>2, <1>3, <1>4

LEMMA PairedResults ==
  ASSUME NEW v \in Seq(Message), NEW ms \in Seq(Message), \A i \in 1..Len(ms) : ms[i].role = "tool",
         NEW waiting \in Nat, Paired(SampleOf(v), waiting), Len(ms) <= waiting
  PROVE  Paired(SampleOf(v \o ms), waiting - Len(ms))
  <1>1. PICK n \in Nat : n = Len(ms)
    OBVIOUS
  <1> DEFINE good == {k \in Nat : k <= n => Paired(SampleOf(v \o SubSeq(ms, 1, k)), waiting - k)}
  <1>2. 0 \in good
    <2>1. SubSeq(ms, 1, 0) = << >>
      BY EmptyPrefix
    <2>2. v \o << >> = v /\ waiting - 0 = waiting
      OBVIOUS
    <2> QED BY <2>1, <2>2
  <1>3. ASSUME NEW k \in good
        PROVE  k + 1 \in good
    <2>1. SUFFICES ASSUME k + 1 <= n PROVE Paired(SampleOf(v \o SubSeq(ms, 1, k + 1)), waiting - (k + 1))
      OBVIOUS
    <2>2. k \in Nat
      OBVIOUS
    <2>3. k + 1 \in 1..Len(ms) /\ k \in 0..Len(ms) /\ k <= n /\ k + 1 <= waiting
      <3> HIDE DEF good
      <3> QED BY <1>1, <2>1, <2>2
    <2>4. PICK m \in Message : m = ms[k + 1]
      BY <2>3, ElementsOf
    <2>5. m.role = "tool"
      BY <2>3, <2>4
    <2>6. PICK some \in Seq(Message) : some = SubSeq(ms, 1, k)
      BY <2>3, PrefixIs
    <2>7. SubSeq(ms, 1, k + 1) = Append(some, m)
      BY <1>1, <2>1, <2>2, <2>4, <2>6, PrefixGrows
    <2>8. PICK before \in Seq(Message) : before = v \o some
      BY JoinIs
    <2>9. Paired(SampleOf(before), waiting - k)
      BY <2>3, <2>6, <2>8
    <2>10. v \o Append(some, m) = before \o <<m>>
      BY <2>8
    <2>11. waiting - k \in Nat /\ waiting - k >= 1 /\ (waiting - k) - 1 = waiting - (k + 1)
      <3>1. k \in Nat /\ waiting \in Nat /\ k + 1 <= waiting
        BY <2>3, <2>2
      <3> QED BY ONLY <3>1
    <2>12. PICK left \in Nat : left = waiting - k
      BY <2>11
    <2>13. Paired(SampleOf(before \o <<m>>), left - 1)
      BY <2>5, <2>9, <2>11, <2>12, PairedOne DEF WaitingAfter
    <2> QED BY <2>7, <2>10, <2>11, <2>12, <2>13
  <1>4. good \in SUBSET Nat
    OBVIOUS
  <1> HIDE DEF good
  <1>5. \A k \in Nat : k \in good
    BY <1>2, <1>3, <1>4, FromBelow
  <1>6. n <= n
    OBVIOUS
  <1>7. Paired(SampleOf(v \o SubSeq(ms, 1, n)), waiting - n)
    BY <1>5, <1>6 DEF good
  <1> QED BY <1>1, <1>7, WholePrefix

-----------------------------------------------------------------------------
LEMMA GrownLog ==
  ASSUME NEW entries \in Seq(Entries), entries # << >>, NEW more \in Seq(Entries)
  PROVE  /\ entries \o more \in Seq(Entries) /\ entries \o more # << >>
         /\ PrefixOf(entries \o more) = PrefixOf(entries) /\ PrefixOf(entries) \in {1, 2}
         /\ Compacted(entries) => Compacted(entries \o more)
  <1>1. PICK c \in Seq(Entries) : c = entries \o more
    BY JoinIs
  <1>2. Len(c) = Len(entries) + Len(more) /\ \A i \in 1..Len(entries) : c[i] = entries[i]
    BY <1>1, JoinIs
  <1>3. Len(entries) \in Nat \ {0} /\ Len(more) \in Nat /\ 1 \in 1..Len(entries)
    OBVIOUS
  <1>4. c # << >>
    BY <1>2, <1>3
  <1>5. c[1] = entries[1]
    BY <1>2, <1>3
  <1>6. PrefixOf(c) = PrefixOf(entries) /\ PrefixOf(entries) \in {1, 2}
    BY <1>5 DEF PrefixOf
  <1>7. ASSUME NEW i \in DOMAIN entries, MarkerIs(entries[i], "compaction")
        PROVE  Compacted(c)
    <2>1. i \in 1..Len(entries) /\ i \in 1..Len(c)
      BY <1>2, <1>3, ElementsOf
    <2>2. i \in DOMAIN c
      BY <2>1, ElementsOf
    <2>3. c[i] = entries[i]
      BY <1>2, <2>1
    <2> QED BY <1>7, <2>2, <2>3 DEF Compacted
  <1> QED BY <1>1, <1>4, <1>6, <1>7 DEF Compacted

LEMMA OpenedMore ==
  ASSUME NEW v \in Seq(Message), NEW prefix \in {1, 2}, Opened(v, prefix),
         NEW ms \in Seq(Message), \A i \in 1..Len(ms) : ms[i].role # "system"
  PROVE  Opened(v \o ms, prefix)
  <1>1. PICK w \in Seq(Message) : w = v \o ms
    BY JoinIs
  <1>2. Len(w) = Len(v) + Len(ms) /\ (\A i \in 1..Len(v) : w[i] = v[i]) /\ \A i \in 1..Len(ms) : w[Len(v) + i] = ms[i]
    BY <1>1, JoinIs
  <1>3. prefix <= Len(v) /\ (\A i \in 1..prefix : v[i].calls = 0) /\ \A i \in 1..Len(v) : v[i].role = "system" => i = 1
    BY DEF Opened
  <1>4. PICK n \in Nat : n = Len(v)
    OBVIOUS
  <1>5. PICK k \in Nat : k = Len(ms)
    OBVIOUS
  <1>6. prefix <= Len(w)
    BY <1>2, <1>3, <1>4, <1>5
  <1>7. \A i \in 1..prefix : w[i].calls = 0
    <2> TAKE i \in 1..prefix
    <2>1. i \in 1..Len(v)
      BY <1>3, <1>4
    <2> QED BY <1>2, <1>3, <2>1
  <1>8. \A i \in 1..Len(w) : w[i].role = "system" => i = 1
    <2> TAKE i \in 1..Len(w)
    <2>1. CASE i <= n
      <3>1. i \in 1..Len(v)
        BY <1>4, <2>1
      <3> QED BY <1>2, <1>3, <3>1
    <2>2. CASE ~(i <= n)
      <3>1. i - n \in 1..k /\ n + (i - n) = i
        BY <1>2, <1>4, <1>5, <2>2
      <3>2. w[i] = ms[i - n]
        BY <1>2, <1>4, <1>5, <3>1
      <3> QED BY <1>5, <3>1, <3>2
    <2> QED BY <2>1, <2>2
  <1> QED BY <1>1, <1>6, <1>7, <1>8 DEF Opened

LEMMA OpenedPrefix ==
  ASSUME NEW v \in Seq(Message), NEW prefix \in {1, 2}, Opened(v, prefix), NEW k \in prefix..Len(v)
  PROVE  Opened(SubSeq(v, 1, k), prefix)
  <1>1. k \in 0..Len(v) /\ prefix <= k /\ k \in Nat
    OBVIOUS
  <1>2. PICK w \in Seq(Message) : w = SubSeq(v, 1, k)
    BY <1>1, PrefixIs
  <1>3. Len(w) = k /\ \A i \in 1..k : w[i] = v[i]
    BY <1>1, <1>2, PrefixIs
  <1>4. (\A i \in 1..prefix : v[i].calls = 0) /\ \A i \in 1..Len(v) : v[i].role = "system" => i = 1
    BY DEF Opened
  <1>5. \A i \in 1..prefix : w[i].calls = 0
    <2> TAKE i \in 1..prefix
    <2>1. i \in 1..k
      BY <1>1
    <2> QED BY <1>3, <1>4, <2>1
  <1>6. \A i \in 1..k : w[i].role = "system" => i = 1
    <2> TAKE i \in 1..k
    <2>1. i \in 1..Len(v)
      BY <1>1
    <2> QED BY <1>3, <1>4, <2>1
  <1> QED BY <1>1, <1>2, <1>3, <1>5, <1>6 DEF Opened

-----------------------------------------------------------------------------
(***************************************************************************)
(* What is appended to a log, and read well.                               *)
(***************************************************************************)
LEMMA WellIs ==
  ASSUME NEW entries, NEW t, NEW clipped, NEW turns, NEW waiting, NEW first, ReadWell(entries, t, clipped, turns, waiting, first)
  PROVE  /\ InSight(t) \in Seq(Message) /\ t.segments \in Seq(Segment) /\ t.anchor \in Nat
         /\ PrefixOf(entries) \in {1, 2} /\ InSight(t) # << >> /\ Len(InSight(t)) \in Nat /\ PrefixOf(entries) <= Len(InSight(t))
         /\ \A i \in 1..Len(InSight(t)) : InSight(t)[i].role = "system" => i = 1
  <1>1. t.segments \in Seq(Segment) /\ t.anchor \in Nat
    BY DEF ReadWell, TrackerInv, Trackers
  <1>2. PICK v \in Seq(Message) : v = InSight(t)
    BY <1>1, SightIs
  <1>3. PrefixOf(entries) \in {1, 2}
    BY DEF PrefixOf
  <1>4. PrefixOf(entries) <= Len(v) /\ \A i \in 1..Len(v) : v[i].role = "system" => i = 1
    BY <1>2 DEF ReadWell, Opened
  <1>5. v # << >> /\ Len(v) \in Nat
    BY <1>3, <1>4
  <1> QED BY <1>1, <1>2, <1>3, <1>4, <1>5

NoneOfSystem(ms) == \A i \in 1..Len(ms) : ms[i].role # "system"
PairedUnlessCompacted(entries, visible, waiting) == ~Compacted(entries) => Paired(SampleOf(visible), waiting)

MayFollow(entries, t, clipped, turns, waiting, first, ms, after) ==
  /\ ReadWell(entries, t, clipped, turns, waiting, first) /\ clipped \in BOOLEAN
  /\ ms \in Seq(Message) /\ ms # << >> /\ NoneOfSystem(ms)
  /\ PairedUnlessCompacted(entries, InSight(t) \o ms, after)
Followed(entries, t, clipped, turns, first, ms, after) ==
  /\ ReadWell(entries \o ms, Added(t, ms), clipped, turns, after, first)
  /\ InSight(Added(t, ms)) = InSight(t) \o ms

LEMMA WellAdded ==
  ASSUME NEW entries, NEW t, NEW clipped, NEW turns, NEW waiting, NEW first, NEW ms, NEW after,
         MayFollow(entries, t, clipped, turns, waiting, first, ms, after)
  PROVE  Followed(entries, t, clipped, turns, first, ms, after)
  <1>1. /\ ReadWell(entries, t, clipped, turns, waiting, first) /\ clipped \in BOOLEAN
        /\ ms \in Seq(Message) /\ ms # << >> /\ NoneOfSystem(ms)
        /\ PairedUnlessCompacted(entries, InSight(t) \o ms, after)
    BY DEF MayFollow
  <1>2. /\ entries \in Seq(Entries) /\ entries # << >> /\ TrackerInv(t, clipped) /\ ReadAs(entries, InSight(t), turns)
        /\ Opened(InSight(t), PrefixOf(entries))
        /\ t.anchor <= Len(InSight(t)) /\ (t.anchor > 0 => SubSeq(InSight(t), 1, t.anchor) = first)
    BY <1>1 DEF ReadWell
  <1>3. PICK v \in Seq(Message) : v = InSight(t)
    BY <1>1, WellIs
  <1>4. PICK u : u = Added(t, ms)
    OBVIOUS
  <1>5. TrackerInv(u, clipped) /\ InSight(u) = v \o ms /\ u.anchor = t.anchor
    BY <1>1, <1>2, <1>3, <1>4, AddedIs
  <1>6. ms \in Seq(Entries)
    BY <1>1 DEF Entries
  <1>7. PICK more : more = entries \o ms
    OBVIOUS
  <1>8. more \in Seq(Entries) /\ more # << >> /\ PrefixOf(more) = PrefixOf(entries) /\ PrefixOf(entries) \in {1, 2}
        /\ (Compacted(entries) => Compacted(more))
    BY <1>2, <1>6, <1>7, GrownLog
  <1>9. ReadAs(more, v \o ms, turns)
    BY <1>1, <1>2, <1>3, <1>7, ReadMessages
  <1>10. Opened(v \o ms, PrefixOf(more))
    BY <1>1, <1>2, <1>3, <1>8, OpenedMore DEF NoneOfSystem
  <1>11. t.anchor \in 0..Len(v) /\ Len(v \o ms) = Len(v) + Len(ms) /\ Len(v) \in Nat /\ Len(ms) \in Nat
    BY <1>1, <1>2, <1>3, JoinIs, WellIs
  <1>12. SubSeq(v \o ms, 1, t.anchor) = SubSeq(v, 1, t.anchor)
    BY <1>1, <1>3, <1>11, PrefixOfJoin
  <1>13. u.anchor <= Len(v \o ms) /\ (u.anchor > 0 => SubSeq(v \o ms, 1, u.anchor) = first)
    BY <1>2, <1>3, <1>5, <1>11, <1>12
  <1>14. ~Compacted(more) => Paired(SampleOf(v \o ms), after)
    BY <1>1, <1>3, <1>8 DEF PairedUnlessCompacted
  <1>15. ReadWell(more, u, clipped, turns, after, first)
    BY <1>5, <1>8, <1>9, <1>10, <1>13, <1>14 DEF ReadWell
  <1> QED BY <1>3, <1>4, <1>5, <1>7, <1>15 DEF Followed

LEMMA PairedShorter ==
  ASSUME NEW v \in Seq(Message), NEW waiting \in Nat, Paired(SampleOf(v), waiting), NEW k \in 0..Len(v)
  PROVE  Paired(SampleOf(SubSeq(v, 1, k)), 0)
  <1>1. PICK s \in Seq(Kinds) : s = SampleOf(v)
    BY SampleIs
  <1>2. PICK n \in 0..Len(s) : SampleOf(SubSeq(v, 1, k)) = SubSeq(s, 1, n)
    BY <1>1, SamplePrefix
  <1>3. Paired(SubSeq(s, 1, n), 0)
    BY <1>1, PairedPrefix
  <1> QED BY <1>2, <1>3

MayTake(entries, t, turns, waiting, first, count, left) ==
  /\ ReadWell(entries, t, FALSE, turns, waiting, first) /\ waiting \in Nat
  /\ count \in Nat /\ left \in PrefixOf(entries)..Len(InSight(t)) /\ left = Len(InSight(t)) - count
Taken(entries, t, turns, first, count, left) ==
  /\ ReadWell(entries \o <<RollbackEntry(count)>>, RolledBack(t, count), TRUE, turns, 0, first)
  /\ InSight(RolledBack(t, count)) = SubSeq(InSight(t), 1, left)
  /\ (\E r \in 1..Len(t.segments) : left = SegmentEnd(t, r)) =>
       ReadWell(entries \o <<RollbackEntry(count)>>, RolledBack(t, count), FALSE, turns, 0, first)

LEMMA WellRolledBack ==
  ASSUME NEW entries, NEW t, NEW turns, NEW waiting, NEW first, NEW count, NEW left,
         MayTake(entries, t, turns, waiting, first, count, left)
  PROVE  Taken(entries, t, turns, first, count, left)
  <1>1. /\ ReadWell(entries, t, FALSE, turns, waiting, first) /\ waiting \in Nat
        /\ count \in Nat /\ left \in PrefixOf(entries)..Len(InSight(t)) /\ left = Len(InSight(t)) - count
    BY DEF MayTake
  <1>2. /\ entries \in Seq(Entries) /\ entries # << >> /\ TrackerInv(t, FALSE) /\ ReadAs(entries, InSight(t), turns)
        /\ Opened(InSight(t), PrefixOf(entries))
        /\ t.anchor <= Len(InSight(t)) /\ (t.anchor > 0 => SubSeq(InSight(t), 1, t.anchor) = first)
        /\ (~Compacted(entries) => Paired(SampleOf(InSight(t)), waiting))
    BY <1>1 DEF ReadWell
  <1>3. PICK v \in Seq(Message) : v = InSight(t)
    BY <1>1, WellIs
  <1>4. PICK prefix \in {1, 2} : prefix = PrefixOf(entries)
    BY <1>1, WellIs
  <1>5. left \in prefix..Len(v) /\ left = Len(v) - count /\ \A i \in 1..Len(v) : v[i].role = "system" => i = 1
    BY <1>1, <1>3, <1>4, WellIs
  <1>6. left \in Nat /\ left \in 1..Len(v) /\ left \in 0..Len(v) /\ left > 0
    BY <1>5
  <1>7. AfterRollback(v, count) = SubSeq(v, 1, left)
    BY <1>1, <1>5, <1>6, LeftByRollback
  <1>8. PICK short \in Seq(Message) : short = SubSeq(v, 1, left)
    BY <1>6, PrefixIs
  <1>9. Len(short) = left
    BY <1>6, <1>8, PrefixIs
  <1>10. PICK u : u = RolledBack(t, count)
    OBVIOUS
  <1>11. /\ TrackerInv(u, TRUE) /\ InSight(u) = short
         /\ u.anchor = (IF left < t.anchor THEN 0 ELSE t.anchor)
         /\ (\E r \in 1..Len(t.segments) : left = SegmentEnd(t, r)) => TrackerInv(u, FALSE)
    <2>1. Len(AfterRollback(InSight(t), count)) = left /\ left \in 1..Len(InSight(t))
      BY <1>3, <1>6, <1>7, <1>8, <1>9
    <2> QED BY <1>2, <1>3, <1>8, <1>10, <2>1, <1>1, RolledBackIs
  <1>12. PICK e \in Markers : e = RollbackEntry(count)
    BY <1>1, SeenRollback
  <1>13. PICK more : more = entries \o <<e>>
    OBVIOUS
  <1>14. <<e>> \in Seq(Entries)
    BY DEF Entries
  <1>15. more \in Seq(Entries) /\ more # << >> /\ PrefixOf(more) = prefix /\ (Compacted(entries) => Compacted(more))
    BY <1>2, <1>4, <1>13, <1>14, GrownLog
  <1>16. ReadAs(more, short, turns)
    <2>1. Materialized(more, Len(more)) = SeenAfter(v, e)
          /\ StatisticsView(more, Len(more)) = TurnsAfter([visible |-> v, turns |-> turns], e)
      BY <1>2, <1>3, <1>13, ReadMarker
    <2>2. SeenAfter(v, e) = short
      BY <1>1, <1>7, <1>8, <1>12, SeenRollback
    <2>3. Len(v) - count > 0 /\ left = Len(v) - count
      BY <1>5, <1>6
    <2>4. TurnsAfter([visible |-> v, turns |-> turns], e) =
            [visible |-> SubSeq(v, 1, IF Len(v) - count > 0 THEN Len(v) - count ELSE 0), turns |-> turns]
      BY <1>1, <1>12, SeenRollback
    <2>5. TurnsAfter([visible |-> v, turns |-> turns], e) = [visible |-> short, turns |-> turns]
      BY <1>8, <2>3, <2>4
    <2> QED BY <2>1, <2>2, <2>5 DEF ReadAs
  <1>17. Opened(short, PrefixOf(more))
    BY <1>2, <1>3, <1>4, <1>5, <1>8, <1>15, OpenedPrefix
  <1>18. u.anchor <= Len(short) /\ (u.anchor > 0 => SubSeq(short, 1, u.anchor) = first)
    <2>1. t.anchor \in Nat
      BY <1>1, WellIs
    <2>2. CASE left < t.anchor
      <3>1. u.anchor = 0
        BY <1>11, <2>2
      <3> QED BY <1>6, <1>9, <3>1
    <2>3. CASE ~(left < t.anchor)
      <3>1. u.anchor = t.anchor /\ t.anchor \in 0..left
        BY <1>6, <1>11, <2>1, <2>3
      <3>2. SubSeq(SubSeq(v, 1, left), 1, t.anchor) = SubSeq(v, 1, t.anchor)
        BY <1>6, <3>1, PrefixOfPrefix
      <3> QED BY <1>2, <1>3, <1>8, <1>9, <3>1, <3>2
    <2> QED BY <2>2, <2>3
  <1>19. ~Compacted(more) => Paired(SampleOf(short), 0)
    <2>1. Paired(SampleOf(v), waiting) => Paired(SampleOf(short), 0)
      BY <1>1, <1>6, <1>8, PairedShorter
    <2> QED BY <1>2, <1>3, <1>15, <2>1
  <1>20. ASSUME NEW clipped, TrackerInv(u, clipped)
         PROVE  ReadWell(more, u, clipped, turns, 0, first)
    BY <1>11, <1>15, <1>16, <1>17, <1>18, <1>19, <1>20 DEF ReadWell
  <1>21. ReadWell(more, u, TRUE, turns, 0, first)
         /\ ((\E r \in 1..Len(t.segments) : left = SegmentEnd(t, r)) => ReadWell(more, u, FALSE, turns, 0, first))
    BY <1>11, <1>20
  <1> QED BY <1>3, <1>8, <1>10, <1>11, <1>12, <1>13, <1>21 DEF Taken

LEMMA RestIs ==
  ASSUME NEW S, NEW a \in Seq(S), NEW k \in 0..Len(a)
  PROVE  /\ SubSeq(a, k + 1, Len(a)) \in Seq(S) /\ Len(SubSeq(a, k + 1, Len(a))) = Len(a) - k
         /\ \A i \in 1..(Len(a) - k) : SubSeq(a, k + 1, Len(a))[i] = a[k + i]
  OBVIOUS

\* All in sight is replaced, after a marker that says by what.
LEMMA WellReplaced ==
  ASSUME NEW entries, NEW t, NEW clipped, NEW turns, NEW waiting, NEW first,
         ReadWell(entries, t, clipped, turns, waiting, first),
         NEW e \in Markers, NEW new \in Seq(Message), NEW after,
         SeenAfter(InSight(t), e) = new,
         TurnsAfter([visible |-> InSight(t), turns |-> turns], e) = [visible |-> new, turns |-> after],
         Opened(new, PrefixOf(entries)),
         ~Compacted(entries \o <<e>>) => Paired(SampleOf(new), 0),
         NEW whole \in BOOLEAN
  PROVE  ReadWell(entries \o <<e>>, Replaced(new), whole, after, 0, first) /\ InSight(Replaced(new)) = new
  <1>1. entries \in Seq(Entries) /\ entries # << >> /\ ReadAs(entries, InSight(t), turns)
    BY DEF ReadWell
  <1>2. PICK v \in Seq(Message) : v = InSight(t)
    BY WellIs
  <1>3. PICK prefix \in {1, 2} : prefix = PrefixOf(entries)
    BY WellIs
  <1>4. PICK u : u = Replaced(new)
    OBVIOUS
  <1>5. prefix <= Len(new)
    BY <1>3 DEF Opened
  <1>6. new # << >> /\ Len(new) \in Nat
    BY <1>5
  <1>7. TrackerInv(u, whole) /\ InSight(u) = new /\ u.anchor = 0
    BY <1>4, <1>6, ReplacedIs
  <1>8. PICK more : more = entries \o <<e>>
    OBVIOUS
  <1>9. <<e>> \in Seq(Entries)
    BY DEF Entries
  <1>10. more \in Seq(Entries) /\ more # << >> /\ PrefixOf(more) = prefix
    BY <1>1, <1>3, <1>8, <1>9, GrownLog
  <1>11. ReadAs(more, new, after)
    <2>1. Materialized(more, Len(more)) = SeenAfter(v, e)
          /\ StatisticsView(more, Len(more)) = TurnsAfter([visible |-> v, turns |-> turns], e)
      BY <1>1, <1>2, <1>8, ReadMarker
    <2> QED BY <1>2, <2>1 DEF ReadAs
  <1>12. ~Compacted(more) => Paired(SampleOf(new), 0)
    BY <1>8
  <1>13. u.anchor <= Len(new) /\ ~(u.anchor > 0)
    BY <1>6, <1>7
  <1>14. Opened(new, PrefixOf(more))
    BY <1>3, <1>10
  <1> QED BY <1>4, <1>7, <1>8, <1>10, <1>11, <1>12, <1>13, <1>14 DEF ReadWell

LEMMA WellCompacted ==
  ASSUME NEW entries, NEW t, NEW clipped, NEW turns, NEW waiting, NEW first,
         ReadWell(entries, t, clipped, turns, waiting, first),
         NEW count \in Nat, NEW summary \in Nat, PrefixOf(entries) + count <= Len(InSight(t)),
         NEW e, e = CompactionEntry(PrefixOf(entries), count, summary), NEW whole \in BOOLEAN
  PROVE  /\ e \in Markers /\ Tracked(t, e) = Replaced(Spliced(InSight(t), e))
         /\ ReadWell(entries \o <<e>>, Replaced(Spliced(InSight(t), e)), whole, turns, 0, first)
  <1>1. PICK v \in Seq(Message) : v = InSight(t)
    BY WellIs
  <1>2. PICK prefix \in {1, 2} : prefix = PrefixOf(entries)
    BY WellIs
  <1>3. prefix \in Nat /\ e = CompactionEntry(prefix, count, summary)
    BY <1>2
  <1>4. /\ e \in Markers /\ e.prefix = prefix /\ e.count = count /\ e.summary = summary /\ MarkerIs(e, "compaction")
        /\ SeenAfter(v, e) = Spliced(v, e)
        /\ TurnsAfter([visible |-> v, turns |-> turns], e) = [visible |-> Spliced(v, e), turns |-> turns]
        /\ Tracked(t, e) = Replaced(Spliced(InSight(t), e))
    BY <1>3, SeenCompaction
  <1>5. PICK boundary \in Nat : boundary = prefix + count
    BY <1>3
  <1>6. boundary \in 0..Len(v) /\ prefix \in 0..Len(v) /\ boundary >= 1 /\ ~(boundary > Len(v)) /\ Len(v) \in Nat /\ prefix \in prefix..Len(v)
    BY <1>1, <1>2, <1>5
  <1>7. PICK summed \in Message : summed = SummaryEntry(e)
    BY <1>4 DEF SummaryEntry, LogEntry, Message
  <1>8. summed.role = "assistant"
    BY <1>7 DEF SummaryEntry, LogEntry
  <1>9. PICK begin \in Seq(Message) : begin = SubSeq(v, 1, prefix)
    BY <1>6, PrefixIs
  <1>10. PICK rest \in Seq(Message) : rest = SubSeq(v, boundary + 1, Len(v))
    BY <1>6, RestIs
  <1>11. Len(rest) = Len(v) - boundary /\ \A i \in 1..(Len(v) - boundary) : rest[i] = v[boundary + i]
    BY <1>6, <1>10, RestIs
  <1>12. \A i \in 1..Len(rest) : rest[i].role # "system"
    <2> TAKE i \in 1..Len(rest)
    <2>1. i \in 1..(Len(v) - boundary) /\ boundary + i \in 1..Len(v) /\ boundary + i # 1
      BY <1>6, <1>11
    <2>2. v[boundary + i].role = "system" => boundary + i = 1
      BY <1>1, <2>1, WellIs
    <2> QED BY <1>11, <2>1, <2>2
  <1>13. Spliced(v, e) = begin \o <<summed>> \o rest
    BY <1>4, <1>5, <1>6, <1>7, <1>9, <1>10 DEF Spliced
  <1>14. PICK middle \in Seq(Message) : middle = begin \o <<summed>>
    <2>1. <<summed>> \in Seq(Message)
      OBVIOUS
    <2> QED BY <2>1, JoinIs
  <1>15. PICK new \in Seq(Message) : new = middle \o rest
    BY JoinIs
  <1>16. Opened(v, prefix)
    BY <1>1, <1>2 DEF ReadWell
  <1>17. Opened(begin, prefix)
    BY <1>6, <1>9, <1>16, OpenedPrefix
  <1>18. Opened(middle, prefix)
    <2>1. <<summed>> \in Seq(Message) /\ \A i \in 1..Len(<<summed>>) : <<summed>>[i].role # "system"
      BY <1>8
    <2> QED BY <1>14, <1>17, <2>1, OpenedMore
  <1>19. Opened(new, prefix)
    BY <1>12, <1>15, <1>18, OpenedMore
  <1>20. Compacted(entries \o <<e>>)
    <2>1. entries \in Seq(Entries) /\ <<e>> \in Seq(Entries) /\ Len(<<e>>) = 1 /\ <<e>>[1] = e
      BY <1>4 DEF ReadWell, Entries
    <2>2. PICK more \in Seq(Entries) : more = entries \o <<e>>
      BY <2>1, JoinIs
    <2>3. Len(more) = Len(entries) + 1 /\ more[Len(entries) + 1] = e
      <3>1. Len(more) = Len(entries) + Len(<<e>>) /\ \A i \in 1..Len(<<e>>) : more[Len(entries) + i] = <<e>>[i]
        BY <2>1, <2>2, JoinIs
      <3> QED BY <2>1, <3>1
    <2>4. Len(entries) + 1 \in 1..Len(more)
      BY <2>1, <2>3
    <2>5. Len(entries) + 1 \in DOMAIN more
      BY <2>4, ElementsOf
    <2> QED BY <1>4, <2>2, <2>3, <2>5 DEF Compacted
  <1>21. Spliced(v, e) = new
    BY <1>13, <1>14, <1>15
  <1>22. ReadWell(entries \o <<e>>, Replaced(new), whole, turns, 0, first)
    BY <1>1, <1>2, <1>4, <1>19, <1>20, <1>21, WellReplaced
  <1> QED BY <1>1, <1>4, <1>21, <1>22

LEMMA WellCut ==
  ASSUME NEW entries, NEW t, NEW clipped, NEW turns, NEW waiting \in Nat, NEW first,
         ReadWell(entries, t, clipped, turns, waiting, first),
         NEW e, e = DiscardEntry(PrefixOf(entries)), NEW whole \in BOOLEAN
  PROVE  /\ e \in Markers /\ Tracked(t, e) = Replaced(Cut(InSight(t), e))
         /\ ReadWell(entries \o <<e>>, Replaced(Cut(InSight(t), e)), whole, Append(turns, Turns(InSight(t))), 0, first)
  <1>1. PICK v \in Seq(Message) : v = InSight(t)
    BY WellIs
  <1>2. PICK prefix \in {1, 2} : prefix = PrefixOf(entries)
    BY WellIs
  <1>3. prefix \in Nat /\ e = DiscardEntry(prefix)
    BY <1>2
  <1>4. /\ e \in Markers /\ e.prefix = prefix
        /\ SeenAfter(v, e) = Cut(v, e)
        /\ TurnsAfter([visible |-> v, turns |-> turns], e) = [visible |-> Cut(v, e), turns |-> Append(turns, Turns(v))]
        /\ Tracked(t, e) = Replaced(Cut(InSight(t), e))
    BY <1>3, SeenDiscard
  <1>5. prefix <= Len(v) /\ Len(v) \in Nat
    BY <1>1, <1>2, WellIs
  <1>6. prefix \in 0..Len(v) /\ ~(prefix > Len(v)) /\ prefix \in prefix..Len(v)
    BY <1>5
  <1>7. PICK new \in Seq(Message) : new = SubSeq(v, 1, prefix)
    BY <1>6, PrefixIs
  <1>8. Cut(v, e) = new
    BY <1>4, <1>6, <1>7 DEF Cut
  <1>9. Opened(v, prefix)
    BY <1>1, <1>2 DEF ReadWell
  <1>10. Opened(new, prefix)
    BY <1>6, <1>7, <1>9, OpenedPrefix
  <1>11. ~Compacted(entries \o <<e>>) => Paired(SampleOf(new), 0)
    <2>1. entries \in Seq(Entries) /\ entries # << >> /\ <<e>> \in Seq(Entries)
      BY <1>4 DEF ReadWell, Entries
    <2>2. Compacted(entries) => Compacted(entries \o <<e>>)
      BY <2>1, GrownLog
    <2>3. ~Compacted(entries) => Paired(SampleOf(v), waiting)
      BY <1>1 DEF ReadWell
    <2>4. Paired(SampleOf(v), waiting) => Paired(SampleOf(new), 0)
      BY <1>6, <1>7, PairedShorter
    <2> QED BY <2>2, <2>3, <2>4
  <1>12. ReadWell(entries \o <<e>>, Replaced(new), whole, Append(turns, Turns(v)), 0, first)
    <2>1. PICK after : after = Append(turns, Turns(v))
      OBVIOUS
    <2>2. SeenAfter(InSight(t), e) = new
          /\ TurnsAfter([visible |-> InSight(t), turns |-> turns], e) = [visible |-> new, turns |-> after]
      BY <1>1, <1>4, <1>8, <2>1
    <2>3. Opened(new, PrefixOf(entries)) /\ e \in Markers
      BY <1>2, <1>4, <1>10
    <2>4. ReadWell(entries \o <<e>>, Replaced(new), whole, after, 0, first)
      BY <1>11, <2>2, <2>3, WellReplaced
    <2> QED BY <2>1, <2>4
  <1> QED BY <1>1, <1>4, <1>8, <1>12

LEMMA OneIs ==
  ASSUME NEW S, NEW x \in S
  PROVE  <<x>> \in Seq(S) /\ Len(<<x>>) = 1 /\ <<x>>[1] = x /\ <<x>> # << >>
  OBVIOUS

LEMMA JoinThree ==
  ASSUME NEW S, NEW a \in Seq(S), NEW b \in Seq(S), NEW c \in Seq(S)
  PROVE  (a \o b) \o c = a \o (b \o c)
  OBVIOUS

LEMMA NoneIs ==
  ASSUME NEW S
  PROVE  << >> \in Seq(S)
  OBVIOUS

LEMMA EmptyJoined ==
  ASSUME NEW S, NEW a \in Seq(S), NEW none, none = << >>
  PROVE  none \in Seq(S) /\ none \o a = a /\ a \o none = a
  OBVIOUS

LEMMA PairIs ==
  ASSUME NEW S, NEW x \in S, NEW y \in S
  PROVE  <<x>> \o <<y>> = <<x, y>>
  <1>1. PICK p \in Seq(S) : p = <<x>> /\ Len(p) = 1 /\ p[1] = x
    BY OneIs
  <1>2. PICK q \in Seq(S) : q = <<y>> /\ Len(q) = 1 /\ q[1] = y
    BY OneIs
  <1>3. PICK r \in Seq(S) : r = p \o q
    BY JoinIs
  <1>4. Len(r) = 2 /\ r[1] = x /\ r[2] = y
    <2>1. Len(r) = Len(p) + Len(q) /\ (\A i \in 1..Len(p) : r[i] = p[i]) /\ \A i \in 1..Len(q) : r[Len(p) + i] = q[i]
      BY <1>3, JoinIs
    <2>2. 1 \in 1..Len(p) /\ 1 \in 1..Len(q) /\ Len(p) + 1 = 2
      BY <1>1, <1>2
    <2>3. r[1] = p[1] /\ r[Len(p) + 1] = q[1]
      BY <2>1, <2>2
    <2> QED BY <1>1, <1>2, <2>1, <2>2, <2>3
  <1>5. PICK pair \in Seq(S) : pair = <<x, y>> /\ Len(pair) = 2 /\ pair[1] = x /\ pair[2] = y
    <2>1. <<x, y>> \in Seq(S) /\ Len(<<x, y>>) = 2 /\ <<x, y>>[1] = x /\ <<x, y>>[2] = y
      OBVIOUS
    <2> QED BY <2>1, Zenon
  <1>6. \A i \in 1..Len(pair) : pair[i] = r[i]
    <2>1. \A i \in 1..2 : i = 1 \/ i = 2
      OBVIOUS
    <2> QED BY <1>4, <1>5, <2>1
  <1>7. pair = r
    BY <1>4, <1>5, <1>6, SameSeq
  <1> QED BY <1>1, <1>2, <1>3, <1>5, <1>7, Zenon

LEMMA TwoInARow ==
  ASSUME NEW S, NEW a \in Seq(S), NEW x \in S, NEW y \in S
  PROVE  a \o <<x, y>> = (a \o <<x>>) \o <<y>>
  <1>1. <<x>> \in Seq(S) /\ <<y>> \in Seq(S)
    OBVIOUS
  <1>2. <<x, y>> = <<x>> \o <<y>>
    BY PairIs
  <1>3. (a \o <<x>>) \o <<y>> = a \o (<<x>> \o <<y>>)
    BY <1>1, JoinThree
  <1> QED BY <1>2, <1>3, Zenon

\* One message more, of the model or of the user.
MaySay(entries, t, clipped, turns, waiting, first, m, after) ==
  /\ ReadWell(entries, t, clipped, turns, waiting, first) /\ clipped \in BOOLEAN /\ waiting \in Nat
  /\ m \in Message /\ m.role \notin {"system", "tool"} /\ after = WaitingAfter(m, waiting)
Said(entries, t, clipped, turns, first, m, after) ==
  /\ ReadWell(entries \o <<m>>, Added(t, <<m>>), clipped, turns, after, first)
  /\ InSight(Added(t, <<m>>)) = InSight(t) \o <<m>>
  /\ Len(InSight(Added(t, <<m>>))) = Len(InSight(t)) + 1
  /\ AppliedTo(t, <<m>>) = Added(t, <<m>>)
  /\ PrefixOf(entries \o <<m>>) = PrefixOf(entries)

LEMMA WellOne ==
  ASSUME NEW entries, NEW t, NEW clipped, NEW turns, NEW waiting, NEW first, NEW m, NEW after,
         MaySay(entries, t, clipped, turns, waiting, first, m, after)
  PROVE  Said(entries, t, clipped, turns, first, m, after)
  <1>1. /\ ReadWell(entries, t, clipped, turns, waiting, first) /\ clipped \in BOOLEAN /\ waiting \in Nat
        /\ m \in Message /\ m.role \notin {"system", "tool"} /\ after = WaitingAfter(m, waiting)
    BY DEF MaySay
  <1>2. PICK v \in Seq(Message) : v = InSight(t)
    BY <1>1, WellIs
  <1>3. PICK ms \in Seq(Message) : ms = <<m>>
    BY <1>1, OneIs
  <1>4. ms # << >> /\ Len(ms) = 1 /\ NoneOfSystem(ms)
    BY <1>1, <1>3 DEF NoneOfSystem
  <1>5. ~Compacted(entries) => Paired(SampleOf(v \o ms), after)
    <2>1. ~Compacted(entries) => Paired(SampleOf(v), waiting)
      BY <1>1, <1>2 DEF ReadWell
    <2>2. Paired(SampleOf(v), waiting) => Paired(SampleOf(v \o ms), after)
      BY <1>1, <1>3, PairedOne
    <2> QED BY <2>1, <2>2
  <1>6. ReadWell(entries \o ms, Added(t, ms), clipped, turns, after, first) /\ InSight(Added(t, ms)) = v \o ms
    <2>1. MayFollow(entries, t, clipped, turns, waiting, first, ms, after)
      BY <1>1, <1>2, <1>4, <1>5 DEF MayFollow, PairedUnlessCompacted
    <2>2. Followed(entries, t, clipped, turns, first, ms, after)
      BY <2>1, WellAdded
    <2> QED BY <1>2, <2>2 DEF Followed
  <1>7. Len(v \o ms) = Len(v) + 1
    <2>1. Len(v \o ms) = Len(v) + Len(ms)
      BY JoinIs
    <2> QED BY <1>4, <2>1
  <1>8. AppliedTo(t, ms) = Added(t, ms)
    BY <1>4, AppliedMessages
  <1>9. PrefixOf(entries \o ms) = PrefixOf(entries)
    <2>1. entries \in Seq(Entries) /\ entries # << >> /\ ms \in Seq(Entries)
      BY <1>1 DEF ReadWell, Entries
    <2> QED BY <2>1, GrownLog
  <1> QED BY <1>2, <1>3, <1>6, <1>7, <1>8, <1>9 DEF Said

-----------------------------------------------------------------------------
(***************************************************************************)
(* The requests.                                                           *)
(***************************************************************************)
OmittedBy(keep, visible) ==
  LET tools == ToolIndices(visible)
  IN  IF keep < 0 THEN {} ELSE {i \in tools : Cardinality({j \in tools : j > i}) >= keep}
ViewsWith(keep, entries) ==
  {LET visible == Materialized(entries, n) IN Wire(visible, OmittedBy(keep, visible)) : n \in 0..Len(entries)}

LEMMA ViewsAre ==
  /\ PrefixViews(log) = ViewsWith(keepToolResult, log)
  /\ PrefixViews(log)' = ViewsWith(keepToolResult', log')
  BY DEF PrefixViews, ViewsWith, Omitted, OmittedBy

LEMMA ViewsGrow ==
  ASSUME NEW keep, NEW entries \in Seq(Entries), NEW more \in Seq(Entries)
  PROVE  ViewsWith(keep, entries) \subseteq ViewsWith(keep, entries \o more)
  <1>1. PICK n \in Nat : n = Len(entries)
    OBVIOUS
  <1>2. PICK all \in Seq(Entries) : all = entries \o more
    BY JoinIs
  <1>3. Len(all) = n + Len(more) /\ Len(more) \in Nat /\ \A i \in 1..n : all[i] = entries[i]
    BY <1>1, <1>2, JoinIs
  <1>4. ASSUME NEW k \in 0..n
        PROVE  k \in 0..Len(all) /\ Materialized(entries, k) = Materialized(all, k)
    <2>1. \A i \in 1..k : entries[i] = all[i]
      BY <1>3
    <2>2. k \in Nat /\ k \in 0..Len(all)
      BY <1>3
    <2> QED BY <2>1, <2>2, SightAgree
  <1> QED BY <1>1, <1>2, <1>4 DEF ViewsWith

LEMMA SentIsView ==
  ASSUME ReadersInv
  PROVE  Sent \in ViewsWith(keepToolResult, log)
  <1>1. Materialized(log, Len(log)) = Visible
    BY DEF ReadersInv, ReadWell, ReadAs, Visible
  <1>2. keepToolResult \in Int
    BY ReadersAssumption DEF ReadersInv
  <1>3. Placeholders(Visible) = OmittedBy(keepToolResult, Visible)
    <2>1. CASE keepToolResult < 0
      <3>1. ~(keepToolResult >= 0)
        BY <1>2, <2>1
      <3> QED BY <2>1, <3>1 DEF Placeholders, OmittedBy
    <2>2. CASE ~(keepToolResult < 0)
      <3>1. keepToolResult >= 0
        BY <1>2, <2>2
      <3> QED BY <2>2, <3>1 DEF Placeholders, OmittedBy
    <2> QED BY <2>1, <2>2
  <1>4. log \in Seq(Entries)
    BY DEF ReadersInv, ReadWell
  <1>5. Len(log) \in 0..Len(log)
    BY <1>4, ElementsOf
  <1>6. Sent = Wire(Materialized(log, Len(log)), OmittedBy(keepToolResult, Materialized(log, Len(log))))
    BY <1>1, <1>3 DEF Sent
  <1> QED BY <1>5, <1>6 DEF ViewsWith

LEMMA RequestsKept ==
  ASSUME ReadersInv, keepToolResult' = keepToolResult, NEW entries \in Seq(Entries), log' = log \o entries,
         requests' = requests \/ requests' = requests \cup {Sent}
  PROVE  requests' \subseteq PrefixViews(log)'
  <1>1. requests \subseteq ViewsWith(keepToolResult, log)
    BY ViewsAre DEF ReadersInv
  <1>2. Sent \in ViewsWith(keepToolResult, log)
    BY SentIsView
  <1>3. log \in Seq(Entries)
    BY DEF ReadersInv, ReadWell
  <1>4. PICK keep : keep = keepToolResult
    OBVIOUS
  <1>5. ViewsWith(keep, log) \subseteq ViewsWith(keep, log \o entries)
    BY <1>3, ViewsGrow
  <1>6. requests' \subseteq ViewsWith(keep, log \o entries)
    BY <1>1, <1>2, <1>4, <1>5
  <1>7. PrefixViews(log)' = ViewsWith(keepToolResult', log')
    BY ViewsAre
  <1> QED BY <1>4, <1>6, <1>7

-----------------------------------------------------------------------------
(***************************************************************************)
(* What the runtime appends: a marker, with messages before it or after.   *)
(***************************************************************************)
LEMMA AppliedMarker ==
  ASSUME NEW t, NEW e \in Markers
  PROVE  AppliedTo(t, <<e>>) = Tracked(t, e)
  <1>1. PICK none : none = << >> /\ none \in Seq(Message)
    BY NoneIs
  <1>2. AppliedTo(t, (none \o <<e>>) \o none) = AddedIfAny(Tracked(AddedIfAny(t, none), e), none)
    BY <1>1, AppliedMarked, ZenonT(60)
  <1>3. PICK one : one = <<e>> /\ one \in Seq(Entries)
    BY OneIs DEF Entries
  <1>4. none \o one = one /\ one \o none = one
    BY <1>1, <1>3, EmptyJoined
  <1> QED BY <1>1, <1>2, <1>3, <1>4 DEF AddedIfAny

LEMMA AppliedMarkerThen ==
  ASSUME NEW t, NEW e \in Markers, NEW u \in Message
  PROVE  AppliedTo(t, <<e, u>>) = Added(Tracked(t, e), <<u>>)
  <1>1. PICK none : none = << >> /\ none \in Seq(Message)
    BY NoneIs
  <1>2. PICK one \in Seq(Message) : one = <<u>> /\ one # << >>
    BY OneIs
  <1>3. AppliedTo(t, (none \o <<e>>) \o one) = AddedIfAny(Tracked(AddedIfAny(t, none), e), one)
    BY <1>1, AppliedMarked, ZenonT(60)
  <1>4. e \in Entries /\ u \in Entries
    BY DEF Entries
  <1>5. <<e>> \o <<u>> = <<e, u>>
    BY <1>4, PairIs
  <1>6. none \o <<e>> = <<e>>
    <2>1. <<e>> \in Seq(Entries)
      BY <1>4
    <2> QED BY <1>1, <2>1, EmptyJoined
  <1>7. (none \o <<e>>) \o one = <<e, u>>
    BY <1>2, <1>5, <1>6, Zenon
  <1> QED BY <1>1, <1>2, <1>3, <1>7 DEF AddedIfAny

LEMMA AppliedThenMarker ==
  ASSUME NEW t, NEW m \in Message, NEW e \in Markers
  PROVE  AppliedTo(t, <<m, e>>) = Tracked(Added(t, <<m>>), e)
  <1>1. PICK none : none = << >> /\ none \in Seq(Message)
    BY NoneIs
  <1>2. PICK one \in Seq(Message) : one = <<m>> /\ one # << >>
    BY OneIs
  <1>3. AppliedTo(t, (one \o <<e>>) \o none) = AddedIfAny(Tracked(AddedIfAny(t, one), e), none)
    BY <1>1, AppliedMarked, ZenonT(60)
  <1>4. e \in Entries /\ m \in Entries
    BY DEF Entries
  <1>5. <<m>> \o <<e>> = <<m, e>>
    BY <1>4, PairIs
  <1>6. <<m, e>> \o none = <<m, e>>
    <2>1. <<m, e>> \in Seq(Entries)
      BY <1>4
    <2> QED BY <1>1, <2>1, EmptyJoined
  <1>7. (one \o <<e>>) \o none = <<m, e>>
    BY <1>2, <1>5, <1>6, Zenon
  <1> QED BY <1>1, <1>2, <1>3, <1>7 DEF AddedIfAny

LEMMA AppliedAround ==
  ASSUME NEW t, NEW ms \in Seq(Message), ms # << >>, NEW e \in Markers, NEW u \in Message
  PROVE  AppliedTo(t, ms \o <<e, u>>) = Added(Tracked(Added(t, ms), e), <<u>>)
  <1>1. PICK one \in Seq(Message) : one = <<u>> /\ one # << >>
    BY OneIs
  <1>2. AppliedTo(t, (ms \o <<e>>) \o one) = AddedIfAny(Tracked(AddedIfAny(t, ms), e), one)
    BY <1>1, AppliedMarked, ZenonT(60)
  <1>3. ms \o <<e, u>> = (ms \o <<e>>) \o <<u>>
    <2>1. ms \in Seq(Entries) /\ e \in Entries /\ u \in Entries
      BY DEF Entries
    <2> QED BY <2>1, TwoInARow, SMTT(30)
  <1> QED BY <1>1, <1>2, <1>3 DEF AddedIfAny

\* Two messages are a segment together.
LEMMA AppliedTwo ==
  ASSUME NEW t, NEW m \in Message, NEW u \in Message
  PROVE  <<m, u>> \in Seq(Message) /\ <<m, u>> # << >> /\ AppliedTo(t, <<m, u>>) = Added(t, <<m, u>>)
  <1>1. <<m, u>> \in Seq(Message) /\ <<m, u>> # << >>
    OBVIOUS
  <1> QED BY <1>1, AppliedMessages

\* An anchor may be set first.
LEMMA ObservedWell ==
  ASSUME ReadersInv, NEW t \in Observed, NEW first, first = IF t.anchor # tracker.anchor THEN Visible ELSE anchored
  PROVE  ReadWell(log, t, forced, resets, IF awaited > 0 THEN awaited ELSE 0, first)
         /\ InSight(t) = InSight(tracker) /\ t.segments = tracker.segments
  <1>1. PICK waiting : waiting = IF awaited > 0 THEN awaited ELSE 0
    OBVIOUS
  <1>2. ReadWell(log, tracker, forced, resets, waiting, anchored)
    BY <1>1 DEF ReadersInv
  <1>3. PICK v \in Seq(Message) : v = InSight(tracker) /\ Len(v) \in Nat
    BY <1>2, WellIs
  <1>4. tracker.segments \in Seq(Segment) /\ tracker.anchor \in Nat /\ tracker.tokens \in Nat
        /\ tracker = [segments |-> tracker.segments, tokens |-> tracker.tokens, anchor |-> tracker.anchor]
    BY <1>2 DEF ReadWell, TrackerInv, Trackers
  <1>5. CASE t = tracker
    BY <1>1, <1>2, <1>5
  <1>6. CASE t = [tracker EXCEPT !.anchor = Len(Visible)]
    <2>1. t.segments = tracker.segments /\ t.tokens = tracker.tokens /\ t.anchor = Len(v) /\ t \in Trackers
      BY <1>3, <1>4, <1>6 DEF Visible, Trackers
    <2>2. InSight(t) = v
      BY <1>3, <2>1 DEF InSight
    <2>3. TrackerInv(t, forced)
      BY <1>2, <2>1 DEF ReadWell, TrackerInv
    <2>4. SubSeq(v, 1, Len(v)) = v
      BY <1>3, WholePrefix
    <2>5. t.anchor > 0 => SubSeq(v, 1, t.anchor) = first
      <3>1. CASE t.anchor # tracker.anchor
        BY <1>3, <2>1, <2>4, <3>1 DEF Visible
      <3>2. CASE t.anchor = tracker.anchor
        BY <1>2, <1>3, <3>2 DEF ReadWell
      <3> QED BY <3>1, <3>2
    <2>6. t.anchor <= Len(v)
      BY <1>3, <2>1
    <2>7. ReadWell(log, t, forced, resets, waiting, first)
      BY <1>2, <1>3, <2>2, <2>3, <2>5, <2>6 DEF ReadWell
    <2> QED BY <1>1, <1>3, <2>1, <2>2, <2>7
  <1> QED BY <1>5, <1>6 DEF Observed

-----------------------------------------------------------------------------
(***************************************************************************)
(* The steps.                                                              *)
(***************************************************************************)
\* What there is to show of a step.
LEMMA StepIsWell ==
  ASSUME ReadersInv, keepToolResult' = keepToolResult, NEW entries \in Seq(Entries), log' = log \o entries,
         requests' = requests \/ requests' = requests \cup {Sent},
         awaited' \in {-1, 0, 1, 2}, forced' \in BOOLEAN,
         NEW waiting, waiting = IF awaited' > 0 THEN awaited' ELSE 0,
         ReadWell(log', tracker', forced', resets', waiting, anchored'),
         awaited' > 0 => ~forced' /\ PrefixOf(log') < Len(InSight(tracker'))
  PROVE  ReadersInv'
  <1>1. requests' \subseteq PrefixViews(log)'
    BY RequestsKept
  <1>2. keepToolResult' \in KeepChoices
    BY DEF ReadersInv
  <1> QED BY <1>1, <1>2 DEF ReadersInv

\* What the model says, and what the user is made to say.
LEMMA SpeechIs ==
  ASSUME NEW n \in Nat, NEW text \in Nat, NEW role \in {"assistant", "user"}
  PROVE  /\ LogEntry(role, text, n) \in Message /\ LogEntry(role, text, n) \in Entries
         /\ LogEntry(role, text, n).role = role /\ LogEntry(role, text, n).calls = n
  BY DEF LogEntry, Message, Entries

LEMMA NothingAwaited ==
  ASSUME ReadersInv, awaited = 0
  PROVE  /\ ReadWell(log, tracker, forced, resets, 0, anchored) /\ forced \in BOOLEAN
         /\ log \in Seq(Entries) /\ log # << >> /\ Len(log) \in Nat
         /\ \A t \in Observed : \A first : first = (IF t.anchor # tracker.anchor THEN Visible ELSE anchored) =>
              ReadWell(log, t, forced, resets, 0, first) /\ InSight(t) = InSight(tracker) /\ t.segments = tracker.segments
  <1>1. 0 = IF awaited > 0 THEN awaited ELSE 0
    OBVIOUS
  <1>2. ReadWell(log, tracker, forced, resets, 0, anchored) /\ forced \in BOOLEAN
    BY <1>1 DEF ReadersInv
  <1>3. log \in Seq(Entries) /\ log # << >>
    BY <1>2 DEF ReadWell
  <1>4. Len(log) \in Nat
    BY <1>3
  <1>5. ASSUME NEW t \in Observed, NEW first, first = IF t.anchor # tracker.anchor THEN Visible ELSE anchored
        PROVE  ReadWell(log, t, forced, resets, 0, first) /\ InSight(t) = InSight(tracker) /\ t.segments = tracker.segments
    BY <1>1, <1>5, ObservedWell
  <1> QED BY <1>2, <1>3, <1>4, <1>5

\* The model speaks: one message of its own, and the log and the tracker after it.
LEMMA ModelSpeaks ==
  ASSUME ReadersInv, awaited = 0, NEW t \in Observed, NEW n \in Nat, NEW m, m = LogEntry("assistant", NextText, n)
  PROVE  /\ m \in Message /\ m \in Entries /\ m.role = "assistant"
         /\ Said(log, t, forced, resets, IF t.anchor # tracker.anchor THEN Visible ELSE anchored, m, n)
         /\ InSight(t) = InSight(tracker) /\ t.segments = tracker.segments
         /\ PrefixOf(log) <= Len(InSight(t)) /\ Len(InSight(t)) \in Nat /\ PrefixOf(log) \in {1, 2}
  <1>1. PICK first : first = IF t.anchor # tracker.anchor THEN Visible ELSE anchored
    OBVIOUS
  <1>2. ReadWell(log, t, forced, resets, 0, first) /\ InSight(t) = InSight(tracker) /\ t.segments = tracker.segments
    BY <1>1, NothingAwaited
  <1>3. forced \in BOOLEAN /\ Len(log) \in Nat
    BY NothingAwaited
  <1>4. NextText \in Nat
    BY <1>3 DEF NextText
  <1>5. m \in Message /\ m \in Entries /\ m.role = "assistant" /\ m.calls = n
    BY <1>4, SpeechIs
  <1>6. n = WaitingAfter(m, 0)
    BY <1>5 DEF WaitingAfter
  <1>7. MaySay(log, t, forced, resets, 0, first, m, n)
    BY <1>2, <1>3, <1>5, <1>6 DEF MaySay
  <1>8. Said(log, t, forced, resets, first, m, n)
    BY <1>7, WellOne
  <1>9. PrefixOf(log) <= Len(InSight(t)) /\ Len(InSight(t)) \in Nat /\ PrefixOf(log) \in {1, 2}
    BY <1>2, WellIs
  <1> QED BY <1>1, <1>2, <1>5, <1>8, <1>9

LEMMA CallToolsIsWell ==
  ASSUME ReadersInv, keepToolResult' = keepToolResult, CallTools
  PROVE  ReadersInv'
  <1>1. PICK n \in 1..2 : Asked(<<LogEntry("assistant", NextText, n)>>) /\ awaited' = n
    BY DEF CallTools
  <1>2. awaited = 0 /\ requests' = requests \cup {Sent} /\ ~forced /\ forced' = forced /\ resets' = resets
    BY <1>1 DEF Asked, CallTools
  <1>3. PICK m : m = LogEntry("assistant", NextText, n)
    OBVIOUS
  <1>4. PICK t \in Observed : Extended(t, <<m>>) /\ anchored' = IF t.anchor # tracker.anchor THEN Visible ELSE anchored
    BY <1>1, <1>3 DEF Asked
  <1>5. log' = log \o <<m>> /\ tracker' = AppliedTo(t, <<m>>)
    BY <1>4 DEF Extended
  <1>6. n \in Nat /\ n > 0 /\ n \in {-1, 0, 1, 2}
    OBVIOUS
  <1>7. /\ m \in Entries /\ Said(log, t, forced, resets, anchored', m, n)
        /\ PrefixOf(log) <= Len(InSight(t)) /\ Len(InSight(t)) \in Nat /\ PrefixOf(log) \in {1, 2}
    BY <1>2, <1>3, <1>4, <1>6, ModelSpeaks
  <1>8. ReadWell(log', tracker', forced', resets', n, anchored')
    BY <1>2, <1>5, <1>7 DEF Said
  <1>9. PrefixOf(log') < Len(InSight(tracker'))
    <2>1. PrefixOf(log') = PrefixOf(log) /\ Len(InSight(tracker')) = Len(InSight(t)) + 1
      BY <1>5, <1>7 DEF Said
    <2> QED BY <1>7, <2>1
  <1>10. <<m>> \in Seq(Entries) /\ forced' \in BOOLEAN
    BY <1>2, <1>7, OneIs DEF ReadersInv
  <1>11. n = IF awaited' > 0 THEN awaited' ELSE 0
    BY <1>1, <1>6
  <1> QED BY <1>1, <1>2, <1>5, <1>6, <1>8, <1>9, <1>10, <1>11, StepIsWell

LEMMA GiveAnswerIsWell ==
  ASSUME ReadersInv, keepToolResult' = keepToolResult, GiveAnswer
  PROVE  ReadersInv'
  <1>1. PICK m : m = LogEntry("assistant", NextText, 0)
    OBVIOUS
  <1>2. awaited = 0 /\ requests' = requests \cup {Sent} /\ awaited' = -1 /\ forced' = forced /\ resets' = resets
    BY DEF Asked, GiveAnswer
  <1>3. PICK t \in Observed : Extended(t, <<m>>) /\ anchored' = IF t.anchor # tracker.anchor THEN Visible ELSE anchored
    BY <1>1 DEF Asked, GiveAnswer
  <1>4. log' = log \o <<m>> /\ tracker' = AppliedTo(t, <<m>>)
    BY <1>3 DEF Extended
  <1>5. m \in Entries /\ Said(log, t, forced, resets, anchored', m, 0)
    BY <1>1, <1>2, <1>3, ModelSpeaks
  <1>6. ReadWell(log', tracker', forced', resets', 0, anchored')
    BY <1>2, <1>4, <1>5 DEF Said
  <1>7. <<m>> \in Seq(Entries) /\ forced' \in BOOLEAN
    BY <1>2, <1>5, OneIs DEF ReadersInv
  <1>8. 0 = (IF awaited' > 0 THEN awaited' ELSE 0) /\ ~(awaited' > 0) /\ awaited' \in {-1, 0, 1, 2}
    BY <1>2
  <1> QED BY <1>2, <1>4, <1>6, <1>7, <1>8, StepIsWell

LEMMA PairedTwo ==
  ASSUME NEW v \in Seq(Message), NEW m \in Message, NEW u \in Message, Paired(SampleOf(v), 0),
         m.role = "assistant", m.calls = 0, u.role = "user"
  PROVE  Paired(SampleOf(v \o <<m, u>>), 0)
  <1>1. PICK w \in Seq(Message) : w = v \o <<m>>
    BY OneIs, JoinIs
  <1>2. WaitingAfter(m, 0) = 0 /\ WaitingAfter(u, 0) = 0 /\ m.role # "tool" /\ u.role # "tool" /\ 0 \in Nat
    BY DEF WaitingAfter
  <1>3. Paired(SampleOf(w), 0)
    BY <1>1, <1>2, PairedOne
  <1>4. Paired(SampleOf(w \o <<u>>), 0)
    BY <1>2, <1>3, PairedOne
  <1>5. v \o <<m, u>> = w \o <<u>>
    BY <1>1, TwoInARow, SMTT(30)
  <1> QED BY <1>4, <1>5

LEMMA RepromptIsWell ==
  ASSUME ReadersInv, keepToolResult' = keepToolResult, Reprompt
  PROVE  ReadersInv'
  <1>1. PICK m : m = LogEntry("assistant", NextText, 0)
    OBVIOUS
  <1>2. PICK u : u = LogEntry("user", NextText + 1, 0)
    OBVIOUS
  <1>3. awaited = 0 /\ requests' = requests \cup {Sent} /\ awaited' = awaited /\ forced' = forced /\ resets' = resets
    BY DEF Asked, Reprompt
  <1>4. PICK t \in Observed :
          Extended(t, <<m, u>>) /\ anchored' = IF t.anchor # tracker.anchor THEN Visible ELSE anchored
    BY <1>1, <1>2 DEF Asked, Reprompt
  <1>5. log' = log \o <<m, u>> /\ tracker' = AppliedTo(t, <<m, u>>)
    BY <1>4 DEF Extended
  <1>6. ReadWell(log, t, forced, resets, 0, anchored') /\ forced \in BOOLEAN /\ Len(log) \in Nat
    BY <1>3, <1>4, NothingAwaited
  <1>7. NextText \in Nat /\ NextText + 1 \in Nat
    BY <1>6 DEF NextText
  <1>8. m \in Message /\ m.role = "assistant" /\ m.calls = 0 /\ u \in Message /\ u.role = "user"
        /\ m \in Entries /\ u \in Entries
    BY <1>1, <1>2, <1>7, SpeechIs
  <1>9. PICK ms : ms = <<m, u>> /\ ms \in Seq(Message) /\ ms # << >> /\ AppliedTo(t, ms) = Added(t, ms)
    BY <1>8, AppliedTwo
  <1>10. NoneOfSystem(ms)
    <2>1. Len(<<m, u>>) = 2 /\ <<m, u>>[1] = m /\ <<m, u>>[2] = u
      OBVIOUS
    <2>2. \A i \in 1..2 : i = 1 \/ i = 2
      OBVIOUS
    <2> QED BY <1>8, <1>9, <2>1, <2>2 DEF NoneOfSystem
  <1>11. PICK v \in Seq(Message) : v = InSight(t)
    BY <1>6, WellIs
  <1>12. ~Compacted(log) => Paired(SampleOf(v \o ms), 0)
    <2>1. ~Compacted(log) => Paired(SampleOf(v), 0)
      BY <1>6, <1>11 DEF ReadWell
    <2>2. Paired(SampleOf(v), 0) => Paired(SampleOf(v \o ms), 0)
      BY <1>8, <1>9, PairedTwo
    <2> QED BY <2>1, <2>2
  <1>13. MayFollow(log, t, forced, resets, 0, anchored', ms, 0)
    BY <1>6, <1>9, <1>10, <1>11, <1>12 DEF MayFollow, PairedUnlessCompacted
  <1>14. Followed(log, t, forced, resets, anchored', ms, 0)
    BY <1>13, WellAdded
  <1>15. ReadWell(log', tracker', forced', resets', 0, anchored')
    BY <1>3, <1>5, <1>9, <1>14 DEF Followed
  <1>16. <<m, u>> \in Seq(Entries) /\ forced' \in BOOLEAN
    BY <1>3, <1>6, <1>8
  <1>17. 0 = (IF awaited' > 0 THEN awaited' ELSE 0) /\ ~(awaited' > 0) /\ awaited' \in {-1, 0, 1, 2}
    BY <1>3
  <1> QED BY <1>3, <1>5, <1>15, <1>16, <1>17, StepIsWell

LEMMA WithdrawIsWell ==
  ASSUME ReadersInv, keepToolResult' = keepToolResult, Withdraw
  PROVE  ReadersInv'
  <1>1. PICK m : m = LogEntry("assistant", NextText, 0)
    OBVIOUS
  <1>2. PICK e \in Markers : e = RollbackEntry(1)
    BY SeenRollback
  <1>3. /\ awaited = 0 /\ requests' = requests \cup {Sent} /\ awaited' = awaited
        /\ forced = FALSE /\ forced' = FALSE /\ resets' = resets
    BY DEF Asked, Withdraw, ReadersInv
  <1>4. PICK t \in Observed :
          Extended(t, <<m, e>>) /\ anchored' = IF t.anchor # tracker.anchor THEN Visible ELSE anchored
    BY <1>1, <1>2 DEF Asked, Withdraw
  <1>5. log' = log \o <<m, e>> /\ tracker' = AppliedTo(t, <<m, e>>)
    BY <1>4 DEF Extended
  <1>6. /\ m \in Message /\ m \in Entries /\ Said(log, t, FALSE, resets, anchored', m, 0)
        /\ PrefixOf(log) <= Len(InSight(t)) /\ Len(InSight(t)) \in Nat /\ PrefixOf(log) \in {1, 2}
    BY <1>1, <1>3, <1>4, ModelSpeaks
  <1>7. PICK said : said = log \o <<m>>
    OBVIOUS
  <1>8. PICK u : u = Added(t, <<m>>)
    OBVIOUS
  <1>9. PICK left \in Nat : left = Len(InSight(t))
    BY <1>6
  <1>10. /\ ReadWell(said, u, FALSE, resets, 0, anchored') /\ Len(InSight(u)) = left + 1 /\ PrefixOf(said) = PrefixOf(log)
    BY <1>6, <1>7, <1>8, <1>9 DEF Said
  <1>11. left \in PrefixOf(said)..Len(InSight(u)) /\ left = Len(InSight(u)) - 1
    BY <1>6, <1>9, <1>10
  <1>12. MayTake(said, u, resets, 0, anchored', 1, left)
    BY <1>10, <1>11 DEF MayTake
  <1>13. Taken(said, u, resets, anchored', 1, left)
    BY <1>12, WellRolledBack
  <1>14. \E r \in 1..Len(u.segments) : left = SegmentEnd(u, r)
    <2>1. ReadWell(log, t, FALSE, resets, 0, anchored')
      BY <1>3, <1>4, NothingAwaited
    <2>2. TrackerInv(t, FALSE) /\ t.segments \in Seq(Segment)
      BY <2>1 DEF ReadWell, TrackerInv, Trackers
    <2>3. <<m>> \in Seq(Message) /\ <<m>> # << >>
      BY <1>6, OneIs
    <2>4. Len(u.segments) = Len(t.segments) + 1 /\ SegmentEnd(u, Len(t.segments)) = left
      BY <1>8, <1>9, <2>2, <2>3, AddedIs
    <2>5. Len(t.segments) \in Nat
      BY <2>2
    <2>6. Len(t.segments) # 0
      <3>1. SUFFICES ASSUME Len(t.segments) = 0 PROVE FALSE
        OBVIOUS
      <3>2. Len(InSight(t)) = SegmentEnd(t, 0)
        BY <2>2, <3>1, SightIs
      <3>3. SegmentEnd(t, 0) = 0
        BY <2>2, EndsGrow
      <3> QED BY <1>6, <3>2, <3>3
    <2>7. Len(t.segments) \in 1..Len(u.segments)
      BY <2>4, <2>5, <2>6
    <2> QED BY <2>4, <2>7
  <1>15. Tracked(u, e) = RolledBack(u, 1)
    BY <1>2, SeenRollback
  <1>16. tracker' = RolledBack(u, 1)
    BY <1>5, <1>6, <1>8, <1>15, AppliedThenMarker
  <1>17. log' = said \o <<e>>
    <2>1. log \in Seq(Entries) /\ e \in Entries
      BY <1>3, NothingAwaited DEF Entries
    <2> QED BY <1>5, <1>6, <1>7, <2>1, TwoInARow, SMTT(30)
  <1>18. ReadWell(log', tracker', forced', resets', 0, anchored')
    BY <1>2, <1>3, <1>13, <1>14, <1>16, <1>17 DEF Taken
  <1>19. <<m, e>> \in Seq(Entries) /\ forced' \in BOOLEAN
    <2>1. e \in Entries
      BY DEF Entries
    <2>2. <<m, e>> \in Seq(Entries)
      BY <1>6, <2>1
    <2> QED BY <1>3, <2>2
  <1>20. 0 = (IF awaited' > 0 THEN awaited' ELSE 0) /\ ~(awaited' > 0) /\ awaited' \in {-1, 0, 1, 2}
    BY <1>3
  <1> QED BY <1>3, <1>5, <1>18, <1>19, <1>20, StepIsWell

\* After a rollback the user is made to ask for the answer.
LEMMA AskedForAnswer ==
  ASSUME NEW entries, NEW t, NEW turns, NEW first, NEW count \in Nat, NEW left, Taken(entries, t, turns, first, count, left),
         NEW u \in Message, u.role = "user"
  PROVE  ReadWell((entries \o <<RollbackEntry(count)>>) \o <<u>>, Added(RolledBack(t, count), <<u>>), TRUE, turns, 0, first)
  <1>1. PICK more : more = entries \o <<RollbackEntry(count)>>
    OBVIOUS
  <1>2. PICK after : after = RolledBack(t, count)
    OBVIOUS
  <1>3. ReadWell(more, after, TRUE, turns, 0, first)
    BY <1>1, <1>2 DEF Taken
  <1>4. 0 = WaitingAfter(u, 0)
    BY DEF WaitingAfter
  <1>5. MaySay(more, after, TRUE, turns, 0, first, u, 0)
    BY <1>3, <1>4 DEF MaySay
  <1>6. Said(more, after, TRUE, turns, first, u, 0)
    BY <1>5, WellOne
  <1> QED BY <1>1, <1>2, <1>6 DEF Said

LEMMA DropExchangeIsWell ==
  ASSUME ReadersInv, keepToolResult' = keepToolResult, DropExchange
  PROVE  ReadersInv'
  <1>1. /\ awaited = 0 /\ awaited' = 0 /\ requests' = requests /\ resets' = resets /\ anchored' = anchored
        /\ forced = FALSE /\ forced' = TRUE
    BY DEF DropExchange, ReadersInv
  <1>2. ReadWell(log, tracker, FALSE, resets, 0, anchored) /\ log \in Seq(Entries) /\ Len(log) \in Nat
    BY <1>1, NothingAwaited
  <1>3. PICK v \in Seq(Message) : v = InSight(tracker)
    BY <1>2, WellIs
  <1>4. PICK caller : caller = SelectLastInSeq(v, LAMBDA e : e.role # "tool")
    OBVIOUS
  <1>5. caller \in 0..Len(v)
    BY <1>4, LastCaller
  <1>6. PICK u : u = LogEntry("user", NextText + 1, 0)
    OBVIOUS
  <1>7. caller > 0 /\ caller < Len(v) /\ v[caller].calls > 0
        /\ Extended(tracker, <<RollbackEntry(Len(v) - caller + 1), u>>)
    BY <1>3, <1>4, <1>6 DEF DropExchange, Visible
  <1>8. NextText + 1 \in Nat
    BY <1>2 DEF NextText
  <1>9. u \in Message /\ u.role = "user" /\ u \in Entries
    BY <1>6, <1>8, SpeechIs
  <1>10. PICK prefix \in {1, 2} : prefix = PrefixOf(log)
    BY <1>2, WellIs
  <1>11. \A i \in 1..prefix : v[i].calls = 0
    BY <1>2, <1>3, <1>10 DEF ReadWell, Opened
  <1>12. caller > prefix
    <2>1. SUFFICES ASSUME ~(caller > prefix) PROVE FALSE
      OBVIOUS
    <2>2. caller \in 1..prefix
      BY <1>5, <1>7, <2>1
    <2>3. v[caller].calls = 0
      BY <1>11, <2>2
    <2> QED BY <1>7, <2>3
  <1>13. PICK count \in Nat : count = Len(v) - caller + 1
    BY <1>5
  <1>14. PICK left \in prefix..Len(v) : left = Len(v) - count
    <2>1. Len(v) - count = caller - 1 /\ caller - 1 \in prefix..Len(v)
      BY <1>5, <1>12, <1>13
    <2> QED BY <2>1
  <1>15. MayTake(log, tracker, resets, 0, anchored, count, left)
    BY <1>2, <1>3, <1>10, <1>14 DEF MayTake
  <1>16. Taken(log, tracker, resets, anchored, count, left)
    BY <1>15, WellRolledBack
  <1>17. PICK e \in Markers : e = RollbackEntry(count) /\ Tracked(tracker, e) = RolledBack(tracker, count)
    BY SeenRollback
  <1>18. log' = log \o <<e, u>> /\ tracker' = AppliedTo(tracker, <<e, u>>)
    BY <1>7, <1>13, <1>17 DEF Extended
  <1>19. tracker' = Added(RolledBack(tracker, count), <<u>>)
    BY <1>9, <1>17, <1>18, AppliedMarkerThen
  <1>20. e \in Entries
    BY DEF Entries
  <1>21. log' = (log \o <<e>>) \o <<u>>
    <2>1. log \o <<e, u>> = (log \o <<e>>) \o <<u>>
      BY <1>2, <1>9, <1>20, TwoInARow, SMTT(30)
    <2> QED BY <1>18, <2>1, Zenon
  <1>22. ReadWell((log \o <<e>>) \o <<u>>, Added(RolledBack(tracker, count), <<u>>), TRUE, resets, 0, anchored)
    BY <1>9, <1>16, <1>17, AskedForAnswer
  <1>23. ReadWell(log', tracker', forced', resets', 0, anchored')
    BY <1>1, <1>19, <1>21, <1>22
  <1>24. <<e, u>> \in Seq(Entries)
    BY <1>9, <1>20
  <1>25. 0 = (IF awaited' > 0 THEN awaited' ELSE 0) /\ ~(awaited' > 0) /\ awaited' \in {-1, 0, 1, 2} /\ forced' \in BOOLEAN
    BY <1>1
  <1> QED BY <1>1, <1>18, <1>23, <1>24, <1>25, StepIsWell

LEMMA CompactIsWell ==
  ASSUME ReadersInv, keepToolResult' = keepToolResult, Compact
  PROVE  ReadersInv'
  <1>1. PICK older : older = Len(Visible) - TaskPrefix - KeepRecent
    OBVIOUS
  <1>2. PICK e : e = CompactionEntry(TaskPrefix, older, NextText)
    OBVIOUS
  <1>3. /\ awaited = 0 /\ awaited' = 0 /\ requests' = requests /\ resets' = resets /\ anchored' = anchored
        /\ forced' = forced /\ older > 0 /\ Extended(tracker, <<e>>)
    BY <1>1, <1>2 DEF Compact
  <1>4. ReadWell(log, tracker, forced, resets, 0, anchored) /\ log \in Seq(Entries) /\ Len(log) \in Nat /\ forced \in BOOLEAN
    BY <1>3, NothingAwaited
  <1>5. log' = log \o <<e>> /\ tracker' = AppliedTo(tracker, <<e>>)
    BY <1>3 DEF Extended
  <1>6. PICK prefix \in {1, 2} : prefix = PrefixOf(log)
    BY <1>4, WellIs
  <1>7. TaskPrefix = prefix /\ NextText \in Nat
    BY <1>4, <1>6 DEF TaskPrefix, PrefixOf, NextText
  <1>8. Len(InSight(tracker)) \in Nat
    BY <1>4, WellIs
  <1>9. older \in Nat /\ prefix + older <= Len(InSight(tracker))
    BY <1>1, <1>3, <1>7, <1>8, ReadersAssumption DEF Visible
  <1>10. PICK text \in Nat : text = NextText
    BY <1>7
  <1>11. /\ e \in Markers /\ Tracked(tracker, e) = Replaced(Spliced(InSight(tracker), e))
         /\ ReadWell(log \o <<e>>, Replaced(Spliced(InSight(tracker), e)), forced, resets, 0, anchored)
    <2>1. e = CompactionEntry(PrefixOf(log), older, text) /\ PrefixOf(log) + older <= Len(InSight(tracker))
      BY <1>2, <1>6, <1>7, <1>9, <1>10
    <2> QED BY <1>4, <1>9, <2>1, WellCompacted
  <1>12. ReadWell(log', tracker', forced', resets', 0, anchored')
    BY <1>3, <1>5, <1>11, AppliedMarker
  <1>13. <<e>> \in Seq(Entries)
    BY <1>11, OneIs DEF Entries
  <1>14. 0 = (IF awaited' > 0 THEN awaited' ELSE 0) /\ ~(awaited' > 0) /\ awaited' \in {-1, 0, 1, 2} /\ forced' \in BOOLEAN
    BY <1>3, <1>4
  <1> QED BY <1>3, <1>5, <1>12, <1>13, <1>14, StepIsWell

LEMMA DiscardAllIsWell ==
  ASSUME ReadersInv, keepToolResult' = keepToolResult, DiscardAll
  PROVE  ReadersInv'
  <1>1. PICK e : e = DiscardEntry(TaskPrefix)
    OBVIOUS
  <1>2. /\ awaited = 0 /\ awaited' = 0 /\ requests' = requests /\ anchored' = anchored
        /\ resets' = Append(resets, Turns(InSight(tracker))) /\ forced' = FALSE /\ Extended(tracker, <<e>>)
    BY <1>1 DEF DiscardAll, Visible
  <1>3. ReadWell(log, tracker, forced, resets, 0, anchored) /\ log \in Seq(Entries) /\ forced \in BOOLEAN
    BY <1>2, NothingAwaited
  <1>4. log' = log \o <<e>> /\ tracker' = AppliedTo(tracker, <<e>>)
    BY <1>2 DEF Extended
  <1>5. e = DiscardEntry(PrefixOf(log))
    BY <1>1 DEF TaskPrefix, PrefixOf
  <1>6. /\ e \in Markers /\ Tracked(tracker, e) = Replaced(Cut(InSight(tracker), e))
        /\ ReadWell(log \o <<e>>, Replaced(Cut(InSight(tracker), e)), FALSE,
                    Append(resets, Turns(InSight(tracker))), 0, anchored)
    BY <1>3, <1>5, WellCut
  <1>7. ReadWell(log', tracker', forced', resets', 0, anchored')
    BY <1>2, <1>4, <1>6, AppliedMarker
  <1>8. <<e>> \in Seq(Entries)
    BY <1>6, OneIs DEF Entries
  <1>9. 0 = (IF awaited' > 0 THEN awaited' ELSE 0) /\ ~(awaited' > 0) /\ awaited' \in {-1, 0, 1, 2} /\ forced' \in BOOLEAN
    <2>1. awaited' = 0 /\ forced' = FALSE
      BY <1>2
    <2>2. forced' \in BOOLEAN
      BY <2>1
    <2>3. awaited' = 0
      BY <2>1
    <2>4. 0 = (IF awaited' > 0 THEN awaited' ELSE 0) /\ ~(awaited' > 0) /\ awaited' \in {-1, 0, 1, 2}
      BY ONLY <2>3
    <2> QED BY <2>2, <2>4
  <1> QED BY <1>2, <1>4, <1>7, <1>8, <1>9, StepIsWell

LEMMA ReturnResultsIsWell ==
  ASSUME ReadersInv, keepToolResult' = keepToolResult, ReturnResults
  PROVE  ReadersInv'
  <1>1. PICK results : results = [i \in 1..awaited |-> LogEntry("tool", Len(log) + i, 0)]
    OBVIOUS
  <1>2. PICK u : u = LogEntry("user", Len(log) + awaited + 2, 0)
    OBVIOUS
  <1>3. PICK hidden \in {0, awaited, awaited + 1} :
          /\ Extended(tracker, IF hidden = 0 THEN results ELSE results \o <<RollbackEntry(hidden), u>>)
          /\ forced' = (hidden > 0)
    BY <1>1, <1>2 DEF ReturnResults
  <1>4. /\ awaited > 0 /\ awaited' = 0 /\ requests' = requests /\ resets' = resets /\ anchored' = anchored
        /\ awaited \in {1, 2} /\ forced = FALSE
    BY DEF ReturnResults, ReadersInv
  <1>5. PICK waiting \in {1, 2} : waiting = awaited
    BY <1>4
  <1>6. ReadWell(log, tracker, FALSE, resets, waiting, anchored) /\ PrefixOf(log) < Len(InSight(tracker))
    BY <1>4, <1>5 DEF ReadersInv
  <1>7. log \in Seq(Entries) /\ log # << >> /\ Len(log) \in Nat
    BY <1>6 DEF ReadWell
  <1>8. PICK v \in Seq(Message) : v = InSight(tracker) /\ Len(v) \in Nat
    BY <1>6, WellIs
  <1>9. PICK prefix \in {1, 2} : prefix = PrefixOf(log)
    BY <1>6, WellIs
  <1>10. /\ results \in Seq(Message) /\ Len(results) = waiting /\ results # << >>
         /\ \A i \in 1..Len(results) : results[i].role = "tool"
    <2>1. \A i \in 1..waiting : LogEntry("tool", Len(log) + i, 0) \in Message /\ LogEntry("tool", Len(log) + i, 0).role = "tool"
      BY <1>7 DEF LogEntry, Message
    <2>2. results = [i \in 1..waiting |-> LogEntry("tool", Len(log) + i, 0)]
      BY <1>1, <1>5
    <2>3. results \in Seq(Message) /\ Len(results) = waiting
      BY <2>1, <2>2
    <2>4. \A i \in 1..waiting : results[i].role = "tool"
      BY <2>1, <2>2
    <2>5. results # << >>
      BY <2>3
    <2> QED BY <2>3, <2>4, <2>5
  <1>11. NoneOfSystem(results)
    BY <1>10 DEF NoneOfSystem
  <1>12. ~Compacted(log) => Paired(SampleOf(v \o results), 0)
    <2>1. ~Compacted(log) => Paired(SampleOf(v), waiting)
      BY <1>6, <1>8 DEF ReadWell
    <2>2. Paired(SampleOf(v), waiting) => Paired(SampleOf(v \o results), waiting - Len(results))
      BY <1>10, PairedResults
    <2>3. waiting - Len(results) = 0
      BY <1>10
    <2> QED BY <2>1, <2>2, <2>3
  <1>13. MayFollow(log, tracker, FALSE, resets, waiting, anchored, results, 0)
    BY <1>6, <1>8, <1>10, <1>11, <1>12 DEF MayFollow, PairedUnlessCompacted
  <1>14. Followed(log, tracker, FALSE, resets, anchored, results, 0)
    BY <1>13, WellAdded
  <1>15. AppliedTo(tracker, results) = Added(tracker, results)
    BY <1>10, AppliedMessages
  <1>16. 0 = (IF awaited' > 0 THEN awaited' ELSE 0) /\ ~(awaited' > 0) /\ awaited' \in {-1, 0, 1, 2}
    BY <1>4
  <1>17. results \in Seq(Entries)
    BY <1>10 DEF Entries
  <1>18. CASE hidden = 0
    <2>1. log' = log \o results /\ tracker' = AppliedTo(tracker, results) /\ forced' = FALSE
      <3>1. (hidden > 0) = FALSE
        BY <1>18
      <3>2. forced' = FALSE
        BY <1>3, <3>1, Zenon
      <3>3. Extended(tracker, results)
        BY <1>3, <1>18
      <3> QED BY <3>2, <3>3 DEF Extended
    <2>2. ReadWell(log', tracker', forced', resets', 0, anchored')
      BY <1>4, <1>14, <1>15, <2>1 DEF Followed
    <2>3. forced' \in BOOLEAN
      BY <2>1
    <2> QED BY <1>4, <1>16, <1>17, <2>1, <2>2, <2>3, StepIsWell
  <1>19. CASE hidden # 0
    <2>1. PICK count \in Nat : count = hidden /\ count \in {waiting, waiting + 1}
      BY <1>3, <1>5, <1>19
    <2>2. PICK e \in Markers : e = RollbackEntry(count) /\ Tracked(Added(tracker, results), e) = RolledBack(Added(tracker, results), count)
      BY SeenRollback
    <2>3. log' = log \o (results \o <<e, u>>) /\ tracker' = AppliedTo(tracker, results \o <<e, u>>) /\ forced' = TRUE
      <3>1. hidden > 0
        BY <1>3, <1>5, <1>19
      <3> QED BY <1>3, <1>19, <2>1, <2>2, <3>1 DEF Extended
    <2>4. u \in Message /\ u.role = "user" /\ u \in Entries
      <3>1. Len(log) + awaited + 2 \in Nat
        BY <1>4, <1>7
      <3> QED BY <1>2, <3>1, SpeechIs
    <2>5. PICK said : said = log \o results
      OBVIOUS
    <2>6. PICK after : after = Added(tracker, results)
      OBVIOUS
    <2>7. ReadWell(said, after, FALSE, resets, 0, anchored) /\ InSight(after) = v \o results
      BY <1>8, <1>14, <2>5, <2>6 DEF Followed
    <2>8. Len(InSight(after)) = Len(v) + waiting
      BY <1>10, <2>7, JoinIs
    <2>9. said \in Seq(Entries) /\ PrefixOf(said) = prefix
      BY <1>7, <1>9, <1>17, <2>5, GrownLog
    <2>10. PICK left \in prefix..Len(InSight(after)) : left = Len(InSight(after)) - count
      <3>1. prefix < Len(v)
        BY <1>6, <1>8, <1>9
      <3>2. Len(InSight(after)) - count \in prefix..Len(InSight(after))
        BY <1>8, <2>1, <2>8, <3>1
      <3> QED BY <3>2
    <2>11. MayTake(said, after, resets, 0, anchored, count, left)
      BY <2>1, <2>7, <2>9, <2>10 DEF MayTake
    <2>12. Taken(said, after, resets, anchored, count, left)
      BY <2>11, WellRolledBack
    <2>13. ReadWell((said \o <<e>>) \o <<u>>, Added(RolledBack(after, count), <<u>>), TRUE, resets, 0, anchored)
      BY <2>2, <2>4, <2>12, AskedForAnswer
    <2>14. e \in Entries
      BY DEF Entries
    <2>15. tracker' = Added(RolledBack(after, count), <<u>>)
      BY <1>10, <2>2, <2>3, <2>4, <2>6, AppliedAround
    <2>16. PICK rest : rest = <<e, u>> /\ rest \in Seq(Entries)
      <3>1. <<e, u>> \in Seq(Entries)
        BY <2>4, <2>14
      <3> QED BY <3>1
    <2>17. log' = (said \o <<e>>) \o <<u>>
      <3>1. log \o (results \o rest) = (log \o results) \o rest
        BY <1>7, <1>17, <2>16, JoinThree, SMTT(30)
      <3>2. said \o <<e, u>> = (said \o <<e>>) \o <<u>>
        <4>1. said \in Seq(Entries) /\ e \in Entries /\ u \in Entries
          BY <2>4, <2>9, <2>14
        <4> QED BY ONLY <4>1, TwoInARow, SMTT(30)
      <3>3. log' = said \o rest
        BY <2>3, <2>5, <2>16, <3>1, Zenon
      <3> QED BY <2>16, <3>2, <3>3, Zenon
    <2>18. ReadWell(log', tracker', forced', resets', 0, anchored')
      BY <1>4, <2>3, <2>13, <2>15, <2>17
    <2>19. PICK all \in Seq(Entries) : all = results \o <<e, u>>
      BY <1>17, <2>16, JoinIs
    <2>20. log' = log \o all /\ forced' \in BOOLEAN
      BY <2>3, <2>19
    <2> QED BY <1>4, <1>16, <2>18, <2>20, StepIsWell
  <1> QED BY <1>18, <1>19

LEMMA OpeningIsWell ==
  ASSUME NEW entries \in Seq(Message), NEW t, t = AppliedTo(EmptyTracker, entries), entries # << >>,
         Opened(entries, PrefixOf(entries)), Paired(SampleOf(entries), 0)
  PROVE  ReadWell(entries, t, FALSE, << >>, 0, << >>)
  <1>1. PICK empty : empty = EmptyTracker
    OBVIOUS
  <1>2. TrackerInv(empty, FALSE) /\ InSight(empty) = << >> /\ empty.anchor = 0
    BY <1>1, EmptyIs
  <1>3. t = Added(empty, entries)
    BY <1>1, AppliedMessages
  <1>4. PICK none : none = << >> /\ none \in Seq(Message)
    BY NoneIs
  <1>5. none \o entries = entries
    BY <1>4, EmptyJoined
  <1>6. TrackerInv(t, FALSE) /\ InSight(t) = entries /\ t.anchor = 0
    <2>1. TrackerInv(Added(empty, entries), FALSE) /\ InSight(Added(empty, entries)) = InSight(empty) \o entries
          /\ Added(empty, entries).anchor = empty.anchor
      BY <1>2, AddedIs
    <2> QED BY <1>2, <1>3, <1>4, <1>5, <2>1
  <1>7. ReadUpTo(entries, 0, none, << >>)
    BY <1>4, SightOneMore, TallyOneMore DEF ReadUpTo
  <1>8. FollowedBy(entries, 0, entries, Len(entries))
    <2>1. \A i \in 1..Len(entries) : 0 + i = i
      OBVIOUS
    <2> QED BY <2>1 DEF FollowedBy
  <1>9. ReadUpTo(entries, Len(entries), none \o entries, << >>)
    BY <1>4, <1>7, <1>8, ReadMore
  <1>10. ReadAs(entries, entries, << >>)
    BY <1>5, <1>9 DEF ReadUpTo, ReadAs
  <1>11. entries \in Seq(Entries) /\ Len(entries) \in Nat
    BY DEF Entries
  <1>12. t.anchor <= Len(entries) /\ ~(t.anchor > 0)
    BY <1>6, <1>11
  <1> QED BY <1>6, <1>10, <1>11, <1>12 DEF ReadWell

LEMMA NothingPaired == Paired(SampleOf(<< >>), 0)
  <1>1. PICK none : none = << >> /\ none \in Seq(Message)
    BY NoneIs
  <1>2. Len(none) = 0
    BY <1>1
  <1>3. SampleOf(none) = << >>
    BY <1>2, JoinOneMore DEF SampleOf
  <1>4. PICK s : s = << >>
    OBVIOUS
  <1>5. Len(s) = 0 /\ \A role : Occurrences(s, role, 0) = 0
    BY <1>4, SumOneMore DEF Occurrences
  <1>6. \A n \in 0..0 : n = 0
    OBVIOUS
  <1> QED BY <1>1, <1>3, <1>4, <1>5, <1>6 DEF Paired

LEMMA OpeningMessage ==
  ASSUME NEW role \in {"system", "user"}, NEW text \in Nat
  PROVE  LogEntry(role, text, 0) \in Message /\ LogEntry(role, text, 0).role = role /\ LogEntry(role, text, 0).calls = 0
  BY DEF LogEntry, Message

LEMMA InitIsWell == ReadersInit => ReadersInv
  <1> SUFFICES ASSUME ReadersInit PROVE ReadersInv
    OBVIOUS
  <1>1. PICK s : s = LogEntry("system", 1, 0) /\ s \in Message /\ s.role = "system" /\ s.calls = 0
    BY OpeningMessage
  <1>2. PICK u : u = LogEntry("user", 2, 0) /\ u \in Message /\ u.role = "user" /\ u.calls = 0
    BY OpeningMessage
  <1>3. PICK w : w = LogEntry("user", 1, 0) /\ w \in Message /\ w.role = "user" /\ w.calls = 0
    BY OpeningMessage
  <1>4. log = <<s, u>> \/ log = <<w>>
    BY <1>1, <1>2, <1>3 DEF ReadersInit
  <1>5. PICK none : none = << >> /\ none \in Seq(Message)
    BY NoneIs
  <1>6. \A m \in Message : m.role # "tool" /\ m.calls = 0 => WaitingAfter(m, 0) = 0
    BY DEF WaitingAfter
  <1>7. ASSUME NEW m \in Message, m.role # "tool", m.calls = 0, NEW seen \in Seq(Message), Paired(SampleOf(seen), 0)
        PROVE  Paired(SampleOf(seen \o <<m>>), 0)
    <2>1. WaitingAfter(m, 0) = 0 /\ 0 \in Nat
      BY <1>6, <1>7
    <2> QED BY <1>7, <2>1, PairedOne
  <1>8. Paired(SampleOf(none), 0)
    BY <1>5, NothingPaired
  <1>9. log \in Seq(Message) /\ log # << >> /\ Opened(log, PrefixOf(log)) /\ Paired(SampleOf(log), 0)
    <2>1. CASE log = <<s, u>>
      <3>1. PICK pair : pair = <<s, u>>
        OBVIOUS
      <3>2. pair \in Seq(Message) /\ Len(pair) = 2 /\ pair[1] = s /\ pair[2] = u /\ pair # << >>
        BY <1>1, <1>2, <3>1
      <3>3. \A i \in 1..2 : i = 1 \/ i = 2
        OBVIOUS
      <3>4. Opened(pair, 2) /\ PrefixOf(pair) = 2
        BY <1>1, <1>2, <3>2, <3>3 DEF Opened, PrefixOf
      <3>5. PICK one \in Seq(Message) : one = <<s>>
        BY <1>1, OneIs
      <3>6. none \o <<s>> = one
        BY <1>5, <3>5, EmptyJoined
      <3>7. Paired(SampleOf(one), 0)
        <4>1. s.role # "tool"
          BY <1>1
        <4> QED BY <1>1, <1>5, <1>7, <1>8, <3>6, <4>1
      <3>8. Paired(SampleOf(one \o <<u>>), 0)
        <4>1. u.role # "tool"
          BY <1>2
        <4> QED BY <1>2, <1>7, <3>7, <4>1
      <3>9. one \o <<u>> = pair
        BY <1>1, <1>2, <3>1, <3>5, PairIs
      <3> QED BY <2>1, <3>1, <3>2, <3>4, <3>8, <3>9
    <2>2. CASE log = <<w>>
      <3>1. PICK one : one = <<w>>
        OBVIOUS
      <3>2. one \in Seq(Message) /\ Len(one) = 1 /\ one[1] = w /\ one # << >>
        BY <1>3, <3>1, OneIs
      <3>3. \A i \in 1..1 : i = 1
        OBVIOUS
      <3>4. Opened(one, 1) /\ PrefixOf(one) = 1
        BY <1>3, <3>2, <3>3 DEF Opened, PrefixOf
      <3>5. none \o <<w>> = one
        BY <1>5, <3>1, <3>2, EmptyJoined
      <3>6. Paired(SampleOf(one), 0)
        <4>1. w.role # "tool"
          BY <1>3
        <4> QED BY <1>3, <1>5, <1>7, <1>8, <3>5, <4>1
      <3> QED BY <2>2, <3>1, <3>2, <3>4, <3>6
    <2> QED BY <1>4, <2>1, <2>2
  <1>10. PICK t : t = tracker
    OBVIOUS
  <1>11. ReadWell(log, t, FALSE, << >>, 0, << >>)
    <2>1. t = AppliedTo(EmptyTracker, log)
      BY <1>10 DEF ReadersInit
    <2> QED BY <1>9, <2>1, OpeningIsWell
  <1>12. keepToolResult \in KeepChoices /\ awaited = 0 /\ forced = FALSE /\ requests = {} /\ anchored = << >> /\ resets = << >>
    BY DEF ReadersInit
  <1>13. 0 = (IF awaited > 0 THEN awaited ELSE 0) /\ ~(awaited > 0) /\ awaited \in {-1, 0, 1, 2} /\ forced \in BOOLEAN
    <2>1. forced \in BOOLEAN
      BY <1>12
    <2>2. awaited = 0
      BY <1>12
    <2>3. 0 = (IF awaited > 0 THEN awaited ELSE 0) /\ ~(awaited > 0) /\ awaited \in {-1, 0, 1, 2}
      BY ONLY <2>2
    <2> QED BY <2>1, <2>3
  <1> QED BY <1>10, <1>11, <1>12, <1>13 DEF ReadersInv

\* The invariant is inductive.
LEMMA StepsAreWell == ReadersInv /\ [ReadersNext]_readerVars => ReadersInv'
  <1> SUFFICES ASSUME ReadersInv, [ReadersNext]_readerVars PROVE ReadersInv'
    OBVIOUS
  <1>1. ASSUME UNCHANGED keepToolResult, CallTools
        PROVE  ReadersInv'
    BY <1>1, CallToolsIsWell
  <1>2. ASSUME UNCHANGED keepToolResult, Withdraw
        PROVE  ReadersInv'
    BY <1>2, WithdrawIsWell
  <1>3. ASSUME UNCHANGED keepToolResult, Reprompt
        PROVE  ReadersInv'
    BY <1>3, RepromptIsWell
  <1>4. ASSUME UNCHANGED keepToolResult, GiveAnswer
        PROVE  ReadersInv'
    BY <1>4, GiveAnswerIsWell
  <1>5. ASSUME UNCHANGED keepToolResult, ReturnResults
        PROVE  ReadersInv'
    BY <1>5, ReturnResultsIsWell
  <1>6. ASSUME UNCHANGED keepToolResult, DropExchange
        PROVE  ReadersInv'
    BY <1>6, DropExchangeIsWell
  <1>7. ASSUME UNCHANGED keepToolResult, Compact
        PROVE  ReadersInv'
    BY <1>7, CompactIsWell
  <1>8. ASSUME UNCHANGED keepToolResult, DiscardAll
        PROVE  ReadersInv'
    BY <1>8, DiscardAllIsWell
  <1>9. CASE UNCHANGED readerVars
    <2>1. /\ keepToolResult' = keepToolResult /\ log' = log /\ tracker' = tracker /\ awaited' = awaited
          /\ forced' = forced /\ requests' = requests /\ anchored' = anchored /\ resets' = resets
      BY <1>9 DEF readerVars
    <2>2. PrefixViews(log)' = PrefixViews(log)
      <3>1. PrefixViews(log)' = ViewsWith(keepToolResult', log') /\ PrefixViews(log) = ViewsWith(keepToolResult, log)
        BY ViewsAre
      <3> QED BY <2>1, <3>1
    <2> QED BY <2>1, <2>2 DEF ReadersInv
  <1> QED BY <1>1, <1>2, <1>3, <1>4, <1>5, <1>6, <1>7, <1>8, <1>9 DEF ReadersNext

LEMMA WellIsAgreed == ReadersInv => ReadersAgree
  <1> SUFFICES ASSUME ReadersInv PROVE ReadersAgree
    OBVIOUS
  <1>1. PICK waiting : waiting = IF awaited > 0 THEN awaited ELSE 0
    OBVIOUS
  <1>2. ReadWell(log, tracker, forced, resets, waiting, anchored) /\ forced \in BOOLEAN
    BY <1>1 DEF ReadersInv
  <1>3. PICK v \in Seq(Message) : v = InSight(tracker) /\ v # << >>
    BY <1>2, WellIs
  <1>4. Visible = v
    BY <1>3 DEF Visible
  <1>5. Materialized(log, Len(log)) = v /\ StatisticsView(log, Len(log)) = [visible |-> v, turns |-> resets]
    BY <1>2, <1>3 DEF ReadWell, ReadAs
  <1>6. requests \subseteq PrefixViews(log)
    BY DEF ReadersInv
  <1>7. tracker.tokens - Tokens(v) \in -Len(tracker.segments)..Len(tracker.segments)
    <2>1. TrackerInv(tracker, forced)
      BY <1>2 DEF ReadWell
    <2> QED BY <1>2, <1>3, <2>1, SightNear
  <1>8. tracker.anchor > 0 => SubSeq(v, 1, tracker.anchor) = anchored
    BY <1>2, <1>3 DEF ReadWell
  <1>9. PICK s \in Seq(Kinds) : s = SampleOf(v)
    BY SampleIs
  <1>10. ASSUME ~\E i \in DOMAIN log : MarkerIs(log[i], "compaction"), NEW n \in DOMAIN s
         PROVE  Occurrences(s, "tool_response", n) <= Occurrences(s, "tool_call", n)
    <2>1. Paired(s, waiting)
      BY <1>2, <1>3, <1>9, <1>10 DEF ReadWell, Compacted
    <2>2. n \in 0..Len(s)
      <3>1. n \in 1..Len(s) /\ Len(s) \in Nat
        BY <1>10, ElementsOf
      <3> QED BY <3>1
    <2> QED BY <2>1, <2>2 DEF Paired
  <1> QED BY <1>4, <1>5, <1>6, <1>7, <1>8, <1>9, <1>10 DEF ReadersAgree

\* Whoever reads the log of a conversation, and by whatever code, finds what the runtime has
\* in sight, the requests it sent, the turns it threw away; the running estimate stays within
\* a token per segment of the whole: whatever the number of results that are kept, the
\* messages a compaction leaves alone and the bound on the log.
THEOREM ReadersAlwaysAgree == ReadersSpec => []ReadersAgree
  <1>1. ReadersInit => ReadersInv
    BY InitIsWell
  <1>2. ReadersInv /\ [ReadersNext]_readerVars => ReadersInv'
    BY StepsAreWell
  <1>3. ReadersInv => ReadersAgree
    BY WellIsAgreed
  <1> QED BY <1>1, <1>2, <1>3, PTL DEF ReadersSpec

=============================================================================
