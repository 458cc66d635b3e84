----------------------------- MODULE WorkQueue ------------------------------
(***************************************************************************)
(* The work queue every PLC operation goes through (queue.go, WorkQueue):  *)
(* HTTP handler goroutines call Do, one worker goroutine runs the jobs,    *)
(* and Shutdown closes the queue.  The processes share a read-write lock   *)
(* and a closed flag, and talk over a bounded channel of jobs, one result  *)
(* channel of capacity one per job, and the channels done and workerDone,  *)
(* which are only ever closed.                                             *)
(*                                                                         *)
(* A step is what one goroutine does between two points where another can  *)
(* observe it or change what it reads next.  An RUnlock, and the Unlock of *)
(* Shutdown, are part of the step before them: nobody waits for what lies  *)
(* between the two.                                                        *)
(***************************************************************************)
EXTENDS Naturals, SequencesExt

CONSTANTS Callers,      \* one goroutine calling Do, hence one job, each
          Background,   \* the callers whose context is context.Background()
          Stoppers,     \* the goroutines calling Shutdown
          QueueSize,    \* capacity of the jobs channel
          CtxErrs       \* what ctx.Err() may report

Outcomes == {"ok", "failed"}
NoJob    == "none"

ASSUME QueueAssumption ==
    /\ Background \subseteq Callers
    /\ NoJob \notin Callers
    /\ QueueSize \in Nat \ {0}
    /\ CtxErrs \cap ({"none", "live", "empty", "busy", "closed"} \cup Outcomes) = {}

VARIABLES
    ctx,            \* ctx[p]: "live", or the error of p's ended context
    \* the shared state of the WorkQueue
    readers,        \* the callers holding mu for reading
    writerWaiting,  \* a Lock call has announced itself: new RLocks block
    once,           \* stopOnce: "new", "running" or "done"
    closed,         \* the closed flag; done is closed with it
    jobs,           \* the jobs channel; a job is named by its caller
    result,         \* result[c]: the result channel of c's job
    workerDone,     \* the workerDone channel is closed
    \* where each goroutine is
    pc,             \* pc[c]: caller c within Do
    answer,         \* answer[c]: what Do returned
    spc,            \* spc[s]: s within Shutdown
    wpc,            \* the worker within run
    job,            \* the job in the worker's hands
    exec            \* exec[c]: progress of the call of c's execute function

callerVars  == <<pc, answer>>
stopVars    == <<spc, once, writerWaiting>>
workerVars  == <<wpc, job, workerDone, exec>>
vars == <<ctx, readers, writerWaiting, once, closed, jobs, result, workerDone,
          pc, answer, spc, wpc, job, exec>>

TypeOK ==
    /\ ctx \in [Callers \cup Stoppers -> {"live"} \cup CtxErrs]
    /\ readers \subseteq Callers
    /\ writerWaiting \in BOOLEAN
    /\ once \in {"new", "running", "done"}
    /\ closed \in BOOLEAN
    /\ jobs \in Seq(Callers) /\ Len(jobs) <= QueueSize
    /\ result \in [Callers -> {"empty", "closed"} \cup Outcomes \cup CtxErrs]
    /\ workerDone \in BOOLEAN
    /\ pc \in [Callers -> {"new", "rlock", "closed?", "submit", "await", "returned"}]
    /\ answer \in [Callers -> {"none", "busy", "closed"} \cup Outcomes \cup CtxErrs]
    /\ spc \in [Stoppers -> {"new", "lock", "close", "await", "returned"}]
    /\ wpc \in {"select", "closed?", "runJob", "execute", "finish", "reject", "stopped"}
    /\ job \in Callers \cup {NoJob}
    /\ exec \in [Callers -> {"none", "running"} \cup Outcomes]

Init ==
    /\ ctx = [p \in Callers \cup Stoppers |-> "live"]
    /\ readers = {}
    /\ writerWaiting = FALSE
    /\ once = "new"
    /\ closed = FALSE
    /\ jobs = <<>>
    /\ result = [c \in Callers |-> "empty"]
    /\ workerDone = FALSE
    /\ pc = [c \in Callers |-> "new"]
    /\ answer = [c \in Callers |-> "none"]
    /\ spc = [s \in Stoppers |-> "new"]
    /\ wpc = "select"
    /\ job = NoJob
    /\ exec = [c \in Callers |-> "none"]

Ended(p) == ctx[p] # "live"

(* The client goes away or a deadline passes, at any moment. *)
EndCtx(p) ==
    /\ p \notin Background
    /\ ~Ended(p)
    /\ \E e \in CtxErrs : ctx' = [ctx EXCEPT ![p] = e]
    /\ UNCHANGED <<readers, closed, jobs, result, callerVars, stopVars, workerVars>>

-----------------------------------------------------------------------------
(* Do, in the caller's goroutine. *)

Return(c, a) ==
    /\ pc' = [pc EXCEPT ![c] = "returned"]
    /\ answer' = [answer EXCEPT ![c] = a]

Do_CheckCtx(c) ==
    /\ pc[c] = "new"
    /\ \/ Ended(c) /\ Return(c, ctx[c])
       \/ ~Ended(c) /\ pc' = [pc EXCEPT ![c] = "rlock"] /\ UNCHANGED answer
    /\ UNCHANGED <<ctx, readers, closed, jobs, result, stopVars, workerVars>>

(* A waiting writer bars new readers (sync.RWMutex). *)
Do_RLock(c) ==
    /\ pc[c] = "rlock"
    /\ ~writerWaiting
    /\ readers' = readers \cup {c}
    /\ pc' = [pc EXCEPT ![c] = "closed?"]
    /\ UNCHANGED <<ctx, closed, jobs, result, answer, stopVars, workerVars>>

(* Mutant: mu is released between the closed check and the send. *)
Do_CheckClosed_UnlockEarly(c) ==
    /\ pc[c] = "closed?"
    /\ readers' = readers \ {c}
    /\ \/ closed /\ Return(c, "closed")
       \/ ~closed /\ pc' = [pc EXCEPT ![c] = "submit"] /\ UNCHANGED answer
    /\ UNCHANGED <<ctx, closed, jobs, result, stopVars, workerVars>>

(* Mutant: Do does not look at closed. *)
Do_CheckClosed_Skipped(c) ==
    /\ pc[c] = "closed?"
    /\ pc' = [pc EXCEPT ![c] = "submit"]
    /\ UNCHANGED <<ctx, readers, closed, jobs, result, answer, stopVars, workerVars>>

Do_CheckClosed(c) ==
    /\ pc[c] = "closed?"
    /\ \/ closed /\ readers' = readers \ {c} /\ Return(c, "closed")
       \/ ~closed /\ pc' = [pc EXCEPT ![c] = "submit"] /\ UNCHANGED <<readers, answer>>
    /\ UNCHANGED <<ctx, closed, jobs, result, stopVars, workerVars>>

(* Mutant: the busy return forgets to release mu. *)
Do_Submit_StillLocked(c) ==
    /\ pc[c] = "submit"
    /\ \/ /\ Len(jobs) < QueueSize
          /\ jobs' = Append(jobs, c)
          /\ pc' = [pc EXCEPT ![c] = "await"]
          /\ readers' = readers \ {c}
          /\ UNCHANGED answer
       \/ Ended(c) /\ Return(c, ctx[c]) /\ readers' = readers \ {c} /\ UNCHANGED jobs
       \/ Len(jobs) = QueueSize /\ ~Ended(c) /\ Return(c, "busy") /\ UNCHANGED <<jobs, readers>>
    /\ UNCHANGED <<ctx, closed, result, stopVars, workerVars>>

(* Mutant: the channel has room for one job too many. *)
Do_Submit_OneTooMany(c) ==
    /\ pc[c] = "submit"
    /\ readers' = readers \ {c}
    /\ \/ /\ Len(jobs) <= QueueSize
          /\ jobs' = Append(jobs, c)
          /\ pc' = [pc EXCEPT ![c] = "await"]
          /\ UNCHANGED answer
       \/ Ended(c) /\ Return(c, ctx[c]) /\ UNCHANGED jobs
    /\ UNCHANGED <<ctx, closed, result, stopVars, workerVars>>

(* select: any ready case may be taken, default only when none is ready. *)
Do_Submit(c) ==
    /\ pc[c] = "submit"
    /\ readers' = readers \ {c}
    /\ \/ /\ Len(jobs) < QueueSize
          /\ jobs' = Append(jobs, c)
          /\ pc' = [pc EXCEPT ![c] = "await"]
          /\ UNCHANGED answer
       \/ Ended(c) /\ Return(c, ctx[c]) /\ UNCHANGED jobs
       \/ Len(jobs) = QueueSize /\ ~Ended(c) /\ Return(c, "busy") /\ UNCHANGED jobs
    /\ UNCHANGED <<ctx, closed, result, stopVars, workerVars>>

Do_Await(c) ==
    /\ pc[c] = "await"
    /\ \/ /\ result[c] # "empty"
          /\ Return(c, result[c])
          /\ result' = [result EXCEPT ![c] = "empty"]
       \/ Ended(c) /\ Return(c, ctx[c]) /\ UNCHANGED result
    /\ UNCHANGED <<ctx, readers, closed, jobs, stopVars, workerVars>>

Do(c) == \/ Do_CheckCtx(c) \/ Do_RLock(c) \/ Do_CheckClosed(c)
         \/ Do_Submit(c) \/ Do_Await(c)

-----------------------------------------------------------------------------
(* Shutdown. *)

(* Only the first caller of stopOnce.Do runs the body; the others wait     *)
(* until that run is over.                                                 *)
Shutdown_Once(s) ==
    /\ spc[s] = "new"
    /\ \/ once = "new" /\ once' = "running" /\ spc' = [spc EXCEPT ![s] = "lock"]
       \/ once = "done" /\ spc' = [spc EXCEPT ![s] = "await"] /\ UNCHANGED once
    /\ UNCHANGED <<ctx, readers, writerWaiting, closed, jobs, result, callerVars, workerVars>>

Shutdown_Lock(s) ==
    /\ spc[s] = "lock"
    /\ writerWaiting' = TRUE
    /\ spc' = [spc EXCEPT ![s] = "close"]
    /\ UNCHANGED <<ctx, readers, once, closed, jobs, result, callerVars, workerVars>>

Shutdown_Close(s) ==
    /\ spc[s] = "close"
    /\ readers = {}
    /\ closed' = TRUE
    /\ writerWaiting' = FALSE
    /\ once' = "done"
    /\ spc' = [spc EXCEPT ![s] = "await"]
    /\ UNCHANGED <<ctx, readers, jobs, result, callerVars, workerVars>>

Shutdown_Await(s) ==
    /\ spc[s] = "await"
    /\ workerDone \/ Ended(s)
    /\ spc' = [spc EXCEPT ![s] = "returned"]
    /\ UNCHANGED <<ctx, readers, once, writerWaiting, closed, jobs, result, callerVars, workerVars>>

Shutdown(s) == \/ Shutdown_Once(s) \/ Shutdown_Lock(s)
               \/ Shutdown_Close(s) \/ Shutdown_Await(s)

-----------------------------------------------------------------------------
(* run, the worker goroutine. *)

Run_Done ==
    /\ wpc = "select"
    /\ closed
    /\ wpc' = "reject"
    /\ UNCHANGED <<ctx, readers, closed, jobs, result, callerVars, stopVars,
                   job, workerDone, exec>>

Run_Take ==
    /\ wpc = "select"
    /\ jobs # <<>>
    /\ job' = Head(jobs)
    /\ jobs' = Tail(jobs)
    /\ wpc' = "closed?"
    /\ UNCHANGED <<ctx, readers, closed, result, callerVars, stopVars, workerDone, exec>>

(* Mutant: the result channel has no buffer and the send a default case,   *)
(* so that a result nobody waits for yet is lost.                          *)
FinishJob_Lost(c, r) ==
    \/ result' = [result EXCEPT ![c] = r]
    \/ UNCHANGED result

(* finishJob: the result channel has room, so the send is always ready; an *)
(* ended context makes the other case ready too and the result may be lost. *)
FinishJob(c, r) ==
    \/ result' = [result EXCEPT ![c] = r]
    \/ Ended(c) /\ UNCHANGED result

(* Mutant: run does not look at closed after taking a job. *)
Run_IsClosed_Skipped ==
    /\ wpc = "closed?"
    /\ wpc' = "runJob"
    /\ UNCHANGED <<ctx, readers, closed, jobs, result, callerVars, stopVars,
                   job, workerDone, exec>>

(* Mutant: the job is answered but not left alone, a missing return. *)
Run_IsClosed_FallThrough ==
    /\ wpc = "closed?"
    /\ ~writerWaiting
    /\ \/ closed /\ FinishJob(job, "closed")
       \/ ~closed /\ UNCHANGED result
    /\ wpc' = "runJob"
    /\ UNCHANGED <<ctx, readers, closed, jobs, callerVars, stopVars, job, workerDone, exec>>

(* Mutant: the job taken last is dropped without an answer. *)
Run_IsClosed_NoAnswer ==
    /\ wpc = "closed?"
    /\ ~writerWaiting
    /\ \/ closed /\ wpc' = "reject" /\ job' = NoJob
       \/ ~closed /\ wpc' = "runJob" /\ UNCHANGED job
    /\ UNCHANGED <<ctx, readers, closed, jobs, result, callerVars, stopVars, workerDone, exec>>

(* isClosed takes and releases the read lock. *)
Run_IsClosed ==
    /\ wpc = "closed?"
    /\ ~writerWaiting
    /\ \/ closed /\ FinishJob(job, "closed") /\ wpc' = "reject" /\ job' = NoJob
       \/ ~closed /\ wpc' = "runJob" /\ UNCHANGED <<result, job>>
    /\ UNCHANGED <<ctx, readers, closed, jobs, callerVars, stopVars, workerDone, exec>>

(* Mutant: the skipped job's result carries no error. *)
RunJob_Skip_NoError ==
    /\ wpc = "runJob"
    /\ Ended(job)
    /\ FinishJob(job, "ok")
    /\ wpc' = "select"
    /\ job' = NoJob
    /\ UNCHANGED <<ctx, readers, closed, jobs, callerVars, stopVars, workerDone, exec>>

RunJob_Skip ==
    /\ wpc = "runJob"
    /\ Ended(job)
    /\ FinishJob(job, ctx[job])
    /\ wpc' = "select"
    /\ job' = NoJob
    /\ UNCHANGED <<ctx, readers, closed, jobs, callerVars, stopVars, workerDone, exec>>

(* Mutant: runJob does not look at the context. *)
RunJob_Execute_Canceled ==
    /\ wpc = "runJob"
    /\ wpc' = "execute"
    /\ exec' = [exec EXCEPT ![job] = "running"]
    /\ UNCHANGED <<ctx, readers, closed, jobs, result, callerVars, stopVars, job, workerDone>>

(* Mutant: run does not wait for the job, go q.runJob(job). *)
RunJob_Execute_Async ==
    /\ wpc = "runJob"
    /\ ~Ended(job)
    /\ wpc' = "select"
    /\ job' = NoJob
    /\ exec' = [exec EXCEPT ![job] = "running"]
    /\ UNCHANGED <<ctx, readers, closed, jobs, result, callerVars, stopVars, workerDone>>

RunJob_Execute ==
    /\ wpc = "runJob"
    /\ ~Ended(job)
    /\ wpc' = "execute"
    /\ exec' = [exec EXCEPT ![job] = "running"]
    /\ UNCHANGED <<ctx, readers, closed, jobs, result, callerVars, stopVars, job, workerDone>>

(* execute returns. *)
RunJob_Executed(o) ==
    /\ wpc = "execute"
    /\ exec' = [exec EXCEPT ![job] = o]
    /\ wpc' = "finish"
    /\ UNCHANGED <<ctx, readers, closed, jobs, result, callerVars, stopVars, job, workerDone>>

RunJob_Finish ==
    /\ wpc = "finish"
    /\ FinishJob(job, exec[job])
    /\ wpc' = "select"
    /\ job' = NoJob
    /\ UNCHANGED <<ctx, readers, closed, jobs, callerVars, stopVars, workerDone, exec>>

RejectPendingJob ==
    /\ wpc = "reject"
    /\ jobs # <<>>
    /\ FinishJob(Head(jobs), "closed")
    /\ jobs' = Tail(jobs)
    /\ UNCHANGED <<ctx, readers, closed, callerVars, stopVars, workerVars>>

(* Mutant: the worker leaves without rejecting every queued job. *)
Run_Return_Undrained ==
    /\ wpc = "reject"
    /\ wpc' = "stopped"
    /\ workerDone' = TRUE
    /\ UNCHANGED <<ctx, readers, closed, jobs, result, callerVars, stopVars, job, exec>>

Run_Return ==
    /\ wpc = "reject"
    /\ jobs = <<>>
    /\ wpc' = "stopped"
    /\ workerDone' = TRUE
    /\ UNCHANGED <<ctx, readers, closed, jobs, result, callerVars, stopVars, job, exec>>

Run == \/ Run_Done \/ Run_Take \/ Run_IsClosed
       \/ RunJob_Skip \/ RunJob_Execute
       \/ (\E o \in Outcomes : RunJob_Executed(o)) \/ RunJob_Finish
       \/ RejectPendingJob \/ Run_Return

-----------------------------------------------------------------------------
(* Every goroutine has ended: stopping here is not a deadlock. *)
Terminated ==
    /\ \A c \in Callers : pc[c] = "returned"
    /\ \A s \in Stoppers : spc[s] = "returned"
    /\ wpc = "stopped"

Next == \/ \E p \in Callers \cup Stoppers : EndCtx(p)
        \/ \E c \in Callers : Do(c)
        \/ \E s \in Stoppers : Shutdown(s)
        \/ Run
        \/ Terminated /\ UNCHANGED vars

(* The Go scheduler runs every runnable goroutine eventually, and execute  *)
(* returns because the PLC connection has a timeout.  Nothing forces a     *)
(* caller to call Do, a Shutdown to be called, or a context to end.        *)
Fairness ==
    /\ \A c \in Callers : WF_vars(pc[c] # "new" /\ Do(c))
    /\ \A s \in Stoppers : WF_vars(spc[s] # "new" /\ Shutdown(s))
    /\ WF_vars(Run)

Spec == Init /\ [][Next]_vars /\ Fairness

-----------------------------------------------------------------------------
(* Properties. *)

AwaitsAnswer(c) == pc[c] = "await" /\ ~Ended(c)

(* No accepted call is lost: while its caller still waits with a live      *)
(* context, the job lies in the channel of a worker that is still there,   *)
(* or is in that worker's hands, or its result is in its result channel;   *)
(* and a worker that has returned has left no job behind (Do holds mu over *)
(* its closed check and its send, queue.go:54-75).                         *)
NoStrandedJob ==
    /\ \A c \in Callers : AwaitsAnswer(c) =>
          \/ c \in ToSet(jobs)
          \/ job = c
          \/ result[c] # "empty"
    /\ workerDone => jobs = <<>>

(* A call that was answered busy or closed neither ran nor can run later,  *)
(* so that a client may send it again (queue.go:55-58, 72-74, 115-134).    *)
RefusedNeverRuns ==
    \A c \in Callers : answer[c] \in {"busy", "closed"} =>
        exec[c] = "none" /\ c \notin ToSet(jobs) /\ job # c

(* A value or an error of the operation is returned only to the caller     *)
(* whose own operation produced it (queue.go:77-79, 141-143).              *)
AnswerMatchesExecution ==
    \A c \in Callers : answer[c] \in Outcomes => exec[c] = answer[c]

(* A call still in the channel when its context ends, or when the queue is *)
(* closed, never runs: only the one the worker had already checked may     *)
(* start (queue.go:110-143; README.md:353; handler_test.go, "buffered job  *)
(* must not execute after shutdown").                                      *)
LeftInQueueNeverRuns ==
    \A c \in Callers :
        []((Ended(c) \/ closed) /\ c \in ToSet(jobs) => [](exec[c] = "none"))

(* After a Shutdown that returned with its context alive, no operation is  *)
(* under way, none starts and none is accepted (queue.go:99-101).          *)
QuietAfterCleanShutdown ==
    [][(\E s \in Stoppers : spc[s] = "returned" /\ ~Ended(s))
         => jobs' = jobs /\ exec' = exec]_vars

(* Where a call stands, as its caller may think of it. *)
Effect ==
    [c \in Callers |->
        IF exec[c] # "none" THEN exec[c]
        ELSE IF pc[c] \in {"new", "rlock", "closed?", "submit"} THEN "none"
        ELSE IF c \in ToSet(jobs) \/ job = c THEN "pending"
        ELSE "never"]

Abstract == INSTANCE SerialExecutor WITH effect <- Effect, answer <- answer

(* The queue executes the calls one at a time, each at most once, and no   *)
(* answer contradicts what was done (README.md:351).                       *)
ImplementsSerialExecutor == Abstract!Spec

(* Do returns, with the result, a context error, busy or closed, whatever  *)
(* the order in which Shutdown, the worker and the caller move; and so     *)
(* does Shutdown, even if its context never ends (queue.go:50-105).        *)
EveryCallReturns ==
    /\ \A c \in Callers : pc[c] # "new" ~> pc[c] = "returned"
    /\ \A s \in Stoppers : spc[s] # "new" ~> spc[s] = "returned"

(* Every accepted call is settled: done, or discarded for good, even when  *)
(* its caller has long gone.                                               *)
EveryAcceptedCallSettles ==
    \A c \in Callers : Effect[c] = "pending" ~> Effect[c] \in Outcomes \cup {"never"}
=============================================================================
