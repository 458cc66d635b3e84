-------------------------- MODULE WorkQueueProofs ---------------------------
(***************************************************************************)
(* The safety of the work queue and the order in which its calls take      *)
(* effect, for every set of callers and stoppers, every capacity and every *)
(* set of context errors.                                                  *)
(***************************************************************************)
EXTENDS CallOrder, TLAPS

NoDup(q) == \A i, j \in 1..Len(q) : q[i] = q[j] => i = j

(* Sending on a channel, seen as a set of jobs. *)
LEMMA AppendLemma ==
  ASSUME NEW S, NEW q \in Seq(S), NEW e \in S
  PROVE  /\ Append(q, e) \in Seq(S)
         /\ Len(Append(q, e)) = Len(q) + 1
         /\ ToSet(Append(q, e)) = ToSet(q) \cup {e}
         /\ NoDup(q) /\ e \notin ToSet(q) => NoDup(Append(q, e))
<1> DEFINE r == Append(q, e)
<1>1. r \in Seq(S) /\ Len(r) = Len(q) + 1 /\ DOMAIN r = 1..Len(q) + 1 /\ DOMAIN q = 1..Len(q)
  OBVIOUS
<1>2. \A i \in 1..Len(q) : r[i] = q[i]
  OBVIOUS
<1>3. r[Len(q) + 1] = e
  OBVIOUS
<1>4. \A i \in DOMAIN r : i \in 1..Len(q) \/ i = Len(q) + 1
  BY <1>1
<1> HIDE DEF r
<1>5. ToSet(r) = ToSet(q) \cup {e}
  <2>1. ASSUME NEW x \in ToSet(r) PROVE x \in ToSet(q) \cup {e}
    BY <2>1, <1>1, <1>2, <1>3, <1>4 DEF ToSet
  <2>2. ASSUME NEW x \in ToSet(q) \cup {e} PROVE x \in ToSet(r)
    BY <2>2, <1>1, <1>2, <1>3, <1>4 DEF ToSet
  <2> QED BY <2>1, <2>2
<1>6. ASSUME NoDup(q), e \notin ToSet(q) PROVE NoDup(r)
  BY <1>6, <1>1, <1>2, <1>3, <1>4 DEF ToSet, NoDup
<1> QED BY <1>1, <1>5, <1>6 DEF r

(* Receiving from a channel. *)
LEMMA TailLemma ==
  ASSUME NEW S, NEW q \in Seq(S), q # <<>>
  PROVE  /\ Head(q) \in S
         /\ Head(q) \in ToSet(q)
         /\ Tail(q) \in Seq(S)
         /\ Len(Tail(q)) = Len(q) - 1
         /\ ToSet(q) = ToSet(Tail(q)) \cup {Head(q)}
         /\ NoDup(q) => NoDup(Tail(q)) /\ Head(q) \notin ToSet(Tail(q))
<1> DEFINE r == Tail(q)
           h == Head(q)
<1>1. /\ Len(q) \in Nat \ {0}
      /\ r \in Seq(S) /\ Len(r) = Len(q) - 1
      /\ DOMAIN r = 1..Len(q) - 1 /\ DOMAIN q = 1..Len(q)
      /\ h = q[1] /\ h \in S
  OBVIOUS
<1>2. \A i \in 1..Len(q) - 1 : r[i] = q[i + 1]
  BY <1>1
<1> HIDE DEF r, h
<1>3. ToSet(q) = ToSet(r) \cup {h}
  <2>1. ASSUME NEW x \in ToSet(q) PROVE x \in ToSet(r) \cup {h}
    <3>1. PICK i \in 1..Len(q) : x = q[i]
      BY <1>1 DEF ToSet
    <3>2. CASE i = 1
      BY <3>1, <3>2, <1>1
    <3>3. CASE i # 1
      <4>1. i - 1 \in 1..Len(q) - 1 /\ r[i - 1] = q[i]
        BY <3>3, <1>1, <1>2
      <4> QED BY <4>1, <3>1, <1>1 DEF ToSet
    <3> QED BY <3>2, <3>3
  <2>2. ASSUME NEW x \in ToSet(r) \cup {h} PROVE x \in ToSet(q)
    <3>1. \A i \in DOMAIN r : i + 1 \in DOMAIN q /\ r[i] = q[i + 1]
      BY <1>1, <1>2
    <3>2. 1 \in DOMAIN q
      BY <1>1
    <3> QED BY <2>2, <3>1, <3>2, <1>1 DEF ToSet
  <2> QED BY <2>1, <2>2
<1>4. ASSUME NoDup(q) PROVE NoDup(r)
  BY <1>4, <1>1, <1>2 DEF NoDup
<1>5. ASSUME NoDup(q) PROVE h \notin ToSet(r)
  <2>1. SUFFICES ASSUME NEW i \in 1..Len(q) - 1, r[i] = h PROVE FALSE
    BY <1>1 DEF ToSet
  <2> QED BY <2>1, <1>5, <1>1, <1>2 DEF NoDup
<1> QED BY <1>1, <1>3, <1>4, <1>5 DEF r, h

-----------------------------------------------------------------------------
(* The inductive invariant. *)

Queued == ToSet(jobs)

(* A call holds the read lock exactly between its RLock and its send, and  *)
(* the queue is open while a call that saw it open still holds the lock.   *)
LockInv ==
    /\ \A c \in Callers : c \in readers <=> pc[c] \in {"closed?", "submit"}
    /\ \A c \in Callers : pc[c] = "submit" => ~closed

(* The worker stops only when the queue is closed and its channel empty;   *)
(* it has a job in hand exactly between taking and finishing it.           *)
WorkerInv ==
    /\ wpc \in {"reject", "stopped"} => closed
    /\ workerDone <=> wpc = "stopped"
    /\ workerDone => jobs = <<>>
    /\ wpc \in {"closed?", "runJob", "execute", "finish"} <=> job # NoJob
    /\ wpc \in {"closed?", "runJob"} => exec[job] = "none"
    /\ wpc = "execute" => exec[job] = "running"
    /\ wpc = "finish" => exec[job] \in Outcomes

(* An accepted call is in one place at a time: in the channel, in hand, or *)
(* over; until it is over it has neither a result nor an answer other than *)
(* a context error.                                                        *)
Unsettled(c) == c \in Queued \/ job = c

CallInv(c) ==
    /\ pc[c] \notin {"await", "returned"} =>
          ~Unsettled(c) /\ exec[c] = "none" /\ result[c] = "empty"
    /\ answer[c] = "none" <=> pc[c] # "returned"
    /\ Unsettled(c) => /\ result[c] = "empty"
                       /\ answer[c] \in {"none"} \cup CtxErrs
    /\ c \in Queued => exec[c] = "none" /\ job # c
    /\ exec[c] = "running" => job = c /\ wpc = "execute"
    /\ result[c] = "closed" => exec[c] = "none"
    /\ result[c] \in Outcomes => exec[c] = result[c]
    /\ answer[c] \in {"busy", "closed"} => exec[c] = "none"
    /\ answer[c] \in Outcomes => exec[c] = answer[c]
    /\ AwaitsAnswer(c) => Unsettled(c) \/ result[c] # "empty"

IInv == /\ TypeOK
        /\ NoDup(jobs)
        /\ LockInv
        /\ WorkerInv
        /\ \A c \in Callers : CallInv(c)

USE DEF Outcomes, NoJob

(* A queue begins open and empty, with its worker waiting. *)
LEMMA InitIInv == Init => IInv
<1> SUFFICES ASSUME Init PROVE IInv
  OBVIOUS
<1>1. Queued = {} /\ jobs \in Seq(Callers) /\ Len(jobs) = 0
  <2>1. jobs = <<>>
    BY DEF Init
  <2>2. jobs \in Seq(Callers) /\ Len(jobs) = 0 /\ DOMAIN jobs = {}
    BY <2>1
  <2> QED BY <2>2 DEF Queued, ToSet
<1>2. TypeOK
  <2>1. /\ ctx \in [Callers \cup Stoppers -> {"live"} \cup CtxErrs]
        /\ result \in [Callers -> {"empty", "closed"} \cup Outcomes \cup CtxErrs]
    BY DEF Init
  <2>2. Len(jobs) <= QueueSize
    BY <1>1, QueueAssumption
  <2>3. job \in Callers \cup {NoJob}
    BY DEF Init
  <2> QED BY <1>1, <2>1, <2>2, <2>3 DEF Init, TypeOK
<1>3. NoDup(jobs)
  BY <1>1 DEF NoDup
<1>4. LockInv /\ WorkerInv
  BY QueueAssumption DEF Init, LockInv, WorkerInv
<1>5. ASSUME NEW c \in Callers PROVE CallInv(c)
  BY <1>1, QueueAssumption DEF Init, CallInv, Unsettled, AwaitsAnswer, Ended
<1> QED BY <1>2, <1>3, <1>4, <1>5 DEF IInv

(* A context ends: nobody has looked at it yet. *)
LEMMA EndCtxIInv ==
  ASSUME IInv, NEW p \in Callers \cup Stoppers, EndCtx(p)
  PROVE  IInv'
  BY QueueAssumption DEF EndCtx, callerVars, stopVars, workerVars, IInv, TypeOK,
     LockInv, WorkerInv, CallInv, NoDup, Unsettled, Queued, AwaitsAnswer, Ended

(* A step of Do: lock, closed check, send, wait for the result. *)
LEMMA DoIInv ==
  ASSUME IInv, NEW c \in Callers, Do(c)
  PROVE  IInv'
<1> USE DEF callerVars, stopVars, workerVars, IInv, TypeOK, LockInv, WorkerInv,
            CallInv, Unsettled, Queued, AwaitsAnswer, Ended, Return
<1>1. CASE Do_CheckCtx(c)
  BY <1>1, QueueAssumption DEF Do_CheckCtx, NoDup
<1>2. CASE Do_RLock(c)
  BY <1>2, QueueAssumption DEF Do_RLock, NoDup
<1>3. CASE Do_CheckClosed(c)
  BY <1>3, QueueAssumption DEF Do_CheckClosed, NoDup
<1>4. CASE Do_Submit(c)
  <2>1. CASE jobs' = jobs
    BY <1>4, <2>1, QueueAssumption DEF Do_Submit, NoDup
  <2>2. CASE jobs' = Append(jobs, c) /\ Len(jobs) < QueueSize /\ answer' = answer
    <3>1. /\ jobs' \in Seq(Callers)
          /\ Len(jobs') <= QueueSize
          /\ ToSet(jobs') = ToSet(jobs) \cup {c}
          /\ NoDup(jobs')
      BY <1>4, <2>2, AppendLemma, QueueAssumption DEF Do_Submit
    <3>2. pc' = [pc EXCEPT ![c] = "await"] /\ readers' = readers \ {c}
      BY <1>4, <2>2, QueueAssumption DEF Do_Submit
    <3> QED BY <1>4, <2>2, <3>1, <3>2, QueueAssumption DEF Do_Submit
  <2> QED BY <1>4, <2>1, <2>2 DEF Do_Submit
<1>5. CASE Do_Await(c)
  <2>1. jobs' = jobs /\ NoDup(jobs')
    BY <1>5 DEF Do_Await, NoDup
  <2>2. CASE result[c] # "empty" /\ Return(c, result[c]) /\ result' = [result EXCEPT ![c] = "empty"]
    BY <1>5, <2>1, <2>2, QueueAssumption DEF Do_Await
  <2>3. CASE Ended(c) /\ Return(c, ctx[c]) /\ result' = result
    BY <1>5, <2>1, <2>3, QueueAssumption DEF Do_Await
  <2> QED BY <1>5, <2>2, <2>3 DEF Do_Await
<1> QED BY <1>1, <1>2, <1>3, <1>4, <1>5 DEF Do

(* A step of Shutdown: the close under the write lock, the wait for the    *)
(* worker.                                                                 *)
LEMMA ShutdownIInv ==
  ASSUME IInv, NEW s \in Stoppers, Shutdown(s)
  PROVE  IInv'
<1> USE DEF callerVars, workerVars, IInv, TypeOK, LockInv, WorkerInv, CallInv,
            NoDup, Unsettled, Queued, AwaitsAnswer, Ended
<1>1. CASE Shutdown_Once(s)
  BY <1>1, QueueAssumption DEF Shutdown_Once
<1>2. CASE Shutdown_Lock(s)
  BY <1>2, QueueAssumption DEF Shutdown_Lock
<1>3. CASE Shutdown_Close(s)
  <2>1. \A c \in Callers : pc[c] # "submit"
    BY <1>3 DEF Shutdown_Close
  <2>2. TypeOK' /\ NoDup(jobs')
    <3>1. spc' \in [Stoppers -> {"new", "lock", "close", "await", "returned"}]
      BY <1>3 DEF Shutdown_Close
    <3>2. closed' \in BOOLEAN /\ writerWaiting' \in BOOLEAN /\ once' \in {"new", "running", "done"}
      BY <1>3 DEF Shutdown_Close
    <3>3. UNCHANGED <<ctx, readers, jobs, result, pc, answer, wpc, job, workerDone, exec>>
      BY <1>3 DEF Shutdown_Close
    <3> HIDE DEF LockInv, WorkerInv, CallInv, NoDup
    <3>4. NoDup(jobs')
      BY <3>3
    <3> QED BY <3>1, <3>2, <3>3, <3>4
  <2>3. LockInv' /\ WorkerInv'
    BY <1>3, <2>1, QueueAssumption DEF Shutdown_Close
  <2>4. \A c \in Callers : CallInv(c)'
    BY <1>3, QueueAssumption DEF Shutdown_Close
  <2> QED BY <2>2, <2>3, <2>4
<1>4. CASE Shutdown_Await(s)
  BY <1>4, QueueAssumption DEF Shutdown_Await
<1> QED BY <1>1, <1>2, <1>3, <1>4 DEF Shutdown

(* The first job of the channel, taken off it. *)
LEMMA HeadLemma ==
  ASSUME IInv, jobs # <<>>
  PROVE  /\ Head(jobs) \in Callers
         /\ Head(jobs) \in Queued
         /\ Tail(jobs) \in Seq(Callers)
         /\ Len(Tail(jobs)) <= QueueSize
         /\ Queued = ToSet(Tail(jobs)) \cup {Head(jobs)}
         /\ NoDup(Tail(jobs))
         /\ Head(jobs) \notin ToSet(Tail(jobs))
  BY TailLemma, QueueAssumption DEF IInv, TypeOK, Queued

(* A step of the worker: take, skip, execute, finish, drain, stop. *)
LEMMA RunIInv ==
  ASSUME IInv, Run
  PROVE  IInv'
<1> USE DEF callerVars, stopVars, workerVars, IInv, TypeOK, LockInv, WorkerInv,
            CallInv, Unsettled, AwaitsAnswer, Ended, FinishJob
<1>1. CASE Run_Done
  BY <1>1, QueueAssumption DEF Run_Done, NoDup, Queued
<1>2. CASE Run_Take
  <2>1. Queued' = ToSet(Tail(jobs))
    BY <1>2 DEF Run_Take, Queued
  <2> QED BY <1>2, <2>1, HeadLemma, QueueAssumption DEF Run_Take
<1>3. CASE Run_IsClosed
  BY <1>3, QueueAssumption DEF Run_IsClosed, NoDup, Queued
<1>4. CASE RunJob_Skip
  BY <1>4, QueueAssumption DEF RunJob_Skip, NoDup, Queued
<1>5. CASE RunJob_Execute
  BY <1>5, QueueAssumption DEF RunJob_Execute, NoDup, Queued
<1>6. ASSUME NEW o \in Outcomes, RunJob_Executed(o) PROVE IInv'
  BY <1>6, QueueAssumption DEF RunJob_Executed, NoDup, Queued
<1>7. CASE RunJob_Finish
  BY <1>7, QueueAssumption DEF RunJob_Finish, NoDup, Queued
<1>8. CASE RejectPendingJob
  <2>1. Queued' = ToSet(Tail(jobs))
    BY <1>8 DEF RejectPendingJob, Queued
  <2> QED BY <1>8, <2>1, HeadLemma, QueueAssumption DEF RejectPendingJob
<1>9. CASE Run_Return
  BY <1>9, QueueAssumption DEF Run_Return, NoDup, Queued
<1> QED BY <1>1, <1>2, <1>3, <1>4, <1>5, <1>6, <1>7, <1>8, <1>9 DEF Run

(* Whoever moves, the invariant is kept. *)
LEMMA NextIInv ==
  ASSUME IInv, [Next]_vars
  PROVE  IInv'
<1>1. ASSUME NEW p \in Callers \cup Stoppers, EndCtx(p) PROVE IInv'
  BY <1>1, EndCtxIInv
<1>2. ASSUME NEW c \in Callers, Do(c) PROVE IInv'
  BY <1>2, DoIInv
<1>3. ASSUME NEW s \in Stoppers, Shutdown(s) PROVE IInv'
  BY <1>3, ShutdownIInv
<1>4. CASE Run
  BY <1>4, RunIInv
<1>5. CASE UNCHANGED vars
  BY <1>5 DEF vars, IInv, TypeOK, NoDup, LockInv, WorkerInv, CallInv,
     Unsettled, Queued, AwaitsAnswer, Ended
<1> QED BY <1>1, <1>2, <1>3, <1>4, <1>5 DEF Next

(* The inductive invariant holds in every behaviour. *)
THEOREM Invariance == Spec => []IInv
<1>1. ASSUME IInv, [Next]_vars PROVE IInv'
  BY <1>1, NextIInv
<1> QED BY InitIInv, <1>1, PTL DEF Spec

(* Every variable keeps to its type. *)
THEOREM TypeCorrect == Spec => []TypeOK
<1>1. IInv => TypeOK
  BY DEF IInv
<1> QED BY <1>1, Invariance, PTL

(* No accepted call is lost, however Do, Shutdown and the worker interleave. *)
THEOREM NothingStranded == Spec => []NoStrandedJob
<1>1. IInv => NoStrandedJob
  BY DEF IInv, WorkerInv, CallInv, NoStrandedJob, Unsettled, Queued
<1> QED BY <1>1, Invariance, PTL

(* A call answered busy or closed can be repeated: it never ran. *)
THEOREM RefusalIsFinal == Spec => []RefusedNeverRuns
<1>1. IInv => RefusedNeverRuns
  BY QueueAssumption DEF IInv, TypeOK, CallInv, RefusedNeverRuns, Unsettled, Queued
<1> QED BY <1>1, Invariance, PTL

(* An outcome returned by Do is the outcome of the caller's own operation. *)
THEOREM AnswersAreTrue == Spec => []AnswerMatchesExecution
<1>1. IInv => AnswerMatchesExecution
  BY DEF IInv, CallInv, AnswerMatchesExecution
<1> QED BY <1>1, Invariance, PTL

-----------------------------------------------------------------------------
(* After a clean Shutdown. *)

(* Shutdown returns when the worker has, or when its own context has ended. *)
StopInv == \A s \in Stoppers : spc[s] = "returned" => workerDone \/ Ended(s)

(* No step makes a Shutdown come back clean that has not seen the worker   *)
(* go.                                                                     *)
LEMMA NextStopInv ==
  ASSUME TypeOK, StopInv, [Next]_vars
  PROVE  StopInv'
<1> USE DEF TypeOK, StopInv, Ended, callerVars, stopVars, workerVars
<1>1. ASSUME NEW p \in Callers \cup Stoppers, EndCtx(p) PROVE StopInv'
  BY <1>1, QueueAssumption DEF EndCtx
<1>2. ASSUME NEW c \in Callers, Do(c) PROVE StopInv'
  BY <1>2 DEF Do, Do_CheckCtx, Do_RLock, Do_CheckClosed, Do_Submit, Do_Await
<1>3. ASSUME NEW s \in Stoppers, Shutdown(s) PROVE StopInv'
  BY <1>3 DEF Shutdown, Shutdown_Once, Shutdown_Lock, Shutdown_Close, Shutdown_Await
<1>4. CASE Run
  BY <1>4 DEF Run, Run_Done, Run_Take, Run_IsClosed, RunJob_Skip, RunJob_Execute,
     RunJob_Executed, RunJob_Finish, RejectPendingJob, Run_Return
<1>5. CASE UNCHANGED vars
  BY <1>5 DEF vars
<1> QED BY <1>1, <1>2, <1>3, <1>4, <1>5 DEF Next

(* A Shutdown that came back clean has seen the worker go. *)
LEMMA StopInvariance == Spec => []StopInv
<1>1. Init => StopInv
  BY DEF Init, StopInv
<1> QED BY <1>1, NextStopInv, TypeCorrect, PTL DEF Spec

(* Once a Shutdown has returned with its context alive, nothing is         *)
(* accepted and nothing is started: the worker has gone, and the closed    *)
(* flag it left behind is in the way of every send (queue.go:55-58, 99-101)*)
THEOREM QuietAfterShutdown == Spec => QuietAfterCleanShutdown
<1>1. ASSUME IInv, StopInv, [Next]_vars,
             NEW s \in Stoppers, spc[s] = "returned", ~Ended(s)
      PROVE  jobs' = jobs /\ exec' = exec
  <2>1. workerDone /\ closed /\ wpc = "stopped" /\ jobs = <<>>
    BY <1>1 DEF StopInv, IInv, WorkerInv
  <2>2. \A c \in Callers : pc[c] # "submit"
    BY <1>1, <2>1 DEF IInv, LockInv
  <2>3. ASSUME NEW c \in Callers, Do(c) PROVE jobs' = jobs /\ exec' = exec
    BY <2>2, <2>3 DEF Do, Do_CheckCtx, Do_RLock, Do_CheckClosed, Do_Submit, Do_Await, workerVars
  <2>4. ~Run
    BY <2>1 DEF Run, Run_Done, Run_Take, Run_IsClosed, RunJob_Skip, RunJob_Execute,
       RunJob_Executed, RunJob_Finish, RejectPendingJob, Run_Return
  <2> QED
    BY <1>1, <2>3, <2>4 DEF Next, EndCtx, Shutdown, Shutdown_Once, Shutdown_Lock,
       Shutdown_Close, Shutdown_Await, workerVars, vars
<1>2. IInv /\ StopInv /\ [Next]_vars =>
        [(\E s \in Stoppers : spc[s] = "returned" /\ ~Ended(s)) => jobs' = jobs /\ exec' = exec]_vars
  BY <1>1
<1> QED BY <1>2, Invariance, StopInvariance, PTL DEF Spec, QuietAfterCleanShutdown

-----------------------------------------------------------------------------
(* What is left in the channel. *)

(* A call that will never be executed: it lies in the channel although its *)
(* context has ended or the queue is closed, or the worker has it in hand  *)
(* and has a look at the flag or the context still before it, or it is over*)
Barred(c) ==
    /\ exec[c] = "none"
    /\ \/ (Ended(c) \/ closed) /\ c \in Queued
       \/ (Ended(c) \/ closed) /\ job = c /\ wpc = "closed?"
       \/ Ended(c) /\ job = c /\ wpc = "runJob"
       \/ pc[c] \in {"await", "returned"} /\ ~Unsettled(c)

(* A barred call stays barred. *)
LEMMA BarredStays ==
  ASSUME IInv, NEW c \in Callers, Barred(c), [Next]_vars
  PROVE  Barred(c)'
<1> USE QueueAssumption DEF IInv, TypeOK, CallInv, Barred, Unsettled, Ended,
        callerVars, stopVars, workerVars
<1>1. ASSUME NEW p \in Callers \cup Stoppers, EndCtx(p) PROVE Barred(c)'
  BY <1>1 DEF EndCtx, Queued
<1>2. ASSUME NEW d \in Callers, Do(d) PROVE Barred(c)'
  <2>1. CASE Do_Submit(d) /\ jobs' = Append(jobs, d)
    <3>1. Queued' = Queued \cup {d}
      BY <2>1, AppendLemma DEF Do_Submit, Queued
    <3>2. d # c
      BY <2>1 DEF Do_Submit
    <3> QED BY <2>1, <3>1, <3>2 DEF Do_Submit, Return
  <2>2. CASE jobs' = jobs
    BY <1>2, <2>2 DEF Do, Do_CheckCtx, Do_RLock, Do_CheckClosed, Do_Submit, Do_Await,
       Return, Queued
  <2> QED BY <1>2, <2>1, <2>2 DEF Do, Do_CheckCtx, Do_RLock, Do_CheckClosed, Do_Submit, Do_Await
<1>3. ASSUME NEW s \in Stoppers, Shutdown(s) PROVE Barred(c)'
  BY <1>3 DEF Shutdown, Shutdown_Once, Shutdown_Lock, Shutdown_Close, Shutdown_Await, Queued
<1>4. CASE Run
  <2>1. CASE Run_Take \/ RejectPendingJob
    <3>1. jobs # <<>> /\ Queued' = ToSet(Tail(jobs))
      BY <2>1 DEF Run_Take, RejectPendingJob, Queued
    <3>2. Queued = Queued' \cup {Head(jobs)} /\ Head(jobs) \notin Queued'
      BY <3>1, HeadLemma
    <3> QED BY <2>1, <3>1, <3>2 DEF Run_Take, RejectPendingJob, WorkerInv
  <2>2. CASE Run_Done \/ Run_Return \/ Run_IsClosed \/ RunJob_Skip \/ RunJob_Finish
    BY <2>2 DEF Run_Done, Run_Return, Run_IsClosed, RunJob_Skip, RunJob_Finish, Queued, WorkerInv
  <2>3. CASE RunJob_Execute
    <3>1. job # c
      BY <2>3 DEF RunJob_Execute
    <3> QED BY <2>3, <3>1 DEF RunJob_Execute, Queued, WorkerInv
  <2>4. ASSUME NEW o \in Outcomes, RunJob_Executed(o) PROVE Barred(c)'
    <3>1. job # c
      BY <2>4 DEF RunJob_Executed, WorkerInv
    <3> QED BY <2>4, <3>1 DEF RunJob_Executed, Queued, WorkerInv
  <2> QED BY <1>4, <2>1, <2>2, <2>3, <2>4 DEF Run
<1>5. CASE UNCHANGED vars
  BY <1>5 DEF vars, Queued
<1> QED BY <1>1, <1>2, <1>3, <1>4, <1>5 DEF Next

(* A call still in the channel when its context ends or the queue closes   *)
(* never runs, however the worker's select chooses (queue.go:110-143).     *)
THEOREM LeftBehindNeverRuns == Spec => LeftInQueueNeverRuns
<1> SUFFICES ASSUME NEW c \in Callers
             PROVE  Spec => []((Ended(c) \/ closed) /\ c \in ToSet(jobs) => [](exec[c] = "none"))
  BY DEF LeftInQueueNeverRuns
<1>1. IInv /\ (Ended(c) \/ closed) /\ c \in ToSet(jobs) => Barred(c)
  BY DEF IInv, CallInv, Barred, Queued
<1>2. IInv /\ Barred(c) /\ [Next]_vars => Barred(c)'
  BY BarredStays
<1>3. Barred(c) => exec[c] = "none"
  BY DEF Barred
<1> QED BY <1>1, <1>2, <1>3, Invariance, PTL DEF Spec

-----------------------------------------------------------------------------
(* The refinement of SerialExecutor. *)

(* Where one call stands: Effect, call by call. *)
EffectOf(c) ==
    IF exec[c] # "none" THEN exec[c]
    ELSE IF pc[c] \in {"new", "rlock", "closed?", "submit"} THEN "none"
    ELSE IF Unsettled(c) THEN "pending"
    ELSE "never"

(* The refinement mapping, call by call. *)
LEMMA EffectAt == \A c \in Callers : Effect[c] = EffectOf(c)
  BY DEF Effect, EffectOf, Unsettled, Queued

(* A step that moves one call, and one that moves none. *)
LEMMA EffectMoves ==
  ASSUME NEW c \in Callers, \A d \in Callers : d # c => EffectOf(d)' = EffectOf(d)
  PROVE  Effect' = [Effect EXCEPT ![c] = EffectOf(c)']
<1>1. /\ Effect = [d \in Callers |-> EffectOf(d)]
      /\ Effect' = [d \in Callers |-> EffectOf(d)']
  BY DEF Effect, EffectOf, Unsettled, Queued
<1> HIDE DEF Effect, EffectOf
<1> QED BY <1>1

(* No call moves. *)
LEMMA EffectStays ==
  ASSUME \A d \in Callers : EffectOf(d)' = EffectOf(d)
  PROVE  Effect' = Effect
<1>1. /\ Effect = [d \in Callers |-> EffectOf(d)]
      /\ Effect' = [d \in Callers |-> EffectOf(d)']
  BY DEF Effect, EffectOf, Unsettled, Queued
<1> HIDE DEF Effect, EffectOf
<1> QED BY <1>1

(* The queue begins where the serial executor does. *)
LEMMA InitRefines == Init => Abstract!Init
<1> SUFFICES ASSUME Init PROVE Abstract!Init
  OBVIOUS
<1>1. \A c \in Callers : exec[c] = "none" /\ pc[c] = "new"
  BY DEF Init
<1> QED BY <1>1 DEF Init, Abstract!Init, Effect

(* A call that returns at the door, without having been accepted. *)
LEMMA ReturnRefines ==
  ASSUME IInv, NEW c \in Callers, NEW a \in {"busy", "closed"} \cup CtxErrs,
         pc[c] \in {"new", "closed?", "submit"}, Return(c, a),
         UNCHANGED <<jobs, job, exec>>
  PROVE  Abstract!Next
<1> USE DEF IInv, TypeOK, CallInv, Return
<1>1. EffectOf(c) = "none" /\ EffectOf(c)' = "never"
  BY DEF EffectOf, Unsettled, Queued
<1>2. \A d \in Callers : d # c => EffectOf(d)' = EffectOf(d)
  BY DEF EffectOf, Unsettled, Queued
<1>3. Effect' = [Effect EXCEPT ![c] = "never"]
  BY <1>1, <1>2, EffectMoves
<1>4. answer[c] = "none" /\ answer' = [answer EXCEPT ![c] = a]
  OBVIOUS
<1>5. Abstract!Refuse(c)
  BY <1>1, <1>3, <1>4, EffectAt DEF Abstract!Refuse, Abstract!Refusals
<1> QED BY <1>5 DEF Abstract!Next

(* A step of Do is a call, an answer or nothing to the serial executor. *)
LEMMA DoRefines ==
  ASSUME IInv, NEW c \in Callers, Do(c)
  PROVE  Abstract!Next \/ UNCHANGED <<Effect, answer>>
<1> USE DEF IInv, TypeOK, Ended, callerVars, stopVars, workerVars
<1>1. ASSUME UNCHANGED <<answer, jobs, job, exec>>,
             pc[c] \in {"new", "rlock", "closed?"}, pc' = [pc EXCEPT ![c] = pc'[c]],
             pc'[c] \in {"rlock", "closed?", "submit"}
      PROVE  UNCHANGED <<Effect, answer>>
  <2>1. \A d \in Callers : EffectOf(d)' = EffectOf(d)
    BY <1>1 DEF EffectOf, Unsettled, Queued
  <2> QED BY <1>1, <2>1, EffectStays
<1>2. CASE Do_CheckCtx(c)
  BY <1>1, <1>2, ReturnRefines DEF Do_CheckCtx
<1>3. CASE Do_RLock(c)
  BY <1>1, <1>3 DEF Do_RLock
<1>4. CASE Do_CheckClosed(c)
  BY <1>1, <1>4, ReturnRefines DEF Do_CheckClosed
<1>5. CASE Do_Submit(c)
  <2>1. CASE jobs' = Append(jobs, c) /\ pc' = [pc EXCEPT ![c] = "await"] /\ answer' = answer
    <3>1. Queued' = Queued \cup {c}
      BY <2>1, AppendLemma DEF Queued
    <3>2. EffectOf(c) = "none" /\ answer[c] = "none" /\ EffectOf(c)' = "pending"
      BY <1>5, <2>1, <3>1 DEF Do_Submit, EffectOf, Unsettled, CallInv
    <3>3. \A d \in Callers : d # c => EffectOf(d)' = EffectOf(d)
      BY <1>5, <2>1, <3>1 DEF Do_Submit, EffectOf, Unsettled
    <3>4. Effect' = [Effect EXCEPT ![c] = "pending"]
      BY <3>2, <3>3, EffectMoves
    <3>5. Abstract!Accept(c)
      BY <2>1, <3>2, <3>4, EffectAt DEF Abstract!Accept
    <3> QED BY <3>5 DEF Abstract!Next
  <2>2. CASE Ended(c) /\ Return(c, ctx[c]) /\ jobs' = jobs
    BY <1>5, <2>2, ReturnRefines DEF Do_Submit
  <2>3. CASE Return(c, "busy") /\ jobs' = jobs
    BY <1>5, <2>3, ReturnRefines DEF Do_Submit
  <2> QED BY <1>5, <2>1, <2>2, <2>3 DEF Do_Submit
<1>6. CASE Do_Await(c)
  <2>1. \A d \in Callers : EffectOf(d)' = EffectOf(d)
    BY <1>6 DEF Do_Await, Return, EffectOf, Unsettled, Queued
  <2>2. Effect' = Effect
    BY <2>1, EffectStays
  <2>3. answer[c] = "none" /\ Effect[c] # "none"
    <3>1. EffectOf(c) # "none"
      BY <1>6 DEF Do_Await, EffectOf
    <3> QED BY <1>6, <3>1, EffectAt DEF Do_Await, CallInv
  <2>4. CASE result[c] # "empty" /\ Return(c, result[c])
    <3>1. result[c] \in Outcomes \cup {"closed"} \cup CtxErrs
      BY <2>4
    <3>2. result[c] \in Outcomes => EffectOf(c) = result[c]
      BY DEF CallInv, EffectOf
    <3>3. result[c] = "closed" => EffectOf(c) = "never"
      BY <1>6 DEF Do_Await, CallInv, EffectOf
    <3>4. Abstract!Reply(c)
      BY <2>2, <2>3, <2>4, <3>1, <3>2, <3>3, EffectAt
         DEF Abstract!Reply, Abstract!Outcomes, Return
    <3> QED BY <3>4 DEF Abstract!Next
  <2>5. CASE Ended(c) /\ Return(c, ctx[c])
    <3>1. ctx[c] \in CtxErrs /\ ctx[c] \notin Outcomes \cup {"closed"}
      BY <2>5, QueueAssumption
    <3>2. Abstract!Reply(c)
      BY <2>2, <2>3, <2>5, <3>1 DEF Abstract!Reply, Abstract!Outcomes, Return
    <3> QED BY <3>2 DEF Abstract!Next
  <2> QED BY <1>6, <2>4, <2>5 DEF Do_Await
<1> QED BY <1>2, <1>3, <1>4, <1>5, <1>6 DEF Do

(* A step of the worker starts, ends or gives up an execution, or is       *)
(* nothing to the serial executor.                                         *)
LEMMA RunRefines ==
  ASSUME IInv, Run
  PROVE  Abstract!Next \/ UNCHANGED <<Effect, answer>>
<1> USE QueueAssumption DEF IInv, TypeOK, WorkerInv, CallInv, callerVars, stopVars, workerVars
<1>1. ASSUME UNCHANGED <<pc, exec, answer>>, \A d \in Callers : Unsettled(d)' = Unsettled(d)
      PROVE  UNCHANGED <<Effect, answer>>
  <2>1. \A d \in Callers : EffectOf(d)' = EffectOf(d)
    BY <1>1 DEF EffectOf
  <2> QED BY <1>1, <2>1, EffectStays
(* The worker gives up an accepted call. *)
<1>2. ASSUME NEW c \in Callers, Unsettled(c), exec[c] = "none", ~Unsettled(c)',
             \A d \in Callers : d # c => Unsettled(d)' = Unsettled(d),
             UNCHANGED <<pc, exec, answer>>
      PROVE  Abstract!Next
  <2>1. EffectOf(c) = "pending" /\ EffectOf(c)' = "never"
    BY <1>2 DEF EffectOf
  <2>2. \A d \in Callers : d # c => EffectOf(d)' = EffectOf(d)
    BY <1>2 DEF EffectOf
  <2>3. Effect' = [Effect EXCEPT ![c] = "never"]
    BY <2>1, <2>2, EffectMoves
  <2>4. Abstract!Discard(c)
    BY <1>2, <2>1, <2>3, EffectAt DEF Abstract!Discard
  <2> QED BY <2>4 DEF Abstract!Next
<1>3. CASE Run_Done \/ Run_Return
  BY <1>1, <1>3 DEF Run_Done, Run_Return, Unsettled, Queued
<1>4. CASE Run_Take
  <2>1. job = NoJob /\ Queued' = ToSet(Tail(jobs)) /\ job' = Head(jobs)
    BY <1>4 DEF Run_Take, Queued
  <2>2. Queued = Queued' \cup {job'}
    BY <1>4, <2>1, HeadLemma DEF Run_Take
  <2> QED BY <1>1, <1>4, <2>1, <2>2 DEF Run_Take, Unsettled
<1>5. CASE Run_IsClosed
  <2>1. job \in Callers /\ Queued' = Queued
    BY <1>5 DEF Run_IsClosed, Queued
  <2>2. CASE job' = NoJob
    BY <1>2, <1>5, <2>1, <2>2 DEF Run_IsClosed, Unsettled
  <2>3. CASE job' = job
    BY <1>1, <1>5, <2>1, <2>3 DEF Run_IsClosed, Unsettled
  <2> QED BY <1>5, <2>2, <2>3 DEF Run_IsClosed
<1>6. CASE RunJob_Skip
  <2>1. job \in Callers /\ Queued' = Queued /\ job' = NoJob
    BY <1>6 DEF RunJob_Skip, Queued
  <2> QED BY <1>2, <1>6, <2>1 DEF RunJob_Skip, Unsettled
<1>7. CASE RunJob_Execute
  <2>1. job \in Callers /\ exec[job] = "none" /\ exec' = [exec EXCEPT ![job] = "running"]
    BY <1>7 DEF RunJob_Execute
  <2>2. UNCHANGED <<pc, answer, jobs, job>>
    BY <1>7 DEF RunJob_Execute
  <2>3. EffectOf(job) = "pending" /\ (EffectOf(job) = "running")' 
    BY <2>1, <2>2 DEF EffectOf, Unsettled
  <2>4. \A d \in Callers : d # job => EffectOf(d)' = EffectOf(d)
    BY <2>1, <2>2 DEF EffectOf, Unsettled, Queued
  <2>5. \A d \in Callers : EffectOf(d) # "running"
    BY <1>7 DEF RunJob_Execute, EffectOf
  <2>6. Effect' = [Effect EXCEPT ![job] = "running"]
    BY <2>1, <2>2, <2>3, <2>4, EffectMoves
  <2>7. Abstract!Start(job)
    BY <2>1, <2>2, <2>3, <2>5, <2>6, EffectAt DEF Abstract!Start
  <2> QED BY <2>1, <2>7 DEF Abstract!Next
<1>8. ASSUME NEW o \in Outcomes, RunJob_Executed(o) PROVE Abstract!Next
  <2>1. job \in Callers /\ exec[job] = "running" /\ exec' = [exec EXCEPT ![job] = o]
    BY <1>8 DEF RunJob_Executed
  <2>2. UNCHANGED <<pc, answer, jobs, job>>
    BY <1>8 DEF RunJob_Executed
  <2>3. EffectOf(job) = "running" /\ (EffectOf(job))' = o
    BY <2>1, <2>2 DEF EffectOf
  <2>4. \A d \in Callers : d # job => EffectOf(d)' = EffectOf(d)
    BY <2>1, <2>2 DEF EffectOf, Unsettled, Queued
  <2>5. Effect' = [Effect EXCEPT ![job] = o]
    BY <2>1, <2>2, <2>3, <2>4, EffectMoves
  <2>6. Abstract!Finish(job)
    BY <2>1, <2>2, <2>3, <2>5, EffectAt DEF Abstract!Finish, Abstract!Outcomes
  <2> QED BY <2>1, <2>6 DEF Abstract!Next
<1>9. CASE RunJob_Finish
  <2>1. /\ job \in Callers /\ job' = NoJob /\ exec[job] # "none"
        /\ UNCHANGED <<pc, exec, answer, jobs>>
    BY <1>9 DEF RunJob_Finish
  <2>2. ASSUME NEW d \in Callers PROVE EffectOf(d)' = EffectOf(d)
    <3>1. CASE d = job
      BY <2>1, <3>1 DEF EffectOf
    <3>2. CASE d # job
      <4>1. Unsettled(d)' <=> Unsettled(d)
        BY <2>1, <3>2, QueueAssumption DEF Unsettled, Queued
      <4> QED BY <2>1, <4>1 DEF EffectOf
    <3> QED BY <3>1, <3>2
  <2> QED BY <2>1, <2>2, EffectStays
<1>10. CASE RejectPendingJob
  <2>1. jobs # <<>> /\ job = NoJob /\ job' = job /\ Queued' = ToSet(Tail(jobs))
    BY <1>10 DEF RejectPendingJob, Queued
  <2>2. /\ Head(jobs) \in Queued /\ Head(jobs) \notin Queued' /\ Head(jobs) \in Callers
        /\ Queued = Queued' \cup {Head(jobs)}
    BY <2>1, HeadLemma
  <2>3. PICK c \in Callers : c = Head(jobs)
    BY <2>2
  <2>4. Unsettled(c) /\ exec[c] = "none" /\ UNCHANGED <<pc, exec, answer>>
    BY <1>10, <2>1, <2>2, <2>3 DEF RejectPendingJob, Unsettled
  <2>5. ~Unsettled(c)'
    BY <2>1, <2>2, <2>3 DEF Unsettled
  <2>6. \A d \in Callers : d # c => Unsettled(d)' = Unsettled(d)
    BY <2>1, <2>2, <2>3 DEF Unsettled
  <2> HIDE DEF IInv, TypeOK, WorkerInv, CallInv
  <2> QED BY <1>2, <2>4, <2>5, <2>6
<1> QED BY <1>3, <1>4, <1>5, <1>6, <1>7, <1>8, <1>9, <1>10 DEF Run

(* Whoever moves, the serial executor makes a step of its own or none. *)
LEMMA StepRefines ==
  ASSUME IInv, [Next]_vars
  PROVE  [Abstract!Next]_<<Effect, answer>>
<1>1. ASSUME UNCHANGED <<pc, exec, answer, jobs, job>> PROVE UNCHANGED <<Effect, answer>>
  <2>1. \A d \in Callers : EffectOf(d)' = EffectOf(d)
    BY <1>1 DEF EffectOf, Unsettled, Queued
  <2> QED BY <1>1, <2>1, EffectStays
<1>2. ASSUME NEW p \in Callers \cup Stoppers, EndCtx(p) PROVE UNCHANGED <<Effect, answer>>
  BY <1>1, <1>2 DEF EndCtx, callerVars, workerVars
<1>3. ASSUME NEW s \in Stoppers, Shutdown(s) PROVE UNCHANGED <<Effect, answer>>
  BY <1>1, <1>3 DEF Shutdown, Shutdown_Once, Shutdown_Lock, Shutdown_Close,
     Shutdown_Await, callerVars, workerVars
<1>4. CASE UNCHANGED vars
  BY <1>1, <1>4 DEF vars
<1> QED BY <1>2, <1>3, <1>4, DoRefines, RunRefines DEF Next

(* Every step of the queue is a step of the serial executor or none: calls *)
(* are executed one at a time, each at most once, and no answer            *)
(* contradicts what was done.                                              *)
THEOREM Refinement == Spec => ImplementsSerialExecutor
<1>1. IInv /\ [Next]_vars => [Abstract!Next]_(Abstract!avars)
  BY StepRefines DEF Abstract!avars
<1> QED BY <1>1, InitRefines, Invariance, PTL DEF Spec, ImplementsSerialExecutor, Abstract!Spec

-----------------------------------------------------------------------------
(* The order of the calls. *)

(* d had returned when c began: d's job, if it is still in the channel,    *)
(* lies in front of c's, and it is out of the worker's way before c's is   *)
(* in the worker's hands.                                                  *)
Precedes(d, c) ==
    /\ pc[d] = "returned" /\ pc[c] # "new" /\ c # d
    /\ \A i, j \in 1..Len(jobs) : jobs[i] = d /\ jobs[j] = c => i < j
    /\ job = c \/ Started(c) => ~Unsettled(d)

OrderInv == /\ before \in [Callers -> SUBSET Callers]
            /\ \A c \in Callers : \A d \in before[c] : Precedes(d, c)

(* Who had returned when c began stays out of its way, whatever the queue  *)
(* does next.                                                              *)
LEMMA PrecedesStays ==
  ASSUME IInv, [Next]_vars, NEW c \in Callers, NEW d \in Callers, Precedes(d, c)
  PROVE  Precedes(d, c)'
<1> USE QueueAssumption DEF IInv, TypeOK, Precedes, Started, Unsettled,
        callerVars, stopVars, workerVars, Return
<1>1. ASSUME NEW p \in Callers \cup Stoppers, EndCtx(p) PROVE Precedes(d, c)'
  BY <1>1 DEF EndCtx, Queued
<1>2. ASSUME NEW e \in Callers, Do(e) PROVE Precedes(d, c)'
  <2>1. CASE Do_Submit(e) /\ jobs' = Append(jobs, e)
    <3>1. e # d /\ Queued' = Queued \cup {e} /\ UNCHANGED <<job, exec>>
      BY <2>1, AppendLemma DEF Do_Submit, Queued
    <3>2. pc'[d] = "returned" /\ pc'[c] # "new"
      BY <2>1 DEF Do_Submit
    <3>3. ASSUME NEW i \in 1..Len(jobs'), NEW j \in 1..Len(jobs'), jobs'[i] = d, jobs'[j] = c
          PROVE  i < j
      <4>1. /\ Len(jobs') = Len(jobs) + 1 /\ Len(jobs) \in Nat
            /\ \A k \in 1..Len(jobs) : jobs'[k] = jobs[k]
            /\ jobs'[Len(jobs) + 1] = e
        BY <2>1
      <4>2. i \in 1..Len(jobs)
        BY <3>1, <3>3, <4>1
      <4>3. CASE j \in 1..Len(jobs)
        BY <3>3, <4>1, <4>2, <4>3
      <4>4. CASE j = Len(jobs) + 1
        BY <4>2, <4>4, <4>1
      <4> QED BY <4>1, <4>3, <4>4
    <3> QED BY <3>1, <3>2, <3>3
  <2>2. CASE jobs' = jobs
    BY <1>2, <2>2 DEF Do, Do_CheckCtx, Do_RLock, Do_CheckClosed, Do_Submit, Do_Await, Queued
  <2> QED BY <1>2, <2>1, <2>2 DEF Do, Do_CheckCtx, Do_RLock, Do_CheckClosed, Do_Submit, Do_Await
<1>3. ASSUME NEW s \in Stoppers, Shutdown(s) PROVE Precedes(d, c)'
  BY <1>3 DEF Shutdown, Shutdown_Once, Shutdown_Lock, Shutdown_Close, Shutdown_Await, Queued
<1>4. CASE Run
  <2>1. CASE Run_Take \/ RejectPendingJob
    <3>1. jobs # <<>> /\ jobs' = Tail(jobs) /\ UNCHANGED <<pc, exec>>
      BY <2>1 DEF Run_Take, RejectPendingJob
    <3>2. /\ Len(jobs) \in Nat \ {0} /\ Len(jobs') = Len(jobs) - 1
          /\ \A k \in 1..Len(jobs') : k + 1 \in 1..Len(jobs) /\ jobs'[k] = jobs[k + 1]
          /\ Head(jobs) = jobs[1]
      BY <3>1
    <3>3. \A i, j \in 1..Len(jobs') : jobs'[i] = d /\ jobs'[j] = c => i < j
      <4>1. SUFFICES ASSUME NEW i \in 1..Len(jobs'), NEW j \in 1..Len(jobs'),
                            jobs'[i] = d, jobs'[j] = c
                     PROVE  i < j
        OBVIOUS
      <4>2. jobs[i + 1] = d /\ jobs[j + 1] = c /\ i + 1 \in 1..Len(jobs) /\ j + 1 \in 1..Len(jobs)
        BY <3>2, <4>1
      <4>3. i + 1 < j + 1
        BY <4>2
      <4> HIDE DEF IInv, TypeOK, Precedes
      <4> QED BY <3>2, <4>3
    <3>4. Queued' \subseteq Queued /\ Queued = Queued' \cup {Head(jobs)} /\ Head(jobs) \in Callers
      BY <3>1, HeadLemma DEF Queued
    (* The head of the channel is c: then no job of d is in it. *)
    <3>5. CASE Run_Take /\ Head(jobs) = c
      <4>1. d \notin Queued
        BY <3>2, <3>5 DEF Queued, ToSet
      <4> QED BY <3>1, <3>3, <3>4, <3>5, <4>1 DEF Run_Take
    <3>6. CASE Run_Take /\ Head(jobs) # c
      <4>1. job' = Head(jobs) /\ job = NoJob
        BY <3>6 DEF Run_Take, WorkerInv
      <4>2. job' # c /\ Started(c)' = Started(c)
        BY <3>1, <3>6, <4>1
      <4>3. Started(c) => ~Unsettled(d)'
        BY <3>4, <4>1
      <4> QED BY <3>1, <3>3, <4>2, <4>3
    <3>7. CASE RejectPendingJob
      BY <3>1, <3>3, <3>4, <3>7 DEF RejectPendingJob
    <3> QED BY <2>1, <3>5, <3>6, <3>7
  <2>2. CASE Run_Done \/ Run_Return \/ Run_IsClosed \/ RunJob_Skip \/ RunJob_Finish
    BY <2>2 DEF Run_Done, Run_Return, Run_IsClosed, RunJob_Skip, RunJob_Finish, Queued, WorkerInv
  <2>3. CASE RunJob_Execute
    BY <2>3 DEF RunJob_Execute, Queued, WorkerInv
  <2>4. ASSUME NEW o \in Outcomes, RunJob_Executed(o) PROVE Precedes(d, c)'
    BY <2>4 DEF RunJob_Executed, Queued, WorkerInv
  <2> QED BY <1>4, <2>1, <2>2, <2>3, <2>4 DEF Run
<1>5. CASE UNCHANGED vars
  BY <1>5 DEF vars, Queued
<1> QED BY <1>1, <1>2, <1>3, <1>4, <1>5 DEF Next

(* A call that begins now comes after every call that has returned. *)
LEMMA PrecedesBegins ==
  ASSUME IInv, Next, NEW c \in Callers, Begins(c), NEW d \in Callers, pc[d] = "returned"
  PROVE  Precedes(d, c)'
<1> USE QueueAssumption DEF IInv, TypeOK, Begins, callerVars, stopVars, workerVars, Return
<1>1. PICK e \in Callers : Do(e)
  BY DEF Next, EndCtx, Shutdown, Shutdown_Once, Shutdown_Lock, Shutdown_Close, Shutdown_Await,
     Run, Run_Done, Run_Take, Run_IsClosed, RunJob_Skip, RunJob_Execute, RunJob_Executed,
     RunJob_Finish, RejectPendingJob, Run_Return, vars
<1>2. e = c /\ Do_CheckCtx(c)
  BY <1>1 DEF Do, Do_CheckCtx, Do_RLock, Do_CheckClosed, Do_Submit, Do_Await
<1>3. UNCHANGED <<jobs, job, exec>> /\ pc'[d] = "returned" /\ c # d
  BY <1>2 DEF Do_CheckCtx
<1>4. c \notin Queued /\ job # c /\ exec[c] = "none"
  BY DEF CallInv, Unsettled
<1> QED BY <1>3, <1>4 DEF Precedes, Started, Unsettled, Queued, ToSet

(* Calls that began later included, the order is kept by every step. *)
LEMMA OrderInvStays ==
  ASSUME IInv, OrderInv, [OrderNext]_<<vars, before>>
  PROVE  OrderInv'
<1>1. CASE OrderNext
  <2>1. before' \in [Callers -> SUBSET Callers]
    BY <1>1 DEF OrderNext, OrderInv
  <2>2. ASSUME NEW c \in Callers, NEW d \in before'[c] PROVE Precedes(d, c)'
    <3>1. CASE Begins(c)
      BY <1>1, <2>2, <3>1, PrecedesBegins DEF OrderNext
    <3>2. CASE ~Begins(c)
      BY <1>1, <2>2, <3>2, PrecedesStays DEF OrderNext, OrderInv
    <3> QED BY <3>1, <3>2
  <2> QED BY <2>1, <2>2 DEF OrderInv
<1>2. CASE UNCHANGED <<vars, before>>
  BY <1>2, PrecedesStays DEF OrderInv
<1> QED BY <1>1, <1>2

(* The invariant of the queue and the order of its calls hold in every     *)
(* behaviour.                                                              *)
THEOREM OrderInvariance == OrderSpec => [](IInv /\ OrderInv)
<1>1. OrderInit => IInv /\ OrderInv
  BY InitIInv DEF OrderInit, OrderInv
<1>2. ASSUME IInv, OrderInv, [OrderNext]_<<vars, before>> PROVE IInv' /\ OrderInv'
  BY <1>2, NextIInv, OrderInvStays DEF OrderNext
<1> QED BY <1>1, <1>2, PTL DEF OrderSpec

(* Once a call has started, no call answered before it began has an effect *)
(* any more: the channel and the one worker keep a canceled write from     *)
(* overtaking the write sent after it (queue.go:60-84, 107-143).           *)
THEOREM AnsweredCallsStaySettled == OrderSpec => NoEffectAfterSuccessor
<1>1. ASSUME IInv, OrderInv, [Next]_vars, NEW c \in Callers, Started(c), NEW d \in before[c]
      PROVE  exec'[d] = exec[d] /\ exec[d] # "running"
  <2>1. d \in Callers /\ ~Unsettled(d)
    BY <1>1 DEF OrderInv, Precedes
  <2>2. exec[d] # "running"
    BY <1>1, <2>1 DEF IInv, CallInv, Unsettled
  <2>3. exec' = exec \/ \E x : exec' = [exec EXCEPT ![job] = x]
    <3>1. CASE Run
      <4>1. CASE RunJob_Execute
        BY <4>1 DEF RunJob_Execute
      <4>2. ASSUME NEW o \in Outcomes, RunJob_Executed(o)
            PROVE  \E x : exec' = [exec EXCEPT ![job] = x]
        BY <4>2 DEF RunJob_Executed
      <4>3. CASE ~RunJob_Execute /\ ~(\E o \in Outcomes : RunJob_Executed(o))
        BY <3>1, <4>3 DEF Run, Run_Done, Run_Take, Run_IsClosed, RunJob_Skip,
           RunJob_Finish, RejectPendingJob, Run_Return, workerVars
      <4> QED BY <4>1, <4>2, <4>3
    <3>2. CASE ~Run
      BY <1>1, <3>2 DEF Next, EndCtx, Do, Do_CheckCtx, Do_RLock, Do_CheckClosed, Do_Submit,
         Do_Await, Shutdown, Shutdown_Once, Shutdown_Lock, Shutdown_Close, Shutdown_Await,
         workerVars, vars
    <3> QED BY <3>1, <3>2
  <2>4. exec'[d] = exec[d]
    BY <1>1, <2>1, <2>3 DEF IInv, TypeOK, Unsettled
  <2> QED BY <2>2, <2>4
<1>2. IInv /\ OrderInv /\ [OrderNext]_<<vars, before>> =>
        [\A c \in Callers : Started(c) =>
            \A d \in before[c] : exec'[d] = exec[d] /\ exec[d] # "running"]_<<vars, before>>
  BY <1>1 DEF OrderNext
<1> QED BY <1>2, OrderInvariance, PTL DEF OrderSpec, NoEffectAfterSuccessor
=============================================================================
