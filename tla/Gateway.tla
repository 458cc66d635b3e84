------------------------------ MODULE Gateway -------------------------------
(***************************************************************************)
(* The process (main.go): the work queue, the PLC client its worker runs   *)
(* the operations on, the health handler that asks the client directly,    *)
(* and the main goroutine, which connects, serves, and on a signal drains  *)
(* the HTTP server, shuts the queue down and closes the connection.        *)
(*                                                                         *)
(* The state of the components is that of WorkQueue and PLCClient.  The    *)
(* job of a caller c executes the client call c; the main goroutine is the *)
(* one stopper, and the client's close call.  Background holds the call of *)
(* Do that InitialConnect makes on the main goroutine.                     *)
(*                                                                         *)
(* net/http is external: Shutdown stops new requests and returns when no   *)
(* handler is active, or when its context ends.                            *)
(***************************************************************************)
EXTENDS WorkQueue, PLCClient

CONSTANTS Probes    \* the /health requests

ASSUME GatewayAssumption ==
    /\ \E i \in Callers : Background = {i}
    /\ \E m \in Stoppers : Stoppers = {m}
    /\ Calls = Callers \cup Probes \cup Stoppers
    /\ Callers \cap Probes = {} /\ Stoppers \cap (Callers \cup Probes) = {}
    /\ \A c \in Background : Kind[c] = "initialConnect"
    /\ \A c \in Callers \ Background : Kind[c] \in {"do", "doReset"}
    /\ \A c \in Probes : Kind[c] = "isConnectedSafe"
    /\ \A c \in Stoppers : Kind[c] = "close"

init == CHOOSE c \in Callers : c \in Background
main == CHOOSE s \in Stoppers : TRUE
Requests == Callers \ Background

VARIABLES
    mpc,      \* where the main goroutine is
    arrived,  \* the requests whose handler has been started
    drained   \* srv.Shutdown has returned nil

queueVars == <<ctx, readers, closed, jobs, result, callerVars, stopVars, workerVars>>
httpVars  == <<arrived, drained>>
gatewayVars == <<queueVars, clientVars, mpc, httpVars>>

MainStates == {"connecting", "serving", "draining", "stopping", "closing",
               "closed", "exited", "failed"}

GatewayInit ==
    /\ Init
    /\ ClientInit
    /\ mpc = "connecting"
    /\ arrived = {}
    /\ drained = FALSE

Running == mpc \notin {"exited", "failed"}

-----------------------------------------------------------------------------
(* The worker. *)

OutcomeOf(c) == IF ret[c] = "nil" THEN "ok" ELSE "failed"

(* The execute function of the job is the client call of that name. *)
ExecuteJob ==
    /\ RunJob_Execute
    /\ Call(job)

ExecutingJob ==
    /\ wpc = "execute"
    /\ Method(job)
    /\ UNCHANGED queueVars

(* Mutant: execute returns without waiting for the client. *)
ExecutedJob_NotWaiting ==
    /\ wpc = "execute"
    /\ RunJob_Executed("ok")
    /\ UNCHANGED clientVars

ExecutedJob ==
    /\ wpc = "execute"
    /\ at[job] = "returned"
    /\ RunJob_Executed(OutcomeOf(job))
    /\ UNCHANGED clientVars

Worker ==
    /\ Running
    /\ \/ ExecuteJob \/ ExecutingJob \/ ExecutedJob
       \/ /\ \/ Run_Done \/ Run_Take \/ Run_IsClosed \/ RunJob_Skip
             \/ RunJob_Finish \/ RejectPendingJob \/ Run_Return
          /\ UNCHANGED clientVars
    /\ UNCHANGED <<mpc, httpVars>>

-----------------------------------------------------------------------------
(* The HTTP handlers. *)

Accepting == mpc # "connecting" /\ ~drained

(* A request passes the middleware and the checks of its handler. *)
Arrive(c) ==
    /\ Running
    /\ Accepting
    /\ c \notin arrived
    /\ arrived' = arrived \cup {c}
    /\ UNCHANGED <<queueVars, clientVars, mpc, drained>>

ClientGone(c) ==
    /\ Running
    /\ c \in arrived
    /\ EndCtx(c)
    /\ UNCHANGED <<clientVars, mpc, httpVars>>

Handle(c) ==
    /\ Running
    /\ c \in arrived
    /\ Do(c)
    /\ UNCHANGED <<clientVars, mpc, httpVars>>

ProbeArrive(p) ==
    /\ Running
    /\ Accepting
    /\ Call(p)
    /\ UNCHANGED <<queueVars, mpc, httpVars>>

ProbeHandle(p) ==
    /\ Running
    /\ Method(p)
    /\ UNCHANGED <<queueVars, mpc, httpVars>>

ActiveHandlers == {c \in arrived : pc[c] # "returned"}
                  \cup {p \in Probes : at[p] = "lock"}

-----------------------------------------------------------------------------
(* The main goroutine. *)

Main_InitialConnect ==
    /\ mpc = "connecting"
    /\ Do(init)
    /\ UNCHANGED <<clientVars, mpc, httpVars>>

(* Mutant: go plcQueue.InitialConnect(). *)
Main_Serve_NotWaiting ==
    /\ mpc = "connecting"
    /\ mpc' = "serving"
    /\ UNCHANGED <<queueVars, clientVars, httpVars>>

Main_Serve ==
    /\ mpc = "connecting"
    /\ pc[init] = "returned"
    /\ mpc' = "serving"
    /\ UNCHANGED <<queueVars, clientVars, httpVars>>

(* ListenAndServe fails: os.Exit. *)
ServeFails ==
    /\ mpc = "serving"
    /\ mpc' = "failed"
    /\ UNCHANGED <<queueVars, clientVars, httpVars>>

(* Mutant: the queue is shut down without draining the server first. *)
Signal_NoDrain ==
    /\ mpc = "serving"
    /\ mpc' = "stopping"
    /\ UNCHANGED <<queueVars, clientVars, httpVars>>

Signal ==
    /\ mpc = "serving"
    /\ mpc' = "draining"
    /\ UNCHANGED <<queueVars, clientVars, httpVars>>

(* srv.Shutdown(ctx) returns. *)
Main_Drained ==
    /\ mpc = "draining"
    /\ \/ ActiveHandlers = {} /\ drained' = TRUE
       \/ Ended(main) /\ UNCHANGED drained
    /\ mpc' = "stopping"
    /\ UNCHANGED <<queueVars, clientVars, arrived>>

(* plcQueue.Shutdown(ctx). *)
Main_StopQueue ==
    /\ mpc = "stopping"
    /\ Shutdown(main)
    /\ UNCHANGED <<clientVars, mpc, httpVars>>

(* Mutant: the queue is closed but its worker not waited for. *)
Main_Close_NotWaiting ==
    /\ mpc = "stopping"
    /\ spc[main] \in {"await", "returned"}
    /\ Call(main)
    /\ mpc' = "closing"
    /\ UNCHANGED <<queueVars, httpVars>>

(* plcQueue.Close() begins. *)
Main_Close ==
    /\ mpc = "stopping"
    /\ spc[main] = "returned"
    /\ Call(main)
    /\ mpc' = "closing"
    /\ UNCHANGED <<queueVars, httpVars>>

(* It takes mu, closes and returns. *)
Main_Closed ==
    /\ mpc = "closing"
    /\ Method(main)
    /\ mpc' = "closed"
    /\ UNCHANGED <<queueVars, httpVars>>

(* main returns, and every goroutine with it. *)
Main_Exit ==
    /\ mpc = "closed"
    /\ mpc' = "exited"
    /\ UNCHANGED <<queueVars, clientVars, httpVars>>

(* The five seconds of the shutdown context. *)
ShutdownTimeout ==
    /\ mpc \in {"draining", "stopping", "closing", "closed"}
    /\ EndCtx(main)
    /\ UNCHANGED <<clientVars, mpc, httpVars>>

Main == \/ Main_InitialConnect \/ Main_Serve \/ Main_Drained
        \/ Main_StopQueue \/ Main_Close \/ Main_Closed \/ Main_Exit

GatewayNext ==
    \/ Worker \/ Main \/ ServeFails \/ Signal \/ ShutdownTimeout
    \/ \E c \in Requests : Arrive(c) \/ ClientGone(c) \/ Handle(c)
    \/ \E p \in Probes : ProbeArrive(p) \/ ProbeHandle(p)
    \/ ~Running /\ UNCHANGED gatewayVars

(* Every goroutine that can move does, dials and operations end by their   *)
(* timeout, and the shutdown context by its timer.  No request needs to    *)
(* arrive, no client to leave and no signal to come.                       *)
GatewayFairness ==
    /\ WF_gatewayVars(Worker)
    /\ WF_gatewayVars(Main)
    /\ WF_gatewayVars(ShutdownTimeout)
    /\ \A c \in Requests : WF_gatewayVars(Handle(c))
    /\ \A p \in Probes : WF_gatewayVars(ProbeHandle(p))

GatewaySpec == GatewayInit /\ [][GatewayNext]_gatewayVars /\ GatewayFairness

-----------------------------------------------------------------------------
(* Properties. *)

(* All that is on the wire is the operation of the worker's current job:   *)
(* the queue and the mutex together serialize the PLC (README.md:350-351). *)
WireSerialized == \A c \in Calls : InWire(c) => wpc = "execute" /\ job = c

(* When the five seconds were enough, nothing touches the PLC behind the   *)
(* close: from then to the end of the process no socket is open and no     *)
(* dial or operation under way, because Shutdown has waited for the worker *)
(* (queue.go:99-102; main.go:115-120).  A worker it did not wait for may   *)
(* dial again until the process ends.                                      *)
CleanExitLeavesNoSocket ==
    mpc \in {"closed", "exited"} /\ ~Ended(main) =>
        open = {} /\ \A c \in Calls : ~InWire(c)

(* A request is told that the queue is closed only when the five seconds   *)
(* were over before the handlers were: after an orderly drain nobody is    *)
(* left to be refused (main.go:110-117).                                   *)
ClosedOnlyAfterTimeout ==
    (\E c \in Requests : answer[c] = "closed") => ~drained /\ Ended(main)

(* The process drives the client as the client expects to be driven: the   *)
(* initial connect is over before anything else touches the connection, so *)
(* that it cannot overwrite one (main.go:53-71; plc.go:70-81).             *)
DrivesClient == ClientInit /\ [][ClientNext]_clientVars

(* Every request that reaches its handler is answered, and every probe,    *)
(* unless the process ends first.                                          *)
EveryRequestAnswered ==
    /\ \A c \in Requests : c \in arrived ~> pc[c] = "returned" \/ ~Running
    /\ \A p \in Probes : at[p] = "lock" ~> at[p] = "returned" \/ ~Running

(* A signal ends the process, however many requests are under way.         *)
SignalEndsProcess == mpc = "draining" ~> mpc = "exited"

=============================================================================
