------------------------------ MODULE Requests ------------------------------
(***************************************************************************)
(* An HTTP request from the first middleware to its line in the log:       *)
(* auth.go, the mux of main.go, the gates of every handler, the call of    *)
(* the work queue, the operation on the PLC, and what is made of its error *)
(* three times: by the metrics (queue.go), by the operation's log entry    *)
(* (logging.go) and by the answer (handler.go).                            *)
(*                                                                         *)
(* The work queue is what SerialExecutor promises of it (WorkQueue is      *)
(* checked to implement that), and the connection is dialled or at hand as *)
(* in PLCClient.  An error is the set of what errors.Is and errors.As find *)
(* in its chain; nil is the empty set.  The values in a request, and how   *)
(* they are converted, are in ReadWrite and RandomAccess; here an input is *)
(* fine, bad, or a body that is too large.  A handler does not panic, so   *)
(* recoverPanic is not there.                                              *)
(***************************************************************************)
EXTENDS Naturals, Sequences, FiniteSets

CONSTANTS Requests,   \* the HTTP requests
          Inputs,     \* Inputs[r]: what may be sent as request r
          Configs     \* the configurations the server may be started with

VARIABLES
    config,    \* ServerConfig, as far as the handlers look at it
    req,       \* req[r]: what was sent
    stage,     \* stage[r]: where the handler of r is
    effect, answer,   \* of r's call of the work queue: see SerialExecutor
    opErr,     \* opErr[r]: the error of r's operation, {} for nil
    latency,   \* latency[r]: the holder withPLCLatency put in the context was written
    timeouts,  \* plcMetrics.timeouts
    opResult,  \* opResult[r]: the result in the plc_op log entry
    status,    \* status[r], code[r]: what the answer says
    code,
    logged     \* logged[r]: the plc_latency_ms of the request's log entry is there

executorVars == <<effect, answer>>
handlerVars  == <<stage, timeouts, opResult, status, code, logged>>
vars == <<config, req, executorVars, opErr, latency, handlerVars>>

(* No request has a deadline: its context ends only when the client is gone. *)
Executor == INSTANCE SerialExecutor WITH Callers <- Requests, CtxErrs <- {"canceled"}

-----------------------------------------------------------------------------
(* Routes. *)

LocalPaths  == {"/openapi.yaml", "/version", "/info", "/metrics", "/health"}
ReadPaths   == {"/read", "/random-read"}
WritePaths  == {"/write", "/random-write"}
RemotePaths == {"/remote/run", "/remote/stop", "/remote/pause",
                "/remote/latch-clear", "/remote/reset"}
PLCPaths    == ReadPaths \cup WritePaths \cup RemotePaths
Routes      == LocalPaths \cup PLCPaths
WithBody    == WritePaths \cup {"/random-read"}

RequestSpace ==
    [path   : Routes \cup {"/unknown"},
     method : {"GET", "HEAD", "POST", "PUT"},
     token  : BOOLEAN,                          \* carries the right token
     input  : {"fine", "bad", "large"}]

ConfigSpace == [readonly : BOOLEAN, remote : BOOLEAN, token : BOOLEAN]

ASSUME RequestsAssumption ==
    /\ IsFiniteSet(Requests)
    /\ Inputs \in [Requests -> SUBSET RequestSpace]
    /\ Configs \subseteq ConfigSpace

MethodOf(p) == IF p \in LocalPaths \cup {"/read"} THEN "GET" ELSE "POST"

(* requireMethod *)
MethodFits(q) == \/ q.method = MethodOf(q.path)
                 \/ q.method = "HEAD" /\ MethodOf(q.path) = "GET"

(* requireToken: a path is exempt whatever the token. *)
AuthExemptPaths == {"/health"}
Unauthorized(c, q) == c.token /\ ~q.token /\ q.path \notin AuthExemptPaths

(* Mutant: the handler of a random write lacks requireWritable. *)
NotWritable_RandomWriteOpen(c, q) ==
    c.readonly /\ q.path \in {"/write"} \cup RemotePaths

(* requireWritable, requireRemoteEnabled: handlers that call them. *)
NotWritable(c, q)   == c.readonly /\ q.path \in WritePaths \cup RemotePaths
RemoteDisabled(c, q) == ~c.remote /\ q.path \in RemotePaths

(* What a request has to pass, in the order in which it does. *)
Gates(c, q) == <<
    [shut |-> Unauthorized(c, q),     status |-> 401, code |-> "unauthorized"],
    [shut |-> q.path \notin Routes,   status |-> 404, code |-> "none"],
    [shut |-> ~MethodFits(q),         status |-> 405, code |-> "bad_request"],
    [shut |-> NotWritable(c, q),      status |-> 403, code |-> "forbidden"],
    [shut |-> RemoteDisabled(c, q),   status |-> 403, code |-> "forbidden"],
    [shut |-> q.input = "bad",        status |-> 400, code |-> "bad_request"],
    [shut |-> q.input = "large" /\ q.path \in WithBody,
                                      status |-> 413, code |-> "bad_request"],
    [shut |-> q.path \in LocalPaths,  status |-> 200, code |-> "none"] >>

Shut(c, q) == {i \in DOMAIN Gates(c, q) : Gates(c, q)[i].shut}

(* The answer of the first gate that is shut. *)
AnswerOf(c, q) ==
    Gates(c, q)[CHOOSE i \in Shut(c, q) : \A j \in Shut(c, q) : i <= j]

-----------------------------------------------------------------------------
(* Errors: what their chain is found to hold. *)

(* do and doReset wrap the errors of a connection in connErrWrap.  Go's    *)
(* net package lets a dial that timed out, and no read or write, satisfy   *)
(* errors.Is for context.DeadlineExceeded; gomcprotocol may hide it.       *)
ConnErrs == {{"conn"}, {"conn", "timeout"}}
DialErrs == ConnErrs \cup {{"conn", "timeout", "deadline"}}
OpErrs   == ConnErrs \cup {{"plc"}, {"other"}}

(* What Do returns to r when the queue answers a. *)
ErrOf(r, a) == IF a \in {"ok", "failed"} THEN opErr[r] ELSE {a}

(* Mutant: the connection is looked at before the deadline. *)
PLCErrCases_ConnFirst == <<
    [finds |-> "busy",     status |-> 503, code |-> "busy"],
    [finds |-> "closed",   status |-> 503, code |-> "queue_closed"],
    [finds |-> "canceled", status |-> 499, code |-> "request_canceled"],
    [finds |-> "conn",     status |-> 503, code |-> "connection_error"],
    [finds |-> "deadline", status |-> 504, code |-> "request_timeout"] >>

(* The cases of writePLCErr, in their order. *)
PLCErrCases == <<
    [finds |-> "busy",     status |-> 503, code |-> "busy"],
    [finds |-> "closed",   status |-> 503, code |-> "queue_closed"],
    [finds |-> "canceled", status |-> 499, code |-> "request_canceled"],
    [finds |-> "deadline", status |-> 504, code |-> "request_timeout"],
    [finds |-> "conn",     status |-> 503, code |-> "connection_error"] >>

(* Mutant: a queue that was closed is an error like any other. *)
PLCOpCases_NoClosed == <<
    [finds |-> "busy",     result |-> "busy"],
    [finds |-> "canceled", result |-> "canceled"],
    [finds |-> "deadline", result |-> "timeout"],
    [finds |-> "conn",     result |-> "connection_error"],
    [finds |-> "plc",      result |-> "plc_error"] >>

(* The cases of logPLCOp, in their order. *)
PLCOpCases == <<
    [finds |-> "busy",     result |-> "busy"],
    [finds |-> "closed",   result |-> "queue_closed"],
    [finds |-> "canceled", result |-> "canceled"],
    [finds |-> "deadline", result |-> "timeout"],
    [finds |-> "conn",     result |-> "connection_error"],
    [finds |-> "plc",      result |-> "plc_error"] >>

(* A switch: the first case that finds what it looks for in e. *)
Switch(cases, e, default) ==
    LET hits == {i \in DOMAIN cases : cases[i].finds \in e}
    IN  IF hits = {} THEN default
        ELSE cases[CHOOSE i \in hits : \A j \in hits : i <= j]

(* writePLCErr, or writeJSON when there is no error. *)
PLCAnswer(e) ==
    IF e = {} THEN [status |-> 200, code |-> "none"]
    ELSE Switch(PLCErrCases, e, [status |-> 502, code |-> "plc_error"])

(* logPLCOp *)
ResultOf(e) ==
    IF e = {} THEN "ok"
    ELSE Switch(PLCOpCases, e, [result |-> "error"]).result

-----------------------------------------------------------------------------
Init ==
    /\ config \in Configs
    /\ req \in {q \in [Requests -> UNION {Inputs[r] : r \in Requests}] :
                   \A r \in Requests : q[r] \in Inputs[r]}
    /\ stage = [r \in Requests |-> "new"]
    /\ Executor!Init
    /\ opErr = [r \in Requests |-> {}]
    /\ latency = [r \in Requests |-> FALSE]
    /\ timeouts = 0
    /\ opResult = [r \in Requests |-> "none"]
    /\ status = [r \in Requests |-> 0]
    /\ code = [r \in Requests |-> "none"]
    /\ logged = [r \in Requests |-> FALSE]

Respond(r, a) ==
    /\ stage' = [stage EXCEPT ![r] = "answered"]
    /\ status' = [status EXCEPT ![r] = a.status]
    /\ code' = [code EXCEPT ![r] = a.code]

(* A request that is answered without the PLC. *)
AnswerHere(r) ==
    /\ stage[r] = "new"
    /\ Shut(config, req[r]) # {}
    /\ Respond(r, AnswerOf(config, req[r]))
    /\ UNCHANGED <<config, req, executorVars, opErr, latency, timeouts, opResult, logged>>

(* A request that gets through to the queue. *)
Exec(r) ==
    /\ stage[r] = "new"
    /\ Shut(config, req[r]) = {}
    /\ stage' = [stage EXCEPT ![r] = "exec"]
    /\ UNCHANGED <<config, req, executorVars, opErr, latency, timeouts, opResult, status,
                   code, logged>>

(* Work.Do takes the call or turns it away, and the worker discards it or  *)
(* starts it.                                                              *)
Queue(r) ==
    /\ stage[r] = "exec"
    /\ Executor!Accept(r) \/ Executor!Refuse(r)
    /\ UNCHANGED <<config, req, opErr, latency, handlerVars>>

Worker(r) ==
    /\ Executor!Discard(r) \/ Executor!Start(r)
    /\ UNCHANGED <<config, req, opErr, latency, handlerVars>>

Finished(r, e) ==
    /\ Executor!Finish(r)
    /\ effect'[r] = (IF e = {} THEN "ok" ELSE "failed")
    /\ opErr' = [opErr EXCEPT ![r] = e]
    /\ UNCHANGED <<config, req, handlerVars>>

DialFails(r) ==
    /\ \E e \in DialErrs : Finished(r, e)
    /\ UNCHANGED latency

(* Mutant: the wire time of an operation that fails is not recorded. *)
Operate_OnlySuccess(r) ==
    \E e \in OpErrs \cup {{}} :
       /\ Finished(r, e)
       /\ latency' = [latency EXCEPT ![r] = e = {}]

(* The operation runs on a connection to its end. *)
Operate(r) ==
    \E e \in OpErrs \cup {{}} :
       /\ Finished(r, e)
       /\ latency' = [latency EXCEPT ![r] = TRUE]

(* Do has returned e: exec, the method of PLCQueue and the handler end. *)
Deliver(r, e) ==
    /\ timeouts' = timeouts + (IF "deadline" \in e THEN 1 ELSE 0)
    /\ opResult' = [opResult EXCEPT ![r] = ResultOf(e)]
    /\ Respond(r, PLCAnswer(e))

(* Mutant: the handler answers as soon as the call is queued. *)
Answer_Unfinished(r) ==
    /\ stage[r] = "exec"
    /\ effect[r] # "none"
    /\ answer' = [answer EXCEPT ![r] = "ok"]
    /\ Deliver(r, ErrOf(r, "ok"))
    /\ UNCHANGED <<config, req, effect, opErr, latency, logged>>

(* The call of Do returns, if it has not been turned away before. *)
Answer(r) ==
    /\ stage[r] = "exec"
    /\ \/ Executor!Reply(r)
       \/ answer[r] # "none" /\ UNCHANGED executorVars
    /\ Deliver(r, ErrOf(r, answer'[r]))
    /\ UNCHANGED <<config, req, opErr, latency, logged>>

(* logRequests, after the handler: the worker may still be at it. *)
LogRequest(r) ==
    /\ stage[r] = "answered"
    /\ stage' = [stage EXCEPT ![r] = "logged"]
    /\ logged' = [logged EXCEPT ![r] = latency[r]]
    /\ UNCHANGED <<config, req, executorVars, opErr, latency, timeouts, opResult, status, code>>

Next == \E r \in Requests :
    \/ AnswerHere(r) \/ Exec(r) \/ Queue(r) \/ Worker(r)
    \/ DialFails(r) \/ Operate(r) \/ Answer(r) \/ LogRequest(r)

Spec == Init /\ [][Next]_vars

-----------------------------------------------------------------------------
(* Properties. *)

Answered(r) == stage[r] \in {"answered", "logged"}

(* An operation runs only when the configuration lets it: nothing is       *)
(* written and no command is sent by a server that is read-only or by a    *)
(* request that may only read; no command where remote control is off; no  *)
(* operation at all without the token (auth.go, handler.go:151-182).       *)
OnlyPermittedRuns ==
    \A r \in Requests : effect[r] # "none" =>
       /\ config.token => req[r].token
       /\ req[r].path \in WritePaths \cup RemotePaths =>
             ~config.readonly /\ req[r].method = "POST"
       /\ req[r].path \in RemotePaths => config.remote

(* The answer tells the client what it must know before it sends the       *)
(* request again: 200 says that the operation was done, busy, queue_closed *)
(* and every refusal of a gate that it was not and will not be, even if    *)
(* the worker is still running; the other errors but request_canceled that *)
(* it was begun and failed (handler.go:184-211).                           *)
AnswerTellsEffect ==
    \A r \in Requests : Answered(r) =>
       /\ status[r] = 200 /\ req[r].path \in PLCPaths => effect[r] = "ok"
       /\ code[r] \in {"busy", "queue_closed"} => effect[r] = "never"
       /\ status[r] \in {400, 401, 403, 404, 405, 413} => effect[r] = "none"
       /\ status[r] \in {502, 504} \/ code[r] = "connection_error" => effect[r] = "failed"

(* timeout_count is the number of requests answered 504: the order of the  *)
(* cases of writePLCErr agrees with the test exec makes (queue.go:175).    *)
TimeoutsAre504 == timeouts = Cardinality({r \in Requests : status[r] = 504})

(* The plc_op entry and the answer of a request tell the same story,       *)
(* though logPLCOp and writePLCErr classify the error each for itself.     *)
LogAgrees ==
    \A r \in Requests : opResult[r] # "none" =>
       CASE opResult[r] = "ok"       -> status[r] = 200
         [] opResult[r] = "canceled" -> code[r] = "request_canceled"
         [] opResult[r] = "timeout"  -> code[r] = "request_timeout"
         [] opResult[r] = "error"    -> code[r] = "plc_error"
         [] OTHER                    -> code[r] = opResult[r]

(* plc_latency_ms is logged only for a request whose own operation has     *)
(* been on the wire and is over, and always when the PLC has answered it,  *)
(* though it is the worker that records it (logging.go:27-46, 222).        *)
LatencyIsOwn ==
    \A r \in Requests :
       /\ logged[r] => effect[r] \in {"ok", "failed"}
       /\ stage[r] = "logged" /\ opResult[r] \in {"ok", "plc_error"} => logged[r]

(* All that is recorded of a request agrees with its answer: the counter   *)
(* of timeouts, the entry of its operation and the wire time in its own.   *)
(* Three pieces of code classify its error, and two goroutines write       *)
(* (queue.go:175, logging.go:27-46, 144-172, handler.go:184-211).          *)
RecordsAgree == TimeoutsAre504 /\ LogAgrees /\ LatencyIsOwn

(* openapi.yaml:144, of the answer 504: "PLC did not respond within the    *)
(* configured timeout".                                                    *)
PLCTimeoutIs504 ==
    \A r \in Requests :
       answer[r] = "failed" /\ Answered(r) /\ "timeout" \in opErr[r] => status[r] = 504
=============================================================================
