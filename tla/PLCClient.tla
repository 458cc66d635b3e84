----------------------------- MODULE PLCClient ------------------------------
(***************************************************************************)
(* The PLC client (plc.go): one connection behind one mutex, dialled when  *)
(* it is needed and dropped when it fails.  Every call of a method of the  *)
(* client is one goroutine; Kind says which method it calls.  A socket is  *)
(* named by the call that dialled it, so that no two sockets are the same. *)
(*                                                                         *)
(* Dialling and the operation on the wire take time with mu held, so each  *)
(* is a step of its own; what else a method does under mu is part of the   *)
(* step before or after it, the updates of the plcMetrics counters with it *)
(* (Metrics takes those apart, as a reader that holds no lock sees them).  *)
(***************************************************************************)
EXTENDS Naturals, FiniteSets

CONSTANTS Calls,    \* the calls of the client's methods
          Kind      \* Kind[c]: the method c calls

Kinds == {"initialConnect", "do", "doReset", "isConnectedSafe", "close"}
None  == "none"

ASSUME ClientAssumption ==
    /\ Kind \in [Calls -> Kinds]
    /\ None \notin Calls
    /\ \A c, d \in Calls :
          Kind[c] = "initialConnect" /\ Kind[d] = "initialConnect" => c = d

VARIABLES
    mu,           \* the call holding the mutex, or None
    conn,         \* conn: the socket in use, or None for nil
    open,         \* the sockets dialled and not yet closed
    at,           \* at[c]: where call c is
    used,         \* used[c]: the socket c's operation ran on
    ret,          \* ret[c]: what c returned
    \* counters of plcMetrics
    requests, reconnects, plcErrors,
    samples       \* number of latencies recorded (ringN)

client   == <<mu, conn, open>>
counters == <<requests, reconnects, plcErrors, samples>>
clientVars == <<client, at, used, ret, counters>>

Rets == {"nil", "connErr", "plcErr", "connected", "disconnected"}

ClientTypeOK ==
    /\ mu \in Calls \cup {None}
    /\ conn \in Calls \cup {None}
    /\ open \subseteq Calls
    /\ at \in [Calls -> {"idle", "lock", "dial", "op", "returned"}]
    /\ used \in [Calls -> Calls \cup {None}]
    /\ ret \in [Calls -> Rets \cup {None}]
    /\ requests \in Nat /\ reconnects \in Nat /\ plcErrors \in Nat /\ samples \in Nat

ClientInit ==
    /\ mu = None
    /\ conn = None
    /\ open = {}
    /\ at = [c \in Calls |-> "idle"]
    /\ used = [c \in Calls |-> None]
    /\ ret = [c \in Calls |-> None]
    /\ requests = 0 /\ reconnects = 0 /\ plcErrors = 0 /\ samples = 0

Call(c) ==
    /\ at[c] = "idle"
    /\ at' = [at EXCEPT ![c] = "lock"]
    /\ UNCHANGED <<client, used, ret, counters>>

ReturnFrom(c, r) ==
    /\ at' = [at EXCEPT ![c] = "returned"]
    /\ ret' = [ret EXCEPT ![c] = r]

(* fn(p.conn) begins on socket s. *)
BeginOp(c, s) ==
    /\ at' = [at EXCEPT ![c] = "op"]
    /\ used' = [used EXCEPT ![c] = s]
    /\ requests' = requests + 1

Lock(c) == at[c] = "lock" /\ mu = None

(* isConnectedSafe: nothing happens between its Lock and its Unlock. *)
IsConnectedSafe(c) ==
    /\ Kind[c] = "isConnectedSafe"
    /\ Lock(c)
    /\ ReturnFrom(c, IF conn # None THEN "connected" ELSE "disconnected")
    /\ UNCHANGED <<client, used, counters>>

(* Mutant: close does not take mu. *)
Close_Unlocked(c) ==
    /\ Kind[c] = "close"
    /\ at[c] = "lock"
    /\ open' = open \ {conn}
    /\ conn' = None
    /\ ReturnFrom(c, "nil")
    /\ UNCHANGED <<mu, used, counters>>

Close(c) ==
    /\ Kind[c] = "close"
    /\ Lock(c)
    /\ open' = open \ {conn}
    /\ conn' = None
    /\ ReturnFrom(c, "nil")
    /\ UNCHANGED <<mu, used, counters>>

(* do, doReset: use the connection at hand, or dial one first. *)
UseConn(c) ==
    /\ Kind[c] \in {"do", "doReset"}
    /\ Lock(c)
    /\ conn # None
    /\ mu' = c
    /\ BeginOp(c, conn)
    /\ UNCHANGED <<conn, open, ret, reconnects, plcErrors, samples>>

Reconnect(c) ==
    /\ Kind[c] \in {"do", "doReset"}
    /\ Lock(c)
    /\ conn = None
    /\ mu' = c
    /\ reconnects' = reconnects + 1
    /\ at' = [at EXCEPT ![c] = "dial"]
    /\ UNCHANGED <<conn, open, used, ret, requests, plcErrors, samples>>

(* initialConnect dials whatever conn is, and does not count as reconnect. *)
InitialConnect(c) ==
    /\ Kind[c] = "initialConnect"
    /\ Lock(c)
    /\ mu' = c
    /\ at' = [at EXCEPT ![c] = "dial"]
    /\ UNCHANGED <<conn, open, used, ret, counters>>

(* connect, and what its caller does with the outcome. *)
Dialled(c) ==
    /\ at[c] = "dial"
    /\ conn' = c
    /\ open' = open \cup {c}
    /\ IF Kind[c] = "initialConnect"
       THEN mu' = None /\ ReturnFrom(c, "nil") /\ UNCHANGED <<used, requests>>
       ELSE BeginOp(c, c) /\ UNCHANGED <<mu, ret>>
    /\ UNCHANGED <<reconnects, plcErrors, samples>>

(* Mutant: p.conn is assigned before the error is looked at and holds an   *)
(* interface whose pointer is nil.                                         *)
DialFailed_TypedNil(c) ==
    /\ at[c] = "dial"
    /\ mu' = None
    /\ conn' = "typed nil"
    /\ IF Kind[c] = "initialConnect"
       THEN ReturnFrom(c, "nil") /\ UNCHANGED plcErrors
       ELSE ReturnFrom(c, "connErr") /\ plcErrors' = plcErrors + 1
    /\ UNCHANGED <<open, used, requests, reconnects, samples>>

(* Mutant: a failed dial is not counted as an error. *)
DialFailed_NotCounted(c) ==
    /\ at[c] = "dial"
    /\ mu' = None
    /\ ReturnFrom(c, IF Kind[c] = "initialConnect" THEN "nil" ELSE "connErr")
    /\ UNCHANGED <<conn, open, used, counters>>

(* Mutant: the early return leaves mu locked. *)
DialFailed_StillLocked(c) ==
    /\ at[c] = "dial"
    /\ IF Kind[c] = "initialConnect"
       THEN ReturnFrom(c, "nil") /\ UNCHANGED plcErrors
       ELSE ReturnFrom(c, "connErr") /\ plcErrors' = plcErrors + 1
    /\ UNCHANGED <<mu, conn, open, used, requests, reconnects, samples>>

DialFailed(c) ==
    /\ at[c] = "dial"
    /\ mu' = None
    /\ IF Kind[c] = "initialConnect"
       THEN ReturnFrom(c, "nil") /\ UNCHANGED plcErrors
       ELSE ReturnFrom(c, "connErr") /\ plcErrors' = plcErrors + 1
    /\ UNCHANGED <<conn, open, used, requests, reconnects, samples>>

(* Mutant: the dead connection is forgotten but not closed. *)
OpDone_NotClosed(c, r) ==
    /\ Kind[c] = "do"
    /\ at[c] = "op"
    /\ samples' = samples + 1
    /\ plcErrors' = IF r = "nil" THEN plcErrors ELSE plcErrors + 1
    /\ conn' = IF r = "connErr" THEN None ELSE conn
    /\ mu' = None
    /\ ReturnFrom(c, r)
    /\ UNCHANGED <<open, used, requests, reconnects>>

(* Mutant: the dead connection is kept. *)
OpDone_KeepsConn(c, r) ==
    /\ Kind[c] = "do"
    /\ at[c] = "op"
    /\ samples' = samples + 1
    /\ plcErrors' = IF r = "nil" THEN plcErrors ELSE plcErrors + 1
    /\ mu' = None
    /\ ReturnFrom(c, r)
    /\ UNCHANGED <<conn, open, used, requests, reconnects>>

(* The operation of do is over: fine, refused by the PLC, or the           *)
(* connection is gone.                                                     *)
OpDone(c, r) ==
    /\ Kind[c] = "do"
    /\ at[c] = "op"
    /\ samples' = samples + 1
    /\ plcErrors' = IF r = "nil" THEN plcErrors ELSE plcErrors + 1
    /\ IF r = "connErr"
       THEN open' = open \ {conn} /\ conn' = None
       ELSE UNCHANGED <<open, conn>>
    /\ mu' = None
    /\ ReturnFrom(c, r)
    /\ UNCHANGED <<used, requests, reconnects>>

(* RemoteReset is over; the PLC closes the connection in every case. *)
ResetDone(c, r) ==
    /\ Kind[c] = "doReset"
    /\ at[c] = "op"
    /\ samples' = samples + 1
    /\ plcErrors' = IF r = "nil" THEN plcErrors ELSE plcErrors + 1
    /\ open' = open \ {conn}
    /\ conn' = None
    /\ mu' = None
    /\ ReturnFrom(c, r)
    /\ UNCHANGED <<used, requests, reconnects>>

Method(c) ==
    \/ IsConnectedSafe(c) \/ Close(c)
    \/ InitialConnect(c) \/ UseConn(c) \/ Reconnect(c)
    \/ Dialled(c) \/ DialFailed(c)
    \/ \E r \in {"nil", "connErr", "plcErr"} : OpDone(c, r) \/ ResetDone(c, r)

-----------------------------------------------------------------------------
(* The client under any mix of concurrent calls, the initial connect being *)
(* over before the first of the others begins (main.go: InitialConnect     *)
(* returns before the routes exist).                                       *)

Connected == \A c \in Calls : Kind[c] = "initialConnect" => at[c] = "returned"
Begin(c)  == (Kind[c] = "initialConnect" \/ Connected) /\ Call(c)

ClientNext == \E c \in Calls : Begin(c) \/ Method(c)

(* Every method that has been called proceeds: a dial and an operation end *)
(* because the connection has a timeout (plc.go:75).                       *)
ClientSpec == /\ ClientInit /\ [][ClientNext]_clientVars
              /\ \A c \in Calls : WF_clientVars(Method(c))

-----------------------------------------------------------------------------
(* Properties. *)

InOp(c)   == at[c] = "op"
InWire(c) == at[c] \in {"dial", "op"}
Failed(c) == ret[c] \in {"connErr", "plcErr"}

(* Exactly the socket in conn is open: none is leaked when the connection  *)
(* fails, is reset or is closed while others wait, and the client never    *)
(* holds one it has closed (plc.go:151-153, 163-166, 191-192).             *)
OneSocket == open = IF conn = None THEN {} ELSE {conn}

(* Whoever is on the wire is alone there, holds mu, and works on the open  *)
(* socket in conn: no call closes or replaces it under the operation.      *)
WireExclusive ==
    /\ \A c \in Calls : InWire(c) => mu = c
    /\ \A c \in Calls : InOp(c) => used[c] = conn /\ conn \in open

(* The sockets that failed under some operation, or carried a reset. *)
DeadSockets == {used[d] : d \in {e \in Calls :
                    /\ used[e] # None /\ at[e] = "returned"
                    /\ \/ ret[e] = "connErr"
                       \/ Kind[e] = "doReset"}}

(* After a connection error or a reset the next operation dials anew: no   *)
(* operation begins on a socket that another has found dead (README.md:356)*)
NoOpOnDeadSocket ==
    [][\A c \in Calls : InOp(c)' /\ ~InOp(c) => used'[c] \notin DeadSockets]_clientVars

(* The counters agree with what the calls did, whoever failed and wherever:*)
(* an operation is counted when it goes on the wire, its latency and its   *)
(* error when it leaves it; a failed dial is an error and a reconnect, but *)
(* not a request (plc.go:126-158, 171-204).                                *)
CountersExact ==
    /\ requests = Cardinality({c \in Calls : used[c] # None})
    /\ samples = requests - Cardinality({c \in Calls : InOp(c)})
    /\ plcErrors = Cardinality({c \in Calls : Failed(c)})
    /\ reconnects = Cardinality({c \in Calls :
                        /\ Kind[c] \in {"do", "doReset"}
                        /\ \/ at[c] = "dial"
                           \/ used[c] = c
                           \/ used[c] = None /\ ret[c] = "connErr"})

(* Every call returns, the probe and the close that wait for mu included.  *)
EveryMethodReturns == \A c \in Calls : at[c] = "lock" ~> at[c] = "returned"
=============================================================================
