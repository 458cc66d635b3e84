--------------------------- MODULE GatewayProofs ----------------------------
(***************************************************************************)
(* The safety of the PLC client, for every set of calls and every choice   *)
(* of their methods with at most one initial connect, and then of the      *)
(* process, for every set of requests and probes: the worker drives the    *)
(* client as the queue lets it, and the main goroutine brackets both.      *)
(***************************************************************************)
EXTENDS Gateway, WorkQueueProofs, FiniteSetTheorems

-----------------------------------------------------------------------------
(* The client alone. *)

(* The mutex is held by the call on the wire, and by nobody else: every    *)
(* other stretch under the mutex is over in one step.                      *)
HolderInv ==
    /\ \A c \in Calls : InWire(c) <=> mu = c
    /\ \A c \in Calls : InOp(c) => Kind[c] \in {"do", "doReset"}
    /\ \A c \in Calls : at[c] = "dial" =>
          Kind[c] \in {"do", "doReset", "initialConnect"}

(* Whoever dials does so without a connection: do and doReset look first,  *)
(* and the initial connect comes before everything else.                   *)
DialInv ==
    /\ \A c \in Calls : at[c] = "dial" => conn = None
    /\ \A i \in Calls : Kind[i] = "initialConnect" /\ at[i] # "returned" =>
          conn = None /\ \A c \in Calls : c # i => at[c] = "idle"

(* An operation runs on the connection there is. *)
OpInv == \A c \in Calls : InOp(c) => conn # None /\ used[c] = conn

(* A socket somebody has used was dialled, and the one in use is not dead. *)
SocketInv ==
    /\ conn # None => at[conn] \in {"op", "returned"}
    /\ \A d \in Calls : used[d] # None => at[used[d]] \in {"op", "returned"}
    /\ \A d \in Calls : used[d] # None /\ at[d] = "returned"
          /\ (ret[d] = "connErr" \/ Kind[d] = "doReset") => used[d] # conn

ClientInv == /\ ClientTypeOK
        /\ HolderInv
        /\ DialInv
        /\ OpInv
        /\ OneSocket
        /\ SocketInv

(* A client begins without a connection and with nobody at its mutex. *)
LEMMA InitClientInv == ClientInit => ClientInv
<1> SUFFICES ASSUME ClientInit PROVE ClientInv
  OBVIOUS
<1> USE ClientAssumption DEF ClientInit, InWire, InOp, None
<1>1. ClientTypeOK
  BY DEF ClientTypeOK
<1>2. HolderInv /\ DialInv /\ OpInv
  BY DEF HolderInv, DialInv, OpInv
<1>3. OneSocket /\ SocketInv
  BY DEF OneSocket, SocketInv
<1> QED BY <1>1, <1>2, <1>3 DEF ClientInv

(* A goroutine that calls a method waits outside the mutex. *)
LEMMA BeginClientInv ==
  ASSUME ClientInv, NEW c \in Calls, Begin(c)
  PROVE  ClientInv'
<1> USE ClientAssumption DEF Begin, Call, Connected, client, counters, InWire, InOp
<1> USE DEF ClientInv
<1>1. ClientTypeOK'
  BY DEF ClientTypeOK
<1>2. HolderInv'
  BY DEF HolderInv, ClientTypeOK
<1>3. DialInv'
  BY DEF DialInv, ClientTypeOK
<1>4. OpInv' /\ OneSocket'
  BY DEF OpInv, OneSocket, ClientTypeOK
<1>5. SocketInv'
  BY DEF SocketInv, ClientTypeOK
<1> QED BY <1>1, <1>2, <1>3, <1>4, <1>5

(* A dial ends, with a socket nobody has used before or with none. *)
LEMMA DialledClientInv ==
  ASSUME ClientInv, NEW c \in Calls, Dialled(c)
  PROVE  ClientInv'
<1> USE ClientAssumption DEF Dialled, InWire, InOp, ReturnFrom, BeginOp
<1> USE DEF ClientInv
<1>1. at[c] = "dial" /\ mu = c /\ conn = None /\ open = {}
  BY DEF HolderInv, DialInv, OneSocket
<1>2. \A d \in Calls : d # c => at[d] \notin {"dial", "op"}
  BY <1>1 DEF HolderInv
<1>3. \A d \in Calls : used[d] # c
  BY <1>1 DEF SocketInv
<1>4. conn' = c /\ open' = {c} /\ at' = [at EXCEPT ![c] = at'[c]]
  BY <1>1 DEF ClientTypeOK
<1>5. CASE Kind[c] = "initialConnect"
  <2>1. at'[c] = "returned" /\ mu' = None /\ UNCHANGED <<used, requests>>
    BY <1>5 DEF ClientTypeOK
  <2>2. ClientTypeOK'
    BY <1>4, <1>5, <2>1 DEF ClientTypeOK, Rets
  <2>3. HolderInv' /\ DialInv' /\ OpInv' /\ OneSocket'
    BY <1>2, <1>4, <1>5, <2>1, <2>2 DEF HolderInv, DialInv, OpInv, OneSocket, ClientTypeOK
  <2>4. SocketInv'
    BY <1>1, <1>3, <1>4, <1>5, <2>1 DEF SocketInv, DialInv, ClientTypeOK
  <2> QED BY <2>2, <2>3, <2>4
<1>6. CASE Kind[c] # "initialConnect"
  <2>1. at'[c] = "op" /\ used' = [used EXCEPT ![c] = c] /\ UNCHANGED <<mu, ret>>
    BY <1>6 DEF ClientTypeOK
  <2>2. ClientTypeOK'
    BY <1>4, <1>6, <2>1 DEF ClientTypeOK
  <2>3. Kind[c] \in {"do", "doReset"}
    BY <1>1, <1>6 DEF HolderInv
  <2>4. HolderInv'
    BY <1>1, <1>2, <1>4, <2>1, <2>3 DEF HolderInv, ClientTypeOK
  <2>5. DialInv'
    BY <1>1, <1>2, <1>4, <1>6, <2>1 DEF DialInv, ClientTypeOK
  <2>6. OpInv' /\ OneSocket'
    BY <1>2, <1>4, <2>1 DEF OpInv, OneSocket, ClientTypeOK
  <2>7. SocketInv'
    BY <1>1, <1>3, <1>4, <2>1 DEF SocketInv, ClientTypeOK
  <2> QED BY <2>2, <2>4, <2>5, <2>6, <2>7
<1> QED BY <1>5, <1>6

(* Every other stretch of a method, from one point where others can tell   *)
(* to the next.                                                            *)
LEMMA MethodClientInv ==
  ASSUME ClientInv, NEW c \in Calls, Method(c)
  PROVE  ClientInv'
<1> USE ClientAssumption DEF client, counters, InWire, InOp, ReturnFrom, Lock, BeginOp
<1> USE DEF ClientInv, ClientTypeOK, HolderInv, DialInv, OpInv, OneSocket, SocketInv, Kinds, Rets
<1>1. CASE IsConnectedSafe(c)
  BY <1>1 DEF IsConnectedSafe
<1>2. CASE Close(c)
  BY <1>2 DEF Close
<1>3. CASE InitialConnect(c)
  BY <1>3 DEF InitialConnect
<1>4. CASE UseConn(c)
  BY <1>4 DEF UseConn
<1>5. CASE Reconnect(c)
  BY <1>5 DEF Reconnect
<1>6. CASE Dialled(c)
  BY <1>6, DialledClientInv
<1>7. CASE DialFailed(c)
  BY <1>7 DEF DialFailed
<1>8. ASSUME NEW r \in {"nil", "connErr", "plcErr"}, OpDone(c, r) PROVE ClientInv'
  BY <1>8 DEF OpDone
<1>9. ASSUME NEW r \in {"nil", "connErr", "plcErr"}, ResetDone(c, r) PROVE ClientInv'
  BY <1>9 DEF ResetDone
<1> QED BY <1>1, <1>2, <1>3, <1>4, <1>5, <1>6, <1>7, <1>8, <1>9 DEF Method

(* Nothing happens. *)
LEMMA StutterClientInv ==
  ASSUME ClientInv, UNCHANGED clientVars
  PROVE  ClientInv'
BY DEF clientVars, client, counters, ClientInv, ClientTypeOK, HolderInv, DialInv,
       OpInv, OneSocket, SocketInv, InWire, InOp

(* The step of any call. *)
LEMMA NextClientInv ==
  ASSUME ClientInv, [ClientNext]_clientVars
  PROVE  ClientInv'
BY BeginClientInv, MethodClientInv, StutterClientInv DEF ClientNext

(* The invariant holds for any number of calls in any order. *)
THEOREM ClientInvariance == ClientSpec => []ClientInv
<1>1. ASSUME ClientInv, [ClientNext]_clientVars PROVE ClientInv'
  BY <1>1, NextClientInv
<1> QED BY InitClientInv, <1>1, PTL DEF ClientSpec

(* Every variable of the client keeps to its type. *)
THEOREM ClientTypeCorrect == ClientSpec => []ClientTypeOK
<1>1. ClientInv => ClientTypeOK
  BY DEF ClientInv
<1> QED BY <1>1, ClientInvariance, PTL

(* No socket is leaked and none is held closed, whoever fails, resets or   *)
(* closes (plc.go:151-153, 163-166, 191-192).                              *)
THEOREM NoSocketLeaks == ClientSpec => []OneSocket
<1>1. ClientInv => OneSocket
  BY DEF ClientInv
<1> QED BY <1>1, ClientInvariance, PTL

(* The call on the wire is alone there, on the one open socket, however    *)
(* many calls of however many methods there are (plc.go:126-158).          *)
THEOREM OneOnTheWire == ClientSpec => []WireExclusive
<1>1. ClientInv => WireExclusive
  BY DEF ClientInv, HolderInv, OpInv, OneSocket, WireExclusive
<1> QED BY <1>1, ClientInvariance, PTL

(* An operation that begins takes the connection of conn, which SocketInv  *)
(* keeps apart from the dead ones, or the socket it has just dialled.      *)
LEMMA FreshSocket ==
  ASSUME ClientInv, [ClientNext]_clientVars, NEW c \in Calls, InOp(c)', ~InOp(c)
  PROVE  used'[c] \notin DeadSockets
<1> USE ClientAssumption DEF ClientInv, ClientTypeOK
<1>1. SUFFICES ASSUME NEW d \in Calls, used[d] # None, at[d] = "returned",
                      ret[d] = "connErr" \/ Kind[d] = "doReset"
               PROVE  used'[c] # used[d]
  BY DEF DeadSockets
<1>2. UseConn(c) \/ Dialled(c)
  <2>1. PICK e \in Calls : Begin(e) \/ Method(e)
    BY DEF ClientNext, clientVars, InOp
  <2>2. ~Begin(e)
    BY DEF Begin, Call, InOp
  <2>3. UseConn(e) \/ Dialled(e)
    BY <2>1, <2>2 DEF Method, IsConnectedSafe, Close, InitialConnect, Reconnect,
       DialFailed, OpDone, ResetDone, ReturnFrom, InOp
  <2>4. \A b \in Calls : b # e => at'[b] = at[b]
    BY <2>3 DEF UseConn, Dialled, BeginOp, ReturnFrom
  <2> QED BY <2>3, <2>4 DEF InOp
<1>3. CASE UseConn(c)
  <2>1. used'[c] = conn
    BY <1>3 DEF UseConn, BeginOp
  <2> QED BY <1>1, <2>1 DEF SocketInv
<1>4. CASE Dialled(c)
  <2>1. used'[c] = c
    BY <1>4 DEF Dialled, BeginOp, ReturnFrom, InOp
  <2>2. used[d] # c
    BY <1>1, <1>4 DEF Dialled, SocketInv
  <2> QED BY <2>1, <2>2
<1> QED BY <1>2, <1>3, <1>4

(* After a connection error or a reset nobody begins an operation on the   *)
(* dead socket, even one that waited for mu meanwhile (README.md:356).     *)
THEOREM DeadSocketsStayUnused == ClientSpec => NoOpOnDeadSocket
<1>1. ASSUME ClientInv, [ClientNext]_clientVars
      PROVE  [\A c \in Calls : InOp(c)' /\ ~InOp(c) => used'[c] \notin DeadSockets]_clientVars
  BY <1>1, FreshSocket
<1> QED BY <1>1, ClientInvariance, PTL DEF ClientSpec, NoOpOnDeadSocket

-----------------------------------------------------------------------------
(* The counters. *)

(* What each counter counts. *)
OnceOnWire == {c \in Calls : used[c] # None}
OnWire     == {c \in Calls : InOp(c)}
Failures   == {c \in Calls : Failed(c)}
Redialled  == {c \in Calls :
                  /\ Kind[c] \in {"do", "doReset"}
                  /\ \/ at[c] = "dial"
                     \/ used[c] = c
                     \/ used[c] = None /\ ret[c] = "connErr"}

(* A call is counted once: it has a result only at its end, and has used a *)
(* socket only once it has been on the wire.  At any time finitely many    *)
(* calls have been counted, however many there are.                        *)
CountedInv ==
    /\ \A c \in Calls : ret[c] # None <=> at[c] = "returned"
    /\ \A c \in Calls : used[c] # None => at[c] \in {"op", "returned"}
    /\ \A c \in Calls : InOp(c) => used[c] # None
    /\ IsFiniteSet(OnceOnWire) /\ IsFiniteSet(OnWire)
    /\ IsFiniteSet(Failures) /\ IsFiniteSet(Redialled)
    /\ CountersExact

(* A finite set with an element more or less. *)
LEMMA CountOne ==
  ASSUME NEW S, IsFiniteSet(S), NEW e
  PROVE  /\ Cardinality(S) \in Nat
         /\ IsFiniteSet(S \cup {e}) /\ IsFiniteSet(S \ {e})
         /\ e \notin S => Cardinality(S \cup {e}) = Cardinality(S) + 1
         /\ e \in S => Cardinality(S \ {e}) = Cardinality(S) - 1
BY FS_CardinalityType, FS_AddElement, FS_RemoveElement

(* Nothing has been counted yet. *)
LEMMA InitCounted == ClientInit => CountedInv
<1> SUFFICES ASSUME ClientInit PROVE CountedInv
  OBVIOUS
<1>1. OnceOnWire = {} /\ OnWire = {} /\ Failures = {} /\ Redialled = {}
  BY ClientAssumption DEF ClientInit, OnceOnWire, OnWire, Failures, Redialled, InOp, Failed, None
<1>2. CountersExact
  BY <1>1, FS_EmptySet DEF ClientInit, CountersExact, OnceOnWire, OnWire, Failures, Redialled
<1> QED BY <1>1, <1>2, FS_EmptySet DEF CountedInv, ClientInit, InOp

(* Counters that move with the sets they count stay exact. *)
LEMMA Recount ==
  ASSUME ClientTypeOK, CountedInv, NEW c,
         \/ UNCHANGED <<OnceOnWire, OnWire, requests, samples>>
         \/ /\ c \notin OnceOnWire /\ OnceOnWire' = OnceOnWire \cup {c}
            /\ c \notin OnWire /\ OnWire' = OnWire \cup {c}
            /\ requests' = requests + 1 /\ samples' = samples
         \/ /\ c \in OnWire /\ OnWire' = OnWire \ {c}
            /\ samples' = samples + 1 /\ UNCHANGED <<OnceOnWire, requests>>,
         \/ UNCHANGED <<Failures, plcErrors>>
         \/ c \notin Failures /\ Failures' = Failures \cup {c} /\ plcErrors' = plcErrors + 1,
         \/ UNCHANGED <<Redialled, reconnects>>
         \/ c \notin Redialled /\ Redialled' = Redialled \cup {c} /\ reconnects' = reconnects + 1
  PROVE  /\ IsFiniteSet(OnceOnWire)' /\ IsFiniteSet(OnWire)'
         /\ IsFiniteSet(Failures)' /\ IsFiniteSet(Redialled)'
         /\ CountersExact'
<1> USE CountOne DEF CountedInv, ClientTypeOK
<1>0. /\ requests = Cardinality(OnceOnWire)
      /\ samples = requests - Cardinality(OnWire)
      /\ plcErrors = Cardinality(Failures)
      /\ reconnects = Cardinality(Redialled)
  BY DEF CountersExact, OnceOnWire, OnWire, Failures, Redialled
<1>1. /\ IsFiniteSet(OnceOnWire)' /\ IsFiniteSet(OnWire)'
      /\ requests' = Cardinality(OnceOnWire)'
      /\ samples' = requests' - Cardinality(OnWire)'
  <2>1. Cardinality(OnWire) \in Nat /\ Cardinality(OnceOnWire) \in Nat
    OBVIOUS
  <2> QED BY <1>0, <2>1
<1>2. IsFiniteSet(Failures)' /\ plcErrors' = Cardinality(Failures)'
  BY <1>0
<1>3. IsFiniteSet(Redialled)' /\ reconnects' = Cardinality(Redialled)'
  BY <1>0
<1> QED BY <1>1, <1>2, <1>3 DEF CountersExact, OnceOnWire, OnWire, Failures, Redialled

(* Each step moves at most one call into or out of each of the sets. *)
LEMMA StepCounted ==
  ASSUME ClientInv, CountedInv, NEW c \in Calls, Begin(c) \/ Method(c)
  PROVE  CountedInv'
<1> USE ClientAssumption DEF ClientInv, ClientTypeOK, client, counters, InOp, Failed, Lock,
        ReturnFrom, BeginOp, None
<1> DEFINE Once == /\ \A d \in Calls : ret[d] # None <=> at[d] = "returned"
                   /\ \A d \in Calls : used[d] # None => at[d] \in {"op", "returned"}
                   /\ \A d \in Calls : InOp(d) => used[d] # None
           Wired == UNCHANGED <<OnceOnWire, OnWire>>
<1> USE DEF OnceOnWire, OnWire, Failures, Redialled
<1>1. SUFFICES ASSUME Once PROVE Once' /\ CountedInv'
  BY DEF CountedInv
<1>2. CASE Begin(c)
  <2>1. Once'
    BY <1>1, <1>2 DEF Begin, Call
  <2>2. UNCHANGED <<OnceOnWire, OnWire, Failures, Redialled, counters>>
    BY <1>1, <1>2 DEF Begin, Call
  <2> HIDE DEF OnceOnWire, OnWire, Failures, Redialled
  <2> QED BY <2>1, <2>2, Recount DEF CountedInv
<1>3. CASE IsConnectedSafe(c) \/ Close(c) \/ InitialConnect(c)
  <2>1. /\ Kind[c] \notin {"do", "doReset"} /\ UNCHANGED <<used, counters>>
        /\ \A d \in Calls : d # c => at'[d] = at[d] /\ ret'[d] = ret[d]
        /\ at[c] = "lock" /\ at'[c] \in {"dial", "returned"} /\ ~Failed(c)'
        /\ ret'[c] # None <=> at'[c] = "returned"
    BY <1>1, <1>3 DEF IsConnectedSafe, Close, InitialConnect
  <2>2. Once'
    BY <1>1, <2>1
  <2>3. UNCHANGED <<OnceOnWire, OnWire>>
    BY <1>1, <2>1
  <2>4. UNCHANGED Failures
    BY <1>1, <2>1
  <2>5. UNCHANGED Redialled
    BY <1>1, <2>1
  <2> HIDE DEF OnceOnWire, OnWire, Failures, Redialled
  <2> QED BY <2>1, <2>2, <2>3, <2>4, <2>5, Recount DEF CountedInv
<1>4. CASE UseConn(c)
  <2>1. /\ \A d \in Calls : d # c => at'[d] = at[d] /\ ret'[d] = ret[d] /\ used'[d] = used[d]
        /\ at[c] = "lock" /\ at'[c] = "op" /\ ret' = ret
        /\ used'[c] = conn /\ conn # None /\ conn # c
        /\ requests' = requests + 1 /\ UNCHANGED <<reconnects, plcErrors, samples>>
    BY <1>1, <1>4 DEF UseConn, OpInv, SocketInv
  <2>2. Once'
    BY <1>1, <2>1
  <2>3. c \notin OnceOnWire /\ OnceOnWire' = OnceOnWire \cup {c}
    BY <1>1, <2>1
  <2>4. c \notin OnWire /\ OnWire' = OnWire \cup {c}
    BY <1>1, <2>1
  <2>5. UNCHANGED Failures
    BY <1>1, <2>1
  <2>6. UNCHANGED Redialled
    BY <1>1, <2>1
  <2> HIDE DEF OnceOnWire, OnWire, Failures, Redialled
  <2> QED BY <2>1, <2>2, <2>3, <2>4, <2>5, <2>6, Recount DEF CountedInv
<1>5. CASE Reconnect(c)
  <2>1. /\ \A d \in Calls : d # c => at'[d] = at[d] /\ ret'[d] = ret[d] /\ used'[d] = used[d]
        /\ at[c] = "lock" /\ at'[c] = "dial" /\ Kind[c] \in {"do", "doReset"}
        /\ UNCHANGED <<ret, used>>
        /\ reconnects' = reconnects + 1 /\ UNCHANGED <<requests, plcErrors, samples>>
    BY <1>1, <1>5 DEF Reconnect
  <2>2. Once'
    BY <1>1, <2>1
  <2>3. UNCHANGED <<OnceOnWire, OnWire>>
    BY <1>1, <2>1
  <2>4. UNCHANGED Failures
    BY <1>1, <2>1
  <2>5. c \notin Redialled /\ Redialled' = Redialled \cup {c}
    BY <1>1, <2>1
  <2> HIDE DEF OnceOnWire, OnWire, Failures, Redialled
  <2> QED BY <2>1, <2>2, <2>3, <2>4, <2>5, Recount DEF CountedInv
<1>6. CASE Dialled(c) /\ Kind[c] = "initialConnect"
  <2>1. /\ \A d \in Calls : d # c => at'[d] = at[d] /\ ret'[d] = ret[d] /\ used'[d] = used[d]
        /\ at[c] = "dial" /\ at'[c] = "returned" /\ ret'[c] = "nil" /\ used' = used
        /\ Kind[c] \notin {"do", "doReset"}
        /\ UNCHANGED counters
    BY <1>1, <1>6 DEF Dialled
  <2>2. Once'
    BY <1>1, <2>1
  <2>3. UNCHANGED <<OnceOnWire, OnWire>>
    BY <1>1, <2>1
  <2>4. UNCHANGED Failures
    BY <1>1, <2>1
  <2>5. UNCHANGED Redialled
    BY <1>1, <2>1
  <2> HIDE DEF OnceOnWire, OnWire, Failures, Redialled
  <2> QED BY <2>1, <2>2, <2>3, <2>4, <2>5, Recount DEF CountedInv
<1>7. CASE Dialled(c) /\ Kind[c] # "initialConnect"
  <2>1. /\ \A d \in Calls : d # c => at'[d] = at[d] /\ ret'[d] = ret[d] /\ used'[d] = used[d]
        /\ at[c] = "dial" /\ at'[c] = "op" /\ ret' = ret /\ used'[c] = c
        /\ Kind[c] \in {"do", "doReset"}
        /\ requests' = requests + 1 /\ UNCHANGED <<reconnects, plcErrors, samples>>
    BY <1>1, <1>7 DEF Dialled, HolderInv
  <2>2. Once'
    BY <1>1, <2>1
  <2>3. c \notin OnceOnWire /\ OnceOnWire' = OnceOnWire \cup {c}
    BY <1>1, <2>1
  <2>4. c \notin OnWire /\ OnWire' = OnWire \cup {c}
    BY <1>1, <2>1
  <2>5. UNCHANGED Failures
    BY <1>1, <2>1
  <2>6. UNCHANGED Redialled
    BY <1>1, <2>1
  <2> HIDE DEF OnceOnWire, OnWire, Failures, Redialled
  <2> QED BY <2>1, <2>2, <2>3, <2>4, <2>5, <2>6, Recount DEF CountedInv
<1>8. CASE DialFailed(c) /\ Kind[c] = "initialConnect"
  <2>1. /\ \A d \in Calls : d # c => at'[d] = at[d] /\ ret'[d] = ret[d] /\ used'[d] = used[d]
        /\ at[c] = "dial" /\ at'[c] = "returned" /\ ret'[c] = "nil" /\ used' = used
        /\ Kind[c] \notin {"do", "doReset"}
        /\ UNCHANGED counters
    BY <1>1, <1>8 DEF DialFailed
  <2>2. Once'
    BY <1>1, <2>1
  <2>3. UNCHANGED <<OnceOnWire, OnWire>>
    BY <1>1, <2>1
  <2>4. UNCHANGED Failures
    BY <1>1, <2>1
  <2>5. UNCHANGED Redialled
    BY <1>1, <2>1
  <2> HIDE DEF OnceOnWire, OnWire, Failures, Redialled
  <2> QED BY <2>1, <2>2, <2>3, <2>4, <2>5, Recount DEF CountedInv
<1>9. CASE DialFailed(c) /\ Kind[c] # "initialConnect"
  <2>1. /\ \A d \in Calls : d # c => at'[d] = at[d] /\ ret'[d] = ret[d] /\ used'[d] = used[d]
        /\ at[c] = "dial" /\ at'[c] = "returned" /\ ret'[c] = "connErr" /\ used' = used
        /\ Kind[c] \in {"do", "doReset"}
        /\ plcErrors' = plcErrors + 1 /\ UNCHANGED <<requests, reconnects, samples>>
    BY <1>1, <1>9 DEF DialFailed, HolderInv
  <2>2. Once'
    BY <1>1, <2>1
  <2>3. UNCHANGED <<OnceOnWire, OnWire>>
    BY <1>1, <2>1
  <2>4. c \notin Failures /\ Failures' = Failures \cup {c}
    BY <1>1, <2>1
  <2>5. UNCHANGED Redialled
    BY <1>1, <2>1
  <2> HIDE DEF OnceOnWire, OnWire, Failures, Redialled
  <2> QED BY <2>1, <2>2, <2>3, <2>4, <2>5, Recount DEF CountedInv
<1>10. ASSUME NEW r \in {"nil", "connErr", "plcErr"}, OpDone(c, r) \/ ResetDone(c, r)
       PROVE  Once' /\ CountedInv'
  <2>1. /\ \A d \in Calls : d # c => at'[d] = at[d] /\ ret'[d] = ret[d] /\ used'[d] = used[d]
        /\ at[c] = "op" /\ at'[c] = "returned" /\ ret'[c] = r /\ used' = used /\ used[c] # None
        /\ samples' = samples + 1 /\ UNCHANGED <<requests, reconnects>>
        /\ plcErrors' = IF r = "nil" THEN plcErrors ELSE plcErrors + 1
    BY <1>1, <1>10 DEF OpDone, ResetDone
  <2>2. Once'
    BY <1>1, <2>1
  <2>3. UNCHANGED OnceOnWire
    BY <1>1, <2>1
  <2>4. c \in OnWire /\ OnWire' = OnWire \ {c}
    BY <1>1, <2>1
  <2>5. \/ r = "nil" /\ UNCHANGED Failures
        \/ r # "nil" /\ c \notin Failures /\ Failures' = Failures \cup {c}
    BY <1>1, <2>1
  <2>6. UNCHANGED Redialled
    BY <1>1, <2>1
  <2> HIDE DEF OnceOnWire, OnWire, Failures, Redialled
  <2> QED BY <2>1, <2>2, <2>3, <2>4, <2>5, <2>6, Recount DEF CountedInv
<1> QED
  BY <1>2, <1>3, <1>4, <1>5, <1>6, <1>7, <1>8, <1>9, <1>10 DEF Method

(* The counters agree with what the calls did, whoever failed and wherever *)
(* (plc.go:126-158, 171-204).                                              *)
THEOREM CountersAgree == ClientSpec => []CountersExact
<1>1. ASSUME ClientInv, CountedInv, [ClientNext]_clientVars PROVE CountedInv'
  <2>1. CASE UNCHANGED clientVars
    BY <1>1, <2>1 DEF clientVars, client, counters, CountedInv, CountersExact, InOp, Failed,
       OnceOnWire, OnWire, Failures, Redialled
  <2> QED BY <1>1, <2>1, StepCounted DEF ClientNext
<1>2. CountedInv => CountersExact
  BY DEF CountedInv
<1> QED BY InitCounted, ClientInvariance, <1>1, <1>2, PTL DEF ClientSpec

-----------------------------------------------------------------------------
(* The process. *)

USE DEF Outcomes, NoJob

(* Which goroutine is whose caller, and what each calls the client for. *)
LEMMA Names ==
  /\ init \in Callers /\ Background = {init} /\ Requests = Callers \ {init}
  /\ Stoppers = {main} /\ main \in Calls
  /\ Callers \subseteq Calls /\ Probes \subseteq Calls
  /\ main \notin Callers /\ main \notin Probes
  /\ \A c \in Calls : c \in Callers \/ c \in Probes \/ c = main
  /\ \A c \in Calls : Kind[c] = "initialConnect" <=> c = init
  /\ \A c \in Requests : Kind[c] \in {"do", "doReset"}
  /\ \A c \in Probes : Kind[c] = "isConnectedSafe" /\ c \notin Callers
  /\ Kind[main] = "close"
<1>1. PICK i \in Callers : Background = {i}
  BY GatewayAssumption
<1>2. PICK m \in Stoppers : Stoppers = {m}
  BY GatewayAssumption
<1>3. init = i /\ main = m
  BY <1>1, <1>2 DEF init, main
<1> QED BY <1>1, <1>2, <1>3, GatewayAssumption, ClientAssumption DEF Requests

-----------------------------------------------------------------------------
(* The inductive invariant: those of the queue and of the client, and what *)
(* ties them together.                                                     *)

GatewayTypeOK ==
    /\ mpc \in MainStates
    /\ arrived \subseteq Requests
    /\ drained \in BOOLEAN

(* The client call of a job is as far as the job's execution is.           *)
HandInv ==
    \A c \in Callers : /\ exec[c] = "none" <=> at[c] = "idle"
                       /\ exec[c] \in Outcomes => at[c] = "returned"

Stopping == mpc \in {"stopping", "closing", "closed", "exited"}

(* The main goroutine closes the queue only after the drain or its timeout *)
(* and the connection only at the very end.                                *)
MainInv ==
    /\ ~Stopping => ~closed
    /\ Stopping => drained \/ Ended(main)
    /\ mpc \notin {"closing", "closed", "exited"} => at[main] = "idle"

(* Main goes on to close when the worker has gone or the time is over; in  *)
(* the first case nobody dials behind the close.                           *)
ExitInv ==
    /\ mpc \in {"closing", "closed", "exited"} => workerDone \/ Ended(main)
    /\ mpc \in {"closed", "exited"} => conn = None \/ Ended(main)

(* While the main goroutine connects it is alone; its context never ends   *)
(* and the queue is open and empty, so that it comes back with an outcome. *)
ConnectInv ==
    /\ ~Ended(init)
    /\ mpc = "connecting" =>
          /\ arrived = {}
          /\ \A c \in Requests : pc[c] = "new"
          /\ \A p \in Probes : at[p] = "idle"
          /\ result[init] \in {"empty"} \cup Outcomes
          /\ answer[init] \in {"none"} \cup Outcomes
    /\ mpc # "connecting" => at[init] = "returned"

(* Nobody is told closed before it is, and nobody is left to be told after *)
(* a drain.                                                                *)
RefusalInv ==
    /\ \A c \in Callers : result[c] = "closed" \/ answer[c] = "closed" => closed
    /\ drained => /\ Stopping
                  /\ \A c \in arrived : pc[c] = "returned"
                  /\ \A c \in Requests : answer[c] # "closed"

GatewayInv == /\ IInv /\ ClientInv
              /\ GatewayTypeOK
              /\ HandInv
              /\ StopInv
              /\ MainInv
              /\ ExitInv
              /\ ConnectInv
              /\ RefusalInv

(* Before the initial connect everything is at rest. *)
LEMMA InitGatewayInv == GatewayInit => GatewayInv
<1> SUFFICES ASSUME GatewayInit PROVE GatewayInv
  OBVIOUS
<1>1. IInv /\ ClientInv
  BY InitIInv, InitClientInv DEF GatewayInit
<1>2. GatewayTypeOK /\ HandInv
  <2>1. \A c \in Callers : exec[c] = "none" /\ at[c] = "idle"
    BY Names DEF GatewayInit, Init, ClientInit
  <2>2. GatewayTypeOK
    BY DEF GatewayInit, GatewayTypeOK, MainStates
  <2>3. HandInv
    BY <2>1 DEF HandInv
  <2> QED BY <2>2, <2>3
<1>3. MainInv /\ RefusalInv
  BY Names DEF GatewayInit, Init, ClientInit, MainInv, RefusalInv, Stopping, Requests
<1>4. ConnectInv
  BY Names DEF GatewayInit, Init, ClientInit, ConnectInv, Ended, Requests
<1>5. StopInv /\ ExitInv
  BY DEF GatewayInit, Init, StopInv, ExitInv
<1> QED BY <1>1, <1>2, <1>3, <1>4, <1>5 DEF GatewayInv

-----------------------------------------------------------------------------
(* The steps of the process, seen by the components. *)

(* Every step of the process is one of the queue or leaves the queue       *)
(* alone.                                                                  *)
LEMMA StepOfQueue ==
  ASSUME GatewayNext
  PROVE  [Next]_vars
<1> USE Names DEF queueVars, httpVars, callerVars, stopVars, workerVars, vars
<1>1. CASE Worker
  <2>1. CASE ExecutedJob
    <3>1. OutcomeOf(job) \in Outcomes
      BY DEF OutcomeOf
    <3>2. \E o \in Outcomes : RunJob_Executed(o)
      BY <2>1, <3>1 DEF ExecutedJob
    <3> QED BY <3>2 DEF Next, Run
  <2>2. CASE ExecutingJob
    BY <2>2 DEF ExecutingJob
  <2>3. CASE ~ExecutingJob /\ ~ExecutedJob
    <3>1. Run
      BY <1>1, <2>3 DEF Worker, ExecuteJob, Run
    <3> QED BY <3>1 DEF Next
  <2> QED BY <2>1, <2>2, <2>3
<1>2. CASE Main
  BY <1>2 DEF Main, Main_InitialConnect, Main_Serve, Main_Drained, Main_StopQueue,
     Main_Close, Main_Closed, Main_Exit, Next
<1>3. CASE ServeFails \/ Signal \/ ShutdownTimeout
  BY <1>3 DEF ServeFails, Signal, ShutdownTimeout, Next
<1>4. ASSUME NEW c \in Requests, Arrive(c) \/ ClientGone(c) \/ Handle(c) PROVE [Next]_vars
  BY <1>4 DEF Arrive, ClientGone, Handle, Next
<1>5. ASSUME NEW p \in Probes, ProbeArrive(p) \/ ProbeHandle(p) PROVE [Next]_vars
  BY <1>5 DEF ProbeArrive, ProbeHandle
<1>6. CASE UNCHANGED gatewayVars
  BY <1>6 DEF gatewayVars
<1> QED BY <1>1, <1>2, <1>3, <1>4, <1>5, <1>6 DEF GatewayNext

(* Whoever calls the client does so after the initial connect.             *)
LEMMA StepOfClient ==
  ASSUME GatewayInv, GatewayNext
  PROVE  [ClientNext]_clientVars
<1> USE Names DEF ClientNext
<1>1. ASSUME NEW c \in Calls, Call(c), c = init \/ mpc # "connecting" PROVE Begin(c)
  BY <1>1 DEF Begin, Connected, GatewayInv, ConnectInv
<1>2. CASE Worker
  <2>1. CASE ExecuteJob
    <3>1. job \in Callers /\ (job = init \/ mpc # "connecting")
      BY <2>1 DEF ExecuteJob, RunJob_Execute, GatewayInv, IInv, TypeOK, WorkerInv, CallInv,
         Unsettled, ConnectInv
    <3> QED BY <1>1, <2>1, <3>1 DEF ExecuteJob
  <2>2. CASE ExecutingJob
    <3>1. job \in Callers
      BY <2>2 DEF ExecutingJob, GatewayInv, IInv, TypeOK, WorkerInv
    <3> QED BY <2>2, <3>1 DEF ExecutingJob
  <2> QED BY <1>2, <2>1, <2>2 DEF Worker, ExecutedJob
<1>3. CASE Main
  BY <1>1, <1>3 DEF Main, Main_InitialConnect, Main_Serve, Main_Drained, Main_StopQueue,
     Main_Close, Main_Closed, Main_Exit
<1>4. CASE ServeFails \/ Signal \/ ShutdownTimeout
  BY <1>4 DEF ServeFails, Signal, ShutdownTimeout
<1>5. ASSUME NEW c \in Requests, Arrive(c) \/ ClientGone(c) \/ Handle(c)
      PROVE  UNCHANGED clientVars
  BY <1>5 DEF Arrive, ClientGone, Handle
<1>6. ASSUME NEW p \in Probes, ProbeArrive(p) \/ ProbeHandle(p) PROVE ClientNext
  BY <1>1, <1>6 DEF ProbeArrive, ProbeHandle, Accepting
<1>7. CASE UNCHANGED gatewayVars
  BY <1>7 DEF gatewayVars
<1> QED BY <1>2, <1>3, <1>4, <1>5, <1>6, <1>7 DEF GatewayNext

(* A method of the client moves only its own call, and never backwards.    *)
LEMMA MethodMoves ==
  ASSUME ClientInv, NEW c \in Calls, Method(c)
  PROVE  /\ at[c] \notin {"idle", "returned"} /\ at'[c] # "idle"
         /\ \A d \in Calls : d # c => at'[d] = at[d]
         /\ Kind[c] = "close" => conn' = None
         /\ Kind[c] = "isConnectedSafe" => conn' = conn
<1> USE DEF Method, IsConnectedSafe, Close, InitialConnect, UseConn, Reconnect, Dialled, DialFailed,
     OpDone, ResetDone, ReturnFrom, BeginOp, Lock, ClientInv, ClientTypeOK, HolderInv, InWire, InOp
<1>1. /\ at[c] \notin {"idle", "returned"} /\ at'[c] # "idle"
      /\ \A d \in Calls : d # c => at'[d] = at[d]
  OBVIOUS
<1>2. Kind[c] = "close" => conn' = None
  OBVIOUS
<1>3. Kind[c] = "isConnectedSafe" => conn' = conn
  BY DEF client
<1> QED BY <1>1, <1>2, <1>3

-----------------------------------------------------------------------------
(* What the components and main keep, one step at a time. *)

(* The worker, as it takes, executes and finishes jobs, drives the client  *)
(* in step with the queue.                                                 *)
LEMMA WorkerKeeps ==
  ASSUME GatewayInv, Worker
  PROVE  HandInv' /\ MainInv' /\ ConnectInv' /\ RefusalInv'
<1> USE Names, QueueAssumption DEF GatewayInv, GatewayTypeOK, HandInv, MainInv, ConnectInv, RefusalInv,
        Stopping, Ended, IInv, TypeOK, WorkerInv, httpVars, callerVars, stopVars, workerVars
<1>1. UNCHANGED <<mpc, arrived, drained>> /\ mpc \notin {"exited", "failed"}
  BY DEF Worker, Running
<1>2. CASE ExecuteJob
  <2>1. job \in Callers /\ exec' = [exec EXCEPT ![job] = "running"] /\ at' = [at EXCEPT ![job] = "lock"]
    BY <1>2 DEF ExecuteJob, RunJob_Execute, Call
  <2>2. UNCHANGED <<ctx, closed, result, pc, answer, conn>> /\ at[job] = "idle"
    BY <1>2 DEF ExecuteJob, RunJob_Execute, Call, client
  <2>3. at \in [Calls -> {"idle", "lock", "dial", "op", "returned"}]
    BY DEF ClientInv, ClientTypeOK
  <2>4. HandInv'
    BY <2>1, <2>2, <2>3
  <2>5. MainInv'
    BY <1>1, <2>1, <2>2, <2>3
  <2>6. ConnectInv'
    BY <1>1, <2>1, <2>2, <2>3
  <2>7. RefusalInv'
    BY <1>1, <2>2
  <2> QED BY <2>4, <2>5, <2>6, <2>7
<1>3. CASE ExecutingJob
  <2>1. job \in Callers /\ job \in Calls /\ exec[job] = "running" /\ UNCHANGED <<ctx, closed, exec, result, pc, answer>>
    BY <1>3 DEF ExecutingJob, queueVars
  <2>2. at[job] \notin {"idle", "returned"} /\ at'[job] # "idle"
    BY <1>3, <2>1, MethodMoves DEF ExecutingJob
  <2>3. \A d \in Calls : d # job => at'[d] = at[d]
    BY <1>3, <2>1, MethodMoves DEF ExecutingJob
  <2>4. HandInv'
    BY <2>1, <2>2, <2>3
  <2>5. MainInv'
    BY <1>1, <2>1, <2>3
  <2>6. ConnectInv'
    BY <1>1, <2>1, <2>2, <2>3
  <2>7. RefusalInv'
    BY <1>1, <2>1
  <2> QED BY <2>4, <2>5, <2>6, <2>7
<1>4. CASE ExecutedJob
  <2>1. /\ job \in Callers /\ at[job] = "returned" /\ exec' = [exec EXCEPT ![job] = OutcomeOf(job)]
        /\ OutcomeOf(job) \in Outcomes
        /\ UNCHANGED <<ctx, closed, result, pc, answer, conn, at>>
    BY <1>4 DEF ExecutedJob, RunJob_Executed, OutcomeOf, clientVars, client
  <2>2. HandInv'
    BY <2>1
  <2>3. MainInv' /\ ConnectInv' /\ RefusalInv'
    BY <1>1, <2>1
  <2> QED BY <2>2, <2>3
(* The other steps of the worker touch neither an execution nor a call. *)
<1>5. CASE /\ \/ Run_Done \/ Run_Take \/ Run_IsClosed \/ RunJob_Skip
              \/ RunJob_Finish \/ RejectPendingJob \/ Run_Return
           /\ UNCHANGED clientVars
  <2>1. UNCHANGED <<ctx, closed, pc, answer, exec, at, conn>>
    BY <1>5 DEF Run_Done, Run_Take, Run_IsClosed, RunJob_Skip, RunJob_Finish, RejectPendingJob,
       Run_Return, clientVars, client
  <2>2. /\ \A c \in Callers : result'[c] = "closed" => result[c] = "closed" \/ closed
        /\ result'[init] \in {"empty"} \cup Outcomes \cup {result[init]} \/ closed
    <3>1. CASE Run_Done \/ Run_Take \/ Run_Return
      BY <3>1 DEF Run_Done, Run_Take, Run_Return
    <3>2. CASE Run_IsClosed
      BY <3>2 DEF Run_IsClosed, FinishJob
    <3>3. CASE RunJob_Skip
      BY <3>3 DEF RunJob_Skip, FinishJob
    <3>4. CASE RunJob_Finish
      BY <3>4 DEF RunJob_Finish, FinishJob
    <3>5. CASE RejectPendingJob
      BY <3>5 DEF RejectPendingJob
    <3> QED BY <1>5, <3>1, <3>2, <3>3, <3>4, <3>5
  <2>3. HandInv' /\ MainInv'
    BY <1>1, <2>1
  <2>4. ConnectInv'
    BY <1>1, <2>1, <2>2
  <2>5. RefusalInv'
    BY <1>1, <2>1, <2>2
  <2> QED BY <2>3, <2>4, <2>5
<1> QED BY <1>2, <1>3, <1>4, <1>5 DEF Worker

(* What a step of Do does to what the other parts look at. *)
LEMMA DoMoves ==
  ASSUME IInv, NEW c \in Callers, Do(c)
  PROVE  /\ UNCHANGED <<ctx, closed, exec>>
         /\ pc[c] # "returned"
         /\ \A d \in Callers : d # c => UNCHANGED <<pc[d], answer[d], result[d]>>
         /\ result'[c] \in {result[c], "empty"}
         /\ answer'[c] = "closed" => closed \/ result[c] = "closed" \/ answer[c] = "closed"
<1> USE QueueAssumption DEF IInv, TypeOK, callerVars, stopVars, workerVars, Return, Ended
<1>1. CASE Do_CheckCtx(c) \/ Do_RLock(c) \/ Do_CheckClosed(c)
  BY <1>1 DEF Do_CheckCtx, Do_RLock, Do_CheckClosed
<1>2. CASE Do_Submit(c)
  BY <1>2 DEF Do_Submit
<1>3. CASE Do_Await(c)
  BY <1>3 DEF Do_Await
<1> QED BY <1>1, <1>2, <1>3 DEF Do

(* Handlers come and go only while the server accepts them. *)
LEMMA HandlersKeep ==
  ASSUME GatewayInv,
         \/ \E c \in Requests : Arrive(c) \/ ClientGone(c) \/ Handle(c)
         \/ \E p \in Probes : ProbeArrive(p) \/ ProbeHandle(p)
  PROVE  GatewayTypeOK' /\ HandInv' /\ MainInv' /\ ConnectInv' /\ RefusalInv'
<1> USE Names, QueueAssumption DEF GatewayInv, GatewayTypeOK, HandInv, MainInv, ConnectInv,
        RefusalInv, Stopping, Ended, IInv, TypeOK, queueVars, httpVars, callerVars, stopVars,
        workerVars, clientVars, client, Accepting
<1>1. ASSUME NEW c \in Requests, Arrive(c)
      PROVE  GatewayTypeOK' /\ HandInv' /\ MainInv' /\ ConnectInv' /\ RefusalInv'
  BY <1>1 DEF Arrive
<1>2. ASSUME NEW c \in Requests, ClientGone(c)
      PROVE  GatewayTypeOK' /\ HandInv' /\ MainInv' /\ ConnectInv' /\ RefusalInv'
  <2>1. /\ UNCHANGED <<mpc, arrived, drained, closed, exec, at, conn, result, pc, answer>>
        /\ ctx'[main] = ctx[main] /\ ctx'[init] = ctx[init]
    BY <1>2 DEF ClientGone, EndCtx
  <2> QED BY <2>1
<1>3. ASSUME NEW c \in Requests, Handle(c)
      PROVE  GatewayTypeOK' /\ HandInv' /\ MainInv' /\ ConnectInv' /\ RefusalInv'
  <2>1. c \in arrived /\ c \in Callers /\ c # init /\ UNCHANGED <<mpc, arrived, drained, at, conn>>
    BY <1>3 DEF Handle
  <2>2. mpc # "connecting" /\ ~drained
    BY <1>3, <2>1, DoMoves DEF Handle
  <2> QED BY <1>3, <2>1, <2>2, DoMoves DEF Handle
<1>4. ASSUME NEW p \in Probes, ProbeArrive(p) \/ ProbeHandle(p)
      PROVE  GatewayTypeOK' /\ HandInv' /\ MainInv' /\ ConnectInv' /\ RefusalInv'
  <2>1. /\ UNCHANGED <<ctx, closed, result, pc, answer, exec, mpc, arrived, drained>>
        /\ p # init /\ p # main /\ p \notin Callers
    BY <1>4 DEF ProbeArrive, ProbeHandle
  <2>2. \A d \in Calls : d # p => at'[d] = at[d]
    <3>1. CASE ProbeArrive(p)
      BY <3>1 DEF ProbeArrive, Call, ClientInv, ClientTypeOK
    <3>2. CASE ProbeHandle(p)
      BY <3>2, MethodMoves DEF ProbeHandle
    <3> QED BY <1>4, <3>1, <3>2
  <2>3. mpc # "connecting"
    <3>1. CASE ProbeArrive(p)
      BY <3>1 DEF ProbeArrive, Running
    <3>2. CASE ProbeHandle(p)
      <4>1. at[p] # "idle"
        BY <3>2, MethodMoves DEF ProbeHandle
      <4> QED BY <3>2, <4>1 DEF ProbeHandle, Running
    <3> QED BY <1>4, <3>1, <3>2
  <2> QED BY <2>1, <2>2, <2>3
<1> QED BY <1>1, <1>2, <1>3, <1>4

(* The main goroutine goes from one stage to the next when the one before  *)
(* is over or out of time.                                                 *)
LEMMA MainKeeps ==
  ASSUME GatewayInv, Main \/ ServeFails \/ Signal \/ ShutdownTimeout
  PROVE  GatewayTypeOK' /\ HandInv' /\ MainInv' /\ ConnectInv' /\ RefusalInv'
<1> USE Names, QueueAssumption DEF GatewayInv, GatewayTypeOK, HandInv, MainInv, ConnectInv,
        RefusalInv, Stopping, Ended, IInv, TypeOK, queueVars, httpVars, callerVars, stopVars,
        workerVars, clientVars, client, MainStates
<1> DEFINE Goal == GatewayTypeOK' /\ HandInv' /\ MainInv' /\ ConnectInv' /\ RefusalInv'
(* The queue is open and, but for init's own job, empty. *)
<1>1. CASE Main_InitialConnect
  <2>1. Do(init) /\ mpc = "connecting" /\ UNCHANGED <<mpc, arrived, drained, at, conn>>
    BY <1>1 DEF Main_InitialConnect
  <2>2. answer'[init] \in {"none"} \cup Outcomes
    <3>1. CASE Do_CheckCtx(init) \/ Do_RLock(init) \/ Do_CheckClosed(init)
      BY <2>1, <3>1 DEF Do_CheckCtx, Do_RLock, Do_CheckClosed
    <3>2. CASE Do_Submit(init)
      <4>1. \A d \in Callers : d \notin Queued
        BY <2>1, <3>2 DEF Do_Submit, CallInv, Unsettled
      <4>2. Len(jobs) = 0
        <5>1. jobs \in Seq(Callers) /\ DOMAIN jobs = 1..Len(jobs) /\ Len(jobs) \in Nat
          OBVIOUS
        <5> QED BY <4>1, <5>1 DEF Queued, ToSet
      <4> QED BY <2>1, <3>2, <4>2 DEF Do_Submit
    <3>3. CASE Do_Await(init)
      BY <2>1, <3>3 DEF Do_Await, Return
    <3> QED BY <2>1, <3>1, <3>2, <3>3 DEF Do
  <2> QED BY <2>1, <2>2, DoMoves
<1>2. CASE Main_Serve
  <2>1. /\ mpc = "connecting" /\ mpc' = "serving" /\ pc[init] = "returned"
        /\ UNCHANGED <<ctx, closed, result, pc, answer, exec, at, conn, arrived, drained>>
    BY <1>2 DEF Main_Serve
  <2>2. answer[init] \in Outcomes
    BY <2>1 DEF CallInv
  <2>3. at[init] = "returned"
    BY <2>2 DEF CallInv
  <2> QED BY <2>1, <2>3
<1>3. CASE Main_Drained
  <2>1. UNCHANGED <<ctx, closed, result, pc, answer, exec, at, conn, arrived>>
    BY <1>3 DEF Main_Drained
  <2>2. drained' => \A c \in arrived : pc[c] = "returned"
    BY <1>3 DEF Main_Drained, ActiveHandlers
  <2>3. mpc = "draining" /\ mpc' = "stopping" /\ ~closed /\ (drained' \/ Ended(main)) /\ drained' \in BOOLEAN
    BY <1>3 DEF Main_Drained
  <2> QED BY <2>1, <2>2, <2>3
<1>4. CASE Main_StopQueue
  <2>1. /\ mpc = "stopping" /\ UNCHANGED <<mpc, arrived, drained, at, conn>>
        /\ UNCHANGED <<ctx, result, pc, answer, exec>> /\ (closed => closed')
    BY <1>4 DEF Main_StopQueue, Shutdown, Shutdown_Once, Shutdown_Lock, Shutdown_Close, Shutdown_Await
  <2> QED BY <2>1
<1>5. CASE Main_Close
  BY <1>5 DEF Main_Close, Call
<1>6. CASE Main_Closed \/ Main_Exit
  BY <1>6, MethodMoves DEF Main_Closed, Main_Exit
<1>7. CASE ServeFails \/ Signal
  BY <1>7 DEF ServeFails, Signal
<1>8. CASE ShutdownTimeout
  <2>1. /\ UNCHANGED <<mpc, arrived, drained, closed, exec, at, conn, result, pc, answer>>
        /\ ctx'[init] = ctx[init] /\ (Ended(main) => Ended(main)')
    BY <1>8 DEF ShutdownTimeout, EndCtx
  <2>2. mpc # "connecting"
    BY <1>8 DEF ShutdownTimeout
  <2>3. ~Ended(main)
    BY <1>8 DEF ShutdownTimeout, EndCtx
  <2> QED BY <2>1, <2>2, <2>3
<1> QED BY <1>1, <1>2, <1>3, <1>4, <1>5, <1>6, <1>7, <1>8 DEF Main

(* Who has waited for the worker, and only he, closes the connection for   *)
(* good.                                                                   *)
LEMMA ExitKeeps ==
  ASSUME GatewayInv, GatewayNext
  PROVE  ExitInv'
<1> USE Names DEF ExitInv
<1>1. IInv /\ ClientInv /\ ExitInv /\ StopInv
  BY DEF GatewayInv
<1> USE DEF Ended, queueVars, callerVars, stopVars, workerVars
<1>2. CASE Worker
  <2>1. wpc # "stopped" /\ UNCHANGED <<ctx, mpc>> /\ Running
    BY <1>2 DEF Worker, ExecuteJob, ExecutingJob, ExecutedJob, RunJob_Execute, RunJob_Executed,
       Run_Done, Run_Take, Run_IsClosed, RunJob_Skip, RunJob_Finish, RejectPendingJob, Run_Return
  <2>2. ~workerDone
    BY <1>1, <2>1 DEF IInv, WorkerInv
  <2> QED BY <1>1, <2>1, <2>2
<1>3. CASE Main
  <2>1. CASE Main_InitialConnect \/ Main_Serve \/ Main_Drained \/ Main_StopQueue
    <3>1. mpc' \notin {"closing", "closed", "exited"}
      BY <2>1 DEF Main_InitialConnect, Main_Serve, Main_Drained, Main_StopQueue
    <3> QED BY <3>1
  <2>2. CASE Main_Close
    BY <1>1, <2>2 DEF Main_Close, StopInv
  <2>3. CASE Main_Closed
    <3>1. conn' = None
      BY <1>1, <2>3, MethodMoves DEF Main_Closed
    <3> QED BY <1>1, <2>3, <3>1 DEF Main_Closed
  <2>4. CASE Main_Exit
    BY <1>1, <2>4 DEF Main_Exit, clientVars, client
  <2> QED BY <1>3, <2>1, <2>2, <2>3, <2>4 DEF Main
<1>4. CASE ServeFails \/ Signal
  BY <1>4 DEF ServeFails, Signal
<1>5. CASE ShutdownTimeout
  <2>1. Ended(main)'
    BY <1>1, <1>5, QueueAssumption DEF ShutdownTimeout, EndCtx, IInv, TypeOK
  <2> QED BY <2>1
<1>6. ASSUME NEW c \in Requests, Arrive(c) \/ ClientGone(c) \/ Handle(c) PROVE ExitInv'
  <2>1. UNCHANGED <<mpc, conn, workerDone>> /\ ctx'[main] = ctx[main]
    <3>1. CASE Arrive(c)
      BY <3>1 DEF Arrive, clientVars, client
    <3>2. CASE ClientGone(c)
      BY <3>2 DEF ClientGone, EndCtx, clientVars, client
    <3>3. CASE Handle(c)
      BY <3>3 DEF Handle, Do, Do_CheckCtx, Do_RLock, Do_CheckClosed, Do_Submit, Do_Await,
         clientVars, client
    <3> QED BY <1>6, <3>1, <3>2, <3>3
  <2> QED BY <1>1, <2>1
<1>7. ASSUME NEW p \in Probes, ProbeArrive(p) \/ ProbeHandle(p) PROVE ExitInv'
  <2>1. UNCHANGED <<mpc, conn, workerDone, ctx>>
    BY <1>1, <1>7, MethodMoves DEF ProbeArrive, ProbeHandle, Call, client
  <2> QED BY <1>1, <2>1
<1>8. CASE UNCHANGED gatewayVars
  BY <1>1, <1>8 DEF gatewayVars, clientVars, client
<1> QED BY <1>2, <1>3, <1>4, <1>5, <1>6, <1>7, <1>8 DEF GatewayNext

(* The invariants of the components and what ties them hold throughout the *)
(* life of the process.                                                    *)
THEOREM GatewayInvariance == GatewaySpec => []GatewayInv
<1>1. ASSUME GatewayInv, [GatewayNext]_gatewayVars PROVE GatewayInv'
  <2>1. CASE UNCHANGED gatewayVars
    <3>1. IInv' /\ ClientInv'
      BY <1>1, <2>1, NextIInv, NextClientInv DEF GatewayInv, gatewayVars, queueVars, vars,
         callerVars, stopVars, workerVars
    <3> QED
      BY <1>1, <2>1, <3>1 DEF GatewayInv, gatewayVars, queueVars, httpVars, clientVars, client,
         callerVars, stopVars, workerVars, GatewayTypeOK, HandInv, StopInv, MainInv, ExitInv,
         ConnectInv, RefusalInv, Stopping, Ended
  <2>2. CASE GatewayNext
    <3>0. StopInv' /\ ExitInv'
      BY <1>1, <2>2, StepOfQueue, NextStopInv, ExitKeeps DEF GatewayInv, IInv
    <3>1. IInv' /\ ClientInv'
      BY <1>1, <2>2, StepOfQueue, StepOfClient, NextIInv, NextClientInv DEF GatewayInv
    <3>2. CASE Worker
      <4>1. GatewayTypeOK'
        BY <1>1, <3>2 DEF Worker, httpVars, GatewayTypeOK, GatewayInv
      <4> QED BY <1>1, <3>0, <3>1, <3>2, <4>1, WorkerKeeps DEF GatewayInv
    <3> QED BY <1>1, <2>1, <2>2, <3>0, <3>1, <3>2, HandlersKeep, MainKeeps DEF GatewayNext, GatewayInv
  <2> QED BY <1>1, <2>1, <2>2
<1> QED BY InitGatewayInv, <1>1, PTL DEF GatewaySpec

(* Who is on the wire is executed by the worker. *)
LEMMA WireBelongsToJob == GatewayInv => WireSerialized
<1>1. SUFFICES ASSUME GatewayInv, NEW c \in Calls, InWire(c)
               PROVE  wpc = "execute" /\ job = c
  BY DEF WireSerialized
<1>2. c \in Callers
  BY <1>1, Names DEF GatewayInv, ClientInv, HolderInv, InWire, InOp
<1>3. exec[c] = "running"
  BY <1>1, <1>2 DEF GatewayInv, HandInv, IInv, TypeOK, InWire
<1> QED BY <1>1, <1>2, <1>3 DEF GatewayInv, IInv, CallInv

(* The queue and the mutex together let one operation at a time on the     *)
(* wire, the one of the worker's job (README.md:350-351).                  *)
THEOREM WireIsSerialized == GatewaySpec => []WireSerialized
<1> QED BY WireBelongsToJob, GatewayInvariance, PTL

(* When the five seconds were enough, nothing touches the PLC behind the   *)
(* close (queue.go:99-102; main.go:115-120).                               *)
THEOREM ExitLeavesNoSocket == GatewaySpec => []CleanExitLeavesNoSocket
<1>1. GatewayInv => CleanExitLeavesNoSocket
  <2> SUFFICES ASSUME GatewayInv, mpc \in {"closed", "exited"}, ~Ended(main)
               PROVE  open = {} /\ \A c \in Calls : ~InWire(c)
    BY DEF CleanExitLeavesNoSocket
  <2>1. conn = None /\ workerDone
    BY DEF GatewayInv, ExitInv
  <2>2. open = {}
    BY <2>1 DEF GatewayInv, ClientInv, OneSocket
  <2>3. wpc # "execute"
    BY <2>1 DEF GatewayInv, IInv, WorkerInv
  <2>4. WireSerialized
    BY WireBelongsToJob
  <2> QED BY <2>2, <2>3, <2>4 DEF WireSerialized
<1> QED BY <1>1, GatewayInvariance, PTL

(* After an orderly drain nobody is left to be told that the queue is      *)
(* closed (main.go:110-117).                                               *)
THEOREM DrainRefusesNobody == GatewaySpec => []ClosedOnlyAfterTimeout
<1>1. GatewayInv => ClosedOnlyAfterTimeout
  BY Names DEF GatewayInv, MainInv, RefusalInv, ClosedOnlyAfterTimeout
<1> QED BY <1>1, GatewayInvariance, PTL

(* The process is a user of the client as the client expects them: its     *)
(* theorems hold of the connection the process has (main.go:53-71).        *)
THEOREM ProcessDrivesClient == GatewaySpec => DrivesClient
<1>1. GatewayInit => ClientInit
  BY DEF GatewayInit
<1>2. ASSUME GatewayInv, [GatewayNext]_gatewayVars PROVE [ClientNext]_clientVars
  BY <1>2, StepOfClient DEF gatewayVars
<1> QED BY <1>1, <1>2, GatewayInvariance, PTL DEF GatewaySpec, DrivesClient

(* The process runs its queue and its client as they are specified: what   *)
(* is proved of each by itself holds of it in the process, the refinement  *)
(* of SerialExecutor included.                                             *)
THEOREM ComponentsHold ==
  GatewaySpec => /\ [](NoStrandedJob /\ RefusedNeverRuns /\ AnswerMatchesExecution)
                 /\ ImplementsSerialExecutor
                 /\ [](OneSocket /\ WireExclusive)
<1>1. GatewayInv => NoStrandedJob /\ RefusedNeverRuns /\ AnswerMatchesExecution
  <2>1. IInv => NoStrandedJob
    BY DEF IInv, WorkerInv, CallInv, NoStrandedJob, Unsettled, Queued
  <2>2. IInv => RefusedNeverRuns
    BY QueueAssumption DEF IInv, TypeOK, CallInv, RefusedNeverRuns, Unsettled, Queued
  <2>3. IInv => AnswerMatchesExecution
    BY DEF IInv, CallInv, AnswerMatchesExecution
  <2> QED BY <2>1, <2>2, <2>3 DEF GatewayInv
<1>2. GatewayInv => OneSocket /\ WireExclusive
  BY DEF GatewayInv, ClientInv, HolderInv, OpInv, OneSocket, WireExclusive
<1>3. ASSUME GatewayInv, [GatewayNext]_gatewayVars PROVE [Abstract!Next]_(Abstract!avars)
  <2>1. [Next]_vars
    BY <1>3, StepOfQueue DEF gatewayVars, queueVars, vars, callerVars, stopVars, workerVars
  <2> QED BY <1>3, <2>1, StepRefines DEF GatewayInv, Abstract!avars
<1>4. GatewayInit => Abstract!Init
  BY InitRefines DEF GatewayInit
<1> QED BY <1>1, <1>2, <1>3, <1>4, GatewayInvariance, PTL
      DEF GatewaySpec, ImplementsSerialExecutor, Abstract!Spec
=============================================================================
