-------------------------- MODULE RequestsProofs ----------------------------
(***************************************************************************)
(* What may run, what a client is told and what is recorded, for every     *)
(* finite set of requests, whatever is sent and however it is configured.  *)
(***************************************************************************)
EXTENDS Requests, FiniteSetTheorems, TLAPS

-----------------------------------------------------------------------------
(* Switches: the first case that applies is taken. *)

(* The case taken is the first whose error is in the chain. *)
LEMMA SwitchAt ==
  ASSUME NEW cases, NEW e, NEW default, DOMAIN cases \subseteq Nat,
         NEW i \in DOMAIN cases, cases[i].finds \in e,
         \A j \in DOMAIN cases : j < i => cases[j].finds \notin e
  PROVE  Switch(cases, e, default) = cases[i]
<1> DEFINE hits == {k \in DOMAIN cases : cases[k].finds \in e}
<1>1. i \in hits /\ \A j \in hits : i <= j
  OBVIOUS
<1>2. \A k \in hits : (\A j \in hits : k <= j) => k = i
  BY <1>1
<1>3. (CHOOSE k \in hits : \A j \in hits : k <= j) = i
  BY <1>1, <1>2
<1> QED BY <1>1, <1>3 DEF Switch

(* The default is taken when no case applies. *)
LEMMA SwitchDefault ==
  ASSUME NEW cases, NEW e, NEW default, \A j \in DOMAIN cases : cases[j].finds \notin e
  PROVE  Switch(cases, e, default) = default
BY DEF Switch

(* The answer to every error that Do can return. *)
Says(e, s, c) == PLCAnswer(e).status = s /\ PLCAnswer(e).code = c

(* Status and code for every error, with the order of the cases            *)
(* (handler.go:184-211).                                                   *)
LEMMA PLCAnswers ==
  /\ Says({}, 200, "none")
  /\ Says({"busy"}, 503, "busy")
  /\ Says({"closed"}, 503, "queue_closed")
  /\ Says({"canceled"}, 499, "request_canceled")
  /\ \A e \in ConnErrs : Says(e, 503, "connection_error")
  /\ Says({"conn", "timeout", "deadline"}, 504, "request_timeout")
  /\ \A e \in {{"plc"}, {"other"}} : Says(e, 502, "plc_error")
<1> DEFINE cases == PLCErrCases
           default == [status |-> 502, code |-> "plc_error"]
<1>1. /\ DOMAIN cases = 1..5
      /\ cases[1] = [finds |-> "busy",     status |-> 503, code |-> "busy"]
      /\ cases[2] = [finds |-> "closed",   status |-> 503, code |-> "queue_closed"]
      /\ cases[3] = [finds |-> "canceled", status |-> 499, code |-> "request_canceled"]
      /\ cases[4] = [finds |-> "deadline", status |-> 504, code |-> "request_timeout"]
      /\ cases[5] = [finds |-> "conn",     status |-> 503, code |-> "connection_error"]
  BY DEF PLCErrCases
<1>2. \A e : e # {} => PLCAnswer(e) = Switch(cases, e, default)
  BY DEF PLCAnswer
<1>3. Says({}, 200, "none")
  BY DEF PLCAnswer, Says
<1> HIDE DEF cases, default
<1>4. ASSUME NEW e, NEW i \in 1..5, cases[i].finds \in e,
             \A j \in 1..5 : j < i => cases[j].finds \notin e
      PROVE  PLCAnswer(e) = cases[i]
  BY <1>1, <1>2, <1>4, SwitchAt
<1>5. Says({"busy"}, 503, "busy")
  BY <1>1, <1>4 DEF Says
<1>6. Says({"closed"}, 503, "queue_closed")
  BY <1>1, <1>4 DEF Says
<1>7. Says({"canceled"}, 499, "request_canceled")
  BY <1>1, <1>4 DEF Says
<1>8. ASSUME NEW e \in ConnErrs PROVE Says(e, 503, "connection_error")
  BY <1>1, <1>4 DEF Says, ConnErrs
<1>9. Says({"conn", "timeout", "deadline"}, 504, "request_timeout")
  BY <1>1, <1>4 DEF Says
<1>10. ASSUME NEW e \in {{"plc"}, {"other"}} PROVE Says(e, 502, "plc_error")
  <2>1. PLCAnswer(e) = default
    BY <1>1, <1>2, SwitchDefault
  <2> QED BY <2>1 DEF Says, default
<1> QED BY <1>3, <1>5, <1>6, <1>7, <1>8, <1>9, <1>10

(* The result in the log for every such error. *)
LEMMA Results ==
  /\ ResultOf({}) = "ok"
  /\ ResultOf({"busy"}) = "busy"
  /\ ResultOf({"closed"}) = "queue_closed"
  /\ ResultOf({"canceled"}) = "canceled"
  /\ \A e \in ConnErrs : ResultOf(e) = "connection_error"
  /\ ResultOf({"conn", "timeout", "deadline"}) = "timeout"
  /\ ResultOf({"plc"}) = "plc_error" /\ ResultOf({"other"}) = "error"
<1> DEFINE cases == PLCOpCases
           default == [result |-> "error"]
<1>1. /\ DOMAIN cases = 1..6
      /\ cases[1] = [finds |-> "busy",     result |-> "busy"]
      /\ cases[2] = [finds |-> "closed",   result |-> "queue_closed"]
      /\ cases[3] = [finds |-> "canceled", result |-> "canceled"]
      /\ cases[4] = [finds |-> "deadline", result |-> "timeout"]
      /\ cases[5] = [finds |-> "conn",     result |-> "connection_error"]
      /\ cases[6] = [finds |-> "plc",      result |-> "plc_error"]
  BY DEF PLCOpCases
<1>2. \A e : e # {} => ResultOf(e) = Switch(cases, e, default).result
  BY DEF ResultOf
<1>3. ResultOf({}) = "ok"
  BY DEF ResultOf
<1> HIDE DEF cases, default
<1>4. ASSUME NEW e, NEW i \in 1..6, cases[i].finds \in e,
             \A j \in 1..6 : j < i => cases[j].finds \notin e
      PROVE  ResultOf(e) = cases[i].result
  BY <1>1, <1>2, <1>4, SwitchAt
<1>5. ResultOf({"busy"}) = "busy"
  BY <1>1, <1>4
<1>6. ResultOf({"closed"}) = "queue_closed"
  BY <1>1, <1>4
<1>7. ResultOf({"canceled"}) = "canceled"
  BY <1>1, <1>4
<1>8. ASSUME NEW e \in ConnErrs PROVE ResultOf(e) = "connection_error"
  BY <1>1, <1>4 DEF ConnErrs
<1>9. ResultOf({"conn", "timeout", "deadline"}) = "timeout"
  BY <1>1, <1>4
<1>10. ResultOf({"plc"}) = "plc_error"
  BY <1>1, <1>4
<1>11. ResultOf({"other"}) = "error"
  <2>1. Switch(cases, {"other"}, default) = default
    BY <1>1, SwitchDefault
  <2> QED BY <1>2, <2>1 DEF default
<1> QED BY <1>3, <1>5, <1>6, <1>7, <1>8, <1>9, <1>10, <1>11

-----------------------------------------------------------------------------
(* Gates. *)

(* One of the shut gates comes first. *)
LEMMA First ==
  ASSUME NEW S, S \subseteq 1..8, S # {}
  PROVE  \E i \in S : \A j \in S : i <= j
<1>1. CASE 1 \in S
  BY <1>1
<1>2. CASE 2 \in S /\ S \cap {1} = {}
  <2>1. \A j \in S : 2 <= j
    BY <1>2
  <2> QED BY <1>2, <2>1
<1>3. CASE 3 \in S /\ S \cap {1, 2} = {}
  <2>1. \A j \in S : 3 <= j
    BY <1>3
  <2> QED BY <1>3, <2>1
<1>4. CASE 4 \in S /\ S \cap {1, 2, 3} = {}
  <2>1. \A j \in S : 4 <= j
    BY <1>4
  <2> QED BY <1>4, <2>1
<1>5. CASE 5 \in S /\ S \cap {1, 2, 3, 4} = {}
  <2>1. \A j \in S : 5 <= j
    BY <1>5
  <2> QED BY <1>5, <2>1
<1>6. CASE 6 \in S /\ S \cap {1, 2, 3, 4, 5} = {}
  <2>1. \A j \in S : 6 <= j
    BY <1>6
  <2> QED BY <1>6, <2>1
<1>7. CASE 7 \in S /\ S \cap {1, 2, 3, 4, 5, 6} = {}
  <2>1. \A j \in S : 7 <= j
    BY <1>7
  <2> QED BY <1>7, <2>1
<1>8. CASE 8 \in S /\ S \cap {1, 2, 3, 4, 5, 6, 7} = {}
  <2>1. \A j \in S : 8 <= j
    BY <1>8
  <2> QED BY <1>8, <2>1
<1>9. \A j \in S : j \in {1, 2, 3, 4, 5, 6, 7, 8}
  OBVIOUS
<1> QED BY <1>1, <1>2, <1>3, <1>4, <1>5, <1>6, <1>7, <1>8, <1>9

(* A shut gate answers, and none answers as the PLC would. *)
LEMMA GateAnswers ==
  ASSUME NEW c \in ConfigSpace, NEW q \in RequestSpace, Shut(c, q) # {}
  PROVE  /\ AnswerOf(c, q).status \in {200, 400, 401, 403, 404, 405, 413}
         /\ AnswerOf(c, q).code \in {"none", "unauthorized", "bad_request", "forbidden"}
         /\ AnswerOf(c, q).status = 200 => q.path \in LocalPaths
<1> DEFINE G == Gates(c, q)
<1>1. /\ DOMAIN G = 1..8
      /\ G[1].status = 401 /\ G[1].code = "unauthorized"
      /\ G[2].status = 404 /\ G[2].code = "none"
      /\ G[3].status = 405 /\ G[3].code = "bad_request"
      /\ G[4].status = 403 /\ G[4].code = "forbidden"
      /\ G[5].status = 403 /\ G[5].code = "forbidden"
      /\ G[6].status = 400 /\ G[6].code = "bad_request"
      /\ G[7].status = 413 /\ G[7].code = "bad_request"
      /\ G[8].status = 200 /\ G[8].code = "none" /\ (G[8].shut => q.path \in LocalPaths)
  <2>1. DOMAIN G = 1..8
    BY DEF Gates
  <2>2. /\ G[1].status = 401 /\ G[1].code = "unauthorized"
        /\ G[2].status = 404 /\ G[2].code = "none"
    BY DEF Gates
  <2>3. /\ G[3].status = 405 /\ G[3].code = "bad_request"
        /\ G[4].status = 403 /\ G[4].code = "forbidden"
    BY DEF Gates
  <2>4. /\ G[5].status = 403 /\ G[5].code = "forbidden"
        /\ G[6].status = 400 /\ G[6].code = "bad_request"
    BY DEF Gates
  <2>5. /\ G[7].status = 413 /\ G[7].code = "bad_request"
        /\ G[8].status = 200 /\ G[8].code = "none"
    BY DEF Gates
  <2>6. G[8].shut => q.path \in LocalPaths
    BY DEF Gates
  <2> QED BY <2>1, <2>2, <2>3, <2>4, <2>5, <2>6
<1>2. AnswerOf(c, q) = G[CHOOSE i \in Shut(c, q) : \A j \in Shut(c, q) : i <= j]
  BY DEF AnswerOf
<1>3. Shut(c, q) = {i \in 1..8 : G[i].shut}
  BY <1>1 DEF Shut
<1> HIDE DEF G
<1>4. \E i \in Shut(c, q) : \A j \in Shut(c, q) : i <= j
  <2>1. Shut(c, q) \subseteq 1..8
    BY <1>3
  <2> QED BY <2>1, First
<1>5. PICK i \in Shut(c, q) : AnswerOf(c, q) = G[i]
  BY <1>2, <1>4
<1> QED BY <1>1, <1>3, <1>5

(* A request that no gate stops may do what it is about to do. *)
LEMMA GatesPermit ==
  ASSUME NEW c \in ConfigSpace, NEW q \in RequestSpace, Shut(c, q) = {}
  PROVE  /\ c.token => q.token
         /\ q.path \in WritePaths \cup RemotePaths => ~c.readonly /\ q.method = "POST"
         /\ q.path \in RemotePaths => c.remote
<1>1. /\ ~Unauthorized(c, q) /\ q.path \in Routes /\ MethodFits(q)
      /\ ~NotWritable(c, q) /\ ~RemoteDisabled(c, q) /\ q.path \notin LocalPaths
  <2> DEFINE G == Gates(c, q)
  <2>1. /\ DOMAIN G = 1..8
        /\ G[1].shut = Unauthorized(c, q) /\ G[2].shut = (q.path \notin Routes)
    BY DEF Gates
  <2>2. G[3].shut = ~MethodFits(q) /\ G[4].shut = NotWritable(c, q)
    BY DEF Gates
  <2>3. G[5].shut = RemoteDisabled(c, q) /\ G[8].shut = (q.path \in LocalPaths)
    BY DEF Gates
  <2>4. \A i \in DOMAIN G : ~G[i].shut
    BY DEF Shut
  <2> HIDE DEF G
  <2>5. /\ ~G[1].shut /\ ~G[2].shut /\ ~G[3].shut /\ ~G[4].shut /\ ~G[5].shut /\ ~G[8].shut
    BY <2>1, <2>4
  <2> QED BY <2>1, <2>2, <2>3, <2>5
<1> QED BY <1>1 DEF Unauthorized, MethodFits, MethodOf, NotWritable, RemoteDisabled, ConfigSpace,
          RequestSpace, AuthExemptPaths, LocalPaths, WritePaths, RemotePaths, ReadPaths

-----------------------------------------------------------------------------
(* The inductive invariant. *)

Errs == DialErrs \cup OpErrs

RequestsTypeOK ==
    /\ config \in ConfigSpace
    /\ req \in [Requests -> RequestSpace]
    /\ stage \in [Requests -> {"new", "exec", "answered", "logged"}]
    /\ Executor!TypeOK
    /\ opErr \in [Requests -> {{}} \cup Errs]
    /\ latency \in [Requests -> BOOLEAN]
    /\ logged \in [Requests -> BOOLEAN]
    /\ timeouts \in Nat
    /\ DOMAIN opResult = Requests /\ DOMAIN status = Requests /\ DOMAIN code = Requests

(* What has become of the call a request has made: only a request that no  *)
(* gate stopped has made one, and the queue keeps its promise.             *)
CallInv(r) ==
    /\ effect[r] # "none" \/ stage[r] = "exec" => Shut(config, req[r]) = {}
    /\ stage[r] = "new" => effect[r] = "none"
    /\ answer[r] # "none" => effect[r] # "none"
    /\ answer[r] \in {"ok", "failed"} => effect[r] = answer[r]
    /\ answer[r] \in {"busy", "closed"} => effect[r] = "never"

(* The error of an operation, and the time it took, are there when it is   *)
(* over and not before; only a failed dial takes no time.                  *)
OperationInv(r) ==
    /\ effect[r] = "ok" => opErr[r] = {} /\ latency[r]
    /\ effect[r] = "failed" => opErr[r] \in Errs /\ (latency[r] \/ opErr[r] \in DialErrs)
    /\ latency[r] => effect[r] \in {"ok", "failed"}

(* An answer is that of a gate or that of the queue, and the records are   *)
(* made from the same error.                                               *)
AnswerInv(r) ==
    /\ ~Answered(r) => status[r] = 0 /\ code[r] = "none" /\ opResult[r] = "none"
    /\ stage[r] # "logged" => ~logged[r]
    /\ Answered(r) =>
          \/ /\ Shut(config, req[r]) # {}
             /\ status[r] = AnswerOf(config, req[r]).status
             /\ code[r] = AnswerOf(config, req[r]).code
             /\ opResult[r] = "none"
          \/ /\ Shut(config, req[r]) = {} /\ answer[r] # "none"
             /\ Says(ErrOf(r, answer[r]), status[r], code[r])
             /\ opResult[r] = ResultOf(ErrOf(r, answer[r]))
    /\ logged[r] => latency[r]
    /\ stage[r] = "logged" /\ answer[r] \in {"ok", "failed"} /\ latency[r] => logged[r]

RequestsInv == /\ RequestsTypeOK
               /\ \A r \in Requests : CallInv(r) /\ OperationInv(r) /\ AnswerInv(r)
               /\ TimeoutsAre504

(* All that Do may return. *)
DoErrs == {{}, {"busy"}, {"closed"}, {"canceled"}} \cup Errs

(* exec and writePLCErr agree on what a timeout is. *)
LEMMA DeadlineIs504 ==
  \A e \in DoErrs : PLCAnswer(e).status = 504 <=> "deadline" \in e
<1> SUFFICES ASSUME NEW e \in DoErrs
             PROVE  PLCAnswer(e).status = 504 <=> "deadline" \in e
  OBVIOUS
<1>1. CASE e \in {{}, {"busy"}, {"closed"}, {"canceled"}}
  <2>1. PLCAnswer(e).status \in {200, 499, 503}
    <3>1. CASE e = {}
      BY <3>1, PLCAnswers DEF Says
    <3>2. CASE e = {"busy"}
      BY <3>2, PLCAnswers DEF Says
    <3>3. CASE e = {"closed"}
      BY <3>3, PLCAnswers DEF Says
    <3>4. CASE e = {"canceled"}
      BY <3>4, PLCAnswers DEF Says
    <3> QED BY <1>1, <3>1, <3>2, <3>3, <3>4
  <2> QED BY <1>1, <2>1
<1>2. CASE e \in {{"plc"}, {"other"}}
  <2>1. PLCAnswer(e).status = 502
    <3>1. CASE e = {"plc"}
      BY <3>1, PLCAnswers DEF Says
    <3>2. CASE e = {"other"}
      BY <3>2, PLCAnswers DEF Says
    <3> QED BY <1>2, <3>1, <3>2
  <2> QED BY <1>2, <2>1
<1>3. CASE e \in ConnErrs
  BY <1>3, PLCAnswers DEF Says, ConnErrs
<1>4. CASE e = {"conn", "timeout", "deadline"}
  BY <1>4, PLCAnswers DEF Says
<1> QED BY <1>1, <1>2, <1>3, <1>4 DEF DoErrs, Errs, DialErrs, OpErrs

(* A request begins with nothing called, answered or recorded. *)
LEMMA InitRequestsInv == Init => RequestsInv
<1> SUFFICES ASSUME Init PROVE RequestsInv
  OBVIOUS
<1> USE RequestsAssumption DEF Init
<1>1. req \in [Requests -> RequestSpace]
  OBVIOUS
<1>2. Executor!TypeOK
  BY DEF Executor!Init, Executor!TypeOK, Executor!Effects, Executor!Answers
<1>3. RequestsTypeOK
  BY <1>1, <1>2 DEF RequestsTypeOK
<1>4. \A r \in Requests : CallInv(r) /\ OperationInv(r) /\ AnswerInv(r)
  BY DEF CallInv, OperationInv, AnswerInv, Answered, Executor!Init
<1>5. TimeoutsAre504
  <2>1. {r \in Requests : status[r] = 504} = {}
    OBVIOUS
  <2> QED BY <2>1, FS_EmptySet DEF TimeoutsAre504
<1> QED BY <1>3, <1>4, <1>5 DEF RequestsInv

(* A step leaves every request but one alone. *)
LEMMA OthersKeep ==
  ASSUME NEW d, UNCHANGED <<config, req>>,
         UNCHANGED <<stage[d], effect[d], answer[d], opErr[d], latency[d], opResult[d],
                     status[d], code[d], logged[d]>>,
         CallInv(d), OperationInv(d), AnswerInv(d)
  PROVE  CallInv(d)' /\ OperationInv(d)' /\ AnswerInv(d)'
BY DEF CallInv, OperationInv, AnswerInv, Answered, ErrOf

(* The answer counted as a timeout, if it is one. *)
LEMMA CountTimeout ==
  ASSUME TimeoutsAre504, NEW r \in Requests, status[r] # 504,
         NEW n, status' = [status EXCEPT ![r] = n], DOMAIN status = Requests,
         timeouts' = timeouts + (IF n = 504 THEN 1 ELSE 0)
  PROVE  TimeoutsAre504'
<1> DEFINE S == {d \in Requests : status[d] = 504}
<1>1. IsFiniteSet(S)
  BY RequestsAssumption, FS_Subset
<1>2. S' = IF n = 504 THEN S \cup {r} ELSE S
  OBVIOUS
<1>3. r \notin S /\ timeouts = Cardinality(S)
  BY DEF TimeoutsAre504
<1>4. TimeoutsAre504' = (timeouts' = Cardinality(S'))
  BY DEF TimeoutsAre504
<1> HIDE DEF S
<1>5. Cardinality(S) \in Nat
  BY <1>1, FS_CardinalityType
<1>6. CASE n = 504
  <2>1. Cardinality(S \cup {r}) = Cardinality(S) + 1
    BY <1>1, <1>3, FS_AddElement
  <2> QED BY <1>2, <1>3, <1>4, <1>6, <2>1
<1>7. CASE n # 504
  <2>1. S' = S /\ timeouts' = timeouts
    BY <1>2, <1>3, <1>5, <1>7
  <2> QED BY <1>3, <1>4, <2>1
<1> QED BY <1>6, <1>7

(* A step of a request, of the queue or of the operation, case by case. *)
LEMMA StepRequestsInv ==
  ASSUME RequestsInv, NEW r \in Requests,
         \/ AnswerHere(r) \/ Exec(r) \/ Queue(r) \/ Worker(r)
         \/ DialFails(r) \/ Operate(r) \/ Answer(r) \/ LogRequest(r)
  PROVE  RequestsInv'
<1> USE DEF RequestsInv, RequestsTypeOK, executorVars, handlerVars, Respond,
        Executor!TypeOK, Executor!Effects, Executor!Answers, Executor!Outcomes, Executor!Refusals
<1> DEFINE Own == CallInv(r)' /\ OperationInv(r)' /\ AnswerInv(r)'
           Frame == \A d \in Requests : d # r =>
              UNCHANGED <<stage[d], effect[d], answer[d], opErr[d], latency[d], opResult[d],
                          status[d], code[d], logged[d]>>
<1>1. ASSUME Own, Frame, UNCHANGED <<config, req>>
      PROVE  \A d \in Requests : CallInv(d)' /\ OperationInv(d)' /\ AnswerInv(d)'
  BY <1>1, OthersKeep
<1>2. ASSUME UNCHANGED <<timeouts, status>> PROVE TimeoutsAre504'
  BY <1>2 DEF TimeoutsAre504
<1>3. CASE AnswerHere(r)
  <2> USE <1>3 DEF AnswerHere
  <2>1. RequestsTypeOK'
    OBVIOUS
  <2>2. Frame
    OBVIOUS
  <2>3. Own
    BY DEF CallInv, OperationInv, AnswerInv, Answered
  <2>4. AnswerOf(config, req[r]).status # 504
    BY GateAnswers
  <2>5. TimeoutsAre504'
    <3>1. status[r] # 504
      BY DEF AnswerInv, Answered
    <3> DEFINE n == AnswerOf(config, req[r]).status
    <3>2. status' = [status EXCEPT ![r] = n] /\ timeouts' = timeouts + (IF n = 504 THEN 1 ELSE 0)
      BY <2>4
    <3> HIDE DEF n
    <3> QED BY <3>1, <3>2, CountTimeout
  <2> QED BY <1>1, <2>1, <2>2, <2>3, <2>5
<1>4. CASE Exec(r)
  <2> USE <1>4 DEF Exec
  <2>1. RequestsTypeOK' /\ Frame
    OBVIOUS
  <2>2. Own
    <3>1. CallInv(r)'
      BY DEF CallInv
    <3>2. OperationInv(r)'
      BY DEF CallInv, OperationInv
    <3>3. AnswerInv(r)'
      BY DEF CallInv, AnswerInv, Answered, ErrOf
    <3> QED BY <3>1, <3>2, <3>3
  <2> QED BY <1>1, <1>2, <2>1, <2>2
<1>5. CASE Queue(r)
  <2> USE <1>5 DEF Queue, Executor!Accept, Executor!Refuse
  <2>1. RequestsTypeOK' /\ Frame
    OBVIOUS
  <2>2. Own
    <3>1. CallInv(r)'
      BY DEF CallInv
    <3>2. OperationInv(r)'
      BY DEF CallInv, OperationInv
    <3>3. AnswerInv(r)'
      BY DEF CallInv, AnswerInv, Answered, ErrOf
    <3> QED BY <3>1, <3>2, <3>3
  <2> QED BY <1>1, <1>2, <2>1, <2>2
<1>6. CASE Worker(r)
  <2> USE <1>6 DEF Worker, Executor!Discard, Executor!Start
  <2>1. RequestsTypeOK' /\ Frame
    OBVIOUS
  <2>2. Own
    <3>1. CallInv(r)'
      BY DEF CallInv
    <3>2. OperationInv(r)'
      BY DEF CallInv, OperationInv
    <3>3. AnswerInv(r)'
      BY DEF CallInv, AnswerInv, Answered, ErrOf
    <3> QED BY <3>1, <3>2, <3>3
  <2> QED BY <1>1, <1>2, <2>1, <2>2
<1>7. CASE DialFails(r)
  <2>1. PICK e \in DialErrs : Finished(r, e) /\ latency' = latency
    BY <1>7 DEF DialFails
  <2>2. e # {} /\ e \in Errs
    BY DEF DialErrs, ConnErrs, Errs
  <2>3. /\ effect' = [effect EXCEPT ![r] = "failed"] /\ effect[r] = "running"
        /\ opErr' = [opErr EXCEPT ![r] = e]
        /\ UNCHANGED <<config, req, answer, stage, timeouts, opResult, status, code, logged>>
    BY <2>1, <2>2 DEF Finished, Executor!Finish
  <2>4. RequestsTypeOK' /\ Frame
    BY <2>1, <2>2, <2>3
  <2>5. Own
    <3>1. OperationInv(r)' /\ CallInv(r)'
      BY <2>1, <2>2, <2>3 DEF CallInv, OperationInv
    <3>2. answer[r] \notin {"ok", "failed"} /\ answer'[r] = answer[r]
      BY <2>3 DEF CallInv
    <3>3. ErrOf(r, answer[r])' = ErrOf(r, answer[r])
      BY <3>2 DEF ErrOf
    <3> QED BY <2>1, <2>3, <3>1, <3>2, <3>3 DEF AnswerInv, Answered
  <2> QED BY <1>1, <1>2, <2>3, <2>4, <2>5
<1>8. CASE Operate(r)
  <2>1. PICK e \in OpErrs \cup {{}} : Finished(r, e) /\ latency' = [latency EXCEPT ![r] = TRUE]
    BY <1>8 DEF Operate
  <2> DEFINE o == IF e = {} THEN "ok" ELSE "failed"
  <2>2. e \in Errs \/ e = {}
    BY DEF Errs
  <2>3. /\ effect' = [effect EXCEPT ![r] = o] /\ effect[r] = "running"
        /\ opErr' = [opErr EXCEPT ![r] = e]
        /\ UNCHANGED <<config, req, answer, stage, timeouts, opResult, status, code, logged>>
    BY <2>1 DEF Finished, Executor!Finish
  <2>4. RequestsTypeOK' /\ Frame
    BY <2>1, <2>2, <2>3
  <2>5. Own
    BY <2>1, <2>2, <2>3 DEF CallInv, OperationInv, AnswerInv, Answered, ErrOf
  <2> QED BY <1>1, <1>2, <2>3, <2>4, <2>5
<1>9. CASE Answer(r)
  <2> DEFINE a == answer'[r]
             e == ErrOf(r, a)
  <2>1. /\ stage[r] = "exec" /\ stage' = [stage EXCEPT ![r] = "answered"]
        /\ status' = [status EXCEPT ![r] = PLCAnswer(e).status]
        /\ code' = [code EXCEPT ![r] = PLCAnswer(e).code]
        /\ opResult' = [opResult EXCEPT ![r] = ResultOf(e)]
        /\ timeouts' = timeouts + (IF "deadline" \in e THEN 1 ELSE 0)
        /\ UNCHANGED <<config, req, effect, opErr, latency, logged>>
    BY <1>9 DEF Answer, Deliver, Executor!Reply
  <2>2. /\ answer' = [answer EXCEPT ![r] = a]
        /\ a \in {"ok", "failed", "busy", "closed", "canceled"} /\ effect[r] # "none"
        /\ a \in {"ok", "failed"} => effect[r] = a
        /\ a \in {"busy", "closed"} => effect[r] = "never"
    <3>1. CASE Executor!Reply(r)
      BY <3>1 DEF Executor!Reply
    <3>2. CASE answer[r] # "none" /\ UNCHANGED executorVars
      BY <3>2 DEF CallInv
    <3> QED BY <1>9, <3>1, <3>2 DEF Answer
  <2>3. e \in DoErrs
    BY <2>2 DEF ErrOf, DoErrs, OperationInv
  <2>4. RequestsTypeOK' /\ Frame
    BY <2>1, <2>2
  <2>5. Own
    <3>1. status'[r] = PLCAnswer(e).status /\ code'[r] = PLCAnswer(e).code
          /\ opResult'[r] = ResultOf(e) /\ stage'[r] = "answered"
      BY <2>1
    <3>2. ErrOf(r, answer[r])' = e
      BY <2>1 DEF ErrOf
    <3>3. CallInv(r)'
      BY <2>1, <2>2, <3>1 DEF CallInv
    <3>4. OperationInv(r)'
      BY <2>1, <3>1 DEF OperationInv
    <3> HIDE DEF e
    <3>5. AnswerInv(r)'
      BY <2>1, <2>2, <3>1, <3>2 DEF AnswerInv, Answered, Says, CallInv
    <3> QED BY <3>3, <3>4, <3>5
  <2>6. TimeoutsAre504'
    <3> DEFINE n == PLCAnswer(e).status
    <3>1. status[r] # 504
      BY <2>1 DEF AnswerInv, Answered
    <3>2. timeouts' = timeouts + (IF n = 504 THEN 1 ELSE 0)
      BY <2>1, <2>3, DeadlineIs504
    <3>3. status' = [status EXCEPT ![r] = n]
      BY <2>1
    <3> HIDE DEF n
    <3> QED BY <3>1, <3>2, <3>3, CountTimeout
  <2> QED BY <1>1, <2>1, <2>4, <2>5, <2>6
<1>10. CASE LogRequest(r)
  <2> USE <1>10 DEF LogRequest
  <2>1. RequestsTypeOK' /\ Frame
    OBVIOUS
  <2>2. Own
    <3>1. CallInv(r)'
      BY DEF CallInv
    <3>2. OperationInv(r)'
      BY DEF CallInv, OperationInv
    <3>3. AnswerInv(r)'
      BY DEF CallInv, AnswerInv, Answered, ErrOf
    <3> QED BY <3>1, <3>2, <3>3
  <2> QED BY <1>1, <1>2, <2>1, <2>2
<1> QED BY <1>3, <1>4, <1>5, <1>6, <1>7, <1>8, <1>9, <1>10

(* The invariant holds for all requests at once. *)
THEOREM RequestsInvariance == Spec => []RequestsInv
<1>1. ASSUME RequestsInv, [Next]_vars PROVE RequestsInv'
  <2>1. CASE UNCHANGED vars
    <3>1. \A d \in Requests : CallInv(d)' /\ OperationInv(d)' /\ AnswerInv(d)'
      BY <1>1, <2>1, OthersKeep DEF vars, executorVars, handlerVars, RequestsInv
    <3> QED BY <1>1, <2>1, <3>1 DEF vars, executorVars, handlerVars, RequestsInv, RequestsTypeOK,
              Executor!TypeOK, TimeoutsAre504
  <2> QED BY <1>1, <2>1, StepRequestsInv DEF Next
<1> QED BY InitRequestsInv, <1>1, PTL DEF Spec

-----------------------------------------------------------------------------

(* Only what the configuration and the token permit is ever begun          *)
(* (auth.go, handler.go:151-182).                                          *)
THEOREM NothingForbiddenRuns == Spec => []OnlyPermittedRuns
<1>1. RequestsInv => OnlyPermittedRuns
  BY GatesPermit DEF RequestsInv, RequestsTypeOK, CallInv, OnlyPermittedRuns
<1> QED BY <1>1, RequestsInvariance, PTL

(* What the queue's answer leads to, error by error. *)
LEMMA AnswerCases ==
  ASSUME RequestsInv, NEW r \in Requests, Answered(r), Shut(config, req[r]) = {}
  PROVE  \/ /\ effect[r] = "ok" /\ latency[r] /\ answer[r] = "ok"
            /\ status[r] = 200 /\ code[r] = "none" /\ opResult[r] = "ok"
         \/ /\ effect[r] = "never" /\ answer[r] \in {"busy", "closed"} /\ status[r] = 503
            /\ \/ code[r] = "busy" /\ opResult[r] = "busy"
               \/ code[r] = "queue_closed" /\ opResult[r] = "queue_closed"
         \/ /\ answer[r] = "canceled" /\ status[r] = 499
            /\ code[r] = "request_canceled" /\ opResult[r] = "canceled"
         \/ /\ effect[r] = "failed" /\ answer[r] = "failed"
            /\ \/ status[r] = 503 /\ code[r] = "connection_error" /\ opResult[r] = "connection_error"
               \/ status[r] = 504 /\ code[r] = "request_timeout" /\ opResult[r] = "timeout"
               \/ /\ status[r] = 502 /\ code[r] = "plc_error" /\ latency[r]
                  /\ opResult[r] \in {"plc_error", "error"}
<1> DEFINE e == ErrOf(r, answer[r])
<1>1. /\ answer[r] # "none" /\ Says(e, status[r], code[r]) /\ opResult[r] = ResultOf(e)
  BY DEF RequestsInv, AnswerInv
<1>2. /\ answer[r] \in {"ok", "failed", "busy", "closed", "canceled"}
      /\ answer[r] \in {"ok", "failed"} => effect[r] = answer[r]
      /\ answer[r] \in {"busy", "closed"} => effect[r] = "never"
  BY <1>1 DEF RequestsInv, RequestsTypeOK, CallInv, Executor!TypeOK, Executor!Answers,
     Executor!Outcomes, Executor!Refusals
<1>3. CASE answer[r] = "ok"
  <2>1. e = {} /\ latency[r]
    BY <1>2, <1>3 DEF ErrOf, RequestsInv, OperationInv
  <2> HIDE DEF e
  <2> QED BY <1>1, <1>2, <1>3, <2>1, PLCAnswers, Results DEF Says
<1>4. CASE answer[r] = "busy"
  BY <1>1, <1>2, <1>4, PLCAnswers, Results DEF Says, ErrOf
<1>5. CASE answer[r] = "closed"
  BY <1>1, <1>2, <1>5, PLCAnswers, Results DEF Says, ErrOf
<1>6. CASE answer[r] = "canceled"
  BY <1>1, <1>6, PLCAnswers, Results DEF Says, ErrOf
<1>7. CASE answer[r] = "failed"
  <2>1. e = opErr[r] /\ e \in Errs /\ (latency[r] \/ e \in DialErrs) /\ effect[r] = "failed"
    BY <1>2, <1>7 DEF ErrOf, RequestsInv, OperationInv
  <2> HIDE DEF e
  <2>2. CASE e \in ConnErrs
    BY <1>1, <1>7, <2>1, <2>2, PLCAnswers, Results DEF Says
  <2>3. CASE e = {"conn", "timeout", "deadline"}
    BY <1>1, <1>7, <2>1, <2>3, PLCAnswers, Results DEF Says
  <2>4. CASE e \in {{"plc"}, {"other"}}
    <3>1. "conn" \notin e
      BY <2>4
    <3>2. e \notin DialErrs
      BY <3>1 DEF DialErrs, ConnErrs
    <3>3. latency[r]
      BY <2>1, <3>2
    <3>4. status[r] = 502 /\ code[r] = "plc_error"
      <4>1. PLCAnswer(e).status = 502 /\ PLCAnswer(e).code = "plc_error"
        BY <2>4, PLCAnswers DEF Says
      <4> QED BY <1>1, <4>1 DEF Says
    <3>5. opResult[r] \in {"plc_error", "error"}
      BY <1>1, <2>4, Results
    <3> QED BY <1>7, <2>1, <3>3, <3>4, <3>5
  <2> QED BY <2>1, <2>2, <2>3, <2>4 DEF Errs, DialErrs, OpErrs
<1> QED BY <1>2, <1>3, <1>4, <1>5, <1>6, <1>7

(* The answer tells the client whether its operation was done, may yet be  *)
(* done, or never will be (handler.go:184-211).                            *)
THEOREM AnswersTellEffect == Spec => []AnswerTellsEffect
<1>1. RequestsInv => AnswerTellsEffect
  <2>1. SUFFICES ASSUME RequestsInv, NEW r \in Requests, Answered(r)
                 PROVE  /\ status[r] = 200 /\ req[r].path \in PLCPaths => effect[r] = "ok"
                        /\ code[r] \in {"busy", "queue_closed"} => effect[r] = "never"
                        /\ status[r] \in {400, 401, 403, 404, 405, 413} => effect[r] = "none"
                        /\ status[r] \in {502, 504} \/ code[r] = "connection_error" =>
                              effect[r] = "failed"
    BY DEF AnswerTellsEffect
  <2>2. CASE Shut(config, req[r]) # {}
    <3>1. effect[r] = "none"
      BY <2>1, <2>2 DEF RequestsInv, CallInv
    <3>2. /\ status[r] = AnswerOf(config, req[r]).status
          /\ code[r] = AnswerOf(config, req[r]).code
          /\ config \in ConfigSpace /\ req[r] \in RequestSpace
      BY <2>1, <2>2 DEF RequestsInv, RequestsTypeOK, AnswerInv
    <3>3. status[r] = 200 => req[r].path \notin PLCPaths
      <4>1. AnswerOf(config, req[r]).status = 200 => req[r].path \in LocalPaths
        BY <2>2, <3>2, GateAnswers
      <4> QED BY <3>2, <4>1 DEF LocalPaths, PLCPaths, ReadPaths, WritePaths, RemotePaths
    <3> QED BY <2>2, <3>1, <3>2, <3>3, GateAnswers
  <2>3. CASE Shut(config, req[r]) = {}
    BY <2>1, <2>3, AnswerCases
  <2> QED BY <2>2, <2>3
<1> QED BY <1>1, RequestsInvariance, PTL

(* The counter of timeouts, the entry of the operation and the wire time   *)
(* in the entry of the request all agree with the answer                   *)
(* (queue.go:175, logging.go:27-46, 144-172, handler.go:184-211).          *)
THEOREM RecordsTrue == Spec => []RecordsAgree
<1>1. RequestsInv => LogAgrees
  <2>1. SUFFICES ASSUME RequestsInv, NEW r \in Requests, opResult[r] # "none"
                 PROVE  CASE opResult[r] = "ok"       -> status[r] = 200
                          [] opResult[r] = "canceled" -> code[r] = "request_canceled"
                          [] opResult[r] = "timeout"  -> code[r] = "request_timeout"
                          [] opResult[r] = "error"    -> code[r] = "plc_error"
                          [] OTHER                    -> code[r] = opResult[r]
    BY DEF LogAgrees
  <2>2. Answered(r) /\ Shut(config, req[r]) = {}
    BY <2>1 DEF RequestsInv, AnswerInv
  <2> QED BY <2>1, <2>2, AnswerCases
<1>2. RequestsInv => LatencyIsOwn
  <2>1. SUFFICES ASSUME RequestsInv, NEW r \in Requests
                 PROVE  /\ logged[r] => effect[r] \in {"ok", "failed"}
                        /\ stage[r] = "logged" /\ opResult[r] \in {"ok", "plc_error"} => logged[r]
    BY DEF LatencyIsOwn
  <2>2. logged[r] => effect[r] \in {"ok", "failed"}
    BY <2>1 DEF RequestsInv, OperationInv, AnswerInv
  <2>3. ASSUME stage[r] = "logged", opResult[r] \in {"ok", "plc_error"} PROVE logged[r]
    <3>1. Answered(r) /\ Shut(config, req[r]) = {}
      BY <2>1, <2>3 DEF RequestsInv, AnswerInv, Answered
    <3>2. answer[r] \in {"ok", "failed"} /\ latency[r]
      BY <2>1, <2>3, <3>1, AnswerCases
    <3> QED BY <2>1, <2>3, <3>2 DEF RequestsInv, AnswerInv
  <2> QED BY <2>2, <2>3
<1>3. RequestsInv => RecordsAgree
  BY <1>1, <1>2 DEF RequestsInv, RecordsAgree
<1> QED BY <1>3, RequestsInvariance, PTL
=============================================================================
