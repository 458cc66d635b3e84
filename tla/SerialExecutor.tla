--------------------------- MODULE SerialExecutor ---------------------------
(***************************************************************************)
(* What a caller of the PLC work queue may rely on, said without queue,    *)
(* locks, channels or goroutines: every call has an effect that happens at *)
(* most once and never at the same time as the effect of another call, and *)
(* the answer a caller is given agrees with what became of its effect.     *)
(***************************************************************************)
CONSTANTS Callers,   \* one element per call of Do
          CtxErrs    \* the errors an ended request context reports

VARIABLES effect,    \* effect[c]: what became of the work call c asked for
          answer     \* answer[c]: what call c was told, "none" until it returns

avars == <<effect, answer>>

Outcomes == {"ok", "failed"}
Refusals == {"busy", "closed"}
Effects  == {"none", "pending", "running", "never"} \cup Outcomes
Answers  == {"none"} \cup Outcomes \cup Refusals \cup CtxErrs

TypeOK == /\ effect \in [Callers -> Effects]
          /\ answer \in [Callers -> Answers]

Init == /\ effect = [c \in Callers |-> "none"]
        /\ answer = [c \in Callers |-> "none"]

(* The call is accepted. *)
Accept(c) == /\ effect[c] = "none"
             /\ answer[c] = "none"
             /\ effect' = [effect EXCEPT ![c] = "pending"]
             /\ UNCHANGED answer

(* The call is turned away at the door; its work will never be done. *)
Refuse(c) == /\ effect[c] = "none"
             /\ answer[c] = "none"
             /\ effect' = [effect EXCEPT ![c] = "never"]
             /\ \E a \in Refusals \cup CtxErrs : answer' = [answer EXCEPT ![c] = a]

(* An accepted call is discarded before its work started. *)
Discard(c) == /\ effect[c] = "pending"
              /\ effect' = [effect EXCEPT ![c] = "never"]
              /\ UNCHANGED answer

(* The work of an accepted call starts: only when no other work is under way. *)
Start(c) == /\ effect[c] = "pending"
            /\ \A d \in Callers : effect[d] # "running"
            /\ effect' = [effect EXCEPT ![c] = "running"]
            /\ UNCHANGED answer

Finish(c) == /\ effect[c] = "running"
             /\ \E o \in Outcomes : effect' = [effect EXCEPT ![c] = o]
             /\ UNCHANGED answer

(* The caller is told something. An outcome is told only when it is the    *)
(* outcome of the work, "closed" only when the work will never be done; a  *)
(* context error leaves the caller in the dark about an accepted call.     *)
Reply(c) == /\ effect[c] # "none"
            /\ answer[c] = "none"
            /\ \E a \in Outcomes \cup {"closed"} \cup CtxErrs :
                  /\ a \in Outcomes => effect[c] = a
                  /\ a = "closed" => effect[c] = "never"
                  /\ answer' = [answer EXCEPT ![c] = a]
            /\ UNCHANGED effect

Next == \E c \in Callers : \/ Accept(c) \/ Refuse(c) \/ Discard(c)
                           \/ Start(c) \/ Finish(c) \/ Reply(c)

Spec == Init /\ [][Next]_avars
=============================================================================
