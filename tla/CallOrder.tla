----------------------------- MODULE CallOrder ------------------------------
(***************************************************************************)
(* The order in which calls of the work queue take effect.  A client whose *)
(* request was canceled may send the next one while the first still lies   *)
(* in the queue or runs on the wire; this module watches WorkQueue and     *)
(* remembers which calls had returned when another one began.              *)
(***************************************************************************)
EXTENDS WorkQueue

VARIABLE before    \* before[c]: the calls that had returned when c began

OrderInit == Init /\ before = [c \in Callers |-> {}]

Begins(c) == pc[c] = "new" /\ pc'[c] # "new"

OrderNext ==
    /\ Next
    /\ before' = [c \in Callers |->
           IF Begins(c) THEN {d \in Callers : pc[d] = "returned"} ELSE before[c]]

OrderSpec == OrderInit /\ [][OrderNext]_<<vars, before>>

-----------------------------------------------------------------------------
(* Properties. *)

Started(c) == exec[c] # "none"

(* A call that was answered before another began has no effect after the   *)
(* other's effect has started: what it did is done, and what it did not do *)
(* by then it never does.  So a write that was canceled cannot overwrite   *)
(* the write sent after it (queue.go:60-84, 107-143).                      *)
NoEffectAfterSuccessor ==
    [][\A c \in Callers : Started(c) =>
          \A d \in before[c] : exec'[d] = exec[d] /\ exec[d] # "running"]_<<vars, before>>
=============================================================================
