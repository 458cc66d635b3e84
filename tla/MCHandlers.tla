---------------------------- MODULE MCHandlers ------------------------------
(***************************************************************************)
(* Instances for TLC of two views of a request that need nothing of one    *)
(* another: its way through the gates and the queue to its answer          *)
(* (Requests), and what /read and /write do with the values in it          *)
(* (ReadWrite).  A behaviour is one of one view, the other stands still.   *)
(***************************************************************************)
EXTENDS MCRequests, MCReadWrite

VARIABLE view

valueVars == <<readWriteVars, writes>>

HandlersInit ==
    /\ view \in {"way", "values"}
    /\ Init
    /\ view = "values" => /\ config = [readonly |-> FALSE, remote |-> FALSE, token |-> FALSE]
                          /\ \A r \in Requests : req[r] = Fine("/read", "HEAD")
    /\ MCInit
    /\ view = "way" => words = [w \in 0..WordCount - 1 |-> 0]

HandlersNext ==
    \/ view = "way" /\ Next /\ UNCHANGED <<view, valueVars>>
    \/ view = "values" /\ MCNext /\ UNCHANGED <<view, vars>>

HandlersSpec == HandlersInit /\ [][HandlersNext]_<<view, vars, valueVars>>
=============================================================================
