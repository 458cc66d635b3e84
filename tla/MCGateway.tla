----------------------------- MODULE MCGateway ------------------------------
(* Instances of Gateway for TLC. *)
EXTENDS Gateway

CONSTANTS connect, read, reset, probe, sigterm

MCBackground == {connect}
MCStoppers   == {sigterm}
MCProbes     == {probe}
MCCtxErrs    == {"ended"}

TwoRequests == {connect, read, reset}
OneRequest  == {connect, read}

CallsOf(callers) == callers \cup {probe, sigterm}
TwoRequestCalls == CallsOf(TwoRequests)
OneRequestCalls == CallsOf(OneRequest)

MethodOf(c) == CASE c = connect -> "initialConnect"
                 [] c = read    -> "do"
                 [] c = reset   -> "doReset"
                 [] c = probe   -> "isConnectedSafe"
                 [] c = sigterm -> "close"
TwoRequestKind == [c \in TwoRequestCalls |-> MethodOf(c)]
OneRequestKind == [c \in OneRequestCalls |-> MethodOf(c)]
=============================================================================
