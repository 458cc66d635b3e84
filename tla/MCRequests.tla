----------------------------- MODULE MCRequests -----------------------------
(* Requests for TLC: one request of every kind beside one of a few. *)
EXTENDS Requests, TLC

CONSTANTS r1, r2

MCRequestSet == {r1, r2}

Fine(path, method) == [path |-> path, method |-> method, token |-> TRUE, input |-> "fine"]

Companions == {Fine("/read", "HEAD"), Fine("/remote/reset", "POST")}

MCInputs == (r1 :> RequestSpace) @@ (r2 :> Companions)
=============================================================================
