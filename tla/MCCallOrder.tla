---------------------------- MODULE MCCallOrder -----------------------------
(* An instance of CallOrder for TLC. *)
EXTENDS CallOrder

CONSTANTS c1, c2, c3, s1

ThreeCallers == {c1, c2, c3}
Connecting   == {c3}       \* its context is context.Background()
OneStopper   == {s1}
Canceled     == {"canceled"}
=============================================================================
