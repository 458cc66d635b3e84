---------------------------- MODULE MCWorkQueue -----------------------------
(* An instance of WorkQueue for TLC. *)
EXTENDS WorkQueue

CONSTANTS c1, c2, s1, s2

TwoCallers  == {c1, c2}
NoCaller    == {}
TwoStoppers == {s1, s2}
Canceled    == {"canceled"}
=============================================================================
