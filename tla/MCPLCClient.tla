---------------------------- MODULE MCPLCClient -----------------------------
(* An instance of PLCClient for TLC: the initial connect, two operations, a *)
(* reset, a health probe and the close of the shutdown.                    *)
EXTENDS PLCClient

CONSTANTS init, op1, op2, reset, probe, stop

MCCalls == {init, op1, op2, reset, probe, stop}
MCKind  == [c \in MCCalls |->
               CASE c = init  -> "initialConnect"
                 [] c = reset -> "doReset"
                 [] c = probe -> "isConnectedSafe"
                 [] c = stop  -> "close"
                 [] OTHER     -> "do"]
=============================================================================
