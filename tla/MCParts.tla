------------------------------ MODULE MCParts -------------------------------
(***************************************************************************)
(* Instances for TLC of the parts that need none of the others: device     *)
(* addresses, the configuration, the query in the log, the log, the        *)
(* metrics and the random requests (MCRandomAccess).  A behaviour is one   *)
(* of one part, the others stand still.                                    *)
(***************************************************************************)
EXTENDS Addresses, Config, LogQuery, Logging, Metrics, MCRandomAccess

VARIABLE part

-----------------------------------------------------------------------------
(* Addresses: every short text over characters that names, numbers, signs  *)
(* and suffixes share, and every device with every kind of front and tail. *)

Characters == {"D", "X", "S", "B", "Z", "R", "K", "d", "0", "1", "9", ".", "-", "+", " "}

ShortTexts == UNION {[1..n -> Characters] : n \in 0..4}

Fronts == {<<>>, <<"K","0">>, <<"K","1">>, <<"k","8">>, <<"K","9">>, <<"K">>, <<" ">>}
Tails  == {<<>>, <<"0">>, <<"1","F">>, <<"1","0",".","A">>, <<"9",".">>, <<".","0">>,
           <<"9",".","1","0">>, <<"-","0">>, <<"+","9">>, <<"-","1">>, <<"F","F">>,
           <<"9","9","9">>, <<"f"," ">>, <<"0",".","G">>, <<"1",".","+">>}

Unknown == {<<"Q">>, <<"T">>, <<"C">>, <<"S","T">>}

MCTexts == ShortTexts \cup {f \o d \o t : f \in Fronts, d \in ValidDevs \cup Unknown, t \in Tails}

-----------------------------------------------------------------------------
(* Configuration: up to three words of a few kinds, with the variables     *)
(* they compete with.                                                      *)

Arg(name, value) == [name |-> name, value |-> value]

Words == {Arg("readonly", NoValue), Arg("readonly", "false"), Arg("readonly", "bad"),
          Arg("enable-remote", "1"),
          Arg("token", "secret"), Arg("token", ""), Arg("token", NoValue),
          Arg("frame", "4e"), Arg("transport", "tcp"), Arg("queue-size", "0"),
          Arg("port", "502"), Arg("port", "65536"), Arg("listen", "502"),
          Arg("h", NoValue), Arg("nonsense", NoValue), Arg("", "true")}

MCCommandLines == UNION {[1..n -> Words] : n \in 0..3}

Unset == [f \in Flags |-> ""]

MCEnvironments ==
    {Unset} \cup
    {[Unset EXCEPT !["readonly"] = r, !["token"] = t, !["transport"] = u, !["queue-size"] = q] :
        r \in {"", "true", "bad"}, t \in {"", "t0ken"}, u \in {"", "udp"}, q \in {"", "1", "-1"}}

-----------------------------------------------------------------------------
(* The query in the log: a limit that three keys leave some room of, and   *)
(* up to two addresses for each.                                           *)

MCKeyLengths == <<2, 3, 1>>

AddressLengths == UNION {[1..n -> 0..4] : n \in 0..2}

MCBodies == [1..3 -> AddressLengths]

NoAddresses == <<<<>>, <<>>, <<>>>>

-----------------------------------------------------------------------------
(* The log: two goroutines.  Metrics: three requests and a ring of two.    *)

CONSTANTS worker, handler, r1, r2, r3

MCLoggers   == {worker, handler}
MCCallers   == {r1, r2, r3}
MCLatencies == {1, 3}

Symmetry == Permutations(MCLoggers) \cup Permutations(MCCallers)

-----------------------------------------------------------------------------
PartsInit ==
    /\ part \in {"addresses", "config", "query", "log", "metrics", "random"}
    /\ IF part = "addresses" THEN AddressesInit ELSE text = <<>> /\ parsed = <<>>
    /\ IF part = "config" THEN ConfigInit
       ELSE args = <<>> /\ env = Unset /\ outcome = [is |-> "starting", shows |-> {}]
    /\ IF part = "query" THEN LogQueryInit
       ELSE body = NoAddresses /\ built = <<>> /\ logged = <<>>
    /\ LoggingInit
    /\ part # "log" => logLevel = Debug /\ logFileLevel = Debug /\ ~hasFile
    /\ MetricsInit
    /\ Init
    /\ part # "random" => words = [w \in 0..2 |-> {}]

PartsNext ==
    \/ /\ part = "addresses" /\ Parse
       /\ UNCHANGED <<part, configVars, logQueryVars, loggingVars, metricsVars, vars>>
    \/ /\ part = "config" /\ Main
       /\ UNCHANGED <<part, addressesVars, logQueryVars, loggingVars, metricsVars, vars>>
    \/ /\ part = "query" /\ LogQueryNext
       /\ UNCHANGED <<part, addressesVars, configVars, loggingVars, metricsVars, vars>>
    \/ /\ part = "log" /\ LoggingNext
       /\ UNCHANGED <<part, addressesVars, configVars, logQueryVars, metricsVars, vars>>
    \/ /\ part = "metrics" /\ MetricsNext
       /\ UNCHANGED <<part, addressesVars, configVars, logQueryVars, loggingVars, vars>>
    \/ /\ part = "random" /\ Next
       /\ UNCHANGED <<part, addressesVars, configVars, logQueryVars, loggingVars, metricsVars>>

partsVars == <<part, addressesVars, configVars, logQueryVars, loggingVars, metricsVars, vars>>

PartsSpec == PartsInit /\ [][PartsNext]_partsVars
=============================================================================
