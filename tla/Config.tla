------------------------------- MODULE Config -------------------------------
(***************************************************************************)
(* The configuration (config.go): flags over environment variables over    *)
(* defaults, what is refused, and what is dialled and served with the      *)
(* outcome (main.go:27-43, plc.go:86-98).                                  *)
(*                                                                         *)
(* A command line is a sequence of words: [name |-> n, value |-> v] is     *)
(* "-n=v", or "-n" when v is NoValue, and [name |-> "", value |-> v] is a  *)
(* word without a dash.  The flag package is external: it reads flags up   *)
(* to the first word that is neither a flag nor the value of one.          *)
(***************************************************************************)
EXTENDS Integers, Sequences, FiniteSets, SequencesExt

CONSTANTS CommandLines,   \* the command lines the program is started with
          Environments    \* the environments: the value of every variable, "" if unset

VARIABLES args, env,
          outcome         \* of parseConfig, and of main with it

configVars == <<args, env, outcome>>

-----------------------------------------------------------------------------
(* Flags and their variables go by the name of the flag. *)

BoolFlags   == {"readonly", "enable-remote"}
StringFlags == {"host", "port", "mode", "listen", "frame", "transport", "queue-size",
                "timeout", "log-file", "log-level", "log-file-level", "token"}
Flags == BoolFlags \cup StringFlags

NoValue == "no value"

ASSUME ConfigAssumption ==
    /\ \A e \in Environments : DOMAIN e = Flags
    /\ \A a \in CommandLines : Len(a) \in Nat /\ DOMAIN a = 1..Len(a)
    /\ \A a \in CommandLines : \A i \in DOMAIN a : DOMAIN a[i] = {"name", "value"}

(* The defaults in the source; those of the switches and of the token are  *)
(* not taken from the environment by the flag.                             *)
Default == [f \in Flags |->
    CASE f = "host"           -> "192.168.0.1"
      [] f = "port"           -> "5007"
      [] f = "mode"           -> "binary"
      [] f = "listen"         -> ":8080"
      [] f = "frame"          -> "3e"
      [] f = "transport"      -> "tcp"
      [] f = "queue-size"     -> "32"
      [] f = "timeout"        -> "5s"
      [] f = "log-level"      -> "info"
      [] f = "log-file-level" -> "warn"
      [] f \in BoolFlags      -> "false"
      [] OTHER                -> ""]

(* getenvWith *)
GetenvWith(e, key, fallback) == IF e[key] # "" THEN e[key] ELSE fallback

(* Mutant: the token's default is its variable, as with the others. *)
FlagDefault_TokenFromEnv(e, f) ==
    IF f \in BoolFlags THEN "false" ELSE GetenvWith(e, f, Default[f])

(* What a flag is declared with, and what -h prints beside it. *)
FlagDefault(e, f) ==
    IF f \in BoolFlags \cup {"token"} THEN Default[f] ELSE GetenvWith(e, f, Default[f])

-----------------------------------------------------------------------------
(* The libraries: strconv.ParseBool, Atoi, time.ParseDuration, flag. *)

Bools == [v \in {"true", "1", "false", "0"} |-> v \in {"true", "1"}]

Numbers == ("-1" :> -1) @@ ("0" :> 0) @@ ("1" :> 1) @@ ("32" :> 32) @@ ("502" :> 502)
           @@ ("5007" :> 5007) @@ ("65535" :> 65535) @@ ("65536" :> 65536)

Durations == ("5s" :> 5) @@ ("200ms" :> 1) @@ ("0s" :> 0) @@ ("-1s" :> -1)

Started == [set |-> [f \in {} |-> ""], wants |-> "", end |-> "open"]

Text(word) == IF word.name = "" THEN word.value ELSE "-" \o word.name

(* A switch that is named without a value is on. *)
SwitchText(word) == IF word.value = NoValue THEN "true" ELSE word.value

(* One more word for FlagSet.Parse: set holds the flags seen so far, wants *)
(* the flag whose value is to come.                                        *)
ReadWord(st, word) ==
    LET Set(f, v) == [st EXCEPT !.set = [g \in DOMAIN @ \cup {f} |-> IF g = f THEN v ELSE @[g]],
                                !.wants = ""]
        End(how)  == [st EXCEPT !.end = how]
    IN  CASE st.end # "open" -> st
          [] st.end = "open" /\ st.wants # "" -> Set(st.wants, Text(word))
          [] st.end = "open" /\ st.wants = "" ->
             (CASE word.name = "" -> End("stray word")
                [] word.name = "h" -> End("help")
                [] word.name \in BoolFlags ->
                     IF SwitchText(word) \in DOMAIN Bools
                     THEN Set(word.name, SwitchText(word)) ELSE End("error")
                [] word.name \in StringFlags ->
                     IF word.value = NoValue THEN [st EXCEPT !.wants = word.name]
                     ELSE Set(word.name, word.value)
                [] OTHER -> End("error"))

(* FlagSet.Parse and Visit. *)
FlagParse(a) ==
    LET st == FoldLeft(ReadWord, Started, a)
    IN  IF st.wants # "" THEN [st EXCEPT !.end = "error"] ELSE st

-----------------------------------------------------------------------------
(* parseConfig *)

(* Mutant: a variable that is not a boolean is taken for its default. *)
GetenvBoolWith_Lenient(e, key) ==
    IF e[key] \in DOMAIN Bools THEN e[key] ELSE Default[key]

(* The text of a boolean variable; it is refused later unless it is one. *)
GetenvBoolWith(e, key) == IF e[key] = "" THEN Default[key] ELSE e[key]

(* Mutant: the token is looked up whether or not the flag is there. *)
Effective_TokenFromEnv(e, set, f) ==
    CASE f = "token" /\ e[f] # ""   -> e[f]
      [] f \in DOMAIN set           -> set[f]
      [] f \in BoolFlags            -> GetenvBoolWith(e, f)
      [] OTHER                      -> FlagDefault(e, f)

(* The text each setting is taken from. *)
Effective(e, set, f) ==
    CASE f \in DOMAIN set                      -> set[f]
      [] f \notin DOMAIN set /\ f = "token"    -> e["token"]
      [] f \notin DOMAIN set /\ f \in BoolFlags -> GetenvBoolWith(e, f)
      [] OTHER                                 -> FlagDefault(e, f)

(* parseLogLevel; a level may be written in upper case as well. *)
LevelNames == {"debug", "info", "warn", "error"}

IsPort(n)  == n \in 1..65535
HasRoom(n) == n > 0

Accepted(f, v) ==
    /\ f \in BoolFlags    => v \in DOMAIN Bools
    /\ f = "port"         => v \in DOMAIN Numbers /\ IsPort(Numbers[v])
    /\ f = "queue-size"   => v \in DOMAIN Numbers /\ HasRoom(Numbers[v])
    /\ f = "timeout"      => v \in DOMAIN Durations /\ Durations[v] > 0
    /\ f \in {"log-level", "log-file-level"} => v \in LevelNames
    /\ f = "mode"         => v \in {"binary", "ascii"}
    /\ f = "frame"        => v \in {"3e", "4e"}
    /\ f = "transport"    => v \in {"tcp", "udp"}

(* Mutant: frame and transport are looked at one by one. *)
Compatible_Any(frame, transport) == TRUE

Compatible(frame, transport) == frame # "4e" \/ transport # "udp"

(* normalizeListen; the listen addresses without a colon are bare ports. *)
NormalizeListen(s) == IF s \in DOMAIN Numbers THEN ":" \o s ELSE s

(* The setting a text stands for. *)
Setting(f, v) ==
    CASE f \in BoolFlags              -> Bools[v]
      [] f \in {"port", "queue-size"} -> Numbers[v]
      [] f = "timeout"                -> Durations[v]
      [] f = "listen"                 -> NormalizeListen(v)
      [] OTHER                        -> v

Refused == [is |-> "refused", shows |-> {}]

(* Usage is written with every default on -h and on an error of Parse. *)
Usage(how, e) == [is |-> how, shows |-> {FlagDefault(e, f) : f \in Flags}]

ParseConfig(a, e) ==
    LET st   == FlagParse(a)
        V(f) == Effective(e, st.set, f)
    IN  IF st.end = "help" THEN Usage("help", e)
        ELSE IF st.end = "error" THEN Usage("refused", e)
        ELSE IF ~(\A f \in Flags : Accepted(f, V(f)))
                \/ ~Compatible(V("frame"), V("transport")) THEN Refused
        ELSE [is |-> "started", shows |-> {},
              config |-> [f \in Flags |-> Setting(f, V(f))]]

(* newConnection: the client that is dialled for a configuration. *)
NewConnection(c) ==
    CASE c["frame"] = "3e" /\ c["transport"] = "udp" -> <<"3e", "udp">>
      [] c["frame"] = "3e" /\ c["transport"] # "udp" -> <<"3e", "tcp">>
      [] c["frame"] = "4e"                           -> <<"4e", "tcp">>
      [] OTHER                                       -> <<"unsupported">>

ConfigInit ==
    /\ args \in CommandLines
    /\ env \in Environments
    /\ outcome = [is |-> "starting", shows |-> {}]

Main ==
    /\ outcome.is = "starting"
    /\ outcome' = ParseConfig(args, env)
    /\ UNCHANGED <<args, env>>

ConfigSpec == ConfigInit /\ [][Main]_configVars

-----------------------------------------------------------------------------
(* Properties. *)

(* The flags of a command line with their texts, whether or not the flag   *)
(* package gets to them: it reads none behind the first stray word.        *)
ReadPast(st, word) ==
    IF ReadWord(st, word).end = "stray word" THEN st ELSE ReadWord(st, word)

Asked(a) == FoldLeft(ReadPast, Started, a).set

Given == DOMAIN Asked(args)

ReadToTheEnd == FlagParse(args).end # "stray word"

(* A server that starts has every flag of its command line in force        *)
(* (README.md:173), the one behind a stray word as well.                   *)
FlagsTakePriority ==
    outcome.is = "started" =>
       \A f \in Given : outcome.config[f] = Setting(f, Asked(args)[f])

(* A flag makes its variable irrelevant: whatever the variable says, even  *)
(* nonsense, the outcome is the same (README.md:173).  It takes the        *)
(* separate treatment of the switches and the token to get that right.     *)
FlagHidesVariable ==
    outcome.is \in {"started", "refused"} =>
       \A f \in Given : \A v \in {"", "true", "false", "bad"} :
          LET other == ParseConfig(args, [env EXCEPT ![f] = v])
          IN  /\ other.is = outcome.is
              /\ outcome.is = "started" => other.config = outcome.config

(* A safety switch that is misspelt stops the start: the server never runs *)
(* with a switch that is off because its variable could not be read, when  *)
(* the command line does not name the switch.                              *)
MisspeltSwitchRefused ==
    outcome.is = "started" =>
       \A f \in BoolFlags \ Given :
          /\ env[f] # "" => env[f] \in DOMAIN Bools /\ outcome.config[f] = Bools[env[f]]
          /\ env[f] = "" => outcome.config[f] = FALSE

(* The client that is dialled has the frame and the transport asked for:   *)
(* newConnection ignores the transport of 4E (plc.go:94).                  *)
DialsWhatWasAsked ==
    outcome.is = "started" =>
       NewConnection(outcome.config) = <<outcome.config["frame"], outcome.config["transport"]>>

(* The usage, on -h or on an error, does not tell the token in the         *)
(* environment: it would be the same if there were none (config.go:71-73). *)
TokenNotShown ==
    outcome.is # "starting" =>
       outcome.shows = ParseConfig(args, [env EXCEPT !["token"] = ""]).shows

(* The server that starts is the one the command line and the environment  *)
(* ask for, and the token stays with it, as long as the flag package reads *)
(* the command line to its end (config.go:48-174, plc.go:88-100).  Behind  *)
(* a stray word, the "true" of "-readonly true", it does not: flags there  *)
(* are not in force and FlagsTakePriority is violated.                     *)
StartsAsAsked ==
    /\ ReadToTheEnd => FlagsTakePriority /\ FlagHidesVariable
    /\ MisspeltSwitchRefused
    /\ DialsWhatWasAsked
    /\ TokenNotShown
=============================================================================
