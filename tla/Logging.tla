------------------------------ MODULE Logging -------------------------------
(***************************************************************************)
(* The log (logging.go:48-142, main.go:32-51): every goroutine hands its   *)
(* records to one slog handler, which is the console or, with a log file,  *)
(* a tee of the console and of the file behind a stateEventHandler.  The   *)
(* two are written one after the other, with no lock around both; a write  *)
(* may fail at any time (a full disk), and the next may succeed again.     *)
(***************************************************************************)
EXTENDS Naturals, Sequences

CONSTANTS Loggers,      \* the goroutines that log
          MaxRecords    \* bound: the records one of them logs

ASSUME LoggingAssumption == MaxRecords \in Nat \ {0}

Debug == 0
Info  == 1
Warn  == 2
Error == 3
Levels == {Debug, Info, Warn, Error}

(* State events are logged by logState and logStateWarn. *)
Kinds == {k \in [level : Levels, state : BOOLEAN] : k.state => k.level \in {Info, Warn}}

Sinks == <<"console", "file">>

VARIABLES
    logLevel,      \* -log-level
    logFileLevel,  \* -log-file-level
    hasFile,       \* -log-file is given
    record,        \* record[l]: the record l is logging, or <<>>
    next,          \* next[l]: the index in Sinks of the handler whose turn it is
    emitted,       \* emitted[l]: the kinds of the records l has logged, in order
    writes         \* writes[s][<<l, n>>]: how often record n of l was written to s,
                   \* or would have been if the write had not failed

config == <<logLevel, logFileLevel, hasFile>>
loggingVars == <<config, record, next, emitted, writes>>

Ids == Loggers \X (1..MaxRecords)

Handlers == IF hasFile THEN {"console", "file"} ELSE {"console"}

(* The level of the handler that writes to s. *)
Threshold(s) == IF s = "console" THEN logLevel ELSE logFileLevel

(* Mutant: stateEventHandler asks its file handler alone. *)
Enabled_ByLevel(s, level) == level >= Threshold(s)

(* Enabled, of the console or of stateEventHandler. *)
Enabled(s, level) == level >= Threshold(s) \/ (s = "file" /\ level >= Info)

(* Mutant: stateEventHandler writes whatever is enabled. *)
Writes_AllEnabled(s, k) == Enabled(s, k.level)

(* What Handle of an enabled handler writes. *)
Writes(s, k) == k.level >= Threshold(s) \/ (s = "file" /\ k.state)

LoggingInit ==
    /\ logLevel \in Levels /\ logFileLevel \in Levels /\ hasFile \in BOOLEAN
    /\ record = [l \in Loggers |-> <<>>]
    /\ next = [l \in Loggers |-> 1]
    /\ emitted = [l \in Loggers |-> <<>>]
    /\ writes = [s \in {"console", "file"} |-> [id \in Ids |-> 0]]

Idle(l) == record[l] = <<>>

(* slog.Logger.Log: a record that no handler is enabled for is dropped. *)
Log(l) ==
    /\ Idle(l)
    /\ Len(emitted[l]) < MaxRecords
    /\ \E k \in Kinds :
          /\ emitted' = [emitted EXCEPT ![l] = Append(@, k)]
          /\ record' = [record EXCEPT ![l] =
                IF \E s \in Handlers : Enabled(s, k.level) THEN <<k>> ELSE <<>>]
    /\ next' = [next EXCEPT ![l] = 1]
    /\ UNCHANGED <<config, writes>>

Current(l) == <<l, Len(emitted[l])>>

(* Mutant: the first error ends the loop. *)
Proceed_StopAtError(l, ok) ==
    IF ok /\ next[l] = 1 /\ hasFile
    THEN next' = [next EXCEPT ![l] = 2] /\ UNCHANGED record
    ELSE record' = [record EXCEPT ![l] = <<>>] /\ UNCHANGED next

(* The loop over the handlers goes on, after an error too. *)
Proceed(l, ok) ==
    IF next[l] = 1 /\ hasFile
    THEN next' = [next EXCEPT ![l] = 2] /\ UNCHANGED record
    ELSE record' = [record EXCEPT ![l] = <<>>] /\ UNCHANGED next

(* Handle of one handler of the tee, or of the console alone. *)
Handle(l) ==
    /\ ~Idle(l)
    /\ LET s == Sinks[next[l]]
           k == record[l][1]
       IN  IF Enabled(s, k.level) /\ Writes(s, k)
           THEN /\ writes' = [writes EXCEPT ![s][Current(l)] = @ + 1]
                /\ \E ok \in BOOLEAN : Proceed(l, ok)
           ELSE UNCHANGED writes /\ Proceed(l, TRUE)
    /\ UNCHANGED <<config, emitted>>

LoggingNext == \E l \in Loggers : Log(l) \/ Handle(l)

LoggingSpec == LoggingInit /\ [][LoggingNext]_loggingVars

-----------------------------------------------------------------------------
(* Properties. *)

(* The records whose logging is over. *)
Logged == {id \in Ids : /\ id[2] \in DOMAIN emitted[id[1]]
                        /\ id[2] = Len(emitted[id[1]]) => Idle(id[1])}

KindOf(id) == emitted[id[1]][id[2]]

(* Who a record is for: the console and the file by level, and the file    *)
(* also if it is a state event.                                            *)
IsFor(s, k) ==
    CASE s = "console" -> k.level >= logLevel
      [] s = "file"    -> hasFile /\ (k.state \/ k.level >= logFileLevel)

(* Every record reaches whom it is for exactly once, whatever becomes of   *)
(* the other's write, and nobody else ever: the logger, the tee and        *)
(* stateEventHandler each ask for the level before anything is written,    *)
(* the file lets Info through for the sake of state events, and the loop   *)
(* must survive an error (logging.go:53-72, 92-112).                       *)
EachSinkGetsItsRecords ==
    \A s \in {"console", "file"} :
       /\ \A id \in Logged : writes[s][id] = (IF IsFor(s, KindOf(id)) THEN 1 ELSE 0)
       /\ \A l \in Loggers : ~Idle(l) =>
             writes[s][Current(l)] <= (IF IsFor(s, KindOf(Current(l))) THEN 1 ELSE 0)
=============================================================================
