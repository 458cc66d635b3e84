---------------------------- MODULE PartsProofs -----------------------------
(***************************************************************************)
(* The parts that need none of the others.  The log: what reaches the      *)
(* console and the file, for any number of goroutines and of records and   *)
(* every choice of the two levels.  The counters behind GET /metrics, for  *)
(* any number of requests, any latencies and any length of the ring: what  *)
(* they count, what a scrape may see of them, and what the ring holds.     *)
(* The query in the log, for every body and every limit.  The              *)
(* configuration, for all command lines and environments.  The random      *)
(* requests, for every mix and number of entries and every memory.         *)
(* Device addresses, for every text.                                       *)
(***************************************************************************)
EXTENDS Addresses, Config, LogQuery, Logging, Metrics, RandomAccess, LoopTheorems,
        FiniteSetTheorems, SequenceTheorems, TLAPS

-----------------------------------------------------------------------------
(* The log. *)

BothSinks == {"console", "file"}

LoggingTypeOK ==
    /\ logLevel \in Levels /\ logFileLevel \in Levels /\ hasFile \in BOOLEAN
    /\ record \in [Loggers -> Seq(Kinds)]
    /\ next \in [Loggers -> {1, 2}]
    /\ emitted \in [Loggers -> Seq(Kinds)]
    /\ writes \in [BothSinks -> [Ids -> Nat]]

(* The turn of sink s for record n of l is over: a later record came, or   *)
(* nobody has to write it any more, or the loop has passed s.              *)
Over(s, l, n) ==
    /\ n \in DOMAIN emitted[l]
    /\ n = Len(emitted[l]) => Idle(l) \/ (s = "console" /\ next[l] = 2)

(* What l has under way is its last record, and the second turn exists     *)
(* only if there is a file.                                                *)
LoggerInv(l) ==
    /\ Len(emitted[l]) <= MaxRecords
    /\ ~Idle(l) => /\ Len(emitted[l]) >= 1
                   /\ record[l] = <<emitted[l][Len(emitted[l])]>>
    /\ next[l] = 2 => hasFile

(* A sink has exactly the records whose turn is over and that are for it.  *)
WritesInv(s, l) ==
    \A n \in 1..MaxRecords :
       writes[s][<<l, n>>] =
          IF Over(s, l, n) /\ IsFor(s, emitted[l][n]) THEN 1 ELSE 0

LoggingInv ==
    /\ LoggingTypeOK
    /\ \A l \in Loggers : LoggerInv(l)
    /\ \A s \in BothSinks, l \in Loggers : WritesInv(s, l)

(* Nothing has been logged at first. *)
LEMMA InitLoggingInv == LoggingInit => LoggingInv
BY LoggingAssumption
DEF LoggingInit, LoggingInv, LoggingTypeOK, LoggerInv, WritesInv, Over, Idle, BothSinks, Ids

(* The handler whose turn it is writes a record exactly if the record is   *)
(* for its sink, and what no handler is enabled for is for nobody: the two *)
(* questions a handler is asked, Enabled and Writes, come to IsFor.        *)
LEMMA AskedIsFor ==
  ASSUME LoggingTypeOK, NEW k \in Kinds, NEW s \in BothSinks, s = "file" => hasFile
  PROVE  /\ (Enabled(s, k.level) /\ Writes(s, k)) <=> IsFor(s, k)
         /\ IsFor(s, k) => Enabled(s, k.level)
<1> USE DEF LoggingTypeOK, Kinds, Levels, Debug, Info, Warn, Error
<1>1. CASE s = "console"
  BY <1>1 DEF Enabled, Writes, IsFor, Threshold
<1>2. CASE s = "file"
  BY <1>2 DEF Enabled, Writes, IsFor, Threshold
<1> QED BY <1>1, <1>2 DEF BothSinks

(* A new record takes the next number; nothing is written yet. *)
LEMMA LogKeeps ==
  ASSUME LoggingInv, NEW l \in Loggers, Log(l)
  PROVE  LoggingInv'
<1> USE DEF LoggingInv, LoggingTypeOK
<1>1. PICK k \in Kinds :
         /\ emitted' = [emitted EXCEPT ![l] = Append(@, k)]
         /\ record' = [record EXCEPT ![l] =
               IF \E s \in Handlers : Enabled(s, k.level) THEN <<k>> ELSE <<>>]
  BY DEF Log
<1>2. /\ next' = [next EXCEPT ![l] = 1] /\ Idle(l) /\ Len(emitted[l]) < MaxRecords
      /\ UNCHANGED <<logLevel, logFileLevel, hasFile, writes>>
  BY DEF Log, config
<1> DEFINE N == Len(emitted[l])
<1>3. /\ N \in Nat /\ Len(emitted'[l]) = N + 1 /\ emitted'[l][N + 1] = k
      /\ DOMAIN emitted[l] = 1..N /\ DOMAIN emitted'[l] = 1..(N + 1)
      /\ \A n \in 1..N : emitted'[l][n] = emitted[l][n]
  BY <1>1
<1>4. LoggingTypeOK'
  BY <1>1, <1>2, <1>3
<1>5. ASSUME NEW j \in Loggers PROVE LoggerInv(j)'
  <2>1. LoggerInv(j)
    OBVIOUS
  <2>2. CASE j = l
    BY <1>1, <1>2, <1>3, <2>2, LoggingAssumption DEF LoggerInv, Idle
  <2>3. CASE j # l
    BY <1>1, <1>2, <2>1, <2>3 DEF LoggerInv, Idle
  <2> QED BY <2>2, <2>3
<1>6. ASSUME NEW s \in BothSinks, NEW j \in Loggers PROVE WritesInv(s, j)'
  <2>1. WritesInv(s, j) /\ \A q : IsFor(s, q)' = IsFor(s, q)
    BY <1>2 DEF IsFor
  <2> HIDE DEF LoggingInv, LoggingTypeOK
  <2>2. CASE j # l
    <3>1. emitted'[j] = emitted[j] /\ record'[j] = record[j] /\ next'[j] = next[j]
      BY <1>1, <1>2, <2>2 DEF LoggingInv, LoggingTypeOK
    <3>2. \A n : Over(s, j, n)' <=> Over(s, j, n)
      BY <3>1 DEF Over, Idle
    <3> QED BY <1>2, <2>1, <3>1, <3>2 DEF WritesInv
  <2>3. CASE j = l
    <3> SUFFICES ASSUME NEW n \in 1..MaxRecords
                 PROVE  writes'[s][<<l, n>>] =
                          IF Over(s, l, n)' /\ IsFor(s, emitted[l][n])' THEN 1 ELSE 0
      BY <2>3 DEF WritesInv
    <3>1. writes'[s][<<l, n>>] =
             IF Over(s, l, n) /\ IsFor(s, emitted[l][n]) THEN 1 ELSE 0
      BY <1>2, <2>1, <2>3 DEF WritesInv
    <3>2. CASE n <= N
      <4>1. Over(s, l, n)' /\ Over(s, l, n)
        BY <1>2, <1>3, <3>2 DEF Over
      <4>2. emitted'[l][n] = emitted[l][n]
        BY <1>3, <3>2
      <4> QED BY <2>1, <3>1, <4>1, <4>2
    <3>3. CASE n = N + 1
      <4>1. ~Over(s, l, n) /\ emitted'[l][n] = k
        BY <1>3, <3>3 DEF Over
      <4>2. Over(s, l, n)' => ~IsFor(s, k)
        <5>1. SUFFICES ASSUME Over(s, l, n)', IsFor(s, k) PROVE FALSE
          OBVIOUS
        <5>2. record'[l] = <<>>
          <6>1. next'[l] = 1
            BY <1>2 DEF LoggingInv, LoggingTypeOK
          <6> QED BY <1>3, <3>3, <5>1, <6>1 DEF Over, Idle
        <5>3. s = "file" => hasFile
          BY <5>1 DEF IsFor
        <5>4. Enabled(s, k.level) /\ s \in Handlers
          BY AskedIsFor, <5>1, <5>3 DEF LoggingInv, BothSinks, Handlers
        <5>5. record'[l] = <<k>>
          BY <1>1, <5>4 DEF LoggingInv, LoggingTypeOK
        <5> QED BY <5>2, <5>5
      <4> QED BY <2>1, <3>1, <4>1, <4>2
    <3>4. CASE n > N + 1
      <4>1. ~Over(s, l, n) /\ ~Over(s, l, n)'
        BY <1>3, <3>4 DEF Over
      <4> QED BY <3>1, <4>1
    <3> QED BY <1>3, <3>2, <3>3, <3>4
  <2> QED BY <2>2, <2>3
<1> QED BY <1>4, <1>5, <1>6

(* A handler writes what it has been given for its sink, once, and the     *)
(* loop goes on whether the write succeeded or not.                        *)
LEMMA HandleKeeps ==
  ASSUME LoggingInv, NEW l \in Loggers, Handle(l)
  PROVE  LoggingInv'
<1> USE DEF LoggingInv, LoggingTypeOK
<1> DEFINE N == Len(emitted[l])
           k == emitted[l][N]
           t == Sinks[next[l]]
<1>1. /\ LoggerInv(l) /\ ~Idle(l) /\ N \in 1..MaxRecords /\ record[l] = <<k>>
      /\ k \in Kinds /\ DOMAIN emitted[l] = 1..N
  BY DEF Handle, LoggerInv
<1>2. UNCHANGED <<logLevel, logFileLevel, hasFile, emitted>>
  BY DEF Handle, config
<1>3. t \in BothSinks /\ (t = "file" <=> next[l] = 2) /\ (t = "file" => hasFile)
  BY <1>1 DEF LoggerInv, Sinks, BothSinks
<1>4. <<l, N>> \in Ids
  BY <1>1 DEF Ids
<1>5. writes' = IF IsFor(t, k) THEN [writes EXCEPT ![t][<<l, N>>] = @ + 1] ELSE writes
  <2>1. (Enabled(t, k.level) /\ Writes(t, k)) <=> IsFor(t, k)
    BY <1>1, <1>3, AskedIsFor
  <2>2. record[l][1] = k
    BY <1>1
  <2> QED BY <2>1, <2>2 DEF Handle, Current
<1>6. \/ /\ next[l] = 1 /\ hasFile
         /\ next' = [next EXCEPT ![l] = 2] /\ UNCHANGED record
      \/ /\ ~(next[l] = 1 /\ hasFile)
         /\ record' = [record EXCEPT ![l] = <<>>] /\ UNCHANGED next
  BY DEF Handle, Proceed
<1>7. /\ \A s \in BothSinks : \A id \in Ids : writes'[s][id] =
            IF s = t /\ id = <<l, N>> /\ IsFor(t, k) THEN writes[s][id] + 1 ELSE writes[s][id]
      /\ writes' \in [BothSinks -> [Ids -> Nat]]
  <2>1. CASE IsFor(t, k)
    <3>1. writes' = [writes EXCEPT ![t] = [writes[t] EXCEPT ![<<l, N>>] = @ + 1]]
      BY <1>5, <2>1
    <3>2. /\ writes[t] \in [Ids -> Nat] /\ writes[t][<<l, N>>] + 1 \in Nat
      BY <1>3, <1>4
    <3> HIDE DEF t, k
    <3> QED BY <1>3, <1>4, <2>1, <3>1, <3>2
  <2>2. CASE ~IsFor(t, k)
    BY <1>5, <2>2
  <2> QED BY <2>1, <2>2
<1>8. LoggingTypeOK'
  <2>1. record' \in [Loggers -> Seq(Kinds)] /\ next' \in [Loggers -> {1, 2}]
    <3>1. <<>> \in Seq(Kinds)
      OBVIOUS
    <3>2. record' = record \/ record' = [record EXCEPT ![l] = <<>>]
      BY <1>6
    <3>3. next' = next \/ next' = [next EXCEPT ![l] = 2]
      BY <1>6
    <3> QED BY <3>1, <3>2, <3>3
  <2> QED BY <1>2, <1>7, <2>1
<1>9. ASSUME NEW j \in Loggers PROVE LoggerInv(j)'
  <2>1. LoggerInv(j)
    OBVIOUS
  <2> QED BY <1>1, <1>2, <1>6, <2>1 DEF LoggerInv, Idle
<1>10. ASSUME NEW s \in BothSinks, NEW j \in Loggers PROVE WritesInv(s, j)'
  <2> SUFFICES ASSUME NEW n \in 1..MaxRecords
               PROVE  writes'[s][<<j, n>>] =
                        IF Over(s, j, n)' /\ IsFor(s, emitted[j][n])' THEN 1 ELSE 0
    BY DEF WritesInv
  <2>1. writes[s][<<j, n>>] = IF Over(s, j, n) /\ IsFor(s, emitted[j][n]) THEN 1 ELSE 0
    BY DEF WritesInv
  <2>2. IsFor(s, emitted[j][n])' = IsFor(s, emitted[j][n])
    BY <1>2 DEF IsFor
  <2>3. <<j, n>> \in Ids
    BY DEF Ids
  <2>4. CASE j # l
    <3>1. Over(s, j, n)' = Over(s, j, n)
      BY <1>2, <1>6, <2>4 DEF Over, Idle
    <3> QED BY <1>7, <2>1, <2>2, <2>3, <2>4, <3>1
  <2>5. CASE j = l /\ n # N
    <3>1. Over(s, j, n)' = Over(s, j, n)
      BY <1>2, <2>5 DEF Over
    <3> QED BY <1>7, <2>1, <2>2, <2>3, <2>5, <3>1
  <2>6. CASE j = l /\ n = N /\ s = t
    <3>1. ~Over(s, j, n)
      BY <1>1, <1>3, <2>6 DEF Over
    <3>2. Over(s, j, n)'
      BY <1>1, <1>2, <1>3, <1>6, <2>6 DEF Over, Idle, BothSinks
    <3>3. IsFor(t, k) <=> IsFor(s, emitted[j][n])
      BY <2>6
    <3>4. writes'[s][<<j, n>>] = IF IsFor(t, k) THEN writes[s][<<j, n>>] + 1 ELSE writes[s][<<j, n>>]
      BY <1>7, <2>3, <2>6
    <3> HIDE DEF LoggingInv, LoggingTypeOK, t, k, N
    <3> QED BY <2>1, <2>2, <3>1, <3>2, <3>3, <3>4
  <2>7. CASE j = l /\ n = N /\ s # t
    <3>1. writes'[s][<<j, n>>] = writes[s][<<j, n>>]
      BY <1>7, <2>3, <2>7
    <3>2. CASE s = "console"
      BY <1>1, <1>2, <1>3, <1>6, <2>1, <2>2, <2>7, <3>1, <3>2 DEF Over, Idle, BothSinks
    <3>3. CASE s = "file"
      <4>1. ~Over(s, j, n)
        BY <1>1, <2>7, <3>3 DEF Over
      <4>2. CASE hasFile
        BY <1>1, <1>2, <1>3, <1>6, <2>1, <2>7, <3>1, <3>3, <4>1, <4>2 DEF Over, Idle, BothSinks
      <4>3. CASE ~hasFile
        BY <2>1, <2>2, <3>1, <3>3, <4>1, <4>3 DEF IsFor
      <4> QED BY <4>2, <4>3
    <3> QED BY <3>2, <3>3 DEF BothSinks
  <2> QED BY <2>4, <2>5, <2>6, <2>7
<1> QED BY <1>8, <1>9, <1>10

(* The invariant of the log: who has a record is decided when its turn is  *)
(* over, and not before.                                                   *)
THEOREM LoggingInvariance == LoggingSpec => []LoggingInv
<1>1. LoggingInit => LoggingInv
  BY InitLoggingInv
<1>2. LoggingInv /\ [LoggingNext]_loggingVars => LoggingInv'
  <2> SUFFICES ASSUME LoggingInv, [LoggingNext]_loggingVars PROVE LoggingInv'
    OBVIOUS
  <2>1. CASE LoggingNext
    BY <2>1, LogKeeps, HandleKeeps DEF LoggingNext
  <2>2. CASE UNCHANGED loggingVars
    <3>1. LoggingTypeOK' /\ \A l \in Loggers : LoggerInv(l)'
      BY <2>2 DEF LoggingInv, LoggingTypeOK, LoggerInv, Idle, loggingVars, config
    <3>2. ASSUME NEW s \in BothSinks, NEW l \in Loggers PROVE WritesInv(s, l)'
      BY <2>2 DEF LoggingInv, WritesInv, Over, Idle, IsFor, loggingVars, config
    <3> QED BY <3>1, <3>2 DEF LoggingInv
  <2> QED BY <2>1, <2>2
<1> QED BY <1>1, <1>2, PTL DEF LoggingSpec

(* Every record reaches the console and the file exactly once each if it   *)
(* is for them and never otherwise, whatever becomes of a write and        *)
(* whatever the other goroutines log meanwhile (logging.go:53-72, 92-112). *)
THEOREM RecordsReachTheirSinks == LoggingSpec => []EachSinkGetsItsRecords
<1>1. LoggingInv => EachSinkGetsItsRecords
  <2> SUFFICES ASSUME LoggingInv, NEW s \in BothSinks
               PROVE  /\ \A id \in Logged :
                            writes[s][id] = (IF IsFor(s, KindOf(id)) THEN 1 ELSE 0)
                      /\ \A l \in Loggers : ~Idle(l) =>
                            writes[s][Current(l)] <= (IF IsFor(s, KindOf(Current(l))) THEN 1 ELSE 0)
    BY DEF EachSinkGetsItsRecords, BothSinks
  <2> USE DEF LoggingInv, LoggingTypeOK
  <2>1. ASSUME NEW id \in Logged
        PROVE  writes[s][id] = (IF IsFor(s, KindOf(id)) THEN 1 ELSE 0)
    <3>1. PICK l \in Loggers, n \in 1..MaxRecords :
             /\ id = <<l, n>> /\ n \in DOMAIN emitted[l]
             /\ n = Len(emitted[l]) => Idle(l)
      BY DEF Logged, Ids
    <3>2. Over(s, l, n)
      BY <3>1 DEF Over
    <3> QED BY <3>1, <3>2 DEF WritesInv, KindOf
  <2>2. ASSUME NEW l \in Loggers, ~Idle(l)
        PROVE  writes[s][Current(l)] <= (IF IsFor(s, KindOf(Current(l))) THEN 1 ELSE 0)
    <3>1. Len(emitted[l]) \in 1..MaxRecords
      BY <2>2 DEF LoggerInv
    <3>2. writes[s][<<l, Len(emitted[l])>>] \in {0, 1} /\
            (writes[s][<<l, Len(emitted[l])>>] = 1 => IsFor(s, emitted[l][Len(emitted[l])]))
      <4>1. WritesInv(s, l)
        OBVIOUS
      <4> HIDE DEF LoggingInv, LoggingTypeOK
      <4> QED BY <3>1, <4>1 DEF WritesInv
    <3> QED BY <3>2 DEF KindOf, Current
  <2> QED BY <2>1, <2>2
<1> QED BY <1>1, LoggingInvariance, PTL

-----------------------------------------------------------------------------
(* The counters. *)

Places == {"new", "do", "total", "ring", "timeout", "returned"}
Counters == {"busy", "requests", "total"}

MetricsTypeOK ==
    /\ requests \in Nat /\ busyCount \in Nat /\ totalNs \in Nat /\ timeouts \in Nat
    /\ ring \in [0..recentWindow - 1 -> Nat]
    /\ ringN \in Nat /\ ringAt \in 0..recentWindow - 1
    /\ pc \in [Callers -> Places]
    /\ latency \in [Callers -> Nat]
    /\ err \in [Callers -> {"none", "nil", "busy", "deadline"}]
    /\ spc \in 0..3
    /\ seen \in [Counters -> Nat]
    /\ recorded \in Seq(Nat)

(* The requests each counter has counted. *)
Entered  == {c \in Callers : pc[c] # "new"}
Rejected == {c \in Callers : pc[c] = "returned" /\ err[c] = "busy"}
Measured == {c \in Callers : pc[c] = "timeout" \/ (pc[c] = "returned" /\ err[c] # "busy")}
TimedOut == {c \in Callers : pc[c] = "returned" /\ err[c] = "deadline"}

(* Do has returned nothing before it is called, only a busy request leaves *)
(* early, and only a late one is on its way to the counter of timeouts.    *)
CallerInv ==
    \A c \in Callers :
       /\ pc[c] \in {"new", "do"} => err[c] = "none"
       /\ pc[c] \in {"total", "ring", "timeout", "returned"} => err[c] # "none"
       /\ pc[c] = "ring" => err[c] # "busy"
       /\ pc[c] = "timeout" => err[c] = "deadline"

Counts(n, S) == IsFiniteSet(S) /\ n = Cardinality(S)

CountInv ==
    /\ Counts(requests, Entered)
    /\ Counts(busyCount, Rejected)
    /\ Counts(Len(recorded), Measured)
    /\ Counts(timeouts, TimedOut)

(* What a scrape has loaded is no more than the counter is now. *)
ScrapeInv ==
    /\ spc >= 1 => seen["busy"] <= busyCount
    /\ spc >= 2 => seen["busy"] <= seen["requests"]

(* Where in the ring the k-th last latency is: k places back from where    *)
(* the next one goes, which is the end until the ring is full.             *)
Back(k) == IF k <= ringAt THEN ringAt - k ELSE ringAt + recentWindow - k

RingInv ==
    /\ ringN = Len(recorded)
    /\ ringN < recentWindow => ringAt = ringN
    /\ \A k \in 1..recentWindow :
          k <= Len(recorded) => ring[Back(k)] = recorded[Len(recorded) + 1 - k]

MetricsInv == MetricsTypeOK /\ CallerInv /\ CountInv /\ ScrapeInv /\ RingInv

(* Nothing has been counted, loaded or recorded at first. *)
LEMMA InitMetricsInv == MetricsInit => MetricsInv
<1> SUFFICES ASSUME MetricsInit PROVE MetricsInv
  OBVIOUS
<1> USE MetricsAssumption DEF MetricsInit
<1>1. MetricsTypeOK
  BY DEF MetricsTypeOK, Places, Counters, NothingSeen
<1>2. CallerInv
  BY DEF CallerInv
<1>3. Entered = {} /\ Rejected = {} /\ Measured = {} /\ TimedOut = {}
  BY DEF Entered, Rejected, Measured, TimedOut
<1>4. CountInv
  BY <1>3, FS_EmptySet DEF CountInv, Counts
<1>5. ScrapeInv /\ RingInv
  BY DEF ScrapeInv, RingInv
<1> QED BY <1>1, <1>2, <1>4, <1>5 DEF MetricsInv

(* A counter stays the size of the set it counts when both stand still or  *)
(* one new member comes with an increment.                                 *)
LEMMA CountUp ==
  ASSUME NEW n, NEW S, Counts(n, S), NEW m, NEW T,
         \/ T = S /\ m = n
         \/ \E e : e \notin S /\ T = S \cup {e} /\ m = n + 1
  PROVE  Counts(m, T)
BY FS_AddElement DEF Counts

(* The next place of the ring, without the remainder. *)
LEMMA NextPlace ==
  ASSUME NEW W \in Nat \ {0}, NEW a \in 0..W - 1
  PROVE  (a + 1) % W = IF a + 1 = W THEN 0 ELSE a + 1
<1>1. CASE a + 1 = W
  BY <1>1
<1>2. CASE a + 1 # W
  BY <1>2
<1> QED BY <1>1, <1>2

(* A step of exec moves its own caller and nobody else. *)
LEMMA ExecTypes ==
  ASSUME MetricsInv, NEW c \in Callers, Exec(c)
  PROVE  /\ MetricsTypeOK' /\ CallerInv'
         /\ \A d \in Callers \ {c} : pc'[d] = pc[d] /\ err'[d] = err[d]
         /\ UNCHANGED <<spc, seen>>
         /\ busyCount' >= busyCount
<1> USE MetricsAssumption
    DEF MetricsInv, MetricsTypeOK, CallerInv, At, counts, window, scrape
<1>1. CASE Exec_Count(c)
  BY <1>1 DEF Exec_Count, Places
<1>2. CASE Exec_DoReturns(c)
  BY <1>2 DEF Exec_DoReturns, Places
<1>3. CASE Exec_Busy(c)
  BY <1>3 DEF Exec_Busy, Places
<1>4. CASE Exec_Total(c)
  BY <1>4 DEF Exec_Total, Places
<1>5. CASE Exec_Ring(c)
  <2>1. ringAt' \in 0..recentWindow - 1
    BY <1>5, NextPlace DEF Exec_Ring
  <2>2. ring' \in [0..recentWindow - 1 -> Nat] /\ ringN' \in Nat /\ recorded' \in Seq(Nat)
    BY <1>5 DEF Exec_Ring
  <2>3. pc' = [pc EXCEPT ![c] = IF err[c] = "deadline" THEN "timeout" ELSE "returned"]
    BY <1>5 DEF Exec_Ring
  <2> QED BY <1>5, <2>1, <2>2, <2>3 DEF Exec_Ring, Places
<1>6. CASE Exec_Timeout(c)
  BY <1>6 DEF Exec_Timeout, Places
<1> QED BY <1>1, <1>2, <1>3, <1>4, <1>5, <1>6 DEF Exec

(* ... and each counter moves with the caller that it counts. *)
LEMMA ExecCounts ==
  ASSUME MetricsInv, NEW c \in Callers, Exec(c)
  PROVE  CountInv'
<1> USE DEF MetricsInv, MetricsTypeOK, CallerInv, At, counts, window
<1>0. \A d \in Callers \ {c} : pc'[d] = pc[d] /\ err'[d] = err[d]
  BY ExecTypes
<1>1. CASE Exec_Count(c)
  <2>1. /\ pc[c] = "new" /\ pc'[c] = "do" /\ err' = err /\ requests' = requests + 1
        /\ UNCHANGED <<busyCount, timeouts, recorded>>
    BY <1>1 DEF Exec_Count
  <2>2. c \notin Entered /\ Entered' = Entered \cup {c}
    BY <1>0, <2>1 DEF Entered
  <2>3. UNCHANGED <<Rejected, Measured, TimedOut>>
    BY <1>0, <2>1 DEF Rejected, Measured, TimedOut
  <2> HIDE DEF Entered, Rejected, Measured, TimedOut
  <2> QED BY <2>1, <2>2, <2>3, CountUp DEF CountInv
<1>2. CASE Exec_DoReturns(c)
  <2>1. /\ pc[c] = "do" /\ pc'[c] = "total"
        /\ UNCHANGED <<requests, busyCount, timeouts, recorded>>
    BY <1>2 DEF Exec_DoReturns
  <2>2. UNCHANGED <<Entered, Rejected, Measured, TimedOut>>
    BY <1>0, <2>1 DEF Entered, Rejected, Measured, TimedOut
  <2> QED BY <2>1, <2>2, CountUp DEF CountInv
<1>3. CASE Exec_Busy(c)
  <2>1. /\ pc[c] = "total" /\ pc'[c] = "returned" /\ err' = err /\ err[c] = "busy"
        /\ busyCount' = busyCount + 1 /\ UNCHANGED <<requests, timeouts, recorded>>
    BY <1>3 DEF Exec_Busy
  <2>2. c \notin Rejected /\ Rejected' = Rejected \cup {c}
    BY <1>0, <2>1 DEF Rejected
  <2>3. UNCHANGED <<Entered, Measured, TimedOut>>
    BY <1>0, <2>1 DEF Entered, Measured, TimedOut
  <2> QED BY <2>1, <2>2, <2>3, CountUp DEF CountInv
<1>4. CASE Exec_Total(c)
  <2>1. /\ pc[c] = "total" /\ pc'[c] = "ring" /\ err' = err
        /\ UNCHANGED <<requests, busyCount, timeouts, recorded>>
    BY <1>4 DEF Exec_Total
  <2>2. UNCHANGED <<Entered, Rejected, Measured, TimedOut>>
    BY <1>0, <2>1 DEF Entered, Rejected, Measured, TimedOut
  <2> QED BY <2>1, <2>2, CountUp DEF CountInv
<1>5. CASE Exec_Ring(c)
  <2>1. /\ pc[c] = "ring" /\ err' = err /\ err[c] # "busy"
        /\ pc'[c] = IF err[c] = "deadline" THEN "timeout" ELSE "returned"
        /\ Len(recorded') = Len(recorded) + 1
        /\ UNCHANGED <<requests, busyCount, timeouts>>
    BY <1>5 DEF Exec_Ring
  <2>2. c \notin Measured /\ Measured' = Measured \cup {c}
    BY <1>0, <2>1 DEF Measured
  <2>3. UNCHANGED <<Entered, Rejected, TimedOut>>
    BY <1>0, <2>1 DEF Entered, Rejected, TimedOut
  <2> QED BY <2>1, <2>2, <2>3, CountUp DEF CountInv
<1>6. CASE Exec_Timeout(c)
  <2>1. /\ pc[c] = "timeout" /\ pc'[c] = "returned" /\ err' = err /\ err[c] = "deadline"
        /\ timeouts' = timeouts + 1 /\ UNCHANGED <<requests, busyCount, recorded>>
    BY <1>6 DEF Exec_Timeout
  <2>2. c \notin TimedOut /\ TimedOut' = TimedOut \cup {c}
    BY <1>0, <2>1 DEF TimedOut
  <2>3. UNCHANGED <<Entered, Rejected, Measured>>
    BY <1>0, <2>1 DEF Entered, Rejected, Measured
  <2> QED BY <2>1, <2>2, <2>3, CountUp DEF CountInv
<1> QED BY <1>1, <1>2, <1>3, <1>4, <1>5, <1>6 DEF Exec

(* A new latency overwrites the oldest one, once there are recentWindow of *)
(* them, and every other is one place further back.                        *)
LEMMA ExecRing ==
  ASSUME MetricsInv, NEW c \in Callers, Exec(c)
  PROVE  RingInv'
<1> USE MetricsAssumption
<1>1. CASE Exec_Ring(c)
  <2> DEFINE N == Len(recorded)
  <2>0. /\ N \in Nat /\ ringAt \in 0..recentWindow - 1 /\ recorded \in Seq(Nat)
        /\ ring \in [0..recentWindow - 1 -> Nat] /\ ringN = N
    BY DEF MetricsInv, MetricsTypeOK, RingInv
  <2>1. /\ ring' = [ring EXCEPT ![ringAt] = latency[c]]
        /\ ringAt' = (ringAt + 1) % recentWindow
        /\ ringN' = ringN + 1 /\ recorded' = Append(recorded, latency[c])
    BY <1>1 DEF Exec_Ring
  <2>2. ringAt' = IF ringAt + 1 = recentWindow THEN 0 ELSE ringAt + 1
    BY <2>0, <2>1, NextPlace
  <2>3. /\ Len(recorded') = N + 1 /\ recorded'[N + 1] = latency[c]
        /\ \A i \in 1..N : recorded'[i] = recorded[i]
    BY <2>0, <2>1
  <2>4. ASSUME NEW k \in 1..recentWindow, k <= N + 1
        PROVE  ring'[Back(k)'] = recorded'[N + 2 - k]
    <3>1. CASE k = 1
      <4>1. Back(k)' = ringAt
        BY <2>0, <2>2, <3>1 DEF Back
      <4> QED BY <2>0, <2>1, <2>3, <3>1, <4>1
    <3>2. CASE k > 1
      <4>1. k - 1 \in 1..recentWindow /\ k - 1 <= N /\ k - 1 < recentWindow
        BY <2>0, <2>4, <3>2
      <4>2. /\ Back(k)' = Back(k - 1) /\ Back(k - 1) # ringAt
            /\ Back(k - 1) \in 0..recentWindow - 1
        BY <2>0, <2>2, <3>2, <4>1 DEF Back
      <4>3. ring[Back(k - 1)] = recorded[N + 1 - (k - 1)]
        BY <4>1 DEF MetricsInv, RingInv
      <4>4. N + 2 - k \in 1..N /\ N + 1 - (k - 1) = N + 2 - k
        BY <2>0, <2>4, <3>2
      <4>5. ring'[Back(k - 1)] = ring[Back(k - 1)]
        BY <2>0, <2>1, <4>2
      <4> QED BY <2>3, <4>2, <4>3, <4>4, <4>5
    <3> QED BY <3>1, <3>2
  <2>5. ringN' < recentWindow => ringAt' = ringN'
    BY <2>0, <2>1, <2>2 DEF MetricsInv, RingInv
  <2> QED BY <2>0, <2>1, <2>3, <2>4, <2>5 DEF RingInv
<1>2. CASE ~Exec_Ring(c)
  <2>1. UNCHANGED <<ring, ringN, ringAt, recorded>>
    BY <1>2 DEF Exec, Exec_Count, Exec_DoReturns, Exec_Busy, Exec_Total, Exec_Timeout,
                counts, window
  <2> QED BY <2>1 DEF MetricsInv, RingInv, Back
<1> QED BY <1>1, <1>2

(* A rejected request has been counted as a request before. *)
LEMMA RejectedEntered ==
  ASSUME MetricsInv
  PROVE  busyCount <= requests
<1>1. Rejected \subseteq Entered
  BY DEF Rejected, Entered
<1> QED BY <1>1, FS_Subset DEF MetricsInv, CountInv, Counts

(* A scrape loads the rejections first: the requests that it loads next    *)
(* are at least as many.                                                   *)
LEMMA ScrapeKeeps ==
  ASSUME MetricsInv, Scrape_Load \/ Scrape_Respond
  PROVE  MetricsInv'
<1> USE DEF MetricsInv
<1>1. UNCHANGED <<counts, window, callers>>
  BY DEF Scrape_Load, Scrape_Respond
<1>2. CallerInv' /\ CountInv' /\ RingInv'
  BY <1>1 DEF CallerInv, CountInv, Counts, RingInv, Back, Entered, Rejected, Measured, TimedOut,
              counts, window, callers
<1>3. MetricsTypeOK' /\ ScrapeInv'
  <2>1. /\ LoadOrder = <<"busy", "requests", "total">> /\ Len(LoadOrder) = 3
        /\ busyCount <= requests
    BY RejectedEntered DEF LoadOrder
  <2>2. UNCHANGED <<requests, busyCount, totalNs, timeouts, ring, ringN, ringAt, recorded,
                    pc, latency, err>>
    BY <1>1 DEF counts, window, callers
  <2>3. CASE Scrape_Respond
    BY <2>1, <2>2, <2>3 DEF Scrape_Respond, NothingSeen, MetricsTypeOK, ScrapeInv, Counters
  <2>4. CASE Scrape_Load
    <3>1. CASE spc = 0
      <4>1. spc' = 1 /\ seen' = [seen EXCEPT !["busy"] = busyCount]
        BY <2>1, <2>4, <3>1 DEF Scrape_Load
      <4> QED BY <2>2, <4>1 DEF MetricsTypeOK, ScrapeInv, Counters
    <3>2. CASE spc = 1
      <4>1. spc' = 2 /\ seen' = [seen EXCEPT !["requests"] = requests]
        BY <2>1, <2>4, <3>2 DEF Scrape_Load
      <4> QED BY <2>1, <2>2, <3>2, <4>1 DEF MetricsTypeOK, ScrapeInv, Counters
    <3>3. CASE spc = 2
      <4>1. spc' = 3 /\ seen' = [seen EXCEPT !["total"] = totalNs]
        BY <2>1, <2>4, <3>3 DEF Scrape_Load
      <4> QED BY <2>2, <3>3, <4>1 DEF MetricsTypeOK, ScrapeInv, Counters
    <3>4. spc \in 0..2
      BY <2>1, <2>4 DEF Scrape_Load, MetricsTypeOK
    <3> QED BY <3>1, <3>2, <3>3, <3>4
  <2> QED BY <2>3, <2>4
<1> QED BY <1>2, <1>3

(* The invariant of the metrics. *)
THEOREM MetricsInvariance == MetricsSpec => []MetricsInv
<1>1. ASSUME MetricsInv, [MetricsNext]_metricsVars PROVE MetricsInv'
  <2>1. ASSUME NEW c \in Callers, Exec(c) PROVE MetricsInv'
    <3>1. ScrapeInv'
      <4>1. UNCHANGED <<spc, seen>> /\ busyCount' >= busyCount /\ MetricsTypeOK'
        BY <1>1, <2>1, ExecTypes
      <4>2. seen["busy"] \in Nat /\ busyCount \in Nat /\ busyCount' \in Nat
        BY <1>1, <4>1 DEF MetricsInv, MetricsTypeOK, Counters
      <4> QED BY <1>1, <4>1, <4>2 DEF MetricsInv, ScrapeInv
    <3> QED BY <1>1, <2>1, <3>1, ExecTypes, ExecCounts, ExecRing DEF MetricsInv
  <2>2. CASE UNCHANGED metricsVars
    BY <1>1, <2>2
    DEF MetricsInv, MetricsTypeOK, CallerInv, CountInv, Counts, ScrapeInv, RingInv, Back,
        Entered, Rejected, Measured, TimedOut, metricsVars, counts, window, callers, scrape
  <2> QED BY <1>1, <2>1, <2>2, ScrapeKeeps DEF MetricsNext
<1> QED BY <1>1, InitMetricsInv, PTL DEF MetricsSpec

(* However the loads of a scrape interleave with the requests, it reports  *)
(* no more busy rejections than requests (queue.go:574-579).               *)
THEOREM ScrapeCountsFit == MetricsSpec => []BusySeenWithinRequests
<1>1. MetricsInv => BusySeenWithinRequests
  BY DEF MetricsInv, MetricsTypeOK, ScrapeInv, BusySeenWithinRequests, Counters
<1> QED BY <1>1, MetricsInvariance, PTL

-----------------------------------------------------------------------------
(* Sums. *)

(* f lists the sums of the first 0, 1, ... values of s. *)
SumRun(f, s) ==
    /\ f \in [0..Len(s) -> Nat]
    /\ f[0] = 0 /\ SumSeq(s) = f[Len(s)]
    /\ \A i \in 1..Len(s) : f[i] = f[i - 1] + s[i]

(* The recursive function in SumSeq exists. *)
LEMMA SumTurns ==
  ASSUME NEW s \in Seq(Nat)
  PROVE  \E f : SumRun(f, s)
<1> DEFINE n == Len(s)
           g == [i \in 1..n |-> [x \in Nat |-> x + s[i]]]
           Turns(f) == f = [i \in 0..n |-> IF i = 0 THEN 0 ELSE f[i - 1] + s[i]]
           sum == CHOOSE f : Turns(f)
<1>0. n \in Nat /\ \A i \in 1..n : s[i] \in Nat
  OBVIOUS
<1>1. g \in [1..n -> [Nat -> Nat]] /\ \A x \in Nat, i \in 1..n : g[i][x] = x + s[i]
  BY <1>0
<1>2. PICK f \in [0..n -> Nat] : f[0] = 0 /\ \A i \in 1..n : f[i] = g[i][f[i - 1]]
  <2> HIDE DEF g, n
  <2>1. PICK f : Run(f, n, Nat, 0, g)
    BY <1>0, <1>1, Iterates
  <2> QED BY <2>1 DEF Run
<1>3. \A i \in 1..n : f[i] = f[i - 1] + s[i]
  <2> SUFFICES ASSUME NEW i \in 1..n PROVE f[i] = f[i - 1] + s[i]
    OBVIOUS
  <2> HIDE DEF g, n
  <2>1. i - 1 \in 0..n
    BY <1>0
  <2>2. f[i - 1] \in Nat
    BY <2>1
  <2> QED BY <1>1, <1>2, <2>2
<1>4. Turns(f)
  <2> SUFFICES ASSUME NEW i \in 0..n PROVE f[i] = IF i = 0 THEN 0 ELSE f[i - 1] + s[i]
    BY <1>2
  <2>1. i # 0 => i \in 1..n
    BY <1>0
  <2> QED BY <1>2, <1>3, <2>1
<1>5. Turns(sum)
  <2> HIDE DEF Turns
  <2> QED BY <1>4
<1>6. \A i \in 0..n : sum[i] = f[i]
  <2> DEFINE S == {i \in 0..n : sum[i] = f[i]}
  <2> HIDE DEF sum
  <2>1. 0 \in S
    BY <1>0, <1>2, <1>5
  <2>2. ASSUME NEW i \in 1..n, i - 1 \in S PROVE i \in S
    <3>1. i \in 0..n /\ i # 0 /\ sum[i - 1] = f[i - 1]
      BY <1>0, <2>2
    <3> QED BY <1>3, <1>5, <3>1
  <2>3. 0..n \subseteq S
    <3> HIDE DEF S
    <3> QED BY <1>0, <2>1, <2>2, UpTo
  <2> QED BY <2>3
<1>7. SumSeq(s) = sum[n]
  BY DEF SumSeq
<1>8. SumSeq(s) = f[n]
  <2>1. n \in 0..n
    BY <1>0
  <2> HIDE DEF sum, n
  <2> QED BY <1>6, <1>7, <2>1
<1> HIDE DEF sum
<1> QED BY <1>2, <1>3, <1>8 DEF SumRun

(* A sum is a natural, and a value more adds to it. *)
LEMMA SumAppend ==
  ASSUME NEW s \in Seq(Nat), NEW v \in Nat
  PROVE  SumSeq(s) \in Nat /\ SumSeq(Append(s, v)) = SumSeq(s) + v
<1> DEFINE n == Len(s)
           t == Append(s, v)
<1>1. /\ n \in Nat /\ t \in Seq(Nat) /\ Len(t) = n + 1 /\ t[n + 1] = v
      /\ \A i \in 1..n : t[i] = s[i] /\ s[i] \in Nat
  OBVIOUS
<1> HIDE DEF t
<1>2. PICK f : SumRun(f, s)
  BY SumTurns
<1>3. PICK h : SumRun(h, t)
  BY <1>1, SumTurns
<1> DEFINE S == {i \in 0..n : f[i] = h[i]}
<1>4. 0 \in S
  BY <1>1, <1>2, <1>3 DEF SumRun
<1>5. ASSUME NEW i \in 1..n, i - 1 \in S PROVE i \in S
  BY <1>1, <1>2, <1>3, <1>5 DEF SumRun
<1>6. 0..n \subseteq S
  <2> HIDE DEF S
  <2> QED BY <1>1, <1>4, <1>5, UpTo
<1>7. f[n] = h[n] /\ h[n + 1] = h[n] + v /\ f[n] \in Nat
  BY <1>1, <1>2, <1>3, <1>6 DEF SumRun
<1> QED BY <1>1, <1>2, <1>3, <1>7 DEF SumRun, t

(* A value that is replaced takes its own part of the sum away. *)
LEMMA SumChanged ==
  ASSUME NEW s \in Seq(Nat), NEW t \in Seq(Nat), Len(t) = Len(s), NEW k \in 1..Len(s),
         \A i \in 1..Len(s) : i # k => t[i] = s[i]
  PROVE  SumSeq(t) + s[k] = SumSeq(s) + t[k]
<1> DEFINE n == Len(s)
<1>1. n \in Nat /\ \A i \in 1..n : s[i] \in Nat /\ t[i] \in Nat
  OBVIOUS
<1>2. PICK f : SumRun(f, s)
  BY SumTurns
<1>3. PICK h : SumRun(h, t)
  BY SumTurns
<1>4. /\ f \in [0..n -> Nat] /\ f[0] = 0 /\ SumSeq(s) = f[n] /\ \A i \in 1..n : f[i] = f[i - 1] + s[i]
      /\ h \in [0..n -> Nat] /\ h[0] = 0 /\ SumSeq(t) = h[n] /\ \A i \in 1..n : h[i] = h[i - 1] + t[i]
  BY <1>2, <1>3 DEF SumRun
<1> DEFINE S == {i \in 0..n : IF i < k THEN f[i] = h[i] ELSE h[i] + s[k] = f[i] + t[k]}
<1>5. 0 \in S
  BY <1>1, <1>4
<1>6. ASSUME NEW i \in 1..n, i - 1 \in S PROVE i \in S
  <2>1. f[i - 1] \in Nat /\ h[i - 1] \in Nat /\ i \in 0..n /\ s[i] \in Nat /\ t[i] \in Nat
        /\ s[k] \in Nat /\ t[k] \in Nat /\ i \in Nat /\ k \in Nat
    <3>1. i - 1 \in 0..n /\ i \in 0..n /\ i \in Nat /\ k \in Nat
      BY <1>1
    <3> HIDE DEF n
    <3> QED BY <1>1, <1>4, <3>1 DEF n
  <2>2. f[i] = f[i - 1] + s[i] /\ h[i] = h[i - 1] + t[i]
    BY <1>4
  <2>3. CASE i < k
    <3>1. i - 1 < k /\ t[i] = s[i]
      BY <1>1, <2>3
    <3> QED BY <1>6, <2>1, <2>2, <2>3, <3>1
  <2>4. CASE i = k
    BY <1>6, <2>1, <2>2, <2>4
  <2>5. CASE i > k
    <3>1. ~(i - 1 < k) /\ t[i] = s[i]
      BY <1>1, <2>5
    <3>2. h[i - 1] + s[k] = f[i - 1] + t[k]
      BY <1>6, <3>1
    <3>4. (h[i - 1] + s[i]) + s[k] = (f[i - 1] + s[i]) + t[k]
      <4> DEFINE a == h[i - 1]
                 b == f[i - 1]
                 c == s[k]
                 d == t[k]
                 e == s[i]
      <4>1. a \in Nat /\ b \in Nat /\ c \in Nat /\ d \in Nat /\ e \in Nat /\ a + c = b + d
        BY <2>1, <3>2
      <4> HIDE DEF a, b, c, d, e
      <4>2. (a + e) + c = (b + e) + d
        BY <4>1
      <4> QED BY <4>2 DEF a, b, c, d, e
    <3>5. ~(i < k)
      BY <2>1, <2>5
    <3> QED BY <2>1, <2>2, <3>1, <3>4, <3>5
  <2> QED BY <1>1, <2>3, <2>4, <2>5
<1>7. 0..n \subseteq S
  <2> HIDE DEF S
  <2> QED BY <1>1, <1>5, <1>6, UpTo
<1>8. n \in S /\ ~(n < k)
  BY <1>1, <1>7
<1> QED BY <1>4, <1>8

(* The first value and the others make up the sum. *)
LEMMA SumShifted ==
  ASSUME NEW s \in Seq(Nat), NEW t \in Seq(Nat), Len(s) = Len(t) + 1,
         \A i \in 1..Len(t) : t[i] = s[i + 1]
  PROVE  SumSeq(s) = s[1] + SumSeq(t)
<1> DEFINE n == Len(t)
<1>1. n \in Nat /\ (\A i \in 1..n + 1 : s[i] \in Nat) /\ \A i \in 1..n : t[i] \in Nat
  OBVIOUS
<1>2. PICK f : SumRun(f, s)
  BY SumTurns
<1>3. PICK h : SumRun(h, t)
  BY SumTurns
<1>4. /\ f \in [0..n + 1 -> Nat] /\ f[0] = 0 /\ SumSeq(s) = f[n + 1]
      /\ \A i \in 1..n + 1 : f[i] = f[i - 1] + s[i]
      /\ h \in [0..n -> Nat] /\ h[0] = 0 /\ SumSeq(t) = h[n] /\ \A i \in 1..n : h[i] = h[i - 1] + t[i]
  BY <1>2, <1>3 DEF SumRun
<1> DEFINE S == {i \in 0..n : f[i + 1] = s[1] + h[i]}
<1>5. 0 \in S
  <2>1. 1 \in 1..n + 1 /\ 0 \in 0..n /\ 1 - 1 = 0 /\ 0 + 1 = 1
    BY <1>1
  <2> QED BY <1>1, <1>4, <2>1
<1>6. ASSUME NEW i \in 1..n, i - 1 \in S PROVE i \in S
  <2>1. i + 1 \in 1..n + 1 /\ (i + 1) - 1 = i /\ (i - 1) + 1 = i /\ i \in 0..n /\ i - 1 \in 0..n
    BY <1>1
  <2>2. f[i + 1] = f[i] + s[i + 1] /\ h[i] = h[i - 1] + t[i] /\ f[i] = s[1] + h[i - 1]
    BY <1>4, <1>6, <2>1
  <2>3. t[i] = s[i + 1] /\ s[1] \in Nat /\ h[i - 1] \in Nat /\ t[i] \in Nat
    <3>1. 1 \in 1..n + 1
      BY <1>1
    <3>2. h[i - 1] \in Nat
      <4> HIDE DEF n
      <4> QED BY <1>4, <2>1
    <3>3. t[i] \in Nat
      BY <1>1, <1>6
    <3>4. s[1] \in Nat
      BY <1>1, <3>1
    <3>5. t[i] = s[i + 1]
      BY <1>6
    <3> QED BY <3>2, <3>3, <3>4, <3>5
  <2>4. f[i + 1] = s[1] + h[i]
    <3> HIDE DEF S, n
    <3> QED BY <2>2, <2>3
  <2> QED BY <2>1, <2>4
<1>7. 0..n \subseteq S
  <2> HIDE DEF S
  <2> QED BY <1>1, <1>5, <1>6, UpTo
<1>8. f[n + 1] = s[1] + h[n]
  <2>1. n \in S
    BY <1>1, <1>7
  <2> QED BY <2>1
<1> QED BY <1>4, <1>8

(* What the requests p, in this order, have added to totalNs. *)
Added(p) == [i \in 1..Len(p) |-> latency[p[i]]]

(* p lists the requests that have added to totalNs and are not in the ring *)
(* yet: their latencies and the recorded ones make up totalNs.             *)
Pending(p) ==
    /\ p \in Seq(Callers)
    /\ \A i, j \in 1..Len(p) : p[i] = p[j] => i = j
    /\ \A c \in Callers : pc[c] = "ring" <=> \E i \in 1..Len(p) : p[i] = c
    /\ totalNs = SumSeq(recorded) + SumSeq(Added(p))

SumInv == RecentIsTail /\ \E p : Pending(p)

(* The empty sum. *)
LEMMA SumEmpty == SumSeq(<<>>) = 0
<1>1. <<>> \in Seq(Nat) /\ Len(<<>>) = 0
  OBVIOUS
<1>2. PICK f : SumRun(f, <<>>)
  BY <1>1, SumTurns
<1> QED BY <1>1, <1>2 DEF SumRun

(* Nothing has been added at first. *)
LEMMA InitSumInv == MetricsInit => SumInv
<1> SUFFICES ASSUME MetricsInit PROVE SumInv
  OBVIOUS
<1>1. /\ ringN = 0 /\ recorded = <<>> /\ totalNs = 0 /\ \A c \in Callers : pc[c] = "new"
      /\ recentWindow \in Nat \ {0}
  BY MetricsAssumption DEF MetricsInit
<1>2. RecentIsTail
  <2>1. RecentCount = 0
    BY <1>1 DEF RecentCount
  <2>2. [i \in 1..0 |-> ring[i - 1]] = <<>> /\ SubSeq(<<>>, 0 - 0 + 1, 0) = <<>> /\ Len(<<>>) = 0
    OBVIOUS
  <2> QED BY <1>1, <2>1, <2>2 DEF RecentIsTail, RecentSum
<1>3. Pending(<<>>)
  <2>1. Added(<<>>) = <<>>
    BY DEF Added
  <2> QED BY <1>1, <2>1, SumEmpty DEF Pending
<1> QED BY <1>2, <1>3 DEF SumInv

(* The latencies of requests are a sequence of naturals. *)
LEMMA AddedIs ==
  ASSUME NEW p \in Seq(Callers), latency \in [Callers -> Nat]
  PROVE  /\ Len(p) \in Nat /\ (\A i \in 1..Len(p) : p[i] \in Callers)
         /\ Added(p) \in Seq(Nat) /\ Len(Added(p)) = Len(p)
         /\ \A i \in 1..Len(p) : Added(p)[i] = latency[p[i]]
<1>1. Len(p) \in Nat /\ \A i \in 1..Len(p) : p[i] \in Callers
  OBVIOUS
<1> QED BY <1>1 DEF Added

(* A request that enters the ring leaves the list, wherever it was in it.  *)
LEMMA Unlisted ==
  ASSUME NEW p \in Seq(Callers), latency \in [Callers -> Nat], NEW k \in 1..Len(p),
         \A i, j \in 1..Len(p) : p[i] = p[j] => i = j
  PROVE  \E q \in Seq(Callers) :
            /\ \A i, j \in 1..Len(q) : q[i] = q[j] => i = j
            /\ \A c : (\E i \in 1..Len(q) : q[i] = c) <=> (c # p[k] /\ \E i \in 1..Len(p) : p[i] = c)
            /\ SumSeq(Added(q)) + latency[p[k]] = SumSeq(Added(p))
<1> DEFINE n == Len(p)
           q == [i \in 1..n - 1 |-> IF i = k THEN p[n] ELSE p[i]]
           s == Added(p)
           t == [s EXCEPT ![k] = s[n]]
<1>1. /\ n \in Nat /\ k \in 1..n /\ (\A i \in 1..n : p[i] \in Callers)
      /\ n \in 1..n /\ n - 1 \in Nat
      /\ s \in Seq(Nat) /\ Len(s) = n /\ \A i \in 1..n : s[i] = latency[p[i]]
  BY AddedIs
<1>2. /\ q \in Seq(Callers) /\ Len(q) = n - 1
      /\ \A i \in 1..n - 1 : q[i] = IF i = k THEN p[n] ELSE p[i]
  <2>1. \A i \in 1..n - 1 : i \in 1..n
    BY <1>1
  <2> HIDE DEF n
  <2> QED BY <1>1, <2>1
<1> HIDE DEF q
<1>3. \A i, j \in 1..Len(q) : q[i] = q[j] => i = j
  <2> SUFFICES ASSUME NEW i \in 1..Len(q), NEW j \in 1..Len(q), q[i] = q[j] PROVE i = j
    OBVIOUS
  <2>1. \A a \in 1..Len(q) : a \in 1..n - 1 /\ a \in 1..n /\ a # n
    <3>1. \A a \in 1..n - 1 : a \in 1..n /\ a # n
      BY <1>1
    <3>2. 1..Len(q) = 1..n - 1
      BY <1>2
    <3> HIDE DEF n
    <3> QED BY <3>1, <3>2
  <2>2. \A a, b \in 1..n : p[a] = p[b] => a = b
    OBVIOUS
  <2>3. q[i] = (IF i = k THEN p[n] ELSE p[i]) /\ q[j] = (IF j = k THEN p[n] ELSE p[j])
    BY <1>2, <2>1
  <2> HIDE DEF n, s, t
  <2> QED BY <1>1, <2>1, <2>2, <2>3
<1>4. ASSUME NEW c
      PROVE  (\E i \in 1..Len(q) : q[i] = c) <=> (c # p[k] /\ \E i \in 1..n : p[i] = c)
  <2>1. ASSUME NEW i \in 1..n, p[i] = c, c # p[k] PROVE \E j \in 1..Len(q) : q[j] = c
    <3>1. CASE i = n
      <4>1. k # n /\ k \in 1..n - 1
        BY <1>1, <2>1, <3>1
      <4>2. q[k] = c
        BY <1>2, <2>1, <3>1, <4>1
      <4> HIDE DEF n
      <4> QED BY <1>2, <4>1, <4>2
    <3>2. CASE i # n
      <4>1. i # k /\ i \in 1..n - 1
        BY <1>1, <2>1, <3>2
      <4>2. q[i] = c
        BY <1>2, <2>1, <4>1
      <4> HIDE DEF n
      <4> QED BY <1>2, <4>1, <4>2
    <3> QED BY <3>1, <3>2
  <2>2. ASSUME NEW i \in 1..Len(q), q[i] = c PROVE c # p[k] /\ \E j \in 1..n : p[j] = c
    <3>1. i \in 1..n - 1 /\ i \in 1..n /\ i # n
      <4>1. \A a \in 1..n - 1 : a \in 1..n /\ a # n
        BY <1>1
      <4>2. 1..Len(q) = 1..n - 1
        BY <1>2
      <4> HIDE DEF n
      <4> QED BY <4>1, <4>2
    <3>2. CASE i = k
      <4>1. p[n] = c /\ k # n
        BY <1>2, <2>2, <3>1, <3>2
      <4> HIDE DEF n
      <4> QED BY <1>1, <4>1 DEF n
    <3>3. CASE i # k
      <4>1. p[i] = c
        BY <1>2, <2>2, <3>1, <3>3
      <4> HIDE DEF n
      <4> QED BY <1>1, <3>1, <3>3, <4>1 DEF n
    <3> QED BY <3>2, <3>3
  <2> QED BY <2>1, <2>2
<1>5. /\ t \in Seq(Nat) /\ Len(t) = n /\ t[k] = s[n] /\ \A i \in 1..n : i # k => t[i] = s[i]
  <2> HIDE DEF s, n
  <2> QED BY <1>1
<1>6. SumSeq(t) + s[k] = SumSeq(s) + s[n]
  <2>1. /\ s \in Seq(Nat) /\ t \in Seq(Nat) /\ Len(t) = Len(s) /\ k \in 1..Len(s)
        /\ \A i \in 1..Len(s) : i # k => t[i] = s[i]
    BY <1>1, <1>5
  <2> HIDE DEF s, t, n
  <2>2. SumSeq(t) + s[k] = SumSeq(s) + t[k]
    BY <2>1, SumChanged
  <2> QED BY <1>5, <2>2
<1>7. /\ Added(q) \in Seq(Nat) /\ Len(Added(q)) = n - 1
      /\ \A i \in 1..n - 1 : Added(q)[i] = latency[q[i]]
  BY <1>2, AddedIs
<1>8. t = Append(Added(q), s[n])
  <2> DEFINE u == Append(Added(q), s[n])
  <2>1. s[n] \in Nat
    BY <1>1
  <2>2. /\ u \in Seq(Nat) /\ Len(u) = n /\ u[n] = s[n]
        /\ \A i \in 1..n - 1 : u[i] = Added(q)[i]
    <3> HIDE DEF s, n
    <3> QED BY <1>1, <1>7, <2>1
  <2> HIDE DEF u
  <2>3. ASSUME NEW i \in 1..n PROVE t[i] = u[i]
    <3>1. CASE i = n
      BY <1>1, <1>5, <2>2, <3>1
    <3>2. CASE i # n
      <4>1. i \in 1..n - 1
        BY <1>1, <3>2
      <4>2. u[i] = latency[q[i]]
        BY <1>7, <2>2, <4>1
      <4>3. CASE i = k
        BY <1>1, <1>2, <1>5, <4>1, <4>2, <4>3
      <4>4. CASE i # k
        BY <1>1, <1>2, <1>5, <4>1, <4>2, <4>4
      <4> QED BY <4>3, <4>4
    <3> QED BY <3>1, <3>2
  <2> HIDE DEF t, s, n
  <2> QED BY <1>5, <2>2, <2>3 DEF u
<1>9. SumSeq(t) = SumSeq(Added(q)) + s[n] /\ SumSeq(Added(q)) \in Nat /\ s[n] \in Nat
  <2>1. s[n] \in Nat
    BY <1>1
  <2> HIDE DEF t, s, n
  <2> QED BY <1>7, <1>8, <2>1, SumAppend
<1>10. SumSeq(s) \in Nat /\ s[k] \in Nat
  <2> HIDE DEF s
  <2> QED BY <1>1, SumAppend
<1>11. SumSeq(Added(q)) + s[k] = SumSeq(s)
  <2> DEFINE a == SumSeq(t)
             b == SumSeq(Added(q))
             d == SumSeq(s)
             e == s[k]
             g == s[n]
  <2>1. /\ a + e = d + g /\ a = b + g
        /\ b \in Nat /\ d \in Nat /\ e \in Nat /\ g \in Nat
    BY <1>6, <1>9, <1>10
  <2> HIDE DEF a, b, d, e, g
  <2>2. b + e = d
    BY <2>1
  <2> QED BY <2>2 DEF b, d, e
<1> QED BY <1>1, <1>2, <1>3, <1>4, <1>11

(* A step that leaves the latencies and the places of the requests in and  *)
(* out of "ring" alone leaves the sums alone.                              *)
LEMMA SumsStay ==
  ASSUME SumInv, UNCHANGED <<totalNs, ring, ringN, recorded>>,
         \A c \in Callers : (pc'[c] = "ring" <=> pc[c] = "ring")
                            /\ (pc[c] = "ring" => latency'[c] = latency[c])
  PROVE  SumInv'
<1>1. RecentIsTail'
  BY DEF SumInv, RecentIsTail, RecentSum, RecentCount
<1>2. PICK p : Pending(p)
  BY DEF SumInv
<1>3. Added(p)' = Added(p)
  <2>1. \A i \in 1..Len(p) : p[i] \in Callers /\ pc[p[i]] = "ring"
    BY <1>2 DEF Pending
  <2> QED BY <2>1 DEF Added
<1>4. Pending(p)'
  BY <1>2, <1>3 DEF Pending
<1> QED BY <1>1, <1>4 DEF SumInv

(* A latency that is recorded takes the place of the oldest one, if the    *)
(* ring is full, in the ring and among the last recentWindow.              *)
LEMMA RecentStays ==
  ASSUME MetricsInv, RecentIsTail, NEW c \in Callers, Exec_Ring(c)
  PROVE  RecentIsTail'
<1> DEFINE v == latency[c]
           n == Len(recorded)
           W == recentWindow
           a == [i \in 1..RecentCount |-> ring[i - 1]]
           b == SubSeq(recorded, n - RecentCount + 1, n)
           a1 == [i \in 1..RecentCount' |-> ring'[i - 1]]
           b1 == SubSeq(recorded', Len(recorded') - RecentCount' + 1, Len(recorded'))
<1>1. /\ ring \in [0..W - 1 -> Nat] /\ recorded \in Seq(Nat) /\ n \in Nat /\ ringN = n
      /\ v \in Nat /\ W \in Nat \ {0} /\ ringAt \in 0..W - 1
      /\ n < W => ringAt = n
      /\ \A k \in 1..W : k <= n => ring[Back(k)] = recorded[n + 1 - k]
  BY MetricsAssumption DEF MetricsInv, MetricsTypeOK, RingInv
<1>2. ring' = [ring EXCEPT ![ringAt] = v] /\ ringN' = n + 1 /\ recorded' = Append(recorded, v)
  BY <1>1 DEF Exec_Ring
<1>3. /\ Len(recorded') = n + 1 /\ recorded' \in Seq(Nat) /\ recorded'[n + 1] = v
      /\ \A i \in 1..n : recorded'[i] = recorded[i] /\ recorded[i] \in Nat
  <2>1. recorded \in Seq(Nat) /\ v \in Nat /\ recorded' = Append(recorded, v)
    BY <1>1, <1>2
  <2> HIDE DEF v
  <2> QED BY <2>1
<1>4. SumSeq(a) = SumSeq(b)
  BY DEF RecentIsTail, RecentSum
<1>5. SUFFICES SumSeq(a1) = SumSeq(b1)
  BY DEF RecentIsTail, RecentSum
<1> HIDE DEF v
<1>6. CASE n < W
  <2>1. RecentCount = n /\ RecentCount' = n + 1 /\ ringAt = n
    BY <1>1, <1>2, <1>6 DEF RecentCount
  <2>2. a \in Seq(Nat) /\ Len(a) = n /\ \A i \in 1..n : a[i] = ring[i - 1]
    <3>1. \A i \in 1..n : i - 1 \in 0..W - 1
      BY <1>1, <1>6
    <3> HIDE DEF n, W
    <3> QED BY <1>1, <2>1, <3>1
  <2>3. a1 \in Seq(Nat) /\ Len(a1) = n + 1 /\ \A i \in 1..n + 1 : a1[i] = ring'[i - 1]
    <3>1. \A i \in 1..n + 1 : i - 1 \in 0..W - 1
      BY <1>1, <1>6
    <3>2. ring' \in [0..W - 1 -> Nat]
      BY <1>1, <1>2
    <3> HIDE DEF n, W
    <3> QED BY <1>1, <2>1, <3>1, <3>2
  <2>4. a1 = Append(a, v)
    <3> DEFINE u == Append(a, v)
    <3> HIDE DEF a, a1
    <3>1. u \in Seq(Nat) /\ Len(u) = n + 1 /\ u[n + 1] = v /\ \A i \in 1..n : u[i] = a[i]
      BY <1>1, <2>2
    <3>2. ASSUME NEW i \in 1..n + 1 PROVE a1[i] = u[i]
      <4>1. i - 1 \in 0..W - 1
        BY <1>1, <1>6
      <4>2. CASE i = n + 1
        BY <1>1, <1>2, <2>1, <2>3, <3>1, <4>1, <4>2
      <4>3. CASE i # n + 1
        <5>1. i \in 1..n /\ i - 1 # ringAt
          BY <1>1, <2>1, <4>3
        <5> QED BY <1>1, <1>2, <2>2, <2>3, <3>1, <4>1, <5>1
      <4> QED BY <4>2, <4>3
    <3> HIDE DEF u, n
    <3>3. a1 = u
      <4>1. Len(a1) = Len(u) /\ \A i \in 1..Len(a1) : a1[i] = u[i]
        BY <2>3, <3>1, <3>2
      <4> QED BY <2>3, <3>1, <4>1, SeqEqual
    <3> QED BY <3>3 DEF u
  <2>5. b = recorded /\ b1 = recorded'
    <3>1. n - RecentCount + 1 = 1 /\ Len(recorded') - RecentCount' + 1 = 1
      BY <1>1, <1>3, <2>1
    <3>2. SubSeq(recorded, 1, n) = recorded
      BY <1>1, SubSeqFull
    <3>3. SubSeq(recorded', 1, Len(recorded')) = recorded'
      BY <1>3, SubSeqFull
    <3> HIDE DEF n
    <3> QED BY <3>1, <3>2, <3>3
  <2> HIDE DEF a, a1, b, b1
  <2> QED BY <1>1, <1>2, <1>4, <2>2, <2>4, <2>5, SumAppend
<1>7. CASE ~(n < W)
  <2>1. RecentCount = W /\ RecentCount' = W
    BY <1>1, <1>2, <1>7 DEF RecentCount
  <2>2. a \in Seq(Nat) /\ Len(a) = W /\ \A i \in 1..W : a[i] = ring[i - 1]
    <3>1. \A i \in 1..W : i - 1 \in 0..W - 1
      BY <1>1
    <3> HIDE DEF n, W
    <3> QED BY <1>1, <2>1, <3>1
  <2>3. a1 \in Seq(Nat) /\ Len(a1) = W /\ \A i \in 1..W : a1[i] = ring'[i - 1]
    <3>1. \A i \in 1..W : i - 1 \in 0..W - 1
      BY <1>1
    <3>2. ring' \in [0..W - 1 -> Nat]
      BY <1>1, <1>2
    <3> HIDE DEF n, W
    <3> QED BY <1>1, <2>1, <3>1, <3>2
  <2>4. /\ ringAt + 1 \in 1..W /\ a[ringAt + 1] = ring[ringAt] /\ a1[ringAt + 1] = v
        /\ \A i \in 1..W : i # ringAt + 1 => a1[i] = a[i]
    <3>1. ringAt + 1 \in 1..W /\ (ringAt + 1) - 1 = ringAt
          /\ \A i \in 1..W : i - 1 \in 0..W - 1 /\ (i # ringAt + 1 => i - 1 # ringAt)
      BY <1>1
    <3> HIDE DEF a, a1, W
    <3> QED BY <1>1, <1>2, <2>2, <2>3, <3>1
  <2>5. SumSeq(a1) + ring[ringAt] = SumSeq(a) + v
    <3> DEFINE k == ringAt + 1
    <3>0. /\ Len(a1) = Len(a) /\ k \in 1..Len(a)
          /\ \A i \in 1..Len(a) : i # k => a1[i] = a[i]
      BY <2>2, <2>3, <2>4
    <3> HIDE DEF a, a1, k
    <3>1. SumSeq(a1) + a[k] = SumSeq(a) + a1[k]
      BY <2>2, <2>3, <3>0, SumChanged
    <3> QED BY <2>4, <3>1 DEF k
  <2>6. /\ b \in Seq(Nat) /\ Len(b) = W /\ \A i \in 1..W : b[i] = recorded[n - W + i]
    <3>1. /\ \A i \in 1..W : n - W + i \in 1..n /\ n - W + 1 + i - 1 = n - W + i
          /\ n - W + 1 \in Int /\ n \in Int /\ n - (n - W + 1) + 1 = W /\ n - W + 1 <= n
          /\ \A i \in n - W + 1..n : i \in 1..n
      BY <1>1, <1>7
    <3>2. \A i \in n - W + 1..n : recorded[i] \in Nat
      BY <1>3, <3>1
    <3>3. b = SubSeq(recorded, n - W + 1, n)
      BY <2>1
    <3> HIDE DEF n, W, b
    <3>4. /\ b \in Seq(Nat) /\ Len(b) = W
          /\ \A i \in 1..W : b[i] = recorded[n - W + 1 + i - 1]
      BY <3>1, <3>2, <3>3, SubSeqProperties
    <3> QED BY <3>1, <3>4
  <2>7. /\ b1 \in Seq(Nat) /\ Len(b1) = W /\ \A i \in 1..W : b1[i] = recorded'[n - W + 1 + i]
    <3>1. /\ \A i \in 1..W : n - W + 1 + i \in 1..n + 1 /\ n + 1 - W + 1 + i - 1 = n - W + 1 + i
          /\ n + 1 - W + 1 \in Int /\ n + 1 \in Int /\ n + 1 - (n + 1 - W + 1) + 1 = W
          /\ n + 1 - W + 1 <= n + 1 /\ \A i \in n + 1 - W + 1..n + 1 : i \in 1..n + 1
      BY <1>1, <1>7
    <3>2. \A i \in n + 1 - W + 1..n + 1 : recorded'[i] \in Nat
      <4>1. \A i \in 1..n + 1 : recorded'[i] \in Nat
        BY <1>3
      <4> HIDE DEF n, W
      <4> QED BY <3>1, <4>1
    <3>3. b1 = SubSeq(recorded', n + 1 - W + 1, n + 1)
      <4>1. Len(recorded') - RecentCount' + 1 = n + 1 - W + 1 /\ Len(recorded') = n + 1
        <5> HIDE DEF n, W
        <5> QED BY <1>1, <1>3, <2>1
      <4> HIDE DEF n, W
      <4> QED BY <4>1
    <3> DEFINE lo == n + 1 - W + 1
               hi == n + 1
    <3>4. /\ lo \in Int /\ hi \in Int /\ lo <= hi /\ hi - lo + 1 = W
          /\ (\A i \in lo..hi : recorded'[i] \in Nat) /\ b1 = SubSeq(recorded', lo, hi)
          /\ \A i \in 1..W : lo + i - 1 = n - W + 1 + i
      <4> HIDE DEF n, W, b1
      <4>1. \A i \in 1..W : lo + i - 1 = n - W + 1 + i
        BY <1>1, <3>1
      <4>2. lo \in Int /\ hi \in Int /\ lo <= hi /\ hi - lo + 1 = W
        BY <1>1, <3>1
      <4>3. b1 = SubSeq(recorded', lo, hi) /\ \A i \in lo..hi : recorded'[i] \in Nat
        BY <3>2, <3>3
      <4> QED BY <4>1, <4>2, <4>3
    <3> HIDE DEF n, W, b1, lo, hi
    <3>5. /\ b1 \in Seq(Nat) /\ Len(b1) = W
          /\ \A i \in 1..W : b1[i] = recorded'[lo + i - 1]
      BY <3>4, SubSeqProperties
    <3> QED BY <3>4, <3>5
  <2> DEFINE u == Append(b, v)
  <2> HIDE DEF a, a1, b, b1
  <2>8. /\ u \in Seq(Nat) /\ Len(u) = W + 1 /\ u[W + 1] = v /\ \A i \in 1..W : u[i] = b[i]
    <3> HIDE DEF W
    <3> QED BY <1>1, <2>6
  <2>9. ASSUME NEW i \in 1..W PROVE b1[i] = u[i + 1]
    <3>1. CASE i = W
      <4>1. n - W + 1 + i = n + 1
        BY <1>1, <3>1
      <4> QED BY <1>3, <2>7, <2>8, <3>1, <4>1
    <3>2. CASE i # W
      <4>1. i + 1 \in 1..W /\ n - W + (i + 1) = n - W + 1 + i /\ n - W + 1 + i \in 1..n
        BY <1>1, <1>7, <3>2
      <4>2. u[i + 1] = recorded[n - W + (i + 1)]
        BY <2>6, <2>8, <4>1
      <4>3. b1[i] = recorded'[n - W + 1 + i]
        BY <2>7
      <4> HIDE DEF n, W
      <4> QED BY <1>3, <4>1, <4>2, <4>3
    <3> QED BY <3>1, <3>2
  <2>10. u[1] = ring[ringAt]
    <3>1. 1 \in 1..W /\ W \in 1..W /\ W <= n /\ Back(W) = ringAt /\ n + 1 - W = n - W + 1
      BY <1>1, <1>7 DEF Back
    <3> HIDE DEF u, n, W
    <3>2. u[1] = recorded[n - W + 1]
      BY <2>6, <2>8, <3>1
    <3>3. ring[Back(W)] = recorded[n + 1 - W]
      BY <1>1, <3>1
    <3> QED BY <3>1, <3>2, <3>3
  <2> HIDE DEF u, n, W
  <2>11. SumSeq(u) = u[1] + SumSeq(b1)
    BY <2>7, <2>8, <2>9, SumShifted
  <2>12. SumSeq(u) = SumSeq(b) + v /\ SumSeq(b) \in Nat /\ SumSeq(b1) \in Nat /\ SumSeq(a1) \in Nat
    BY <1>1, <2>3, <2>6, <2>7, SumAppend DEF u
  <2>13. ring[ringAt] \in Nat
    BY <1>1
  <2> QED BY <1>1, <1>4, <2>5, <2>10, <2>11, <2>12, <2>13
<1> QED BY <1>6, <1>7

(* A request that adds to totalNs joins the list, and leaves it when it    *)
(* records its latency.                                                    *)
LEMMA SumsKept ==
  ASSUME MetricsInv, SumInv, NEW c \in Callers, Exec(c)
  PROVE  SumInv'
<1>1. /\ pc \in [Callers -> Places] /\ latency \in [Callers -> Nat] /\ totalNs \in Nat
      /\ recorded \in Seq(Nat)
  BY DEF MetricsInv, MetricsTypeOK
<1>2. PICK p : Pending(p)
  BY DEF SumInv
<1>3. /\ p \in Seq(Callers) /\ Len(p) \in Nat
      /\ \A i, j \in 1..Len(p) : p[i] = p[j] => i = j
      /\ \A d \in Callers : pc[d] = "ring" <=> \E i \in 1..Len(p) : p[i] = d
      /\ totalNs = SumSeq(recorded) + SumSeq(Added(p))
      /\ Added(p) \in Seq(Nat) /\ SumSeq(Added(p)) \in Nat /\ SumSeq(recorded) \in Nat
  BY <1>1, <1>2, AddedIs, SumAppend DEF Pending
<1>4. CASE Exec_Total(c)
  <2> DEFINE q == Append(p, c)
  <2>1. /\ pc[c] = "total" /\ pc' = [pc EXCEPT ![c] = "ring"] /\ totalNs' = totalNs + latency[c]
        /\ UNCHANGED <<ring, ringN, recorded, latency>>
    BY <1>4 DEF Exec_Total, At, window
  <2>2. RecentIsTail'
    BY <2>1 DEF SumInv, RecentIsTail, RecentSum, RecentCount
  <2>3. /\ q \in Seq(Callers) /\ Len(q) = Len(p) + 1 /\ q[Len(p) + 1] = c
        /\ \A i \in 1..Len(p) : q[i] = p[i] /\ q[i] # c
    <3>1. \A i \in 1..Len(p) : p[i] # c
      BY <1>3, <2>1
    <3> QED BY <1>3, <3>1
  <2> HIDE DEF q
  <2>4. \A i \in 1..Len(q) : i = Len(p) + 1 \/ i \in 1..Len(p)
    BY <1>3, <2>3
  <2>5. \A i, j \in 1..Len(q) : q[i] = q[j] => i = j
    BY <1>3, <2>3, <2>4
  <2>6. ASSUME NEW d \in Callers PROVE pc'[d] = "ring" <=> \E i \in 1..Len(q) : q[i] = d
    <3>1. Len(p) + 1 \in 1..Len(q) /\ \A i \in 1..Len(p) : i \in 1..Len(q)
      BY <1>3, <2>3
    <3>2. CASE d = c
      BY <1>1, <2>1, <2>3, <3>1, <3>2
    <3>3. CASE d # c
      <4>1. pc'[d] = pc[d]
        BY <1>1, <2>1, <3>3
      <4> QED BY <1>3, <2>3, <2>4, <3>1, <3>3, <4>1
    <3> QED BY <3>2, <3>3
  <2>7. Added(q)' = Append(Added(p), latency[c])
    <3>1. /\ Added(q) \in Seq(Nat) /\ Len(Added(q)) = Len(q)
          /\ \A i \in 1..Len(q) : Added(q)[i] = latency[q[i]]
      BY <1>1, <2>3, AddedIs
    <3>2. Len(Added(p)) = Len(p) /\ \A i \in 1..Len(p) : Added(p)[i] = latency[p[i]]
      BY <1>1, <1>3, AddedIs
    <3> DEFINE u == Append(Added(p), latency[c])
    <3>3. /\ u \in Seq(Nat) /\ Len(u) = Len(p) + 1 /\ u[Len(p) + 1] = latency[c]
          /\ \A i \in 1..Len(p) : u[i] = latency[p[i]]
      BY <1>1, <1>3, <3>2
    <3> HIDE DEF u
    <3>4. ASSUME NEW i \in 1..Len(q) PROVE Added(q)[i] = u[i]
      <4>1. Added(q)[i] = latency[q[i]]
        BY <3>1
      <4>2. CASE i = Len(p) + 1
        BY <2>3, <3>3, <4>1, <4>2
      <4>3. CASE i \in 1..Len(p)
        BY <2>3, <3>3, <4>1, <4>3
      <4> QED BY <2>4, <4>2, <4>3
    <3>5. Added(q) = u
      <4>1. Len(Added(q)) = Len(u) /\ \A i \in 1..Len(Added(q)) : Added(q)[i] = u[i]
        BY <2>3, <3>1, <3>3, <3>4
      <4> QED BY <3>1, <3>3, <4>1, SeqEqual
    <3>6. Added(q)' = Added(q)
      BY <2>1 DEF Added
    <3> QED BY <3>5, <3>6 DEF u
  <2>8. SumSeq(Added(q)') = SumSeq(Added(p)) + latency[c] /\ latency[c] \in Nat
    BY <1>1, <1>3, <2>7, SumAppend
  <2>9. totalNs' = SumSeq(recorded') + SumSeq(Added(q)')
    BY <1>3, <2>1, <2>8
  <2>10. Pending(q)'
    BY <2>3, <2>5, <2>6, <2>9 DEF Pending
  <2> QED BY <2>2, <2>10 DEF SumInv
<1>5. CASE Exec_Ring(c)
  <2>1. /\ pc[c] = "ring" /\ pc'[c] # "ring" /\ \A d \in Callers : d # c => pc'[d] = pc[d]
        /\ UNCHANGED <<totalNs, latency>> /\ recorded' = Append(recorded, latency[c])
    BY <1>1, <1>5 DEF Exec_Ring, At, counts
  <2>2. RecentIsTail'
    BY <1>5, RecentStays DEF SumInv
  <2>3. PICK k \in 1..Len(p) : p[k] = c
    BY <1>3, <2>1
  <2>4. PICK q \in Seq(Callers) :
           /\ \A i, j \in 1..Len(q) : q[i] = q[j] => i = j
           /\ \A d : (\E i \in 1..Len(q) : q[i] = d) <=> (d # p[k] /\ \E i \in 1..Len(p) : p[i] = d)
           /\ SumSeq(Added(q)) + latency[p[k]] = SumSeq(Added(p))
    BY <1>1, <1>3, Unlisted
  <2>5. ASSUME NEW d \in Callers PROVE pc'[d] = "ring" <=> \E i \in 1..Len(q) : q[i] = d
    <3>1. (\E i \in 1..Len(q) : q[i] = d) <=> (d # c /\ \E i \in 1..Len(p) : p[i] = d)
      BY <2>3, <2>4
    <3>2. pc[d] = "ring" <=> \E i \in 1..Len(p) : p[i] = d
      BY <1>3
    <3>3. CASE d = c
      BY <2>1, <3>1, <3>3
    <3>4. CASE d # c
      <4>1. pc'[d] = pc[d]
        BY <2>1, <3>4
      <4> QED BY <3>1, <3>2, <3>4, <4>1
    <3> QED BY <3>3, <3>4
  <2>6. Added(q)' = Added(q)
    BY <2>1 DEF Added
  <2>7. /\ SumSeq(recorded') = SumSeq(recorded) + latency[c] /\ latency[c] \in Nat
        /\ SumSeq(Added(q)) \in Nat
    <3>1. Added(q) \in Seq(Nat)
      BY <1>1, AddedIs
    <3> QED BY <1>1, <2>1, <3>1, SumAppend
  <2>8. totalNs' = SumSeq(recorded') + SumSeq(Added(q))
    BY <1>3, <2>1, <2>3, <2>4, <2>7
  <2>9. Pending(q)'
    BY <2>4, <2>5, <2>6, <2>8 DEF Pending
  <2> QED BY <2>2, <2>9 DEF SumInv
<1>6. CASE ~Exec_Total(c) /\ ~Exec_Ring(c)
  <2>1. UNCHANGED <<totalNs, ring, ringN, recorded>>
    BY <1>6 DEF Exec, Exec_Count, Exec_DoReturns, Exec_Busy, Exec_Timeout, counts, window
  <2>2. ASSUME NEW d \in Callers
        PROVE  (pc'[d] = "ring" <=> pc[d] = "ring") /\ (pc[d] = "ring" => latency'[d] = latency[d])
    BY <1>1, <1>6 DEF Exec, Exec_Count, Exec_DoReturns, Exec_Busy, Exec_Timeout, At
  <2> QED BY <2>1, <2>2, SumsStay
<1> QED BY <1>4, <1>5, <1>6

(* The sums are right in every state. *)
THEOREM SumsInvariance == MetricsSpec => []SumInv
<1>1. ASSUME MetricsInv, SumInv, [MetricsNext]_metricsVars PROVE SumInv'
  <2>1. CASE UNCHANGED metricsVars
    BY <1>1, <2>1, SumsStay DEF metricsVars, counts, window, callers
  <2>2. CASE Scrape_Load \/ Scrape_Respond
    BY <1>1, <2>2, SumsStay DEF Scrape_Load, Scrape_Respond, counts, window, callers
  <2> QED BY <1>1, <2>1, <2>2, SumsKept DEF MetricsNext
<1> QED BY <1>1, InitSumInv, MetricsInvariance, PTL DEF MetricsSpec

(* The recent average is that of the last latencies, also after the ring   *)
(* has wrapped, whatever its length (metrics.go:24-31, 74-92).             *)
THEOREM RingIsRecent == MetricsSpec => []RecentIsTail
<1> QED BY SumsInvariance, PTL DEF SumInv

(* When no request is under way what is counted adds up: the total is the  *)
(* sum of as many latencies as there were requests that were not busy, and *)
(* rejections and timeouts are counted as they were answered               *)
(* (queue.go:165-179).                                                     *)
THEOREM CountsAddUp == MetricsSpec => []IdleCountersAgree
<1>1. ASSUME MetricsInv, SumInv, \A c \in Callers : pc[c] \in {"new", "returned"}
      PROVE  IdleCountersAgree
  <2> USE <1>1 DEF MetricsInv
  <2>1. /\ Rejected = {c \in Callers : err[c] = "busy"}
        /\ TimedOut = {c \in Callers : err[c] = "deadline"}
        /\ Entered = Rejected \cup Measured /\ Rejected \cap Measured = {}
    BY DEF CallerInv, Rejected, TimedOut, Entered, Measured
  <2>2. Cardinality(Entered) = Cardinality(Rejected) + Cardinality(Measured)
    <3>1. IsFiniteSet(Rejected) /\ IsFiniteSet(Measured)
      BY DEF CountInv, Counts
    <3>2. Cardinality(Rejected \cap Measured) = 0
      BY <2>1, FS_EmptySet
    <3>3. Cardinality(Rejected) \in Nat /\ Cardinality(Measured) \in Nat
      BY <3>1, FS_CardinalityType
    <3>4. Cardinality(Rejected \cup Measured)
            = Cardinality(Rejected) + Cardinality(Measured) - Cardinality(Rejected \cap Measured)
      BY <3>1, FS_Union
    <3> QED BY <2>1, <3>2, <3>3, <3>4
  <2>3. totalNs = SumSeq(recorded)
    <3>1. PICK p : Pending(p)
      BY DEF SumInv
    <3>2. p \in Seq(Callers) /\ \A i \in 1..Len(p) : p[i] \notin Callers
      BY <3>1 DEF Pending
    <3>3. Added(p) = <<>>
      <4>1. Len(p) = 0
        BY <3>2
      <4> QED BY <4>1 DEF Added
    <3>4. SumSeq(recorded) \in Nat
      BY SumAppend DEF MetricsTypeOK
    <3> QED BY <3>1, <3>3, <3>4, SumEmpty DEF Pending
  <2> QED BY <2>1, <2>2, <2>3 DEF MetricsTypeOK, CountInv, Counts, RingInv, IdleCountersAgree
<1> QED BY <1>1, MetricsInvariance, SumsInvariance, PTL DEF IdleCountersAgree

-----------------------------------------------------------------------------
(* The query in the log. *)

(* Sequences put one behind the other make a sequence. *)
LEMMA FlattenType ==
  ASSUME NEW S, NEW ss \in Seq(Seq(S))
  PROVE  FlattenSeq(ss) \in Seq(S)
<1> DEFINE n == Len(ss)
           X == Seq(S)
           g == [i \in 1..n |-> [y \in X |-> y \o ss[i]]]
           Turns(f) == f = [i \in 1..n |-> IF i = 1 THEN ss[i] ELSE f[i - 1] \o ss[i]]
           flatten == CHOOSE f : Turns(f)
<1>1. n \in Nat /\ \A i \in 1..n : ss[i] \in X
  OBVIOUS
<1>2. CASE n = 0
  <2>1. ss = <<>>
    BY <1>2
  <2> QED BY <2>1 DEF FlattenSeq
<1>3. CASE n # 0
  <2>1. PICK f : Run(f, n, X, <<>>, g)
    <3>1. \A i \in 1..n : \A y \in X : y \o ss[i] \in X
      BY <1>1
    <3>2. g \in [1..n -> [X -> X]]
      BY <3>1
    <3>3. <<>> \in X
      OBVIOUS
    <3> HIDE DEF g, n, X
    <3> QED BY <1>1, <3>2, <3>3, Iterates
  <2> DEFINE h == [i \in 1..n |-> f[i]]
  <2>2. \A i \in 0..n : f[i] \in X
    BY <2>1 DEF Run
  <2>3. \A i \in 1..n : f[i] = f[i - 1] \o ss[i]
    <3> SUFFICES ASSUME NEW i \in 1..n PROVE f[i] = f[i - 1] \o ss[i]
      OBVIOUS
    <3>1. i - 1 \in 0..n
      BY <1>1
    <3>2. f[i - 1] \in X
      BY <2>2, <3>1
    <3>3. f[i] = g[i][f[i - 1]]
      <4> HIDE DEF g, n, X
      <4> QED BY <2>1 DEF Run
    <3> QED BY <3>2, <3>3
  <2>4. f[1] = ss[1]
    <3>1. f[0] = <<>>
      <4> HIDE DEF g, n, X
      <4> QED BY <2>1 DEF Run
    <3>2. 1 \in 1..n
      BY <1>1, <1>3
    <3>3. f[1] = f[0] \o ss[1]
      <4>1. PICK i \in 1..n : i = 1
        BY <3>2
      <4>2. f[i] = f[i - 1] \o ss[i]
        BY <2>3
      <4>3. i - 1 = 0
        BY <4>1
      <4> QED BY <4>1, <4>2, <4>3
    <3>4. ss[1] \in X
      BY <1>1, <3>2
    <3>5. f[1] = <<>> \o ss[1]
      BY <3>1, <3>3
    <3> HIDE DEF X
    <3> QED BY <3>4, <3>5 DEF X
  <2>5. Turns(h)
    <3>1. ASSUME NEW i \in 1..n PROVE f[i] = IF i = 1 THEN ss[i] ELSE h[i - 1] \o ss[i]
      <4>1. CASE i = 1
        BY <2>4, <4>1
      <4>2. CASE i # 1
        <5>1. i - 1 \in 1..n
          BY <1>1, <4>2
        <5> QED BY <2>3, <4>2, <5>1
      <4> QED BY <4>1, <4>2
    <3> QED BY <3>1
  <2>6. Turns(flatten)
    <3> HIDE DEF Turns
    <3> QED BY <2>5
  <2>7. FlattenSeq(ss) = flatten[n]
    BY <1>3 DEF FlattenSeq
  <2> DEFINE T == {i \in 0..n : i = 0 \/ flatten[i] \in X}
  <2>8. 0..n \subseteq T
    <3> HIDE DEF flatten
    <3>1. 0 \in T
      BY <1>1
    <3>2. ASSUME NEW i \in 1..n, i - 1 \in T PROVE i \in T
      <4>1. flatten[i] = IF i = 1 THEN ss[i] ELSE flatten[i - 1] \o ss[i]
        BY <2>6
      <4>2. i # 1 => flatten[i - 1] \in X
        BY <1>1, <3>2
      <4>3. ss[i] \in X
        BY <1>1
      <4>4. flatten[i] \in X
        BY <4>1, <4>2, <4>3
      <4> HIDE DEF X
      <4> QED BY <4>4
    <3> HIDE DEF T
    <3> QED BY <1>1, <3>1, <3>2, UpTo
  <2> HIDE DEF flatten
  <2> QED BY <1>1, <1>3, <2>7, <2>8
<1> QED BY <1>2, <1>3

(* The pieces have lengths. *)
LEMMA PiecesType ==
  ASSUME NEW vals \in Bodies
  PROVE  Pieces(vals) \in Seq(Nat)
<1>1. KeyLengths \in Seq(Nat) /\ vals \in Seq(Seq(Nat)) /\ Len(vals) = Len(KeyLengths)
  BY LogQueryAssumption
<1> DEFINE Separated(vs) == IF vs = <<>> THEN <<>>
                            ELSE <<vs[1]>> \o FlattenSeq([i \in 1..(Len(vs) - 1) |-> <<1, vs[i + 1]>>])
           P(i) == (IF i > 1 THEN <<1>> ELSE <<>>) \o <<KeyLengths[i]>> \o Separated(vals[i])
<1>2. ASSUME NEW vs \in Seq(Nat) PROVE Separated(vs) \in Seq(Nat)
  <2>1. CASE vs = <<>>
    BY <2>1
  <2>2. CASE vs # <<>>
    <3>1. Len(vs) \in Nat /\ Len(vs) >= 1 /\ \A i \in 1..Len(vs) : vs[i] \in Nat
      BY <2>2
    <3>2. [i \in 1..(Len(vs) - 1) |-> <<1, vs[i + 1]>>] \in Seq(Seq(Nat))
      <4>1. \A i \in 1..(Len(vs) - 1) : <<1, vs[i + 1]>> \in Seq(Nat)
        BY <3>1
      <4>2. Len(vs) - 1 \in Nat
        BY <3>1
      <4> QED BY <4>1, <4>2
    <3>3. FlattenSeq([i \in 1..(Len(vs) - 1) |-> <<1, vs[i + 1]>>]) \in Seq(Nat)
      BY <3>2, FlattenType
    <3>4. <<vs[1]>> \in Seq(Nat)
      BY <3>1
    <3> QED BY <2>2, <3>3, <3>4
  <2> QED BY <2>1, <2>2
<1>3. ASSUME NEW i \in 1..Len(KeyLengths) PROVE P(i) \in Seq(Nat)
  <2>1. Separated(vals[i]) \in Seq(Nat)
    <3>1. vals[i] \in Seq(Nat)
      BY <1>1
    <3> HIDE DEF Separated
    <3> QED BY <1>2, <3>1
  <2>2. KeyLengths[i] \in Nat
    BY <1>1
  <2> HIDE DEF Separated
  <2>3. <<KeyLengths[i]>> \in Seq(Nat) /\ (IF i > 1 THEN <<1>> ELSE <<>>) \in Seq(Nat)
    BY <2>2
  <2> QED BY <2>1, <2>3
<1>4. Pieces(vals) = FlattenSeq([i \in 1..Len(KeyLengths) |-> P(i)])
  BY DEF Pieces
<1> HIDE DEF P
<1>5. [i \in 1..Len(KeyLengths) |-> P(i)] \in Seq(Seq(Nat))
  <2>1. Len(KeyLengths) \in Nat
    BY <1>1
  <2> QED BY <1>3, <2>1
<1> QED BY <1>4, <1>5, FlattenType

-----------------------------------------------------------------------------
(* The whole text up to its n-th character. *)
Leading(n) == [i \in 1..n |-> i]

(* f lists what buildLogQuery has appended before each of the pieces. *)
BuildRun(f, vals) ==
    LET p == Pieces(vals)
    IN  /\ f[0] = NoText /\ BuildLogQuery(vals) = f[Len(p)].b
        /\ \A i \in 1..Len(p) : f[i] = AppendStr(f[i - 1], p[i])

Accumulated == [b : Seq(Nat), at : Nat, more : BOOLEAN]

(* A piece makes of what has been appended something of the same kind. *)
LEMMA AppendType ==
  ASSUME NEW acc \in Accumulated, NEW length \in Nat
  PROVE  AppendStr(acc, length) \in Accumulated
<1> DEFINE room  == maxLogQuery - Len(acc.b)
           piece == [i \in 1..length |-> acc.at + i]
<1>1. acc.b \in Seq(Nat) /\ acc.at \in Nat /\ room \in Int /\ acc.more \in BOOLEAN
  BY LogQueryAssumption DEF Accumulated
<1>2. piece \in Seq(Nat) /\ Len(piece) = length
  <2>1. \A i \in 1..length : acc.at + i \in Nat
    BY <1>1
  <2> QED BY <2>1
<1> HIDE DEF room, piece
<1>3. CASE ~acc.more
  BY <1>3 DEF AppendStr
<1>4. CASE acc.more /\ room = 0
  BY <1>4 DEF AppendStr, Accumulated, room
<1>5. CASE acc.more /\ room # 0 /\ Fits(length, room)
  <2>1. AppendStr(acc, length) = [b |-> acc.b \o piece, at |-> acc.at + length, more |-> TRUE]
    BY <1>5 DEF AppendStr, room, piece
  <2>2. acc.b \o piece \in Seq(Nat)
    BY <1>1, <1>2
  <2> QED BY <1>1, <2>1, <2>2 DEF Accumulated
<1>6. CASE acc.more /\ room # 0 /\ ~Fits(length, room)
  <2>1. AppendStr(acc, length) = [acc EXCEPT !.b = acc.b \o Cut(piece, room), !.more = FALSE]
    BY <1>6 DEF AppendStr, room, piece
  <2>2. length > room
    BY <1>1, <1>6 DEF Fits
  <2>3. Cut(piece, room) \in Seq(Nat)
    <3>1. ASSUME NEW m \in Int, m <= room PROVE SubSeq(piece, 1, m) \in Seq(Nat)
      <4>1. \A i \in 1..m : piece[i] \in Nat
        BY <1>1, <1>2, <2>2, <3>1
      <4> QED BY <4>1, SubSeqProperties
    <3>2. SubSeq(piece, 1, room - 3) \in Seq(Nat) /\ SubSeq(piece, 1, room) \in Seq(Nat)
      BY <1>1, <3>1
    <3>3. Dots \in Seq(Nat)
      BY DEF Dots
    <3> QED BY <3>2, <3>3 DEF Cut
  <2>4. acc.b \o Cut(piece, room) \in Seq(Nat)
    BY <1>1, <2>3
  <2> QED BY <1>1, <2>1, <2>4 DEF Accumulated
<1> QED BY <1>3, <1>4, <1>5, <1>6

(* The recursive function in BuildLogQuery exists. *)
LEMMA BuildTurns ==
  ASSUME NEW vals, Pieces(vals) \in Seq(Nat)
  PROVE  \E f \in [0..Len(Pieces(vals)) -> Accumulated] : BuildRun(f, vals)
<1> DEFINE p == Pieces(vals)
           n == Len(p)
           X == Accumulated
           g == [i \in 1..n |-> [y \in X |-> AppendStr(y, p[i])]]
           Turns(f) == f = [i \in 0..n |-> IF i = 0 THEN NoText ELSE AppendStr(f[i - 1], p[i])]
           acc == CHOOSE f : Turns(f)
<1>0. n \in Nat /\ \A i \in 1..n : p[i] \in Nat
  OBVIOUS
<1> HIDE DEF p
<1>1. g \in [1..n -> [X -> X]] /\ \A y \in X, i \in 1..n : g[i][y] = AppendStr(y, p[i])
  <2>1. \A y \in X, i \in 1..n : AppendStr(y, p[i]) \in X
    BY <1>0, AppendType
  <2> HIDE DEF X, n
  <2> QED BY <2>1
<1>2. NoText \in X
  BY DEF NoText, Accumulated
<1>3. PICK f \in [0..n -> X] : f[0] = NoText /\ \A i \in 1..n : f[i] = g[i][f[i - 1]]
  <2> HIDE DEF g, n, X
  <2>1. PICK f : Run(f, n, X, NoText, g)
    BY <1>0, <1>1, <1>2, Iterates
  <2> QED BY <2>1 DEF Run
<1>4. \A i \in 1..n : f[i] = AppendStr(f[i - 1], p[i])
  <2> SUFFICES ASSUME NEW i \in 1..n PROVE f[i] = AppendStr(f[i - 1], p[i])
    OBVIOUS
  <2>1. i - 1 \in 0..n
    BY <1>0
  <2>2. f[i - 1] \in X
    BY <2>1
  <2> HIDE DEF g, X
  <2> QED BY <1>1, <1>3, <2>2
<1>5. Turns(f)
  <2> SUFFICES ASSUME NEW i \in 0..n
               PROVE  f[i] = IF i = 0 THEN NoText ELSE AppendStr(f[i - 1], p[i])
    BY <1>3
  <2>1. i # 0 => i \in 1..n
    BY <1>0
  <2> QED BY <1>3, <1>4, <2>1
<1>6. Turns(acc)
  <2> HIDE DEF Turns
  <2> QED BY <1>5
<1>7. \A i \in 0..n : acc[i] = f[i]
  <2> DEFINE S == {i \in 0..n : acc[i] = f[i]}
  <2> HIDE DEF acc
  <2>1. 0 \in S
    BY <1>0, <1>3, <1>6
  <2>2. ASSUME NEW i \in 1..n, i - 1 \in S PROVE i \in S
    <3>1. i \in 0..n /\ i # 0 /\ acc[i - 1] = f[i - 1]
      BY <1>0, <2>2
    <3>2. acc[i] = AppendStr(acc[i - 1], p[i])
      BY <1>6, <3>1
    <3> QED BY <1>4, <3>1, <3>2
  <2>3. 0..n \subseteq S
    <3> HIDE DEF S
    <3> QED BY <1>0, <2>1, <2>2, UpTo
  <2> QED BY <2>3
<1>8. BuildLogQuery(vals) = acc[n].b
  BY DEF BuildLogQuery, p
<1>9. n \in 0..n
  BY <1>0
<1> HIDE DEF acc
<1> QED BY <1>3, <1>4, <1>7, <1>8, <1>9 DEF BuildRun, p

(* The characters behind the n-th, and the first of them. *)
LEMMA FrontJoined ==
  ASSUME NEW n \in Nat, NEW k \in Nat
  PROVE  Leading(n) \o [i \in 1..k |-> n + i] = Leading(n + k)
BY DEF Leading

LEMMA FrontCut ==
  ASSUME NEW n \in Nat, NEW m \in 0..n
  PROVE  /\ SubSeq(Leading(n), 1, m) = Leading(m)
         /\ \A k \in Nat : SubSeq([i \in 1..n |-> k + i], 1, m) = [i \in 1..m |-> k + i]
BY DEF Leading

(* Three dots behind a text. *)
LEMMA Dotted ==
  ASSUME NEW s \in Seq(Nat), NEW t \in Seq(Nat)
  PROVE  s \o (t \o Dots) = (s \o t) \o Dots /\ Len(t \o Dots) = Len(t) + 3
<1>1. Dots \in Seq(Nat) /\ Len(Dots) = 3
  BY DEF Dots
<1>2. (s \o t) \o Dots = s \o (t \o Dots)
  BY <1>1, ConcatAssociative
<1>3. Len(t \o Dots) = Len(t) + Len(Dots)
  BY <1>1, ConcatProperties, Zenon
<1> QED BY <1>1, <1>2, <1>3

(* What has been appended is the beginning of the text: all of it as long  *)
(* as there is more to come, and cut at the limit once there is not, in    *)
(* the piece that begins at acc.at.                                        *)
Appended(acc, total) ==
    IF acc.more
    THEN acc.at = total /\ total <= maxLogQuery /\ acc.b = Leading(total)
    ELSE /\ total >= maxLogQuery /\ acc.at <= maxLogQuery
         /\ acc.at < maxLogQuery => total > maxLogQuery
         /\ acc.b = IF maxLogQuery - acc.at > 3 THEN Leading(maxLogQuery - 3) \o Dots
                                               ELSE Leading(maxLogQuery)

(* A piece is appended, cut, or left out. *)
LEMMA AppendKeeps ==
  ASSUME NEW acc \in Accumulated, NEW total \in Nat, Appended(acc, total), NEW length \in Nat
  PROVE  /\ Appended(AppendStr(acc, length), total + length)
         /\ AppendStr(acc, length).at \in {acc.at, total + length}
         /\ AppendStr(acc, length).at >= acc.at
<1> DEFINE room  == maxLogQuery - Len(acc.b)
           piece == [i \in 1..length |-> acc.at + i]
           left  == maxLogQuery - total
<1>1. maxLogQuery \in Nat /\ acc.more \in BOOLEAN /\ acc.at \in Nat
  BY LogQueryAssumption DEF Accumulated
<1>2. CASE ~acc.more
  <2>1. AppendStr(acc, length) = acc
    BY <1>2 DEF AppendStr
  <2>2. total + length >= maxLogQuery /\ (acc.at < maxLogQuery => total + length > maxLogQuery)
    BY <1>1, <1>2 DEF Appended
  <2> QED BY <1>1, <1>2, <2>1, <2>2 DEF Appended
<1>3. CASE acc.more
  <2>1. /\ acc.at = total /\ acc.b = Leading(total) /\ Len(acc.b) = total
        /\ left \in Nat /\ room = left
    BY <1>1, <1>3 DEF Appended, Leading
  <2>2. piece = [i \in 1..length |-> total + i]
    BY <2>1
  <2> HIDE DEF room, piece
  <2>3. CASE room = 0
    <3>1. AppendStr(acc, length) = [acc EXCEPT !.more = FALSE]
      BY <1>3, <2>3 DEF AppendStr, room
    <3>2. /\ AppendStr(acc, length).b = Leading(maxLogQuery)
          /\ AppendStr(acc, length).at = maxLogQuery /\ acc.at = maxLogQuery
          /\ ~AppendStr(acc, length).more
      BY <1>1, <2>1, <2>3, <3>1 DEF Accumulated
    <3>3. total + length >= maxLogQuery
      BY <1>1, <2>1, <2>3
    <3> HIDE DEF left
    <3> QED BY <1>1, <3>2, <3>3 DEF Appended
  <2>4. CASE room # 0 /\ Fits(length, room)
    <3>1. AppendStr(acc, length) = [b |-> acc.b \o piece, at |-> acc.at + length, more |-> TRUE]
      BY <1>3, <2>4 DEF AppendStr, room, piece
    <3>2. acc.b \o piece = Leading(total + length)
      BY <2>1, <2>2, FrontJoined
    <3>3. total + length <= maxLogQuery
      BY <1>1, <2>1, <2>4 DEF Fits
    <3>4. total + length >= total
      OBVIOUS
    <3> HIDE DEF left
    <3> QED BY <2>1, <3>1, <3>2, <3>3, <3>4 DEF Appended
  <2>5. CASE room # 0 /\ ~Fits(length, room)
    <3>1. /\ AppendStr(acc, length).b = acc.b \o Cut(piece, room)
          /\ AppendStr(acc, length).at = total /\ ~AppendStr(acc, length).more
      <4>1. AppendStr(acc, length) = [acc EXCEPT !.b = acc.b \o Cut(piece, room), !.more = FALSE]
        BY <1>3, <2>5 DEF AppendStr, room, piece
      <4> QED BY <2>1, <4>1 DEF Accumulated
    <3>2. length > left /\ total + length > maxLogQuery
      BY <1>1, <2>1, <2>5 DEF Fits
    <3>3. \A m \in 0..length : Leading(total) \o SubSeq(piece, 1, m) = Leading(total + m)
      <4> SUFFICES ASSUME NEW m \in 0..length
                   PROVE  Leading(total) \o SubSeq(piece, 1, m) = Leading(total + m)
        OBVIOUS
      <4>1. SubSeq(piece, 1, m) = [i \in 1..m |-> total + i]
        BY <2>2, FrontCut
      <4>2. m \in Nat
        OBVIOUS
      <4>3. Leading(total) \o [i \in 1..m |-> total + i] = Leading(total + m)
        BY <4>2, FrontJoined
      <4> QED BY <4>1, <4>3, Zenon
    <3>4. CASE left > 3
      <4>1. Cut(piece, room) = SubSeq(piece, 1, left - 3) \o Dots
        BY <2>1, <3>4 DEF Cut
      <4>2. left - 3 \in 0..length
        BY <2>1, <3>2, <3>4
      <4>3. Leading(total) \o (SubSeq(piece, 1, left - 3) \o Dots)
               = (Leading(total) \o SubSeq(piece, 1, left - 3)) \o Dots
        <5>1. Leading(total) \in Seq(Nat)
          BY DEF Leading
        <5> HIDE DEF left
        <5>2. SubSeq(piece, 1, left - 3) = [i \in 1..left - 3 |-> total + i]
          BY <2>2, <4>2, FrontCut
        <5>3. [i \in 1..left - 3 |-> total + i] \in Seq(Nat)
          BY <4>2
        <5>4. SubSeq(piece, 1, left - 3) \in Seq(Nat)
          BY <5>2, <5>3
        <5> QED BY <5>1, <5>4, Dotted, Zenon
      <4>4. Leading(total) \o SubSeq(piece, 1, left - 3) = Leading(total + (left - 3))
        BY <3>3, <4>2
      <4>5. total + (left - 3) = maxLogQuery - 3 /\ maxLogQuery > 3
        BY <1>1, <2>1, <3>4
      <4>6. AppendStr(acc, length).b = Leading(maxLogQuery - 3) \o Dots
        <5> HIDE DEF left
        <5> QED BY <2>1, <3>1, <4>1, <4>3, <4>4, <4>5
      <4>7. total + length >= maxLogQuery
        BY <1>1, <3>2
      <4>8. maxLogQuery - total > 3 /\ total <= maxLogQuery
        BY <1>1, <2>1, <3>4
      <4> HIDE DEF left
      <4> QED BY <2>1, <3>1, <3>2, <4>6, <4>7, <4>8 DEF Appended
    <3>5. CASE ~(left > 3)
      <4>1. Cut(piece, room) = SubSeq(piece, 1, left)
        BY <2>1, <3>5 DEF Cut
      <4>2. left \in 0..length /\ total + left = maxLogQuery
        BY <1>1, <2>1, <3>2
      <4>3. AppendStr(acc, length).b = Leading(maxLogQuery)
        <5> HIDE DEF left
        <5> QED BY <2>1, <3>1, <3>3, <4>1, <4>2
      <4>4. total + length >= maxLogQuery
        BY <1>1, <3>2
      <4>5. ~(maxLogQuery - total > 3) /\ total <= maxLogQuery
        BY <1>1, <2>1, <3>5
      <4> HIDE DEF left
      <4> QED BY <2>1, <3>1, <3>2, <4>3, <4>4, <4>5 DEF Appended
    <3> QED BY <3>4, <3>5
  <2> QED BY <2>3, <2>4, <2>5
<1> QED BY <1>2, <1>3

(* Sums lists the sums that SumRun does. *)
LEMMA SumsAre ==
  ASSUME NEW p \in Seq(Nat), NEW s, SumRun(s, p)
  PROVE  \A i \in 0..Len(p) : Sums(p)[i] = s[i]
<1> DEFINE n == Len(p)
           Turns(f) == f = [i \in 0..n |-> IF i = 0 THEN 0 ELSE f[i - 1] + p[i]]
           sum == CHOOSE f : Turns(f)
<1>1. n \in Nat /\ s \in [0..n -> Nat] /\ s[0] = 0 /\ \A i \in 1..n : s[i] = s[i - 1] + p[i]
  BY DEF SumRun
<1>2. Turns(s)
  <2> SUFFICES ASSUME NEW i \in 0..n PROVE s[i] = IF i = 0 THEN 0 ELSE s[i - 1] + p[i]
    BY <1>1
  <2>1. i # 0 => i \in 1..n
    BY <1>1
  <2> QED BY <1>1, <2>1
<1>3. Turns(sum)
  <2> HIDE DEF Turns
  <2> QED BY <1>2
<1>4. Sums(p) = sum
  BY DEF Sums
<1> DEFINE S == {i \in 0..n : sum[i] = s[i]}
<1>5. 0..n \subseteq S
  <2> HIDE DEF sum
  <2>1. 0 \in S
    BY <1>1, <1>3
  <2>2. ASSUME NEW i \in 1..n, i - 1 \in S PROVE i \in S
    <3>1. i \in 0..n /\ i # 0 /\ sum[i - 1] = s[i - 1]
      BY <1>1, <2>2
    <3> QED BY <1>1, <1>3, <3>1
  <2> HIDE DEF S
  <2> QED BY <1>1, <2>1, <2>2, UpTo
<1> HIDE DEF sum
<1> QED BY <1>4, <1>5

(* Where the piece begins that is cut: the last to begin within the limit. *)
LEMMA RoomLeftIs ==
  ASSUME NEW vals, NEW at \in 0..maxLogQuery,
         \A i \in 0..Len(Pieces(vals)) : Sums(Pieces(vals))[i] \in Nat,
         \E i \in 0..Len(Pieces(vals)) : Sums(Pieces(vals))[i] = at,
         \A i \in 0..Len(Pieces(vals)) :
            Sums(Pieces(vals))[i] <= maxLogQuery => Sums(Pieces(vals))[i] <= at
  PROVE  RoomLeft(vals) = maxLogQuery - at
<1> DEFINE starts == {Sums(Pieces(vals))[i] : i \in 0..Len(Pieces(vals))}
           Left(room) == /\ maxLogQuery - room \in starts
                         /\ \A start \in starts : start <= maxLogQuery => start <= maxLogQuery - room
<1>1. maxLogQuery \in Nat /\ at \in Nat /\ maxLogQuery - at \in 0..maxLogQuery
      /\ maxLogQuery - (maxLogQuery - at) = at
  BY LogQueryAssumption
<1>2. at \in starts /\ \A start \in starts : start <= maxLogQuery => start <= at
  OBVIOUS
<1>3. RoomLeft(vals) = CHOOSE room \in 0..maxLogQuery : Left(room)
  BY DEF RoomLeft
<1> HIDE DEF starts
<1>4. Left(maxLogQuery - at)
  BY <1>1, <1>2
<1>5. ASSUME NEW room \in 0..maxLogQuery, Left(room) PROVE room = maxLogQuery - at
  <2>1. maxLogQuery - room <= maxLogQuery /\ room \in Int
    BY <1>1
  <2>2. maxLogQuery - room <= at
    BY <1>2, <1>5, <2>1
  <2>3. at <= maxLogQuery - room
    BY <1>1, <1>2, <1>5
  <2> QED BY <1>1, <2>1, <2>2, <2>3
<1> HIDE DEF Left
<1> QED BY <1>1, <1>3, <1>4, <1>5

(* A text no longer than the limit, or what CutAtLimit makes of it.        *)
LoggedAs(vals, room) ==
    IF Len(Full(vals)) <= maxLogQuery THEN Full(vals) ELSE CutAtLimit(Full(vals), room)

(* What the handler builds is the whole text where it fits and is cut      *)
(* where a piece does not, and is no longer than the limit.                *)
LEMMA BuiltIs ==
  ASSUME NEW vals \in Bodies
  PROVE  /\ BuildLogQuery(vals) = LoggedAs(vals, RoomLeft(vals))
         /\ Len(BuildLogQuery(vals)) \in Nat /\ Len(BuildLogQuery(vals)) <= maxLogQuery
         /\ Sum(Pieces(vals)) \in Nat
<1> DEFINE p == Pieces(vals)
           n == Len(p)
<1>1. p \in Seq(Nat) /\ n \in Nat /\ \A i \in 1..n : p[i] \in Nat
  BY PiecesType
<1>2. PICK f \in [0..n -> Accumulated] : BuildRun(f, vals)
  BY <1>1, BuildTurns
<1>3. PICK s : SumRun(s, p)
  BY <1>1, SumTurns
<1>4. /\ \A i \in 0..n : Sums(p)[i] = s[i] /\ s[i] \in Nat
      /\ Sum(p) = s[n]
  <2>1. \A i \in 0..n : Sums(p)[i] = s[i]
    BY <1>1, <1>3, SumsAre
  <2>2. \A i \in 0..n : s[i] \in Nat
    BY <1>3 DEF SumRun
  <2>3. n \in 0..n
    BY <1>1
  <2> QED BY <2>1, <2>2, <2>3 DEF Sum
<1> HIDE DEF p
<1>5. /\ f[0] = NoText /\ BuildLogQuery(vals) = f[n].b
      /\ \A i \in 1..n : f[i] = AppendStr(f[i - 1], p[i])
  BY <1>2 DEF BuildRun, p
<1>6. /\ s[0] = 0 /\ \A i \in 0..n : s[i] \in Nat
      /\ \A i \in 1..n : s[i] = s[i - 1] + p[i]
  BY <1>3, <1>4 DEF SumRun
<1> HIDE DEF n
<1> DEFINE Begins(i) == /\ \E k \in 0..i : s[k] = f[i].at
                        /\ \A k \in 0..i : s[k] <= maxLogQuery => s[k] <= f[i].at
           S == {i \in 0..n : Appended(f[i], s[i]) /\ Begins(i)}
<1>7. 0..n \subseteq S
  <2>1. 0 \in S
    <3>1. Appended(NoText, 0)
      <4>1. Leading(0) = <<>>
        BY DEF Leading
      <4> QED BY <4>1, LogQueryAssumption DEF Appended, NoText
    <3>2. 0 \in 0..n
      BY <1>1
    <3>3. NoText.at = 0
      BY DEF NoText
    <3>4. Begins(0)
      BY <1>5, <1>6, <3>3
    <3> QED BY <1>5, <1>6, <3>1, <3>2, <3>4
  <2>2. ASSUME NEW i \in 1..n, i - 1 \in S PROVE i \in S
    <3>1. /\ i \in 0..n /\ i - 1 \in 0..n /\ p[i] \in Nat /\ f[i - 1] \in Accumulated
          /\ s[i - 1] \in Nat /\ Appended(f[i - 1], s[i - 1]) /\ Begins(i - 1)
          /\ f[i] \in Accumulated /\ s[i] \in Nat
      BY <1>1, <1>6, <2>2
    <3>2. /\ Appended(f[i], s[i])
          /\ f[i].at \in {f[i - 1].at, s[i]} /\ f[i].at >= f[i - 1].at
      <4>1. f[i] = AppendStr(f[i - 1], p[i]) /\ s[i] = s[i - 1] + p[i]
        BY <1>5, <1>6
      <4> QED BY <3>1, <4>1, AppendKeeps
    <3>3. \A k \in 0..i : k = i \/ k \in 0..i - 1
      OBVIOUS
    <3>4. 0..i - 1 \subseteq 0..i /\ i \in 0..i /\ 0..i \subseteq 0..n
      BY <1>1
    <3>5. f[i].at \in Nat /\ f[i - 1].at \in Nat /\ maxLogQuery \in Nat /\ \A k \in 0..i : s[k] \in Nat
      BY <1>6, <3>1, <3>4, LogQueryAssumption DEF Accumulated
    <3>6. s[i] <= maxLogQuery => s[i] <= f[i].at
      BY <3>1, <3>2, <3>5 DEF Appended
    <3>7. Begins(i)
      <4>1. \E k \in 0..i : s[k] = f[i].at
        BY <3>1, <3>2, <3>4
      <4>2. ASSUME NEW k \in 0..i, s[k] <= maxLogQuery PROVE s[k] <= f[i].at
        <5>1. CASE k = i
          BY <4>2, <5>1, <3>6
        <5>2. CASE k \in 0..i - 1
          <6>1. s[k] <= f[i - 1].at
            BY <3>1, <4>2, <5>2
          <6> QED BY <3>2, <3>5, <6>1
        <5> QED BY <3>3, <5>1, <5>2
      <4> QED BY <4>1, <4>2
    <3> QED BY <3>1, <3>2, <3>7
  <2> HIDE DEF S
  <2> QED BY <1>1, <2>1, <2>2, UpTo
<1>8. n \in 0..n
  BY <1>1
<1>9. Appended(f[n], s[n]) /\ Begins(n) /\ f[n] \in Accumulated /\ s[n] \in Nat
  BY <1>6, <1>7, <1>8
<1> DEFINE b == BuildLogQuery(vals)
           total == s[n]
           at == f[n].at
<1>10. Full(vals) = Leading(total) /\ Len(Leading(total)) = total
  BY <1>4, <1>9 DEF Full, Leading, p
<1>11. maxLogQuery \in Nat /\ at \in Nat
  BY <1>9, LogQueryAssumption DEF Accumulated
<1>12. \A m \in Nat : Leading(m) \in Seq(Nat) /\ Len(Leading(m)) = m
  BY DEF Leading
<1>13. at <= maxLogQuery => RoomLeft(vals) = maxLogQuery - at
  <2>1. /\ \E i \in 0..n : Sums(p)[i] = at
        /\ \A i \in 0..n : Sums(p)[i] \in Nat /\ (Sums(p)[i] <= maxLogQuery => Sums(p)[i] <= at)
    BY <1>4, <1>9
  <2>2. at <= maxLogQuery => at \in 0..maxLogQuery
    BY <1>11
  <2> HIDE DEF at
  <2> QED BY <2>1, <2>2, RoomLeftIs DEF p, n
<1> HIDE DEF total, b, at, Begins
<1>14. Appended(f[n], total) /\ f[n].b = b /\ f[n].at = at /\ total \in Nat /\ Sum(p) = total
  BY <1>4, <1>5, <1>9 DEF total, b, at
<1>15. CASE f[n].more
  <2>1. b = Leading(total) /\ total <= maxLogQuery
    BY <1>14, <1>15 DEF Appended
  <2>2. b = Full(vals) /\ Len(Full(vals)) <= maxLogQuery /\ Len(b) = total
    BY <1>10, <2>1
  <2> QED BY <1>11, <1>14, <2>1, <2>2 DEF LoggedAs, b, p
<1>16. CASE ~f[n].more
  <2>1. /\ total >= maxLogQuery /\ at <= maxLogQuery /\ (at < maxLogQuery => total > maxLogQuery)
        /\ b = IF maxLogQuery - at > 3 THEN Leading(maxLogQuery - 3) \o Dots ELSE Leading(maxLogQuery)
    BY <1>14, <1>16 DEF Appended
  <2>2. RoomLeft(vals) = maxLogQuery - at
    BY <1>13, <2>1
  <2>3. CASE maxLogQuery - at > 3
    <3>1. b = Leading(maxLogQuery - 3) \o Dots
      BY <2>1, <2>3
    <3>2. maxLogQuery - 3 \in Nat /\ maxLogQuery - 3 \in 0..total /\ total > maxLogQuery
      BY <1>11, <1>14, <2>1, <2>3
    <3>3. SubSeq(Full(vals), 1, maxLogQuery - 3) = Leading(maxLogQuery - 3)
      BY <1>10, <1>14, <3>2, FrontCut
    <3>4. ~(Len(Full(vals)) <= maxLogQuery)
      BY <1>10, <1>11, <1>14, <3>2
    <3>5. b = LoggedAs(vals, RoomLeft(vals))
      BY <2>2, <2>3, <3>1, <3>3, <3>4, Zenon DEF LoggedAs, CutAtLimit
    <3>6. Len(b) = maxLogQuery
      <4>1. Leading(maxLogQuery - 3) \in Seq(Nat) /\ Len(Leading(maxLogQuery - 3)) = maxLogQuery - 3
        BY <1>12, <3>2
      <4>2. Len(Leading(maxLogQuery - 3) \o Dots) = Len(Leading(maxLogQuery - 3)) + 3
        BY <4>1, Dotted, Zenon
      <4> QED BY <1>11, <3>1, <4>1, <4>2
    <3> QED BY <1>11, <1>14, <3>5, <3>6 DEF b, p
  <2>4. CASE ~(maxLogQuery - at > 3)
    <3>1. b = Leading(maxLogQuery) /\ Len(b) = maxLogQuery
      BY <1>11, <1>12, <2>1, <2>4
    <3>2. maxLogQuery \in 0..total
      BY <1>11, <1>14, <2>1
    <3>3. SubSeq(Full(vals), 1, maxLogQuery) = Leading(maxLogQuery)
      BY <1>10, <1>14, <3>2, FrontCut
    <3>4. CASE total = maxLogQuery
      <4>1. Len(Full(vals)) <= maxLogQuery /\ b = Full(vals)
        BY <1>10, <1>11, <3>1, <3>4
      <4> QED BY <1>11, <1>14, <3>1, <4>1 DEF LoggedAs, b, p
    <3>5. CASE total # maxLogQuery
      <4>1. ~(Len(Full(vals)) <= maxLogQuery)
        BY <1>10, <1>11, <1>14, <2>1, <3>5
      <4>2. b = LoggedAs(vals, RoomLeft(vals))
        BY <2>2, <2>4, <3>1, <3>3, <4>1, Zenon DEF LoggedAs, CutAtLimit
      <4> QED BY <1>11, <1>14, <3>1, <4>2 DEF b, p
    <3> QED BY <3>4, <3>5
  <2> QED BY <2>3, <2>4
<1> QED BY <1>15, <1>16

(* A query that comes with the request is cut as one piece.                *)
LEMMA WholeIs ==
  ASSUME NEW vals \in Bodies
  PROVE  CapLogQuery(Full(vals)) = LoggedAs(vals, maxLogQuery)
BY DEF CapLogQuery, LoggedAs, Cut, CutAtLimit

(* The handler builds what it built, and what is logged stands for the     *)
(* body.                                                                   *)
LogQueryInv ==
    /\ body \in Bodies
    /\ built \in {<<>>, <<BuildLogQuery(body)>>}
    /\ LoggedStandsForBody

(* Whatever the body and the limit, what is logged is the whole query or   *)
(* its beginning at the limit, with dots where more than three characters  *)
(* were left for the piece that is cut (handler.go:38-110).                *)
THEOREM LogsStandForBodies == LogQuerySpec => []LoggedStandsForBody
<1>1. LogQueryInit => LogQueryInv
  BY DEF LogQueryInit, LogQueryInv, LoggedStandsForBody
<1>2. ASSUME LogQueryInv, [LogQueryNext]_logQueryVars PROVE LogQueryInv'
  <2>1. CASE SetRawQuery
    BY <1>2, <2>1 DEF LogQueryInv, LoggedStandsForBody, SetRawQuery
  <2>2. CASE LogRequest
    <3> DEFINE s == IF built = <<>> THEN Full(body) ELSE built[1]
               room == IF built = <<>> THEN maxLogQuery ELSE RoomLeft(body)
    <3>1. body \in Bodies /\ logged' = <<CapLogQuery(s)>> /\ UNCHANGED <<body, built>>
      BY <1>2, <2>2 DEF LogQueryInv, LogRequest
    <3>2. CapLogQuery(s) = LoggedAs(body, room)
      <4>1. CASE built = <<>>
        <5>1. s = Full(body) /\ room = maxLogQuery
          BY <4>1
        <5> HIDE DEF s, room
        <5> QED BY <5>1, <3>1, WholeIs
      <4>2. CASE built # <<>>
        <5>1. s = BuildLogQuery(body) /\ room = RoomLeft(body)
          BY <1>2, <4>2 DEF LogQueryInv
        <5> HIDE DEF s, room
        <5>2. Len(s) <= maxLogQuery /\ s = LoggedAs(body, room)
          BY <3>1, <5>1, BuiltIs
        <5>3. CapLogQuery(s) = s
          BY <5>2 DEF CapLogQuery
        <5> QED BY <5>2, <5>3
      <4> QED BY <4>1, <4>2
    <3> HIDE DEF s
    <3>3. logged'[1] = LoggedAs(body, room)
      BY <3>1, <3>2
    <3>4. LoggedStandsForBody'
      BY <3>1, <3>3 DEF LoggedStandsForBody, LoggedAs
    <3> QED BY <1>2, <3>1, <3>4 DEF LogQueryInv
  <2>3. CASE UNCHANGED logQueryVars
    BY <1>2, <2>3 DEF LogQueryInv, LoggedStandsForBody, logQueryVars
  <2> QED BY <1>2, <2>1, <2>2, <2>3 DEF LogQueryNext
<1>3. LogQueryInv => LoggedStandsForBody
  BY DEF LogQueryInv
<1> QED BY <1>1, <1>2, <1>3, PTL DEF LogQuerySpec

-----------------------------------------------------------------------------
(* The configuration. *)

(* Nothing is known yet, or what parseConfig makes of the two sources.     *)
ConfigInv ==
    /\ args \in CommandLines
    /\ env \in Environments
    /\ \/ outcome = [is |-> "starting", shows |-> {}]
       \/ outcome = ParseConfig(args, env)

(* The outcome is that of parseConfig. *)
THEOREM ConfigInvariance == ConfigSpec => []ConfigInv
<1>1. ConfigInit => ConfigInv
  BY DEF ConfigInit, ConfigInv
<1>2. ASSUME ConfigInv, [Main]_configVars PROVE ConfigInv'
  BY <1>2 DEF ConfigInv, Main, configVars
<1> QED BY <1>1, <1>2, PTL DEF ConfigSpec

(* A switch that nothing sets is off. *)
LEMMA SwitchesAreOff ==
  /\ \A f \in BoolFlags : Default[f] = "false"
  /\ "false" \in DOMAIN Bools /\ Bools["false"] = FALSE
<1>1. \A f \in BoolFlags : Default[f] = "false"
  BY DEF BoolFlags, Flags, Default
<1>2. "false" \in DOMAIN Bools /\ Bools["false"] = FALSE
  <2>1. "false" \in DOMAIN Bools
    BY DEF Bools
  <2>2. Bools["false"] = ("false" \in {"true", "1"})
    BY Zenon DEF Bools
  <2>3. ("false" \in {"true", "1"}) = FALSE
    OBVIOUS
  <2> QED BY <2>1, <2>2, <2>3, Zenon
<1> QED BY <1>1, <1>2

(* The text of a switch is accepted only if it says on or off. *)
LEMMA SwitchAccepted ==
  ASSUME NEW f \in BoolFlags, NEW v, Accepted(f, v)
  PROVE  v \in DOMAIN Bools
BY DEF Accepted

(* Where two environments agree but for the flags that are given, every    *)
(* setting is taken from the same text.                                    *)
LEMMA SameTexts ==
  ASSUME NEW e, NEW d, NEW set, \A f \in Flags : f \in DOMAIN set \/ d[f] = e[f]
  PROVE  \A f \in Flags : Effective(d, set, f) = Effective(e, set, f)
<1>1. "token" \in Flags
  BY DEF Flags, StringFlags
<1> QED BY <1>1 DEF Effective, GetenvBoolWith, FlagDefault, GetenvWith

(* A flag that is given makes its variable irrelevant.                     *)
LEMMA FlagsHide ==
  ASSUME NEW a, NEW e, NEW d,
         \A f \in Flags : f \in DOMAIN FlagParse(a).set \/ d[f] = e[f]
  PROVE  /\ ParseConfig(a, d).is = ParseConfig(a, e).is
         /\ ParseConfig(a, e).is = "started" => ParseConfig(a, d).config = ParseConfig(a, e).config
<1> DEFINE st == FlagParse(a)
           V(f) == Effective(e, st.set, f)
           W(f) == Effective(d, st.set, f)
<1>1. \A f \in Flags : W(f) = V(f)
  BY SameTexts
<1>2. {"frame", "transport", "token"} \subseteq Flags
  BY DEF Flags, StringFlags
<1> HIDE DEF V, W
<1>3. [f \in Flags |-> Setting(f, W(f))] = [f \in Flags |-> Setting(f, V(f))]
  BY <1>1
<1>4. (\A f \in Flags : Accepted(f, W(f))) <=> (\A f \in Flags : Accepted(f, V(f)))
  BY <1>1
<1>5. W("frame") = V("frame") /\ W("transport") = V("transport")
  BY <1>1, <1>2
<1> QED BY <1>3, <1>4, <1>5 DEF ParseConfig, Usage, Refused, V, W

(* What FlagSet.Parse is at between two words of a. *)
Values(a) == {a[i].value : i \in 1..Len(a)} \cup {Text(a[i]) : i \in 1..Len(a)} \cup {"true"}

ReadStates(a) ==
    {st \in [set : UNION {[F -> Values(a)] : F \in SUBSET Flags},
             wants : StringFlags \cup {""},
             end : {"open", "help", "error", "stray word"}] :
        st.end = "stray word" => st.wants = ""}

(* One more word leads from such a state to such a state, and once the     *)
(* package has stopped to the same.                                        *)
LEMMA WordRead ==
  ASSUME NEW a, NEW i \in 1..Len(a), NEW st \in ReadStates(a)
  PROVE  /\ ReadWord(st, a[i]) \in ReadStates(a)
         /\ st.end # "open" => ReadWord(st, a[i]) = st
         /\ DOMAIN st.set \subseteq DOMAIN ReadWord(st, a[i]).set
         /\ ReadWord(st, a[i]).end = "stray word" => ReadWord(st, a[i]).set = st.set
<1> DEFINE word == a[i]
           Sets(f, v) == [st EXCEPT !.set = [g \in DOMAIN @ \cup {f} |-> IF g = f THEN v ELSE @[g]],
                                    !.wants = ""]
           End(how)  == [st EXCEPT !.end = how]
           Type == [set : UNION {[F -> Values(a)] : F \in SUBSET Flags},
                    wants : StringFlags \cup {""},
                    end : {"open", "help", "error", "stray word"}]
<1>1. word.value \in Values(a) /\ Text(word) \in Values(a) /\ "true" \in Values(a)
  BY DEF Values
<1>2. st \in Type /\ (st.end = "stray word" => st.wants = "")
  BY DEF ReadStates
<1>3. PICK F \in SUBSET Flags : st.set \in [F -> Values(a)]
  BY <1>2
<1>4. ASSUME NEW f \in Flags, NEW v \in Values(a), st.end = "open"
      PROVE  /\ Sets(f, v) \in ReadStates(a) /\ DOMAIN st.set \subseteq DOMAIN Sets(f, v).set
             /\ Sets(f, v).end = "open"
  <2> DEFINE both == [g \in DOMAIN st.set \cup {f} |-> IF g = f THEN v ELSE st.set[g]]
  <2>1. both \in [F \cup {f} -> Values(a)] /\ F \cup {f} \in SUBSET Flags
    BY <1>3
  <2>2. both \in UNION {[G -> Values(a)] : G \in SUBSET Flags} /\ F \subseteq DOMAIN both
    BY <2>1
  <2> HIDE DEF both
  <2>3. Sets(f, v) = [st EXCEPT !.set = both, !.wants = ""]
    BY <1>2 DEF both
  <2>4. /\ Sets(f, v) \in Type /\ Sets(f, v).end = "open" /\ Sets(f, v).set = both
    BY <1>2, <1>4, <2>2, <2>3
  <2> HIDE DEF Sets
  <2> QED BY <1>3, <2>2, <2>4 DEF ReadStates
<1>5. ASSUME NEW how \in {"help", "error", "stray word"}, st.wants = ""
      PROVE  End(how) \in ReadStates(a) /\ End(how).set = st.set /\ End(how).end = how
  BY <1>2, <1>5 DEF ReadStates
<1>6. ASSUME NEW f \in StringFlags, st.end = "open"
      PROVE  /\ [st EXCEPT !.wants = f] \in ReadStates(a) /\ [st EXCEPT !.wants = f].set = st.set
             /\ [st EXCEPT !.wants = f].end = "open"
  BY <1>2, <1>6 DEF ReadStates
<1>7. BoolFlags \subseteq Flags /\ StringFlags \subseteq Flags
  BY DEF Flags
<1> DEFINE Goal(r) == /\ r \in ReadStates(a)
                      /\ st.end # "open" => r = st
                      /\ DOMAIN st.set \subseteq DOMAIN r.set
                      /\ r.end = "stray word" => r.set = st.set
<1>8. CASE st.end # "open"
  <2>1. ReadWord(st, word) = st
    BY <1>8 DEF ReadWord
  <2> QED BY <2>1
<1>9. CASE st.end = "open" /\ st.wants # ""
  <2>1. ReadWord(st, word) = Sets(st.wants, Text(word)) /\ st.wants \in Flags
    BY <1>2, <1>7, <1>9 DEF ReadWord
  <2> HIDE DEF Sets, word
  <2>2. Goal(ReadWord(st, word))
    BY <1>1, <1>4, <1>9, <2>1
  <2> QED BY <2>2 DEF word
<1>10. CASE st.end = "open" /\ st.wants = ""
  <2>1. \/ \E how \in {"help", "error", "stray word"} : ReadWord(st, word) = End(how)
        \/ \E f \in Flags, v \in Values(a) : ReadWord(st, word) = Sets(f, v)
        \/ \E f \in StringFlags : ReadWord(st, word) = [st EXCEPT !.wants = f]
    <3>1. CASE word.name \in BoolFlags
      <4>1. word.name # "" /\ word.name # "h" /\ word.name \notin StringFlags
        BY <3>1 DEF BoolFlags, StringFlags
      <4> HIDE DEF word
      <4>2. ReadWord(st, word) \in {Sets(word.name, SwitchText(word)), End("error")}
        BY <1>10, <3>1, <4>1 DEF ReadWord
      <4>3. SwitchText(word) \in Values(a)
        BY <1>1 DEF SwitchText
      <4> HIDE DEF Sets, End
      <4> QED BY <1>7, <3>1, <4>2, <4>3
    <3>2. CASE word.name \in StringFlags
      <4>1. word.name # "" /\ word.name # "h" /\ word.name \notin BoolFlags
        BY <3>2 DEF StringFlags, BoolFlags
      <4> HIDE DEF word
      <4>2. ReadWord(st, word) = IF word.value = NoValue THEN [st EXCEPT !.wants = word.name]
                                 ELSE Sets(word.name, word.value)
        BY <1>10, <3>2, <4>1 DEF ReadWord
      <4> HIDE DEF Sets
      <4> QED BY <1>1, <1>7, <3>2, <4>2
    <3>3. CASE word.name \notin BoolFlags /\ word.name \notin StringFlags
      <4> HIDE DEF word
      <4>1. ReadWord(st, word) \in {End("stray word"), End("help"), End("error")}
        BY <1>10, <3>3 DEF ReadWord
      <4> QED BY <4>1
    <3> QED BY <3>1, <3>2, <3>3
  <2>2. CASE \E how \in {"help", "error", "stray word"} : ReadWord(st, word) = End(how)
    <3>1. PICK how \in {"help", "error", "stray word"} : ReadWord(st, word) = End(how)
      BY <2>2
    <3> HIDE DEF End, word
    <3>2. Goal(ReadWord(st, word))
      BY <1>5, <1>10, <3>1
    <3> QED BY <3>2 DEF word
  <2>3. CASE \E f \in Flags, v \in Values(a) : ReadWord(st, word) = Sets(f, v)
    <3>1. PICK f \in Flags, v \in Values(a) : ReadWord(st, word) = Sets(f, v)
      BY <2>3
    <3> HIDE DEF Sets, word
    <3>2. Goal(ReadWord(st, word))
      BY <1>4, <1>10, <3>1
    <3> QED BY <3>2 DEF word
  <2>4. CASE \E f \in StringFlags : ReadWord(st, word) = [st EXCEPT !.wants = f]
    <3>1. PICK f \in StringFlags : ReadWord(st, word) = [st EXCEPT !.wants = f]
      BY <2>4
    <3> HIDE DEF word
    <3>2. Goal(ReadWord(st, word))
      BY <1>6, <1>10, <3>1
    <3> QED BY <3>2 DEF word
  <2> QED BY <2>1, <2>2, <2>3, <2>4
<1> QED BY <1>8, <1>9, <1>10

Words     == INSTANCE FoldTheorems WITH Op <- ReadWord
PastWords == INSTANCE FoldTheorems WITH Op <- ReadPast

(* The flags that the package reads are flags of the command line, and     *)
(* where it reads to the end they are all of them, with their texts.       *)
LEMMA AllRead ==
  ASSUME NEW a \in CommandLines
  PROVE  /\ DOMAIN FlagParse(a).set \subseteq DOMAIN Asked(a)
         /\ FlagParse(a).end # "stray word" => FlagParse(a).set = Asked(a)
         /\ DOMAIN Asked(a) \subseteq Flags
<1> DEFINE n == Len(a)
           X == ReadStates(a)
<1>1. n \in Nat /\ DOMAIN a = 1..n
  BY ConfigAssumption
<1>2. Started \in X
  <2>1. [f \in {} |-> ""] \in [{} -> Values(a)] /\ {} \in SUBSET Flags
    OBVIOUS
  <2>2. [f \in {} |-> ""] \in UNION {[F -> Values(a)] : F \in SUBSET Flags}
    BY <2>1
  <2> QED BY <2>2 DEF Started, ReadStates
<1>3. Words!Steps(X, a)
  <2> SUFFICES ASSUME NEW i \in 1..n, NEW st \in X PROVE ReadWord(st, a[i]) \in X
    BY DEF Words!Steps
  <2> QED BY WordRead
<1>4. PastWords!Steps(X, a)
  <2> SUFFICES ASSUME NEW i \in 1..n, NEW st \in X PROVE ReadPast(st, a[i]) \in X
    BY DEF PastWords!Steps
  <2> QED BY WordRead DEF ReadPast
<1> HIDE DEF X
<1>5. PICK f : Words!Turns(f, X, Started, a)
  BY <1>1, <1>2, <1>3, Words!FoldTurns
<1>6. PICK g : PastWords!Turns(g, X, Started, a)
  BY <1>1, <1>2, <1>4, PastWords!FoldTurns
<1>7. /\ f \in [0..n -> X] /\ f[0] = Started /\ f[n] = Words!Folded(Started, a)
      /\ \A i \in 1..n : f[i] = ReadWord(f[i - 1], a[i])
  BY <1>5 DEF Words!Turns
<1>8. /\ g \in [0..n -> X] /\ g[0] = Started /\ g[n] = PastWords!Folded(Started, a)
      /\ \A i \in 1..n : g[i] = ReadPast(g[i - 1], a[i])
  BY <1>6 DEF PastWords!Turns
<1>9. Words!Folded(Started, a) = FoldLeft(ReadWord, Started, a)
  BY DEF Words!Folded, FoldLeft, Words!FoldLeft, MapThenFoldSet, Words!MapThenFoldSet, Max, Words!Max
<1>10. PastWords!Folded(Started, a) = FoldLeft(ReadPast, Started, a)
  BY DEF PastWords!Folded, FoldLeft, PastWords!FoldLeft, MapThenFoldSet, PastWords!MapThenFoldSet,
         Max, PastWords!Max
<1>11. /\ \A i \in 0..n : f[i] \in X /\ g[i] \in X
       /\ n \in 0..n /\ 0 \in 0..n /\ \A i \in 1..n : i \in 0..n /\ i - 1 \in 0..n
  BY <1>1, <1>7, <1>8
<1> HIDE DEF n
<1> DEFINE Same(i) == \/ f[i] = g[i]
                      \/ f[i].end = "stray word" /\ DOMAIN f[i].set \subseteq DOMAIN g[i].set
           S == {i \in 0..n : Same(i)}
<1>12. 0..n \subseteq S
  <2>1. 0 \in S
    BY <1>7, <1>8, <1>11
  <2>2. ASSUME NEW i \in 1..n, i - 1 \in S PROVE i \in S
    <3> DEFINE old == f[i - 1]
               past == g[i - 1]
    <3>1. /\ i \in 0..n /\ old \in ReadStates(a) /\ past \in ReadStates(a) /\ Same(i - 1)
          /\ f[i] = ReadWord(old, a[i]) /\ g[i] = ReadPast(past, a[i]) /\ i \in 1..Len(a)
      BY <1>7, <1>8, <1>11, <2>2 DEF X, n
    <3>2. DOMAIN past.set \subseteq DOMAIN g[i].set
      BY <3>1, WordRead DEF ReadPast
    <3>3. CASE old = past
      <4>1. CASE f[i].end = "stray word"
        <5>1. f[i].set = old.set
          <6>1. old \in ReadStates(a) /\ i \in 1..Len(a) /\ f[i] = ReadWord(old, a[i])
            BY <3>1
          <6> HIDE DEF old
          <6>2. ReadWord(old, a[i]).end = "stray word" => ReadWord(old, a[i]).set = old.set
            BY <6>1, WordRead
          <6> QED BY <4>1, <6>1, <6>2
        <5>2. g[i] = past
          BY <3>1, <3>3, <4>1 DEF ReadPast
        <5> HIDE DEF old, past
        <5> QED BY <3>1, <3>3, <4>1, <5>1, <5>2
      <4>2. CASE f[i].end # "stray word"
        <5>1. g[i] = f[i]
          BY <3>1, <3>3, <4>2 DEF ReadPast
        <5> QED BY <3>1, <5>1
      <4> QED BY <4>1, <4>2
    <3>4. CASE old.end = "stray word" /\ DOMAIN old.set \subseteq DOMAIN past.set
      <4>1. f[i] = old
        BY <3>1, <3>4, WordRead
      <4> HIDE DEF old, past
      <4> QED BY <3>1, <3>2, <3>4, <4>1
    <3> QED BY <3>1, <3>3, <3>4
  <2> HIDE DEF S
  <2> QED BY <1>1, <2>1, <2>2, UpTo DEF n
<1>13. Same(n) /\ f[n] \in ReadStates(a) /\ g[n] \in ReadStates(a)
  BY <1>11, <1>12 DEF X
<1>14. /\ FlagParse(a).set = f[n].set
       /\ FlagParse(a).end = IF f[n].wants # "" THEN "error" ELSE f[n].end
  <2>1. f[n] = FoldLeft(ReadWord, Started, a)
    BY <1>7, <1>9
  <2>2. f[n] = [f[n] EXCEPT !.end = f[n].end] /\ DOMAIN f[n] = {"set", "wants", "end"}
    BY <1>13 DEF ReadStates
  <2>3. FlagParse(a) = IF f[n].wants # "" THEN [f[n] EXCEPT !.end = "error"] ELSE f[n]
    BY <2>1 DEF FlagParse
  <2> QED BY <2>2, <2>3
<1>15. Asked(a) = g[n].set
  BY <1>8, <1>10 DEF Asked
<1>16. f[n].end = "stray word" => f[n].wants = ""
  BY <1>13 DEF ReadStates
<1>17. DOMAIN g[n].set \subseteq Flags
  BY <1>13 DEF ReadStates
<1> QED BY <1>13, <1>14, <1>15, <1>16, <1>17

(* The settings of a server that starts. *)
LEMMA SettingsAre ==
  ASSUME NEW a, NEW e, ParseConfig(a, e).is = "started", NEW f \in Flags
  PROVE  /\ ParseConfig(a, e).config[f] = Setting(f, Effective(e, FlagParse(a).set, f))
         /\ Accepted(f, Effective(e, FlagParse(a).set, f))
<1> DEFINE V(g) == Effective(e, FlagParse(a).set, g)
<1> HIDE DEF V
<1>1. /\ ParseConfig(a, e).config = [g \in Flags |-> Setting(g, V(g))]
      /\ \A g \in Flags : Accepted(g, V(g))
  BY DEF ParseConfig, Usage, Refused, V
<1>2. ParseConfig(a, e).config[f] = Setting(f, V(f)) /\ Accepted(f, V(f))
  BY <1>1
<1> QED BY <1>2 DEF V

(* Every server that starts is the one that was asked for, for all         *)
(* environments and for all command lines that the flag package reads to   *)
(* their end; whatever the command line, a misspelt switch stops the start *)
(* (config.go:48-174, plc.go:88-100).                                      *)
THEOREM StartsAreAsAsked == ConfigSpec => []StartsAsAsked
<1>1. ASSUME ConfigInv PROVE StartsAsAsked
  <2>0. /\ DOMAIN env = Flags /\ args \in CommandLines
        /\ outcome.is # "starting" => outcome = ParseConfig(args, env)
    BY <1>1, ConfigAssumption DEF ConfigInv
  <2>1. ReadToTheEnd => FlagsTakePriority
    <3> SUFFICES ASSUME ReadToTheEnd, outcome.is = "started", NEW f \in Given
                 PROVE  outcome.config[f] = Setting(f, Asked(args)[f])
      BY DEF FlagsTakePriority
    <3>1. outcome = ParseConfig(args, env)
      BY <2>0
    <3>2. FlagParse(args).set = Asked(args) /\ f \in Flags /\ f \in DOMAIN Asked(args)
      BY <2>0, AllRead DEF ReadToTheEnd, Given
    <3>3. Effective(env, FlagParse(args).set, f) = Asked(args)[f]
      BY <3>2 DEF Effective
    <3>4. outcome.config[f] = Setting(f, Effective(env, FlagParse(args).set, f))
      BY <3>1, <3>2, SettingsAre
    <3> QED BY <3>3, <3>4
  <2>2. ReadToTheEnd => FlagHidesVariable
    <3> SUFFICES ASSUME ReadToTheEnd, outcome.is \in {"started", "refused"}, NEW f \in Given,
                        NEW v \in {"", "true", "false", "bad"}
                 PROVE  LET other == ParseConfig(args, [env EXCEPT ![f] = v])
                        IN  /\ other.is = outcome.is
                            /\ outcome.is = "started" => other.config = outcome.config
      BY DEF FlagHidesVariable
    <3> DEFINE d == [env EXCEPT ![f] = v]
    <3>1. outcome = ParseConfig(args, env)
      BY <2>0
    <3>2. f \in DOMAIN FlagParse(args).set
      BY <2>0, AllRead DEF ReadToTheEnd, Given
    <3>3. \A g \in Flags : g \in DOMAIN FlagParse(args).set \/ d[g] = env[g]
      BY <2>0, <3>2
    <3> HIDE DEF d
    <3>4. /\ ParseConfig(args, d).is = ParseConfig(args, env).is
          /\ ParseConfig(args, env).is = "started" =>
                ParseConfig(args, d).config = ParseConfig(args, env).config
      BY <3>3, FlagsHide
    <3> QED BY <3>1, <3>4 DEF d
  <2>3. MisspeltSwitchRefused
    <3> SUFFICES ASSUME outcome.is = "started", NEW f \in BoolFlags \ Given
                 PROVE  /\ env[f] # "" => env[f] \in DOMAIN Bools /\ outcome.config[f] = Bools[env[f]]
                        /\ env[f] = "" => outcome.config[f] = FALSE
      BY DEF MisspeltSwitchRefused
    <3> DEFINE t == Effective(env, FlagParse(args).set, f)
    <3>1. outcome = ParseConfig(args, env) /\ f \in Flags /\ f \in BoolFlags
      BY <2>0 DEF Flags
    <3>2. f \notin DOMAIN FlagParse(args).set
      BY <2>0, AllRead DEF Given
    <3>3. t = GetenvBoolWith(env, f)
      BY <3>1, <3>2 DEF Effective, BoolFlags
    <3>4. outcome.config[f] = Setting(f, t) /\ Accepted(f, t)
      BY <3>1, SettingsAre
    <3> HIDE DEF t
    <3>5. t \in DOMAIN Bools /\ outcome.config[f] = Bools[t]
      <4>1. f \notin {"port", "queue-size"} /\ f # "timeout" /\ f # "listen"
        BY <3>1 DEF BoolFlags
      <4>2. Setting(f, t) = Bools[t]
        BY <3>1, <4>1 DEF Setting
      <4> QED BY <3>1, <3>4, <4>2, SwitchAccepted
    <3> QED BY <3>1, <3>3, <3>5, SwitchesAreOff DEF GetenvBoolWith
  <2>4. DialsWhatWasAsked
    <3> SUFFICES ASSUME outcome.is = "started"
                 PROVE  NewConnection(outcome.config) = <<outcome.config["frame"], outcome.config["transport"]>>
      BY DEF DialsWhatWasAsked
    <3> DEFINE V(f) == Effective(env, FlagParse(args).set, f)
    <3>1. outcome = ParseConfig(args, env) /\ "frame" \in Flags /\ "transport" \in Flags
      BY <2>0 DEF Flags, StringFlags
    <3>2. /\ outcome.config["frame"] = V("frame") /\ outcome.config["transport"] = V("transport")
          /\ Accepted("frame", V("frame")) /\ Accepted("transport", V("transport"))
          /\ Compatible(V("frame"), V("transport"))
      <4>1. /\ outcome.config["frame"] = Setting("frame", V("frame")) /\ Accepted("frame", V("frame"))
            /\ outcome.config["transport"] = Setting("transport", V("transport"))
            /\ Accepted("transport", V("transport"))
        BY <3>1, SettingsAre
      <4>2. \A v : Setting("frame", v) = v /\ Setting("transport", v) = v
        BY DEF Setting, BoolFlags
      <4> HIDE DEF V
      <4>3. Compatible(V("frame"), V("transport"))
        BY <3>1 DEF ParseConfig, Usage, Refused, V
      <4> QED BY <4>1, <4>2, <4>3
    <3> HIDE DEF V
    <3>3. V("frame") \in {"3e", "4e"} /\ V("transport") \in {"tcp", "udp"}
      BY <3>2 DEF Accepted, BoolFlags
    <3> QED BY <3>2, <3>3 DEF NewConnection, Compatible
  <2>5. TokenNotShown
    <3> DEFINE d == [env EXCEPT !["token"] = ""]
    <3>1. \A f \in Flags : FlagDefault(d, f) = FlagDefault(env, f)
      BY <2>0 DEF FlagDefault, GetenvWith, BoolFlags
    <3>2. {FlagDefault(d, f) : f \in Flags} = {FlagDefault(env, f) : f \in Flags}
      BY <3>1
    <3> HIDE DEF d
    <3>3. ParseConfig(args, d).shows = ParseConfig(args, env).shows
      BY <3>2 DEF ParseConfig, Usage, Refused
    <3> QED BY <2>0, <3>3 DEF TokenNotShown, d
  <2> QED BY <2>1, <2>2, <2>3, <2>4, <2>5 DEF StartsAsAsked
<1> QED BY <1>1, ConfigInvariance, PTL

-----------------------------------------------------------------------------
(* The random requests. *)

Sources == INSTANCE FoldTheorems WITH Op <- AddSource

Source     == [native : BOOLEAN, idx : Nat, offset : Int]
AllSources == [srcs : Seq(Source), bitWords : Seq(Nat), natives : Seq(Nat)]

(* What one bit entry of a read adds. *)
LEMMA SourceAdded ==
  ASSUME NEW s \in AllSources, NEW a \in Address
  PROVE  /\ AddSource(s, a) \in AllSources
         /\ IsWordBit(a) => AddSource(s, a) =
               [srcs |-> Append(s.srcs, [native |-> FALSE, idx |-> Len(s.bitWords), offset |-> a.bit]),
                bitWords |-> Append(s.bitWords, a.addr), natives |-> s.natives]
         /\ ~IsWordBit(a) => AddSource(s, a) =
               [srcs |-> Append(s.srcs, [native |-> TRUE, idx |-> Len(s.natives), offset |-> 0]),
                bitWords |-> s.bitWords, natives |-> Append(s.natives, a.addr)]
<1>1. s.srcs \in Seq(Source) /\ s.bitWords \in Seq(Nat) /\ s.natives \in Seq(Nat)
  BY DEF AllSources
<1>2. a.addr \in Nat /\ a.bit \in Int
  BY DEF Address
<1>3. s = [srcs |-> s.srcs, bitWords |-> s.bitWords, natives |-> s.natives]
  BY DEF AllSources
<1>4. CASE IsWordBit(a)
  <2> DEFINE src == [native |-> FALSE, idx |-> Len(s.bitWords), offset |-> a.bit]
  <2>1. AddSource(s, a) = [srcs |-> Append(s.srcs, src),
                           bitWords |-> Append(s.bitWords, a.addr), natives |-> s.natives]
    BY <1>3, <1>4 DEF AddSource
  <2>2. src \in Source
    BY <1>1, <1>2 DEF Source
  <2>3. Append(s.srcs, src) \in Seq(Source) /\ Append(s.bitWords, a.addr) \in Seq(Nat)
    <3> HIDE DEF src
    <3> QED BY <1>1, <1>2, <2>2
  <2>4. AddSource(s, a) \in AllSources
    <3> HIDE DEF src
    <3> QED BY <1>1, <2>1, <2>3 DEF AllSources
  <2> QED BY <1>4, <2>1, <2>4
<1>5. CASE ~IsWordBit(a)
  <2> DEFINE src == [native |-> TRUE, idx |-> Len(s.natives), offset |-> 0]
  <2>1. AddSource(s, a) = [srcs |-> Append(s.srcs, src),
                           bitWords |-> s.bitWords, natives |-> Append(s.natives, a.addr)]
    BY <1>3, <1>5 DEF AddSource
  <2>2. src \in Source
    BY <1>1 DEF Source
  <2>3. Append(s.srcs, src) \in Seq(Source) /\ Append(s.natives, a.addr) \in Seq(Nat)
    <3> HIDE DEF src
    <3> QED BY <1>1, <1>2, <2>2
  <2>4. AddSource(s, a) \in AllSources
    <3> HIDE DEF src
    <3> QED BY <1>1, <2>1, <2>3 DEF AllSources
  <2> QED BY <1>5, <2>1, <2>4
<1> QED BY <1>4, <1>5

(* src says where among the sources s the value at the address a will be.  *)
Located(src, s, a) ==
    IF IsWordBit(a)
    THEN /\ ~src.native /\ src.offset = a.bit
         /\ src.idx + 1 \in 1..Len(s.bitWords) /\ s.bitWords[src.idx + 1] = a.addr
    ELSE /\ src.native
         /\ src.idx + 1 \in 1..Len(s.natives) /\ s.natives[src.idx + 1] = a.addr

(* s says it of the first n of the bit entries bs. *)
Sorted(s, bs, n) ==
    /\ s \in AllSources /\ Len(s.srcs) = n
    /\ \A i \in 1..n : Located(s.srcs[i], s, bs[i])

(* Where it is there, it is in longer sources too. *)
LEMMA LocatedStays ==
  ASSUME NEW src, NEW a, NEW s, NEW t, Located(src, s, a),
         \A k \in 1..Len(s.bitWords) : k \in 1..Len(t.bitWords) /\ t.bitWords[k] = s.bitWords[k],
         \A k \in 1..Len(s.natives) : k \in 1..Len(t.natives) /\ t.natives[k] = s.natives[k]
  PROVE  Located(src, t, a)
<1> DEFINE k == src.idx + 1
<1>1. Located(src, s, a) <=>
         IF IsWordBit(a)
         THEN ~src.native /\ src.offset = a.bit /\ k \in 1..Len(s.bitWords) /\ s.bitWords[k] = a.addr
         ELSE src.native /\ k \in 1..Len(s.natives) /\ s.natives[k] = a.addr
  BY DEF Located
<1>2. Located(src, t, a) <=>
         IF IsWordBit(a)
         THEN ~src.native /\ src.offset = a.bit /\ k \in 1..Len(t.bitWords) /\ t.bitWords[k] = a.addr
         ELSE src.native /\ k \in 1..Len(t.natives) /\ t.natives[k] = a.addr
  BY DEF Located
<1> HIDE DEF k
<1> QED BY <1>1, <1>2

(* The next entry leaves those before it where they are. *)
LEMMA AddKeepsSorted ==
  ASSUME NEW bs \in Seq(Address), NEW n \in 1..Len(bs), NEW s, Sorted(s, bs, n - 1)
  PROVE  Sorted(AddSource(s, bs[n]), bs, n)
<1> DEFINE a == bs[n]
           t == AddSource(s, a)
<1>1. a \in Address /\ a.addr \in Nat /\ a.bit \in Int /\ n \in Nat
  <2>1. a \in Address /\ n \in Nat
    OBVIOUS
  <2> QED BY <2>1 DEF Address
<1>2. s \in AllSources /\ Len(s.srcs) = n - 1
  BY DEF Sorted
<1>3. CASE IsWordBit(a)
  <2> DEFINE src == [native |-> FALSE, idx |-> Len(s.bitWords), offset |-> a.bit]
  <2>1. /\ t.srcs = Append(s.srcs, src)
        /\ t.bitWords = Append(s.bitWords, a.addr) /\ t.natives = s.natives
        /\ t \in AllSources
    <3> HIDE DEF a
    <3>1. t \in AllSources /\ t = AddSource(s, a)
      BY <1>1, <1>2, SourceAdded
    <3>2. PICK rec : /\ t = rec
                     /\ rec = [srcs |-> Append(s.srcs, src), bitWords |-> Append(s.bitWords, a.addr),
                               natives |-> s.natives]
      BY <1>1, <1>2, <1>3, SourceAdded
    <3> QED BY <3>1, <3>2
  <2> HIDE DEF t
  <2>2. Len(t.srcs) = n /\ t.srcs[n] = src /\ \A i \in 1..n - 1 : t.srcs[i] = s.srcs[i]
    BY <1>1, <1>2, <2>1 DEF AllSources
  <2>3. /\ Len(t.bitWords) = Len(s.bitWords) + 1 /\ Len(s.bitWords) \in Nat
        /\ t.bitWords[Len(s.bitWords) + 1] = a.addr
        /\ \A k \in 1..Len(s.bitWords) : t.bitWords[k] = s.bitWords[k]
    BY <1>1, <1>2, <2>1 DEF AllSources
  <2>4. Located(t.srcs[n], t, a)
    BY <1>3, <2>2, <2>3 DEF Located
  <2>5. ASSUME NEW i \in 1..n - 1 PROVE Located(t.srcs[i], t, bs[i])
    <3>1. Located(s.srcs[i], s, bs[i])
      BY DEF Sorted
    <3>2. t.srcs[i] = s.srcs[i]
      BY <2>2
    <3>3. /\ \A k \in 1..Len(s.bitWords) :
                k \in 1..Len(t.bitWords) /\ t.bitWords[k] = s.bitWords[k]
          /\ \A k \in 1..Len(s.natives) : k \in 1..Len(t.natives) /\ t.natives[k] = s.natives[k]
      BY <2>1, <2>3
    <3> QED BY <3>1, <3>2, <3>3, LocatedStays
  <2> HIDE DEF a
  <2> QED BY <1>1, <2>1, <2>2, <2>4, <2>5 DEF Sorted, a, t
<1>4. CASE ~IsWordBit(a)
  <2> DEFINE src == [native |-> TRUE, idx |-> Len(s.natives), offset |-> 0]
  <2>1. /\ t.srcs = Append(s.srcs, src)
        /\ t.natives = Append(s.natives, a.addr) /\ t.bitWords = s.bitWords
        /\ t \in AllSources
    <3> HIDE DEF a
    <3>1. t \in AllSources /\ t = AddSource(s, a)
      BY <1>1, <1>2, SourceAdded
    <3>2. PICK rec : /\ t = rec
                     /\ rec = [srcs |-> Append(s.srcs, src), bitWords |-> s.bitWords,
                               natives |-> Append(s.natives, a.addr)]
      BY <1>1, <1>2, <1>4, SourceAdded
    <3> QED BY <3>1, <3>2
  <2> HIDE DEF t
  <2>2. Len(t.srcs) = n /\ t.srcs[n] = src /\ \A i \in 1..n - 1 : t.srcs[i] = s.srcs[i]
    BY <1>1, <1>2, <2>1 DEF AllSources
  <2>3. /\ Len(t.natives) = Len(s.natives) + 1 /\ Len(s.natives) \in Nat
        /\ t.natives[Len(s.natives) + 1] = a.addr
        /\ \A k \in 1..Len(s.natives) : t.natives[k] = s.natives[k]
    BY <1>1, <1>2, <2>1 DEF AllSources
  <2>4. Located(t.srcs[n], t, a)
    BY <1>4, <2>2, <2>3 DEF Located
  <2>5. ASSUME NEW i \in 1..n - 1 PROVE Located(t.srcs[i], t, bs[i])
    <3>1. Located(s.srcs[i], s, bs[i])
      BY DEF Sorted
    <3>2. t.srcs[i] = s.srcs[i]
      BY <2>2
    <3>3. /\ \A k \in 1..Len(s.bitWords) :
                k \in 1..Len(t.bitWords) /\ t.bitWords[k] = s.bitWords[k]
          /\ \A k \in 1..Len(s.natives) : k \in 1..Len(t.natives) /\ t.natives[k] = s.natives[k]
      BY <2>1, <2>3
    <3> QED BY <3>1, <3>2, <3>3, LocatedStays
  <2> HIDE DEF a
  <2> QED BY <1>1, <2>1, <2>2, <2>4, <2>5 DEF Sorted, a, t
<1> QED BY <1>3, <1>4

(* So every bit entry has its place, the last one included. *)
LEMMA SourcesSorted ==
  ASSUME NEW r \in RandomReads
  PROVE  Sorted(BitSources(r), r.bits, Len(r.bits))
<1> DEFINE n == Len(r.bits)
<1>1. r.bits \in Seq(Address) /\ n \in Nat /\ DOMAIN r.bits = 1..n
  BY DEF RandomReads
<1>2. NoSources \in AllSources
  BY DEF NoSources, AllSources
<1>3. PICK f : Sources!Turns(f, AllSources, NoSources, r.bits)
  <2>1. ASSUME NEW i \in 1..n, NEW s \in AllSources PROVE AddSource(s, r.bits[i]) \in AllSources
    <3>1. r.bits[i] \in Address
      BY <1>1
    <3> QED BY <3>1, SourceAdded
  <2> HIDE DEF n
  <2> QED BY <1>1, <1>2, <2>1, Sources!FoldTurns DEF Sources!Steps, n
<1>4. f[0] = NoSources /\ f[n] = Sources!Folded(NoSources, r.bits)
      /\ \A i \in 1..n : f[i] = AddSource(f[i - 1], r.bits[i])
  BY <1>3 DEF Sources!Turns
<1>5. Sources!Folded(NoSources, r.bits) = BitSources(r)
  BY DEF BitSources, Sources!Folded, FoldLeft, Sources!FoldLeft, MapThenFoldSet,
         Sources!MapThenFoldSet, Max, Sources!Max
<1> DEFINE S == {i \in 0..n : Sorted(f[i], r.bits, i)}
<1>6. 0 \in S
  <2>1. Sorted(NoSources, r.bits, 0)
    BY <1>2 DEF Sorted, NoSources
  <2> QED BY <1>1, <1>4, <2>1
<1>7. ASSUME NEW i \in 1..n, i - 1 \in S PROVE i \in S
  <2>1. Sorted(f[i - 1], r.bits, i - 1) /\ i \in 0..n
    BY <1>7
  <2>2. Sorted(AddSource(f[i - 1], r.bits[i]), r.bits, i)
    BY <1>1, <2>1, AddKeepsSorted
  <2> QED BY <1>4, <2>1, <2>2
<1>8. n \in S
  <2> HIDE DEF S, n
  <2>1. 0..n \subseteq S
    BY <1>1, <1>6, <1>7, UpTo
  <2> QED BY <1>1, <2>1
<1> QED BY <1>4, <1>5, <1>8

(* The answer built from what a read brings back has every value in the    *)
(* place of its entry, and no entry is a K address.                        *)
LEMMA ReadsAnswerInOrder ==
  ASSUME NEW r \in RandomReads, ~Malformed(r)
  PROVE  LET ans == ReadAnswer(r, ReadCall(r))
         IN  /\ ans.words = [i \in DOMAIN r.words |-> words[r.words[i].addr]]
             /\ ans.dwords = [i \in DOMAIN r.dwords |->
                    <<words[r.dwords[i].addr], words[r.dwords[i].addr + 1]>>]
             /\ ans.bits = [i \in DOMAIN r.bits |->
                    IF IsWordBit(r.bits[i]) THEN r.bits[i].bit \in words[r.bits[i].addr]
                    ELSE bits[r.bits[i].addr]]
             /\ \A e \in ToSet(r.words) \cup ToSet(r.dwords) \cup ToSet(r.bits) : ~IsK(e)
<1> DEFINE s == BitSources(r)
           c == ReadCall(r)
           vals == WordVals(c)
           ws == Addrs(r.words)
           ans == ReadAnswer(r, c)
<1>1. /\ r.words \in Seq(Address) /\ r.dwords \in Seq(Address) /\ r.bits \in Seq(Address)
      /\ r.op = "read"
  BY DEF RandomReads
<1>2. s \in AllSources /\ Len(s.srcs) = Len(r.bits)
      /\ \A i \in 1..Len(r.bits) : Located(s.srcs[i], s, r.bits[i])
  BY SourcesSorted DEF Sorted
<1>3. ws \in Seq(Nat) /\ Len(ws) = Len(r.words) /\ DOMAIN ws = DOMAIN r.words
      /\ \A i \in 1..Len(ws) : ws[i] = r.words[i].addr
  <2> DEFINE n == Len(r.words)
  <2>1. n \in Nat /\ DOMAIN r.words = 1..n /\ \A i \in 1..n : r.words[i] \in Address
    BY <1>1
  <2>2. \A i \in 1..n : r.words[i].addr \in Nat
    BY <2>1 DEF Address
  <2>3. ws = [i \in 1..n |-> r.words[i].addr]
    BY <2>1 DEF Addrs
  <2> HIDE DEF ws, n
  <2>4. ws \in Seq(Nat) /\ Len(ws) = n
    BY <2>1, <2>2, <2>3
  <2> QED BY <2>1, <2>3, <2>4 DEF n
<1>4. /\ c.words = ws \o s.bitWords /\ c.dwords = Addrs(r.dwords) /\ c.bits = s.natives
  BY DEF ReadCall
<1> HIDE DEF s, c, ws
<1>5. /\ s.bitWords \in Seq(Nat) /\ s.natives \in Seq(Nat) /\ s.srcs \in Seq(Source)
  BY <1>2 DEF AllSources
<1>6. /\ DOMAIN vals = 1..Len(ws) + Len(s.bitWords) /\ Len(ws) \in Nat /\ Len(s.bitWords) \in Nat
      /\ \A i \in 1..Len(ws) : vals[i] = words[ws[i]]
      /\ \A k \in 1..Len(s.bitWords) : vals[Len(ws) + k] = words[s.bitWords[k]]
      /\ vals = [i \in 1..Len(ws) + Len(s.bitWords) |-> vals[i]]
  <2>1. DOMAIN c.words = 1..Len(ws) + Len(s.bitWords) /\ Len(ws) \in Nat /\ Len(s.bitWords) \in Nat
    <3>0. ws \in Seq(Nat) /\ s.bitWords \in Seq(Nat) /\ c.words = ws \o s.bitWords
      BY <1>3, <1>4, <1>5
    <3>1. c.words \in Seq(Nat) /\ Len(c.words) = Len(ws) + Len(s.bitWords)
      BY <3>0, ConcatProperties
    <3>2. Len(ws) \in Nat /\ Len(s.bitWords) \in Nat /\ DOMAIN c.words = 1..Len(c.words)
      BY <3>0, <3>1, LenProperties
    <3> QED BY <3>1, <3>2
  <2>2. \A i \in 1..Len(ws) : c.words[i] = ws[i]
    BY <1>3, <1>4, <1>5, <2>1, ConcatProperties
  <2>3. ASSUME NEW k \in 1..Len(s.bitWords) PROVE c.words[Len(ws) + k] = s.bitWords[k]
    <3>1. /\ Len(ws) + k \in 1..Len(ws) + Len(s.bitWords)
          /\ ~(Len(ws) + k <= Len(ws)) /\ Len(ws) + k - Len(ws) = k
      BY <2>1
    <3>2. ws \in Seq(Nat) /\ s.bitWords \in Seq(Nat) /\ c.words = ws \o s.bitWords
      BY <1>3, <1>4, <1>5
    <3> QED BY <3>1, <3>2, ConcatProperties
  <2>4. \A k \in 1..Len(s.bitWords) : Len(ws) + k \in 1..Len(ws) + Len(s.bitWords)
    BY <2>1
  <2>5. \A k \in 1..Len(ws) : k \in 1..Len(ws) + Len(s.bitWords)
    BY <2>1
  <2> QED BY <2>1, <2>2, <2>3, <2>4, <2>5 DEF WordVals
<1> HIDE DEF vals
<1>7. ans.words = [i \in DOMAIN r.words |-> words[r.words[i].addr]]
  <2>1. ans.words = SubSeq(vals, 1, Len(r.words))
    BY DEF ReadAnswer, vals
  <2> DEFINE V == {vals[i] : i \in 1..Len(ws) + Len(s.bitWords)}
  <2>2. vals \in Seq(V) /\ Len(vals) = Len(ws) + Len(s.bitWords)
    BY <1>6
  <2>3. SubSeq(vals, 1, Len(ws)) = [i \in 1..Len(ws) |-> vals[i]]
    <3> HIDE DEF V
    <3>1. /\ SubSeq(vals, 1, Len(ws)) \in Seq(V) /\ Len(SubSeq(vals, 1, Len(ws))) = Len(ws)
          /\ \A i \in 1..Len(ws) : SubSeq(vals, 1, Len(ws))[i] = vals[i]
      BY <1>6, <2>2
    <3> QED BY <3>1
  <2>4. DOMAIN r.words = 1..Len(ws) /\ \A i \in 1..Len(ws) : vals[i] = words[r.words[i].addr]
    <3>1. DOMAIN r.words = 1..Len(ws)
      BY <1>1, <1>3
    <3> QED BY <1>3, <1>6, <3>1
  <2> HIDE DEF ans
  <2> QED BY <1>3, <2>1, <2>3, <2>4
<1>8. ans.dwords = [i \in DOMAIN r.dwords |->
          <<words[r.dwords[i].addr], words[r.dwords[i].addr + 1]>>]
  BY <1>4 DEF ReadAnswer, DwordVals, Addrs
<1>9. ans.bits = [i \in DOMAIN r.bits |->
          IF IsWordBit(r.bits[i]) THEN r.bits[i].bit \in words[r.bits[i].addr]
          ELSE bits[r.bits[i].addr]]
  <2> DEFINE Bit(src) == IF src.native THEN NativeVals(c)[src.idx + 1]
                         ELSE src.offset \in FoldedWord(r, vals, src)
             Value(a) == IF IsWordBit(a) THEN a.bit \in words[a.addr] ELSE bits[a.addr]
  <2>1. ans.bits = [i \in DOMAIN s.srcs |-> Bit(s.srcs[i])]
    BY DEF ReadAnswer, vals, s
  <2>2. DOMAIN s.srcs = DOMAIN r.bits /\ DOMAIN r.bits = 1..Len(r.bits)
    BY <1>1, <1>2, <1>5
  <2>3. ASSUME NEW i \in 1..Len(r.bits) PROVE Bit(s.srcs[i]) = Value(r.bits[i])
    <3>1. Located(s.srcs[i], s, r.bits[i]) /\ s.srcs[i].idx \in Nat
      <4>1. s.srcs[i] \in Source
        BY <1>2, <1>5
      <4> QED BY <1>2, <4>1 DEF Source
    <3>2. CASE IsWordBit(r.bits[i])
      <4> DEFINE k == s.srcs[i].idx + 1
      <4>1. /\ ~s.srcs[i].native /\ s.srcs[i].offset = r.bits[i].bit
            /\ k \in 1..Len(s.bitWords) /\ s.bitWords[k] = r.bits[i].addr
        BY <3>1, <3>2 DEF Located
      <4>2. FoldedWord(r, vals, s.srcs[i]) = vals[Len(ws) + k]
        <5>1. Len(r.words) + s.srcs[i].idx + 1 = Len(ws) + k
          <6>1. Len(ws) \in Nat /\ Len(r.words) = Len(ws) /\ s.srcs[i].idx \in Nat
            BY <1>3, <1>6, <3>1
          <6> QED BY <6>1
        <5> QED BY <5>1 DEF FoldedWord
      <4>3. vals[Len(ws) + k] = words[r.bits[i].addr]
        <5> HIDE DEF k
        <5> QED BY <1>6, <4>1
      <4> QED BY <3>2, <4>1, <4>2, <4>3
    <3>3. CASE ~IsWordBit(r.bits[i])
      <4> DEFINE k == s.srcs[i].idx + 1
      <4>1. /\ s.srcs[i].native
            /\ k \in 1..Len(s.natives) /\ s.natives[k] = r.bits[i].addr
        BY <3>1, <3>3 DEF Located
      <4>2. NativeVals(c)[k] = bits[r.bits[i].addr]
        <5> HIDE DEF k
        <5> QED BY <1>4, <1>5, <4>1 DEF NativeVals
      <4> QED BY <3>3, <4>1, <4>2
    <3> QED BY <3>2, <3>3
  <2> HIDE DEF Bit, Value
  <2>4. ans.bits = [i \in DOMAIN r.bits |-> Value(r.bits[i])]
    BY <2>1, <2>2, <2>3
  <2> QED BY <2>4 DEF Value
<1>10. ASSUME NEW e \in ToSet(r.words) \cup ToSet(r.dwords) \cup ToSet(r.bits) PROVE ~IsK(e)
  <2>1. CASE e \in ToSet(r.words) \cup ToSet(r.dwords)
    <3>1. IsWordDevice(e) /\ e \in Address
      <4>1. ~WordAddrRefused(e)
        BY <1>1, <2>1 DEF Malformed, Addr
      <4>2. e \in Address
        BY <1>1, <2>1 DEF ToSet
      <4> QED BY <4>1, <4>2 DEF WordAddrRefused
    <3> QED BY <3>1 DEF Address
  <2>2. CASE e \in ToSet(r.bits)
    BY <1>1, <2>2 DEF Malformed, Addr, BitAddrRefused
  <2> QED BY <2>1, <2>2, <1>10
<1> QED BY <1>7, <1>8, <1>9, <1>10 DEF c

PutWords   == INSTANCE FoldTheorems WITH Op <- PutWord
PutDwords  == INSTANCE FoldTheorems WITH Op <- PutDword
PutBits    == INSTANCE FoldTheorems WITH Op <- PutBit
SetWords   == INSTANCE FoldTheorems WITH Op <- SetWord
SetDwords  == INSTANCE FoldTheorems WITH Op <- SetDword
SetBits    == INSTANCE FoldTheorems WITH Op <- SetBit
SetNatives == INSTANCE FoldTheorems WITH Op <- SetNative
AddBits    == INSTANCE FoldTheorems WITH Op <- AddBit

Machine == [words : WordDevices, bits : BitDevices]

(* The folds of the model are those of FoldTheorems. *)
LEMMA Folds ==
  ASSUME NEW m, NEW es
  PROVE  /\ FoldLeft(PutWord, m, es) = PutWords!Folded(m, es)
         /\ FoldLeft(PutDword, m, es) = PutDwords!Folded(m, es)
         /\ FoldLeft(PutBit, m, es) = PutBits!Folded(m, es)
         /\ FoldLeft(SetWord, m, es) = SetWords!Folded(m, es)
         /\ FoldLeft(SetDword, m, es) = SetDwords!Folded(m, es)
         /\ FoldLeft(SetBit, m, es) = SetBits!Folded(m, es)
         /\ FoldLeft(SetNative, m, es) = SetNatives!Folded(m, es)
         /\ FoldLeft(AddBit, m, es) = AddBits!Folded(m, es)
<1> USE DEF FoldLeft, MapThenFoldSet, Max
<1>1. FoldLeft(PutWord, m, es) = PutWords!Folded(m, es)
  BY DEF PutWords!Folded, PutWords!FoldLeft, PutWords!MapThenFoldSet, PutWords!Max
<1>2. FoldLeft(PutDword, m, es) = PutDwords!Folded(m, es)
  BY DEF PutDwords!Folded, PutDwords!FoldLeft, PutDwords!MapThenFoldSet, PutDwords!Max
<1>3. FoldLeft(PutBit, m, es) = PutBits!Folded(m, es)
  BY DEF PutBits!Folded, PutBits!FoldLeft, PutBits!MapThenFoldSet, PutBits!Max
<1>4. FoldLeft(SetWord, m, es) = SetWords!Folded(m, es)
  BY DEF SetWords!Folded, SetWords!FoldLeft, SetWords!MapThenFoldSet, SetWords!Max
<1>5. FoldLeft(SetDword, m, es) = SetDwords!Folded(m, es)
  BY DEF SetDwords!Folded, SetDwords!FoldLeft, SetDwords!MapThenFoldSet, SetDwords!Max
<1>6. FoldLeft(SetBit, m, es) = SetBits!Folded(m, es)
  BY DEF SetBits!Folded, SetBits!FoldLeft, SetBits!MapThenFoldSet, SetBits!Max
<1>7. FoldLeft(SetNative, m, es) = SetNatives!Folded(m, es)
  BY DEF SetNatives!Folded, SetNatives!FoldLeft, SetNatives!MapThenFoldSet, SetNatives!Max
<1>8. FoldLeft(AddBit, m, es) = AddBits!Folded(m, es)
  BY DEF AddBits!Folded, AddBits!FoldLeft, AddBits!MapThenFoldSet, AddBits!Max
<1> QED BY <1>1, <1>2, <1>3, <1>4, <1>5, <1>6, <1>7, <1>8

(* What an entry says of the memory is what its argument makes of the      *)
(* words or of the bits, which keep their types.                           *)
LEMMA PutIsSet ==
  ASSUME NEW m \in Machine
  PROVE  /\ \A e \in Entry(Word) :
               /\ SetWord(m.words, Write(e)) \in WordDevices
               /\ PutWord(m, e) = [words |-> SetWord(m.words, Write(e)), bits |-> m.bits]
         /\ \A e \in Entry(Word \X Word) :
               /\ SetDword(m.words, Write(e)) \in WordDevices
               /\ PutDword(m, e) = [words |-> SetDword(m.words, Write(e)), bits |-> m.bits]
         /\ \A e \in Entry(BOOLEAN) : IsWordBit(e.at) =>
               /\ SetBit(m.words, Write(e)) \in WordDevices
               /\ PutBit(m, e) = [words |-> SetBit(m.words, Write(e)), bits |-> m.bits]
         /\ \A e \in Entry(BOOLEAN) : ~IsWordBit(e.at) =>
               /\ SetNative(m.bits, Write(e)) \in BitDevices
               /\ PutBit(m, e) = [words |-> m.words, bits |-> SetNative(m.bits, Write(e))]
<1>1. m = [words |-> m.words, bits |-> m.bits] /\ m.words \in WordDevices /\ m.bits \in BitDevices
  BY DEF Machine
<1> DEFINE ws == m.words
           bs == m.bits
<1> HIDE DEF ws, bs
<1>2. m = [words |-> ws, bits |-> bs] /\ ws \in WordDevices /\ bs \in BitDevices
  BY <1>1 DEF ws, bs
<1>3. ASSUME NEW e \in Entry(Word)
      PROVE  /\ SetWord(ws, Write(e)) \in WordDevices
             /\ PutWord(m, e) = [words |-> SetWord(ws, Write(e)), bits |-> bs]
  <2>1. e.value \in Word
    BY DEF Entry
  <2>2. SetWord(ws, Write(e)) = [ws EXCEPT ![e.at.addr] = e.value]
    BY DEF SetWord, Write
  <2>3. PutWord(m, e) = [words |-> [ws EXCEPT ![e.at.addr] = e.value], bits |-> bs]
    BY <1>2 DEF PutWord
  <2>4. [ws EXCEPT ![e.at.addr] = e.value] \in WordDevices
    BY <1>2, <2>1 DEF WordDevices
  <2> QED BY <2>2, <2>3, <2>4
<1>4. ASSUME NEW e \in Entry(Word \X Word)
      PROVE  /\ SetDword(ws, Write(e)) \in WordDevices
             /\ PutDword(m, e) = [words |-> SetDword(ws, Write(e)), bits |-> bs]
  <2> DEFINE new == [[ws EXCEPT ![e.at.addr] = e.value[1]] EXCEPT ![e.at.addr + 1] = e.value[2]]
  <2>1. e.value[1] \in Word /\ e.value[2] \in Word
    BY DEF Entry
  <2>2. SetDword(ws, Write(e)) = new
    BY DEF SetDword, Write
  <2>3. PutDword(m, e) = [words |-> new, bits |-> bs]
    <3> DEFINE w1 == [ws EXCEPT ![e.at.addr] = e.value[1]]
               m1 == [words |-> w1, bits |-> bs]
    <3>1. PutDword(m, e) = [[m EXCEPT !.words[e.at.addr] = e.value[1]]
                               EXCEPT !.words[e.at.addr + 1] = e.value[2]]
      BY Zenon DEF PutDword
    <3>2. [m EXCEPT !.words[e.at.addr] = e.value[1]] = m1
      BY <1>2
    <3>3. [m1 EXCEPT !.words[e.at.addr + 1] = e.value[2]] = [words |-> new, bits |-> bs]
      <4>1. m1.words = w1
        OBVIOUS
      <4> HIDE DEF w1
      <4>2. [m1 EXCEPT !.words[e.at.addr + 1] = e.value[2]]
              = [words |-> [w1 EXCEPT ![e.at.addr + 1] = e.value[2]], bits |-> bs]
        BY <4>1
      <4> QED BY <4>2 DEF w1
    <3> QED BY <3>1, <3>2, <3>3
  <2>4. new \in WordDevices
    BY <1>2, <2>1 DEF WordDevices
  <2> QED BY <2>2, <2>3, <2>4
<1>5. ASSUME NEW e \in Entry(BOOLEAN), IsWordBit(e.at)
      PROVE  /\ SetBit(ws, Write(e)) \in WordDevices
             /\ PutBit(m, e) = [words |-> SetBit(ws, Write(e)), bits |-> bs]
  <2>1. e.at.bit \in 0..WordBits - 1
    BY <1>5, RandomAssumption DEF Entry, Address, IsWordBit
  <2> QED BY <1>2, <1>5, <2>1 DEF SetBit, Write, PutBit, WordDevices, Word
<1>6. ASSUME NEW e \in Entry(BOOLEAN), ~IsWordBit(e.at)
      PROVE  /\ SetNative(bs, Write(e)) \in BitDevices
             /\ PutBit(m, e) = [words |-> ws, bits |-> SetNative(bs, Write(e))]
  BY <1>2, <1>6 DEF SetNative, Write, PutBit, BitDevices, Entry
<1> QED BY <1>3, <1>4, <1>5, <1>6 DEF ws, bs

(* Entry by entry, the words of a write come to what the job makes of its  *)
(* arguments.                                                              *)
LEMMA PutWordsFold ==
  ASSUME NEW m \in Machine, NEW es \in Seq(Entry(Word))
  PROVE  /\ FoldLeft(SetWord, m.words, WriteArgs(es)) \in WordDevices
         /\ FoldLeft(PutWord, m, es) =
               [words |-> FoldLeft(SetWord, m.words, WriteArgs(es)), bits |-> m.bits]
<1> DEFINE n == Len(es)
           made == WriteArgs(es)
<1>1. n \in Nat /\ DOMAIN es = 1..n /\ \A i \in 1..n : es[i] \in Entry(Word)
  OBVIOUS
<1>2. Len(made) = n /\ DOMAIN made = 1..n /\ \A i \in 1..n : made[i] = Write(es[i])
  BY <1>1 DEF WriteArgs
<1> HIDE DEF n, made
<1>3. m.words \in WordDevices /\ m = [words |-> m.words, bits |-> m.bits] /\ m.bits \in BitDevices
  BY DEF Machine
<1>4. PICK f : PutWords!Turns(f, Machine, m, es)
  <2>1. ASSUME NEW i \in 1..n, NEW x \in Machine PROVE PutWord(x, es[i]) \in Machine
    <3>1. /\ PutWord(x, es[i]) = [words |-> SetWord(x.words, Write(es[i])), bits |-> x.bits]
          /\ SetWord(x.words, Write(es[i])) \in WordDevices
      BY <1>1, PutIsSet
    <3> QED BY <3>1 DEF Machine
  <2> QED BY <1>1, <2>1, PutWords!FoldTurns DEF PutWords!Steps, n
<1>5. PICK g : SetWords!Turns(g, WordDevices, m.words, made)
  <2>1. ASSUME NEW i \in 1..n, NEW w \in WordDevices PROVE SetWord(w, made[i]) \in WordDevices
    <3> DEFINE x == [words |-> w, bits |-> m.bits]
    <3>1. x \in Machine /\ x.words = w
      BY <1>3 DEF Machine
    <3> HIDE DEF x
    <3>2. SetWord(x.words, Write(es[i])) \in WordDevices
      BY <1>1, <3>1, PutIsSet
    <3> QED BY <1>2, <3>1, <3>2
  <2> QED BY <1>1, <1>2, <1>3, <2>1, SetWords!FoldTurns DEF SetWords!Steps
<1>6. /\ f[0] = m /\ f[n] = FoldLeft(PutWord, m, es)
      /\ \A i \in 1..n : f[i] = PutWord(f[i - 1], es[i])
  BY <1>4, Folds DEF PutWords!Turns, n
<1>7. /\ g \in [0..n -> WordDevices]
      /\ g[0] = m.words /\ g[n] = FoldLeft(SetWord, m.words, made)
      /\ \A i \in 1..n : g[i] = SetWord(g[i - 1], made[i])
  BY <1>2, <1>5, Folds DEF SetWords!Turns
<1> DEFINE S == {i \in 0..n : f[i] = [words |-> g[i], bits |-> m.bits]}
<1>8. 0 \in S
  BY <1>1, <1>3, <1>6, <1>7
<1>9. ASSUME NEW i \in 1..n, i - 1 \in S PROVE i \in S
  <2>1. f[i - 1] = [words |-> g[i - 1], bits |-> m.bits] /\ i \in 0..n /\ i - 1 \in 0..n
    BY <1>1, <1>9
  <2>2. f[i - 1] \in Machine /\ f[i - 1].words = g[i - 1] /\ f[i - 1].bits = m.bits
    BY <1>3, <1>7, <2>1 DEF Machine
  <2>3. f[i] = [words |-> SetWord(f[i - 1].words, Write(es[i])), bits |-> f[i - 1].bits]
    BY <1>1, <1>6, <2>2, PutIsSet
  <2> QED BY <1>2, <1>7, <2>1, <2>2, <2>3
<1>10. n \in S
  <2> HIDE DEF S
  <2> QED BY <1>1, <1>8, <1>9, UpTo
<1> QED BY <1>1, <1>6, <1>7, <1>10 DEF made


(* And so do its dwords. *)
LEMMA PutDwordsFold ==
  ASSUME NEW m \in Machine, NEW es \in Seq(Entry(Word \X Word))
  PROVE  /\ FoldLeft(SetDword, m.words, WriteArgs(es)) \in WordDevices
         /\ FoldLeft(PutDword, m, es) =
               [words |-> FoldLeft(SetDword, m.words, WriteArgs(es)), bits |-> m.bits]
<1> DEFINE n == Len(es)
           made == WriteArgs(es)
<1>1. n \in Nat /\ DOMAIN es = 1..n /\ \A i \in 1..n : es[i] \in Entry(Word \X Word)
  OBVIOUS
<1>2. Len(made) = n /\ DOMAIN made = 1..n /\ \A i \in 1..n : made[i] = Write(es[i])
  BY <1>1 DEF WriteArgs
<1> HIDE DEF n, made
<1>3. m.words \in WordDevices /\ m = [words |-> m.words, bits |-> m.bits] /\ m.bits \in BitDevices
  BY DEF Machine
<1>4. PICK f : PutDwords!Turns(f, Machine, m, es)
  <2>1. ASSUME NEW i \in 1..n, NEW x \in Machine PROVE PutDword(x, es[i]) \in Machine
    <3>1. /\ PutDword(x, es[i]) = [words |-> SetDword(x.words, Write(es[i])), bits |-> x.bits]
          /\ SetDword(x.words, Write(es[i])) \in WordDevices
      BY <1>1, PutIsSet
    <3> QED BY <3>1 DEF Machine
  <2> QED BY <1>1, <2>1, PutDwords!FoldTurns DEF PutDwords!Steps, n
<1>5. PICK g : SetDwords!Turns(g, WordDevices, m.words, made)
  <2>1. ASSUME NEW i \in 1..n, NEW w \in WordDevices PROVE SetDword(w, made[i]) \in WordDevices
    <3> DEFINE x == [words |-> w, bits |-> m.bits]
    <3>1. x \in Machine /\ x.words = w
      BY <1>3 DEF Machine
    <3> HIDE DEF x
    <3>2. SetDword(x.words, Write(es[i])) \in WordDevices
      BY <1>1, <3>1, PutIsSet
    <3> QED BY <1>2, <3>1, <3>2
  <2> QED BY <1>1, <1>2, <1>3, <2>1, SetDwords!FoldTurns DEF SetDwords!Steps
<1>6. /\ f[0] = m /\ f[n] = FoldLeft(PutDword, m, es)
      /\ \A i \in 1..n : f[i] = PutDword(f[i - 1], es[i])
  BY <1>4, Folds DEF PutDwords!Turns, n
<1>7. /\ g \in [0..n -> WordDevices]
      /\ g[0] = m.words /\ g[n] = FoldLeft(SetDword, m.words, made)
      /\ \A i \in 1..n : g[i] = SetDword(g[i - 1], made[i])
  BY <1>2, <1>5, Folds DEF SetDwords!Turns
<1> DEFINE S == {i \in 0..n : f[i] = [words |-> g[i], bits |-> m.bits]}
<1>8. 0 \in S
  BY <1>1, <1>3, <1>6, <1>7
<1>9. ASSUME NEW i \in 1..n, i - 1 \in S PROVE i \in S
  <2>1. f[i - 1] = [words |-> g[i - 1], bits |-> m.bits] /\ i \in 0..n /\ i - 1 \in 0..n
    BY <1>1, <1>9
  <2>2. f[i - 1] \in Machine /\ f[i - 1].words = g[i - 1] /\ f[i - 1].bits = m.bits
    BY <1>3, <1>7, <2>1 DEF Machine
  <2>3. f[i] = [words |-> SetDword(f[i - 1].words, Write(es[i])), bits |-> f[i - 1].bits]
    BY <1>1, <1>6, <2>2, PutIsSet
  <2> QED BY <1>2, <1>7, <2>1, <2>2, <2>3
<1>10. n \in S
  <2> HIDE DEF S
  <2> QED BY <1>1, <1>8, <1>9, UpTo
<1> QED BY <1>1, <1>6, <1>7, <1>10 DEF made

(* The arguments the bits of a write are sorted into. *)
BitArg      == [addr : Nat, bit : -1..WordBits - 1, value : BOOLEAN]
WordBitArgs == {a \in BitArg : a.bit >= 0}
NativeArgs  == BitArg \ WordBitArgs
Sorting     == [bits : Seq(NativeArgs), wordBits : Seq(WordBitArgs)]

(* What one bit entry of a write adds. *)
LEMMA BitAdded ==
  ASSUME NEW s \in Sorting, NEW e \in Entry(BOOLEAN)
  PROVE  /\ AddBit(s, e) \in Sorting
         /\ IsWordBit(e.at) => /\ AddBit(s, e).bits = s.bits
                               /\ AddBit(s, e).wordBits = Append(s.wordBits, Write(e))
                               /\ Write(e) \in WordBitArgs
         /\ ~IsWordBit(e.at) => /\ AddBit(s, e).wordBits = s.wordBits
                                /\ AddBit(s, e).bits = Append(s.bits, Write(e))
                                /\ Write(e) \in NativeArgs
<1>1. /\ s = [bits |-> s.bits, wordBits |-> s.wordBits]
      /\ s.bits \in Seq(NativeArgs) /\ s.wordBits \in Seq(WordBitArgs)
  BY DEF Sorting
<1>2. /\ IsWordBit(e.at) => Write(e) \in WordBitArgs
      /\ ~IsWordBit(e.at) => Write(e) \in NativeArgs
  BY RandomAssumption DEF Write, BitArg, WordBitArgs, NativeArgs, IsWordBit, Entry, Address
<1>4. CASE IsWordBit(e.at)
  <2>1. AddBit(s, e) = [bits |-> s.bits, wordBits |-> Append(s.wordBits, Write(e))]
    BY <1>1, <1>4 DEF AddBit
  <2>2. Append(s.wordBits, Write(e)) \in Seq(WordBitArgs)
    BY <1>1, <1>2, <1>4
  <2> QED BY <1>1, <1>2, <1>4, <2>1, <2>2 DEF Sorting
<1>5. CASE ~IsWordBit(e.at)
  <2>1. AddBit(s, e) = [bits |-> Append(s.bits, Write(e)), wordBits |-> s.wordBits]
    BY <1>1, <1>5 DEF AddBit
  <2>2. Append(s.bits, Write(e)) \in Seq(NativeArgs)
    BY <1>1, <1>2, <1>5
  <2> QED BY <1>1, <1>2, <1>5, <2>1, <2>2 DEF Sorting
<1> QED BY <1>4, <1>5

(* Setting a bit keeps the types of the devices. *)
LEMMA ArgsFit ==
  /\ \A w \in WordDevices : \A a \in WordBitArgs : SetBit(w, a) \in WordDevices
  /\ \A d \in BitDevices : \A a \in NativeArgs : SetNative(d, a) \in BitDevices
<1>1. ASSUME NEW w \in WordDevices, NEW a \in WordBitArgs
      PROVE  SetBit(w, a) \in WordDevices
  <2>1. a.bit \in 0..WordBits - 1
    BY RandomAssumption DEF BitArg, WordBitArgs
  <2> QED BY <2>1 DEF SetBit, WordDevices, Word
<1>2. ASSUME NEW d \in BitDevices, NEW a \in NativeArgs
      PROVE  SetNative(d, a) \in BitDevices
  BY DEF SetNative, BitDevices, BitArg, NativeArgs
<1> QED BY <1>1, <1>2

(* No argument changes nothing. *)
LEMMA NoMoreBits ==
  ASSUME NEW d
  PROVE  FoldLeft(SetBit, d, <<>>) = d /\ FoldLeft(SetNative, d, <<>>) = d
BY Folds, SetBits!FoldOfNone, SetNatives!FoldOfNone

(* One more bit of a word is applied last. *)
LEMMA OneMoreWordBit ==
  ASSUME NEW w \in WordDevices, NEW s \in Seq(WordBitArgs), NEW a \in WordBitArgs
  PROVE  FoldLeft(SetBit, w, Append(s, a)) = SetBit(FoldLeft(SetBit, w, s), a)
<1>1. Append(s, a) \in Seq(WordBitArgs)
  OBVIOUS
<1>2. \A i \in 1..Len(Append(s, a)) : Append(s, a)[i] \in WordBitArgs
  BY <1>1
<1>3. SetBits!Steps(WordDevices, Append(s, a))
  BY <1>2, ArgsFit DEF SetBits!Steps
<1>4. SetBits!Folded(w, Append(s, a)) = SetBit(SetBits!Folded(w, s), a)
  BY <1>3, SetBits!FoldOfOneMore
<1> QED BY <1>4, Folds

(* So is one more bit device. *)
LEMMA OneMoreNative ==
  ASSUME NEW d \in BitDevices, NEW s \in Seq(NativeArgs), NEW a \in NativeArgs
  PROVE  FoldLeft(SetNative, d, Append(s, a)) = SetNative(FoldLeft(SetNative, d, s), a)
<1>1. Append(s, a) \in Seq(NativeArgs)
  OBVIOUS
<1>2. \A i \in 1..Len(Append(s, a)) : Append(s, a)[i] \in NativeArgs
  BY <1>1
<1>3. SetNatives!Steps(BitDevices, Append(s, a))
  BY <1>2, ArgsFit DEF SetNatives!Steps
<1>4. SetNatives!Folded(d, Append(s, a)) = SetNative(SetNatives!Folded(d, s), a)
  BY <1>3, SetNatives!FoldOfOneMore
<1> QED BY <1>4, Folds

(* What sorted bits make of m. *)
Kept(m, s) == [words |-> FoldLeft(SetBit, m.words, s.wordBits),
               bits |-> FoldLeft(SetNative, m.bits, s.bits)]

(* Setting the sorted bits, one kind after the other, comes to setting     *)
(* them in their order: the two kinds have no bit in common.               *)
LEMMA SortingKeepsBits ==
  ASSUME NEW m \in Machine, NEW r \in RandomWrites
  PROVE  FoldLeft(PutBit, m, r.bits) = Kept(m, SortedBits(r)) /\ Kept(m, SortedBits(r)) \in Machine
<1> DEFINE es == r.bits
           n == Len(es)
<1>1. /\ es \in Seq(Entry(BOOLEAN)) /\ n \in Nat /\ DOMAIN es = 1..n
      /\ \A i \in 1..n : es[i] \in Entry(BOOLEAN)
  BY DEF RandomWrites
<1> HIDE DEF n, es
<1>2. m.words \in WordDevices /\ m = [words |-> m.words, bits |-> m.bits] /\ m.bits \in BitDevices
  BY DEF Machine
<1>3. NoBits \in Sorting /\ Kept(m, NoBits) = m
  <2>1. NoBits.bits = <<>> /\ NoBits.wordBits = <<>> /\ NoBits \in Sorting
    BY DEF NoBits, Sorting
  <2> QED BY <1>2, <2>1, NoMoreBits DEF Kept
<1>4. PICK f : PutBits!Turns(f, Machine, m, es)
  <2>1. ASSUME NEW i \in 1..n, NEW x \in Machine PROVE PutBit(x, es[i]) \in Machine
    BY <1>1, PutIsSet DEF Machine
  <2> QED BY <1>1, <2>1, PutBits!FoldTurns DEF PutBits!Steps, n
<1>5. PICK h : AddBits!Turns(h, Sorting, NoBits, es)
  <2>1. ASSUME NEW i \in 1..n, NEW s \in Sorting PROVE AddBit(s, es[i]) \in Sorting
    BY <1>1, BitAdded
  <2> QED BY <1>1, <1>3, <2>1, AddBits!FoldTurns DEF AddBits!Steps, n
<1>6. /\ f \in [0..n -> Machine] /\ f[0] = m /\ f[n] = FoldLeft(PutBit, m, es)
      /\ \A i \in 1..n : f[i] = PutBit(f[i - 1], es[i])
  BY <1>4, Folds DEF PutBits!Turns, n
<1>7. /\ h \in [0..n -> Sorting] /\ h[0] = NoBits /\ h[n] = SortedBits(r)
      /\ \A i \in 1..n : h[i] = AddBit(h[i - 1], es[i])
  BY <1>5, Folds DEF AddBits!Turns, n, es, SortedBits
<1> DEFINE S == {i \in 0..n : f[i] = Kept(m, h[i])}
<1>8. 0 \in S
  BY <1>1, <1>3, <1>6, <1>7
<1>9. ASSUME NEW i \in 1..n, i - 1 \in S PROVE i \in S
  <2> DEFINE s == h[i - 1]
             e == es[i]
  <2>1. f[i - 1] = Kept(m, s) /\ i \in 0..n /\ i - 1 \in 0..n
    BY <1>1, <1>9
  <2>2. /\ e \in Entry(BOOLEAN) /\ s \in Sorting /\ Kept(m, s) \in Machine
        /\ f[i] = PutBit(Kept(m, s), e) /\ h[i] = AddBit(s, e)
    BY <1>1, <1>6, <1>7, <2>1
  <2> HIDE DEF s, e
  <2>3. /\ s.wordBits \in Seq(WordBitArgs)
        /\ s.bits \in Seq(NativeArgs)
    BY <2>2 DEF Sorting
  <2>4. CASE IsWordBit(e.at)
    <3>1. /\ h[i].bits = s.bits /\ h[i].wordBits = Append(s.wordBits, Write(e))
          /\ Write(e) \in WordBitArgs
      BY <2>2, <2>4, BitAdded
    <3>2. f[i] = [words |-> SetBit(FoldLeft(SetBit, m.words, s.wordBits), Write(e)),
                  bits |-> FoldLeft(SetNative, m.bits, s.bits)]
      BY <2>2, <2>4, PutIsSet DEF Kept
    <3>3. FoldLeft(SetBit, m.words, h[i].wordBits)
             = SetBit(FoldLeft(SetBit, m.words, s.wordBits), Write(e))
      <4>1. FoldLeft(SetBit, m.words, Append(s.wordBits, Write(e)))
              = SetBit(FoldLeft(SetBit, m.words, s.wordBits), Write(e))
        BY <1>2, <2>3, <3>1, OneMoreWordBit
      <4> QED BY <3>1, <4>1
    <3> QED BY <2>1, <3>1, <3>2, <3>3 DEF Kept
  <2>5. CASE ~IsWordBit(e.at)
    <3>1. /\ h[i].wordBits = s.wordBits /\ h[i].bits = Append(s.bits, Write(e))
          /\ Write(e) \in NativeArgs
      BY <2>2, <2>5, BitAdded
    <3>2. f[i] = [words |-> FoldLeft(SetBit, m.words, s.wordBits),
                  bits |-> SetNative(FoldLeft(SetNative, m.bits, s.bits), Write(e))]
      BY <2>2, <2>5, PutIsSet DEF Kept
    <3>3. FoldLeft(SetNative, m.bits, h[i].bits)
             = SetNative(FoldLeft(SetNative, m.bits, s.bits), Write(e))
      <4>1. FoldLeft(SetNative, m.bits, Append(s.bits, Write(e)))
              = SetNative(FoldLeft(SetNative, m.bits, s.bits), Write(e))
        BY <1>2, <2>3, <3>1, OneMoreNative
      <4> QED BY <3>1, <4>1
    <3> QED BY <2>1, <3>1, <3>2, <3>3 DEF Kept
  <2> QED BY <2>4, <2>5
<1>10. n \in S
  <2> HIDE DEF S
  <2> QED BY <1>1, <1>8, <1>9, UpTo
<1>11. f[n] \in Machine
  BY <1>1, <1>6
<1> QED BY <1>6, <1>7, <1>10, <1>11 DEF es

(* A write comes to its three arrays, one entry after another. *)
LEMMA WritesAreAsAsked ==
  ASSUME NEW r \in RandomWrites, words \in WordDevices, bits \in BitDevices
  PROVE  LET end == [words |-> WordsAfter(WriteCall(r)), bits |-> BitsAfter(WriteCall(r))]
         IN  end = AsAsked(r, [words |-> words, bits |-> bits]) /\ end \in Machine
<1> DEFINE m0 == [words |-> words, bits |-> bits]
           m1 == FoldLeft(PutWord, m0, r.words)
           m2 == FoldLeft(PutDword, m1, r.dwords)
           c == WriteCall(r)
<1>1. r.words \in Seq(Entry(Word)) /\ r.dwords \in Seq(Entry(Word \X Word))
  BY DEF RandomWrites
<1>2. m0 \in Machine /\ m0.words = words /\ m0.bits = bits
  BY DEF Machine
<1>3. c.words = WriteArgs(r.words) /\ c.dwords = WriteArgs(r.dwords)
      /\ c.bits = SortedBits(r).bits /\ c.wordBits = SortedBits(r).wordBits
  BY DEF WriteCall
<1> HIDE DEF m0, c
<1>4. m1 \in Machine /\ m1.words = FoldLeft(SetWord, words, c.words) /\ m1.bits = bits
  BY <1>1, <1>2, <1>3, PutWordsFold DEF Machine
<1> HIDE DEF m1
<1>5. m2 \in Machine /\ m2.words = FoldLeft(SetDword, m1.words, c.dwords) /\ m2.bits = bits
  <2>1. /\ FoldLeft(SetDword, m1.words, WriteArgs(r.dwords)) \in WordDevices
        /\ m2 = [words |-> FoldLeft(SetDword, m1.words, WriteArgs(r.dwords)), bits |-> m1.bits]
    BY <1>1, <1>4, PutDwordsFold
  <2> HIDE DEF m2
  <2> QED BY <1>2, <1>3, <1>4, <2>1 DEF Machine
<1> HIDE DEF m2
<1>6. FoldLeft(PutBit, m2, r.bits) = Kept(m2, SortedBits(r)) /\ Kept(m2, SortedBits(r)) \in Machine
  BY <1>5, SortingKeepsBits
<1>7. Kept(m2, SortedBits(r)) = [words |-> WordsAfter(c), bits |-> BitsAfter(c)]
  BY <1>3, <1>4, <1>5 DEF Kept, WordsAfter, BitsAfter
<1>8. AsAsked(r, m0) = FoldLeft(PutBit, m2, r.bits)
  BY DEF AsAsked, m1, m2
<1> QED BY <1>6, <1>7, <1>8 DEF m0, c

(* The arguments in a job of the queue are those of the request, which is  *)
(* not refused and not answered yet.                                       *)
RandomInv ==
    /\ words \in WordDevices /\ bits \in BitDevices
    /\ request = None => call = NoCall /\ answer.status = 0
    /\ call # NoCall => answer.status = 0 /\ call.op = request.op
    /\ call.op = "read" => /\ request \in RandomReads /\ ~Malformed(request)
                           /\ call = ReadCall(request)
    /\ call.op = "write" => request \in RandomWrites /\ call = WriteCall(request)
    /\ AnsweredInRequestOrder

(* A request is refused, or becomes a job with its arguments. *)
LEMMA HandleKeepsRandomInv ==
  ASSUME RandomInv, NEW r \in Requests, HandleRandom(r)
  PROVE  RandomInv'
<1>1. /\ request = None /\ request' = r /\ call = NoCall /\ answer.status = 0
      /\ words' \in WordDevices /\ bits' \in BitDevices
  BY DEF HandleRandom, RandomInv, memory
<1>2. r.op \in {"read", "write"} /\ (r.op = "read" => r \in RandomReads)
      /\ (r.op = "write" => r \in RandomWrites)
  BY RandomAssumption DEF RandomReads, RandomWrites
<1>3. CASE Malformed(r) \/ TooMany(r)
  <2>1. call' = NoCall /\ answer'.status = 400
    BY <1>1, <1>3 DEF HandleRandom, NoAnswer
  <2>2. request' # None /\ call'.op \notin {"read", "write"}
    BY <1>1, <1>2, <2>1 DEF None, NoCall
  <2>3. AnsweredInRequestOrder'
    BY <2>1 DEF AnsweredInRequestOrder
  <2> QED BY <1>1, <2>1, <2>2, <2>3 DEF RandomInv
<1>4. CASE ~(Malformed(r) \/ TooMany(r))
  <2>1. answer' = answer /\ call' = IF r.op = "read" THEN ReadCall(r) ELSE WriteCall(r)
    BY <1>4 DEF HandleRandom
  <2>2. request' # None
    BY <1>1, <1>2 DEF None
  <2>3. ASSUME call'.op = "read" PROVE r \in RandomReads /\ ~Malformed(r) /\ call' = ReadCall(r)
    <3>1. r.op = "read"
      <4>1. WriteCall(r).op = "write"
        BY DEF WriteCall
      <4> QED BY <2>1, <2>3, <4>1
    <3> QED BY <1>2, <1>4, <2>1, <3>1
  <2>4. ASSUME call'.op = "write" PROVE r \in RandomWrites /\ call' = WriteCall(r)
    <3>1. r.op = "write"
      <4>1. ReadCall(r).op = "read"
        BY DEF ReadCall
      <4> QED BY <1>2, <2>1, <2>4, <4>1
    <3> QED BY <1>2, <2>1, <3>1
  <2>5. call'.op = r.op
    BY <1>2, <2>1 DEF ReadCall, WriteCall
  <2>6. answer'.status = 0
    BY <1>1, <2>1
  <2>7. AnsweredInRequestOrder'
    BY <2>6 DEF AnsweredInRequestOrder
  <2> QED BY <1>1, <2>2, <2>3, <2>4, <2>5, <2>6, <2>7 DEF RandomInv
<1> QED BY <1>3, <1>4

(* A read is answered in its order. *)
LEMMA ReadKeepsRandomInv ==
  ASSUME RandomInv, RandomRead
  PROVE  RandomInv'
<1>1. /\ request \in RandomReads /\ ~Malformed(request) /\ call = ReadCall(request)
  BY DEF RandomRead, RandomInv
<1>2. /\ UNCHANGED <<words, bits, request>> /\ call' = NoCall
      /\ answer' = ReadAnswer(request, ReadCall(request))
  BY <1>1 DEF RandomRead, memory
<1>3. request # None
  BY <1>1 DEF RandomReads, None
<1>4. AnsweredInRequestOrder'
  BY <1>1, <1>2, ReadsAnswerInOrder DEF AnsweredInRequestOrder
<1> QED BY <1>2, <1>3, <1>4 DEF RandomInv, NoCall

(* A write leaves what its entries say. *)
LEMMA WriteKeepsRandomInv ==
  ASSUME RandomInv, RandomWrite
  PROVE  /\ RandomInv'
         /\ [words |-> words', bits |-> bits'] =
               AsAsked(request, [words |-> words, bits |-> bits])
<1>1. /\ request \in RandomWrites /\ call = WriteCall(request) /\ request.op = "write"
      /\ words \in WordDevices /\ bits \in BitDevices
  BY DEF RandomWrite, RandomInv, RandomWrites
<1>2. /\ request' = request /\ call' = NoCall
      /\ words' = WordsAfter(WriteCall(request)) /\ bits' = BitsAfter(WriteCall(request))
  BY <1>1 DEF RandomWrite
<1>3. /\ [words |-> words', bits |-> bits'] =
            AsAsked(request, [words |-> words, bits |-> bits])
      /\ [words |-> words', bits |-> bits'] \in Machine
  BY <1>1, <1>2, WritesAreAsAsked
<1>4. words' \in WordDevices /\ bits' \in BitDevices
  BY <1>3 DEF Machine
<1>5. AnsweredInRequestOrder'
  BY <1>1, <1>2 DEF AnsweredInRequestOrder
<1>6. request' # None
  BY <1>1, <1>2 DEF None
<1> QED BY <1>2, <1>3, <1>4, <1>5, <1>6 DEF RandomInv, NoCall

(* The invariant holds at first. *)
LEMMA InitRandomInv == Init => RandomInv
<1> SUFFICES ASSUME Init PROVE RandomInv
  OBVIOUS
<1>1. words \in WordDevices /\ bits \in BitDevices
  BY RandomAssumption DEF Init
<1> QED BY <1>1 DEF Init, RandomInv, AnsweredInRequestOrder, None, NoCall, NoAnswer

(* Every step keeps it. *)
LEMMA NextKeepsRandomInv == RandomInv /\ [Next]_vars => RandomInv'
<1> SUFFICES ASSUME RandomInv, [Next]_vars PROVE RandomInv'
  OBVIOUS
<1>1. ASSUME NEW r \in Requests, HandleRandom(r) PROVE RandomInv'
  BY <1>1, HandleKeepsRandomInv
<1>2. CASE RandomRead
  BY <1>2, ReadKeepsRandomInv
<1>3. CASE RandomWrite
  BY <1>3, WriteKeepsRandomInv
<1>4. CASE MemoryChanges
  <2>1. /\ UNCHANGED <<request, call, answer>> /\ answer.status = 0
        /\ words' \in WordDevices /\ bits' \in BitDevices
    BY <1>4, RandomAssumption DEF MemoryChanges, RandomInv
  <2>2. AnsweredInRequestOrder'
    BY <2>1 DEF AnsweredInRequestOrder
  <2> QED BY <2>1, <2>2 DEF RandomInv
<1>5. CASE UNCHANGED vars
  BY <1>5 DEF vars, memory, RandomInv, AnsweredInRequestOrder
<1> QED BY <1>1, <1>2, <1>3, <1>4, <1>5 DEF Next

(* Every accepted POST /random-read is answered entry by entry in its own  *)
(* order, with what its addresses held when its job ran, and reads no K    *)
(* address (handler.go:950-1017), whatever it mixes and however long it is.*)
THEOREM ReadsAnsweredInOrder == Spec => []AnsweredInRequestOrder
<1>1. RandomInv => AnsweredInRequestOrder
  BY DEF RandomInv
<1> QED BY <1>1, InitRandomInv, NextKeepsRandomInv, PTL DEF Spec

(* Every accepted POST /random-write leaves what its entries say, one after*)
(* another: sorting the bits of words from the bit devices changes nothing *)
(* (handler.go:1118-1144).                                                 *)
THEOREM WritesKeepTheirOrder == Spec => SortingKeepsMeaning
<1>1. ASSUME RandomInv, [Next]_vars, request.op = "write", answer.status = 0, answer'.status = 200
      PROVE  [words |-> words', bits |-> bits'] =
                 AsAsked(request, [words |-> words, bits |-> bits])
  <2>1. RandomWrite
    <3>1. request # None /\ answer' # answer
      BY <1>1 DEF None
    <3>2. ~RandomRead
      BY <1>1 DEF RandomRead, RandomInv, RandomReads
    <3> QED BY <1>1, <3>1, <3>2 DEF Next, HandleRandom, MemoryChanges, vars
  <2> QED BY <1>1, <2>1, WriteKeepsRandomInv
<1> QED BY <1>1, InitRandomInv, NextKeepsRandomInv, PTL DEF Spec, SortingKeepsMeaning

-----------------------------------------------------------------------------
(* Device addresses. *)

(* The characters of names and of texts in capitals.                       *)
Chars == STRING \cup {"A","B","C","D","F","K","L","M","N","R","S","T","V","W","X","Y","Z"}

(* The names of the devices. *)
LEMMA DeviceNames ==
  ASSUME NEW d \in ValidDevs
  PROVE  d \in Seq(Chars) /\ Len(d) \in 1..3 /\ d[1] # "K"
<1>1. d \in Seq(Chars)
  <2>1. \/ Len(d) = 1 /\ d = <<d[1]>>
        \/ Len(d) = 2 /\ d = <<d[1], d[2]>>
        \/ Len(d) = 3 /\ d = <<d[1], d[2], d[3]>>
    BY DEF ValidDevs, WordDevs, BitDevs
  <2>2. d[1] \in Chars
    BY DEF ValidDevs, WordDevs, BitDevs, Chars
  <2>3. Len(d) > 1 => d[2] \in Chars
    BY DEF ValidDevs, WordDevs, BitDevs, Chars
  <2>4. Len(d) > 2 => d[3] \in Chars
    BY DEF ValidDevs, WordDevs, BitDevs, Chars
  <2>5. \A a, b, c \in Chars :
           <<a>> \in Seq(Chars) /\ <<a, b>> \in Seq(Chars) /\ <<a, b, c>> \in Seq(Chars)
    OBVIOUS
  <2>6. CASE Len(d) = 1 /\ d = <<d[1]>>
    BY <2>2, <2>5, <2>6, Zenon
  <2>7. CASE Len(d) = 2 /\ d = <<d[1], d[2]>>
    <3>1. d[2] \in Chars
      BY <2>3, <2>7
    <3> QED BY <2>2, <2>5, <2>7, <3>1, Zenon
  <2>8. CASE Len(d) = 3 /\ d = <<d[1], d[2], d[3]>>
    <3>1. d[2] \in Chars /\ d[3] \in Chars
      BY <2>3, <2>4, <2>8
    <3> QED BY <2>2, <2>5, <2>8, <3>1, Zenon
  <2> QED BY <2>1, <2>6, <2>7, <2>8
<1>2. Len(d) \in 1..3
  BY DEF ValidDevs, WordDevs, BitDevs
<1>3. d[1] # "K"
  BY DEF ValidDevs, WordDevs, BitDevs
<1> QED BY <1>1, <1>2, <1>3

(* A device is a word device or a bit device. *)
LEMMA KindsApart == WordDevs \cap BitDevs = {}
BY DEF WordDevs, BitDevs

(* The digits of either base.                                              *)
LEMMA DigitSets ==
  /\ DigitsOf(10) = {"0","1","2","3","4","5","6","7","8","9"}
  /\ DigitsOf(16) = {"0","1","2","3","4","5","6","7","8","9","A","B","C","D","E","F"}
<1>1. DigitsOf(10) = {Digits[1], Digits[2], Digits[3], Digits[4], Digits[5], Digits[6], Digits[7],
                      Digits[8], Digits[9], Digits[10]}
  BY DEF DigitsOf
<1>2. DigitsOf(16) = {Digits[1], Digits[2], Digits[3], Digits[4], Digits[5], Digits[6], Digits[7],
                      Digits[8], Digits[9], Digits[10], Digits[11], Digits[12], Digits[13], Digits[14],
                      Digits[15], Digits[16]}
  BY DEF DigitsOf
<1> QED BY <1>1, <1>2 DEF Digits

(* What a name of more than one letter has behind the first is no digit    *)
(* that could follow a shorter name.                                       *)
LEMMA LongNames ==
  ASSUME NEW e \in ValidDevs, Len(e) > 1
  PROVE  /\ e[1] \notin {"X", "Y", "B", "W"}
         /\ e[2] \notin Signs \cup DigitsOf(10)
         /\ Len(e) = 3 => e[1] = "S" /\ e[2] = "T" /\ e[3] \notin Signs \cup DigitsOf(10)
<1>1. e[1] \in {"Z", "T", "S", "C", "D"}
  <2>1. \A a : <<a>> # e
    <3>1. ASSUME NEW a, <<a>> = e PROVE FALSE
      <4>1. DOMAIN <<a>> = 1..1
        OBVIOUS
      <4>2. 2 \in DOMAIN e
        BY DeviceNames
      <4>3. 2 \notin 1..1
        OBVIOUS
      <4> QED BY <3>1, <4>1, <4>2, <4>3
    <3> QED BY <3>1
  <2>2. e \in {<<"Z","R">>, <<"T","N">>, <<"S","T","N">>, <<"C","N">>, <<"S","W">>, <<"S","D">>,
              <<"S","B">>, <<"S","M">>, <<"D","X">>, <<"D","Y">>, <<"T","C">>, <<"T","S">>,
              <<"S","T","C">>, <<"S","T","S">>, <<"C","C">>, <<"C","S">>}
    BY <2>1 DEF ValidDevs, WordDevs, BitDevs
  <2> QED BY <2>2
<1>2. e[2] \in {"R", "N", "W", "D", "B", "M", "X", "Y", "C", "S", "T"}
  <2>1. CASE e \in WordDevs
    BY <2>1 DEF WordDevs
  <2>2. CASE e \in BitDevs
    BY <2>2 DEF BitDevs
  <2> QED BY <2>1, <2>2 DEF ValidDevs
<1>3. Len(e) = 3 => e[1] = "S" /\ e[2] = "T" /\ e[3] \in {"N", "C", "S"}
  BY DEF ValidDevs, WordDevs, BitDevs
<1>4. ASSUME NEW ch \in {"R", "N", "W", "D", "B", "M", "X", "Y", "C", "S", "T"}
      PROVE  ch \notin Signs \cup DigitsOf(10)
  BY DigitSets DEF Signs
<1>5. Len(e) = 3 => e[3] \notin Signs \cup DigitsOf(10)
  BY <1>3, <1>4
<1>6. e[2] \notin Signs \cup DigitsOf(10)
  BY <1>2, <1>4
<1> QED BY <1>1, <1>3, <1>5, <1>6

(* The short names in front of hexadecimal numbers begin no longer name.   *)
LEMMA ShortNames ==
  ASSUME NEW d \in ValidDevs
  PROVE  /\ Len(d) = 1 /\ d \in HexAddrDevs => d[1] \in {"X", "Y", "B", "W"}
         /\ Len(d) = 2 => d[1] # "S" \/ d[2] # "T"
BY DEF ValidDevs, WordDevs, BitDevs, HexAddrDevs

(* A longer name does not read as a shorter one with a number behind it.   *)
LEMMA NamesApart ==
  ASSUME NEW d \in ValidDevs, NEW e \in ValidDevs, Len(d) < Len(e),
         \A i \in 1..Len(d) : d[i] = e[i]
  PROVE  e[Len(d) + 1] \notin Signs \cup DigitsOf(Base(d))
<1>1. Len(d) \in 1..2 /\ Len(e) \in 2..3 /\ d[1] = e[1]
  BY DeviceNames
<1>2. CASE Len(d) = 1
  <2>1. d \notin HexAddrDevs
    BY <1>1, <1>2, LongNames, ShortNames
  <2> QED BY <1>1, <1>2, <2>1, LongNames DEF Base
<1>3. CASE Len(d) = 2
  <2>1. Len(e) = 3 /\ d[2] = e[2]
    BY <1>1, <1>3
  <2> QED BY <1>1, <1>3, <2>1, LongNames, ShortNames
<1> QED BY <1>1, <1>2, <1>3

(* Each digit has its value.                                               *)
LEMMA DigitValues == \A i \in 1..16 : ValueOf(Digits[i]) = i - 1
<1> SUFFICES ASSUME NEW i \in 1..16 PROVE ValueOf(Digits[i]) = i - 1
  OBVIOUS
<1>1. \A j \in 0..15 : Digits[j + 1] = Digits[i] <=> j = i - 1
  BY DEF Digits
<1> QED BY <1>1 DEF ValueOf

(* The digits allowed behind K are those from 1 to 8.                      *)
LEMMA KDigits ==
  ASSUME NEW ch \in DigitsOf(10)
  PROVE  ValueOf(ch) \in Nat /\ (ValueOf(ch) \in 1..8 <=> ch \in {Digits[i] : i \in 2..9})
<1>1. PICK i \in 1..10 : ch = Digits[i]
  BY DEF DigitsOf
<1>2. ValueOf(ch) = i - 1
  BY <1>1, DigitValues
<1>3. i \in 2..9 => ch \in {Digits[j] : j \in 2..9}
  BY <1>1
<1>4. ASSUME NEW j \in 2..9, ch = Digits[j] PROVE i = j
  BY <1>2, <1>4, DigitValues
<1> QED BY <1>2, <1>3, <1>4

(* The value of one more digit to the base of decimal and hexadecimal      *)
(* numbers; folded over the digits they are what strconv reads.            *)
Decimal(acc, ch)     == acc * 10 + ValueOf(ch)
Hexadecimal(acc, ch) == acc * 16 + ValueOf(ch)

Decimals     == INSTANCE FoldTheorems WITH Op <- Decimal
Hexadecimals == INSTANCE FoldTheorems WITH Op <- Hexadecimal

(* Digits have values. *)
LEMMA DigitIsNumber ==
  ASSUME NEW base \in {10, 16}, NEW ch \in DigitsOf(base)
  PROVE  ValueOf(ch) \in 0..15
<1>1. PICK i \in 1..base : ch = Digits[i]
  BY DEF DigitsOf
<1>2. i \in 1..16
  BY <1>1
<1> QED BY <1>1, <1>2, DigitValues

(* Digits have a value together. *)
LEMMA NumberIsNat ==
  ASSUME NEW base \in {10, 16}, NEW ds, Len(ds) \in Nat, DOMAIN ds = 1..Len(ds),
         \A i \in 1..Len(ds) : ds[i] \in DigitsOf(base)
  PROVE  Number(ds, base) \in Nat
<1>1. \A i \in 1..Len(ds) : ValueOf(ds[i]) \in Nat
  BY DigitIsNumber
<1>2. CASE base = 10
  <2>1. Decimals!Steps(Nat, ds)
    BY <1>1 DEF Decimals!Steps, Decimal
  <2>2. PICK f : Decimals!Turns(f, Nat, 0, ds)
    BY <2>1, Decimals!FoldTurns
  <2>3. Number(ds, 10) = Decimals!Folded(0, ds)
    BY DEF Number, FoldLeft, MapThenFoldSet, Decimals!Folded, Decimals!FoldLeft,
           Decimals!MapThenFoldSet, Max, Decimals!Max, Decimal
  <2>4. Number(ds, base) = Number(ds, 10)
    BY <1>2
  <2> QED BY <2>2, <2>3, <2>4 DEF Decimals!Turns
<1>3. CASE base = 16
  <2>1. Hexadecimals!Steps(Nat, ds)
    BY <1>1 DEF Hexadecimals!Steps, Hexadecimal
  <2>2. PICK f : Hexadecimals!Turns(f, Nat, 0, ds)
    BY <2>1, Hexadecimals!FoldTurns
  <2>3. Number(ds, 16) = Hexadecimals!Folded(0, ds)
    BY DEF Number, FoldLeft, MapThenFoldSet, Hexadecimals!Folded, Hexadecimals!FoldLeft,
           Hexadecimals!MapThenFoldSet, Max, Hexadecimals!Max, Hexadecimal
  <2>4. Number(ds, base) = Number(ds, 16)
    BY <1>3
  <2> QED BY <2>2, <2>3, <2>4 DEF Hexadecimals!Turns
<1> QED BY <1>2, <1>3

(* What parses as an address begins with a sign or a digit and has no dot. *)
LEMMA AddressDigits ==
  ASSUME NEW s \in Seq(Chars), NEW base \in {10, 16}, ParseInt(s, base) # NoAddress
  PROVE  Len(s) >= 1 /\ s[1] \in Signs \cup DigitsOf(base) /\ \A i \in 1..Len(s) : s[i] # "."
<1> DEFINE signed == s # <<>> /\ s[1] \in Signs
           ds == IF signed THEN Tail(s) ELSE s
<1>1. ds # <<>> /\ \A i \in DOMAIN ds : ds[i] \in DigitsOf(base)
  BY DEF ParseInt
<1>2. s # <<>> /\ Len(s) \in Nat /\ Len(s) >= 1
  <2>1. s # <<>>
    BY <1>1
  <2> HIDE DEF ds
  <2> QED BY <2>1
<1>3. "." \notin Signs \cup DigitsOf(base)
  BY DigitSets DEF Signs
<1>4. CASE signed
  <2>1. Len(ds) = Len(s) - 1 /\ DOMAIN ds = 1..Len(s) - 1 /\ \A i \in 2..Len(s) : s[i] = ds[i - 1]
    BY <1>2, <1>4
  <2>2. \A i \in 2..Len(s) : s[i] \in DigitsOf(base)
    <3> HIDE DEF ds
    <3>1. \A i \in 2..Len(s) : i - 1 \in 1..Len(s) - 1
      BY <1>2
    <3> QED BY <1>1, <2>1, <3>1
  <2> HIDE DEF ds
  <2> QED BY <1>2, <1>3, <1>4, <2>2
<1>5. CASE ~signed
  <2>1. ds = s /\ DOMAIN s = 1..Len(s)
    BY <1>5
  <2> HIDE DEF ds
  <2> QED BY <1>1, <1>2, <1>3, <2>1
<1> QED BY <1>4, <1>5

(* The least element of a set of numbers.                                  *)
LEMMA MinOf ==
  ASSUME NEW S \in SUBSET Nat, S # {}
  PROVE  Min(S) \in S /\ \A k \in S : Min(S) <= k
<1>1. PICK m \in S : \A k \in S : m <= k
  BY Least
<1> QED BY <1>1 DEF Min

(* A part of a text, from behind m to n.                                   *)
LEMMA PartIs ==
  ASSUME NEW s \in Seq(Chars), NEW m \in Nat, NEW n \in Nat, m <= n, n <= Len(s)
  PROVE  /\ SubSeq(s, m + 1, n) \in Seq(Chars) /\ Len(SubSeq(s, m + 1, n)) = n - m
         /\ \A i \in 1..n - m : SubSeq(s, m + 1, n)[i] = s[m + i]
<1> DEFINE a == m + 1
<1>1. a \in Int /\ n \in Int /\ \A i \in a..n : s[i] \in Chars
  <2>1. \A i \in a..n : i \in 1..Len(s)
    OBVIOUS
  <2> QED BY <2>1
<1>2. n - a + 1 = n - m /\ (~(a <= n) => n - m = 0) /\ \A i \in 1..n - m : a + i - 1 = m + i
  OBVIOUS
<1> HIDE DEF a
<1>3. /\ SubSeq(s, a, n) \in Seq(Chars)
      /\ Len(SubSeq(s, a, n)) = (IF a <= n THEN n - a + 1 ELSE 0)
      /\ \A i \in 1..n - a + 1 : SubSeq(s, a, n)[i] = s[a + i - 1]
  BY <1>1, SubSeqProperties
<1> QED BY <1>2, <1>3 DEF a

(* A prefix agrees with the text it is one of.                             *)
LEMMA PrefixAgrees ==
  ASSUME NEW e \in Seq(Chars), NEW s \in Seq(Chars)
  PROVE  IsPrefix(e, s) <=> Len(e) <= Len(s) /\ \A i \in 1..Len(e) : e[i] = s[i]
<1>1. SubSeq(e, 1, Len(e)) = e
  BY SubSeqFull
<1>2. ASSUME Len(e) <= Len(s) PROVE SubSeq(s, 1, Len(e)) = e <=> \A i \in 1..Len(e) : e[i] = s[i]
  <2> DEFINE t == SubSeq(s, 1, Len(e))
  <2>1. t \in Seq(Chars) /\ Len(t) = Len(e) /\ \A i \in 1..Len(e) : t[i] = s[i]
    <3>1. Len(e) \in Nat /\ 0 <= Len(e) /\ Len(e) - 0 = Len(e) /\ 0 + 1 = 1
      OBVIOUS
    <3>2. /\ SubSeq(s, 0 + 1, Len(e)) \in Seq(Chars) /\ Len(SubSeq(s, 0 + 1, Len(e))) = Len(e) - 0
          /\ \A i \in 1..Len(e) - 0 : SubSeq(s, 0 + 1, Len(e))[i] = s[0 + i]
      BY <1>2, <3>1, PartIs
    <3>3. \A i \in 1..Len(e) : 0 + i = i
      OBVIOUS
    <3> QED BY <3>1, <3>2, <3>3
  <2> HIDE DEF t
  <2> QED BY <2>1, SeqEqual DEF t
<1> QED BY <1>1, <1>2 DEF IsPrefix

(* The name in front of a number is found: no longer one begins the text.  *)
LEMMA NamedDevice ==
  ASSUME NEW s \in Seq(Chars), NEW d \in ValidDevs, Len(d) < Len(s),
         \A i \in 1..Len(d) : s[i] = d[i],
         s[Len(d) + 1] \in Signs \cup DigitsOf(Base(d))
  PROVE  DeviceOf(s) = d
<1> DEFINE hits == {e \in ValidDevs : Len(e) > 1 /\ IsPrefix(e, s)}
<1>0. Len(s) \in Nat /\ d \in Seq(Chars) /\ Len(d) \in 1..3
  BY DeviceNames
<1>1. ASSUME NEW e \in ValidDevs, IsPrefix(e, s)
      PROVE  Len(e) <= Len(s) /\ \A i \in 1..Len(e) : e[i] = s[i]
  BY <1>1, PrefixAgrees, DeviceNames
<1>2. ASSUME NEW e \in hits PROVE Len(e) <= Len(d)
  <2>1. e \in ValidDevs /\ Len(e) \in 1..3 /\ \A i \in 1..Len(e) : e[i] = s[i]
    BY <1>1, DeviceNames
  <2> HIDE DEF hits
  <2>2. ASSUME Len(d) < Len(e) PROVE FALSE
    <3>1. \A i \in 1..Len(d) : d[i] = e[i]
      BY <1>0, <2>1, <2>2
    <3>2. e[Len(d) + 1] = s[Len(d) + 1]
      BY <1>0, <2>1, <2>2
    <3> QED BY <2>1, <2>2, <3>1, <3>2, NamesApart
  <2> QED BY <1>0, <2>1, <2>2
<1>3. ASSUME NEW e \in hits, Len(e) = Len(d) PROVE e = d
  <2>1. e \in ValidDevs /\ e \in Seq(Chars) /\ \A i \in 1..Len(e) : e[i] = s[i]
    BY <1>1, DeviceNames
  <2> HIDE DEF hits
  <2> QED BY <1>0, <1>3, <2>1, SeqEqual
<1>4. CASE Len(d) = 1
  <2>1. hits = {}
    <3>1. ASSUME NEW e \in hits PROVE FALSE
      <4>1. Len(e) > 1 /\ Len(e) <= 1 /\ Len(e) \in 1..3
        BY <1>2, <1>4, <3>1, DeviceNames
      <4> QED BY <4>1
    <3> QED BY <3>1
  <2>2. DeviceOf(s) = <<s[1]>>
    BY <2>1 DEF DeviceOf
  <2>3. <<s[1]>> = d
    <3>1. s[1] = d[1] /\ d \in Seq(Chars) /\ Len(d) = 1 /\ d[1] \in Chars
      BY <1>0, <1>4
    <3>2. <<s[1]>> \in Seq(Chars) /\ Len(<<s[1]>>) = 1 /\ <<s[1]>>[1] = d[1]
      BY <3>1
    <3> QED BY <3>1, <3>2, SeqEqual
  <2> QED BY <2>2, <2>3
<1>5. CASE Len(d) > 1
  <2>1. d \in hits
    BY <1>0, <1>5, PrefixAgrees
  <2>2. DeviceOf(s) = CHOOSE x \in hits : \A y \in hits : Len(x) >= Len(y)
    BY <2>1 DEF DeviceOf
  <2>3. d \in hits /\ \A y \in hits : Len(d) >= Len(y) /\ Len(y) \in Nat
    BY <1>0, <1>2, <2>1, DeviceNames
  <2> HIDE DEF hits
  <2>4. DeviceOf(s) \in hits /\ \A y \in hits : Len(DeviceOf(s)) >= Len(y)
    BY <2>2, <2>3
  <2>5. Len(DeviceOf(s)) = Len(d)
    BY <1>0, <2>3, <2>4
  <2> QED BY <1>3, <2>4, <2>5
<1>6. Len(d) = 1 \/ Len(d) > 1
  <2>1. \A n \in 1..3 : n = 1 \/ n > 1
    OBVIOUS
  <2> QED BY <1>0, <2>1
<1> QED BY <1>4, <1>5, <1>6

(* The device is what the text begins with. *)
LEMMA DeviceIsPrefix ==
  ASSUME NEW s \in Seq(Chars), s # <<>>
  PROVE  /\ DeviceOf(s) \in Seq(Chars) /\ Len(DeviceOf(s)) \in 1..Len(s)
         /\ DeviceOf(s) = SubSeq(s, 1, Len(DeviceOf(s)))
<1> DEFINE hits == {e \in ValidDevs : Len(e) > 1 /\ IsPrefix(e, s)}
<1>0. Len(s) \in Nat /\ Len(s) >= 1 /\ s[1] \in Chars
  OBVIOUS
<1>1. CASE hits = {}
  <2>1. DeviceOf(s) = <<s[1]>>
    BY <1>1 DEF DeviceOf
  <2>2. <<s[1]>> = SubSeq(s, 1, 1)
    <3>1. /\ SubSeq(s, 1, 1) \in Seq(Chars) /\ Len(SubSeq(s, 1, 1)) = 1 /\ SubSeq(s, 1, 1)[1] = s[1]
      BY <1>0, SubSeqProperties
    <3>2. <<s[1]>> \in Seq(Chars) /\ Len(<<s[1]>>) = 1 /\ <<s[1]>>[1] = s[1]
      BY <1>0
    <3> QED BY <3>1, <3>2, SeqEqual
  <2> QED BY <1>0, <2>1, <2>2
<1>2. CASE hits # {}
  <2>1. DeviceOf(s) = CHOOSE x \in hits : \A y \in hits : Len(x) >= Len(y)
    BY <1>2 DEF DeviceOf
  <2>2. \E x \in hits : \A y \in hits : Len(x) >= Len(y)
    <3>1. \A x \in hits : Len(x) \in 1..3
      BY DeviceNames
    <3> HIDE DEF hits
    <3> QED BY <1>2, <3>1
  <2>3. DeviceOf(s) \in hits
    <3> HIDE DEF hits
    <3> QED BY <2>1, <2>2
  <2>4. /\ DeviceOf(s) \in Seq(Chars) /\ Len(DeviceOf(s)) \in 1..3 /\ IsPrefix(DeviceOf(s), s)
    BY <2>3, DeviceNames
  <2> HIDE DEF hits
  <2>5. SubSeq(DeviceOf(s), 1, Len(DeviceOf(s))) = DeviceOf(s)
    BY <2>4, SubSeqFull
  <2> QED BY <1>0, <2>4, <2>5 DEF IsPrefix
<1> QED BY <1>1, <1>2

(* The text that is read is a sequence too. *)
LEMMA TextIsSequence ==
  ASSUME NEW t \in Texts
  PROVE  ToUpper(TrimSpace(t)) \in Seq(Chars)
<1>1. t \in Seq(STRING)
  BY AddressesAssumption
<1> DEFINE solid == {i \in DOMAIN t : t[i] # " "}
           trimmed == TrimSpace(t)
<1>2. trimmed \in Seq(STRING)
  <2>1. CASE solid = {}
    <3>1. trimmed = <<>>
      BY <2>1 DEF TrimSpace
    <3> HIDE DEF trimmed
    <3> QED BY <3>1
  <2>2. CASE solid # {}
    <3>1. Len(t) \in Nat /\ solid \in SUBSET (1..Len(t)) /\ solid \in SUBSET Nat
      <4>1. Len(t) \in Nat /\ DOMAIN t = 1..Len(t)
        BY <1>1
      <4>2. \A i \in 1..Len(t) : i \in Nat
        BY <4>1
      <4> QED BY <4>1, <4>2
    <3>2. Min(solid) \in solid /\ Max(solid) \in solid
      <4> HIDE DEF solid
      <4> QED BY <2>2, <3>1, MinOf, MaxOf
    <3>3. trimmed = SubSeq(t, Min(solid), Max(solid))
      BY <2>2 DEF TrimSpace
    <3>4. Min(solid) \in 1..Len(t) /\ Max(solid) \in 1..Len(t)
      <4> HIDE DEF solid
      <4> QED BY <3>1, <3>2
    <3>5. \A i \in Min(solid)..Max(solid) : t[i] \in STRING
      <4> HIDE DEF solid
      <4> QED BY <1>1, <3>4
    <3> HIDE DEF solid, trimmed
    <3> QED BY <3>3, <3>4, <3>5, SubSeqProperties
  <2> QED BY <2>1, <2>2
<1> HIDE DEF trimmed
<1> DEFINE Upper(ch) == IF \E i \in DOMAIN Letters.lower : Letters.lower[i] = ch
                        THEN Letters.upper[CHOOSE i \in DOMAIN Letters.lower : Letters.lower[i] = ch]
                        ELSE ch
<1>3. \A i \in 1..17 : Letters.upper[i] \in Chars
  BY DEF Letters, Chars
<1>4. DOMAIN Letters.lower = 1..17
  BY DEF Letters
<1>5. ASSUME NEW ch \in STRING PROVE Upper(ch) \in Chars
  <2>1. ch \in Chars
    BY DEF Chars
  <2> QED BY <1>3, <1>4, <2>1
<1>6. ToUpper(trimmed) = [i \in DOMAIN trimmed |-> Upper(trimmed[i])]
  BY DEF ToUpper
<1>7. ToUpper(trimmed) \in [1..Len(trimmed) -> Chars] /\ Len(trimmed) \in Nat
  <2>1. Len(trimmed) \in Nat /\ DOMAIN trimmed = 1..Len(trimmed)
    BY <1>2
  <2>2. \A i \in 1..Len(trimmed) : trimmed[i] \in STRING
    BY <1>2
  <2>3. \A i \in 1..Len(trimmed) : Upper(trimmed[i]) \in Chars
    BY <1>5, <2>2
  <2> HIDE DEF Upper
  <2> QED BY <1>6, <2>1, <2>3
<1> QED BY <1>7, SeqDef DEF trimmed

(* Where parseAddr cuts s.                                                 *)
KPrefix(s)  == IF HasK(s) THEN 2 ELSE 0
Body(s)   == IF HasK(s) THEN SubSeq(s, 3, Len(s)) ELSE s
Device(s) == DeviceOf(Body(s))
Rest(s)   == SubSeq(Body(s), Len(Device(s)) + 1, Len(Body(s)))
HasDot(s) == \E i \in DOMAIN Rest(s) : Rest(s)[i] = "."
Dot(s)    == IF HasDot(s) THEN Min({i \in DOMAIN Rest(s) : Rest(s)[i] = "."}) ELSE Len(Rest(s)) + 1
Found(s)  == [k |-> KPrefix(s), dev |-> KPrefix(s) + Len(Device(s)),
              num |-> KPrefix(s) + Len(Device(s)) + Dot(s) - 1]

(* The body is the rest of s from behind its K prefix.                     *)
LEMMA BodyIs ==
  ASSUME NEW s \in Seq(Chars)
  PROVE  /\ Len(s) \in Nat /\ KPrefix(s) \in {0, 2} /\ KPrefix(s) <= Len(s) /\ (KPrefix(s) = 2 <=> HasK(s))
         /\ Body(s) \in Seq(Chars) /\ Len(Body(s)) = Len(s) - KPrefix(s)
         /\ \A i \in 1..Len(Body(s)) : Body(s)[i] = s[KPrefix(s) + i]
<1>0. Len(s) \in Nat /\ \A i \in 1..Len(s) : s[i] \in Chars
  OBVIOUS
<1>1. CASE HasK(s)
  <2>1. KPrefix(s) = 2 /\ Body(s) = SubSeq(s, 3, Len(s)) /\ Len(s) > 2
    BY <1>1 DEF KPrefix, Body, HasK
  <2>2. /\ SubSeq(s, 2 + 1, Len(s)) \in Seq(Chars) /\ Len(SubSeq(s, 2 + 1, Len(s))) = Len(s) - 2
        /\ \A i \in 1..Len(s) - 2 : SubSeq(s, 2 + 1, Len(s))[i] = s[2 + i]
    BY <1>0, <2>1, PartIs
  <2>3. 2 + 1 = 3
    OBVIOUS
  <2> QED BY <1>0, <1>1, <2>1, <2>2, <2>3
<1>2. CASE ~HasK(s)
  <2>1. KPrefix(s) = 0 /\ Body(s) = s
    BY <1>2 DEF KPrefix, Body
  <2>2. \A i \in 1..Len(s) : 0 + i = i
    BY <1>0
  <2> QED BY <1>0, <1>2, <2>1, <2>2
<1> QED BY <1>1, <1>2

(* The rest is that of s from behind the name of the device.               *)
LEMMA RestIs ==
  ASSUME NEW s \in Seq(Chars), Len(Body(s)) >= 1
  PROVE  /\ Len(Device(s)) \in Nat /\ Len(Device(s)) >= 1 /\ Len(Device(s)) <= Len(Body(s))
         /\ Device(s) \in Seq(Chars) /\ Device(s) = SubSeq(s, KPrefix(s) + 1, KPrefix(s) + Len(Device(s)))
         /\ Rest(s) \in Seq(Chars) /\ Len(Rest(s)) = Len(s) - KPrefix(s) - Len(Device(s))
         /\ \A i \in 1..Len(Rest(s)) : Rest(s)[i] = s[KPrefix(s) + Len(Device(s)) + i]
<1> DEFINE b == Body(s)
           d == Device(s)
           k == KPrefix(s)
<1>1. /\ b \in Seq(Chars) /\ Len(b) = Len(s) - k /\ Len(b) \in Nat /\ k \in Nat /\ Len(s) \in Nat
      /\ \A i \in 1..Len(b) : b[i] = s[k + i] /\ b[i] \in Chars
  BY BodyIs
<1>2. d \in Seq(Chars) /\ Len(d) \in 1..Len(b) /\ d = SubSeq(b, 1, Len(d))
  <2>1. b # <<>>
    BY <1>1
  <2> QED BY <1>1, <2>1, DeviceIsPrefix DEF Device
<1>3. Rest(s) = SubSeq(b, Len(d) + 1, Len(b))
  BY DEF Rest
<1> HIDE DEF b, d, k
<1>4. Len(d) \in Nat /\ Len(d) >= 1 /\ Len(d) <= Len(b)
  BY <1>1, <1>2
<1>5. /\ SubSeq(b, Len(d) + 1, Len(b)) \in Seq(Chars)
      /\ Len(SubSeq(b, Len(d) + 1, Len(b))) = Len(b) - Len(d)
      /\ \A i \in 1..Len(b) - Len(d) : SubSeq(b, Len(d) + 1, Len(b))[i] = b[Len(d) + i]
  <2>1. b \in Seq(Chars) /\ Len(d) \in Nat /\ Len(b) \in Nat /\ Len(d) <= Len(b) /\ Len(b) <= Len(b)
    BY <1>1, <1>4
  <2> QED BY <2>1, PartIs
<1>6. \A i \in 1..Len(b) - Len(d) : b[Len(d) + i] = s[k + Len(d) + i]
  <2>1. ASSUME NEW i \in 1..Len(b) - Len(d)
        PROVE  Len(d) + i \in 1..Len(b) /\ k + (Len(d) + i) = k + Len(d) + i
    BY <1>1, <1>4
  <2> QED BY <1>1, <2>1
<1>7. d = SubSeq(s, k + 1, k + Len(d))
  <2> DEFINE n == k + Len(d)
             t == SubSeq(s, k + 1, n)
  <2>1. n \in Nat /\ k <= n /\ n <= Len(s) /\ n - k = Len(d)
    BY <1>1, <1>4
  <2> HIDE DEF n
  <2>2. t \in Seq(Chars) /\ Len(t) = n - k /\ \A i \in 1..n - k : t[i] = s[k + i]
    BY <1>1, <2>1, PartIs
  <2>3. \A i \in 1..Len(d) : d[i] = s[k + i]
    <3>1. \A i \in 1..Len(d) : d[i] = b[i]
      BY <1>1, <1>2, <1>4, PrefixAgrees DEF IsPrefix
    <3>2. \A i \in 1..Len(d) : i \in 1..Len(b)
      BY <1>1, <1>4
    <3> QED BY <1>1, <3>1, <3>2
  <2> HIDE DEF t
  <2>4. \A i \in 1..Len(d) : t[i] = d[i]
    BY <2>1, <2>2, <2>3
  <2>5. t = d
    BY <1>2, <2>1, <2>2, <2>4, SeqEqual
  <2> QED BY <2>5 DEF t, n
<1>8. Len(b) - Len(d) = Len(s) - k - Len(d)
  BY <1>1, <1>4
<1> QED BY <1>1, <1>2, <1>3, <1>4, <1>5, <1>6, <1>7, <1>8 DEF b, d, k

(* The dot is the first one, or behind the end.                            *)
LEMMA DotIs ==
  ASSUME NEW s, Rest(s) \in Seq(Chars)
  PROVE  /\ Dot(s) \in 1..Len(Rest(s)) + 1
         /\ \A i \in 1..Len(Rest(s)) : i < Dot(s) => Rest(s)[i] # "."
         /\ HasDot(s) <=> Dot(s) \in 1..Len(Rest(s))
         /\ HasDot(s) => Rest(s)[Dot(s)] = "."
<1> DEFINE r == Rest(s)
           dots == {i \in DOMAIN r : r[i] = "."}
<1>1. Len(r) \in Nat /\ DOMAIN r = 1..Len(r)
  OBVIOUS
<1>2. HasDot(s) <=> \E i \in DOMAIN r : r[i] = "."
  BY DEF HasDot
<1>3. Dot(s) = IF HasDot(s) THEN Min(dots) ELSE Len(r) + 1
  BY DEF Dot
<1> HIDE DEF r
<1>4. CASE HasDot(s)
  <2>1. dots \in SUBSET Nat /\ dots # {}
    BY <1>1, <1>2, <1>4
  <2> HIDE DEF dots
  <2>2. Min(dots) \in dots /\ \A i \in dots : Min(dots) <= i
    BY <2>1, MinOf
  <2>3. Dot(s) \in 1..Len(r) /\ r[Dot(s)] = "." /\ \A i \in 1..Len(r) : r[i] = "." => Dot(s) <= i
    BY <1>1, <1>3, <1>4, <2>2 DEF dots
  <2>4. Dot(s) \in 1..Len(r) + 1 /\ \A i \in 1..Len(r) : i < Dot(s) => r[i] # "."
    <3>1. Dot(s) \in Nat /\ Dot(s) >= 1 /\ Dot(s) <= Len(r)
      BY <1>1, <2>3
    <3>2. \A i \in 1..Len(r) : i < Dot(s) => ~(Dot(s) <= i)
      BY <1>1, <3>1
    <3> QED BY <1>1, <2>3, <3>1, <3>2
  <2> QED BY <1>4, <2>3, <2>4 DEF r
<1>5. CASE ~HasDot(s)
  <2>1. Dot(s) = Len(r) + 1 /\ \A i \in 1..Len(r) : r[i] # "."
    BY <1>1, <1>2, <1>3, <1>5
  <2>2. Dot(s) \in 1..Len(r) + 1 /\ Dot(s) \notin 1..Len(r)
    BY <1>1, <2>1
  <2> QED BY <1>5, <2>1, <2>2 DEF r
<1> QED BY <1>4, <1>5

(* The cuts of s are where parseAddr cuts it.                              *)
LEMMA CutIsFound ==
  ASSUME NEW s \in Seq(Chars), NEW cut \in Cuts(s)
  PROVE  cut = Found(s) /\ Len(Body(s)) >= 2
<1> DEFINE k == cut.k
           d == DeviceIn(s, cut)
           l == cut.dev - cut.k
           n == SubSeq(s, cut.dev + 1, cut.num)
<1>1. /\ cut = [k |-> cut.k, dev |-> cut.dev, num |-> cut.num]
      /\ cut.k \in {0, 2} /\ cut.dev \in 0..Len(s) /\ cut.num \in 0..Len(s) /\ Len(s) \in Nat
      /\ cut.k < cut.dev /\ cut.dev < cut.num /\ d \in ValidDevs /\ NumberIn(s, cut) # NoAddress
      /\ cut.k = 2 => s[1] = "K" /\ s[2] \in {Digits[i] : i \in 2..9}
      /\ cut.num < Len(s) => cut.num + 2 = Len(s) /\ s[cut.num + 1] = "."
  BY DEF Cuts
<1>2. /\ cut.k \in Nat /\ cut.dev \in Nat /\ cut.num \in Nat /\ l \in Nat /\ l >= 1 /\ cut.dev = cut.k + l
      /\ cut.dev < Len(s) /\ cut.num <= Len(s)
  BY <1>1
<1>3. /\ d \in Seq(Chars) /\ Len(d) = l /\ \A i \in 1..l : d[i] = s[cut.k + i]
  <2>1. d = SubSeq(s, cut.k + 1, cut.dev)
    BY DEF DeviceIn
  <2>3. cut.k \in Nat /\ cut.dev \in Nat /\ cut.k <= cut.dev /\ cut.dev <= Len(s) /\ cut.dev - cut.k = l
    BY <1>2
  <2> HIDE DEF d, l
  <2>4. /\ d \in Seq(Chars) /\ Len(d) = cut.dev - cut.k
        /\ \A i \in 1..cut.dev - cut.k : d[i] = s[cut.k + i]
    BY <2>1, <2>3, PartIs
  <2> QED BY <2>3, <2>4
<1>4. /\ n \in Seq(Chars) /\ Len(n) = cut.num - cut.dev /\ \A i \in 1..Len(n) : n[i] = s[cut.dev + i]
  <2>1. cut.dev <= cut.num
    BY <1>1, <1>2
  <2>2. /\ n \in Seq(Chars) /\ Len(n) = cut.num - cut.dev
        /\ \A i \in 1..cut.num - cut.dev : n[i] = s[cut.dev + i]
    BY <1>2, <2>1, PartIs
  <2> HIDE DEF n
  <2> QED BY <2>2
<1>5. Len(n) >= 1 /\ n[1] \in Signs \cup DigitsOf(Base(d)) /\ \A i \in 1..Len(n) : n[i] # "."
  <2>1. ParseInt(n, Base(d)) # NoAddress
    BY <1>1 DEF NumberIn
  <2>2. Base(d) \in {10, 16}
    BY DEF Base
  <2> HIDE DEF n, d
  <2> QED BY <1>4, <2>1, <2>2, AddressDigits
<1> HIDE DEF d, l, n
<1>6. KPrefix(s) = cut.k
  <2>1. CASE cut.k = 2
    <3>1. s[2] \in DigitsOf(10) /\ s[1] = "K" /\ Len(s) > 2
      <4>1. \A i \in 2..9 : i \in 1..10
        OBVIOUS
      <4> QED BY <1>1, <1>2, <2>1, <4>1 DEF DigitsOf
    <3> QED BY <2>1, <3>1 DEF KPrefix, HasK
  <2>2. CASE cut.k = 0
    <3>1. d[1] # "K"
      BY <1>1, DeviceNames
    <3>2. s[1] = d[1]
      <4>1. d[1] = s[cut.k + 1] /\ cut.k + 1 = 1
        BY <1>2, <1>3, <2>2
      <4> QED BY <4>1
    <3> QED BY <2>2, <3>1, <3>2 DEF KPrefix, HasK
  <2> QED BY <1>1, <2>1, <2>2
<1>7. /\ Body(s) \in Seq(Chars) /\ Len(Body(s)) = Len(s) - cut.k
      /\ \A i \in 1..Len(Body(s)) : Body(s)[i] = s[cut.k + i]
  BY <1>6, BodyIs
<1>8. l < Len(Body(s)) /\ Len(Body(s)) >= 2
  BY <1>1, <1>2, <1>7
<1>9. Device(s) = d
  <2>1. \A i \in 1..l : Body(s)[i] = d[i]
    <3>1. \A i \in 1..l : i \in 1..Len(Body(s))
      BY <1>2, <1>7, <1>8
    <3> QED BY <1>3, <1>7, <3>1
  <2>2. Body(s)[l + 1] = n[1]
    <3>1. l + 1 \in 1..Len(Body(s)) /\ cut.k + (l + 1) = cut.dev + 1
      <4>1. Len(Body(s)) \in Nat /\ l < Len(Body(s))
        BY <1>7, <1>8
      <4> HIDE DEF l
      <4>2. l \in Nat /\ cut.k \in Nat /\ cut.dev = cut.k + l
        BY <1>2
      <4> QED BY <4>1, <4>2
    <3>2. 1 \in 1..Len(n)
      BY <1>1, <1>4, <1>5
    <3> QED BY <1>4, <1>7, <3>1, <3>2
  <2>3. DeviceOf(Body(s)) = d
    BY <1>1, <1>3, <1>5, <1>7, <1>8, <2>1, <2>2, NamedDevice
  <2> QED BY <2>3 DEF Device
<1>10. /\ Rest(s) \in Seq(Chars) /\ Len(Rest(s)) = Len(s) - cut.dev
       /\ \A i \in 1..Len(Rest(s)) : Rest(s)[i] = s[cut.dev + i]
  <2>1. Len(Body(s)) >= 1
    BY <1>1, <1>7, <1>8
  <2>2. /\ Rest(s) \in Seq(Chars) /\ Len(Rest(s)) = Len(s) - cut.k - l
        /\ \A i \in 1..Len(Rest(s)) : Rest(s)[i] = s[cut.k + l + i]
    BY <1>3, <1>6, <1>9, <2>1, RestIs
  <2>3. Len(s) - cut.k - l = Len(s) - cut.dev /\ cut.k + l = cut.dev
    BY <1>1, <1>2
  <2> QED BY <2>2, <2>3
<1>11. Dot(s) = cut.num - cut.dev + 1
  <2> DEFINE j == cut.num - cut.dev + 1
             r == Rest(s)
  <2>1. \A i \in 1..j - 1 : i \in 1..Len(r) /\ r[i] # "."
    <3>1. \A i \in 1..j - 1 : i \in 1..Len(n) /\ i \in 1..Len(r)
      BY <1>1, <1>2, <1>4, <1>10
    <3>2. \A i \in 1..j - 1 : r[i] = n[i]
      BY <1>4, <1>10, <3>1
    <3> QED BY <1>5, <3>1, <3>2
  <2>2. j <= Len(r) => r[j] = "."
    <3>1. ASSUME j <= Len(r) PROVE cut.num < Len(s) /\ cut.dev + j = cut.num + 1 /\ j \in 1..Len(r)
      <4>1. /\ Len(r) = Len(s) - cut.dev /\ Len(s) \in Nat
            /\ cut.dev \in Nat /\ cut.num \in Nat /\ cut.dev < cut.num
        BY <1>1, <1>2, <1>10
      <4> HIDE DEF r
      <4> QED BY <3>1, <4>1
    <3> QED BY <1>1, <1>10, <3>1
  <2>3. j \in Nat /\ j >= 1 /\ j <= Len(r) + 1 /\ Len(r) \in Nat
    BY <1>1, <1>2, <1>10
  <2> HIDE DEF j, r
  <2>4. /\ Dot(s) \in 1..Len(r) + 1
        /\ \A i \in 1..Len(r) : i < Dot(s) => r[i] # "."
        /\ Dot(s) \in 1..Len(r) => r[Dot(s)] = "."
    BY <1>10, DotIs DEF r
  <2>5. ~(j < Dot(s))
    <3>1. ASSUME j < Dot(s) PROVE j \in 1..Len(r)
      BY <2>3, <2>4, <3>1
    <3> QED BY <2>2, <2>3, <2>4, <3>1
  <2>6. ~(Dot(s) < j)
    <3>1. ASSUME Dot(s) < j PROVE Dot(s) \in 1..j - 1 /\ Dot(s) \in 1..Len(r)
      BY <2>3, <2>4, <3>1
    <3> QED BY <2>1, <2>4, <3>1
  <2>7. Dot(s) = j
    BY <2>3, <2>4, <2>5, <2>6
  <2> QED BY <2>7 DEF j
<1>12. cut.k + l + Dot(s) - 1 = cut.num
  BY <1>1, <1>2, <1>11
<1>13. Found(s) = [k |-> cut.k, dev |-> cut.dev, num |-> cut.num]
  BY <1>2, <1>3, <1>6, <1>9, <1>12 DEF Found
<1> QED BY <1>1, <1>8, <1>13

(* What parseAddr makes of the parts it cuts s into.                       *)
Suffix(s)  == SubSeq(Rest(s), Dot(s) + 1, Len(Rest(s)))
AddrIn(s)  == ParseInt(SubSeq(Rest(s), 1, Dot(s) - 1), Base(Device(s)))
Nibbles(s) == IF HasK(s) THEN ValueOf(s[2]) ELSE 0

Refuses(s) ==
    \/ HasK(s) /\ ~NibblesAllowed(Nibbles(s))
    \/ Len(Body(s)) < 2
    \/ Device(s) \notin ValidDevs
    \/ HasDot(s) /\ ~BitAllowed(Device(s), Suffix(s))
    \/ Nibbles(s) > 0 /\ ~KAllowed(Device(s))
    \/ AddrIn(s) = NoAddress

(* parseAddr refuses the parts of its text or puts them together.          *)
LEMMA ParsedIs ==
  ASSUME NEW t
  PROVE  LET s == ToUpper(TrimSpace(t))
         IN  ParseAddr(t) = IF Refuses(s) THEN Invalid
                            ELSE ParsedAddr(Device(s), AddrIn(s),
                                            IF HasDot(s) THEN ValueOf(Suffix(s)[1]) ELSE -1, Nibbles(s))
BY DEF ParseAddr, Refuses, Device, AddrIn, HasDot, Suffix, Nibbles, Rest, Dot, Body

(* They are those of the cut.                                              *)
LEMMA FoundParts ==
  ASSUME NEW s \in Seq(Chars), Len(Body(s)) >= 1
  PROVE  LET f == Found(s)
         IN  /\ f \in [k : {0, 2}, dev : 0..Len(s), num : 0..Len(s)] /\ f.k = KPrefix(s)
             /\ f.k < f.dev /\ f.dev <= f.num
             /\ DeviceIn(s, f) = Device(s) /\ NumberIn(s, f) = AddrIn(s)
             /\ AddrIn(s) # NoAddress => f.dev < f.num
             /\ HasDot(s) <=> f.num < Len(s)
             /\ HasDot(s) => /\ s[f.num + 1] = "."
                             /\ Len(Suffix(s)) = 1 <=> f.num + 2 = Len(s)
                             /\ Len(Suffix(s)) = 1 => Suffix(s)[1] = s[f.num + 2]
<1> DEFINE k == KPrefix(s)
           l == Len(Device(s))
           r == Rest(s)
           j == Dot(s)
           f == Found(s)
<1>1. Len(s) \in Nat /\ k \in {0, 2} /\ k <= Len(s) /\ Len(Body(s)) = Len(s) - k
  BY BodyIs
<1>2. /\ l \in Nat /\ l >= 1 /\ k + l <= Len(s) /\ Device(s) = SubSeq(s, k + 1, k + l)
      /\ r \in Seq(Chars) /\ Len(r) = Len(s) - k - l /\ \A i \in 1..Len(r) : r[i] = s[k + l + i]
  BY <1>1, RestIs
<1>3. j \in 1..Len(r) + 1 /\ (HasDot(s) <=> j \in 1..Len(r)) /\ (HasDot(s) => r[j] = ".")
  BY <1>2, DotIs
<1>4. f = [k |-> k, dev |-> k + l, num |-> k + l + j - 1]
  BY DEF Found
<1> HIDE DEF k, l, r, j, f
<1>5. /\ f.k = k /\ f.dev = k + l /\ f.num = k + l + j - 1 /\ Len(r) \in Nat /\ j \in Nat /\ j >= 1
      /\ k + l \in Nat /\ f.num \in Nat /\ f.num <= Len(s) /\ f.dev <= f.num /\ f.k < f.dev
      /\ f.num < Len(s) <=> j \in 1..Len(r)
  BY <1>1, <1>2, <1>3, <1>4
<1>6. f \in [k : {0, 2}, dev : 0..Len(s), num : 0..Len(s)]
  BY <1>1, <1>2, <1>4, <1>5
<1>7. DeviceIn(s, f) = Device(s)
  BY <1>2, <1>5 DEF DeviceIn
<1>8. SubSeq(s, f.dev + 1, f.num) = SubSeq(r, 1, j - 1)
  <2> DEFINE m == k + l
             n == f.num
             t == SubSeq(s, m + 1, n)
             u == SubSeq(r, 0 + 1, j - 1)
  <2>1. m \in Nat /\ n \in Nat /\ m <= n /\ n <= Len(s) /\ n - m = j - 1 /\ j - 1 \in Nat /\ 0 <= j - 1
        /\ j - 1 <= Len(r) /\ j - 1 - 0 = j - 1 /\ 0 + 1 = 1 /\ 0 \in Nat
    BY <1>1, <1>2, <1>3, <1>5
  <2> HIDE DEF m, n
  <2>2. t \in Seq(Chars) /\ Len(t) = n - m /\ \A i \in 1..n - m : t[i] = s[m + i]
    BY <2>1, PartIs
  <2>3. u \in Seq(Chars) /\ Len(u) = j - 1 - 0 /\ \A i \in 1..j - 1 - 0 : u[i] = r[0 + i]
    <3>1. r \in Seq(Chars)
      BY <1>2
    <3> HIDE DEF t
    <3> QED BY <2>1, <3>1, PartIs
  <2> HIDE DEF t, u
  <2>4. \A i \in 1..j - 1 : t[i] = u[i]
    <3>1. \A i \in 1..j - 1 : i \in 1..Len(r) /\ 0 + i = i
      BY <1>5, <2>1
    <3>2. \A i \in 1..j - 1 : r[i] = s[m + i]
      BY <1>2, <3>1 DEF m
    <3> QED BY <2>1, <2>2, <2>3, <3>1, <3>2
  <2>5. t = u
    BY <2>1, <2>2, <2>3, <2>4, SeqEqual
  <2>6. t = SubSeq(s, f.dev + 1, f.num) /\ u = SubSeq(r, 1, j - 1)
    BY <1>5, <2>1 DEF t, u, m, n
  <2> QED BY <2>5, <2>6
<1>9. NumberIn(s, f) = AddrIn(s)
  BY <1>7, <1>8 DEF NumberIn, AddrIn, r, j
<1>10. ASSUME AddrIn(s) # NoAddress PROVE f.dev < f.num
  <2>1. f.dev = f.num => SubSeq(s, f.dev + 1, f.num) = <<>>
    <3>1. ASSUME f.dev = f.num PROVE f.dev + 1 \in Int /\ f.num \in Int /\ f.num < f.dev + 1
      BY <1>5, <3>1
    <3> QED BY <3>1, SubSeqEmpty
  <2>2. ParseInt(<<>>, Base(Device(s))) = NoAddress
    BY DEF ParseInt
  <2>3. f.dev # f.num
    BY <1>8, <1>10, <2>1, <2>2 DEF AddrIn, r, j
  <2> QED BY <1>5, <2>3
<1>11. ASSUME HasDot(s)
       PROVE  /\ s[f.num + 1] = "."
              /\ Len(Suffix(s)) = 1 <=> f.num + 2 = Len(s)
              /\ Len(Suffix(s)) = 1 => Suffix(s)[1] = s[f.num + 2]
  <2>1. j \in 1..Len(r) /\ r[j] = "." /\ k + l + j = f.num + 1 /\ j <= Len(r)
    BY <1>2, <1>3, <1>5, <1>11
  <2>2. Suffix(s) = SubSeq(r, j + 1, Len(r))
    BY DEF Suffix, r, j
  <2>3. /\ Len(SubSeq(r, j + 1, Len(r))) = Len(r) - j
        /\ \A i \in 1..Len(r) - j : SubSeq(r, j + 1, Len(r))[i] = r[j + i]
    BY <1>2, <1>5, <2>1, PartIs
  <2>4. Len(r) - j = 1 <=> f.num + 2 = Len(s)
    <3>1. Len(r) = Len(s) - k - l /\ l \in Nat
      BY <1>2
    <3>2. f.num = k + l + j - 1 /\ j \in Nat
      BY <1>5
    <3>3. k \in Nat /\ Len(s) \in Nat
      BY <1>1
    <3>4. \A a, b, c, x \in Nat : a - b - c - x = 1 <=> b + c + x - 1 + 2 = a
      OBVIOUS
    <3> QED BY <3>1, <3>2, <3>3, <3>4
  <2>5. ASSUME Len(r) - j = 1 PROVE SubSeq(r, j + 1, Len(r))[1] = s[f.num + 2]
    <3>1. 1 \in 1..Len(r) - j /\ j + 1 \in 1..Len(r) /\ k + l + (j + 1) = f.num + 2
      BY <1>1, <1>2, <1>5, <2>1, <2>5
    <3> QED BY <1>2, <2>3, <3>1
  <2> QED BY <1>2, <2>1, <2>2, <2>3, <2>4, <2>5
<1> QED BY <1>3, <1>5, <1>6, <1>7, <1>9, <1>10, <1>11 DEF f, k

(* Cutting there yields an address exactly if parseAddr does.              *)
LEMMA FoundIsCut ==
  ASSUME NEW s \in Seq(Chars), Len(Body(s)) >= 2
  PROVE  Found(s) \in Cuts(s) <=> ~Refuses(s)
<1> DEFINE f == Found(s)
           d == Device(s)
<1>1. /\ f \in [k : {0, 2}, dev : 0..Len(s), num : 0..Len(s)] /\ f.k = KPrefix(s)
      /\ f.k < f.dev /\ f.dev <= f.num
      /\ DeviceIn(s, f) = d /\ NumberIn(s, f) = AddrIn(s)
      /\ AddrIn(s) # NoAddress => f.dev < f.num
      /\ HasDot(s) <=> f.num < Len(s)
      /\ HasDot(s) => /\ s[f.num + 1] = "."
                      /\ Len(Suffix(s)) = 1 <=> f.num + 2 = Len(s)
                      /\ Len(Suffix(s)) = 1 => Suffix(s)[1] = s[f.num + 2]
  <2>1. Len(Body(s)) >= 1
    BY BodyIs
  <2> QED BY <2>1, FoundParts
<1>2. (KPrefix(s) = 2 <=> HasK(s)) /\ ~(Len(Body(s)) < 2)
  BY BodyIs
<1>3. f \in Cuts(s) <=>
         /\ f.k < f.dev /\ f.dev < f.num /\ d \in ValidDevs /\ AddrIn(s) # NoAddress
         /\ f.k = 2 => s[1] = "K" /\ s[2] \in {Digits[i] : i \in 2..9} /\ d \in BitDevs
         /\ f.num < Len(s) => /\ f.num + 2 = Len(s)
                              /\ s[f.num + 1] = "." /\ s[f.num + 2] \in DigitsOf(16)
                              /\ d \in WordDevs
  BY <1>1 DEF Cuts
<1> HIDE DEF f, d
<1>4. ASSUME HasK(s)
      PROVE  s[1] = "K" /\ (NibblesAllowed(Nibbles(s)) <=> s[2] \in {Digits[i] : i \in 2..9})
             /\ (NibblesAllowed(Nibbles(s)) => Nibbles(s) > 0)
  <2>1. s[1] = "K" /\ s[2] \in DigitsOf(10) /\ Nibbles(s) = ValueOf(s[2])
    BY <1>4 DEF HasK, Nibbles
  <2> QED BY <2>1, KDigits DEF NibblesAllowed
<1>5. ~HasK(s) => ~(Nibbles(s) > 0)
  BY DEF Nibbles
<1>6. d \in ValidDevs => (KAllowed(d) <=> d \in BitDevs)
  BY KindsApart DEF KAllowed, ValidDevs
<1>7. HasDot(s) => (BitAllowed(d, Suffix(s)) <=>
                       f.num + 2 = Len(s) /\ s[f.num + 2] \in DigitsOf(16) /\ d \in WordDevs)
  BY <1>1 DEF BitAllowed
<1>8. Refuses(s) <=>
         \/ HasK(s) /\ ~NibblesAllowed(Nibbles(s))
         \/ d \notin ValidDevs
         \/ HasDot(s) /\ ~BitAllowed(d, Suffix(s))
         \/ Nibbles(s) > 0 /\ ~KAllowed(d)
         \/ AddrIn(s) = NoAddress
  BY <1>2 DEF Refuses, d
<1> QED BY <1>1, <1>2, <1>3, <1>4, <1>5, <1>6, <1>7, <1>8 DEF f

(* The readings of a text are what parseAddr returns for it.               *)
LEMMA ReadingsAre ==
  ASSUME NEW t \in Texts
  PROVE  Readings(ToUpper(TrimSpace(t))) = IF ParseAddr(t) = Invalid THEN {} ELSE {ParseAddr(t)}
<1> DEFINE s == ToUpper(TrimSpace(t))
           f == Found(s)
           p == ParsedAddr(DeviceIn(s, f), NumberIn(s, f), BitIn(s, f), NibblesIn(s, f))
<1>1. s \in Seq(Chars)
  BY TextIsSequence
<1>2. ParseAddr(t) = IF Refuses(s) THEN Invalid
                     ELSE ParsedAddr(Device(s), AddrIn(s),
                                     IF HasDot(s) THEN ValueOf(Suffix(s)[1]) ELSE -1, Nibbles(s))
  BY ParsedIs
<1> HIDE DEF s
<1>3. \A cut \in Cuts(s) : cut = f /\ Len(Body(s)) >= 2
  BY <1>1, CutIsFound
<1>4. CASE Refuses(s)
  <2>1. Cuts(s) = {}
    BY <1>1, <1>3, <1>4, FoundIsCut
  <2>2. Readings(s) = {}
    BY <2>1 DEF Readings
  <2> QED BY <1>2, <1>4, <2>2 DEF s
<1>5. CASE ~Refuses(s)
  <2>1. Len(Body(s)) >= 2
    <3>1. ~(Len(Body(s)) < 2)
      BY <1>5 DEF Refuses
    <3>2. Len(Body(s)) \in Nat
      BY <1>1, BodyIs
    <3> QED BY <3>1, <3>2
  <2>2. f \in Cuts(s)
    BY <1>1, <1>5, <2>1, FoundIsCut
  <2>3. Cuts(s) = {f}
    BY <1>3, <2>2
  <2>4. Readings(s) = {p}
    BY <2>3 DEF Readings
  <2>5. p = ParseAddr(t)
    <3>1. /\ f.k = KPrefix(s) /\ DeviceIn(s, f) = Device(s) /\ NumberIn(s, f) = AddrIn(s)
          /\ f.num \in 0..Len(s) /\ Len(s) \in Nat
          /\ HasDot(s) <=> f.num < Len(s)
          /\ HasDot(s) => (Len(Suffix(s)) = 1 => Suffix(s)[1] = s[f.num + 2])
      <4>1. Len(Body(s)) >= 1
        BY <1>1, <2>1, BodyIs
      <4> QED BY <1>1, <4>1, BodyIs, FoundParts
    <3>2. HasDot(s) => Len(Suffix(s)) = 1
      BY <1>5 DEF Refuses, BitAllowed
    <3>3. BitIn(s, f) = IF HasDot(s) THEN ValueOf(Suffix(s)[1]) ELSE -1
      BY <3>1, <3>2 DEF BitIn
    <3>4. NibblesIn(s, f) = Nibbles(s)
      BY <3>1 DEF NibblesIn, Nibbles, KPrefix
    <3> QED BY <1>2, <1>5, <3>1, <3>3, <3>4
  <2>6. ParseAddr(t) # Invalid
    BY <1>2, <1>5 DEF ParsedAddr, Invalid
  <2> HIDE DEF p
  <2> QED BY <2>4, <2>5, <2>6 DEF s
<1> QED BY <1>4, <1>5

(* The text is one of those parseAddr is called with, and what it returned *)
(* is of that text.                                                        *)
AddressesInv == text \in Texts /\ (parsed # <<>> => parsed = <<ParseAddr(text)>>)

(* Every text has at most one reading and parseAddr finds it, whatever its *)
(* characters (device.go:60-147).                                          *)
THEOREM AddressesReadAsWritten == AddressesSpec => []ReadsAsWritten
<1>1. AddressesInit => AddressesInv
  BY DEF AddressesInit, AddressesInv
<1>2. AddressesInv /\ [Parse]_addressesVars => AddressesInv'
  BY DEF AddressesInv, Parse, addressesVars
<1>3. AddressesInv => ReadsAsWritten
  <2> SUFFICES ASSUME AddressesInv, parsed # <<>>
               PROVE  Readings(ToUpper(TrimSpace(text))) = IF parsed[1] = Invalid THEN {} ELSE {parsed[1]}
    BY DEF ReadsAsWritten
  <2>1. text \in Texts /\ parsed[1] = ParseAddr(text)
    BY DEF AddressesInv
  <2> QED BY <2>1, ReadingsAre
<1> QED BY <1>1, <1>2, <1>3, PTL DEF AddressesSpec

(* What parseAddr returns for an address: a device that exists, a number   *)
(* that is not negative, a bit only behind a word device, K with 1 to 8    *)
(* only in front of a bit device.                                          *)
IsAddress(p) ==
    /\ p \in [ok : {TRUE}, device : ValidDevs, addr : 0..MaxInt, bit : -1..15, nibbles : 0..8]
    /\ IF p.device \in WordDevs THEN p.nibbles = 0 ELSE p.bit = -1

ParsedIsAddress == parsed # <<>> => parsed[1] = Invalid \/ IsAddress(parsed[1])

(* Only the number 0 may follow a minus, and what is too large is refused. *)
LEMMA AddressNumber ==
  ASSUME NEW s \in Seq(Chars), NEW base \in {10, 16}, ParseInt(s, base) # NoAddress
  PROVE  ParseInt(s, base) \in 0..MaxInt
<1> DEFINE ds == IF s # <<>> /\ s[1] \in Signs THEN Tail(s) ELSE s
<1>1. /\ ParseInt(s, base) = Number(ds, base) /\ ~(Number(ds, base) > MaxInt)
      /\ \A i \in DOMAIN ds : ds[i] \in DigitsOf(base)
  BY DEF ParseInt
<1>2. Len(ds) \in Nat /\ DOMAIN ds = 1..Len(ds)
  OBVIOUS
<1> HIDE DEF ds
<1>3. Number(ds, base) \in Nat
  BY <1>1, <1>2, NumberIsNat
<1> QED BY <1>1, <1>3, AddressesAssumption

(* What it does not refuse it returns as an address.                       *)
LEMMA ParsedAsAddress ==
  ASSUME NEW t \in Texts, ParseAddr(t) # Invalid
  PROVE  IsAddress(ParseAddr(t))
<1> DEFINE s == ToUpper(TrimSpace(t))
           d == Device(s)
           bit == IF HasDot(s) THEN ValueOf(Suffix(s)[1]) ELSE -1
<1>1. s \in Seq(Chars)
  BY TextIsSequence
<1>2. ~Refuses(s) /\ ParseAddr(t) = ParsedAddr(d, AddrIn(s), bit, Nibbles(s))
  BY ParsedIs
<1> HIDE DEF s
<1>3. d \in ValidDevs /\ AddrIn(s) # NoAddress
  BY <1>2 DEF Refuses
<1>4. Len(Body(s)) >= 1
  <2>1. ~(Len(Body(s)) < 2) /\ Len(Body(s)) \in Nat
    BY <1>1, <1>2, BodyIs DEF Refuses
  <2> QED BY <2>1
<1>5. AddrIn(s) \in 0..MaxInt
  <2>1. Rest(s) \in Seq(Chars) /\ Dot(s) \in 1..Len(Rest(s)) + 1
    BY <1>1, <1>4, RestIs, DotIs
  <2>2. SubSeq(Rest(s), 0 + 1, Dot(s) - 1) \in Seq(Chars)
    BY <2>1, PartIs
  <2>3. SubSeq(Rest(s), 1, Dot(s) - 1) \in Seq(Chars)
    BY <2>2
  <2>4. Base(d) \in {10, 16}
    BY DEF Base
  <2> QED BY <1>3, <2>3, <2>4, AddressNumber DEF AddrIn
<1>6. bit \in -1..15 /\ (bit # -1 => d \in WordDevs)
  <2>1. CASE HasDot(s)
    <3>1. d \in WordDevs /\ Suffix(s)[1] \in DigitsOf(16)
      BY <1>2, <2>1 DEF Refuses, BitAllowed
    <3>2. ValueOf(Suffix(s)[1]) \in 0..15
      BY <3>1, DigitIsNumber
    <3> QED BY <2>1, <3>1, <3>2
  <2> QED BY <2>1
<1>7. Nibbles(s) \in 0..8 /\ (Nibbles(s) # 0 => d \notin WordDevs)
  <2>1. CASE HasK(s)
    <3>1. Nibbles(s) \in 1..8
      BY <1>2, <2>1 DEF Refuses, NibblesAllowed
    <3> QED BY <1>2, <3>1 DEF Refuses, KAllowed
  <2>2. CASE ~HasK(s)
    BY <2>2 DEF Nibbles
  <2> QED BY <2>1, <2>2
<1> HIDE DEF d, bit
<1> QED BY <1>2, <1>3, <1>5, <1>6, <1>7 DEF IsAddress, ParsedAddr

(* Whatever text it is given, parseAddr returns an error or an address as  *)
(* the handlers take it: the number is not negative, the bit is one of a   *)
(* word's, and no address has both a bit and K (device.go:60-147).         *)
THEOREM ParsedAddressesAreAddresses == AddressesSpec => []ParsedIsAddress
<1>1. AddressesInit => AddressesInv
  BY DEF AddressesInit, AddressesInv
<1>2. AddressesInv /\ [Parse]_addressesVars => AddressesInv'
  BY DEF AddressesInv, Parse, addressesVars
<1>3. AddressesInv => ParsedIsAddress
  BY ParsedAsAddress DEF AddressesInv, ParsedIsAddress
<1> QED BY <1>1, <1>2, <1>3, PTL DEF AddressesSpec

(* RandomAccess takes from an address whether its device is one of words:  *)
(* with the words of the PLC, of 16 bits, its addresses are these.         *)
LEMMA AddressesAreTaken ==
  ASSUME NEW p, IsAddress(p), WordBits = 16
  PROVE  [device |-> IF p.device \in WordDevs THEN "word" ELSE "bit", addr |-> p.addr,
          bit |-> p.bit, nibbles |-> p.nibbles] \in Address
<1>1. /\ p.addr \in Nat /\ p.bit \in -1..15 /\ p.nibbles \in Nat
      /\ IF p.device \in WordDevs THEN p.nibbles = 0 ELSE p.bit = -1
  BY AddressesAssumption DEF IsAddress
<1> QED BY <1>1 DEF Address, IsWordDevice, IsK, IsWordBit
=============================================================================
