------------------------------ MODULE Metrics -------------------------------
(***************************************************************************)
(* The counters behind GET /metrics (metrics.go, and exec and Metrics of   *)
(* queue.go): every request adds to atomic counters, one at a time, before *)
(* and after its turn in the queue, and a scrape loads them one at a time. *)
(* clientMetrics is modelled; plcMetrics has the same recordLatency and is *)
(* read in the same way, its count also added to before the operation and  *)
(* its latency after it.  An average is kept as its sum and its count: the *)
(* rounding to two decimals is left out.                                   *)
(***************************************************************************)
EXTENDS Naturals, Sequences, FiniteSets

CONSTANTS Callers,        \* the requests that go through exec
          Latencies,      \* how long a request may take
          recentWindow    \* length of the ring

ASSUME MetricsAssumption == /\ recentWindow \in Nat \ {0}
                            /\ Latencies \subseteq Nat /\ Latencies # {}

VARIABLES
    requests, busyCount, totalNs, timeouts,    \* atomic
    ring, ringN, ringAt,                       \* guarded by a mutex
    pc,        \* pc[c]: where c is within exec
    latency,   \* latency[c]: the time Do took
    err,       \* err[c]: what Do returned
    spc,       \* how many counters the scrape has loaded
    seen,      \* what the scrape has loaded
    recorded   \* history: the latencies recorded, in the order of the ring

counts  == <<requests, busyCount, totalNs, timeouts>>
window  == <<ring, ringN, ringAt, recorded>>
callers == <<pc, latency, err>>
scrape  == <<spc, seen>>
metricsVars == <<counts, window, callers, scrape>>

SumSeq(s) ==
    LET sum[i \in 0..Len(s)] == IF i = 0 THEN 0 ELSE sum[i - 1] + s[i]
    IN  sum[Len(s)]

NothingSeen == [f \in {"busy", "requests", "total"} |-> 0]

MetricsInit ==
    /\ requests = 0 /\ busyCount = 0 /\ totalNs = 0 /\ timeouts = 0
    /\ ring = [i \in 0..recentWindow - 1 |-> 0]
    /\ ringN = 0 /\ ringAt = 0
    /\ pc = [c \in Callers |-> "new"]
    /\ latency = [c \in Callers |-> 0]
    /\ err = [c \in Callers |-> "none"]
    /\ spc = 0
    /\ seen = NothingSeen
    /\ recorded = <<>>

-----------------------------------------------------------------------------
(* exec *)

At(c, from, to) == pc[c] = from /\ pc' = [pc EXCEPT ![c] = to]

Exec_Count(c) ==
    /\ At(c, "new", "do")
    /\ requests' = requests + 1
    /\ UNCHANGED <<busyCount, totalNs, timeouts, window, latency, err, scrape>>

Exec_DoReturns(c) ==
    /\ At(c, "do", "total")
    /\ \E e \in {"nil", "busy", "deadline"} : err' = [err EXCEPT ![c] = e]
    /\ \E l \in Latencies : latency' = [latency EXCEPT ![c] = l]
    /\ UNCHANGED <<counts, window, scrape>>

(* Mutant: a busy request returns before it is counted. *)
Exec_Busy_Uncounted(c) ==
    /\ err[c] = "busy"
    /\ At(c, "total", "returned")
    /\ UNCHANGED <<counts, window, latency, err, scrape>>

Exec_Busy(c) ==
    /\ err[c] = "busy"
    /\ At(c, "total", "returned")
    /\ busyCount' = busyCount + 1
    /\ UNCHANGED <<requests, totalNs, timeouts, window, latency, err, scrape>>

Exec_Total(c) ==
    /\ err[c] # "busy"
    /\ At(c, "total", "ring")
    /\ totalNs' = totalNs + latency[c]
    /\ UNCHANGED <<requests, busyCount, timeouts, window, latency, err, scrape>>

(* Mutant: the position is advanced before the latency is written. *)
Exec_Ring_AdvanceFirst(c) ==
    /\ At(c, "ring", IF err[c] = "deadline" THEN "timeout" ELSE "returned")
    /\ ringAt' = (ringAt + 1) % recentWindow
    /\ ring' = [ring EXCEPT ![ringAt'] = latency[c]]
    /\ ringN' = ringN + 1
    /\ recorded' = Append(recorded, latency[c])
    /\ UNCHANGED <<counts, latency, err, scrape>>

Exec_Ring(c) ==
    /\ At(c, "ring", IF err[c] = "deadline" THEN "timeout" ELSE "returned")
    /\ ring' = [ring EXCEPT ![ringAt] = latency[c]]
    /\ ringAt' = (ringAt + 1) % recentWindow
    /\ ringN' = ringN + 1
    /\ recorded' = Append(recorded, latency[c])
    /\ UNCHANGED <<counts, latency, err, scrape>>

Exec_Timeout(c) ==
    /\ At(c, "timeout", "returned")
    /\ timeouts' = timeouts + 1
    /\ UNCHANGED <<requests, busyCount, totalNs, window, latency, err, scrape>>

Exec(c) == \/ Exec_Count(c) \/ Exec_DoReturns(c) \/ Exec_Busy(c)
           \/ Exec_Total(c) \/ Exec_Ring(c) \/ Exec_Timeout(c)

-----------------------------------------------------------------------------
(* Metrics *)

(* Mutant: requests is loaded before busyCount. *)
LoadOrder_RequestsFirst == <<"requests", "busy", "total">>

(* The order in which Metrics loads the counters of clientMetrics. *)
LoadOrder == <<"busy", "requests", "total">>

Scrape_Load ==
    /\ spc < Len(LoadOrder)
    /\ spc' = spc + 1
    /\ LET f == LoadOrder[spc + 1]
       IN  seen' = [seen EXCEPT ![f] = CASE f = "busy"     -> busyCount
                                         [] f = "requests" -> requests
                                         [] f = "total"    -> totalNs]
    /\ UNCHANGED <<counts, window, callers>>

(* The response is written; another scrape may come. *)
Scrape_Respond ==
    /\ spc = Len(LoadOrder)
    /\ spc' = 0
    /\ seen' = NothingSeen
    /\ UNCHANGED <<counts, window, callers>>

(* cNonBusy before it is clamped at zero, and the two averages. *)
NonBusySeen   == seen["requests"] - seen["busy"]
RecentCount   == IF ringN > recentWindow THEN recentWindow ELSE ringN
RecentSum     == SumSeq([i \in 1..RecentCount |-> ring[i - 1]])

MetricsNext == \/ \E c \in Callers : Exec(c)
        \/ Scrape_Load \/ Scrape_Respond

MetricsSpec == MetricsInit /\ [][MetricsNext]_metricsVars

-----------------------------------------------------------------------------
(* Properties. *)

(* A scrape never loads more busy rejections than requests, whatever ran   *)
(* between its loads: busyCount is loaded first (queue.go:574-579), so the *)
(* count of answered requests needs no clamp.                              *)
BusySeenWithinRequests == spc >= 2 => seen["requests"] >= seen["busy"]

(* The recent average is that of the last recentWindow latencies, also     *)
(* after the ring has wrapped (metrics.go:24-31, 74-92).                   *)
RecentIsTail ==
    RecentSum = SumSeq(SubSeq(recorded, Len(recorded) - RecentCount + 1, Len(recorded)))

(* Between requests the counters are consistent: what the averages divide  *)
(* by is the number of latencies in the sums, and busy_count and           *)
(* timeout_count count what was returned (queue.go:165-179; README.md:276).*)
IdleCountersAgree ==
    (\A c \in Callers : pc[c] \in {"new", "returned"}) =>
        /\ requests - busyCount = Len(recorded) /\ ringN = Len(recorded)
        /\ totalNs = SumSeq(recorded)
        /\ busyCount = Cardinality({c \in Callers : err[c] = "busy"})
        /\ timeouts = Cardinality({c \in Callers : err[c] = "deadline"})

=============================================================================
