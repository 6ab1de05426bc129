---------------------------- MODULE ServerHealth ----------------------------
(***************************************************************************)
(* The health bookkeeping of one backend (lb-proxy/src/health.rs): request *)
(* tasks call record(), the health loop and the /health and /metrics pages *)
(* call error_rate() and five_xx_count().  The two sliding windows have a  *)
(* mutex each, the latency average a compare-and-swap loop, the counter an *)
(* atomic add, and nothing makes the four change together.                 *)
(*                                                                         *)
(* Instants are natural numbers that only Tick advances.                   *)
(*                                                                         *)
(* All atomic accesses are Ordering::Relaxed.  The properties about the    *)
(* average relate one atomic to what was exchanged into it, and every      *)
(* change of it is a read-modify-write, which sees the latest value        *)
(* whatever the ordering; a load that returns an older one only makes its  *)
(* exchange fail, as if another recorder had come in between.  Nothing is  *)
(* said here about two atomics at once: a reader may see the count of a    *)
(* record() before its average.                                            *)
(***************************************************************************)
EXTENDS Integers, Sequences, SequencesExt

CONSTANTS
    Recorders,    \* tasks that call record()
    Readers,      \* tasks that call error_rate()
    Window,       \* five_xx_window
    Latencies,    \* observed response-head latencies, in nanoseconds
    MaxTime,      \* bound on the clock
    MaxRecords    \* bound on calls of record()

ASSUME WindowAssumption == Window \in Nat
\* A response head takes at least ten nanoseconds.
ASSUME LatencyAssumption == Latencies \subseteq {n \in Nat : n >= 10}
ASSUME BoundsAssumption == MaxTime \in Nat /\ MaxRecords \in Nat

VARIABLES
    clock,            \* Instant::now()
    all_requests,     \* instants of all completions, oldest at the front
    five_xx,          \* instants of the 5xx completions
    latency_ema_ns,   \* 0 is EMPTY_EMA_SENTINEL
    total_requests,
    rec,              \* rec[p]: the locals of recorder p's call of record()
    reader,           \* reader[q]: the locals of reader q's call of error_rate()
    rate,             \* rate[q]: what q's last error_rate() returned
    started,          \* history: calls of record() so far
    pushed,           \* history: every instant pushed to all_requests
    pushed_5xx,       \* history: every instant pushed to five_xx
    observed          \* history: latencies in the order they were averaged in

windows == <<all_requests, five_xx>>
history == <<started, pushed, pushed_5xx, observed>>
vars == <<clock, all_requests, five_xx, latency_ema_ns, total_requests, rec,
          reader, rate, started, pushed, pushed_5xx, observed>>

Instants == 0 .. MaxTime

RecordPoints == {"idle", "all", "5xx", "load", "cas", "count"}

TypeOK ==
    /\ clock \in Instants
    /\ all_requests \in Seq(Instants)
    /\ five_xx \in Seq(Instants)
    /\ latency_ema_ns \in Nat
    /\ total_requests \in Nat
    /\ rec \in [Recorders -> [pc : RecordPoints, now : Instants, err : BOOLEAN,
                              lat : Latencies \cup {0}, cur : Nat]]
    /\ reader \in [Readers -> [pc : {"idle", "5xx"}, total : Nat]]
    /\ rate \in [Readers -> [errors : Nat, total : Nat]]
    /\ started \in 0 .. MaxRecords
    /\ pushed \in Seq(Instants)
    /\ pushed_5xx \in Seq(Instants)
    /\ observed \in Seq(Latencies)

Init ==
    /\ clock = 0
    /\ all_requests = <<>>
    /\ five_xx = <<>>
    /\ latency_ema_ns = 0
    /\ total_requests = 0
    /\ rec = [p \in Recorders |->
                [pc |-> "idle", now |-> 0, err |-> FALSE, lat |-> 0, cur |-> 0]]
    /\ reader = [q \in Readers |-> [pc |-> "idle", total |-> 0]]
    /\ rate = [q \in Readers |-> [errors |-> 0, total |-> 1]]
    /\ started = 0
    /\ pushed = <<>>
    /\ pushed_5xx = <<>>
    /\ observed = <<>>

\* prune(): drop entries from the front while they are older than the window.
\* An instant in the future counts as age zero (duration_since saturates).
\* The mutated form also drops the entry exactly at the window's edge.
PruneAtEdge(entries, now) ==
    LET fresh == {i \in 1 .. Len(entries) : now - entries[i] < Window}
    IN  IF fresh = {} THEN <<>>
        ELSE SubSeq(entries, CHOOSE i \in fresh : \A j \in fresh : i <= j, Len(entries))
Prune(entries, now) ==
    LET fresh == {i \in 1 .. Len(entries) : now - entries[i] <= Window}
    IN  IF fresh = {} THEN <<>>
        ELSE SubSeq(entries, CHOOSE i \in fresh : \A j \in fresh : i <= j, Len(entries))

\* 0.9 * old + 0.1 * new in integer nanoseconds; the first sample is taken as
\* it is.  The mutated forms average the first sample with the sentinel, and
\* subtract the two shares.
AverageInSentinel(cur, lat) == (cur * 9) \div 10 + lat \div 10
AverageInSubtracting(cur, lat) ==
    IF cur = 0 THEN lat ELSE lat \div 10 - (cur * 9) \div 10
AverageIn(cur, lat) ==
    IF cur = 0 THEN lat ELSE (cur * 9) \div 10 + lat \div 10

Tick ==
    /\ clock < MaxTime
    /\ clock' = clock + 1
    /\ UNCHANGED <<windows, latency_ema_ns, total_requests, rec, reader, rate, history>>

-----------------------------------------------------------------------------
(* record(status, latency, window)                                         *)

\* let now = Instant::now()
StartRecord(p) ==
    /\ rec[p].pc = "idle"
    /\ started < MaxRecords
    /\ started' = started + 1
    /\ \E err \in BOOLEAN, lat \in Latencies :
         rec' = [rec EXCEPT ![p] = [pc |-> "all", now |-> clock, err |-> err,
                                    lat |-> lat, cur |-> 0]]
    /\ UNCHANGED <<clock, windows, latency_ema_ns, total_requests, reader, rate,
                   pushed, pushed_5xx, observed>>

\* all_requests locked: prune and push.
PushAll(p) ==
    /\ rec[p].pc = "all"
    /\ all_requests' = Append(Prune(all_requests, rec[p].now), rec[p].now)
    /\ pushed' = Append(pushed, rec[p].now)
    /\ rec' = [rec EXCEPT ![p].pc = IF rec[p].err THEN "5xx" ELSE "load"]
    /\ UNCHANGED <<clock, five_xx, latency_ema_ns, total_requests, reader, rate,
                   started, pushed_5xx, observed>>

\* five_xx locked: prune and push.
Push5xx(p) ==
    /\ rec[p].pc = "5xx"
    /\ five_xx' = Append(Prune(five_xx, rec[p].now), rec[p].now)
    /\ pushed_5xx' = Append(pushed_5xx, rec[p].now)
    /\ rec' = [rec EXCEPT ![p].pc = "load"]
    /\ UNCHANGED <<clock, all_requests, latency_ema_ns, total_requests, reader,
                   rate, started, pushed, observed>>

\* update_latency_ema: the first load.
LoadEma(p) ==
    /\ rec[p].pc = "load"
    /\ rec' = [rec EXCEPT ![p].cur = latency_ema_ns, ![p].pc = "cas"]
    /\ UNCHANGED <<clock, windows, latency_ema_ns, total_requests, reader, rate, history>>

\* compare_exchange_weak succeeds only on the value that was loaded.  The
\* mutated form stores without comparing.
ExchangeAllowedBlindly(p) == TRUE
ExchangeAllowed(p) == latency_ema_ns = rec[p].cur

SwapEma(p) ==
    /\ rec[p].pc = "cas"
    /\ ExchangeAllowed(p)
    /\ latency_ema_ns' = AverageIn(rec[p].cur, rec[p].lat)
    /\ observed' = Append(observed, rec[p].lat)
    /\ rec' = [rec EXCEPT ![p].pc = "count"]
    /\ UNCHANGED <<clock, windows, total_requests, reader, rate, started, pushed, pushed_5xx>>

\* It fails and reloads; a spurious failure of the weak form changes nothing.
ReloadEma(p) ==
    /\ rec[p].pc = "cas"
    /\ latency_ema_ns # rec[p].cur
    /\ rec' = [rec EXCEPT ![p].cur = latency_ema_ns]
    /\ UNCHANGED <<clock, windows, latency_ema_ns, total_requests, reader, rate, history>>

\* total_requests.fetch_add(1)
CountTotal(p) ==
    /\ rec[p].pc = "count"
    /\ total_requests' = total_requests + 1
    /\ rec' = [rec EXCEPT ![p].pc = "idle"]
    /\ UNCHANGED <<clock, windows, latency_ema_ns, reader, rate, history>>

-----------------------------------------------------------------------------
(* error_rate(window): two critical sections.                              *)

\* all_requests locked: prune and measure; nothing in the window is rate 0.
ReadTotal(q) ==
    /\ reader[q].pc = "idle"
    /\ all_requests' = Prune(all_requests, clock)
    /\ IF all_requests' = <<>>
       THEN /\ rate' = [rate EXCEPT ![q] = [errors |-> 0, total |-> 1]]
            /\ UNCHANGED reader
       ELSE /\ reader' = [reader EXCEPT ![q] = [pc |-> "5xx", total |-> Len(all_requests')]]
            /\ UNCHANGED rate
    /\ UNCHANGED <<clock, five_xx, latency_ema_ns, total_requests, rec, history>>

\* five_xx_count(window), and the quotient.
ReadErrors(q) ==
    /\ reader[q].pc = "5xx"
    /\ five_xx' = Prune(five_xx, clock)
    /\ rate' = [rate EXCEPT ![q] = [errors |-> Len(five_xx'), total |-> reader[q].total]]
    /\ reader' = [reader EXCEPT ![q].pc = "idle"]
    /\ UNCHANGED <<clock, all_requests, latency_ema_ns, total_requests, rec, history>>

\* snapshot() and the /health page: five_xx_count alone.
Snapshot ==
    /\ five_xx' = Prune(five_xx, clock)
    /\ UNCHANGED <<clock, all_requests, latency_ema_ns, total_requests, rec,
                   reader, rate, history>>

-----------------------------------------------------------------------------

Record(p) ==
    \/ StartRecord(p) \/ PushAll(p) \/ Push5xx(p) \/ LoadEma(p)
    \/ SwapEma(p) \/ ReloadEma(p) \/ CountTotal(p)

ErrorRate(q) == ReadTotal(q) \/ ReadErrors(q)

Next ==
    \/ Tick
    \/ \E p \in Recorders : Record(p)
    \/ \E q \in Readers : ErrorRate(q)
    \/ Snapshot

Spec == Init /\ [][Next]_vars

-----------------------------------------------------------------------------
(* Properties.                                                             *)

\* The entries of s are the last ones of all, and those that are missing at its
\* front have left the window.
OnlyExpiredMissing(s, all) ==
    LET missing == Len(all) - Len(s)
    IN  /\ missing \in Nat
        /\ s = SubSeq(all, missing + 1, Len(all))
        /\ \A i \in 1 .. missing : clock - all[i] > Window

\* Whatever order the locks are taken in, and whatever older `now` a slow
\* recorder prunes with, neither window loses a completion it should still
\* count: it holds, in order, every one pushed within the window, and nothing
\* that was not pushed.
NoSampleLost ==
    /\ OnlyExpiredMissing(all_requests, pushed)
    /\ OnlyExpiredMissing(five_xx, pushed_5xx)

\* No latency is lost to a racing update: the average is the one that a single
\* task would have computed from the same samples in the order of their swaps.
EmaLosesNothing ==
    latency_ema_ns = FoldLeft(AverageIn, 0, observed)

\* The average is a latency and not an artefact of its arithmetic: from the first
\* swap on it lies between the smallest latency averaged so far, rounded down to
\* tens of nanoseconds, and the largest.  Integer division never drags it towards
\* EMPTY_EMA_SENTINEL, so no later sample is mistaken for the first one.
AverageWithinSamples ==
    IF observed = <<>> THEN latency_ema_ns = 0
    ELSE \E i, j \in DOMAIN observed :
           10 * (observed[i] \div 10) <= latency_ema_ns /\ latency_ema_ns <= observed[j]
=============================================================================
