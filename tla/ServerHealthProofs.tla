------------------------- MODULE ServerHealthProofs -------------------------
(***************************************************************************)
(* Proofs about ServerHealth, for any number of recorders and readers, any *)
(* window and any latencies of at least ten nanoseconds: about the latency *)
(* average, the sliding windows, and the types.                            *)
(***************************************************************************)
EXTENDS ServerHealth, FiniteSetTheorems, SequenceTheorems, WellFoundedInduction, TLAPS

-----------------------------------------------------------------------------
(* The average never decays to the sentinel.                               *)

\* A value of the average that has lost nothing to integer division: it is the
\* empty sentinel or it is large enough never to decay to the sentinel.
Settled(v) == v \in Nat /\ (v = 0 \/ v >= 10)

\* The inductive invariant: the average is settled, so is every loaded copy of
\* it, and a recorder that is about to average carries a real latency.
EmaInv ==
    /\ Settled(latency_ema_ns)
    /\ total_requests \in Nat
    /\ rec \in [Recorders -> [pc : RecordPoints, now : Nat, err : BOOLEAN,
                              lat : Latencies \cup {0}, cur : Nat]]
    /\ clock \in Nat
    /\ \A p \in Recorders :
         /\ Settled(rec[p].cur)
         /\ rec[p].pc # "idle" => rec[p].lat \in Latencies

\* AverageIn, the update of update_latency_ema, turns a settled value and a
\* real latency into a value of at least ten.
LEMMA AverageIsSettled ==
    ASSUME NEW cur, Settled(cur), NEW lat \in Latencies
    PROVE  AverageIn(cur, lat) \in Nat /\ AverageIn(cur, lat) >= 10
<1>1. lat \in Nat /\ lat >= 10
  BY LatencyAssumption
<1>2. CASE cur = 0
  BY <1>1, <1>2 DEF AverageIn
<1>3. CASE cur # 0
  <2>1. cur \in Nat /\ cur >= 10
    BY <1>3 DEF Settled
  <2>2. (cur * 9) \div 10 \in Nat /\ (cur * 9) \div 10 >= 9
    BY <2>1
  <2>3. lat \div 10 \in Nat /\ lat \div 10 >= 1
    BY <1>1
  <2> QED
    BY <1>3, <2>1, <2>2, <2>3 DEF AverageIn
<1> QED
  BY <1>2, <1>3

\* Before any request is recorded the average is the sentinel, which is
\* settled, and no recorder is running.
LEMMA EmaInvInit == Init => EmaInv
  BY DEF Init, EmaInv, Settled, RecordPoints, Instants

\* Every step of record() and of its readers keeps the invariant.
LEMMA EmaInvStep == EmaInv /\ [Next]_vars => EmaInv'
<1> SUFFICES ASSUME EmaInv, [Next]_vars PROVE EmaInv'
  OBVIOUS
<1> USE DEF EmaInv, RecordPoints
<1>1. CASE UNCHANGED vars
  BY <1>1 DEF vars, Settled
<1>2. CASE Tick
  BY <1>2 DEF Tick, Settled
<1>3. ASSUME NEW p \in Recorders, Record(p) PROVE EmaInv'
  <2>1. CASE StartRecord(p)
    <3>1. PICK err \in BOOLEAN, lat \in Latencies :
            rec' = [rec EXCEPT ![p] = [pc |-> "all", now |-> clock, err |-> err,
                                       lat |-> lat, cur |-> 0]]
      BY <2>1 DEF StartRecord
    <3>2. UNCHANGED <<clock, latency_ema_ns, total_requests>>
      BY <2>1 DEF StartRecord
    <3> QED
      BY <3>1, <3>2 DEF Settled
  <2>2. CASE PushAll(p)
    BY <2>2 DEF PushAll, Settled
  <2>3. CASE Push5xx(p)
    BY <2>3 DEF Push5xx, Settled
  <2>4. CASE LoadEma(p)
    BY <2>4 DEF LoadEma, Settled
  <2>5. CASE SwapEma(p)
    <3>1. rec[p].lat \in Latencies /\ Settled(rec[p].cur)
      BY <2>5 DEF SwapEma
    <3>2. latency_ema_ns' \in Nat /\ latency_ema_ns' >= 10
      BY <2>5, <3>1, AverageIsSettled DEF SwapEma
    <3>3. /\ rec' = [rec EXCEPT ![p].pc = "count"]
          /\ UNCHANGED <<clock, total_requests>>
      BY <2>5 DEF SwapEma
    <3>4. rec' \in [Recorders -> [pc : RecordPoints, now : Nat, err : BOOLEAN,
                                  lat : Latencies \cup {0}, cur : Nat]]
      BY <3>3
    <3>5. ASSUME NEW x \in Recorders
          PROVE  /\ Settled(rec'[x].cur)
                 /\ rec'[x].pc # "idle" => rec'[x].lat \in Latencies
      <4>1. rec'[x].cur = rec[x].cur /\ rec'[x].lat = rec[x].lat
        BY <3>3
      <4>2. x # p => rec'[x].pc = rec[x].pc
        BY <3>3
      <4> QED
        BY <3>1, <4>1, <4>2
    <3>6. clock' \in Nat /\ total_requests' \in Nat /\ Settled(latency_ema_ns')
      BY <3>2, <3>3 DEF Settled
    <3> QED
      BY <3>2, <3>4, <3>5, <3>6
  <2>6. CASE ReloadEma(p)
    BY <2>6 DEF ReloadEma, Settled
  <2>7. CASE CountTotal(p)
    BY <2>7 DEF CountTotal, Settled
  <2> QED
    BY <1>3, <2>1, <2>2, <2>3, <2>4, <2>5, <2>6, <2>7 DEF Record
<1>4. ASSUME NEW q \in Readers, ErrorRate(q) PROVE EmaInv'
  <2>1. UNCHANGED <<clock, latency_ema_ns, total_requests, rec>>
    BY <1>4 DEF ErrorRate, ReadTotal, ReadErrors
  <2> QED
    BY <2>1 DEF Settled
<1>5. CASE Snapshot
  BY <1>5 DEF Snapshot, Settled
<1> QED
  BY <1>1, <1>2, <1>3, <1>4, <1>5 DEF Next

-----------------------------------------------------------------------------
(* Extremes of sets of positions.                                          *)

\* Every set of positions has a first and a last element: a smallest set without
\* them would lose one that makes it empty or leaves a set that has them.
LEMMA Extremes ==
    ASSUME NEW n \in Nat, NEW T \in SUBSET (1 .. n), T # {}
    PROVE  /\ \E x \in T : \A y \in T : x <= y
           /\ \E x \in T : \A y \in T : x >= y
<1> DEFINE S == 1 .. n
           Has(U) == /\ \E x \in U : \A y \in U : x <= y
                     /\ \E x \in U : \A y \in U : x >= y
           Bad == {U \in SUBSET S : U # {} /\ ~Has(U)}
<1> SUFFICES ASSUME Bad # {} PROVE FALSE
  OBVIOUS
<1>1. IsFiniteSet(S)
  BY FS_Interval
<1>2. IsWellFoundedOn(StrictSubsetOrdering(S), FiniteSubsetsOf(S))
  BY FS_StrictSubsetOrderingWellFounded
<1>3. Bad \subseteq FiniteSubsetsOf(S)
  BY <1>1, FS_FiniteSubsetsOfFinite
<1>4. PICK U \in Bad : \A V \in Bad : <<V, U>> \notin StrictSubsetOrdering(S)
  <2> HIDE DEF Bad
  <2> QED
    BY <1>2, <1>3, WFMin
<1>5. PICK u \in U : TRUE
  BY <1>4
<1> DEFINE V == U \ {u}
<1>6. <<V, U>> \in StrictSubsetOrdering(S)
  BY <1>4, <1>5 DEF StrictSubsetOrdering
<1>7. V = {} \/ Has(V)
  BY <1>4, <1>6
<1>8. U \subseteq Int /\ U = V \cup {u}
  BY <1>4, <1>5
<1>9. CASE V = {}
  <2>1. U = {u} /\ u \in Int
    BY <1>8, <1>9
  <2>2. Has(U)
    BY <2>1
  <2> QED
    BY <1>4, <2>2
<1>10. CASE Has(V)
  <2>1. PICK lo \in V : \A y \in V : lo <= y
    BY <1>10
  <2>2. PICK hi \in V : \A y \in V : hi >= y
    BY <1>10
  <2>3. \E x \in U : \A y \in U : x <= y
    <3>1. CASE u <= lo
      <4>1. \A y \in U : u <= y
        BY <1>8, <2>1, <3>1
      <4> QED
        BY <4>1
    <3>2. CASE ~(u <= lo)
      <4>1. \A y \in U : lo <= y
        BY <1>8, <2>1, <3>2
      <4> QED
        BY <1>8, <2>1, <4>1
    <3> QED
      BY <3>1, <3>2
  <2>4. \E x \in U : \A y \in U : x >= y
    <3>1. CASE u >= hi
      <4>1. \A y \in U : u >= y
        BY <1>8, <2>2, <3>1
      <4> QED
        BY <4>1
    <3>2. CASE ~(u >= hi)
      <4>1. \A y \in U : hi >= y
        BY <1>8, <2>2, <3>2
      <4> QED
        BY <1>8, <2>2, <4>1
    <3> QED
      BY <3>1, <3>2
  <2> QED
    BY <1>4, <2>3, <2>4
<1> QED
  BY <1>7, <1>9, <1>10

LEMMA LastPosition ==
    ASSUME NEW n \in Nat, NEW T \in SUBSET (1 .. n), T # {}
    PROVE  Max(T) \in T /\ \A y \in T : Max(T) >= y
BY Extremes DEF Max

-----------------------------------------------------------------------------
(* The sliding windows.                                                    *)

\* prune() cuts off a front whose entries have all left the window.
LEMMA PruneCutsExpired ==
    ASSUME NEW s \in Seq(Int), NEW now \in Int
    PROVE  \E d \in 0 .. Len(s) : /\ Prune(s, now) = SubSeq(s, d + 1, Len(s))
                                  /\ \A i \in 1 .. d : now - s[i] > Window
<1> DEFINE n == Len(s)
           fresh == {i \in 1 .. n : now - s[i] <= Window}
<1>1. n \in Nat /\ Window \in Nat /\ \A i \in 1 .. n : s[i] \in Int
  BY WindowAssumption
<1>2. \A i \in 1 .. n : i \notin fresh => now - s[i] > Window
  BY <1>1
<1>3. CASE fresh = {}
  <2>1. Prune(s, now) = <<>> /\ SubSeq(s, n + 1, n) = <<>>
    BY <1>1, <1>3, SubSeqEmpty DEF Prune
  <2>2. n \in 0 .. n /\ \A i \in 1 .. n : now - s[i] > Window
    BY <1>1, <1>2, <1>3
  <2> HIDE DEF fresh
  <2> QED
    BY <2>1, <2>2
<1>4. CASE fresh # {}
  <2> DEFINE k == CHOOSE i \in fresh : \A j \in fresh : i <= j
  <2>1. k \in fresh /\ \A j \in fresh : k <= j
    <3>1. \E i \in fresh : \A j \in fresh : i <= j
      <4>1. fresh \in SUBSET (1 .. n)
        OBVIOUS
      <4> HIDE DEF fresh
      <4> QED
        BY <1>1, <1>4, <4>1, Extremes
    <3> QED
      BY <3>1
  <2>2. Prune(s, now) = SubSeq(s, k, n)
    BY <1>4 DEF Prune
  <2>3. k \in 1 .. n
    BY <2>1
  <2> HIDE DEF k
  <2>4. \A i \in 1 .. k - 1 : i \in 1 .. n /\ i \notin fresh
    BY <1>1, <2>1, <2>3
  <2>5. (k - 1) + 1 = k /\ k - 1 \in 0 .. n
    BY <1>1, <2>3
  <2> HIDE DEF fresh, n
  <2>6. SubSeq(s, (k - 1) + 1, n) = SubSeq(s, k, n)
    BY <2>5
  <2> QED
    BY <1>2, <2>2, <2>4, <2>5, <2>6 DEF n
<1> QED
  BY <1>3, <1>4

\* Cutting the front off what was already cut.
LEMMA EndOfEnd ==
    ASSUME NEW all \in Seq(Int), NEW m \in 0 .. Len(all), NEW d \in 0 .. Len(all) - m
    PROVE  LET s == SubSeq(all, m + 1, Len(all))
           IN  /\ s \in Seq(Int) /\ Len(s) = Len(all) - m
               /\ \A i \in 1 .. Len(all) - m : s[i] = all[m + i]
               /\ SubSeq(s, d + 1, Len(s)) = SubSeq(all, m + d + 1, Len(all))
<1> DEFINE n == Len(all)  s == SubSeq(all, m + 1, n)
<1>0. n \in Nat /\ m \in 0 .. n /\ d \in 0 .. n - m /\ \A i \in 1 .. n : all[i] \in Int
  OBVIOUS
<1>1. /\ s \in Seq(Int) /\ Len(s) = n - m
      /\ \A i \in 1 .. n - m : s[i] = all[m + i]
  <2> HIDE DEF n
  <2> QED
    BY <1>0, SubSeqProperties
<1> DEFINE t == SubSeq(s, d + 1, n - m)  u == SubSeq(all, m + d + 1, n)
<1> HIDE DEF s, n
<1>2. /\ t \in Seq(Int) /\ Len(t) = (n - m) - d
      /\ \A i \in 1 .. (n - m) - d : t[i] = s[d + i]
  <2>1. \A i \in 1 .. n - m : s[i] \in Int
    BY <1>0, <1>1
  <2> QED
    BY <1>0, <2>1, SubSeqProperties
<1>3. /\ u \in Seq(Int) /\ Len(u) = (n - m) - d
      /\ \A i \in 1 .. (n - m) - d : u[i] = all[m + d + i]
  <2> DEFINE k == m + d + 1
  <2>1. k \in Int /\ \A i \in k .. n : all[i] \in Int
    BY <1>0
  <2> HIDE DEF k
  <2>2. /\ u \in Seq(Int) /\ Len(u) = IF k <= n THEN n - k + 1 ELSE 0
        /\ \A i \in 1 .. n - k + 1 : u[i] = all[k + i - 1]
    BY <1>0, <2>1, SubSeqProperties DEF k
  <2>3. n - k + 1 = (n - m) - d /\ \A i \in Int : k + i - 1 = m + d + i
    BY <1>0 DEF k
  <2>4. Len(u) = (n - m) - d
    BY <1>0, <2>1, <2>2, <2>3
  <2> HIDE DEF u
  <2>5. ASSUME NEW i \in 1 .. (n - m) - d PROVE u[i] = all[m + d + i]
    <3>1. i \in 1 .. n - k + 1
      BY <2>3
    <3>2. u[i] = all[k + i - 1]
      BY <2>2, <3>1
    <3>3. i \in Int /\ k + i - 1 = m + d + i
      BY <2>3
    <3> QED
      BY <3>2, <3>3
  <2> QED
    BY <2>2, <2>4, <2>5
<1> HIDE DEF t, u
<1>4. \A i \in 1 .. (n - m) - d : t[i] = u[i]
  <2> TAKE i \in 1 .. (n - m) - d
  <2>1. d + i \in 1 .. n - m /\ m + (d + i) = m + d + i
    BY <1>0
  <2> QED
    BY <1>1, <1>2, <1>3, <2>1
<1>5. t = u
  BY <1>2, <1>3, <1>4, SeqEqual
<1> QED
  BY <1>1, <1>5 DEF n, s, t, u

\* Pruning with the present, or with an older instant, drops nothing that is still
\* to be counted.
LEMMA PruneKeeps ==
    ASSUME NEW s \in Seq(Int), NEW all \in Seq(Int), OnlyExpiredMissing(s, all),
           clock \in Int, NEW now \in Int, now <= clock
    PROVE  Prune(s, now) \in Seq(Int) /\ OnlyExpiredMissing(Prune(s, now), all)
<1> DEFINE n == Len(all)  m == n - Len(s)
<1>1. /\ n \in Nat /\ m \in 0 .. n /\ Window \in Nat /\ n - m = Len(s)
      /\ \A i \in 1 .. n : all[i] \in Int
      /\ s = SubSeq(all, m + 1, n)
      /\ \A i \in 1 .. m : clock - all[i] > Window
  BY WindowAssumption DEF OnlyExpiredMissing
<1>2. PICK d \in 0 .. Len(s) : /\ Prune(s, now) = SubSeq(s, d + 1, Len(s))
                               /\ \A i \in 1 .. d : now - s[i] > Window
  BY PruneCutsExpired
<1> HIDE DEF m
<1>3. /\ \A i \in 1 .. n - m : s[i] = all[m + i]
      /\ Prune(s, now) = SubSeq(all, m + d + 1, n)
  <2>1. m \in 0 .. Len(all) /\ d \in 0 .. Len(all) - m
    BY <1>1
  <2> QED
    BY <1>1, <1>2, <2>1, EndOfEnd
<1> DEFINE k == m + d
<1>4. k \in 0 .. n
  BY <1>1
<1>5. Prune(s, now) \in Seq(Int) /\ Len(Prune(s, now)) = n - k
  <2>1. k \in 0 .. Len(all) /\ 0 \in 0 .. Len(all) - k
    BY <1>1, <1>4
  <2>2. Prune(s, now) = SubSeq(all, k + 1, Len(all))
    BY <1>3
  <2> HIDE DEF k, n
  <2>3. /\ SubSeq(all, k + 1, Len(all)) \in Seq(Int)
        /\ Len(SubSeq(all, k + 1, Len(all))) = Len(all) - k
    BY <2>1, EndOfEnd
  <2> QED
    BY <2>2, <2>3 DEF n
<1>6. ASSUME NEW i \in 1 .. k PROVE clock - all[i] > Window
  <2>1. CASE i <= m
    BY <1>1, <2>1
  <2>2. CASE i > m
    <3>1. i - m \in 1 .. d /\ i - m \in 1 .. n - m /\ m + (i - m) = i /\ i \in 1 .. n
      BY <1>1, <1>4, <2>2
    <3>2. s[i - m] = all[i] /\ now - s[i - m] > Window
      BY <1>2, <1>3, <3>1
    <3> QED
      BY <1>1, <3>1, <3>2
  <2> QED
    BY <1>1, <2>1, <2>2
<1>7. n - Len(Prune(s, now)) = k
  BY <1>1, <1>4, <1>5
<1>8. Prune(s, now) = SubSeq(all, k + 1, n)
  BY <1>3
<1> HIDE DEF k, n
<1>9. k \in Nat
  BY <1>1, <1>4
<1> QED
  BY <1>5, <1>6, <1>7, <1>8, <1>9 DEF OnlyExpiredMissing, n

\* What is pushed to both stays at the end of both.
LEMMA PushKeeps ==
    ASSUME NEW s \in Seq(Int), NEW all \in Seq(Int), OnlyExpiredMissing(s, all),
           NEW x \in Int
    PROVE  OnlyExpiredMissing(Append(s, x), Append(all, x))
<1> DEFINE n == Len(all)  m == n - Len(s)  all2 == Append(all, x)  s2 == Append(s, x)
<1>1. /\ n \in Nat /\ m \in 0 .. n /\ n - m = Len(s)
      /\ s = SubSeq(all, m + 1, n)
      /\ \A i \in 1 .. m : clock - all[i] > Window
  BY DEF OnlyExpiredMissing
<1>2. /\ all2 \in Seq(Int) /\ Len(all2) = n + 1 /\ all2[n + 1] = x
      /\ \A i \in 1 .. n : all2[i] = all[i]
  BY AppendProperties
<1>3. /\ s2 \in Seq(Int) /\ Len(s2) = n - m + 1 /\ s2[n - m + 1] = x
      /\ \A i \in 1 .. n - m : s2[i] = s[i]
  <2>1. /\ s2 \in Seq(Int) /\ Len(s2) = Len(s) + 1 /\ s2[Len(s) + 1] = x
        /\ \A i \in 1 .. Len(s) : s2[i] = s[i]
    BY AppendProperties
  <2> HIDE DEF s2, m
  <2> QED
    BY <1>1, <2>1
<1> HIDE DEF m, all2, s2
<1>4. \A i \in 1 .. n - m : s[i] = all[m + i]
  <2>1. m \in 0 .. Len(all) /\ 0 \in 0 .. Len(all) - m
    BY <1>1
  <2> QED
    BY <1>1, <2>1, EndOfEnd
<1> DEFINE t == SubSeq(all2, m + 1, n + 1)
<1>5. t \in Seq(Int) /\ Len(t) = n - m + 1 /\ \A i \in 1 .. n - m + 1 : t[i] = all2[m + i]
  <2>1. m \in 0 .. Len(all2) /\ 0 \in 0 .. Len(all2) - m /\ (n + 1) - m = n - m + 1
    BY <1>1, <1>2
  <2>2. /\ SubSeq(all2, m + 1, Len(all2)) \in Seq(Int)
        /\ Len(SubSeq(all2, m + 1, Len(all2))) = Len(all2) - m
        /\ \A i \in 1 .. Len(all2) - m : SubSeq(all2, m + 1, Len(all2))[i] = all2[m + i]
    BY <1>2, <2>1, EndOfEnd
  <2> QED
    BY <1>2, <2>1, <2>2
<1> HIDE DEF t, n
<1>6. ASSUME NEW i \in 1 .. n - m + 1 PROVE s2[i] = t[i]
  <2>1. CASE i = n - m + 1
    <3>1. m + i = n + 1
      BY <1>1, <2>1
    <3> QED
      BY <1>2, <1>3, <1>5, <2>1, <3>1
  <2>2. CASE i # n - m + 1
    <3>1. i \in 1 .. n - m /\ m + i \in 1 .. n
      BY <1>1, <2>2
    <3> QED
      BY <1>2, <1>3, <1>4, <1>5, <3>1
  <2> QED
    BY <2>1, <2>2
<1>7. s2 = t
  BY <1>3, <1>5, <1>6, SeqEqual
<1>8. Len(all2) - Len(s2) = m /\ m \in Nat
  BY <1>1, <1>2, <1>3
<1>9. \A i \in 1 .. m : clock - all2[i] > Window
  <2> TAKE i \in 1 .. m
  <2>1. i \in 1 .. n
    BY <1>1
  <2> QED
    BY <1>1, <1>2, <2>1
<1>10. OnlyExpiredMissing(s2, all2)
  BY <1>2, <1>7, <1>8, <1>9 DEF OnlyExpiredMissing, t
<1> QED
  BY <1>10 DEF all2, s2

-----------------------------------------------------------------------------
(* The average as a fold.                                                  *)

\* g averages the samples of s at the positions T, the last one last.
Averages(g, s, T) ==
    g[T] = IF T = {} THEN 0 ELSE AverageIn(g[T \ {Max(T)}], s[Max(T)])

\* v is what such a g comes to.
IsAverageOf(v, s) ==
    \E g \in [SUBSET (1 .. Len(s)) -> Nat] :
        /\ \A T \in SUBSET (1 .. Len(s)) : Averages(g, s, T)
        /\ v = g[1 .. Len(s)]

\* One more sample is averaged in.
LEMMA OneMoreSample ==
    ASSUME NEW s \in Seq(Latencies), NEW x \in Latencies, NEW v, IsAverageOf(v, s)
    PROVE  IsAverageOf(AverageIn(v, x), Append(s, x))
<1> DEFINE n == Len(s)  S == 1 .. n  all == Append(s, x)
<1>1. PICK g \in [SUBSET S -> Nat] : (\A T \in SUBSET S : Averages(g, s, T)) /\ v = g[S]
  BY DEF IsAverageOf
<1>2. n \in Nat /\ Len(all) = n + 1 /\ all[n + 1] = x /\ \A i \in S : all[i] = s[i]
  BY AppendProperties
<1> HIDE DEF n, all
<1> DEFINE h == [T \in SUBSET (1 .. n + 1) |->
                   IF n + 1 \in T THEN AverageIn(g[T \ {n + 1}], x) ELSE g[T]]
<1>3. \A c \in Nat : AverageIn(c, x) \in Nat
  <2>1. x \in Nat
    BY LatencyAssumption
  <2>2. \A c \in Nat : (c * 9) \div 10 \in Nat
    OBVIOUS
  <2>3. x \div 10 \in Nat
    BY <2>1
  <2> QED
    BY <2>1, <2>2, <2>3 DEF AverageIn
<1>4. \A T \in SUBSET (1 .. n + 1) : T \ {n + 1} \in SUBSET S /\ (n + 1 \notin T => T \in SUBSET S)
  BY <1>2
<1>5. h \in [SUBSET (1 .. n + 1) -> Nat]
  BY <1>3, <1>4
<1>6. ASSUME NEW T \in SUBSET (1 .. n + 1) PROVE Averages(h, all, T)
  <2>1. CASE n + 1 \in T
    <3>1. Max(T) = n + 1
      <4> DEFINE k == n + 1
      <4>1. k \in Nat /\ T \in SUBSET (1 .. k) /\ T # {} /\ k \in T
        BY <1>2, <2>1
      <4> HIDE DEF k, h
      <4>2. Max(T) \in T /\ Max(T) >= k
        BY <4>1, LastPosition
      <4>3. Max(T) \in 1 .. k
        BY <4>1, <4>2
      <4>4. Max(T) = k
        BY <4>1, <4>2, <4>3
      <4> QED
        BY <4>4 DEF k
    <3>2. h[T \ {n + 1}] = g[T \ {n + 1}]
      OBVIOUS
    <3>3. h[T] = AverageIn(g[T \ {n + 1}], x)
      BY <2>1
    <3> HIDE DEF h
    <3> QED
      BY <1>2, <2>1, <3>1, <3>2, <3>3 DEF Averages
  <2>2. CASE n + 1 \notin T
    <3>1. T \in SUBSET S /\ h[T] = g[T] /\ Averages(g, s, T)
      BY <1>1, <1>4, <2>2
    <3>2. CASE T = {}
      <4> HIDE DEF h
      <4> QED
        BY <3>1, <3>2 DEF Averages
    <3>3. CASE T # {}
      <4>1. Max(T) \in S
        BY <1>2, <3>1, <3>3, LastPosition
      <4>2. h[T \ {Max(T)}] = g[T \ {Max(T)}]
        BY <2>2
      <4> HIDE DEF h
      <4> QED
        BY <1>2, <3>1, <3>3, <4>1, <4>2 DEF Averages
    <3> QED
      BY <3>2, <3>3
  <2> QED
    BY <2>1, <2>2
<1>7. h[1 .. n + 1] = AverageIn(v, x)
  <2>1. (1 .. n + 1) \ {n + 1} = S /\ n + 1 \in 1 .. n + 1
    BY <1>2
  <2> QED
    BY <1>1, <2>1
<1> HIDE DEF h
<1> QED
  BY <1>2, <1>5, <1>6, <1>7 DEF IsAverageOf, all

\* The fold is the only such average.
LEMMA AverageIsFold ==
    ASSUME NEW s \in Seq(Latencies), NEW v, IsAverageOf(v, s)
    PROVE  v = FoldLeft(AverageIn, 0, s)
<1> DEFINE n == Len(s)  S == 1 .. n
           Step(g) == [T \in SUBSET S |-> IF T = {} THEN 0
                                          ELSE AverageIn(g[T \ {Max(T)}], s[Max(T)])]
           iter == CHOOSE g : g = Step(g)
<1>1. DOMAIN s = S /\ n \in Nat
  OBVIOUS
<1>2. FoldLeft(AverageIn, 0, s) = iter[S]
  BY <1>1 DEF FoldLeft, MapThenFoldSet
<1>3. PICK g \in [SUBSET S -> Nat] : (\A T \in SUBSET S : Averages(g, s, T)) /\ v = g[S]
  BY DEF IsAverageOf
<1>4. g = Step(g)
  BY <1>3 DEF Averages
<1>5. iter = Step(iter)
  BY <1>4
<1> HIDE DEF iter, n
<1>6. \A T \in SUBSET S : Averages(iter, s, T)
  BY <1>5 DEF Averages
<1> DEFINE Differ == {T \in SUBSET S : iter[T] # g[T]}
<1>7. Differ = {}
  <2> SUFFICES ASSUME Differ # {} PROVE FALSE
    OBVIOUS
  <2>1. IsFiniteSet(S)
    BY <1>1, FS_Interval
  <2>2. IsWellFoundedOn(StrictSubsetOrdering(S), FiniteSubsetsOf(S))
    BY FS_StrictSubsetOrderingWellFounded
  <2>3. Differ \subseteq FiniteSubsetsOf(S)
    BY <2>1, FS_FiniteSubsetsOfFinite
  <2>4. PICK T \in Differ : \A U \in Differ : <<U, T>> \notin StrictSubsetOrdering(S)
    <3> HIDE DEF Differ
    <3> QED
      BY <2>2, <2>3, WFMin
  <2>5. T \in SUBSET S /\ Averages(iter, s, T) /\ Averages(g, s, T) /\ iter[T] # g[T]
    BY <1>3, <1>6, <2>4
  <2>6. T # {}
    BY <2>5 DEF Averages
  <2>7. Max(T) \in T
    BY <1>1, <2>5, <2>6, LastPosition
  <2>8. <<T \ {Max(T)}, T>> \in StrictSubsetOrdering(S)
    BY <2>5, <2>7 DEF StrictSubsetOrdering
  <2>9. iter[T \ {Max(T)}] = g[T \ {Max(T)}]
    BY <2>4, <2>5, <2>8
  <2> QED
    BY <2>5, <2>6, <2>9 DEF Averages
<1>8. iter[S] = g[S]
  BY <1>7
<1> QED
  BY <1>2, <1>3, <1>8 DEF n

-----------------------------------------------------------------------------
(* The invariant of the whole.                                             *)

HealthInv ==
    /\ TypeOK /\ EmaInv
    /\ \A p \in Recorders : rec[p].pc # "idle" => rec[p].now <= clock
    /\ NoSampleLost
    /\ IsAverageOf(latency_ema_ns, observed)

LEMMA HealthInvInit == Init => HealthInv
<1> SUFFICES ASSUME Init PROVE HealthInv
  OBVIOUS
<1>1. TypeOK
  BY BoundsAssumption DEF Init, TypeOK, Instants, RecordPoints
<1>2. EmaInv
  BY EmaInvInit
<1>3. NoSampleLost
  <2>1. SubSeq(<<>>, 1, 0) = <<>>
    BY SubSeqEmpty
  <2> QED
    BY <2>1 DEF Init, NoSampleLost, OnlyExpiredMissing
<1>4. IsAverageOf(latency_ema_ns, observed)
  <2> DEFINE g == [T \in SUBSET (1 .. 0) |-> 0]
  <2>1. g \in [SUBSET (1 .. 0) -> Nat] /\ \A T \in SUBSET (1 .. 0) : T = {} /\ g[T] = 0
    OBVIOUS
  <2>2. latency_ema_ns = 0 /\ Len(observed) = 0
    BY DEF Init
  <2> HIDE DEF g
  <2>3. \A T \in SUBSET (1 .. 0) : Averages(g, observed, T)
    BY <2>1 DEF Averages
  <2>4. g[1 .. 0] = 0
    BY <2>1
  <2> QED
    BY <2>1, <2>2, <2>3, <2>4 DEF IsAverageOf
<1> QED
  BY <1>1, <1>2, <1>3, <1>4 DEF Init, HealthInv

\* What a step may do to a window and to the history of what was pushed to it.
WindowMove(s, all, s2, all2) ==
    \/ s2 = s /\ all2 = all
    \/ \E now \in Instants : now <= clock /\ s2 = Prune(s, now) /\ all2 = all
    \/ \E now \in Instants : /\ now <= clock
                             /\ s2 = Append(Prune(s, now), now) /\ all2 = Append(all, now)

LEMMA InstantsAreIntegers ==
    ASSUME NEW s \in Seq(Instants)
    PROVE  s \in Seq(Int)
<1>1. Len(s) \in Nat /\ s \in [1 .. Len(s) -> Instants]
  OBVIOUS
<1>2. s \in [1 .. Len(s) -> Int]
  BY <1>1 DEF Instants
<1> QED
  BY <1>1, <1>2, SeqDef

LEMMA PruneTypes ==
    ASSUME NEW s \in Seq(Instants), NEW now \in Int
    PROVE  s \in Seq(Int) /\ Prune(s, now) \in Seq(Instants)
<1>1. s \in Seq(Int)
  BY InstantsAreIntegers
<1>2. PICK d \in 0 .. Len(s) : Prune(s, now) = SubSeq(s, d + 1, Len(s))
  BY <1>1, PruneCutsExpired
<1> DEFINE k == d + 1  n == Len(s)
<1>3. k \in Int /\ n \in Int /\ \A i \in k .. n : s[i] \in Instants
  BY <1>2
<1> HIDE DEF k, n
<1>4. SubSeq(s, k, n) \in Seq(Instants)
  BY <1>3, SubSeqProperties
<1> QED
  BY <1>1, <1>2, <1>4 DEF k, n

LEMMA WindowMoves ==
    ASSUME NEW s \in Seq(Instants), NEW all \in Seq(Instants), OnlyExpiredMissing(s, all),
           clock \in Instants, NEW s2, NEW all2, WindowMove(s, all, s2, all2)
    PROVE  s2 \in Seq(Instants) /\ all2 \in Seq(Instants) /\ OnlyExpiredMissing(s2, all2)
<1>1. s \in Seq(Int) /\ all \in Seq(Int) /\ clock \in Int /\ Instants \subseteq Int
  BY PruneTypes DEF Instants
<1>2. ASSUME NEW now \in Instants, now <= clock
      PROVE  Prune(s, now) \in Seq(Instants) /\ OnlyExpiredMissing(Prune(s, now), all)
  <2>1. now \in Int
    BY <1>1
  <2> QED
    BY <1>1, <1>2, <2>1, PruneKeeps, PruneTypes
<1>3. ASSUME NEW now \in Instants, now <= clock
      PROVE  /\ Append(Prune(s, now), now) \in Seq(Instants)
             /\ Append(all, now) \in Seq(Instants)
             /\ OnlyExpiredMissing(Append(Prune(s, now), now), Append(all, now))
  <2> DEFINE t == Prune(s, now)
  <2>1. t \in Seq(Instants) /\ OnlyExpiredMissing(t, all)
    BY <1>2, <1>3
  <2> HIDE DEF t
  <2>2. t \in Seq(Int) /\ now \in Int
    BY <1>1, <2>1, PruneTypes
  <2>3. OnlyExpiredMissing(Append(t, now), Append(all, now))
    BY <1>1, <2>1, <2>2, PushKeeps
  <2>4. Append(t, now) \in Seq(Instants) /\ Append(all, now) \in Seq(Instants)
    BY <2>1, AppendProperties
  <2> QED
    BY <2>3, <2>4 DEF t
<1> QED
  BY <1>2, <1>3 DEF WindowMove

\* The windows change by pruning and pushing only, and what has left the window does
\* not come back into it.
LEMMA HealthWindowsStep ==
    ASSUME HealthInv, [Next]_vars
    PROVE  /\ NoSampleLost'
           /\ all_requests' \in Seq(Instants) /\ five_xx' \in Seq(Instants)
           /\ pushed' \in Seq(Instants) /\ pushed_5xx' \in Seq(Instants)
           /\ clock' \in Instants /\ clock' >= clock
<1> DEFINE MoveAll == WindowMove(all_requests, pushed, all_requests', pushed')
           Move5xx == WindowMove(five_xx, pushed_5xx, five_xx', pushed_5xx')
           Same == UNCHANGED <<windows, pushed, pushed_5xx>>
<1>1. /\ clock \in Instants /\ clock <= clock
      /\ all_requests \in Seq(Instants) /\ five_xx \in Seq(Instants)
      /\ pushed \in Seq(Instants) /\ pushed_5xx \in Seq(Instants)
      /\ OnlyExpiredMissing(all_requests, pushed) /\ OnlyExpiredMissing(five_xx, pushed_5xx)
      /\ \A p \in Recorders : rec[p].now \in Instants
      /\ \A p \in Recorders : rec[p].pc # "idle" => rec[p].now <= clock
  BY DEF HealthInv, TypeOK, NoSampleLost, Instants
<1>2. Same => MoveAll /\ Move5xx
  BY DEF WindowMove, windows
<1>3. /\ clock' = clock \/ (clock' = clock + 1 /\ clock < MaxTime)
      /\ MoveAll /\ Move5xx
  <2>1. ASSUME NEW p \in Recorders, PushAll(p) PROVE clock' = clock /\ MoveAll /\ Move5xx
    BY <1>1, <2>1 DEF PushAll, WindowMove
  <2>2. ASSUME NEW p \in Recorders, Push5xx(p) PROVE clock' = clock /\ MoveAll /\ Move5xx
    BY <1>1, <2>2 DEF Push5xx, WindowMove
  <2>3. ASSUME NEW q \in Readers, ReadTotal(q) PROVE clock' = clock /\ MoveAll /\ Move5xx
    BY <1>1, <2>3 DEF ReadTotal, WindowMove, history
  <2>4. ASSUME NEW q \in Readers, ReadErrors(q) PROVE clock' = clock /\ MoveAll /\ Move5xx
    BY <1>1, <2>4 DEF ReadErrors, WindowMove, history
  <2>5. ASSUME Snapshot PROVE clock' = clock /\ MoveAll /\ Move5xx
    BY <1>1, <2>5 DEF Snapshot, WindowMove, history
  <2>6. ASSUME Tick PROVE clock' = clock + 1 /\ clock < MaxTime /\ Same
    BY <2>6 DEF Tick, windows, history
  <2>7. ASSUME NEW p \in Recorders,
               \/ StartRecord(p) \/ LoadEma(p) \/ SwapEma(p) \/ ReloadEma(p) \/ CountTotal(p)
        PROVE  clock' = clock /\ Same
    BY <2>7 DEF StartRecord, LoadEma, SwapEma, ReloadEma, CountTotal, windows, history
  <2>8. ASSUME UNCHANGED vars PROVE clock' = clock /\ Same
    BY <2>8 DEF vars, windows
  <2>9. CASE \E p \in Recorders : Record(p)
    BY <1>2, <2>1, <2>2, <2>7, <2>9 DEF Record
  <2>10. CASE \E q \in Readers : ErrorRate(q)
    BY <2>3, <2>4, <2>10 DEF ErrorRate
  <2>11. CASE Tick \/ Snapshot \/ UNCHANGED vars
    BY <1>2, <2>5, <2>6, <2>8, <2>11
  <2> QED
    BY <2>9, <2>10, <2>11 DEF Next
<1>4. /\ all_requests' \in Seq(Instants) /\ pushed' \in Seq(Instants)
      /\ OnlyExpiredMissing(all_requests', pushed')
  BY <1>1, <1>3, WindowMoves
<1>5. /\ five_xx' \in Seq(Instants) /\ pushed_5xx' \in Seq(Instants)
      /\ OnlyExpiredMissing(five_xx', pushed_5xx')
  BY <1>1, <1>3, WindowMoves
<1>6. clock \in Int /\ clock' \in Instants /\ clock' >= clock /\ clock' \in Int /\ Window \in Nat
  BY <1>1, <1>3, BoundsAssumption, WindowAssumption DEF Instants
<1>7. ASSUME NEW s, NEW all \in Seq(Int), Len(s) \in Nat, OnlyExpiredMissing(s, all)
      PROVE  LET missing == Len(all) - Len(s)
             IN  /\ missing \in Nat
                 /\ s = SubSeq(all, missing + 1, Len(all))
                 /\ \A i \in 1 .. missing : clock' - all[i] > Window
  <2> DEFINE m == Len(all) - Len(s)
  <2>1. m \in Nat /\ s = SubSeq(all, m + 1, Len(all)) /\ \A i \in 1 .. m : clock - all[i] > Window
    BY <1>7 DEF OnlyExpiredMissing
  <2>2. \A i \in 1 .. m : all[i] \in Int
    BY <1>7
  <2> HIDE DEF m
  <2>3. \A i \in 1 .. m : clock' - all[i] > Window
    BY <1>6, <2>1, <2>2
  <2> QED
    BY <2>1, <2>3 DEF m
<1>8. pushed' \in Seq(Int) /\ pushed_5xx' \in Seq(Int)
  BY <1>4, <1>5, InstantsAreIntegers
<1>9. OnlyExpiredMissing(all_requests, pushed)'
  <2>1. Len(all_requests') \in Nat
    BY <1>4
  <2> QED
    BY <1>4, <1>7, <1>8, <2>1 DEF OnlyExpiredMissing
<1>10. OnlyExpiredMissing(five_xx, pushed_5xx)'
  <2>1. Len(five_xx') \in Nat
    BY <1>5
  <2> QED
    BY <1>5, <1>7, <1>8, <2>1 DEF OnlyExpiredMissing
<1> QED
  BY <1>4, <1>5, <1>6, <1>9, <1>10 DEF NoSampleLost

\* The variables an action does not mention keep their types; the windows are typed
\* by the lemma above.
LEMMA HealthTypesStep ==
    ASSUME HealthInv, [Next]_vars
    PROVE  TypeOK' /\ \A p \in Recorders : rec'[p].pc # "idle" => rec'[p].now <= clock'
<1> DEFINE RecType == [pc : RecordPoints, now : Instants, err : BOOLEAN,
                       lat : Latencies \cup {0}, cur : Nat]
           Typed ==
             /\ latency_ema_ns' \in Nat /\ total_requests' \in Nat
             /\ reader' \in [Readers -> [pc : {"idle", "5xx"}, total : Nat]]
             /\ rate' \in [Readers -> [errors : Nat, total : Nat]]
             /\ started' \in 0 .. MaxRecords
             /\ observed' \in Seq(Latencies)
           Recs == rec' \in [Recorders -> RecType]
           NotAhead == \A p \in Recorders : rec'[p].pc # "idle" => rec'[p].now <= clock'
<1>1. /\ clock \in Instants /\ latency_ema_ns \in Nat /\ total_requests \in Nat
      /\ rec \in [Recorders -> RecType]
      /\ reader \in [Readers -> [pc : {"idle", "5xx"}, total : Nat]]
      /\ rate \in [Readers -> [errors : Nat, total : Nat]]
      /\ started \in 0 .. MaxRecords
      /\ observed \in Seq(Latencies)
      /\ \A p \in Recorders : rec[p].pc # "idle" => rec[p].now <= clock
  BY DEF HealthInv, TypeOK
<1>2. /\ all_requests' \in Seq(Instants) /\ five_xx' \in Seq(Instants)
      /\ pushed' \in Seq(Instants) /\ pushed_5xx' \in Seq(Instants)
      /\ clock' \in Instants /\ clock' >= clock
  BY HealthWindowsStep
<1>3. rec' = rec => Recs /\ NotAhead
  BY <1>1, <1>2 DEF Instants
<1>4. UNCHANGED <<latency_ema_ns, total_requests, reader, rate, started, observed>> => Typed
  BY <1>1
<1>5. Recs /\ NotAhead /\ Typed
  <2>1. CASE UNCHANGED vars
    BY <1>3, <1>4, <2>1 DEF vars
  <2>2. CASE Tick
    BY <1>3, <1>4, <2>2 DEF Tick, history
  <2>3. CASE Snapshot
    BY <1>3, <1>4, <2>3 DEF Snapshot, history
  <2>4. ASSUME NEW q \in Readers, ReadTotal(q) PROVE Recs /\ NotAhead /\ Typed
    <3>1. Len(all_requests') \in Nat
      BY <1>2
    <3>2. UNCHANGED <<rec, latency_ema_ns, total_requests, started, observed>>
      BY <2>4 DEF ReadTotal, history
    <3>3. /\ reader' \in [Readers -> [pc : {"idle", "5xx"}, total : Nat]]
          /\ rate' \in [Readers -> [errors : Nat, total : Nat]]
      <4> DEFINE n == Len(all_requests')
      <4>1. \/ rate' = [rate EXCEPT ![q] = [errors |-> 0, total |-> 1]] /\ reader' = reader
            \/ reader' = [reader EXCEPT ![q] = [pc |-> "5xx", total |-> n]] /\ rate' = rate
        BY <2>4 DEF ReadTotal
      <4>2. n \in Nat
        BY <3>1
      <4> HIDE DEF n
      <4>3. CASE rate' = [rate EXCEPT ![q] = [errors |-> 0, total |-> 1]] /\ reader' = reader
        BY <1>1, <4>3
      <4>4. CASE reader' = [reader EXCEPT ![q] = [pc |-> "5xx", total |-> n]] /\ rate' = rate
        BY <1>1, <4>2, <4>4
      <4> QED
        BY <4>1, <4>3, <4>4
    <3> QED
      BY <1>1, <1>3, <3>2, <3>3
  <2>5. ASSUME NEW q \in Readers, ReadErrors(q) PROVE Recs /\ NotAhead /\ Typed
    <3>1. Len(five_xx') \in Nat
      BY <1>2
    <3>2. UNCHANGED <<rec, latency_ema_ns, total_requests, started, observed>>
      BY <2>5 DEF ReadErrors, history
    <3>3. /\ reader' \in [Readers -> [pc : {"idle", "5xx"}, total : Nat]]
          /\ rate' \in [Readers -> [errors : Nat, total : Nat]]
      BY <1>1, <2>5, <3>1 DEF ReadErrors
    <3> QED
      BY <1>1, <1>3, <3>2, <3>3
  <2>6. ASSUME NEW p \in Recorders, Record(p) PROVE Recs /\ NotAhead /\ Typed
    <3>1. CASE StartRecord(p)
      <4>1. PICK err \in BOOLEAN, lat \in Latencies :
              rec' = [rec EXCEPT ![p] = [pc |-> "all", now |-> clock, err |-> err,
                                         lat |-> lat, cur |-> 0]]
        BY <3>1 DEF StartRecord
      <4>2. started' \in 0 .. MaxRecords /\ clock' = clock
            /\ UNCHANGED <<latency_ema_ns, total_requests, reader, rate, observed>>
        BY <1>1, <3>1, BoundsAssumption DEF StartRecord
      <4>3. Recs
        BY <1>1, <4>1 DEF RecordPoints
      <4>4. NotAhead
        BY <1>1, <4>1, <4>2 DEF Instants
      <4> QED
        BY <1>1, <4>2, <4>3, <4>4
    <3>2. ASSUME clock' = clock,
                 \A x \in Recorders : /\ rec'[x].now = rec[x].now
                                      /\ rec'[x].pc # "idle" => rec[x].pc # "idle"
          PROVE  NotAhead
      BY <1>1, <3>2
    <3>3. CASE PushAll(p)
      <4>1. Typed
        BY <1>4, <3>3 DEF PushAll
      <4>2. Recs
        <5>1. PICK pc \in RecordPoints : rec' = [rec EXCEPT ![p].pc = pc]
          BY <3>3 DEF PushAll, RecordPoints
        <5> QED
          BY <1>1, <5>1
      <4>3. NotAhead
        <5>1. \A x \in Recorders : /\ rec'[x].now = rec[x].now
                                   /\ rec'[x].pc # "idle" => rec[x].pc # "idle"
          BY <1>1, <3>3 DEF PushAll
        <5> QED
          BY <3>2, <5>1, <3>3 DEF PushAll
      <4> QED
        BY <4>1, <4>2, <4>3
    <3>4. CASE Push5xx(p)
      <4>1. Typed
        BY <1>4, <3>4 DEF Push5xx
      <4>2. Recs
        BY <1>1, <3>4 DEF Push5xx, RecordPoints
      <4>3. NotAhead
        <5>1. \A x \in Recorders : /\ rec'[x].now = rec[x].now
                                   /\ rec'[x].pc # "idle" => rec[x].pc # "idle"
          BY <1>1, <3>4 DEF Push5xx
        <5> QED
          BY <3>2, <5>1, <3>4 DEF Push5xx
      <4> QED
        BY <4>1, <4>2, <4>3
    <3>5. CASE LoadEma(p)
      <4>1. Typed
        BY <1>4, <3>5 DEF LoadEma, history
      <4>2. Recs
        <5> DEFINE r == rec[p]  new == [r EXCEPT !.cur = latency_ema_ns, !.pc = "cas"]
        <5>1. r \in RecType /\ latency_ema_ns \in Nat /\ "cas" \in RecordPoints
          BY <1>1 DEF RecordPoints
        <5> HIDE DEF r
        <5>2. new \in RecType
          BY <5>1
        <5>3. rec' = [rec EXCEPT ![p] = new]
          BY <3>5 DEF LoadEma, r
        <5> HIDE DEF new
        <5> QED
          BY <1>1, <5>2, <5>3
      <4>3. NotAhead
        <5>1. \A x \in Recorders : /\ rec'[x].now = rec[x].now
                                   /\ rec'[x].pc # "idle" => rec[x].pc # "idle"
          BY <1>1, <3>5 DEF LoadEma
        <5> QED
          BY <3>2, <5>1, <3>5 DEF LoadEma
      <4> QED
        BY <4>1, <4>2, <4>3
    <3>6. CASE ReloadEma(p)
      <4>1. Typed
        BY <1>4, <3>6 DEF ReloadEma, history
      <4>2. Recs
        BY <1>1, <3>6 DEF ReloadEma, RecordPoints
      <4>3. NotAhead
        <5>1. \A x \in Recorders : /\ rec'[x].now = rec[x].now
                                   /\ rec'[x].pc # "idle" => rec[x].pc # "idle"
          BY <1>1, <3>6 DEF ReloadEma
        <5> QED
          BY <3>2, <5>1, <3>6 DEF ReloadEma
      <4> QED
        BY <4>1, <4>2, <4>3
    <3>7. CASE SwapEma(p)
      <4>1. rec[p].lat \in Latencies /\ Settled(rec[p].cur)
        BY <3>7 DEF SwapEma, HealthInv, EmaInv
      <4>2. latency_ema_ns' \in Nat
        BY <3>7, <4>1, AverageIsSettled DEF SwapEma
      <4>3. observed' \in Seq(Latencies)
        BY <1>1, <3>7, <4>1 DEF SwapEma
      <4>4. Typed
        BY <1>1, <3>7, <4>2, <4>3 DEF SwapEma
      <4>5. Recs
        BY <1>1, <3>7 DEF SwapEma, RecordPoints
      <4>6. NotAhead
        <5>1. \A x \in Recorders : /\ rec'[x].now = rec[x].now
                                   /\ rec'[x].pc # "idle" => rec[x].pc # "idle"
          BY <1>1, <3>7 DEF SwapEma
        <5> QED
          BY <3>2, <5>1, <3>7 DEF SwapEma
      <4> QED
        BY <4>4, <4>5, <4>6
    <3>8. CASE CountTotal(p)
      <4>1. Typed
        BY <1>1, <3>8 DEF CountTotal, history
      <4>2. Recs
        BY <1>1, <3>8 DEF CountTotal, RecordPoints
      <4>3. NotAhead
        <5>1. \A x \in Recorders : /\ rec'[x].now = rec[x].now
                                   /\ rec'[x].pc # "idle" => rec[x].pc # "idle"
          BY <1>1, <3>8 DEF CountTotal
        <5> QED
          BY <3>2, <5>1, <3>8 DEF CountTotal
      <4> QED
        BY <4>1, <4>2, <4>3
    <3> QED
      BY <2>6, <3>1, <3>3, <3>4, <3>5, <3>6, <3>7, <3>8 DEF Record
  <2> HIDE DEF Recs, NotAhead, Typed
  <2> QED
    BY <2>1, <2>2, <2>3, <2>4, <2>5, <2>6 DEF Next, ErrorRate
<1> QED
  BY <1>2, <1>5 DEF TypeOK

LEMMA HealthAverageStep ==
    ASSUME HealthInv, [Next]_vars
    PROVE  IsAverageOf(latency_ema_ns, observed)'
<1>1. latency_ema_ns \in Nat /\ observed \in Seq(Latencies)
  BY DEF HealthInv, TypeOK
<1>2. ASSUME UNCHANGED <<latency_ema_ns, observed>> PROVE IsAverageOf(latency_ema_ns, observed)'
  BY <1>2 DEF HealthInv, IsAverageOf, Averages
<1>3. ASSUME NEW p \in Recorders, SwapEma(p) PROVE IsAverageOf(latency_ema_ns, observed)'
  <2>1. /\ latency_ema_ns' = AverageIn(latency_ema_ns, rec[p].lat)
        /\ observed' = Append(observed, rec[p].lat)
    BY <1>3 DEF SwapEma, ExchangeAllowed
  <2>2. rec[p].lat \in Latencies
    BY <1>3 DEF SwapEma, HealthInv, EmaInv
  <2>3. IsAverageOf(AverageIn(latency_ema_ns, rec[p].lat), Append(observed, rec[p].lat))
    BY <1>1, <2>2, OneMoreSample DEF HealthInv
  <2> QED
    BY <2>1, <2>3 DEF IsAverageOf, Averages
<1> QED
  BY <1>2, <1>3 DEF Next, Record, ErrorRate, Tick, StartRecord, PushAll, Push5xx, LoadEma,
                    ReloadEma, CountTotal, ReadTotal, ReadErrors, Snapshot, vars, history

LEMMA HealthInvStep == HealthInv /\ [Next]_vars => HealthInv'
<1> SUFFICES ASSUME HealthInv, [Next]_vars PROVE HealthInv'
  OBVIOUS
<1>1. EmaInv'
  BY EmaInvStep DEF HealthInv
<1> QED
  BY <1>1, HealthWindowsStep, HealthTypesStep, HealthAverageStep DEF HealthInv

\* The windows hold instants, the average and the counters are natural numbers and
\* every task is at a point of its call, whatever the tasks interleave (health.rs).
THEOREM HealthTypeCorrect == Spec => []TypeOK
<1>1. HealthInv => TypeOK
  BY DEF HealthInv
<1> QED
  BY <1>1, HealthInvInit, HealthInvStep, PTL DEF Spec

\* However many tasks record and read at once, with clocks read before the locks
\* were taken, each window is what was pushed to it without entries that are too old
\* to count (record(), error_rate(), five_xx_count(), prune()).
THEOREM WindowsLoseNothing == Spec => []NoSampleLost
<1>1. HealthInv => NoSampleLost
  BY DEF HealthInv
<1> QED
  BY <1>1, HealthInvInit, HealthInvStep, PTL DEF Spec

\* The compare-and-swap loop of update_latency_ema() serialises any number of racing
\* recorders: the average is the fold of all samples in the order of their swaps.
THEOREM AverageLosesNothing == Spec => []EmaLosesNothing
<1>1. HealthInv => EmaLosesNothing
  BY AverageIsFold DEF HealthInv, EmaLosesNothing, TypeOK
<1> QED
  BY <1>1, HealthInvInit, HealthInvStep, PTL DEF Spec

-----------------------------------------------------------------------------
(* The average stays among the latencies.                                  *)

\* One integer update keeps the average above every multiple of ten that both of
\* its arguments reach, and below every bound that both respect.
LEMMA AverageInBounds ==
    ASSUME NEW cur \in Nat, cur > 0, NEW lat \in Nat, NEW q \in Nat, NEW m \in Nat
    PROVE  /\ 10 * q <= cur /\ 10 * q <= lat => 10 * q <= AverageIn(cur, lat)
           /\ cur <= m /\ lat <= m => AverageIn(cur, lat) <= m
<1>1. AverageIn(cur, lat) = (cur * 9) \div 10 + lat \div 10
  BY DEF AverageIn
<1>2. /\ 10 * ((cur * 9) \div 10) <= cur * 9 /\ cur * 9 < 10 * ((cur * 9) \div 10) + 10
      /\ 10 * (lat \div 10) <= lat /\ lat < 10 * (lat \div 10) + 10
      /\ (cur * 9) \div 10 \in Nat /\ lat \div 10 \in Nat
  OBVIOUS
<1>3. QED
  BY <1>1, <1>2

\* SwapEma, the only step that adds a sample, keeps the average among them: the
\* first sample is taken as it is, a later one is averaged with an average that
\* lies between two earlier ones.
LEMMA SwapStaysWithinSamples ==
    ASSUME HealthInv, AverageWithinSamples, NEW p \in Recorders, SwapEma(p)
    PROVE  AverageWithinSamples'
<1> DEFINE lat == rec[p].lat
           n == Len(observed)
<1>1. /\ latency_ema_ns' = AverageIn(latency_ema_ns, lat)
      /\ observed' = Append(observed, lat)
  BY DEF SwapEma, ExchangeAllowed
<1>2. lat \in Latencies /\ lat \in Nat /\ lat >= 10
  BY LatencyAssumption DEF SwapEma, HealthInv, EmaInv
<1>3. latency_ema_ns \in Nat /\ observed \in Seq(Latencies) /\ n \in Nat
  BY DEF HealthInv, TypeOK
<1>4. /\ observed' # <<>> /\ n + 1 \in DOMAIN observed' /\ observed'[n + 1] = lat
      /\ \A i \in DOMAIN observed : /\ i \in DOMAIN observed' /\ observed'[i] = observed[i]
                                    /\ observed[i] \in Nat /\ observed[i] >= 10
  <2>1. /\ Len(observed') = n + 1 /\ observed'[n + 1] = lat /\ observed' \in Seq(Latencies)
        /\ \A i \in 1 .. n : observed'[i] = observed[i]
    BY <1>1, <1>2, <1>3, AppendProperties
  <2>2. DOMAIN observed = 1 .. n /\ DOMAIN observed' = 1 .. (n + 1) /\ observed' # <<>>
    BY <1>3, <2>1, LenProperties, EmptySeq
  <2>3. \A i \in 1 .. n : observed[i] \in Latencies
    BY <1>3, ElementOfSeq
  <2>4. \A x \in Latencies : x \in Nat /\ x >= 10
    BY LatencyAssumption
  <2> HIDE DEF n, lat
  <2>5. n + 1 \in 1 .. (n + 1) /\ \A i \in 1 .. n : i \in 1 .. (n + 1)
    BY <1>3
  <2>6. QED
    BY <2>1, <2>2, <2>3, <2>4, <2>5
<1> HIDE DEF lat, n
<1>5. lat \div 10 \in Nat /\ 10 * (lat \div 10) <= lat
  BY <1>2
<1>6. CASE observed = <<>>
  <2>1. latency_ema_ns' = lat
    BY <1>1, <1>6 DEF AverageWithinSamples, AverageIn
  <2>2. 10 * (observed'[n + 1] \div 10) <= latency_ema_ns' /\ latency_ema_ns' <= observed'[n + 1]
    BY <1>2, <1>4, <1>5, <2>1
  <2>3. QED
    BY <1>4, <2>2 DEF AverageWithinSamples
<1>7. CASE observed # <<>>
  <2>1. PICK i \in DOMAIN observed, j \in DOMAIN observed :
          10 * (observed[i] \div 10) <= latency_ema_ns /\ latency_ema_ns <= observed[j]
    BY <1>7 DEF AverageWithinSamples
  <2>2. observed[i] \div 10 \in Nat /\ observed[i] \div 10 >= 1
    BY <1>4
  <2>3. latency_ema_ns > 0
    BY <1>3, <2>1, <2>2
  <2>4. \E k \in DOMAIN observed' : 10 * (observed'[k] \div 10) <= latency_ema_ns'
    <3>1. CASE 10 * (observed[i] \div 10) <= lat
      <4>1. 10 * (observed[i] \div 10) <= AverageIn(latency_ema_ns, lat)
        BY <1>2, <1>3, <2>1, <2>2, <2>3, <3>1, AverageInBounds
      <4>2. QED
        BY <1>1, <1>4, <4>1
    <3>2. CASE ~(10 * (observed[i] \div 10) <= lat)
      <4>1. 10 * (lat \div 10) <= latency_ema_ns
        BY <1>2, <1>3, <1>5, <2>1, <2>2, <3>2
      <4>2. 10 * (lat \div 10) <= AverageIn(latency_ema_ns, lat)
        BY <1>2, <1>3, <1>5, <2>3, <4>1, AverageInBounds
      <4>3. QED
        BY <1>1, <1>4, <4>2
    <3>3. QED
      BY <3>1, <3>2
  <2>5. \E k \in DOMAIN observed' : latency_ema_ns' <= observed'[k]
    <3>1. CASE lat <= observed[j]
      <4>1. AverageIn(latency_ema_ns, lat) <= observed[j]
        BY <1>2, <1>3, <1>4, <2>1, <2>3, <3>1, AverageInBounds
      <4>2. QED
        BY <1>1, <1>4, <4>1
    <3>2. CASE ~(lat <= observed[j])
      <4>1. latency_ema_ns <= lat
        BY <1>2, <1>3, <1>4, <2>1, <3>2
      <4>2. AverageIn(latency_ema_ns, lat) <= lat
        BY <1>2, <1>3, <2>3, <4>1, AverageInBounds
      <4>3. QED
        BY <1>1, <1>4, <4>2
    <3>3. QED
      BY <3>1, <3>2
  <2>6. QED
    BY <1>4, <2>4, <2>5 DEF AverageWithinSamples
<1>8. QED
  BY <1>6, <1>7

\* The latency average of a backend, the sole source of its risk, lies among the
\* latencies it was made of, for any of them and however the recorders race in
\* update_latency_ema(): the integer arithmetic never drags it to the sentinel.
THEOREM AveragesAreOfSamples == Spec => []AverageWithinSamples
<1>1. Init => AverageWithinSamples
  BY DEF Init, AverageWithinSamples
<1>2. HealthInv /\ AverageWithinSamples /\ [Next]_vars => AverageWithinSamples'
  <2> SUFFICES ASSUME HealthInv, AverageWithinSamples, [Next]_vars PROVE AverageWithinSamples'
    OBVIOUS
  <2>1. ASSUME UNCHANGED <<latency_ema_ns, observed>> PROVE AverageWithinSamples'
    BY <2>1 DEF AverageWithinSamples
  <2>2. QED
    BY <2>1, SwapStaysWithinSamples
       DEF Next, Record, ErrorRate, Tick, StartRecord, PushAll, Push5xx, LoadEma, ReloadEma,
           CountTotal, ReadTotal, ReadErrors, Snapshot, vars, history
<1>3. QED
  BY <1>1, <1>2, HealthInvInit, HealthInvStep, PTL DEF Spec
=============================================================================
