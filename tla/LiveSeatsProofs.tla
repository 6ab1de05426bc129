-------------------------- MODULE LiveSeatsProofs ---------------------------
(***************************************************************************)
(* Proofs about LiveSeats, for any number of seats, pods and fetches and   *)
(* any bounds: its type invariant, and that a covered page shows the       *)
(* database once it is quiet.                                              *)
(*                                                                         *)
(* CoveredPageIsCurrent speaks of quiet states only.  LiveInv says what    *)
(* holds on the way there: the messages under way are the last ones the    *)
(* pod has consumed, without a gap and in order, so there is one number,   *)
(* Handled, that splits the topic into what the page has been told and     *)
(* what it will still be told; and a covered map differs from the database *)
(* only in seats that change again in the second part.                     *)
(***************************************************************************)
EXTENDS LiveSeats, FiniteSetTheorems, SequenceTheorems, TLAPS

ChangeType == [seat : Seats, status : Status]
Map == [Seats -> Status]
FetchType == [pc : {"idle", "sent", "returning"}, at : 0 .. Len(topic),
              snap : {NoView} \cup Map, covered : BOOLEAN]

\* Position i of topic T holds the last change of seat s.
IsLast(T, s, i) == T[i].seat = s /\ \A j \in i + 1 .. Len(T) : T[j].seat # s
LastStatus(T, s) == T[CHOOSE i \in 1 .. Len(T) : IsLast(T, s, i)].status
HasLast(T) == \A s \in Seats : \E i \in 1 .. Len(T) : IsLast(T, s, i)

LEMMA StatusIsLast ==
    /\ \A s : StatusOf(s) = LastStatus(topic, s)
    /\ \A s : StatusOf(s)' = LastStatus(topic', s)
BY DEF StatusOf, LastStatus, IsLast

\* There is only one last change.
LEMMA LastDecides ==
    ASSUME NEW T, Len(T) \in Nat, NEW s, NEW i \in 1 .. Len(T), IsLast(T, s, i)
    PROVE  LastStatus(T, s) = T[i].status
<1> DEFINE j == CHOOSE k \in 1 .. Len(T) : IsLast(T, s, k)
<1>1. j \in 1 .. Len(T) /\ IsLast(T, s, j)
  OBVIOUS
<1> HIDE DEF j
<1>2. i = j
  BY <1>1 DEF IsLast
<1> QED
  BY <1>2 DEF LastStatus, j

LEMMA LastIsStatus ==
    ASSUME NEW T \in Seq(ChangeType), HasLast(T), NEW s \in Seats
    PROVE  LastStatus(T, s) \in Status
<1>1. PICK i \in 1 .. Len(T) : IsLast(T, s, i)
  BY DEF HasLast
<1>2. T[i] \in ChangeType
  BY <1>1, ElementOfSeq
<1> QED
  BY <1>1, <1>2, LastDecides, LenProperties DEF ChangeType

\* A new change decides its own seat and no other.
LEMMA AppendedChange ==
    ASSUME NEW T \in Seq(ChangeType), HasLast(T), NEW c \in ChangeType
    PROVE  LET U == Append(T, c)
           IN  /\ U \in Seq(ChangeType) /\ Len(U) = Len(T) + 1 /\ HasLast(U)
               /\ \A i \in 1 .. Len(T) : U[i] = T[i]
               /\ U[Len(U)] = c
               /\ \A s \in Seats : s # c.seat => LastStatus(U, s) = LastStatus(T, s)
<1> DEFINE U == Append(T, c)
<1>1. /\ U \in Seq(ChangeType) /\ Len(U) = Len(T) + 1 /\ Len(T) \in Nat
      /\ \A i \in 1 .. Len(T) : U[i] = T[i]
      /\ U[Len(U)] = c
  BY AppendProperties, LenProperties
<1> HIDE DEF U
<1>2. ASSUME NEW s \in Seats, s # c.seat, NEW i \in 1 .. Len(T), IsLast(T, s, i)
      PROVE  i \in 1 .. Len(U) /\ IsLast(U, s, i)
  <2>1. i \in 1 .. Len(U) /\ U[i].seat = s
    BY <1>1, <1>2 DEF IsLast
  <2>2. ASSUME NEW j \in i + 1 .. Len(U) PROVE U[j].seat # s
    BY <1>1, <1>2 DEF IsLast
  <2> QED
    BY <2>1, <2>2 DEF IsLast
<1>3. Len(U) \in 1 .. Len(U) /\ IsLast(U, c.seat, Len(U))
  BY <1>1 DEF IsLast
<1>4. HasLast(U)
  BY <1>2, <1>3 DEF HasLast
<1>5. ASSUME NEW s \in Seats, s # c.seat PROVE LastStatus(U, s) = LastStatus(T, s)
  <2>1. PICK i \in 1 .. Len(T) : IsLast(T, s, i)
    BY DEF HasLast
  <2>2. i \in 1 .. Len(U) /\ IsLast(U, s, i) /\ U[i] = T[i]
    BY <1>1, <1>2, <1>5, <2>1
  <2>3. LastStatus(T, s) = T[i].status
    BY <1>1, <2>1, LastDecides
  <2>4. LastStatus(U, s) = U[i].status
    BY <1>1, <2>2, LastDecides
  <2> QED
    BY <2>2, <2>3, <2>4
<1> QED
  BY <1>1, <1>4, <1>5 DEF U

-----------------------------------------------------------------------------
(* The initial topic: one change for every seat.                           *)

LEMMA InitialTopic ==
    LET S == {[seat |-> s, status |-> "available"] : s \in Seats}
    IN  SetToSeq(S) \in Seq(ChangeType) /\ HasLast(SetToSeq(S))
<1> DEFINE row(s) == [seat |-> s, status |-> "available"]
           S == {row(s) : s \in Seats}
           g == [s \in Seats |-> row(s)]
           n == Cardinality(S)
<1>1. g \in Bijection(Seats, S)
  <2>1. g \in [Seats -> S]
    OBVIOUS
  <2>2. \A a, b \in Seats : g[a] = g[b] => a = b
    BY Zenon
  <2>3. \A t \in S : \E s \in Seats : g[s] = t
    OBVIOUS
  <2> QED
    BY <2>1, <2>2, <2>3 DEF Bijection, Injection, Surjection, IsInjective
<1>2. IsFiniteSet(S)
  <2>1. ExistsBijection(Seats, S)
    BY <1>1 DEF ExistsBijection
  <2> QED
    BY <2>1, FS_Bijection, LiveAssumption
<1>3. n \in Nat /\ n = Cardinality(S) /\ ExistsBijection(1 .. n, S)
  BY <1>2, FS_CardinalityType
<1>4. \E f \in [1 .. n -> S] : IsInjective(f)
  BY <1>3 DEF ExistsBijection, Bijection, Injection
<1> DEFINE T == SetToSeq(S)
<1>5. T \in [1 .. n -> S] /\ IsInjective(T)
  BY <1>4 DEF SetToSeq
<1> HIDE DEF T, n
<1>6. T \in Injection(1 .. n, S)
  BY <1>5 DEF Injection
<1>7. IsFiniteSet(1 .. n) /\ Cardinality(1 .. n) = n
  BY <1>3, FS_Interval
<1>8. T \in Surjection(1 .. n, S)
  BY <1>2, <1>3, <1>6, <1>7, FS_Injection, Zenon
<1>9. S \subseteq ChangeType
  BY DEF ChangeType, Status
<1>10. T \in Seq(ChangeType) /\ Len(T) = n
  <2>1. T \in [1 .. n -> ChangeType]
    BY <1>5, <1>9
  <2>2. T \in Seq(ChangeType)
    BY <1>3, <2>1, SeqDef
  <2> QED
    BY <1>3, <2>1, <2>2, LenProperties
<1>11. ASSUME NEW s \in Seats PROVE \E i \in 1 .. Len(T) : IsLast(T, s, i)
  <2>1. row(s) \in S
    OBVIOUS
  <2>2. PICK i \in 1 .. n : T[i] = row(s)
    BY <1>8, <2>1 DEF Surjection
  <2>3. ASSUME NEW j \in i + 1 .. Len(T), T[j].seat = s PROVE FALSE
    <3>1. j \in 1 .. n /\ j # i
      BY <1>3, <1>10, <2>2
    <3>2. T[j] \in S
      BY <1>5, <3>1
    <3>3. T[j] = row(s)
      <4>1. PICK u \in Seats : T[j] = row(u)
        BY <3>2
      <4> QED
        BY <2>3, <4>1
    <3> QED
      BY <1>5, <2>2, <3>1, <3>3 DEF IsInjective
  <2> QED
    BY <1>10, <2>2, <2>3 DEF IsLast
<1> QED
  <2>1. HasLast(T)
    BY <1>11 DEF HasLast
  <2> QED
    BY <1>10, <2>1 DEF T
-----------------------------------------------------------------------------
(* Types.                                                                  *)

LiveTypes == TypeOK /\ HasLast(topic)

core == <<topic, offset, sock, channel, view, fetch, covered, skipped>>
PickerTypes ==
    /\ selected \subseteq Seats /\ batch \subseteq Seats
    /\ page \in {"open", "reserving", "checkout"}
    /\ won \in BOOLEAN
    /\ faults \in 0 .. MaxFaults
CoreTypes ==
    /\ topic \in Seq(ChangeType) /\ HasLast(topic)
    /\ offset \in [Pods -> 0 .. Len(topic)]
    /\ sock \in Pods \cup {None}
    /\ channel \in Seq(1 .. Len(topic)) /\ (sock = None => channel = <<>>)
    /\ view \in {NoView} \cup Map
    /\ fetch \in [Fetches -> FetchType]
    /\ covered \in BOOLEAN /\ skipped \in BOOLEAN

LEMMA TypesSplit == LiveTypes <=> CoreTypes /\ PickerTypes
BY DEF LiveTypes, TypeOK, CoreTypes, PickerTypes, ChangeType, FetchType, Map

\* The ten things a step can do to what the page knows, its own picks aside.
TopicGrows(c) ==
    /\ topic' = Append(topic, c)
    /\ UNCHANGED <<offset, sock, channel, view, fetch, covered, skipped>>
Elsewhere(p, k) ==
    /\ sock # p /\ offset' = [offset EXCEPT ![p] = k]
    /\ UNCHANGED <<topic, sock, channel, view, fetch, covered, skipped>>
Told(p) ==
    /\ sock = p /\ offset[p] < Len(topic)
    /\ offset' = [offset EXCEPT ![p] = @ + 1]
    /\ channel' = Append(channel, offset[p] + 1)
    /\ UNCHANGED <<topic, sock, view, fetch, covered, skipped>>
Missed(p) ==
    /\ sock = p /\ offset[p] < Len(topic)
    /\ offset' = [offset EXCEPT ![p] = @ + 1]
    /\ Uncover /\ skipped' = TRUE
    /\ UNCHANGED <<topic, sock, channel, view>>
CutOff ==
    /\ offset' \in [Pods -> 0 .. Len(topic)]
    /\ Disconnect
    /\ UNCHANGED <<topic, view, skipped>>
Connects(p) ==
    /\ sock = None /\ sock' = p /\ skipped' = FALSE
    /\ UNCHANGED <<topic, offset, channel, view, fetch, covered>>
Updates ==
    /\ channel # <<>> /\ channel' = Tail(channel)
    /\ view' = IF view = NoView THEN view
               ELSE [view EXCEPT ![topic[Head(channel)].seat] = topic[Head(channel)].status]
    /\ fetch' = [f \in Fetches |-> [fetch[f] EXCEPT !.covered = @ /\ Head(channel) <= fetch[f].at]]
    /\ UNCHANGED <<topic, offset, sock, covered, skipped>>
Snapshot == [s \in Seats |-> StatusOf(s)]
Reads(f) ==
    /\ fetch' = [fetch EXCEPT ![f] = [pc |-> "returning", snap |-> Snapshot, at |-> Len(topic),
                                      covered |-> sock # None /\ ~skipped]]
    /\ UNCHANGED <<topic, offset, sock, channel, view, covered, skipped>>
Returns(f) ==
    /\ fetch[f].pc = "returning"
    /\ view' = fetch[f].snap /\ covered' = fetch[f].covered
    /\ fetch' = [fetch EXCEPT ![f] = NoFetch]
    /\ UNCHANGED <<topic, offset, sock, channel, skipped>>
Forgets(f, rec) ==
    /\ fetch' = [fetch EXCEPT ![f] = rec]
    /\ UNCHANGED <<topic, offset, sock, channel, view, covered, skipped>>
NewFetch == [NoFetch EXCEPT !.pc = "sent"]

CoreStep ==
    \/ \E c \in ChangeType : TopicGrows(c)
    \/ \E p \in Pods : \/ \E k \in 0 .. Len(topic) : Elsewhere(p, k)
                       \/ Told(p) \/ Missed(p) \/ Connects(p)
    \/ CutOff \/ Updates
    \/ \E f \in Fetches : \/ Reads(f) \/ Returns(f)
                          \/ \E rec \in {NoFetch, NewFetch} : Forgets(f, rec)
    \/ UNCHANGED core

LEMMA LenTopic == CoreTypes => Len(topic) \in Nat
BY LenProperties DEF CoreTypes

LEMMA GrowingKeepsTypes ==
    ASSUME CoreTypes, NEW c \in ChangeType, TopicGrows(c)
    PROVE  CoreTypes'
<1>1. topic' \in Seq(ChangeType) /\ Len(topic') = Len(topic) + 1 /\ HasLast(topic')
  BY AppendedChange DEF CoreTypes, TopicGrows
<1>2. Len(topic) \in Nat
  BY LenTopic
<1>3. offset' \in [Pods -> 0 .. Len(topic')]
  BY <1>1, <1>2 DEF CoreTypes, TopicGrows
<1>4. channel' \in Seq(1 .. Len(topic'))
  <2>1. 1 .. Len(topic) \subseteq 1 .. Len(topic')
    BY <1>1, <1>2
  <2> QED
    BY <2>1, SeqMonotonic, Zenon DEF CoreTypes, TopicGrows
<1>5. fetch' \in [Fetches -> FetchType']
  <2>1. FetchType \subseteq FetchType'
    BY <1>1, <1>2 DEF FetchType
  <2> QED
    BY <2>1 DEF CoreTypes, TopicGrows
<1>6. HasLast(topic)'
  BY <1>1 DEF HasLast
<1> QED
  BY <1>1, <1>3, <1>4, <1>5, <1>6 DEF CoreTypes, TopicGrows

\* Losing the cover of every fetch, the types stay.
LEMMA UncoveredTypes ==
    ASSUME CoreTypes, topic' = topic, Uncover
    PROVE  covered' \in BOOLEAN /\ fetch' \in [Fetches -> FetchType']
BY DEF CoreTypes, Uncover, FetchType

\* An empty map is no map of the seats.
LEMMA NoViewIsNoMap == NoView \notin Map
<1>1. DOMAIN NoView = {}
  BY DEF NoView
<1> QED
  BY <1>1, LiveAssumption DEF Map

LEMMA NoFetchTypes ==
    ASSUME Len(topic) \in Nat
    PROVE  /\ NoFetch \in FetchType /\ NewFetch \in FetchType
           /\ ~NoFetch.covered /\ ~NewFetch.covered
<1>1. /\ NoFetch \in FetchType
      /\ NoFetch = [pc |-> "idle", snap |-> NoView, at |-> 0, covered |-> FALSE]
  BY DEF NoFetch, FetchType
<1>2. NewFetch \in FetchType /\ ~NewFetch.covered
  <2> DEFINE nf == NoFetch
  <2> HIDE DEF nf
  <2>1. nf \in FetchType /\ ~nf.covered
    BY <1>1 DEF nf
  <2>2. [nf EXCEPT !.pc = "sent"] \in FetchType
    BY <2>1 DEF FetchType
  <2>3. ~[nf EXCEPT !.pc = "sent"].covered
    BY <2>1 DEF FetchType
  <2> QED
    BY <2>2, <2>3 DEF NewFetch, nf
<1> QED
  BY <1>1, <1>2

LEMMA SnapshotTypes == CoreTypes => Snapshot \in Map
BY LastIsStatus, StatusIsLast DEF CoreTypes, Snapshot, Map

LEMMA HeadOfChannel ==
    ASSUME CoreTypes, channel # <<>>
    PROVE  /\ Head(channel) \in 1 .. Len(topic)
           /\ topic[Head(channel)] \in ChangeType
           /\ Tail(channel) \in Seq(1 .. Len(topic))
<1>1. Head(channel) \in 1 .. Len(topic) /\ Tail(channel) \in Seq(1 .. Len(topic))
  BY HeadTailProperties DEF CoreTypes
<1> QED
  BY <1>1, ElementOfSeq DEF CoreTypes

LEMMA CoreStepKeepsTypes ==
    ASSUME CoreTypes, CoreStep
    PROVE  CoreTypes'
<1> USE LenTopic
<1>0. topic' = topic => HasLast(topic)' /\ FetchType' = FetchType
  BY DEF CoreTypes, HasLast, FetchType
<1>1. ASSUME NEW c \in ChangeType, TopicGrows(c) PROVE CoreTypes'
  BY <1>1, GrowingKeepsTypes
<1>2. ASSUME NEW p \in Pods, NEW k \in 0 .. Len(topic), Elsewhere(p, k) PROVE CoreTypes'
  BY <1>0, <1>2 DEF CoreTypes, Elsewhere
<1>3. ASSUME NEW p \in Pods, Told(p) PROVE CoreTypes'
  <2>1. offset[p] + 1 \in 1 .. Len(topic)
    BY <1>3 DEF CoreTypes, Told
  <2>2. channel' \in Seq(1 .. Len(topic))
    BY <1>3, <2>1, AppendProperties DEF CoreTypes, Told
  <2>3. offset' \in [Pods -> 0 .. Len(topic)]
    BY <1>3, <2>1 DEF CoreTypes, Told
  <2>4. sock' # None
    BY <1>3, LiveAssumption DEF Told
  <2> QED
    BY <1>0, <1>3, <2>2, <2>3, <2>4 DEF CoreTypes, Told
<1>4. ASSUME NEW p \in Pods, Missed(p) PROVE CoreTypes'
  <2>1. offset' \in [Pods -> 0 .. Len(topic)]
    BY <1>4 DEF CoreTypes, Missed
  <2>2. covered' \in BOOLEAN /\ fetch' \in [Fetches -> FetchType']
    BY <1>4, UncoveredTypes DEF Missed
  <2> QED
    BY <1>0, <1>4, <2>1, <2>2 DEF CoreTypes, Missed
<1>5. ASSUME NEW p \in Pods, Connects(p) PROVE CoreTypes'
  BY <1>0, <1>5, LiveAssumption DEF CoreTypes, Connects
<1>6. CASE CutOff
  <2>1. covered' \in BOOLEAN /\ fetch' \in [Fetches -> FetchType']
    BY <1>6, UncoveredTypes DEF CutOff, Disconnect
  <2>2. channel' \in Seq(1 .. Len(topic))
    BY <1>6 DEF CutOff, Disconnect
  <2> QED
    BY <1>0, <1>6, <2>1, <2>2 DEF CoreTypes, CutOff, Disconnect
<1>7. CASE Updates
  <2>1. Head(channel) \in 1 .. Len(topic) /\ topic[Head(channel)] \in ChangeType
    BY <1>7, HeadOfChannel DEF Updates
  <2>2. channel' \in Seq(1 .. Len(topic))
    BY <1>7, HeadOfChannel DEF Updates
  <2>3. view' \in {NoView} \cup Map
    BY <1>7, <2>1 DEF CoreTypes, Updates, Map, ChangeType
  <2>4. fetch' \in [Fetches -> FetchType]
    BY <1>7 DEF CoreTypes, Updates, FetchType
  <2>5. sock' # None
    BY <1>7 DEF CoreTypes, Updates
  <2> QED
    BY <1>0, <1>7, <2>2, <2>3, <2>4, <2>5 DEF CoreTypes, Updates
<1>8. ASSUME NEW f \in Fetches, Reads(f) PROVE CoreTypes'
  <2>1. [pc |-> "returning", snap |-> Snapshot, at |-> Len(topic),
         covered |-> sock # None /\ ~skipped] \in FetchType
    BY SnapshotTypes DEF FetchType
  <2>2. fetch' \in [Fetches -> FetchType]
    BY <1>8, <2>1 DEF CoreTypes, Reads
  <2> QED
    BY <1>0, <1>8, <2>2 DEF CoreTypes, Reads
<1>9. ASSUME NEW f \in Fetches, Returns(f) PROVE CoreTypes'
  <2>1. fetch[f] \in FetchType
    BY DEF CoreTypes
  <2>2. view' \in {NoView} \cup Map /\ covered' \in BOOLEAN
    BY <1>9, <2>1 DEF FetchType, Returns
  <2>3. fetch' \in [Fetches -> FetchType]
    BY <1>9, NoFetchTypes DEF CoreTypes, Returns
  <2> QED
    BY <1>0, <1>9, <2>2, <2>3 DEF CoreTypes, Returns
<1>10. ASSUME NEW f \in Fetches, NEW rec \in {NoFetch, NewFetch}, Forgets(f, rec) PROVE CoreTypes'
  <2>1. fetch' \in [Fetches -> FetchType]
    BY <1>10, NoFetchTypes DEF CoreTypes, Forgets
  <2> QED
    BY <1>0, <1>10, <2>1 DEF CoreTypes, Forgets
<1>11. CASE UNCHANGED core
  BY <1>0, <1>11 DEF CoreTypes, core
<1> QED
  BY <1>1, <1>2, <1>3, <1>4, <1>5, <1>6, <1>7, <1>8, <1>9, <1>10, <1>11 DEF CoreStep

\* Every action is one of the ten kinds of steps.
LEMMA NextIsCoreStep ==
    ASSUME CoreTypes, PickerTypes, [Next]_vars
    PROVE  CoreStep
<1> USE LenTopic
<1>1. ASSUME NEW s \in Seats, NEW status \in Status, SomeoneChanges(s, status) PROVE CoreStep
  <2>1. [seat |-> s, status |-> status] \in ChangeType
    BY DEF ChangeType
  <2>2. TopicGrows([seat |-> s, status |-> status])
    BY <1>1 DEF SomeoneChanges, TopicGrows
  <2> QED
    BY <2>1, <2>2 DEF CoreStep
<1>2. ASSUME NEW s \in Seats, ReserveNext(s) PROVE CoreStep
  <2>1. [seat |-> s, status |-> "held"] \in ChangeType
    BY DEF ChangeType, Status
  <2>2. TopicGrows([seat |-> s, status |-> "held"]) \/ UNCHANGED core
    BY <1>2 DEF ReserveNext, TopicGrows, core
  <2> QED
    BY <2>1, <2>2 DEF CoreStep
<1>3. ASSUME NEW p \in Pods, HandleCdcMessage(p) PROVE CoreStep
  <2>1. offset[p] + 1 \in 0 .. Len(topic) /\ offset'[p] = offset[p] + 1
    BY <1>3 DEF CoreTypes, HandleCdcMessage
  <2>2. CASE sock = p
    <3>1. Told(p)
      BY <1>3, <2>1, <2>2 DEF HandleCdcMessage, Broadcast, InRoom, Told
    <3> QED
      BY <3>1 DEF CoreStep
  <2>3. CASE sock # p
    <3>1. Elsewhere(p, offset[p] + 1)
      BY <1>3, <2>3 DEF HandleCdcMessage, Broadcast, InRoom, Elsewhere
    <3> QED
      BY <2>1, <3>1 DEF CoreStep
  <2> QED
    BY <2>2, <2>3
<1>4. ASSUME NEW p \in Pods, HandleCdcFails(p) PROVE CoreStep
  <2>1. offset[p] + 1 \in 0 .. Len(topic)
    BY <1>4 DEF CoreTypes, HandleCdcFails
  <2>2. CASE sock = p
    <3>1. Missed(p)
      BY <1>4, <2>2 DEF HandleCdcFails, InRoom, Missed
    <3> QED
      BY <3>1 DEF CoreStep
  <2>3. CASE sock # p
    <3>1. Elsewhere(p, offset[p] + 1)
      BY <1>4, <2>3 DEF HandleCdcFails, InRoom, Elsewhere
    <3> QED
      BY <2>1, <3>1 DEF CoreStep
  <2> QED
    BY <2>2, <2>3
<1>5. ASSUME NEW p \in Pods, RestartPod(p) PROVE CoreStep
  <2>1. PICK k \in 0 .. offset[p] : offset' = [offset EXCEPT ![p] = k]
    BY <1>5 DEF RestartPod
  <2>2. k \in 0 .. Len(topic)
    BY <2>1 DEF CoreTypes
  <2>3. CASE sock = p
    <3>1. offset' \in [Pods -> 0 .. Len(topic)]
      BY <2>1, <2>2 DEF CoreTypes
    <3>2. CutOff
      BY <1>5, <2>3, <3>1 DEF RestartPod, InRoom, CutOff
    <3> QED
      BY <3>2 DEF CoreStep
  <2>4. CASE sock # p
    <3>1. Elsewhere(p, k)
      BY <1>5, <2>1, <2>4 DEF RestartPod, InRoom, Elsewhere
    <3> QED
      BY <2>2, <3>1 DEF CoreStep
  <2> QED
    BY <2>3, <2>4
<1>6. ASSUME NEW p \in Pods, Connect(p) PROVE CoreStep
  <2>1. Connects(p)
    BY <1>6 DEF Connect, Connects, backend
  <2> QED
    BY <2>1 DEF CoreStep
<1>7. CASE SocketDrops \/ GoToCheckout
  <2>1. CutOff
    BY <1>7 DEF SocketDrops, GoToCheckout, CutOff, backend, CoreTypes
  <2> QED
    BY <2>1 DEF CoreStep
<1>8. CASE HandleLiveUpdate
  <2>1. Updates
    BY <1>8 DEF HandleLiveUpdate, Change, Updates, backend
  <2> QED
    BY <2>1 DEF CoreStep
<1>9. ASSUME NEW f \in Fetches, ReadSnapshot(f) PROVE CoreStep
  <2>1. Reads(f)
    BY <1>9 DEF ReadSnapshot, Reads, Snapshot, backend
  <2> QED
    BY <2>1 DEF CoreStep
<1>10. ASSUME NEW f \in Fetches, FetchReturns(f) PROVE CoreStep
  <2>1. Returns(f)
    BY <1>10 DEF FetchReturns, Returns, backend
  <2> QED
    BY <2>1 DEF CoreStep
<1>11. ASSUME NEW f \in Fetches, FetchFails(f) \/ ReservedNothing(f) PROVE CoreStep
  <2>1. Forgets(f, NoFetch) \/ Forgets(f, NewFetch)
    BY <1>11 DEF FetchFails, ReservedNothing, Forgets, NewFetch, backend
  <2> QED
    BY <2>1 DEF CoreStep
<1>12. CASE \/ \E s \in Seats : ToggleSeat(s)
            \/ HandleReserve
            \/ UNCHANGED vars
  <2>1. UNCHANGED core
    BY <1>12 DEF ToggleSeat, HandleReserve, backend, vars, core
  <2> QED
    BY <2>1 DEF CoreStep
<1> QED
  BY <1>1, <1>2, <1>3, <1>4, <1>5, <1>6, <1>7, <1>8, <1>9, <1>10, <1>11, <1>12 DEF Next

LEMMA NextKeepsPicker ==
    ASSUME CoreTypes, PickerTypes, [Next]_vars
    PROVE  PickerTypes'
<1> USE DEF PickerTypes
<1>1. ASSUME NEW s \in Seats, NEW status \in Status, SomeoneChanges(s, status) PROVE PickerTypes'
  BY <1>1 DEF SomeoneChanges, picker
<1>2. ASSUME NEW s \in Seats, ReserveNext(s) PROVE PickerTypes'
  BY <1>2 DEF ReserveNext
<1>3. ASSUME NEW p \in Pods, HandleCdcMessage(p) \/ HandleCdcFails(p) \/ RestartPod(p) \/ Connect(p)
      PROVE  PickerTypes'
  <2>1. faults' \in 0 .. MaxFaults
    BY <1>3, LiveAssumption DEF HandleCdcMessage, HandleCdcFails, RestartPod, Connect, Fault
  <2> QED
    BY <1>3, <2>1 DEF HandleCdcMessage, HandleCdcFails, RestartPod, Connect, picker
<1>4. CASE SocketDrops \/ GoToCheckout \/ HandleReserve
  <2>1. faults' \in 0 .. MaxFaults
    BY <1>4, LiveAssumption DEF SocketDrops, GoToCheckout, HandleReserve, Fault
  <2> QED
    BY <1>4, <2>1 DEF SocketDrops, GoToCheckout, HandleReserve, picker
<1>5. CASE HandleLiveUpdate
  BY <1>5 DEF HandleLiveUpdate
<1>6. ASSUME NEW f \in Fetches, ReadSnapshot(f) \/ FetchReturns(f) \/ FetchFails(f) \/ ReservedNothing(f)
      PROVE  PickerTypes'
  <2>1. faults' \in 0 .. MaxFaults
    BY <1>6, LiveAssumption DEF ReadSnapshot, FetchReturns, FetchFails, ReservedNothing, Fault
  <2> QED
    BY <1>6, <2>1 DEF ReadSnapshot, FetchReturns, FetchFails, ReservedNothing, picker
<1>7. ASSUME NEW s \in Seats, ToggleSeat(s) PROVE PickerTypes'
  <2>1. s \in selected \cup Seats
    OBVIOUS
  <2> QED
    BY <1>7, <2>1 DEF ToggleSeat
<1>8. CASE UNCHANGED vars
  BY <1>8 DEF vars
<1> QED
  BY <1>1, <1>2, <1>3, <1>4, <1>5, <1>6, <1>7, <1>8 DEF Next

LEMMA NextKeepsTypes == LiveTypes /\ [Next]_vars => LiveTypes'
<1> SUFFICES ASSUME LiveTypes, [Next]_vars PROVE LiveTypes'
  OBVIOUS
<1>1. CoreTypes /\ PickerTypes
  BY TypesSplit
<1>2. CoreTypes' /\ PickerTypes'
  BY <1>1, NextIsCoreStep, CoreStepKeepsTypes, NextKeepsPicker
<1>3. LiveTypes' <=> CoreTypes' /\ PickerTypes'
  BY DEF LiveTypes, TypeOK, CoreTypes, PickerTypes, ChangeType, FetchType, Map
<1> QED
  BY <1>2, <1>3

LEMMA InitTypes == Init => LiveTypes
<1> SUFFICES ASSUME Init PROVE LiveTypes
  OBVIOUS
<1>1. topic \in Seq(ChangeType) /\ HasLast(topic)
  BY InitialTopic DEF Init
<1>2. Len(topic) \in Nat
  BY <1>1, LenProperties
<1>3. offset \in [Pods -> 0 .. Len(topic)]
  BY <1>2 DEF Init
<1>4. fetch \in [Fetches -> FetchType]
  <2>1. PICK first \in Fetches : fetch = [f \in Fetches |-> IF f = first THEN NewFetch ELSE NoFetch]
    BY Zenon DEF Init, NewFetch
  <2> QED
    BY <1>2, <2>1, NoFetchTypes
<1>5. channel \in Seq(1 .. Len(topic))
  BY DEF Init
<1>6. CoreTypes
  BY <1>1, <1>3, <1>4, <1>5 DEF Init, CoreTypes
<1>7. PickerTypes
  <2>1. selected = {} /\ batch = {} /\ page = "open" /\ won = FALSE /\ faults = 0
    BY DEF Init
  <2> QED
    <3>1. faults \in 0 .. MaxFaults
      BY <2>1, LiveAssumption
    <3>2. won \in BOOLEAN
      BY <2>1
    <3> QED
      BY <2>1, <3>1, <3>2, Zenon DEF PickerTypes
<1> QED
  BY <1>6, <1>7, TypesSplit

\* The variables keep their types: every offset and every message under way is
\* a position of the topic, whatever restarts and drops have happened.
THEOREM LiveTypeCorrect == Spec => []TypeOK
<1>1. Spec => []LiveTypes
  BY InitTypes, NextKeepsTypes, PTL DEF Spec
<1>2. LiveTypes => TypeOK
  BY DEF LiveTypes
<1> QED
  BY <1>1, <1>2, PTL

-----------------------------------------------------------------------------
(* What the page has been told.                                            *)

\* How much of the topic the page has handled, on a socket without a gap.
Handled == offset[sock] - Len(channel)
Up == sock # None /\ ~skipped

\* Seats that do not change in topic T after position n are as the map says.
Reflects(T, map, n) ==
    \A s \in Seats : (\A i \in n + 1 .. Len(T) : T[i].seat # s) => map[s] = LastStatus(T, s)

InOrder == Up => Handled \in Nat /\ \A k \in 1 .. Len(channel) : channel[k] = Handled + k
ViewCovered == covered => Up /\ view \in Map /\ Reflects(topic, view, Handled)
FetchCovered(f) ==
    fetch[f].covered =>
        /\ Up /\ fetch[f].snap \in Map
        /\ Handled <= fetch[f].at /\ Reflects(topic, fetch[f].snap, fetch[f].at)
LiveInv == InOrder /\ ViewCovered /\ \A f \in Fetches : FetchCovered(f)

LEMMA HandledRange ==
    ASSUME CoreTypes, sock # None
    PROVE  Handled \in Int /\ Handled <= Len(topic) /\ offset[sock] \in Nat /\ Len(channel) \in Nat
<1>1. Len(channel) \in Nat /\ Len(topic) \in Nat
  BY LenProperties DEF CoreTypes
<1>2. offset[sock] \in 0 .. Len(topic)
  BY DEF CoreTypes
<1> QED
  BY <1>1, <1>2 DEF Handled

\* A new change may only add to what is still to come.
LEMMA ReflectsGrowing ==
    ASSUME NEW T \in Seq(ChangeType), HasLast(T), NEW c \in ChangeType,
           NEW map, NEW n \in Nat, n <= Len(T), Reflects(T, map, n)
    PROVE  Reflects(Append(T, c), map, n)
<1> DEFINE U == Append(T, c)
<1>1. /\ Len(U) = Len(T) + 1 /\ Len(T) \in Nat
      /\ \A i \in 1 .. Len(T) : U[i] = T[i]
      /\ U[Len(U)] = c
      /\ \A s \in Seats : s # c.seat => LastStatus(U, s) = LastStatus(T, s)
  BY AppendedChange, LenProperties
<1> HIDE DEF U
<1>2. ASSUME NEW s \in Seats, \A i \in n + 1 .. Len(U) : U[i].seat # s
      PROVE  map[s] = LastStatus(U, s)
  <2>1. s # c.seat
    BY <1>1, <1>2
  <2>2. \A i \in n + 1 .. Len(T) : T[i].seat # s
    BY <1>1, <1>2
  <2> QED
    BY <1>1, <2>1, <2>2 DEF Reflects
<1> QED
  BY <1>2 DEF Reflects, U

\* Handling change n + 1 of the topic.
LEMMA ReflectsHandling ==
    ASSUME NEW T \in Seq(ChangeType), NEW map \in Map, NEW n \in Nat,
           n + 1 \in 1 .. Len(T), Reflects(T, map, n)
    PROVE  Reflects(T, [map EXCEPT ![T[n + 1].seat] = T[n + 1].status], n + 1)
<1> DEFINE c == T[n + 1]
           new == [map EXCEPT ![c.seat] = c.status]
<1>1. c \in ChangeType /\ Len(T) \in Nat
  BY ElementOfSeq, LenProperties
<1> HIDE DEF c
<1>2. ASSUME NEW s \in Seats, \A i \in (n + 1) + 1 .. Len(T) : T[i].seat # s
      PROVE  new[s] = LastStatus(T, s)
  <2>1. CASE s = c.seat
    <3>1. IsLast(T, s, n + 1)
      BY <1>2, <2>1 DEF IsLast, c
    <3>2. LastStatus(T, s) = c.status
      BY <1>1, <3>1, LastDecides DEF c
    <3> QED
      BY <2>1, <3>2 DEF Map
  <2>2. CASE s # c.seat
    <3>1. \A i \in n + 1 .. Len(T) : T[i].seat # s
      BY <1>1, <1>2, <2>2 DEF c
    <3>2. new[s] = map[s]
      BY <2>2 DEF Map
    <3> QED
      BY <3>1, <3>2 DEF Reflects
  <2> QED
    BY <2>1, <2>2
<1> QED
  BY <1>2 DEF Reflects, c

\* A map read from the database reflects all of the topic.
LEMMA SnapshotReflects == CoreTypes => Reflects(topic, Snapshot, Len(topic))
BY StatusIsLast DEF Reflects, Snapshot

\* Nothing is covered: nothing is promised but the order of the messages.
LEMMA UncoverLosesAll ==
    ASSUME CoreTypes, Uncover
    PROVE  ~covered' /\ \A f \in Fetches : ~fetch'[f].covered
BY DEF CoreTypes, FetchType, Uncover

LEMMA GrowingKeepsLive ==
    ASSUME CoreTypes, LiveInv, NEW c \in ChangeType, TopicGrows(c)
    PROVE  LiveInv'
<1>1. Handled' = Handled /\ Up' = Up
  BY DEF Handled, Up, TopicGrows
<1>2. InOrder'
  BY <1>1 DEF LiveInv, InOrder, TopicGrows
<1>3. ViewCovered'
  <2> SUFFICES ASSUME covered' PROVE ViewCovered'
    BY DEF ViewCovered
  <2>1. covered /\ Up /\ view \in Map /\ Reflects(topic, view, Handled)
    BY DEF LiveInv, ViewCovered, TopicGrows
  <2>2. Handled \in Nat /\ Handled <= Len(topic)
    BY <2>1, HandledRange DEF LiveInv, InOrder, Up
  <2>3. Reflects(topic', view, Handled)
    BY <2>1, <2>2, ReflectsGrowing DEF CoreTypes, TopicGrows
  <2> QED
    BY <1>1, <2>1, <2>3 DEF ViewCovered, TopicGrows
<1>4. ASSUME NEW f \in Fetches PROVE FetchCovered(f)'
  <2> SUFFICES ASSUME fetch'[f].covered PROVE FetchCovered(f)'
    BY DEF FetchCovered
  <2>0. fetch' = fetch
    BY DEF TopicGrows
  <2>1. /\ Up /\ fetch[f].snap \in Map
        /\ Handled <= fetch[f].at /\ Reflects(topic, fetch[f].snap, fetch[f].at)
    BY <2>0 DEF LiveInv, FetchCovered
  <2>2. fetch[f].at \in Nat /\ fetch[f].at <= Len(topic)
    BY LenTopic DEF CoreTypes, FetchType
  <2>3. Reflects(topic', fetch[f].snap, fetch[f].at)
    BY <2>1, <2>2, ReflectsGrowing DEF CoreTypes, TopicGrows
  <2> QED
    BY <1>1, <2>0, <2>1, <2>3 DEF FetchCovered
<1> QED
  BY <1>2, <1>3, <1>4 DEF LiveInv

\* Everything a map is measured against is as it was.
LEMMA SameHandledKeepsMaps ==
    ASSUME LiveInv, topic' = topic, Handled' = Handled, Up' = Up,
           view' = view, covered' = covered, fetch' = fetch
    PROVE  ViewCovered' /\ \A f \in Fetches : FetchCovered(f)'
BY DEF LiveInv, ViewCovered, FetchCovered

LEMMA ElsewhereKeepsLive ==
    ASSUME CoreTypes, LiveInv, NEW p \in Pods, NEW k, Elsewhere(p, k)
    PROVE  LiveInv'
<1>1. Up' = Up
  BY DEF Up, Elsewhere
<1>2. CASE Up
  <2>1. Handled' = Handled
    BY <1>2 DEF CoreTypes, Up, Handled, Elsewhere
  <2>2. InOrder'
    BY <1>1, <1>2, <2>1 DEF LiveInv, InOrder, Elsewhere
  <2> QED
    BY <1>1, <2>1, <2>2, SameHandledKeepsMaps DEF LiveInv, Elsewhere
<1>3. CASE ~Up
  BY <1>1, <1>3 DEF LiveInv, InOrder, ViewCovered, FetchCovered, Elsewhere
<1> QED
  BY <1>2, <1>3

\* The pod is one message further and the channel one longer.
LEMMA ToldKeepsLive ==
    ASSUME CoreTypes, LiveInv, NEW p \in Pods, Told(p)
    PROVE  LiveInv'
<1>1. Up' = Up /\ sock # None /\ sock = p
  BY LiveAssumption DEF Up, Told
<1>2. /\ offset[p] \in Nat /\ offset'[p] = offset[p] + 1
      /\ offset[p] + 1 \in 1 .. Len(topic)
  BY LenTopic DEF CoreTypes, Told
<1>3. /\ Len(channel) \in Nat /\ Len(channel') = Len(channel) + 1
      /\ \A k \in 1 .. Len(channel) : channel'[k] = channel[k]
      /\ channel'[Len(channel) + 1] = offset[p] + 1
  BY <1>2, AppendProperties, LenProperties DEF CoreTypes, Told
<1>4. Handled' = Handled
  BY <1>1, <1>2, <1>3 DEF Handled, Told
<1>5. InOrder'
  <2> SUFFICES ASSUME Up PROVE Handled \in Nat /\ \A k \in 1 .. Len(channel') : channel'[k] = Handled + k
    BY <1>1, <1>4 DEF InOrder
  <2>1. Handled \in Nat /\ \A k \in 1 .. Len(channel) : channel[k] = Handled + k
    BY DEF LiveInv, InOrder
  <2>2. Handled + (Len(channel) + 1) = offset[p] + 1
    BY <1>1, <1>2, <1>3 DEF Handled
  <2>3. ASSUME NEW k \in 1 .. Len(channel') PROVE channel'[k] = Handled + k
    <3>1. k \in 1 .. Len(channel) \/ k = Len(channel) + 1
      BY <1>3
    <3> QED
      BY <1>3, <2>1, <2>2, <3>1
  <2> QED
    BY <2>1, <2>3
<1> QED
  BY <1>1, <1>4, <1>5, SameHandledKeepsMaps DEF LiveInv, Told

LEMMA UncoveringKeepsLive ==
    ASSUME CoreTypes, Uncover, ~Up'
    PROVE  LiveInv'
BY UncoverLosesAll DEF LiveInv, InOrder, ViewCovered, FetchCovered

\* A socket is opened: nothing was covered, nothing is under way.
LEMMA ConnectKeepsLive ==
    ASSUME CoreTypes, LiveInv, NEW p \in Pods, Connects(p)
    PROVE  LiveInv'
<1>1. ~Up /\ channel = <<>> /\ channel' = <<>>
  BY DEF CoreTypes, Connects, Up
<1>2. ~covered' /\ \A f \in Fetches : ~fetch'[f].covered
  BY <1>1 DEF LiveInv, ViewCovered, FetchCovered, Connects
<1>3. Len(channel') = 0
  BY <1>1
<1>4. Handled' \in Nat
  <2>1. offset'[sock'] \in Nat
    BY LenTopic DEF CoreTypes, Connects
  <2> QED
    BY <1>3, <2>1 DEF Handled
<1>5. InOrder'
  BY <1>3, <1>4 DEF InOrder
<1> QED
  BY <1>2, <1>5 DEF LiveInv, ViewCovered, FetchCovered

\* One message of the channel is handled.
LEMMA UpdateKeepsLive ==
    ASSUME CoreTypes, LiveInv, Updates
    PROVE  LiveInv'
<1>1. /\ Up' = Up /\ sock' = sock /\ offset' = offset /\ topic' = topic
      /\ sock # None
  BY DEF CoreTypes, Up, Updates
<1>2. /\ Len(channel) \in Nat \ {0} /\ Len(channel') = Len(channel) - 1
      /\ \A k \in 1 .. Len(channel') : channel'[k] = channel[k + 1]
      /\ Head(channel) = channel[1]
  BY HeadTailProperties, LenProperties, EmptySeq DEF CoreTypes, Updates
<1>3. Handled \in Int /\ Handled' = Handled + 1
  BY <1>1, <1>2, HandledRange DEF Handled
<1>4. ASSUME Up PROVE Handled \in Nat /\ Head(channel) = Handled + 1
  BY <1>2, <1>4 DEF LiveInv, InOrder
<1>5. InOrder'
  <2> SUFFICES ASSUME Up PROVE Handled' \in Nat /\ \A k \in 1 .. Len(channel') : channel'[k] = Handled' + k
    BY <1>1 DEF InOrder
  <2>1. Handled \in Nat /\ \A k \in 1 .. Len(channel) : channel[k] = Handled + k
    BY DEF LiveInv, InOrder
  <2>2. ASSUME NEW k \in 1 .. Len(channel') PROVE channel'[k] = Handled' + k
    <3>1. k + 1 \in 1 .. Len(channel)
      BY <1>2
    <3>2. channel'[k] = Handled + (k + 1)
      BY <1>2, <2>1, <3>1
    <3> QED
      BY <1>3, <2>1, <3>2
  <2> QED
    BY <1>3, <2>1, <2>2
<1>6. ViewCovered'
  <2> SUFFICES ASSUME covered' PROVE ViewCovered'
    BY DEF ViewCovered
  <2>1. covered /\ Up /\ view \in Map /\ Reflects(topic, view, Handled)
    BY DEF LiveInv, ViewCovered, Updates
  <2>2. /\ Handled + 1 \in 1 .. Len(topic) /\ topic[Handled + 1] \in ChangeType
        /\ Handled \in Nat /\ Head(channel) = Handled + 1
    BY <1>4, <2>1, HeadOfChannel DEF Updates
  <2>3. view' = [view EXCEPT ![topic[Handled + 1].seat] = topic[Handled + 1].status]
    BY <2>1, <2>2, NoViewIsNoMap DEF Updates
  <2>4. Reflects(topic, view', Handled + 1)
    BY <2>1, <2>2, <2>3, ReflectsHandling DEF CoreTypes
  <2>5. view' \in Map
    BY <2>1, <2>2, <2>3 DEF Map, ChangeType
  <2> QED
    BY <1>1, <1>3, <2>1, <2>4, <2>5 DEF ViewCovered
<1>7. ASSUME NEW f \in Fetches PROVE FetchCovered(f)'
  <2> SUFFICES ASSUME fetch'[f].covered PROVE FetchCovered(f)'
    BY DEF FetchCovered
  <2>1. /\ fetch[f].covered /\ Head(channel) <= fetch[f].at
        /\ fetch'[f].snap = fetch[f].snap /\ fetch'[f].at = fetch[f].at
    BY DEF CoreTypes, FetchType, Updates
  <2>2. Up /\ fetch[f].snap \in Map /\ Reflects(topic, fetch[f].snap, fetch[f].at)
    BY <2>1 DEF LiveInv, FetchCovered
  <2>3. Handled' <= fetch[f].at
    BY <1>3, <1>4, <2>1, <2>2
  <2> QED
    BY <1>1, <2>1, <2>2, <2>3 DEF FetchCovered
<1> QED
  BY <1>5, <1>6, <1>7 DEF LiveInv

\* The socket and the topic stand still: the order of the messages too.
LEMMA StillInOrder ==
    ASSUME LiveInv, UNCHANGED <<topic, offset, sock, channel, skipped>>
    PROVE  Handled' = Handled /\ Up' = Up /\ InOrder'
BY DEF LiveInv, InOrder, Handled, Up

LEMMA ReadKeepsLive ==
    ASSUME CoreTypes, LiveInv, NEW f \in Fetches, Reads(f)
    PROVE  LiveInv'
<1>1. Handled' = Handled /\ Up' = Up /\ InOrder' /\ topic' = topic
  BY StillInOrder DEF Reads
<1>2. ViewCovered'
  BY <1>1 DEF LiveInv, ViewCovered, Reads
<1>3. ASSUME NEW g \in Fetches PROVE FetchCovered(g)'
  <2>1. CASE g = f
    <3>1. /\ fetch'[g].snap = Snapshot /\ fetch'[g].at = Len(topic)
          /\ fetch'[g].covered <=> Up
      BY <2>1 DEF CoreTypes, Reads, Up
    <3>2. ASSUME Up PROVE Handled <= Len(topic)
      BY <3>2, HandledRange DEF Up
    <3> QED
      BY <1>1, <3>1, <3>2, SnapshotTypes, SnapshotReflects DEF FetchCovered
  <2>2. CASE g # f
    <3>1. fetch'[g] = fetch[g]
      BY <2>2 DEF CoreTypes, Reads
    <3> QED
      BY <1>1, <3>1 DEF LiveInv, FetchCovered
  <2> QED
    BY <2>1, <2>2
<1> QED
  BY <1>1, <1>2, <1>3 DEF LiveInv

\* The snapshot is no older than what the page has handled, so what it lacks is
\* still to come: also when a newer snapshot was on the page already.
LEMMA ReturnKeepsLive ==
    ASSUME CoreTypes, LiveInv, NEW f \in Fetches, Returns(f)
    PROVE  LiveInv'
<1>0. Len(topic) \in Nat
  BY LenTopic
<1>1. Handled' = Handled /\ Up' = Up /\ InOrder' /\ topic' = topic
  BY StillInOrder DEF Returns
<1>2. ViewCovered'
  <2> SUFFICES ASSUME covered' PROVE ViewCovered'
    BY DEF ViewCovered
  <2>1. /\ Up /\ fetch[f].snap \in Map
        /\ Handled <= fetch[f].at /\ Reflects(topic, fetch[f].snap, fetch[f].at)
    BY DEF LiveInv, FetchCovered, Returns
  <2>2. fetch[f].at \in Nat /\ Handled \in Nat
    BY <1>0, <2>1 DEF CoreTypes, FetchType, LiveInv, InOrder
  <2>3. Reflects(topic, fetch[f].snap, Handled)
    BY <1>0, <2>1, <2>2 DEF Reflects
  <2> QED
    BY <1>1, <2>1, <2>3 DEF ViewCovered, Returns
<1>3. ASSUME NEW g \in Fetches PROVE FetchCovered(g)'
  <2>1. CASE g = f
    <3>1. ~fetch'[g].covered
      BY <1>0, <2>1, NoFetchTypes DEF CoreTypes, Returns
    <3> QED
      BY <3>1 DEF FetchCovered
  <2>2. CASE g # f
    <3>1. fetch'[g] = fetch[g]
      BY <2>2 DEF CoreTypes, Returns
    <3> QED
      BY <1>1, <3>1 DEF LiveInv, FetchCovered
  <2> QED
    BY <2>1, <2>2
<1> QED
  BY <1>1, <1>2, <1>3 DEF LiveInv

LEMMA ForgetKeepsLive ==
    ASSUME CoreTypes, LiveInv, NEW f \in Fetches, NEW rec \in {NoFetch, NewFetch}, Forgets(f, rec)
    PROVE  LiveInv'
<1>1. Handled' = Handled /\ Up' = Up /\ InOrder' /\ topic' = topic
  BY StillInOrder DEF Forgets
<1>2. ViewCovered'
  BY <1>1 DEF LiveInv, ViewCovered, Forgets
<1>3. ASSUME NEW g \in Fetches PROVE FetchCovered(g)'
  <2>1. CASE g = f
    <3>1. ~rec.covered
      BY LenTopic, NoFetchTypes
    <3>2. ~fetch'[g].covered
      BY <2>1, <3>1 DEF CoreTypes, Forgets
    <3> QED
      BY <3>2 DEF FetchCovered
  <2>2. CASE g # f
    <3>1. fetch'[g] = fetch[g]
      BY <2>2 DEF CoreTypes, Forgets
    <3> QED
      BY <1>1, <3>1 DEF LiveInv, FetchCovered
  <2> QED
    BY <2>1, <2>2
<1> QED
  BY <1>1, <1>2, <1>3 DEF LiveInv

LEMMA CoreStepKeepsLive ==
    ASSUME CoreTypes, LiveInv, CoreStep
    PROVE  LiveInv'
<1>1. ASSUME NEW p \in Pods, Missed(p) PROVE LiveInv'
  <2>1. Uncover /\ ~Up'
    BY <1>1 DEF Missed, Up
  <2> QED
    BY <2>1, UncoveringKeepsLive
<1>2. CASE CutOff
  <2>1. Uncover /\ ~Up'
    BY <1>2 DEF CutOff, Disconnect, Up
  <2> QED
    BY <2>1, UncoveringKeepsLive
<1>3. CASE UNCHANGED core
  BY <1>3 DEF core, LiveInv, InOrder, ViewCovered, FetchCovered, Handled, Up
<1> QED
  BY <1>1, <1>2, <1>3, GrowingKeepsLive, ElsewhereKeepsLive, ToldKeepsLive, ConnectKeepsLive,
     UpdateKeepsLive, ReadKeepsLive, ReturnKeepsLive, ForgetKeepsLive DEF CoreStep

LEMMA InitLive == Init => LiveInv
<1> SUFFICES ASSUME Init PROVE LiveInv
  OBVIOUS
<1>1. ~Up /\ ~covered
  BY DEF Init, Up
<1>2. ASSUME NEW f \in Fetches PROVE ~fetch[f].covered
  <2>1. PICK first \in Fetches : fetch = [g \in Fetches |-> IF g = first THEN NewFetch ELSE NoFetch]
    BY Zenon DEF Init, NewFetch
  <2>2. Len(topic) \in Nat
    BY InitTypes, TypesSplit, LenTopic
  <2> QED
    BY <2>1, <2>2, NoFetchTypes
<1> QED
  BY <1>1, <1>2 DEF LiveInv, InOrder, ViewCovered, FetchCovered

\* While the page is covered, what it has been told and what it will be told
\* make up the topic, and its map and every covered snapshot lack only changes
\* of the second part.
THEOREM CoverIsComplete == Spec => []LiveInv
<1>1. Init => LiveTypes /\ LiveInv
  BY InitTypes, InitLive
<1>2. LiveTypes /\ LiveInv /\ [Next]_vars => (LiveTypes /\ LiveInv)'
  <2> SUFFICES ASSUME LiveTypes, LiveInv, [Next]_vars PROVE LiveTypes' /\ LiveInv'
    OBVIOUS
  <2>1. CoreTypes /\ PickerTypes
    BY TypesSplit
  <2>2. CoreStep
    BY <2>1, NextIsCoreStep
  <2> QED
    BY <2>1, <2>2, NextKeepsTypes, CoreStepKeepsLive
<1> QED
  BY <1>1, <1>2, PTL DEF Spec

\* A covered page that has heard everything shows the database: useLiveSeats
\* keeps its word for as long as nothing is lost.
THEOREM CoveredPagesAreCurrent == Spec => []CoveredPageIsCurrent
<1>1. LiveTypes /\ LiveInv => CoveredPageIsCurrent
  <2> SUFFICES ASSUME LiveTypes, LiveInv, covered, Quiet PROVE Current
    BY DEF CoveredPageIsCurrent
  <2>1. Len(topic) \in Nat /\ sock # None /\ channel = <<>> /\ offset[sock] = Len(topic)
    BY TypesSplit, LenTopic DEF Quiet
  <2>2. Handled = Len(topic)
    BY <2>1 DEF Handled
  <2>3. Reflects(topic, view, Len(topic))
    BY <2>2 DEF LiveInv, ViewCovered
  <2>4. \A s \in Seats : view[s] = LastStatus(topic, s)
    BY <2>1, <2>3 DEF Reflects
  <2> QED
    BY <2>4, StatusIsLast DEF Current
<1>2. Spec => []LiveTypes
  BY InitTypes, NextKeepsTypes, PTL DEF Spec
<1> QED
  BY <1>1, <1>2, CoverIsComplete, PTL
=============================================================================
