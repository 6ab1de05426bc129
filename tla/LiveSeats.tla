----------------------------- MODULE LiveSeats ------------------------------
(***************************************************************************)
(* Live seat updates: committed changes of seats reach the topic of change *)
(* events, every backend pod consumes the topic on its own (one consumer   *)
(* group per pod) and pushes each change to the sockets in its room, and   *)
(* one seat-picker page applies the pushes to the seat map it fetched.     *)
(* Everybody else is only present through the changes they make.           *)
(*                                                                         *)
(* A message in flight is the position of its change in the topic.  The    *)
(* topic has one partition; its order is the order of the commits.  The    *)
(* cache key the consumer deletes is never written, so there is no cache.  *)
(***************************************************************************)
EXTENDS Naturals, Sequences, SequencesExt, FiniteSets

CONSTANTS
    Seats,       \* seats of the event on display
    Pods,        \* backend pods
    Fetches,     \* listSeatsForEvent calls that may be in flight together
    MaxChanges,  \* bound on the length of the topic others may write up to
    MaxFaults,   \* bound on restarts, dropped sockets and failed messages
    None

ASSUME LiveAssumption ==
    /\ IsFiniteSet(Seats) /\ Seats # {}
    /\ MaxChanges \in Nat /\ MaxFaults \in Nat
    /\ None \notin Pods

VARIABLES
    topic,      \* changes of seats rows, in commit order
    offset,     \* offset[p]: messages pod p has consumed
    sock,       \* the pod at the other end of the page's socket, or None
    channel,    \* messages under way on that socket
    view,       \* the page's seat map; empty until the first fetch returns
    fetch,      \* fetch[f]: a listSeatsForEvent call
    selected,   \* seats picked on the page
    batch,      \* handleReserve: seats still to be reserved
    page,       \* "open", "reserving", "checkout"
    won,        \* handleReserve has at least one booking
    faults,     \* bound: faults so far
    covered,    \* history: every change the view lacks is still on its way
    skipped     \* history: the pod failed on a message while the socket was open

backend == <<topic, offset>>
picker == <<selected, batch, page, won>>
vars == <<topic, offset, sock, channel, view, fetch, selected, batch, page, won,
          faults, covered, skipped>>

Status == {"available", "held", "booked"}

NoView == [s \in {} |-> "available"]
NoFetch == [pc |-> "idle", snap |-> NoView, at |-> 0, covered |-> FALSE]

\* Statuses only change along the lifecycle of a seat.
Changes == {<<"available", "held">>, <<"held", "booked">>,
            <<"held", "available">>, <<"booked", "available">>}

\* The committed status of a seat is that of its last change.
StatusOf(s) ==
    topic[CHOOSE i \in 1 .. Len(topic) :
            /\ topic[i].seat = s
            /\ \A j \in i + 1 .. Len(topic) : topic[j].seat # s].status

TypeOK ==
    /\ topic \in Seq([seat : Seats, status : Status])
    /\ offset \in [Pods -> 0 .. Len(topic)]
    /\ sock \in Pods \cup {None}
    /\ channel \in Seq(1 .. Len(topic)) /\ (sock = None => channel = <<>>)
    /\ view \in {NoView} \cup [Seats -> Status]
    /\ fetch \in [Fetches -> [pc : {"idle", "sent", "returning"}, at : 0 .. Len(topic),
                              snap : {NoView} \cup [Seats -> Status], covered : BOOLEAN]]
    /\ selected \subseteq Seats /\ batch \subseteq Seats
    /\ page \in {"open", "reserving", "checkout"}
    /\ won \in BOOLEAN
    /\ faults \in 0 .. MaxFaults
    /\ covered \in BOOLEAN /\ skipped \in BOOLEAN

\* The connector's initial snapshot of the table, and a page that has just been
\* opened: its fetch is sent, its socket not yet connected.
Init ==
    /\ topic = SetToSeq({[seat |-> s, status |-> "available"] : s \in Seats})
    /\ offset = [p \in Pods |-> Len(topic)]
    /\ sock = None
    /\ channel = <<>>
    /\ view = NoView
    /\ \E first \in Fetches :
         fetch = [f \in Fetches |-> IF f = first THEN [NoFetch EXCEPT !.pc = "sent"] ELSE NoFetch]
    /\ selected = {} /\ batch = {}
    /\ page = "open" /\ won = FALSE
    /\ faults = 0
    /\ covered = FALSE /\ skipped = FALSE

-----------------------------------------------------------------------------
(* Changes, and the pods that hear of them.                                *)

\* UPDATE seats by somebody else's reservation, confirmation, cancellation or
\* expiry.
SomeoneChanges(s, status) ==
    /\ Len(topic) < MaxChanges
    /\ <<StatusOf(s), status>> \in Changes
    /\ topic' = Append(topic, [seat |-> s, status |-> status])
    /\ UNCHANGED <<offset, sock, channel, view, fetch, picker, faults, covered, skipped>>

\* The page's socket is in the room of its event on pod p from the moment it is
\* open until it closes.
InRoom(p) == sock = p

\* A message of the topic, unwrapped: the row as it is after the change.
Change(i) == topic[i]

\* broadcastSeatUpdate(): every open socket of the room.  The mutated form
\* pushes only what takes a seat off the market.
BroadcastTakenOnly(p, i) ==
    channel' = IF InRoom(p) /\ Change(i).status # "available" THEN Append(channel, i) ELSE channel
Broadcast(p, i) ==
    channel' = IF InRoom(p) THEN Append(channel, i) ELSE channel

\* handleCdcMessage() on pod p.
HandleCdcMessage(p) ==
    /\ offset[p] < Len(topic)
    /\ offset' = [offset EXCEPT ![p] = @ + 1]
    /\ Broadcast(p, offset'[p])
    /\ UNCHANGED <<topic, sock, view, fetch, picker, faults, covered, skipped>>

\* What a fault makes of the history: nothing newer can be relied on.
Uncover ==
    /\ covered' = FALSE
    /\ fetch' = [f \in Fetches |-> [fetch[f] EXCEPT !.covered = FALSE]]

Fault == faults < MaxFaults /\ faults' = faults + 1

\* The cache delete throws: logged and swallowed, so the message counts as
\* consumed and is never broadcast.
HandleCdcFails(p) ==
    /\ Fault
    /\ offset[p] < Len(topic)
    /\ offset' = [offset EXCEPT ![p] = @ + 1]
    /\ IF InRoom(p) THEN Uncover /\ skipped' = TRUE ELSE UNCHANGED <<covered, fetch, skipped>>
    /\ UNCHANGED <<topic, sock, channel, view, picker>>

\* The socket is gone and with it what was under way.  The mutated form leaves
\* the old socket's messages to be handled.
DisconnectKeepingMessages ==
    /\ sock' = None
    /\ UNCHANGED channel
    /\ Uncover
Disconnect ==
    /\ sock' = None
    /\ channel' = <<>>
    /\ Uncover

\* A pod dies and comes back: consumption resumes at its group's committed
\* offset, which may lag behind (fromBeginning, if there is none).
RestartPod(p) ==
    /\ Fault
    /\ \E k \in 0 .. offset[p] : offset' = [offset EXCEPT ![p] = k]
    /\ IF InRoom(p) THEN Disconnect ELSE UNCHANGED <<sock, channel, covered, fetch>>
    /\ UNCHANGED <<topic, view, picker, skipped>>

-----------------------------------------------------------------------------
(* The page's socket (useLiveSeats) and its fetches.                       *)

Mounted == page \in {"open", "reserving"}

\* connect(), at first and two seconds after a close, to a pod itself: a WebSocket does
\* not get through lb-proxy, which strips Connection and Upgrade from every request.
\* Which of the pods the address leads to is open.
Connect(p) ==
    /\ Mounted /\ sock = None
    /\ sock' = p
    /\ skipped' = FALSE
    /\ UNCHANGED <<backend, channel, view, fetch, picker, faults, covered>>

SocketDrops ==
    /\ Mounted /\ sock # None
    /\ Fault
    /\ Disconnect
    /\ UNCHANGED <<backend, view, picker, skipped>>

\* socket.onmessage -> handleLiveUpdate: nothing to update before the first
\* fetch has returned; a seat that is taken is no longer selected.  A fetch in
\* flight will not know of a change newer than its snapshot.
HandleLiveUpdate ==
    /\ Mounted /\ channel # <<>>
    /\ LET i == Head(channel)
           change == Change(i)
       IN  /\ channel' = Tail(channel)
           /\ view' = IF view = NoView THEN view
                                       ELSE [view EXCEPT ![change.seat] = change.status]
           /\ selected' = IF change.status = "available" THEN selected
                                                         ELSE selected \ {change.seat}
           /\ fetch' = [f \in Fetches |->
                          [fetch[f] EXCEPT !.covered = @ /\ i <= fetch[f].at]]
    /\ UNCHANGED <<backend, sock, batch, page, won, faults, covered, skipped>>

\* The SELECT of listSeatsForEvent.
ReadSnapshot(f) ==
    /\ fetch[f].pc = "sent"
    /\ fetch' = [fetch EXCEPT ![f] =
          [pc |-> "returning", snap |-> [s \in Seats |-> StatusOf(s)],
           at |-> Len(topic), covered |-> sock # None /\ ~skipped]]
    /\ UNCHANGED <<backend, sock, channel, view, picker, faults, covered, skipped>>

\* .then(setSeats): a later snapshot may already be on the page.
FetchReturns(f) ==
    /\ Mounted
    /\ fetch[f].pc = "returning"
    /\ view' = fetch[f].snap
    /\ covered' = fetch[f].covered
    /\ fetch' = [fetch EXCEPT ![f] = NoFetch]
    /\ UNCHANGED <<backend, sock, channel, picker, faults, skipped>>

\* An error is shown; the page does not try again.
FetchFails(f) ==
    /\ Mounted
    /\ fetch[f].pc # "idle"
    /\ Fault
    /\ fetch' = [fetch EXCEPT ![f] = NoFetch]
    /\ UNCHANGED <<backend, sock, channel, view, picker, covered, skipped>>

-----------------------------------------------------------------------------
(* Picking and reserving.                                                  *)

\* toggleSeat: only a seat the map shows as available can be picked; a picked
\* one can always be put back.  (The limit of eight is left out.)
ToggleSeat(s) ==
    /\ Mounted
    /\ \/ s \in selected /\ selected' = selected \ {s}
       \/ /\ s \in DOMAIN view \ selected
          /\ view[s] = "available"
          /\ selected' = selected \cup {s}
    /\ UNCHANGED <<backend, sock, channel, view, fetch, batch, page, won, faults, covered, skipped>>

\* handleReserve: the batch is what is selected now.  Bound: a fetch is left for
\* the case that nothing can be reserved.
HandleReserve ==
    /\ page = "open" /\ selected # {}
    /\ \E f \in Fetches : fetch[f].pc = "idle"
    /\ page' = "reserving"
    /\ batch' = selected
    /\ won' = FALSE
    /\ UNCHANGED <<backend, sock, channel, view, fetch, selected, faults, covered, skipped>>

\* One reserveSeat() call: it takes the seat if it is available, and a booking
\* may be made although its answer is lost.
ReserveNext(s) ==
    /\ page = "reserving" /\ s \in batch
    /\ batch' = batch \ {s}
    /\ \/ /\ StatusOf(s) = "available"
          /\ topic' = Append(topic, [seat |-> s, status |-> "held"])
          /\ won' \in {TRUE, won}
       \/ UNCHANGED <<topic, won>>
    /\ UNCHANGED <<offset, sock, channel, view, fetch, selected, page, faults, covered, skipped>>

\* Nothing was reserved: clear the selection and fetch the seat map again.
ReservedNothing(f) ==
    /\ page = "reserving" /\ batch = {} /\ ~won
    /\ fetch[f].pc = "idle"
    /\ page' = "open"
    /\ selected' = {}
    /\ fetch' = [fetch EXCEPT ![f] = [NoFetch EXCEPT !.pc = "sent"]]
    /\ UNCHANGED <<backend, sock, channel, view, batch, won, faults, covered, skipped>>

\* navigate() to the checkout; unmounting closes the socket.
GoToCheckout ==
    /\ page = "reserving" /\ batch = {} /\ won
    /\ page' = "checkout"
    /\ Disconnect
    /\ UNCHANGED <<backend, view, selected, batch, won, faults, skipped>>

-----------------------------------------------------------------------------

Consume == \E p \in Pods : HandleCdcMessage(p)
Reconnect == \E p \in Pods : Connect(p)

Next ==
    \/ \E s \in Seats : \/ \E status \in Status : SomeoneChanges(s, status)
                        \/ ToggleSeat(s) \/ ReserveNext(s)
    \/ \E p \in Pods : HandleCdcMessage(p) \/ HandleCdcFails(p) \/ RestartPod(p) \/ Connect(p)
    \/ SocketDrops \/ HandleLiveUpdate
    \/ \E f \in Fetches : \/ ReadSnapshot(f) \/ FetchReturns(f) \/ FetchFails(f)
                          \/ ReservedNothing(f)
    \/ HandleReserve \/ GoToCheckout

Spec == Init /\ [][Next]_vars

-----------------------------------------------------------------------------
(* Properties.                                                             *)

\* The page is loaded and connected and nothing is under way to it.
Quiet ==
    /\ Mounted /\ view # NoView
    /\ sock # None /\ channel = <<>>
    /\ offset[sock] = Len(topic)

Current == \A s \in Seats : view[s] = StatusOf(s)

\* A page goes stale in four ways only: it fetched before its socket was open,
\* an update newer than the snapshot arrived before it, the socket dropped, or
\* a pod failed on a message.  Without them it shows the database as soon as it
\* has heard everything, however many old changes a restarted pod has repeated
\* to it on the way and in whatever order overlapping fetches have returned.
CoveredPageIsCurrent == covered /\ Quiet => Current

=============================================================================
