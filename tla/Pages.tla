-------------------------------- MODULE Pages --------------------------------
(***************************************************************************)
(* One browser tab of the frontend: the session (lib/auth.tsx), the routes *)
(* that need one (App.tsx), and the pages that show, confirm and cancel    *)
(* bookings (frontend/src/pages).  Their calls are under way while the     *)
(* user moves on, so answers reach pages that are no longer there, or that *)
(* show something else by now.                                             *)
(*                                                                         *)
(* The backend is one step per call: that its use cases are atomic is the  *)
(* subject of module Booking.  That step may come after the call has       *)
(* failed.  Holds expire, and other tabs and devices of the users act on   *)
(* the same bookings, at any time.  Pages that show no booking (home,      *)
(* catalog, seat picker, 404) are one, "public".                           *)
(***************************************************************************)
EXTENDS FiniteSets

CONSTANTS
    Users,
    Bookings,
    Owner,      \* Owner[b]: the user who makes booking b
    Slots,      \* handlers that may wait for answers together
    None

ASSUME OwnerAssumption == Owner \in [Bookings -> Users]
ASSUME NoneAssumption == None \notin Users

VARIABLES
    db,         \* db[b]: status of the booking, "none" before it is made
    paid,       \* history: b was confirmed "here", by a checkout page that was
                \* still there; "late", by such a page after its call had failed,
                \* and no checkout page has asked for b since; or "elsewhere"
    late,       \* confirmations of a checkout page whose call has failed, but
                \* whose handler in the backend runs on
    user,       \* the session: React state, token and all
    page,       \* where the tab is; "all" are the bookings a ticket was issued for
    back,       \* where the login page leads to
    view,       \* view[b]: status shown for booking b, "none" if it is not shown
    busy,       \* the buttons of the page are disabled
    call,       \* call[k]: a handler that waits for answers
    doubt,      \* history: since the page was opened a load of it failed, or two
                \* were under way together
    switched    \* history: since the page was opened a login answer changed the user

backend == <<db, paid, late>>
history == <<doubt, switched>>
vars == <<db, paid, late, user, page, back, view, busy, call, doubt, switched>>

\* To the pages a cancelled booking and an expired one are alike: "over".
Status == {"pending", "confirmed", "over"}
Protected == {"list", "detail", "review", "checkout", "ticket"}

At(name, ids) == [at |-> name, ids |-> ids, all |-> {}]
Ticket(b, all) == [at |-> "ticket", ids |-> {b}, all |-> all]
Public == At("public", {})
Login == At("login", {})

\* The locations a user can type.
Locations ==
    {Public, Login, At("list", {})}
    \cup {At(name, {b}) : name \in {"detail", "review", "ticket"}, b \in Bookings}
    \cup {At("checkout", ids) : ids \in SUBSET Bookings}

Page == [at : Protected \cup {"public", "login"}, ids : SUBSET Bookings,
         all : SUBSET Bookings]

NoView == [b \in Bookings |-> "none"]

Call == [kind : {"none", "load", "confirm", "cancel", "login"},
         by : Users \cup {None}, from : Page, attached : BOOLEAN,
         todo : SUBSET Bookings,
         got : [Bookings -> Status \cup {"none", "missing", "failed"}]]

\* attached: the page instance that made the call is still there.
NoCall == [kind |-> "none", by |-> None, from |-> Public, attached |-> FALSE,
           todo |-> {}, got |-> NoView]

TypeOK ==
    /\ db \in [Bookings -> Status \cup {"none"}]
    /\ paid \in [Bookings -> {"no", "here", "late", "elsewhere"}]
    /\ late \in SUBSET Bookings
    /\ user \in Users \cup {None}
    /\ page \in Page /\ back \in Page
    /\ view \in [Bookings -> Status \cup {"none"}]
    /\ busy \in BOOLEAN /\ doubt \in BOOLEAN /\ switched \in BOOLEAN
    /\ call \in [Slots -> Call]
    /\ page.at \in Protected => user # None
    /\ \A k \in Slots : call[k].kind = "none" <=> call[k] = NoCall

\* A tab that has just been opened by somebody who is not logged in.
Init ==
    /\ db = NoView
    /\ paid = [b \in Bookings |-> "no"]
    /\ late = {}
    /\ user = None
    /\ page = Public /\ back = Public
    /\ view = NoView
    /\ busy = FALSE /\ doubt = FALSE /\ switched = FALSE
    /\ call = [k \in Slots |-> NoCall]

-----------------------------------------------------------------------------
(* Navigation.                                                             *)

Free(calls, k) == calls[k].kind = "none"

\* The load of a page that has been opened or got other parameters.
Load(p, u) ==
    [kind |-> "load", by |-> u, from |-> At(p.at, p.ids), attached |-> TRUE,
     todo |-> IF p.at = "list" THEN Bookings ELSE p.ids, got |-> NoView]

Loading(calls) == \E k \in Slots : calls[k].kind = "load" /\ calls[k].attached

\* ProtectedRoute: without a session the login page comes instead ...  The
\* mutated form opens every page to everyone.
GuardedNot(p, u) == p
Guarded(p, u) == IF p.at \in Protected /\ u = None THEN Login ELSE p

\* ... and it leads back to the path of the page, without the query string.
PathOf(p) == At(p.at, IF p.at = "checkout" THEN {} ELSE p.ids)
BackFrom(p, u) ==
    IF p.at \in Protected /\ u = None THEN PathOf(p) ELSE Public

\* The page instance is gone.  Handlers go on, but what they set reaches nobody; of
\* the loads only those go on that may navigate.
Detached(calls) ==
    [k \in Slots |->
        IF calls[k].kind = "load" /\ calls[k].from.at \notin {"detail", "ticket"}
        THEN NoCall ELSE [calls[k] EXCEPT !.attached = FALSE]]

\* The router shows location p to user u.  A page of another kind is mounted
\* anew: its state is fresh, and the handlers of the former page have lost theirs.
\* One of the same kind keeps its state and loads again if its parameters differ.
Go(p, u, calls) ==
    LET q == Guarded(p, u)
        fresh == q.at # page.at
        kept == IF fresh THEN Detached(calls) ELSE calls
    IN  /\ page' = q /\ back' = BackFrom(p, u)
        /\ view' = IF fresh THEN NoView ELSE view
        /\ busy' = (busy /\ ~fresh)
        /\ switched' = (~fresh /\ (switched \/ u # user))
        /\ IF q.at \in Protected /\ (fresh \/ q.ids # page.ids)
           THEN /\ \E k \in Slots :
                     Free(kept, k) /\ call' = [kept EXCEPT ![k] = Load(q, u)]
                /\ doubt' = (~fresh /\ (doubt \/ Loading(kept)))
           ELSE /\ call' = kept
                /\ doubt' = (~fresh /\ doubt)

\* Links: the bar at the top, and the list of bookings.
FollowLink ==
    /\ \/ Go(Public, user, call)
       \/ user = None /\ Go(Login, user, call)
       \/ user # None /\ Go(At("list", {}), user, call)
       \/ /\ page.at = "list"
          /\ \E b \in Bookings :
                view[b] # "none" /\ Go(At("detail", {b}), user, call)
    /\ UNCHANGED <<backend, user>>

\* The browser's back and forward buttons, as far as they matter here: to a page
\* that was left while a button's handler of it is still under way.
BackOrForward ==
    /\ \E k \in Slots :
         /\ call[k].kind \in {"confirm", "cancel"} /\ ~call[k].attached
         /\ Go(call[k].from, user, call)
    /\ UNCHANGED <<backend, user>>

\* The tab is reloaded or a location typed.  The session is what the tabs of this
\* browser left in localStorage, and protected pages wait until it is known.  Handlers
\* under way would be gone without a trace; as any call may fail (Fail), nothing new
\* is reached by reloading before they have ended.
Reload(p, u) ==
    LET q == Guarded(p, u)
    IN  /\ \A k \in Slots : Free(call, k)
        /\ user' = u
        /\ page' = q /\ back' = BackFrom(p, u)
        /\ view' = NoView
        /\ busy' = FALSE /\ doubt' = FALSE /\ switched' = FALSE
        /\ \E first \in Slots :
             call' = [k \in Slots |-> IF k = first /\ q.at \in Protected
                                      THEN Load(q, u) ELSE NoCall]
        /\ UNCHANGED backend

\* handleReserve of the seat picker at its end, wherever the user has gone in the
\* meantime: one booking is reviewed, several are checked out, and so is one if
\* others could not be had.
Reserve ==
    /\ user # None
    /\ \E ids \in SUBSET {b \in Bookings : db[b] = "none" /\ Owner[b] = user} \ {{}} :
         /\ db' = [b \in Bookings |-> IF b \in ids THEN "pending" ELSE db[b]]
         /\ \/ Cardinality(ids) = 1 /\ Go(At("review", ids), user, call)
            \/ Go(At("checkout", ids), user, call)
    /\ UNCHANGED <<paid, late, user>>

-----------------------------------------------------------------------------
(* The session.                                                            *)

\* handleSubmit of the login page: a login or a registration.
Submit(k, u) ==
    /\ page.at = "login" /\ ~busy
    /\ Free(call, k)
    /\ call' = [call EXCEPT ![k] = [NoCall EXCEPT !.kind = "login", !.by = u,
                                    !.from = back, !.attached = TRUE]]
    /\ busy' = TRUE
    /\ UNCHANGED <<backend, user, page, back, view, history>>

Ended(k) == [call EXCEPT ![k] = NoCall]

\* setBusy(false) or setSubmitting(false), for which a handler has a finally.  The
\* mutated form has none.
StillBusyForever(k) == busy
StillBusy(k) == busy /\ ~call[k].attached

\* persist() and navigate(from), wherever the user has gone in the meantime.
LoggedIn(k) ==
    /\ call[k].kind = "login"
    /\ user' = call[k].by
    /\ Go(call[k].from, call[k].by, Ended(k))
    /\ UNCHANGED backend

LoginFails(k) ==
    /\ call[k].kind = "login"
    /\ call' = Ended(k)
    /\ busy' = StillBusy(k)
    /\ UNCHANGED <<backend, user, page, back, view, history>>

\* logout() and navigate("/").  The session ends before the navigation shows, so a
\* protected page may redirect to the login page in between, and that comes last.
Logout ==
    /\ user # None
    /\ user' = None
    /\ \E p \in {Public} \cup {q \in {page} : q.at \in Protected} : Go(p, None, call)
    /\ UNCHANGED backend

-----------------------------------------------------------------------------
(* The buttons.                                                            *)

Shown(status) == {b \in Bookings : view[b] \in status}

Send(k, kind, ids) ==
    /\ ~busy
    /\ Free(call, k)
    /\ ids # {}
    /\ call' = [call EXCEPT ![k] = [kind |-> kind, by |-> user, from |-> page,
                                    attached |-> TRUE, todo |-> ids, got |-> NoView]]
    /\ busy' = TRUE
    /\ UNCHANGED <<backend, user, page, back, view, history>>

\* handleConfirm and handleConfirmAll
Confirm(k) ==
    /\ page.at \in {"review", "detail", "checkout"}
    /\ Send(k, "confirm", Shown({"pending"}))

\* handleRelease and handleReleaseAll; handleCancel also cancels what is confirmed.
Cancel(k) ==
    \/ page.at \in {"review", "checkout"} /\ Send(k, "cancel", Shown({"pending"}))
    \/ page.at = "detail" /\ Send(k, "cancel", Shown({"pending", "confirmed"}))

-----------------------------------------------------------------------------
(* The backend's answers.                                                  *)

\* Every use case looks for the caller's own booking.  The mutated form looks for
\* the booking.
OwnedByAnyone(u, b) == db[b] # "none"
OwnedBy(u, b) == db[b] # "none" /\ Owner[b] = u

Confirms(c, b) == c.kind = "confirm" /\ OwnedBy(c.by, b) /\ db[b] = "pending"
Cancels(c, b) ==
    c.kind = "cancel" /\ OwnedBy(c.by, b) /\ db[b] \in {"pending", "confirmed"}

\* A checkout page that is still there waits for the answer.
AtCheckout(c) == c.from.at = "checkout" /\ c.attached

\* It asks again what became of b.
Rereads(c, b) == c.kind = "load" /\ AtCheckout(c) /\ OwnedBy(c.by, b)

Perform(c, b) ==
    /\ db' = [db EXCEPT ![b] = IF Confirms(c, b) THEN "confirmed"
                               ELSE IF Cancels(c, b) THEN "over" ELSE @]
    /\ paid' = [paid EXCEPT ![b] =
                   IF Confirms(c, b) THEN IF AtCheckout(c) THEN "here" ELSE "elsewhere"
                   ELSE IF Rereads(c, b) /\ @ = "late" THEN "here"
                   ELSE @]
    /\ late' = IF Confirms(c, b) \/ Cancels(c, b) THEN late \ {b} ELSE late

\* The call is given up (the connection broke, lb-proxy answered 502) while the
\* handler runs on: its deed, if it comes at all, comes later.  A late cancellation,
\* and a late confirmation of another page, are among what happens elsewhere.
RunsOn(c, b) ==
    /\ Confirms(c, b) /\ AtCheckout(c)
    /\ late' = late \cup {b}
    /\ UNCHANGED <<db, paid>>

\* The booking as it is then, or the error: 404 for a load, or any other.
Reply(c, b) ==
    IF c.kind = "load" THEN IF OwnedBy(c.by, b) THEN db[b] ELSE "missing"
    ELSE IF Confirms(c, b) THEN "confirmed"
    ELSE IF Cancels(c, b) THEN "over"
    ELSE "failed"

Answered(k, b, answer) ==
    [call EXCEPT ![k].todo = @ \ {b}, ![k].got[b] = answer]

Serve(k, b) ==
    /\ b \in call[k].todo /\ call[k].from.at # "list"
    /\ Perform(call[k], b)
    /\ call' = Answered(k, b, Reply(call[k], b))
    /\ UNCHANGED <<user, page, back, view, busy, history>>

\* No answer, or one of no use (429, 500, 502): after the deed, before it, or
\* without it.
Fail(k, b) ==
    /\ b \in call[k].todo /\ call[k].from.at # "list"
    /\ Perform(call[k], b) \/ RunsOn(call[k], b) \/ UNCHANGED backend
    /\ call' = Answered(k, b, "failed")
    /\ UNCHANGED <<user, page, back, view, busy, history>>

\* A handler whose call failed confirms the booking after all.  One that finds it
\* settled does nothing more.
LateConfirm(b) ==
    /\ b \in late
    /\ db' = [db EXCEPT ![b] = "confirmed"]
    /\ paid' = [paid EXCEPT ![b] = "late"]
    /\ late' = late \ {b}
    /\ UNCHANGED <<user, page, back, view, busy, call, history>>

\* listBookings() is one query.
ServeList(k) ==
    /\ call[k].todo # {} /\ call[k].from.at = "list"
    /\ \E got \in {[b \in Bookings |-> IF OwnedBy(call[k].by, b) THEN db[b] ELSE "none"],
                   [b \in Bookings |-> "failed"]} :
         call' = [call EXCEPT ![k] = [@ EXCEPT !.todo = {}, !.got = got]]
    /\ UNCHANGED <<backend, user, page, back, view, busy, history>>

\* The worker, or the users in other tabs and on other devices.
Elsewhere(b) ==
    /\ \/ /\ db[b] = "pending"
          /\ db' = [db EXCEPT ![b] = "confirmed"]
          /\ paid' = [paid EXCEPT ![b] = "elsewhere"]
       \/ /\ db[b] \in {"pending", "confirmed"}
          /\ db' = [db EXCEPT ![b] = "over"] /\ UNCHANGED paid
    /\ late' = late \ {b}
    /\ UNCHANGED <<user, page, back, view, busy, call, history>>

-----------------------------------------------------------------------------
(* The handlers go on when all their answers are there.                    *)

Settled(k, kind) == call[k].kind = kind /\ call[k].todo = {}
Got(k, answers) == {b \in Bookings : call[k].got[b] \in answers}
Loaded(k) == Got(k, {"missing", "failed"}) = {}

\* BookingDetailPage: a 404 leads to the page for that.
NotFoundLands(k) ==
    /\ Settled(k, "load") /\ call[k].from.at = "detail"
    /\ Got(k, {"missing"}) # {}
    /\ Go(Public, user, Ended(k))
    /\ UNCHANGED <<backend, user>>

\* TicketPage shows confirmed bookings; others lead to their details.
Unpaid(k) ==
    IF call[k].from.at = "ticket" THEN Got(k, Status \ {"confirmed"}) ELSE {}

UnpaidTicketLands(k) ==
    /\ Settled(k, "load")
    /\ \E b \in Unpaid(k) : Go(At("detail", {b}), user, Ended(k))
    /\ UNCHANGED <<backend, user>>

\* All other loads: setBookings() or setBooking(), or an error.
LoadLands(k) ==
    /\ Settled(k, "load") /\ Unpaid(k) = {}
    /\ call[k].from.at = "detail" => Got(k, {"missing"}) = {}
    /\ call' = Ended(k)
    /\ view' = IF call[k].attached /\ Loaded(k) THEN call[k].got ELSE view
    /\ doubt' = (doubt \/ (call[k].attached /\ ~Loaded(k)))
    /\ UNCHANGED <<backend, user, page, back, busy, switched>>

\* The confirmations that failed.  The mutated form gives up only if none succeeded.
FailuresIfNone(k) ==
    IF Got(k, {"confirmed"}) = {} THEN Got(k, {"failed"}) ELSE {}
Failures(k) == Got(k, {"failed"})

\* No failure: on to the ticket, wherever the user has gone in the meantime.
ConfirmedLands(k) ==
    /\ Settled(k, "confirm") /\ Failures(k) = {}
    /\ LET all == {b \in Bookings : call[k].got[b] # "none"}
       IN  \E b \in all : Go(Ticket(b, all), user, Ended(k))
    /\ UNCHANGED <<backend, user>>

\* Otherwise MultiCheckoutPage loads its bookings again.  The mutated form does not.
ReloadsNever(c) == FALSE
Reloads(c) == AtCheckout(c)

ConfirmFailedLands(k) ==
    /\ Settled(k, "confirm") /\ Failures(k) # {}
    /\ IF Reloads(call[k])
       THEN /\ call' = [call EXCEPT ![k] = Load(call[k].from, user)]
            /\ doubt' = (doubt \/ Loading(call))
       ELSE call' = Ended(k) /\ UNCHANGED doubt
    /\ busy' = StillBusy(k)
    /\ UNCHANGED <<backend, user, page, back, view, switched>>

\* handleRelease, if it succeeds, and handleReleaseAll in any case.
ReleasedLands(k) ==
    /\ Settled(k, "cancel")
    /\ \/ call[k].from.at = "checkout"
       \/ call[k].from.at = "review" /\ Failures(k) = {}
    /\ Go(Public, user, Ended(k))
    /\ UNCHANGED <<backend, user>>

\* handleCancel shows the answer.
CancelLands(k) ==
    /\ Settled(k, "cancel")
    /\ \/ call[k].from.at = "detail"
       \/ call[k].from.at = "review" /\ Failures(k) # {}
    /\ call' = Ended(k)
    /\ view' = IF call[k].attached /\ Failures(k) = {} THEN call[k].got ELSE view
    /\ busy' = StillBusy(k)
    /\ UNCHANGED <<backend, user, page, back, history>>

Lands(k) ==
    \/ NotFoundLands(k) \/ UnpaidTicketLands(k) \/ LoadLands(k)
    \/ ConfirmedLands(k) \/ ConfirmFailedLands(k)
    \/ ReleasedLands(k) \/ CancelLands(k)
    \/ LoggedIn(k) \/ LoginFails(k)

Answers(k) == ServeList(k) \/ \E b \in Bookings : Serve(k, b) \/ Fail(k, b)

Next ==
    \/ FollowLink \/ BackOrForward \/ Reserve \/ Logout
    \/ \E p \in Locations, u \in Users \cup {None} : Reload(p, u)
    \/ \E k \in Slots :
         \/ \E u \in Users : Submit(k, u)
         \/ Confirm(k) \/ Cancel(k)
         \/ Answers(k) \/ Lands(k)
    \/ \E b \in Bookings : Elsewhere(b) \/ LateConfirm(b)

Spec == Init /\ [][Next]_vars

-----------------------------------------------------------------------------
(* Properties.                                                             *)

\* "Booking confirmed": whatever answers were late, lost or overtaken, a ticket is
\* only shown for bookings that were confirmed, and a tab is only sent to it when all
\* the bookings it set out to confirm were.
TicketIsPaid ==
    \A b \in Bookings :
        (b \in page.all \/ (page.at = "ticket" /\ view[b] # "none")) => paid[b] # "no"

\* Pages show the bookings of the user who is logged in, also after other users of
\* the tab.
OnlyOwnBookings ==
    ~switched => \A b \in Bookings : view[b] # "none" => Owner[b] = user

\* MultiCheckoutPage makes up for answers it did not get: once it is at rest, no
\* booking confirmed by a checkout is offered there for confirmation again, unless
\* the confirmation came after its call had failed and the page had asked again.
OrderIsReread ==
    (page.at = "checkout" /\ ~busy /\ ~Loading(call) /\ ~doubt) =>
        \A b \in Bookings : view[b] = "pending" => paid[b] # "here"

\* The buttons of a page do not stay disabled: while they are, there is a handler of
\* this page under way that enables them.
DisabledForAReason ==
    busy => \E k \in Slots :
                call[k].kind \in {"confirm", "cancel", "login"} /\ call[k].attached
=============================================================================
