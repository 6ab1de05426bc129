----------------------------- MODULE PagesProofs -----------------------------
(***************************************************************************)
(* What holds of a tab for every set of users, bookings and handlers: its  *)
(* types, and all the properties that module Pages states.                 *)
(*                                                                         *)
(* The inductive invariant Inv says, of every handler, what its answers    *)
(* prove (Truth), that it still reaches only the kind of page that started *)
(* it (Attachment) and whose session it runs in (Session).  Most actions   *)
(* end in a navigation, so most of the proof is lemma GoKeeps.  OrderInv,  *)
(* inductive together with it, is about the checkout page alone.           *)
(***************************************************************************)
EXTENDS Pages, TLAPS

\* The pages with buttons.
ButtonPages == {"detail", "review", "checkout"}

\* Where a handler comes from.
Origin(c) ==
    /\ c.kind = "none" => c = NoCall
    /\ c.kind = "load" => c.from.at \in Protected
    /\ c.kind \in {"confirm", "cancel"} => c.from.at \in ButtonPages
    /\ c.kind = "login" => c.by \in Users /\ c.from.at # "login"

\* What its page and its answers prove.
Truth(c, pd) ==
    /\ \A b \in c.from.all : pd[b] # "no"
    /\ \A b \in Bookings :
        /\ c.got[b] = "confirmed" => pd[b] # "no"
        /\ c.got[b] \in Status => Owner[b] = c.by
        /\ c.kind = "confirm" => c.got[b] \in {"none", "confirmed", "failed"}
        /\ c.kind = "cancel" => c.got[b] \in {"none", "over", "failed"}

\* A handler that is attached belongs to a page of the kind that is shown ...
Attachment(c, at) ==
    c.attached => /\ c.kind = "login" => at = "login"
                  /\ c.kind # "login" => c.from.at = at

\* ... and to the session.
Session(c, u, dt) ==
    (c.attached /\ c.kind \in {"load", "cancel"} /\ ~dt) => c.by = u

CallOK(c, at, u, pd, dt) ==
    /\ c \in Call /\ Origin(c) /\ Truth(c, pd)
    /\ Attachment(c, at) /\ Session(c, u, dt)

CallsOK ==
    /\ call \in [Slots -> Call]
    /\ \A k \in Slots : CallOK(call[k], page.at, user, paid, switched)

BackendOK ==
    /\ db \in [Bookings -> Status \cup {"none"}]
    /\ paid \in [Bookings -> {"no", "here", "late", "elsewhere"}]
    /\ late \in SUBSET Bookings
    /\ \A b \in Bookings : db[b] = "confirmed" => paid[b] # "no"

PageOK ==
    /\ user \in Users \cup {None}
    /\ page \in Page /\ back \in Page
    /\ busy \in BOOLEAN /\ switched \in BOOLEAN
    /\ page.at \in Protected => user # None
    /\ back.at # "login" /\ back.all = {}
    /\ \A b \in page.all : paid[b] # "no"

ViewOK ==
    /\ view \in [Bookings -> Status \cup {"none"}]
    /\ \A b \in Bookings :
        /\ view[b] = "confirmed" => paid[b] # "no"
        /\ page.at = "ticket" => view[b] \in {"none", "confirmed"}
        /\ (~switched /\ view[b] # "none") => Owner[b] = user

Inv == CallsOK /\ BackendOK /\ PageOK /\ ViewOK /\ DisabledForAReason

-----------------------------------------------------------------------------
(* Handlers.                                                               *)

\* A free slot has nothing to answer for.
LEMMA NoCallOK ==
    ASSUME NEW at, NEW u, NEW pd, NEW dt
    PROVE  CallOK(NoCall, at, u, pd, dt)
<1>1. NoCall \in Call
    BY DEF NoCall, Call, Page, Public, At, Protected, NoView
<1>2. Origin(NoCall) /\ Attachment(NoCall, at) /\ Session(NoCall, u, dt)
    BY DEF NoCall, Origin, Attachment, Session
<1>3. Truth(NoCall, pd)
    BY DEF NoCall, NoView, Truth, Status, Public, At
<1> QED BY <1>1, <1>2, <1>3 DEF CallOK

\* A load that starts belongs to the page and to the session.
LEMMA LoadOK ==
    ASSUME NEW p \in Page, p.at \in Protected, NEW u \in Users \cup {None},
           NEW pd, NEW dt
    PROVE  CallOK(Load(p, u), p.at, u, pd, dt)
<1> DEFINE c == Load(p, u)
<1>1. /\ c.kind = "load" /\ c.by = u /\ c.from.at = p.at /\ c.attached = TRUE
      /\ c.got = NoView /\ c.from.all = {}
    BY DEF Load, At
<1>2. c \in Call
    <2>1. At(p.at, p.ids) \in Page
        BY DEF At, Page
    <2>2. (IF p.at = "list" THEN Bookings ELSE p.ids) \in SUBSET Bookings
        BY DEF Page
    <2> QED BY <2>1, <2>2 DEF Load, Call, NoView
<1> HIDE DEF c
<1>3. Origin(c) /\ Attachment(c, p.at) /\ Session(c, u, dt)
    BY <1>1 DEF Origin, Attachment, Session
<1>4. Truth(c, pd)
    BY <1>1 DEF Truth, NoView, Status
<1> QED BY <1>2, <1>3, <1>4 DEF CallOK, c

\* A handler whose page has gone keeps what it knows.
LEMMA DetachOK ==
    ASSUME NEW c, NEW at, NEW u, NEW pd, NEW dt, CallOK(c, at, u, pd, dt),
           NEW at2, NEW u2, NEW dt2
    PROVE  CallOK([c EXCEPT !.attached = FALSE], at2, u2, pd, dt2)
<1> DEFINE d == [c EXCEPT !.attached = FALSE]
<1>1. c \in Call /\ Origin(c) /\ Truth(c, pd)
    BY DEF CallOK
<1>2. /\ d.kind = c.kind /\ d.by = c.by /\ d.from = c.from /\ d.got = c.got
      /\ d.attached = FALSE /\ d \in Call
    BY <1>1 DEF Call
<1>3. d.kind = "none" => d = NoCall
    <2> SUFFICES ASSUME d.kind = "none" PROVE d = NoCall
        OBVIOUS
    <2>1. c = NoCall /\ c.attached = FALSE
        BY <1>1, <1>2 DEF Origin, NoCall
    <2>2. d = c
        BY <1>1, <2>1 DEF Call
    <2> QED BY <2>1, <2>2
<1> HIDE DEF d
<1>4. Origin(d) /\ Attachment(d, at2) /\ Session(d, u2, dt2)
    BY <1>1, <1>2, <1>3 DEF Origin, Attachment, Session
<1>5. Truth(d, pd)
    BY <1>1, <1>2 DEF Truth
<1> QED BY <1>2, <1>4, <1>5 DEF CallOK, d

\* Confirmations stay, and a change of user is remembered as long as the page stays.
LEMMA KeepOK ==
    ASSUME NEW c, NEW at, NEW u, NEW pd, NEW dt, CallOK(c, at, u, pd, dt),
           NEW u2, NEW pd2, NEW dt2,
           dt \in BOOLEAN, dt2 \in BOOLEAN,
           ~dt2 => (~dt /\ u2 = u),
           \A b \in Bookings : pd[b] # "no" => pd2[b] # "no"
    PROVE  CallOK(c, at, u2, pd2, dt2)
<1>1. c \in Call /\ Origin(c) /\ Truth(c, pd) /\ Attachment(c, at) /\ Session(c, u, dt)
    BY DEF CallOK
<1>2. Truth(c, pd2)
    <2>1. c.from.all \subseteq Bookings
        BY <1>1 DEF Call, Page
    <2> QED BY <1>1, <2>1 DEF Truth
<1>3. Session(c, u2, dt2)
    BY <1>1 DEF Session
<1> QED BY <1>1, <1>2, <1>3 DEF CallOK

-----------------------------------------------------------------------------
(* Navigation.                                                             *)

\* Where the router goes.
LEMMA GuardedPage ==
    ASSUME NEW p \in Page, NEW u \in Users \cup {None}
    PROVE  /\ Guarded(p, u) \in Page
           /\ Guarded(p, u).at \in Protected => u # None
           /\ u # None => Guarded(p, u) = p
           /\ Guarded(p, u).all \subseteq p.all
           /\ BackFrom(p, u) \in Page
           /\ BackFrom(p, u).at # "login" /\ BackFrom(p, u).all = {}
<1>1. Login \in Page /\ Login.at = "login" /\ Login.all = {} /\ Public \in Page
      /\ Public.at = "public" /\ Public.all = {}
    BY DEF Login, Public, At, Page
<1>2. PathOf(p) \in Page /\ PathOf(p).at = p.at /\ PathOf(p).all = {}
    BY DEF PathOf, At, Page
<1>3. "login" \notin Protected
    BY DEF Protected
<1>4. CASE p.at \in Protected /\ u = None
    BY <1>1, <1>2, <1>3, <1>4 DEF Guarded, BackFrom
<1>5. CASE ~(p.at \in Protected /\ u = None)
    BY <1>1, <1>5 DEF Guarded, BackFrom
<1> QED BY <1>4, <1>5

\* The page instance changes, and the handlers that are left then.
Fresh(p, u) == Guarded(p, u).at # page.at
Kept(p, u, calls) == IF Fresh(p, u) THEN Detached(calls) ELSE calls

\* What a navigation does, told apart by variable.
LEMMA GoEffect ==
    ASSUME NEW p, NEW u, NEW calls, switched \in BOOLEAN, Go(p, u, calls)
    PROVE  /\ page' = Guarded(p, u) /\ back' = BackFrom(p, u)
           /\ view' = IF Fresh(p, u) THEN NoView ELSE view
           /\ busy' = (busy /\ ~Fresh(p, u))
           /\ switched' \in BOOLEAN
           /\ ~switched' => (Fresh(p, u) \/ (~switched /\ u = user))
           /\ \/ call' = Kept(p, u, calls)
              \/ /\ Guarded(p, u).at \in Protected
                 /\ \E k \in Slots :
                      /\ Free(Kept(p, u, calls), k)
                      /\ call' = [Kept(p, u, calls) EXCEPT ![k] = Load(Guarded(p, u), u)]
<1> DEFINE q == Guarded(p, u)
           kept == Kept(p, u, calls)
           loads == q.at \in Protected /\ (Fresh(p, u) \/ q.ids # page.ids)
<1>1. /\ page' = q /\ back' = BackFrom(p, u)
      /\ view' = IF Fresh(p, u) THEN NoView ELSE view
      /\ busy' = (busy /\ ~Fresh(p, u))
      /\ switched' = (~Fresh(p, u) /\ (switched \/ u # user))
      /\ loads => \E k \in Slots : Free(kept, k) /\ call' = [kept EXCEPT ![k] = Load(q, u)]
      /\ ~loads => call' = kept
    BY DEF Go, Fresh, Kept
<1>2. CASE loads
    BY <1>1, <1>2
<1>3. CASE ~loads
    BY <1>1, <1>3
<1> QED BY <1>2, <1>3

\* Handlers survive a navigation with what they know.
LEMMA KeptOK ==
    ASSUME NEW p \in Page, NEW u \in Users \cup {None}, NEW calls \in [Slots -> Call],
           \A k \in Slots : CallOK(calls[k], page.at, user, paid, switched),
           switched \in BOOLEAN, NEW dt \in BOOLEAN,
           ~dt => (Fresh(p, u) \/ (~switched /\ u = user))
    PROVE  /\ Kept(p, u, calls) = [k \in Slots |-> Kept(p, u, calls)[k]]
           /\ \A k \in Slots : CallOK(Kept(p, u, calls)[k], Guarded(p, u).at, u, paid, dt)
<1>1. CASE Fresh(p, u)
    <2>1. Kept(p, u, calls) = Detached(calls)
        BY <1>1 DEF Kept
    <2>2. ASSUME NEW k \in Slots
          PROVE  CallOK(Detached(calls)[k], Guarded(p, u).at, u, paid, dt)
        <3>1. \/ Detached(calls)[k] = NoCall
              \/ Detached(calls)[k] = [calls[k] EXCEPT !.attached = FALSE]
            BY DEF Detached
        <3>2. CallOK([calls[k] EXCEPT !.attached = FALSE], Guarded(p, u).at, u, paid, dt)
            BY DetachOK
        <3> QED BY <3>1, <3>2, NoCallOK
    <2> QED BY <2>1, <2>2 DEF Detached
<1>2. CASE ~Fresh(p, u)
    <2>1. Kept(p, u, calls) = calls /\ Guarded(p, u).at = page.at /\ (~dt => (~switched /\ u = user))
        BY <1>2 DEF Kept, Fresh
    <2>2. ASSUME NEW k \in Slots
          PROVE  CallOK(calls[k], page.at, u, paid, dt)
        BY <2>1, KeepOK
    <2> QED BY <2>1, <2>2
<1> QED BY <1>1, <1>2

\* An enabling handler is under way, if the buttons of the page are disabled.
Enables(calls) ==
    \E k \in Slots :
        calls[k].kind \in {"confirm", "cancel", "login"} /\ calls[k].attached

\* A navigation keeps the invariant, provided that the handlers do that go on, that
\* a ticket is for confirmed bookings, and that the page stays only with a handler
\* that enables its buttons.
LEMMA GoKeeps ==
    ASSUME CallsOK, PageOK, ViewOK, BackendOK',
           NEW p \in Page, NEW u \in Users \cup {None}, NEW calls \in [Slots -> Call],
           \A k \in Slots : CallOK(calls[k], page.at, user, paid, switched),
           \A b \in p.all : paid[b] # "no",
           (busy /\ ~Fresh(p, u)) => Enables(calls),
           paid' = paid, user' = u,
           Go(p, u, calls)
    PROVE  Inv'
<1> DEFINE q == Guarded(p, u)
           kept == Kept(p, u, calls)
<1>1. switched \in BOOLEAN /\ busy \in BOOLEAN
    BY DEF PageOK
<1>2. /\ page' = q /\ back' = BackFrom(p, u)
      /\ view' = IF Fresh(p, u) THEN NoView ELSE view
      /\ busy' = (busy /\ ~Fresh(p, u))
      /\ switched' \in BOOLEAN
      /\ ~switched' => (Fresh(p, u) \/ (~switched /\ u = user))
      /\ \/ call' = kept
         \/ /\ q.at \in Protected
            /\ \E k \in Slots : Free(kept, k) /\ call' = [kept EXCEPT ![k] = Load(q, u)]
    BY <1>1, GoEffect
<1>3. /\ q \in Page
      /\ q.at \in Protected => u # None
      /\ q.all \subseteq p.all
      /\ BackFrom(p, u) \in Page
      /\ BackFrom(p, u).at # "login" /\ BackFrom(p, u).all = {}
    BY GuardedPage
<1>4. /\ kept = [k \in Slots |-> kept[k]]
      /\ \A k \in Slots : CallOK(kept[k], q.at, u, paid, switched')
    BY <1>1, <1>2, KeptOK
<1>5. CallsOK'
    <2>1. \A k \in Slots : call'[k] = kept[k] \/ (q.at \in Protected /\ call'[k] = Load(q, u))
        BY <1>2, <1>4
    <2>2. q.at \in Protected => CallOK(Load(q, u), q.at, u, paid, switched')
        BY <1>3, LoadOK
    <2>3. \A k \in Slots : CallOK(call'[k], q.at, u, paid, switched')
        BY <2>1, <2>2, <1>4
    <2>4. call' = [k \in Slots |-> call'[k]]
        BY <1>2, <1>4
    <2>5. \A k \in Slots : call'[k] \in Call
        BY <2>3 DEF CallOK
    <2> QED BY <1>2, <2>3, <2>4, <2>5 DEF CallsOK
<1>6. PageOK'
    BY <1>1, <1>2, <1>3 DEF PageOK
<1>7. ViewOK'
    <2>1. CASE Fresh(p, u)
        <3>1. view' = NoView
            BY <1>2, <2>1
        <3>2. NoView \in [Bookings -> Status \cup {"none"}] /\ \A b \in Bookings : NoView[b] = "none"
            BY DEF NoView
        <3> QED BY <3>1, <3>2 DEF ViewOK
    <2>2. CASE ~Fresh(p, u)
        <3>1. view' = view /\ page'.at = page.at /\ (~switched' => (~switched /\ u = user))
            BY <1>2, <2>2 DEF Fresh
        <3> QED BY <3>1 DEF ViewOK
    <2> QED BY <2>1, <2>2
<1>8. DisabledForAReason'
    <2> SUFFICES ASSUME busy' PROVE Enables(call')
        BY DEF DisabledForAReason, Enables
    <2>1. busy /\ ~Fresh(p, u) /\ kept = calls
        BY <1>1, <1>2 DEF Kept
    <2>2. PICK k \in Slots : kept[k].kind \in {"confirm", "cancel", "login"} /\ kept[k].attached
        BY <2>1 DEF Enables
    <2>3. call'[k] = kept[k]
        BY <1>2, <1>4, <2>2 DEF Free
    <2> QED BY <2>2, <2>3 DEF Enables
<1> QED BY <1>5, <1>6, <1>7, <1>8 DEF Inv

\* The pages that links and handlers lead to.
LEMMA PlainPages ==
    ASSUME NEW ids \in SUBSET Bookings
    PROVE  /\ Public \in Page /\ Login \in Page
           /\ \A name \in Protected : At(name, ids) \in Page /\ At(name, ids).all = {}
           /\ Public.all = {} /\ Login.all = {} /\ Public.at = "public"
BY DEF Public, Login, At, Page

\* The backend is as it was.
LEMMA BackendStays ==
    ASSUME BackendOK, UNCHANGED backend
    PROVE  BackendOK' /\ paid' = paid
BY DEF BackendOK, backend

\* A navigation that no handler ends with: links, history, reservations.
LEMMA LeaveKeeps ==
    ASSUME Inv, NEW p \in Page, \A b \in p.all : paid[b] # "no",
           NEW u \in Users \cup {None}, BackendOK', paid' = paid, user' = u, Go(p, u, call)
    PROVE  Inv'
<1>1. (busy /\ ~Fresh(p, u)) => Enables(call)
    BY DEF Inv, DisabledForAReason, Enables
<1>2. call \in [Slots -> Call] /\ \A k \in Slots : CallOK(call[k], page.at, user, paid, switched)
    BY DEF Inv, CallsOK
<1> QED BY <1>1, <1>2, GoKeeps DEF Inv

LEMMA FollowLinkKeeps ==
    ASSUME Inv, FollowLink
    PROVE  Inv'
<1>1. BackendOK' /\ paid' = paid /\ user' = user /\ user \in Users \cup {None}
    BY BackendStays DEF FollowLink, Inv, PageOK
<1>2. PICK p \in Page : p.all = {} /\ Go(p, user, call)
    BY PlainPages, {} \in SUBSET Bookings, \A b \in Bookings : {b} \in SUBSET Bookings
    DEF FollowLink, Protected
<1> QED BY <1>1, <1>2, LeaveKeeps

LEMMA BackOrForwardKeeps ==
    ASSUME Inv, BackOrForward
    PROVE  Inv'
<1>1. BackendOK' /\ paid' = paid /\ user' = user /\ user \in Users \cup {None}
    BY BackendStays DEF BackOrForward, Inv, PageOK
<1>2. PICK k \in Slots : Go(call[k].from, user, call) /\ call[k].kind \in {"confirm", "cancel"}
    BY DEF BackOrForward
<1>3. call[k].from \in Page /\ \A b \in call[k].from.all : paid[b] # "no"
    BY <1>2 DEF Inv, CallsOK, CallOK, Call, Truth
<1> QED BY <1>1, <1>2, <1>3, LeaveKeeps

LEMMA ReserveKeeps ==
    ASSUME Inv, Reserve
    PROVE  Inv'
<1>1. PICK ids \in SUBSET Bookings :
          /\ db' = [b \in Bookings |-> IF b \in ids THEN "pending" ELSE db[b]]
          /\ \/ Go(At("review", ids), user, call)
             \/ Go(At("checkout", ids), user, call)
    BY DEF Reserve
<1>2. paid' = paid /\ user' = user /\ user \in Users \cup {None}
    BY DEF Reserve, Inv, PageOK
<1>3. BackendOK'
    BY <1>1, <1>2 DEF Reserve, Inv, BackendOK, Status
<1>4. PICK p \in Page : p.all = {} /\ Go(p, user, call)
    BY <1>1, PlainPages DEF Protected
<1> QED BY <1>2, <1>3, <1>4, LeaveKeeps

LEMMA LogoutKeeps ==
    ASSUME Inv, Logout
    PROVE  Inv'
<1>1. BackendOK' /\ paid' = paid /\ user' = None
    BY BackendStays DEF Logout, Inv
<1>2. PICK p \in {Public, page} : Go(p, None, call)
    BY DEF Logout
<1>3. p \in Page /\ \A b \in p.all : paid[b] # "no"
    BY PlainPages, {} \in SUBSET Bookings DEF Inv, PageOK
<1> QED BY <1>1, <1>2, <1>3, LeaveKeeps

\* Where a handler ends, the others are as they were.
LEMMA EndedOK ==
    ASSUME CallsOK, NEW k \in Slots
    PROVE  /\ Ended(k) \in [Slots -> Call]
           /\ \A j \in Slots : CallOK(Ended(k)[j], page.at, user, paid, switched)
           /\ \A j \in Slots : j # k => Ended(k)[j] = call[j]
<1>1. NoCall \in Call /\ CallOK(NoCall, page.at, user, paid, switched)
    BY NoCallOK DEF CallOK
<1> QED BY <1>1 DEF Ended, CallsOK

\* It may be the one that enables the buttons only if the page goes or it does so.
LEMMA OthersEnable ==
    ASSUME Inv, NEW k \in Slots, busy,
           ~(call[k].kind \in {"confirm", "cancel", "login"} /\ call[k].attached)
    PROVE  Enables(Ended(k))
<1>1. PICK j \in Slots : call[j].kind \in {"confirm", "cancel", "login"} /\ call[j].attached
    BY DEF Inv, DisabledForAReason
<1>2. j # k /\ Ended(k)[j] = call[j]
    BY <1>1, EndedOK DEF Inv
<1> QED BY <1>1, <1>2 DEF Enables

\* A handler that ends with a navigation.
LEMMA LandKeeps ==
    ASSUME Inv, NEW k \in Slots, NEW p \in Page, \A b \in p.all : paid[b] # "no",
           NEW u \in Users \cup {None}, BackendOK', paid' = paid, user' = u,
           (call[k].kind \in {"confirm", "cancel", "login"} /\ call[k].attached)
               => Fresh(p, u),
           Go(p, u, Ended(k))
    PROVE  Inv'
<1>1. (busy /\ ~Fresh(p, u)) => Enables(Ended(k))
    BY OthersEnable
<1> QED BY <1>1, EndedOK, GoKeeps DEF Inv

LEMMA NotFoundLandsKeeps ==
    ASSUME Inv, NEW k \in Slots, NotFoundLands(k)
    PROVE  Inv'
<1>1. BackendOK' /\ paid' = paid /\ user' = user /\ user \in Users \cup {None}
    BY BackendStays DEF NotFoundLands, Inv, PageOK
<1>2. call[k].kind = "load" /\ Go(Public, user, Ended(k))
    BY DEF NotFoundLands, Settled
<1>3. Public \in Page /\ Public.all = {}
    BY PlainPages, {} \in SUBSET Bookings
<1> QED BY <1>1, <1>2, <1>3, LandKeeps

LEMMA UnpaidTicketLandsKeeps ==
    ASSUME Inv, NEW k \in Slots, UnpaidTicketLands(k)
    PROVE  Inv'
<1>1. BackendOK' /\ paid' = paid /\ user' = user /\ user \in Users \cup {None}
    BY BackendStays DEF UnpaidTicketLands, Inv, PageOK
<1>2. PICK b \in Bookings : Go(At("detail", {b}), user, Ended(k))
    BY DEF UnpaidTicketLands, Unpaid, Got
<1>3. call[k].kind = "load"
    BY DEF UnpaidTicketLands, Settled
<1>4. At("detail", {b}) \in Page /\ At("detail", {b}).all = {}
    BY PlainPages DEF Protected
<1> QED BY <1>1, <1>2, <1>3, <1>4, LandKeeps

\* The order: a ticket follows from confirmations only, and the checkout is left for it.
LEMMA ConfirmedLandsKeeps ==
    ASSUME Inv, NEW k \in Slots, ConfirmedLands(k)
    PROVE  Inv'
<1> DEFINE all == {b \in Bookings : call[k].got[b] # "none"}
<1>1. BackendOK' /\ paid' = paid /\ user' = user /\ user \in Users \cup {None}
    BY BackendStays DEF ConfirmedLands, Inv, PageOK
<1>2. PICK b \in all : Go(Ticket(b, all), user, Ended(k))
    BY DEF ConfirmedLands
<1>3. /\ call[k].kind = "confirm" /\ CallOK(call[k], page.at, user, paid, switched)
      /\ \A x \in Bookings : call[k].got[x] # "failed"
    BY DEF ConfirmedLands, Settled, Failures, Got, Inv, CallsOK
<1>4. \A x \in all : paid[x] # "no"
    BY <1>3 DEF CallOK, Truth
<1>5. /\ Ticket(b, all) \in Page /\ Ticket(b, all).all = all /\ Ticket(b, all).at = "ticket"
    BY <1>2 DEF Ticket, Page, Protected
<1>6. call[k].attached => page.at \in ButtonPages
    BY <1>3 DEF CallOK, Origin, Attachment
<1>7. user # None => Guarded(Ticket(b, all), user).at = "ticket"
    BY <1>1, <1>5, GuardedPage
<1>8. call[k].attached => Fresh(Ticket(b, all), user)
    <2>1. page.at \in ButtonPages => (user # None /\ page.at # "ticket")
        BY DEF Inv, PageOK, ButtonPages, Protected
    <2> QED BY <1>6, <1>7, <2>1 DEF Fresh
<1> HIDE DEF all
<1> QED BY <1>1, <1>2, <1>4, <1>5, <1>8, LandKeeps

LEMMA ReleasedLandsKeeps ==
    ASSUME Inv, NEW k \in Slots, ReleasedLands(k)
    PROVE  Inv'
<1>1. BackendOK' /\ paid' = paid /\ user' = user /\ user \in Users \cup {None}
    BY BackendStays DEF ReleasedLands, Inv, PageOK
<1>2. call[k].kind = "cancel" /\ Go(Public, user, Ended(k))
    BY DEF ReleasedLands, Settled
<1>3. Public \in Page /\ Public.all = {} /\ Public.at = "public"
    BY PlainPages, {} \in SUBSET Bookings
<1>4. call[k].attached => page.at \in ButtonPages
    BY <1>2 DEF Inv, CallsOK, CallOK, Origin, Attachment
<1>5. Guarded(Public, user).at = "public"
    BY <1>3 DEF Guarded, Protected
<1>6. call[k].attached => Fresh(Public, user)
    BY <1>4, <1>5 DEF Fresh, ButtonPages
<1> QED BY <1>1, <1>2, <1>3, <1>6, LandKeeps

LEMMA LoggedInKeeps ==
    ASSUME Inv, NEW k \in Slots, LoggedIn(k)
    PROVE  Inv'
<1>1. BackendOK' /\ paid' = paid
    BY BackendStays DEF LoggedIn, Inv
<1>2. /\ call[k].kind = "login" /\ user' = call[k].by
      /\ Go(call[k].from, call[k].by, Ended(k))
    BY DEF LoggedIn
<1>3. CallOK(call[k], page.at, user, paid, switched) /\ call[k].from \in Page
    BY DEF Inv, CallsOK, Call
<1>4. /\ call[k].by \in Users /\ call[k].from.at # "login"
      /\ \A b \in call[k].from.all : paid[b] # "no"
      /\ call[k].attached => page.at = "login"
    BY <1>2, <1>3 DEF CallOK, Origin, Truth, Attachment
<1>5. call[k].by # None /\ Guarded(call[k].from, call[k].by) = call[k].from
    BY <1>3, <1>4, NoneAssumption, GuardedPage
<1>6. call[k].attached => Fresh(call[k].from, call[k].by)
    BY <1>4, <1>5 DEF Fresh
<1> QED BY <1>1, <1>2, <1>3, <1>4, <1>6, LandKeeps

\* A reload begins anew, with whatever session the browser has.
LEMMA ReloadKeeps ==
    ASSUME Inv, NEW p \in Locations, NEW u \in Users \cup {None}, Reload(p, u)
    PROVE  Inv'
<1> DEFINE q == Guarded(p, u)
<1>1. BackendOK' /\ paid' = paid
    BY BackendStays DEF Reload, Inv
<1>2. /\ user' = u /\ page' = q /\ back' = BackFrom(p, u)
      /\ view' = NoView /\ busy' = FALSE /\ switched' = FALSE
      /\ \E first \in Slots :
           call' = [k \in Slots |-> IF k = first /\ q.at \in Protected
                                    THEN Load(q, u) ELSE NoCall]
    BY DEF Reload
<1>3. p \in Page /\ p.all = {}
    BY DEF Locations, Page, Public, Login, At, Protected
<1>4. /\ q \in Page
      /\ q.at \in Protected => u # None
      /\ q.all = {}
      /\ BackFrom(p, u) \in Page
      /\ BackFrom(p, u).at # "login" /\ BackFrom(p, u).all = {}
    BY <1>3, GuardedPage
<1>5. CallsOK'
    <2>1. q.at \in Protected => CallOK(Load(q, u), q.at, u, paid, FALSE)
        BY <1>4, LoadOK
    <2>2. CallOK(NoCall, q.at, u, paid, FALSE)
        BY NoCallOK
    <2>3. /\ call' = [k \in Slots |-> call'[k]]
          /\ \A k \in Slots : call'[k] = NoCall \/ (q.at \in Protected /\ call'[k] = Load(q, u))
        BY <1>2
    <2>4. \A k \in Slots : CallOK(call'[k], q.at, u, paid, FALSE)
        BY <2>1, <2>2, <2>3
    <2>5. \A k \in Slots : call'[k] \in Call
        BY <2>4 DEF CallOK
    <2> QED BY <1>1, <1>2, <2>3, <2>4, <2>5 DEF CallsOK
<1>6. PageOK'
    BY <1>1, <1>2, <1>4 DEF PageOK
<1>7. ViewOK'
    <2>1. NoView \in [Bookings -> Status \cup {"none"}] /\ \A b \in Bookings : NoView[b] = "none"
        BY DEF NoView
    <2> QED BY <1>2, <2>1 DEF ViewOK
<1>8. DisabledForAReason'
    BY <1>2 DEF DisabledForAReason
<1> QED BY <1>1, <1>5, <1>6, <1>7, <1>8 DEF Inv

-----------------------------------------------------------------------------
(* Steps without navigation.                                               *)

\* What is shown stays true.
LEMMA ViewStays ==
    ASSUME ViewOK, BackendOK, UNCHANGED <<user, page, view>>,
           switched \in BOOLEAN, switched' \in BOOLEAN, ~switched' => ~switched,
           \A b \in Bookings : paid[b] # "no" => paid'[b] # "no"
    PROVE  ViewOK'
<1>1. user' = user /\ page' = page /\ view' = view
    OBVIOUS
<1> QED BY <1>1 DEF ViewOK

\* The invariant after a step that does not navigate.
LEMMA StayKeeps ==
    ASSUME Inv, UNCHANGED <<user, page, back>>, BackendOK',
           \A b \in Bookings : paid[b] # "no" => paid'[b] # "no",
           call' \in [Slots -> Call],
           \A k \in Slots : CallOK(call'[k], page.at, user, paid', switched'),
           ViewOK', switched' \in BOOLEAN, busy' \in BOOLEAN,
           busy' => Enables(call')
    PROVE  Inv'
<1>1. user' = user /\ page' = page /\ back' = back
    OBVIOUS
<1>2. CallsOK'
    BY <1>1 DEF CallsOK
<1>3. PageOK'
    <2>1. page.all \subseteq Bookings
        BY DEF Inv, PageOK, Page
    <2> QED BY <1>1, <2>1 DEF Inv, PageOK
<1>4. DisabledForAReason'
    BY DEF DisabledForAReason, Enables
<1> QED BY <1>2, <1>3, <1>4 DEF Inv

\* The handler in slot k has become c; the others are as they were.
LEMMA CallBecomes ==
    ASSUME Inv, NEW k \in Slots, NEW c, CallOK(c, page.at, user, paid, switched),
           call' = [call EXCEPT ![k] = c], switched' = switched
    PROVE  /\ call' \in [Slots -> Call]
           /\ \A j \in Slots : CallOK(call'[j], page.at, user, paid, switched')
           /\ call'[k] = c /\ \A j \in Slots : j # k => call'[j] = call[j]
<1>1. c \in Call
    BY DEF CallOK
<1> QED BY <1>1 DEF Inv, CallsOK

LEMMA SubmitKeeps ==
    ASSUME Inv, NEW k \in Slots, NEW u \in Users, Submit(k, u)
    PROVE  Inv'
<1> DEFINE c == [NoCall EXCEPT !.kind = "login", !.by = u, !.from = back, !.attached = TRUE]
<1>1. /\ page.at = "login" /\ call' = [call EXCEPT ![k] = c] /\ busy' = TRUE
      /\ UNCHANGED backend /\ paid' = paid /\ user' = user /\ page' = page /\ back' = back
      /\ view' = view /\ switched' = switched
    BY DEF Submit, backend, history
<1>2. /\ c \in Call /\ c.kind = "login" /\ c.by = u /\ c.from = back /\ c.attached = TRUE
      /\ c.got = NoView
    BY DEF Inv, PageOK, NoCall, Call, NoView
<1>3. CallOK(c, page.at, user, paid, switched)
    <2> HIDE DEF c
    <2>1. back.at # "login" /\ back.all = {}
        BY DEF Inv, PageOK
    <2>2. Origin(c) /\ Attachment(c, page.at) /\ Session(c, user, switched)
        BY <1>1, <1>2, <2>1 DEF Origin, Attachment, Session
    <2>3. Truth(c, paid)
        BY <1>2, <2>1 DEF Truth, NoView, Status
    <2> QED BY <1>2, <2>2, <2>3 DEF CallOK
<1> HIDE DEF c
<1>4. /\ call' \in [Slots -> Call]
      /\ \A j \in Slots : CallOK(call'[j], page.at, user, paid, switched')
      /\ call'[k] = c
    BY <1>1, <1>3, CallBecomes
<1>5. BackendOK' /\ ViewOK' /\ switched' \in BOOLEAN
    BY <1>1, BackendStays, ViewStays DEF Inv, PageOK, backend
<1>6. Enables(call')
    BY <1>2, <1>4 DEF Enables
<1> QED BY <1>1, <1>4, <1>5, <1>6, StayKeeps

LEMMA SendKeeps ==
    ASSUME Inv, NEW k \in Slots, NEW kind \in {"confirm", "cancel"},
           NEW ids \in SUBSET Bookings, page.at \in ButtonPages, Send(k, kind, ids)
    PROVE  Inv'
<1> DEFINE c == [kind |-> kind, by |-> user, from |-> page, attached |-> TRUE,
                 todo |-> ids, got |-> NoView]
<1>1. /\ call' = [call EXCEPT ![k] = c] /\ busy' = TRUE
      /\ UNCHANGED backend /\ paid' = paid /\ user' = user /\ page' = page /\ back' = back
      /\ view' = view /\ switched' = switched
    BY DEF Send, backend, history
<1>2. /\ c \in Call /\ c.kind = kind /\ c.by = user /\ c.from = page /\ c.attached = TRUE
      /\ c.got = NoView
    BY DEF Inv, PageOK, Call, NoView
<1>3. CallOK(c, page.at, user, paid, switched)
    <2> HIDE DEF c
    <2>1. Origin(c) /\ Attachment(c, page.at) /\ Session(c, user, switched)
        BY <1>2 DEF Origin, Attachment, Session
    <2>2. Truth(c, paid)
        <3>1. \A b \in page.all : paid[b] # "no"
            BY DEF Inv, PageOK
        <3> QED BY <1>2, <3>1 DEF Truth, NoView, Status
    <2> QED BY <1>2, <2>1, <2>2 DEF CallOK
<1> HIDE DEF c
<1>4. /\ call' \in [Slots -> Call]
      /\ \A j \in Slots : CallOK(call'[j], page.at, user, paid, switched')
      /\ call'[k] = c
    BY <1>1, <1>3, CallBecomes
<1>5. BackendOK' /\ ViewOK' /\ switched' \in BOOLEAN
    BY <1>1, BackendStays, ViewStays DEF Inv, PageOK, backend
<1>6. Enables(call')
    BY <1>2, <1>4 DEF Enables
<1> QED BY <1>1, <1>4, <1>5, <1>6, StayKeeps

LEMMA ButtonsKeep ==
    ASSUME Inv, NEW k \in Slots, Confirm(k) \/ Cancel(k)
    PROVE  Inv'
<1>1. PICK kind \in {"confirm", "cancel"}, status \in SUBSET Status :
          page.at \in ButtonPages /\ Send(k, kind, Shown(status))
    BY DEF Confirm, Cancel, ButtonPages, Status
<1>2. Shown(status) \in SUBSET Bookings
    BY DEF Shown
<1> QED BY <1>1, <1>2, SendKeeps

-----------------------------------------------------------------------------
(* Answers.                                                                *)

\* What the backend does is a confirmation, with its trace, or none.
LEMMA PerformOK ==
    ASSUME BackendOK, NEW c, NEW b \in Bookings, Perform(c, b)
    PROVE  /\ BackendOK'
           /\ \A x \in Bookings : paid[x] # "no" => paid'[x] # "no"
           /\ Confirms(c, b) => paid'[b] # "no"
<1> DEFINE after == IF Confirms(c, b) THEN "confirmed"
                    ELSE IF Cancels(c, b) THEN "over" ELSE db[b]
           trace == IF Confirms(c, b) THEN IF AtCheckout(c) THEN "here" ELSE "elsewhere"
                    ELSE IF Rereads(c, b) /\ paid[b] = "late" THEN "here"
                    ELSE paid[b]
<1>1. /\ db' = [db EXCEPT ![b] = after] /\ paid' = [paid EXCEPT ![b] = trace]
      /\ late' \in SUBSET Bookings
    BY DEF Perform, BackendOK
<1>2. /\ after \in Status \cup {"none"} /\ trace \in {"no", "here", "late", "elsewhere"}
      /\ after = "confirmed" => trace # "no"
      /\ paid[b] # "no" => trace # "no"
      /\ Confirms(c, b) => trace # "no"
    BY DEF BackendOK, Status
<1> HIDE DEF after, trace
<1>3. /\ \A x \in Bookings : x # b => (db'[x] = db[x] /\ paid'[x] = paid[x])
      /\ db'[b] = after /\ paid'[b] = trace
      /\ db' \in [Bookings -> Status \cup {"none"}]
      /\ paid' \in [Bookings -> {"no", "here", "late", "elsewhere"}]
    BY <1>1, <1>2 DEF BackendOK
<1> QED BY <1>1, <1>2, <1>3 DEF BackendOK

\* A handler that runs on has not done anything yet.
LEMMA RunsOnOK ==
    ASSUME BackendOK, NEW c, NEW b \in Bookings, RunsOn(c, b)
    PROVE  BackendOK' /\ paid' = paid
BY DEF RunsOn, BackendOK

\* An answer changes what a handler has yet to do, and what it got.
LEMMA AnsweredEffect ==
    ASSUME CallsOK, NEW k \in Slots, NEW b \in Bookings,
           NEW answer \in Status \cup {"none", "missing", "failed"}
    PROVE  /\ Answered(k, b, answer) \in [Slots -> Call]
           /\ \A j \in Slots : j # k => Answered(k, b, answer)[j] = call[j]
           /\ Answered(k, b, answer)[k].kind = call[k].kind
           /\ Answered(k, b, answer)[k].by = call[k].by
           /\ Answered(k, b, answer)[k].from = call[k].from
           /\ Answered(k, b, answer)[k].attached = call[k].attached
           /\ Answered(k, b, answer)[k].got = [call[k].got EXCEPT ![b] = answer]
BY DEF CallsOK, Answered, Call

LEMMA AnswerKeeps ==
    ASSUME Inv, NEW k \in Slots, NEW b \in call[k].todo,
           NEW answer \in Status \cup {"none", "missing", "failed"},
           call' = Answered(k, b, answer),
           BackendOK', \A x \in Bookings : paid[x] # "no" => paid'[x] # "no",
           answer = "confirmed" => paid'[b] # "no",
           answer \in Status => Owner[b] = call[k].by,
           call[k].kind = "confirm" => answer \in {"confirmed", "failed"},
           call[k].kind = "cancel" => answer \in {"over", "failed"},
           UNCHANGED <<user, page, back, view, busy, switched>>
    PROVE  Inv'
<1> DEFINE c == call[k]
           d == call'[k]
<1>1. switched' = switched /\ switched \in BOOLEAN /\ busy' = busy /\ busy \in BOOLEAN
    BY DEF Inv, PageOK
<1>2. \A j \in Slots : CallOK(call[j], page.at, user, paid', switched')
    BY <1>1, KeepOK DEF Inv, CallsOK
<1>3. c \in Call /\ b \in Bookings
    BY DEF Inv, CallsOK, Call
<1>4. /\ call' \in [Slots -> Call]
      /\ \A j \in Slots : j # k => call'[j] = call[j]
      /\ d.kind = c.kind /\ d.by = c.by /\ d.from = c.from /\ d.attached = c.attached
      /\ d.got = [c.got EXCEPT ![b] = answer]
    BY <1>3, AnsweredEffect DEF Inv
<1>5. CallOK(d, page.at, user, paid', switched')
    <2>1. /\ Origin(c) /\ Truth(c, paid') /\ Attachment(c, page.at)
          /\ Session(c, user, switched')
        BY <1>2 DEF CallOK
    <2>2. c.kind # "none"
        BY <2>1 DEF Origin, NoCall
    <2>3. d \in Call
        BY <1>4
    <2>4. Origin(d) /\ Attachment(d, page.at) /\ Session(d, user, switched')
        BY <1>4, <2>1, <2>2 DEF Origin, Attachment, Session
    <2>5. \A x \in Bookings : d.got[x] = IF x = b THEN answer ELSE c.got[x]
        BY <1>3, <1>4 DEF Call
    <2> HIDE DEF d
    <2>6. Truth(d, paid')
        BY <1>3, <1>4, <2>1, <2>5 DEF Truth
    <2> QED BY <2>3, <2>4, <2>6 DEF CallOK
<1>6. \A j \in Slots : CallOK(call'[j], page.at, user, paid', switched')
    BY <1>2, <1>4, <1>5
<1>7. busy' => Enables(call')
    <2> SUFFICES ASSUME busy PROVE Enables(call')
        BY <1>1
    <2>1. PICK j \in Slots : call[j].kind \in {"confirm", "cancel", "login"} /\ call[j].attached
        BY DEF Inv, DisabledForAReason
    <2>2. call'[j].kind = call[j].kind /\ call'[j].attached = call[j].attached
        BY <1>4
    <2> QED BY <2>1, <2>2 DEF Enables
<1>8. ViewOK'
    BY <1>1, ViewStays DEF Inv
<1> QED BY <1>1, <1>4, <1>6, <1>7, <1>8, StayKeeps

LEMMA ServeKeeps ==
    ASSUME Inv, NEW k \in Slots, NEW b \in Bookings, Serve(k, b)
    PROVE  Inv'
<1> DEFINE answer == Reply(call[k], b)
<1>1. /\ b \in call[k].todo /\ Perform(call[k], b) /\ call' = Answered(k, b, answer)
      /\ UNCHANGED <<user, page, back, view, busy, switched>>
    BY DEF Serve, history
<1>2. /\ BackendOK' /\ \A x \in Bookings : paid[x] # "no" => paid'[x] # "no"
      /\ Confirms(call[k], b) => paid'[b] # "no"
    BY <1>1, PerformOK DEF Inv
<1>3. /\ answer \in Status \cup {"none", "missing", "failed"}
      /\ answer = "confirmed" => paid'[b] # "no"
    BY <1>2 DEF Reply, OwnedBy, Inv, BackendOK, Status
<1>4. answer \in Status => Owner[b] = call[k].by
    BY DEF Reply, OwnedBy, Confirms, Cancels, Status
<1>5. call[k].kind = "confirm" => answer \in {"confirmed", "failed"}
    BY DEF Reply, Cancels
<1>6. call[k].kind = "cancel" => answer \in {"over", "failed"}
    BY DEF Reply, Confirms
<1> HIDE DEF answer
<1> QED BY <1>1, <1>2, <1>3, <1>4, <1>5, <1>6, AnswerKeeps

LEMMA FailKeeps ==
    ASSUME Inv, NEW k \in Slots, NEW b \in Bookings, Fail(k, b)
    PROVE  Inv'
<1>1. /\ b \in call[k].todo
      /\ Perform(call[k], b) \/ RunsOn(call[k], b) \/ UNCHANGED backend
      /\ call' = Answered(k, b, "failed")
      /\ UNCHANGED <<user, page, back, view, busy, switched>>
    BY DEF Fail, history
<1>2. BackendOK' /\ \A x \in Bookings : paid[x] # "no" => paid'[x] # "no"
    BY <1>1, PerformOK, RunsOnOK, BackendStays DEF Inv
<1> QED BY <1>1, <1>2, AnswerKeeps DEF Status

\* Handlers that are as they were but for answers still enable what they enabled.
LEMMA StillEnables ==
    ASSUME Inv, busy,
           \A j \in Slots : call'[j].kind = call[j].kind /\ call'[j].attached = call[j].attached
    PROVE  Enables(call')
BY DEF Inv, DisabledForAReason, Enables

LEMMA ServeListKeeps ==
    ASSUME Inv, NEW k \in Slots, ServeList(k)
    PROVE  Inv'
<1> DEFINE c == call[k]
           owned == [b \in Bookings |-> IF OwnedBy(c.by, b) THEN db[b] ELSE "none"]
<1>1. PICK got \in {owned, [b \in Bookings |-> "failed"]} :
          call' = [call EXCEPT ![k] = [c EXCEPT !.todo = {}, !.got = got]]
    BY DEF ServeList
<1>2. /\ c.todo # {} /\ c.from.at = "list"
      /\ UNCHANGED backend /\ paid' = paid /\ user' = user /\ page' = page /\ back' = back
      /\ view' = view /\ busy' = busy /\ switched' = switched
    BY DEF ServeList, backend, history
<1>3. /\ got \in [Bookings -> Status \cup {"none", "missing", "failed"}]
      /\ \A b \in Bookings : /\ got[b] = "confirmed" => paid[b] # "no"
                             /\ got[b] \in Status => Owner[b] = c.by
    BY DEF Inv, BackendOK, OwnedBy, Status
<1> HIDE DEF owned
<1>4. CallOK(c, page.at, user, paid, switched)
    BY DEF Inv, CallsOK
<1>5. /\ call' \in [Slots -> Call]
      /\ \A j \in Slots : j # k => call'[j] = call[j]
      /\ call'[k].kind = c.kind /\ call'[k].by = c.by /\ call'[k].from = c.from
      /\ call'[k].attached = c.attached /\ call'[k].got = got
    <2> DEFINE d == [c EXCEPT !.todo = {}, !.got = got]
    <2>1. c \in Call /\ call \in [Slots -> Call]
        BY DEF Inv, CallsOK
    <2>2. /\ d \in Call /\ d.kind = c.kind /\ d.by = c.by /\ d.from = c.from
          /\ d.attached = c.attached /\ d.got = got
        BY <1>3, <2>1 DEF Call
    <2>3. call' = [call EXCEPT ![k] = d]
        BY <1>1
    <2> HIDE DEF c, d
    <2> QED BY <2>1, <2>2, <2>3
<1>6. CallOK(call'[k], page.at, user, paid, switched)
    <2> DEFINE d == call'[k]
    <2>1. Origin(c) /\ Truth(c, paid) /\ Attachment(c, page.at) /\ Session(c, user, switched)
        BY <1>4 DEF CallOK
    <2>2. c.kind \notin {"none", "confirm", "cancel"}
        BY <1>2, <2>1 DEF Origin, NoCall, ButtonPages
    <2>3. d \in Call
        BY <1>5
    <2>4. Origin(d) /\ Attachment(d, page.at) /\ Session(d, user, switched)
        BY <1>5, <2>1, <2>2 DEF Origin, Attachment, Session
    <2>5. Truth(d, paid)
        BY <1>3, <1>5, <2>1, <2>2 DEF Truth
    <2> QED BY <2>3, <2>4, <2>5 DEF CallOK
<1>7. \A j \in Slots : CallOK(call'[j], page.at, user, paid', switched')
    BY <1>2, <1>5, <1>6 DEF Inv, CallsOK
<1>8. BackendOK' /\ ViewOK' /\ switched' \in BOOLEAN /\ busy' \in BOOLEAN
    BY <1>2, BackendStays, ViewStays DEF Inv, PageOK, backend
<1>9. busy' => Enables(call')
    BY <1>2, <1>5, StillEnables
<1> QED BY <1>2, <1>5, <1>7, <1>8, <1>9, StayKeeps

\* What other tabs, the worker and handlers without a caller do.
LEMMA ElsewhereKeeps ==
    ASSUME Inv, NEW b \in Bookings, Elsewhere(b) \/ LateConfirm(b)
    PROVE  Inv'
<1>1. /\ user' = user /\ page' = page /\ back' = back
      /\ view' = view /\ busy' = busy /\ call' = call /\ switched' = switched
    BY DEF Elsewhere, LateConfirm, history
<1>2. BackendOK' /\ \A x \in Bookings : paid[x] # "no" => paid'[x] # "no"
    BY DEF Elsewhere, LateConfirm, Inv, BackendOK, Status
<1>3. switched \in BOOLEAN /\ busy \in BOOLEAN /\ call \in [Slots -> Call]
    BY DEF Inv, PageOK, CallsOK
<1>4. \A j \in Slots : CallOK(call'[j], page.at, user, paid', switched')
    BY <1>1, <1>2, <1>3, KeepOK DEF Inv, CallsOK
<1>5. ViewOK'
    BY <1>1, <1>2, <1>3, ViewStays DEF Inv
<1>6. busy' => Enables(call')
    BY <1>1, StillEnables
<1> QED BY <1>1, <1>2, <1>3, <1>4, <1>5, <1>6, StayKeeps

-----------------------------------------------------------------------------
(* Handlers that end on the page.                                          *)

\* The slot is free again.
LEMMA EndStays ==
    ASSUME Inv, NEW k \in Slots, call' = Ended(k), UNCHANGED backend,
           switched' \in BOOLEAN, ~switched' => ~switched
    PROVE  /\ call' \in [Slots -> Call] /\ BackendOK'
           /\ \A x \in Bookings : paid[x] # "no" => paid'[x] # "no"
           /\ \A j \in Slots : CallOK(call'[j], page.at, user, paid', switched')
<1>1. switched \in BOOLEAN /\ paid' = paid /\ BackendOK'
    BY BackendStays DEF Inv, PageOK
<1>2. call' \in [Slots -> Call] /\ \A j \in Slots : CallOK(call'[j], page.at, user, paid, switched)
    BY EndedOK DEF Inv
<1>3. \A j \in Slots : CallOK(call'[j], page.at, user, paid', switched')
    BY <1>1, <1>2, KeepOK
<1> QED BY <1>1, <1>2, <1>3

LEMMA LoginFailsKeeps ==
    ASSUME Inv, NEW k \in Slots, LoginFails(k)
    PROVE  Inv'
<1>1. /\ call' = Ended(k) /\ busy' = StillBusy(k) /\ UNCHANGED backend
      /\ user' = user /\ page' = page /\ back' = back /\ view' = view /\ switched' = switched
    BY DEF LoginFails, history
<1>2. switched \in BOOLEAN /\ busy \in BOOLEAN
    BY DEF Inv, PageOK
<1>3. /\ call' \in [Slots -> Call] /\ BackendOK'
      /\ \A x \in Bookings : paid[x] # "no" => paid'[x] # "no"
      /\ \A j \in Slots : CallOK(call'[j], page.at, user, paid', switched')
    BY <1>1, <1>2, EndStays
<1>4. ViewOK'
    BY <1>1, <1>2, <1>3, ViewStays DEF Inv
<1>5. busy' \in BOOLEAN /\ (busy' => Enables(call'))
    BY <1>1, <1>2, OthersEnable DEF StillBusy
<1> QED BY <1>1, <1>2, <1>3, <1>4, <1>5, StayKeeps

\* What a load shows is true, is the user's, and on a ticket page it is confirmed.
LEMMA LoadLandsKeeps ==
    ASSUME Inv, NEW k \in Slots, LoadLands(k)
    PROVE  Inv'
<1> DEFINE c == call[k]
           shows == c.attached /\ Loaded(k)
<1>1. /\ c.kind = "load" /\ Unpaid(k) = {} /\ call' = Ended(k) /\ UNCHANGED backend
      /\ view' = IF shows THEN c.got ELSE view
      /\ user' = user /\ page' = page /\ back' = back /\ busy' = busy
      /\ switched' = switched
    BY DEF LoadLands, Settled
<1>2. switched \in BOOLEAN /\ busy \in BOOLEAN /\ switched' \in BOOLEAN /\ (~switched' => ~switched)
    BY <1>1 DEF Inv, PageOK
<1>3. /\ call' \in [Slots -> Call] /\ BackendOK'
      /\ \A x \in Bookings : paid[x] # "no" => paid'[x] # "no"
      /\ \A j \in Slots : CallOK(call'[j], page.at, user, paid', switched')
    BY <1>1, <1>2, EndStays
<1>4. ASSUME shows PROVE ViewOK'
    <2>1. /\ c \in Call /\ Truth(c, paid) /\ Attachment(c, page.at) /\ Session(c, user, switched)
        BY DEF Inv, CallsOK, CallOK
    <2>2. \A b \in Bookings : c.got[b] \notin {"missing", "failed"}
        BY <1>4 DEF Loaded, Got
    <2>3. c.got \in [Bookings -> Status \cup {"none"}]
        BY <2>1, <2>2 DEF Call
    <2>4. page.at = "ticket" => \A b \in Bookings : c.got[b] \in {"none", "confirmed"}
        <3>1. page.at = "ticket" => c.from.at = "ticket"
            BY <1>1, <1>4, <2>1 DEF Attachment
        <3>2. page.at = "ticket" => \A b \in Bookings : c.got[b] \notin Status \ {"confirmed"}
            BY <1>1, <3>1 DEF Unpaid, Got
        <3> QED BY <2>3, <3>2
    <2>5. \A b \in Bookings : (~switched /\ c.got[b] # "none") => Owner[b] = user
        <3>1. ~switched => c.by = user
            BY <1>1, <1>4, <2>1 DEF Session
        <3> QED BY <2>1, <2>3, <3>1 DEF Truth
    <2>6. \A b \in Bookings : c.got[b] = "confirmed" => paid[b] # "no"
        BY <2>1 DEF Truth
    <2>7. view' = c.got /\ page' = page /\ user' = user
        BY <1>1, <1>4
    <2> HIDE DEF c
    <2> QED BY <1>2, <1>3, <2>3, <2>4, <2>5, <2>6, <2>7 DEF ViewOK
<1>5. ASSUME ~shows PROVE ViewOK'
    BY <1>1, <1>2, <1>3, <1>5, ViewStays DEF Inv
<1>6. busy' => Enables(call')
    BY <1>1, OthersEnable
<1> QED BY <1>1, <1>2, <1>3, <1>4, <1>5, <1>6, StayKeeps

\* handleCancel shows the user's own booking.
LEMMA CancelLandsKeeps ==
    ASSUME Inv, NEW k \in Slots, CancelLands(k)
    PROVE  Inv'
<1> DEFINE c == call[k]
           shows == c.attached /\ Failures(k) = {}
<1>1. /\ c.kind = "cancel" /\ call' = Ended(k) /\ UNCHANGED backend
      /\ view' = IF shows THEN c.got ELSE view
      /\ busy' = StillBusy(k)
      /\ user' = user /\ page' = page /\ back' = back /\ switched' = switched
    BY DEF CancelLands, Settled, history
<1>2. switched \in BOOLEAN /\ busy \in BOOLEAN
    BY DEF Inv, PageOK
<1>3. /\ call' \in [Slots -> Call] /\ BackendOK'
      /\ \A x \in Bookings : paid[x] # "no" => paid'[x] # "no"
      /\ \A j \in Slots : CallOK(call'[j], page.at, user, paid', switched')
    BY <1>1, <1>2, EndStays
<1>4. ASSUME shows PROVE ViewOK'
    <2>1. /\ c \in Call /\ Origin(c) /\ Truth(c, paid)
          /\ Attachment(c, page.at) /\ Session(c, user, switched)
        BY DEF Inv, CallsOK, CallOK
    <2>2. \A b \in Bookings : c.got[b] \in {"none", "over"}
        BY <1>1, <1>4, <2>1 DEF Failures, Got, Truth
    <2>3. c.got \in [Bookings -> Status \cup {"none"}]
        BY <2>1, <2>2 DEF Call, Status
    <2>4. page.at # "ticket"
        BY <1>1, <1>4, <2>1 DEF Origin, Attachment, ButtonPages
    <2>5. \A b \in Bookings : (~switched /\ c.got[b] # "none") => Owner[b] = user
        BY <1>1, <1>4, <2>1, <2>3 DEF Session, Truth
    <2>6. view' = c.got /\ page' = page /\ user' = user
        BY <1>1, <1>4
    <2> HIDE DEF c
    <2> QED BY <1>1, <2>2, <2>3, <2>4, <2>5, <2>6 DEF ViewOK
<1>5. ASSUME ~shows PROVE ViewOK'
    BY <1>1, <1>2, <1>3, <1>5, ViewStays DEF Inv
<1>6. busy' \in BOOLEAN /\ (busy' => Enables(call'))
    BY <1>1, <1>2, OthersEnable DEF StillBusy
<1> QED BY <1>1, <1>2, <1>3, <1>4, <1>5, <1>6, StayKeeps

\* An order that failed in part is loaded again for the page that is there.
LEMMA ConfirmFailedLandsKeeps ==
    ASSUME Inv, NEW k \in Slots, ConfirmFailedLands(k)
    PROVE  Inv'
<1> DEFINE c == call[k]
<1>1. /\ busy' = StillBusy(k) /\ UNCHANGED backend /\ paid' = paid
      /\ user' = user /\ page' = page /\ back' = back /\ view' = view
      /\ IF Reloads(c)
         THEN call' = [call EXCEPT ![k] = Load(c.from, user)]
         ELSE call' = Ended(k)
      /\ c.kind = "confirm" /\ switched' = switched
    BY DEF ConfirmFailedLands, Settled, backend
<1>2. switched \in BOOLEAN /\ busy \in BOOLEAN /\ switched' \in BOOLEAN /\ (~switched' => ~switched)
    BY <1>1 DEF Inv, PageOK
<1>3. BackendOK' /\ ViewOK'
    BY <1>1, <1>2, BackendStays, ViewStays DEF Inv, backend
<1>4. CASE Reloads(c)
    <2>1. c.attached /\ c.from.at = page.at /\ page.at \in Protected /\ c.from \in Page
        BY <1>1, <1>4 DEF Reloads, AtCheckout, Inv, CallsOK, CallOK, Attachment, Call, Protected
    <2>2. CallOK(Load(c.from, user), page.at, user, paid, switched')
        BY <2>1, LoadOK DEF Inv, PageOK
    <2>3. \A j \in Slots : CallOK(call[j], page.at, user, paid, switched')
        BY <1>2, KeepOK DEF Inv, CallsOK
    <2>4. call' \in [Slots -> Call] /\ \A j \in Slots : CallOK(call'[j], page.at, user, paid, switched')
        <3>1. Load(c.from, user) \in Call /\ call \in [Slots -> Call]
            BY <2>2 DEF CallOK, Inv, CallsOK
        <3> QED BY <1>1, <1>4, <2>2, <2>3, <3>1
    <2>5. busy' = FALSE
        BY <1>1, <2>1 DEF StillBusy
    <2> QED BY <1>1, <1>2, <1>3, <2>4, <2>5, StayKeeps
<1>5. CASE ~Reloads(c)
    <2>1. /\ call' \in [Slots -> Call]
          /\ \A x \in Bookings : paid[x] # "no" => paid'[x] # "no"
          /\ \A j \in Slots : CallOK(call'[j], page.at, user, paid', switched')
        BY <1>1, <1>2, <1>5, EndStays DEF backend
    <2>2. busy' \in BOOLEAN /\ (busy' => Enables(call'))
        BY <1>1, <1>2, <1>5, OthersEnable DEF StillBusy
    <2> QED BY <1>1, <1>2, <1>3, <2>1, <2>2, StayKeeps
<1> QED BY <1>4, <1>5

-----------------------------------------------------------------------------
(* The checkout page shows what became of its orders: OrderInv says how an *)
(* order that the page knows nothing of comes to be read again.            *)

\* The handlers of buttons, and those of them that confirm.
Button(c) == c.attached /\ c.kind \in {"confirm", "cancel", "login"}
Confirming(calls) == \E k \in Slots : calls[k].kind = "confirm" /\ calls[k].attached

\* One button at a time, and the page knows.
ButtonsAlone ==
    \A j \in Slots : Button(call[j]) =>
        busy /\ \A k \in Slots : Button(call[k]) => k = j

\* No confirmation is forgotten: a booking never goes back to be confirmed again.
UnpaidFirst == \A b \in Bookings : db[b] \in {"none", "pending"} => paid[b] = "no"

\* Pages that show a confirmed booking as pending wait for the order or load again ...
ShownOrLoading ==
    (page.at = "checkout" /\ ~doubt) =>
        \A b \in Bookings : (view[b] = "pending" /\ paid[b] = "here")
                                => Confirming(call) \/ Loading(call)

\* ... and a load that is overtaken by an order is not the last one.
LoadOrConfirming ==
    (page.at = "checkout" /\ ~doubt) =>
        \A k \in Slots, b \in Bookings :
            /\ call[k].kind = "load" /\ call[k].attached
            /\ call[k].got[b] = "pending" /\ paid[b] = "here"
            => Confirming(call)

\* ... and there is one at a time, or doubt.
LoadsAlone ==
    (page.at = "checkout" /\ ~doubt) =>
        \A j, k \in Slots :
            /\ call[j].kind = "load" /\ call[j].attached
            /\ call[k].kind = "load" /\ call[k].attached
            => j = k

OrderInv ==
    ButtonsAlone /\ UnpaidFirst /\ ShownOrLoading /\ LoadOrConfirming /\ LoadsAlone

DoubtOK == doubt \in BOOLEAN

\* Loads and free slots are no buttons.
LEMMA NoButton ==
    ASSUME NEW p, NEW u
    PROVE  /\ ~Button(NoCall) /\ NoCall.attached = FALSE /\ NoCall.kind = "none"
           /\ ~Button(Load(p, u)) /\ Load(p, u).kind = "load" /\ Load(p, u).attached = TRUE
           /\ Load(p, u).got = NoView
           /\ \A b \in Bookings : NoView[b] = "none"
BY DEF NoCall, Load, Button, NoView

\* A page that stays remembers its doubt, and doubts a second load.
LEMMA GoDoubt ==
    ASSUME NEW p, NEW u, NEW calls, doubt \in BOOLEAN, ~Fresh(p, u), Go(p, u, calls), ~doubt'
    PROVE  /\ ~doubt
           /\ \/ call' = calls
              \/ \E k \in Slots : /\ Free(calls, k) /\ ~Loading(calls)
                                  /\ call' = [calls EXCEPT ![k] = Load(Guarded(p, u), u)]
BY DEF Go, Fresh

LEMMA NavigationOrder ==
    ASSUME Inv, DoubtOK, OrderInv, NEW p, NEW u, NEW calls \in [Slots -> Call],
           \A j \in Slots : calls[j] = call[j] \/ calls[j] = NoCall,
           Guarded(p, u).at = "checkout" =>
               \A j \in Slots : calls[j] = call[j] \/ call[j].kind = "login",
           paid' = paid, UnpaidFirst', Go(p, u, calls)
    PROVE  OrderInv'
<1> DEFINE q == Guarded(p, u)
           kept == Kept(p, u, calls)
           load == Load(q, u)
<1>0. /\ ~Button(load) /\ ~Button(NoCall)
      /\ \A b \in Bookings : load.got[b] = "none"
    <2>1. ~Button(load) /\ load.got = NoView /\ ~Button(NoCall)
        BY NoButton
    <2>2. \A b \in Bookings : NoView[b] = "none"
        BY DEF NoView
    <2> QED BY <2>1, <2>2
<1>1. switched \in BOOLEAN /\ busy \in BOOLEAN
    BY DEF Inv, PageOK
<1>2. /\ page' = q
      /\ view' = IF Fresh(p, u) THEN NoView ELSE view
      /\ busy' = (busy /\ ~Fresh(p, u))
      /\ \/ call' = kept
         \/ \E k \in Slots : Free(kept, k) /\ call' = [kept EXCEPT ![k] = load]
    BY <1>1, GoEffect
<1> HIDE DEF load
<1>3. CASE Fresh(p, u)
    <2>1. kept = Detached(calls)
        BY <1>3 DEF Kept
    <2>2. ASSUME NEW j \in Slots PROVE kept[j].attached = FALSE
        <3>1. calls[j] \in Call
            OBVIOUS
        <3>2. [calls[j] EXCEPT !.attached = FALSE].attached = FALSE
            BY <3>1 DEF Call
        <3>3. kept[j] = NoCall \/ kept[j] = [calls[j] EXCEPT !.attached = FALSE]
            BY <2>1 DEF Detached
        <3> QED BY <3>2, <3>3, NoButton
    <2>3. kept = [j \in Slots |-> kept[j]]
        BY <2>1 DEF Detached
    <2>4. ASSUME NEW j \in Slots
          PROVE  call'[j].attached = FALSE \/ call'[j] = load
        BY <1>2, <2>2, <2>3
    <2>5. \A j \in Slots : ~Button(call'[j])
        BY <1>0, <2>4 DEF Button
    <2>6. view' = NoView
        BY <1>2, <1>3
    <2>7. \A j \in Slots, b \in Bookings : call'[j].attached => call'[j].got[b] # "pending"
        BY <1>0, <2>4
    <2>8. ButtonsAlone'
        BY <2>5 DEF ButtonsAlone
    <2>9. ShownOrLoading'
        BY <2>6, NoButton DEF ShownOrLoading
    <2>10. LoadOrConfirming'
        BY <2>7 DEF LoadOrConfirming
    <2>11. LoadsAlone'
        <3>1. CASE call' = kept
            BY <2>2, <3>1 DEF LoadsAlone
        <3>2. CASE \E k \in Slots : call' = [kept EXCEPT ![k] = load]
            <4>1. PICK k \in Slots : call' = [kept EXCEPT ![k] = load]
                BY <3>2
            <4>2. \A j \in Slots : j # k => call'[j].attached = FALSE
                BY <2>2, <2>3, <4>1
            <4> QED BY <4>2 DEF LoadsAlone
        <3> QED BY <1>2, <3>1, <3>2
    <2> QED BY <2>8, <2>9, <2>10, <2>11 DEF OrderInv
<1>4. CASE ~Fresh(p, u)
    <2>1. kept = calls /\ view' = view /\ busy' = busy /\ page'.at = page.at /\ q.at = page.at
        BY <1>1, <1>2, <1>4 DEF Kept, Fresh
    <2>2. ASSUME NEW j \in Slots
          PROVE  /\ call'[j] = calls[j] \/ call'[j] = load
                 /\ calls[j].kind # "none" => call'[j] = calls[j]
        BY <1>2, <2>1 DEF Free
    <2>3. ButtonsAlone'
        <3>1. ASSUME NEW j \in Slots, Button(call'[j]) PROVE Button(call[j])
            BY <1>0, <2>2, <3>1
        <3> QED BY <2>1, <3>1 DEF OrderInv, ButtonsAlone
    <2>4. ASSUME page.at = "checkout", Confirming(call) PROVE Confirming(call')
        <3>1. PICK j \in Slots : call[j].kind = "confirm" /\ call[j].attached
            BY <2>4 DEF Confirming
        <3>2. calls[j] = call[j]
            BY <2>1, <2>4, <3>1
        <3> QED BY <2>2, <3>1, <3>2 DEF Confirming
    <2>5. ASSUME page.at = "checkout", Loading(call) PROVE Loading(call')
        <3>1. PICK j \in Slots : call[j].kind = "load" /\ call[j].attached
            BY <2>5 DEF Loading
        <3>2. calls[j] = call[j]
            BY <2>1, <2>5, <3>1
        <3> QED BY <2>2, <3>1, <3>2 DEF Loading
    <2>6. ~doubt' => ~doubt
        BY <1>4, GoDoubt DEF DoubtOK
    <2>7. ShownOrLoading'
        BY <2>1, <2>4, <2>5, <2>6 DEF OrderInv, ShownOrLoading
    <2>8. LoadOrConfirming'
        <3> SUFFICES ASSUME page.at = "checkout", ~doubt', NEW k \in Slots, NEW b \in Bookings,
                            call'[k].kind = "load", call'[k].attached,
                            call'[k].got[b] = "pending", paid[b] = "here"
                     PROVE  Confirming(call')
            BY <2>1 DEF LoadOrConfirming
        <3>1. call'[k] # load
            BY <1>0
        <3>2. call'[k] = call[k]
            <4>1. call'[k] = calls[k]
                BY <2>2, <3>1
            <4>2. calls[k] # NoCall
                BY <4>1 DEF NoCall
            <4> QED BY <4>1, <4>2
        <3>3. Confirming(call)
            BY <2>6, <3>2 DEF OrderInv, LoadOrConfirming
        <3> QED BY <2>4, <3>3
    <2>9. LoadsAlone'
        <3> SUFFICES ASSUME page.at = "checkout", ~doubt', NEW i \in Slots, NEW j \in Slots,
                            call'[i].kind = "load", call'[i].attached,
                            call'[j].kind = "load", call'[j].attached
                     PROVE  i = j
            BY <2>1 DEF LoadsAlone
        <3>1. ASSUME NEW k \in Slots, calls[k].kind = "load" PROVE calls[k] = call[k]
            BY <3>1, NoButton
        <3>2. CASE call' = calls
            BY <2>6, <3>1, <3>2 DEF OrderInv, LoadsAlone
        <3>3. CASE \E k \in Slots : ~Loading(calls) /\ call' = [calls EXCEPT ![k] = load]
            <4>1. PICK k \in Slots : ~Loading(calls) /\ call' = [calls EXCEPT ![k] = load]
                BY <3>3
            <4> QED BY <4>1 DEF Loading
        <3>4. call' = calls \/ \E k \in Slots : ~Loading(calls) /\ call' = [calls EXCEPT ![k] = load]
            BY <1>4, GoDoubt DEF DoubtOK, load
        <3> QED BY <3>2, <3>3, <3>4
    <2> QED BY <2>3, <2>7, <2>8, <2>9 DEF OrderInv
<1> QED BY <1>3, <1>4

\* A handler ends on the page.
LEMMA EndOrder ==
    ASSUME Inv, OrderInv, NEW k \in Slots, call' = Ended(k),
           db' = db, paid' = paid, page' = page,
           busy' = busy \/ Button(call[k]),
           ~doubt' => ~doubt,
           (page.at = "checkout" /\ ~doubt') =>
               /\ call[k].kind = "confirm" => ~call[k].attached
               /\ \/ call[k].kind = "load" /\ call[k].attached /\ view' = call[k].got
                  \/ ~(call[k].kind = "load" /\ call[k].attached) /\ view' = view
    PROVE  OrderInv'
<1>1. call'[k] = NoCall /\ \A j \in Slots : j # k => call'[j] = call[j]
    BY DEF Ended, Inv, CallsOK
<1>2. ButtonsAlone'
    <2>1. ASSUME NEW j \in Slots, Button(call'[j]) PROVE j # k /\ Button(call[j])
        BY <1>1, <2>1, NoButton
    <2>2. CASE busy' = busy
        BY <2>1, <2>2 DEF OrderInv, ButtonsAlone
    <2>3. CASE Button(call[k])
        BY <2>1, <2>3 DEF OrderInv, ButtonsAlone
    <2> QED BY <2>2, <2>3
<1>3. UnpaidFirst'
    BY DEF OrderInv, UnpaidFirst
<1>4. ASSUME page.at = "checkout", ~doubt', Confirming(call) PROVE Confirming(call')
    <2>1. PICK j \in Slots : call[j].kind = "confirm" /\ call[j].attached
        BY <1>4 DEF Confirming
    <2>2. j # k
        BY <1>4, <2>1
    <2> QED BY <1>1, <2>1, <2>2 DEF Confirming
<1>5. LoadOrConfirming'
    <2> SUFFICES ASSUME page.at = "checkout", ~doubt', NEW j \in Slots, NEW b \in Bookings,
                        call'[j].kind = "load", call'[j].attached,
                        call'[j].got[b] = "pending", paid[b] = "here"
                 PROVE  Confirming(call')
        BY DEF LoadOrConfirming
    <2>1. call'[j] = call[j]
        BY <1>1, NoButton
    <2>2. Confirming(call)
        BY <2>1 DEF OrderInv, LoadOrConfirming
    <2> QED BY <1>4, <2>2
<1>6. ShownOrLoading'
    <2> SUFFICES ASSUME page.at = "checkout", ~doubt', NEW b \in Bookings,
                        view'[b] = "pending", paid[b] = "here"
                 PROVE  Confirming(call') \/ Loading(call')
        BY DEF ShownOrLoading
    <2>1. CASE call[k].kind = "load" /\ call[k].attached
        <3>1. call[k].got[b] = "pending"
            BY <2>1
        <3> QED BY <1>4, <2>1, <3>1 DEF OrderInv, LoadOrConfirming
    <2>2. CASE ~(call[k].kind = "load" /\ call[k].attached)
        <3>1. view[b] = "pending"
            BY <2>2
        <3>2. Confirming(call) \/ Loading(call)
            BY <3>1 DEF OrderInv, ShownOrLoading
        <3>3. Loading(call) => Loading(call')
            BY <1>1, <2>2 DEF Loading
        <3> QED BY <1>4, <3>2, <3>3
    <2> QED BY <2>1, <2>2
<1>7. LoadsAlone'
    <2>1. \A j \in Slots : call'[j].kind = "load" => call'[j] = call[j]
        BY <1>1, NoButton
    <2> QED BY <2>1 DEF OrderInv, LoadsAlone
<1> QED BY <1>2, <1>3, <1>5, <1>6, <1>7 DEF OrderInv

\* A load ends: with doubt, or with an answer that is no older than its order.
LEMMA LoadLandsOrder ==
    ASSUME Inv, DoubtOK, OrderInv, NEW k \in Slots, LoadLands(k)
    PROVE  OrderInv'
<1>1. /\ call[k].kind = "load" /\ call' = Ended(k)
      /\ view' = IF call[k].attached /\ Loaded(k) THEN call[k].got ELSE view
      /\ doubt' = (doubt \/ (call[k].attached /\ ~Loaded(k)))
      /\ db' = db /\ paid' = paid /\ page' = page /\ busy' = busy
    BY DEF LoadLands, Settled, backend
<1>2. ~doubt' => ~doubt /\ (call[k].attached => Loaded(k))
    BY <1>1 DEF DoubtOK
<1>3. ~doubt' => \/ call[k].attached /\ view' = call[k].got
                 \/ ~call[k].attached /\ view' = view
    BY <1>1, <1>2
<1> QED BY <1>1, <1>2, <1>3, EndOrder

LEMMA CancelLandsOrder ==
    ASSUME Inv, OrderInv, NEW k \in Slots, CancelLands(k)
    PROVE  OrderInv'
<1>1. /\ call[k].kind = "cancel" /\ call' = Ended(k) /\ call[k].from.at # "checkout"
      /\ ~call[k].attached => view' = view
      /\ busy' = StillBusy(k)
      /\ db' = db /\ paid' = paid /\ page' = page /\ doubt' = doubt
    BY DEF CancelLands, Settled, backend, history
<1>2. call[k].attached => page.at # "checkout"
    BY <1>1 DEF Inv, CallsOK, CallOK, Attachment
<1>3. busy' = busy \/ Button(call[k])
    <2>1. busy \in BOOLEAN /\ call[k].attached \in BOOLEAN
        BY DEF Inv, PageOK, CallsOK, Call
    <2> QED BY <1>1, <2>1 DEF StillBusy, Button
<1> QED BY <1>1, <1>2, <1>3, EndOrder

LEMMA LoginFailsOrder ==
    ASSUME Inv, OrderInv, NEW k \in Slots, LoginFails(k)
    PROVE  OrderInv'
<1>1. /\ call[k].kind = "login" /\ call' = Ended(k) /\ view' = view
      /\ busy' = StillBusy(k)
      /\ db' = db /\ paid' = paid /\ page' = page /\ doubt' = doubt
    BY DEF LoginFails, backend, history
<1>2. busy' = busy \/ Button(call[k])
    <2>1. busy \in BOOLEAN /\ call[k].attached \in BOOLEAN
        BY DEF Inv, PageOK, CallsOK, Call
    <2> QED BY <1>1, <2>1 DEF StillBusy, Button
<1> QED BY <1>1, <1>2, EndOrder

\* An order that failed in part: the checkout loads again, and doubts what overtakes it.
LEMMA ConfirmFailedLandsOrder ==
    ASSUME Inv, DoubtOK, OrderInv, NEW k \in Slots, ConfirmFailedLands(k)
    PROVE  OrderInv'
<1> DEFINE c == call[k]
           l == Load(c.from, user)
<1>1. /\ c.kind = "confirm" /\ busy' = StillBusy(k)
      /\ db' = db /\ paid' = paid /\ page' = page /\ view' = view
      /\ Reloads(c) => call' = [call EXCEPT ![k] = l] /\ doubt' = (doubt \/ Loading(call))
      /\ ~Reloads(c) => call' = Ended(k) /\ doubt' = doubt
    BY DEF ConfirmFailedLands, Settled, backend
<1>2. CASE ~Reloads(c)
    <2>1. page.at = "checkout" => ~c.attached
        BY <1>2 DEF Reloads, AtCheckout, Inv, CallsOK, CallOK, Attachment, Origin, NoCall
    <2>2. busy' = busy \/ Button(c)
        <3>1. busy \in BOOLEAN /\ c.attached \in BOOLEAN
            BY DEF Inv, PageOK, CallsOK, Call
        <3> QED BY <1>1, <3>1 DEF StillBusy, Button
    <2> HIDE DEF c, l
    <2> QED BY <1>1, <1>2, <2>1, <2>2, EndOrder DEF c
<1>3. CASE Reloads(c)
    <2>1. call' = [call EXCEPT ![k] = l] /\ doubt' = (doubt \/ Loading(call))
        BY <1>1, <1>3
    <2>2. Button(c)
        BY <1>1, <1>3 DEF Button, Reloads, AtCheckout
    <2>3. /\ l.kind = "load" /\ l.attached = TRUE /\ ~Button(l)
          /\ \A b \in Bookings : l.got[b] = "none"
        BY NoButton
    <2>4. call \in [Slots -> Call]
        BY DEF Inv, CallsOK
    <2> HIDE DEF l
    <2>5. call'[k] = l /\ \A j \in Slots : j # k => call'[j] = call[j]
        BY <2>1, <2>4
    <2>6. ButtonsAlone'
        <3>1. ASSUME NEW j \in Slots PROVE ~Button(call'[j])
            BY <2>2, <2>3, <2>5 DEF OrderInv, ButtonsAlone
        <3> QED BY <3>1 DEF ButtonsAlone
    <2>7. UnpaidFirst'
        BY <1>1 DEF OrderInv, UnpaidFirst
    <2>8. Loading(call')
        BY <2>3, <2>5 DEF Loading
    <2>9. ShownOrLoading'
        BY <2>8 DEF ShownOrLoading
    <2>10. LoadOrConfirming'
        <3> SUFFICES ASSUME ~doubt', NEW j \in Slots, NEW b \in Bookings,
                            call'[j].kind = "load", call'[j].attached,
                            call'[j].got[b] = "pending"
                     PROVE  FALSE
            BY DEF LoadOrConfirming
        <3>1. ~Loading(call)
            BY <2>1 DEF DoubtOK
        <3> QED BY <2>3, <2>5, <3>1 DEF Loading
    <2>11. LoadsAlone'
        <3>1. ~doubt' => ~Loading(call)
            BY <2>1 DEF DoubtOK
        <3> QED BY <2>5, <3>1 DEF Loading, LoadsAlone
    <2> QED BY <2>6, <2>7, <2>9, <2>10, <2>11 DEF OrderInv
<1> QED BY <1>2, <1>3

\* A button is pressed.
LEMMA PressOrder ==
    ASSUME Inv, OrderInv, NEW k \in Slots, NEW c, Button(c), Free(call, k), ~busy,
           call' = [call EXCEPT ![k] = c], busy' = TRUE,
           UNCHANGED <<db, paid, page, view, doubt>>
    PROVE  OrderInv'
<1>1. call'[k] = c /\ \A j \in Slots : j # k => call'[j] = call[j]
    BY DEF Inv, CallsOK
<1>2. ButtonsAlone'
    <2>1. \A j \in Slots : Button(call'[j]) => j = k
        BY <1>1 DEF OrderInv, ButtonsAlone
    <2> QED BY <2>1 DEF ButtonsAlone
<1>3. UnpaidFirst'
    BY DEF OrderInv, UnpaidFirst
<1>4. \A j \in Slots : call[j].kind # "none" => call'[j] = call[j]
    BY <1>1 DEF Free
<1>5. /\ Confirming(call) => Confirming(call')
      /\ Loading(call) => Loading(call')
    BY <1>4 DEF Confirming, Loading
<1>6. ShownOrLoading'
    BY <1>5 DEF OrderInv, ShownOrLoading
<1>7. LoadOrConfirming'
    <2>1. \A j \in Slots : call'[j].kind = "load" => call'[j] = call[j]
        BY <1>1 DEF Button
    <2> QED BY <1>5, <2>1 DEF OrderInv, LoadOrConfirming
<1>8. LoadsAlone'
    <2>1. \A j \in Slots : call'[j].kind = "load" => call'[j] = call[j]
        BY <1>1 DEF Button
    <2> QED BY <2>1 DEF OrderInv, LoadsAlone
<1> QED BY <1>2, <1>3, <1>6, <1>7, <1>8 DEF OrderInv

\* An answer arrives, or something happens elsewhere: a confirmation "here" is that of
\* the order under way, or has been asked for again, and no load has read it as pending
\* before it was there.
LEMMA AnswerOrder ==
    ASSUME OrderInv, UnpaidFirst',
           \A j \in Slots : call'[j].kind = call[j].kind /\ call'[j].attached = call[j].attached,
           UNCHANGED <<page, view, busy, doubt>>,
           \A b \in Bookings :
               paid'[b] = "here" => paid[b] = "here" \/ Confirming(call) \/ Loading(call),
           (page.at = "checkout" /\ ~doubt) =>
               \A j \in Slots, b \in Bookings :
                   /\ call[j].attached /\ call[j].kind = "load"
                   /\ call'[j].got[b] = "pending" /\ paid'[b] = "here"
                   => Confirming(call) \/ (call[j].got[b] = "pending" /\ paid[b] = "here")
    PROVE  OrderInv'
<1>1. \A j \in Slots : Button(call'[j]) <=> Button(call[j])
    BY DEF Button
<1>2. /\ Confirming(call) <=> Confirming(call')
      /\ Loading(call) <=> Loading(call')
    BY DEF Confirming, Loading
<1>3. ButtonsAlone'
    BY <1>1 DEF OrderInv, ButtonsAlone
<1>4. ShownOrLoading'
    BY <1>2 DEF OrderInv, ShownOrLoading
<1>5. LoadOrConfirming'
    BY <1>2 DEF OrderInv, LoadOrConfirming
<1>6. LoadsAlone'
    BY DEF OrderInv, LoadsAlone
<1> QED BY <1>3, <1>4, <1>5, <1>6 DEF OrderInv

\* A confirmation "here" is that of an order of a checkout that is still there, or one
\* that a load of it finds.
LEMMA PerformOrder ==
    ASSUME Inv, OrderInv, NEW k \in Slots, NEW b \in Bookings,
           Perform(call[k], b) \/ RunsOn(call[k], b) \/ UNCHANGED backend
    PROVE  /\ UnpaidFirst'
           /\ \A x \in Bookings :
                 paid'[x] = "here" => \/ paid[x] = "here"
                                      \/ Confirming(call)
                                      \/ (x = b /\ call[k].kind = "load" /\ call[k].attached)
           /\ call[k].kind = "load" => db' = db
<1> DEFINE c == call[k]
<1>1. CASE RunsOn(call[k], b) \/ UNCHANGED backend
    BY <1>1 DEF RunsOn, backend, OrderInv, UnpaidFirst
<1>2. CASE Perform(c, b)
    <2> DEFINE after == IF Confirms(c, b) THEN "confirmed"
                        ELSE IF Cancels(c, b) THEN "over" ELSE db[b]
               trace == IF Confirms(c, b) THEN IF AtCheckout(c) THEN "here" ELSE "elsewhere"
                        ELSE IF Rereads(c, b) /\ paid[b] = "late" THEN "here"
                        ELSE paid[b]
    <2>1. /\ db' = [db EXCEPT ![b] = after] /\ paid' = [paid EXCEPT ![b] = trace]
          /\ db \in [Bookings -> Status \cup {"none"}]
          /\ paid \in [Bookings -> {"no", "here", "late", "elsewhere"}]
        BY <1>2 DEF Perform, Inv, BackendOK
    <2>2. /\ after \in {"none", "pending"} => trace = "no"
          /\ trace = "here" => \/ paid[b] = "here"
                               \/ c.kind \in {"confirm", "load"} /\ c.attached
          /\ c.kind = "load" => after = db[b]
        BY DEF OrderInv, UnpaidFirst, Confirms, Cancels, Rereads, AtCheckout
    <2> HIDE DEF after, trace, c
    <2>3. /\ \A x \in Bookings : x # b => db'[x] = db[x] /\ paid'[x] = paid[x]
          /\ db'[b] = after /\ paid'[b] = trace
        BY <2>1
    <2>4. UnpaidFirst'
        BY <2>2, <2>3 DEF OrderInv, UnpaidFirst
    <2>5. \A x \in Bookings :
              paid'[x] = "here" => \/ paid[x] = "here"
                                   \/ Confirming(call)
                                   \/ (x = b /\ c.kind = "load" /\ c.attached)
        BY <2>2, <2>3 DEF Confirming, c
    <2>6. c.kind = "load" => db' = db
        BY <2>1, <2>2
    <2> QED BY <2>4, <2>5, <2>6 DEF c
<1> QED BY <1>1, <1>2

LEMMA ServeOrder ==
    ASSUME Inv, OrderInv, NEW k \in Slots, NEW b \in Bookings, Serve(k, b) \/ Fail(k, b)
    PROVE  OrderInv'
<1>1. PICK answer \in Status \cup {"none", "missing", "failed"} :
        /\ Perform(call[k], b) \/ RunsOn(call[k], b) \/ UNCHANGED backend
        /\ call' = Answered(k, b, answer)
        /\ answer = "failed" \/ answer = Reply(call[k], b)
        /\ UNCHANGED <<page, view, busy, doubt>>
    <2>1. Reply(call[k], b) \in Status \cup {"none", "missing", "failed"}
        BY DEF Reply, Inv, BackendOK, Status
    <2> QED BY <2>1 DEF Serve, Fail, history
<1>2. /\ UnpaidFirst'
      /\ \A x \in Bookings :
            paid'[x] = "here" => \/ paid[x] = "here"
                                 \/ Confirming(call)
                                 \/ (x = b /\ call[k].kind = "load" /\ call[k].attached)
      /\ call[k].kind = "load" => db' = db
    BY <1>1, PerformOrder
<1>3. /\ call' \in [Slots -> Call]
      /\ \A j \in Slots : j # k => call'[j] = call[j]
      /\ call'[k].kind = call[k].kind /\ call'[k].attached = call[k].attached
      /\ call'[k].got = [call[k].got EXCEPT ![b] = answer]
    BY <1>1, AnsweredEffect DEF Inv
<1>4. call[k].got \in [Bookings -> Status \cup {"none", "missing", "failed"}]
    BY DEF Inv, CallsOK, Call
<1>5. (call[k].kind = "load" /\ answer = "pending") => db'[b] = "pending"
    BY <1>1, <1>2 DEF Reply
<1>6. (call[k].kind = "load" /\ answer = "pending") => paid'[b] # "here"
    BY <1>2, <1>5 DEF UnpaidFirst
<1>7. ASSUME page.at = "checkout", ~doubt, NEW j \in Slots, NEW x \in Bookings,
             call[j].attached, call[j].kind = "load",
             call'[j].got[x] = "pending", paid'[x] = "here"
      PROVE  Confirming(call) \/ (call[j].got[x] = "pending" /\ paid[x] = "here")
    <2>1. ~(j = k /\ x = b)
        BY <1>3, <1>4, <1>6, <1>7
    <2>2. call[j].got[x] = "pending"
        BY <1>3, <1>4, <1>7, <2>1
    <2>3. x = b /\ call[k].kind = "load" /\ call[k].attached => j = k
        BY <1>7 DEF OrderInv, LoadsAlone
    <2> QED BY <1>2, <1>7, <2>1, <2>2, <2>3
<1>8. \A x \in Bookings :
          paid'[x] = "here" => paid[x] = "here" \/ Confirming(call) \/ Loading(call)
    BY <1>2 DEF Loading
<1> QED BY <1>1, <1>2, <1>3, <1>7, <1>8, AnswerOrder

LEMMA ServeListOrder ==
    ASSUME Inv, OrderInv, NEW k \in Slots, ServeList(k)
    PROVE  OrderInv'
<1>1. PICK got : call' = [call EXCEPT ![k] = [@ EXCEPT !.todo = {}, !.got = got]]
    BY DEF ServeList
<1>2. /\ call[k].from.at = "list"
      /\ db' = db /\ paid' = paid /\ UNCHANGED <<page, view, busy, doubt>>
    BY DEF ServeList, backend, history
<1>3. call \in [Slots -> Call]
    BY DEF Inv, CallsOK
<1>4. /\ \A j \in Slots : j # k => call'[j] = call[j]
      /\ call'[k].kind = call[k].kind /\ call'[k].attached = call[k].attached
    BY <1>1, <1>3 DEF Call
<1>5. (page.at = "checkout" /\ call[k].kind = "load") => ~call[k].attached
    BY <1>2 DEF Inv, CallsOK, CallOK, Attachment
<1>6. UnpaidFirst'
    BY <1>2 DEF OrderInv, UnpaidFirst
<1> QED BY <1>2, <1>4, <1>5, <1>6, AnswerOrder

LEMMA ElsewhereOrder ==
    ASSUME Inv, OrderInv, NEW b \in Bookings, Elsewhere(b) \/ LateConfirm(b)
    PROVE  OrderInv'
<1>1. UNCHANGED <<page, view, busy, doubt>> /\ call' = call
    BY DEF Elsewhere, LateConfirm, history
<1>2. /\ UnpaidFirst'
      /\ \A x \in Bookings : paid'[x] = "here" => paid[x] = "here"
    BY DEF Elsewhere, LateConfirm, Inv, BackendOK, OrderInv, UnpaidFirst
<1> QED BY <1>1, <1>2, AnswerOrder

LEMMA PressesOrder ==
    ASSUME Inv, OrderInv, NEW k \in Slots,
           Confirm(k) \/ Cancel(k) \/ \E u \in Users : Submit(k, u)
    PROVE  OrderInv'
<1>1. CASE Confirm(k) \/ Cancel(k)
    <2>0. PICK kind \in {"confirm", "cancel"} : \E ids : Send(k, kind, ids)
        BY <1>1 DEF Confirm, Cancel
    <2>1. PICK ids : Send(k, kind, ids)
        BY <2>0
    <2> DEFINE c == [kind |-> kind, by |-> user, from |-> page, attached |-> TRUE,
                     todo |-> ids, got |-> NoView]
    <2>2. Button(c)
        BY DEF Button
    <2>3. /\ Free(call, k) /\ ~busy /\ call' = [call EXCEPT ![k] = c] /\ busy' = TRUE
          /\ UNCHANGED <<db, paid, page, view, doubt>>
        BY <2>1 DEF Send, backend, history
    <2> HIDE DEF c
    <2> QED BY <2>2, <2>3, PressOrder
<1>2. CASE \E u \in Users : Submit(k, u)
    <2>1. PICK u \in Users : Submit(k, u)
        BY <1>2
    <2> DEFINE c == [NoCall EXCEPT !.kind = "login", !.by = u, !.from = back, !.attached = TRUE]
    <2>2. Button(c)
        BY DEF Button, NoCall
    <2>3. /\ Free(call, k) /\ ~busy /\ call' = [call EXCEPT ![k] = c] /\ busy' = TRUE
          /\ UNCHANGED <<db, paid, page, view, doubt>>
        BY <2>1 DEF Submit, backend, history
    <2> HIDE DEF c
    <2> QED BY <2>2, <2>3, PressOrder
<1> QED BY <1>1, <1>2

\* Links, history, reservations and logging out leave the handlers alone.
LEMMA LeaveOrder ==
    ASSUME Inv, DoubtOK, OrderInv,
           FollowLink \/ BackOrForward \/ Reserve \/ Logout
    PROVE  OrderInv'
<1>1. PICK p, u : Go(p, u, call)
    BY DEF FollowLink, BackOrForward, Reserve, Logout
<1>2. paid' = paid /\ UnpaidFirst'
    BY DEF FollowLink, BackOrForward, Reserve, Logout, backend, OrderInv, UnpaidFirst
<1>3. call \in [Slots -> Call]
    BY DEF Inv, CallsOK
<1> QED BY <1>1, <1>2, <1>3, NavigationOrder

LEMMA ReloadOrder ==
    ASSUME OrderInv, NEW p, NEW u, Reload(p, u)
    PROVE  OrderInv'
<1> DEFINE q == Guarded(p, u)
<1>1. /\ view' = NoView /\ db' = db /\ paid' = paid
      /\ \E first \in Slots :
           call' = [k \in Slots |-> IF k = first /\ q.at \in Protected
                                    THEN Load(q, u) ELSE NoCall]
    BY DEF Reload, backend
<1>2. \A k \in Slots : call'[k] = NoCall \/ call'[k] = Load(q, u)
    BY <1>1
<1>3. \A k \in Slots :
        ~Button(call'[k]) /\ \A b \in Bookings : call'[k].attached => call'[k].got[b] = "none"
    BY <1>2, NoButton
<1>4. ButtonsAlone' /\ LoadOrConfirming'
    BY <1>3 DEF ButtonsAlone, LoadOrConfirming
<1>5. ShownOrLoading'
    BY <1>1, NoButton DEF ShownOrLoading
<1>6. UnpaidFirst'
    BY <1>1 DEF OrderInv, UnpaidFirst
<1>7. LoadsAlone'
    <2>1. PICK first \in Slots :
              call' = [k \in Slots |-> IF k = first /\ q.at \in Protected
                                       THEN Load(q, u) ELSE NoCall]
        BY <1>1
    <2>2. \A k \in Slots : k # first => call'[k] = NoCall
        BY <2>1
    <2> QED BY <2>2, NoButton DEF LoadsAlone
<1> QED BY <1>4, <1>5, <1>6, <1>7 DEF OrderInv

\* Handlers that end with a navigation.  Those of a checkout do not lead there.
LEMMA LandOrder ==
    ASSUME Inv, DoubtOK, OrderInv, NEW k \in Slots,
           \/ NotFoundLands(k) \/ UnpaidTicketLands(k) \/ ConfirmedLands(k)
           \/ ReleasedLands(k) \/ LoggedIn(k)
    PROVE  OrderInv'
<1>1. PICK p, u : /\ Go(p, u, Ended(k)) /\ paid' = paid /\ db' = db
                  /\ p.at # "checkout" \/ call[k].kind = "login"
    <2>1. CASE NotFoundLands(k) \/ ReleasedLands(k)
        <3>1. Public.at # "checkout"
            BY DEF Public, At
        <3> QED BY <2>1, <3>1 DEF NotFoundLands, ReleasedLands, backend
    <2>2. CASE UnpaidTicketLands(k)
        <3>1. \A b \in Bookings : At("detail", {b}).at # "checkout"
            BY DEF At
        <3> QED BY <2>2, <3>1 DEF UnpaidTicketLands, Unpaid, Got, backend
    <2>3. CASE ConfirmedLands(k)
        <3>1. \A b, all : Ticket(b, all).at # "checkout"
            BY DEF Ticket
        <3> QED BY <2>3, <3>1 DEF ConfirmedLands, backend
    <2>4. CASE LoggedIn(k)
        BY <2>4 DEF LoggedIn, backend
    <2> QED BY <2>1, <2>2, <2>3, <2>4
<1>2. /\ Ended(k) \in [Slots -> Call]
      /\ \A j \in Slots : j # k => Ended(k)[j] = call[j]
      /\ Ended(k)[k] = NoCall
    BY EndedOK DEF Inv, Ended, CallsOK
<1>3. Guarded(p, u).at = "checkout" => call[k].kind = "login"
    BY <1>1 DEF Guarded, Login, At
<1>4. UnpaidFirst'
    BY <1>1 DEF OrderInv, UnpaidFirst
<1> QED BY <1>1, <1>2, <1>3, <1>4, NavigationOrder

LEMMA InitOrder ==
    ASSUME Init
    PROVE  OrderInv
<1>1. \A k \in Slots : ~Button(call[k])
    BY NoButton DEF Init
<1>2. page.at # "checkout"
    BY DEF Init, Public, At
<1> QED BY <1>1, <1>2 DEF Init, OrderInv, ButtonsAlone, UnpaidFirst, ShownOrLoading,
       LoadOrConfirming, LoadsAlone

LEMMA NextOrder ==
    ASSUME Inv, DoubtOK, OrderInv, [Next]_vars
    PROVE  OrderInv'
<1>1. CASE FollowLink \/ BackOrForward \/ Reserve \/ Logout
    BY <1>1, LeaveOrder
<1>2. CASE \E p \in Locations, u \in Users \cup {None} : Reload(p, u)
    BY <1>2, ReloadOrder
<1>3. ASSUME NEW k \in Slots,
             Confirm(k) \/ Cancel(k) \/ \E u \in Users : Submit(k, u)
      PROVE  OrderInv'
    BY <1>3, PressesOrder
<1>4. ASSUME NEW k \in Slots, Answers(k)
      PROVE  OrderInv'
    BY <1>4, ServeListOrder, ServeOrder DEF Answers
<1>5. ASSUME NEW k \in Slots, Lands(k)
      PROVE  OrderInv'
    BY <1>5, LandOrder, LoadLandsOrder, CancelLandsOrder, ConfirmFailedLandsOrder,
       LoginFailsOrder DEF Lands
<1>6. CASE \E b \in Bookings : Elsewhere(b) \/ LateConfirm(b)
    BY <1>6, ElsewhereOrder
<1>7. CASE UNCHANGED vars
    BY <1>7 DEF vars, OrderInv, ButtonsAlone, UnpaidFirst, ShownOrLoading,
       LoadOrConfirming, LoadsAlone
<1> QED BY <1>1, <1>2, <1>3, <1>4, <1>5, <1>6, <1>7 DEF Next

-----------------------------------------------------------------------------
(* The theorems.                                                           *)

\* In a tab that has just been opened nothing is under way.
LEMMA InitOK ==
    ASSUME Init
    PROVE  Inv
<1>1. /\ NoView \in [Bookings -> Status \cup {"none"}]
      /\ \A b \in Bookings : NoView[b] = "none"
      /\ Public \in Page /\ Public.at = "public" /\ Public.all = {} /\ NoCall \in Call
    BY NoCallOK DEF NoView, Public, At, Page, CallOK
<1>2. CallsOK
    BY <1>1, NoCallOK DEF Init, CallsOK
<1>3. BackendOK
    BY <1>1 DEF Init, BackendOK
<1>4. PageOK /\ ViewOK
    BY <1>1 DEF Init, PageOK, ViewOK, Protected
<1>5. DisabledForAReason
    BY DEF Init, DisabledForAReason
<1> QED BY <1>2, <1>3, <1>4, <1>5 DEF Inv

LEMMA LandsKeeps ==
    ASSUME Inv, NEW k \in Slots, Lands(k)
    PROVE  Inv'
BY NotFoundLandsKeeps, UnpaidTicketLandsKeeps, LoadLandsKeeps, ConfirmedLandsKeeps,
   ConfirmFailedLandsKeeps, ReleasedLandsKeeps, CancelLandsKeeps, LoggedInKeeps,
   LoginFailsKeeps DEF Lands

LEMMA NextKeeps ==
    ASSUME Inv, [Next]_vars
    PROVE  Inv'
<1>1. CASE FollowLink \/ BackOrForward \/ Reserve \/ Logout
    BY <1>1, FollowLinkKeeps, BackOrForwardKeeps, ReserveKeeps, LogoutKeeps
<1>2. CASE \E p \in Locations, u \in Users \cup {None} : Reload(p, u)
    BY <1>2, ReloadKeeps
<1>3. ASSUME NEW k \in Slots,
             \/ \E u \in Users : Submit(k, u)
             \/ Confirm(k) \/ Cancel(k)
             \/ Answers(k) \/ Lands(k)
      PROVE  Inv'
    BY <1>3, SubmitKeeps, ButtonsKeep, ServeListKeeps, ServeKeeps, FailKeeps, LandsKeeps
    DEF Answers
<1>4. CASE \E b \in Bookings : Elsewhere(b) \/ LateConfirm(b)
    BY <1>4, ElsewhereKeeps
<1>5. CASE UNCHANGED vars
    BY <1>5 DEF vars, Inv, CallsOK, BackendOK, PageOK, ViewOK, DisabledForAReason
<1> QED BY <1>1, <1>2, <1>3, <1>4, <1>5 DEF Next

\* The other part of the page's history has its type, too.
LEMMA DoubtType == Spec => []DoubtOK
<1>1. Init => DoubtOK
    BY DEF Init, DoubtOK
<1>2. ASSUME doubt \in BOOLEAN, NEW p, NEW u, NEW calls, Go(p, u, calls)
      PROVE  doubt' \in BOOLEAN
    BY <1>2 DEF Go
<1>3. DoubtOK /\ [Next]_vars => DoubtOK'
    <2> SUFFICES ASSUME doubt \in BOOLEAN, [Next]_vars PROVE doubt' \in BOOLEAN
        BY DEF DoubtOK
    <2>1. ASSUME NEW k \in Slots, Lands(k) PROVE doubt' \in BOOLEAN
        BY <1>2, <2>1 DEF Lands, NotFoundLands, UnpaidTicketLands, LoadLands, ConfirmedLands,
           ConfirmFailedLands, ReleasedLands, CancelLands, LoggedIn, LoginFails, history
    <2>2. ASSUME NEW k \in Slots,
                 Confirm(k) \/ Cancel(k) \/ Answers(k) \/ \E u \in Users : Submit(k, u)
          PROVE  doubt' \in BOOLEAN
        BY <2>2 DEF Confirm, Cancel, Send, Answers, ServeList, Serve, Fail, Submit, history
    <2>3. CASE FollowLink \/ BackOrForward \/ Reserve \/ Logout
        BY <1>2, <2>3 DEF FollowLink, BackOrForward, Reserve, Logout
    <2>4. CASE \E p \in Locations, u \in Users \cup {None} : Reload(p, u)
        BY <2>4 DEF Reload
    <2>5. CASE \E b \in Bookings : Elsewhere(b) \/ LateConfirm(b)
        BY <2>5 DEF Elsewhere, LateConfirm, history
    <2>6. CASE UNCHANGED vars
        BY <2>6 DEF vars
    <2> QED BY <2>1, <2>2, <2>3, <2>4, <2>5, <2>6 DEF Next
<1> QED BY <1>1, <1>3, PTL DEF Spec

\* Answers are true, and reach only pages and sessions they are meant for.
THEOREM TabInvariant == Spec => []Inv
<1> QED BY InitOK, NextKeeps, PTL DEF Spec

\* Every variable has its type, and a protected page is shown to a user only.
THEOREM TabTypes == Spec => []TypeOK
<1>1. Inv /\ DoubtOK => TypeOK
    BY DEF DoubtOK, Inv, CallsOK, CallOK, Origin, BackendOK, PageOK, ViewOK, TypeOK, NoCall
<1> QED BY <1>1, TabInvariant, DoubtType, PTL

\* "Booking confirmed" is only said of bookings that were, whatever answers were late,
\* lost or overtaken (handleConfirmAll, TicketPage).
THEOREM TicketsArePaid == Spec => []TicketIsPaid
<1>1. Inv => TicketIsPaid
    BY DEF Inv, PageOK, ViewOK, TicketIsPaid, Page
<1> QED BY <1>1, TabInvariant, PTL

\* No session sees the bookings of another one (AuthProvider, get-booking.usecase.ts).
THEOREM BookingsArePrivate == Spec => []OnlyOwnBookings
<1>1. Inv => OnlyOwnBookings
    BY DEF Inv, ViewOK, OnlyOwnBookings
<1> QED BY <1>1, TabInvariant, PTL

\* Disabled buttons have a handler under way that enables them.
THEOREM ButtonsComeBack == Spec => []DisabledForAReason
<1>1. Inv => DisabledForAReason
    BY DEF Inv
<1> QED BY <1>1, TabInvariant, PTL

\* After an order that failed in part, with whatever answers lost or overtaken, a
\* checkout at rest offers nothing for payment that an order of it has confirmed before
\* its call ended, or that was confirmed when it asked again (MultiCheckoutPage).
THEOREM OrdersAreReread == Spec => []OrderIsReread
<1>1. Inv /\ OrderInv => OrderIsReread
    <2> SUFFICES ASSUME Inv, OrderInv, page.at = "checkout", ~busy, ~Loading(call), ~doubt,
                        NEW b \in Bookings, view[b] = "pending", paid[b] = "here"
                 PROVE  FALSE
        BY DEF OrderIsReread
    <2>1. PICK k \in Slots : call[k].kind = "confirm" /\ call[k].attached
        BY DEF OrderInv, ShownOrLoading, Confirming
    <2> QED BY <2>1 DEF OrderInv, ButtonsAlone, Button
<1> QED BY <1>1, InitOrder, NextOrder, TabInvariant, DoubtType, PTL DEF Spec
=============================================================================
