----------------------------- MODULE GateProofs -----------------------------
(***************************************************************************)
(* For any number of clients, addresses and concurrent requests: the types *)
(* of Gate, that no counter is left without a time to live, and that       *)
(* answers are true.                                                       *)
(***************************************************************************)
EXTENDS Gate, TLAPS

\* What a step may do to the rest of the world when it is about the request r:
\* other requests stay as they are, and accounts only come to be.
About(r) ==
    /\ \A s \in Requests \ {r} : req'[s] = req[s]
    /\ \A e \in Emails : users[e] # None => users'[e] = users[e]

\* What makes AnswersAreTrue inductive: an answer comes last, and a password
\* that was right when the request came stays right.
Faithful(r) ==
    LET q == req[r] IN
        /\ q.at # "answered" => q.answer = None
        /\ (q.at # "idle" /\ q.knew) => users[q.email] = q.password
        /\ q.answer \in {"created", "token"} => users[q.email] = q.password
        /\ q.answer = "taken" => users[q.email] # None
        /\ q.answer = "refused" => ~q.knew

Inv == TypeOK /\ CounterExpires /\ \A r \in Requests : Faithful(r)

\* Answered() gives a request that has a client, an address and a password
\* another answer and leaves the others alone.
LEMMA AnsweredEffect ==
    ASSUME TypeOK, NEW r \in Requests, NEW a \in Answers
    PROVE  /\ Answered(r, a) \in [Requests -> Request]
           /\ Answered(r, a)[r].at = "answered" /\ Answered(r, a)[r].answer = a
           /\ Answered(r, a)[r].client = req[r].client
           /\ Answered(r, a)[r].email = req[r].email
           /\ Answered(r, a)[r].password = req[r].password
           /\ Answered(r, a)[r].knew = req[r].knew
           /\ \A s \in Requests \ {r} : Answered(r, a)[s] = req[s]
  <1>1. req \in [Requests -> Request] /\ req[r] \in Request
    BY DEF TypeOK
  <1> DEFINE q == [req[r] EXCEPT !.at = "answered", !.answer = a]
  <1>2. /\ q \in Request /\ q.at = "answered" /\ q.answer = a
        /\ q.client = req[r].client /\ q.email = req[r].email
        /\ q.password = req[r].password /\ q.knew = req[r].knew
    BY <1>1 DEF Request
  <1>3. Answered(r, a) = [req EXCEPT ![r] = q]
    BY <1>1 DEF Answered, Request
  <1> HIDE DEF q
  <1> QED BY <1>1, <1>2, <1>3
\* The same for a request that moves on, with or without a new count.
LEMMA CountedEffect ==
    ASSUME TypeOK, NEW r \in Requests, NEW n \in 0 .. Over
    PROVE  LET to == Counted(r, n) IN
           /\ to \in [Requests -> Request]
           /\ to[r].at = "counted" /\ to[r].answer = req[r].answer
           /\ to[r].client = req[r].client /\ to[r].email = req[r].email
           /\ to[r].password = req[r].password /\ to[r].knew = req[r].knew
           /\ \A s \in Requests \ {r} : to[s] = req[s]
  <1>1. req \in [Requests -> Request] /\ req[r] \in Request
    BY DEF TypeOK
  <1> DEFINE to == Counted(r, n)
             q == [req[r] EXCEPT !.at = "counted", !.current = n]
  <1>2. /\ q \in Request /\ q.at = "counted" /\ q.answer = req[r].answer
        /\ q.client = req[r].client /\ q.email = req[r].email
        /\ q.password = req[r].password /\ q.knew = req[r].knew
    BY <1>1 DEF Request
  <1>3. to = [req EXCEPT ![r] = q]
    BY <1>1 DEF Request, Counted
  <1> HIDE DEF q, to
  <1>4. /\ to \in [Requests -> Request] /\ to[r] = q
        /\ \A s \in Requests \ {r} : to[s] = req[s]
    BY <1>1, <1>2, <1>3
  <1> QED BY <1>2, <1>4 DEF to

LEMMA MovedEffect ==
    ASSUME TypeOK, NEW r \in Requests, NEW at \in {"admitted", "free"}
    PROVE  LET to == Moved(r, at) IN
           /\ to \in [Requests -> Request]
           /\ to[r].at = at /\ to[r].answer = req[r].answer
           /\ to[r].client = req[r].client /\ to[r].email = req[r].email
           /\ to[r].password = req[r].password /\ to[r].knew = req[r].knew
           /\ \A s \in Requests \ {r} : to[s] = req[s]
  <1>1. req \in [Requests -> Request] /\ req[r] \in Request
    BY DEF TypeOK
  <1> DEFINE to == Moved(r, at)
             q == [req[r] EXCEPT !.at = at]
  <1>2. /\ q \in Request /\ q.at = at /\ q.answer = req[r].answer
        /\ q.client = req[r].client /\ q.email = req[r].email
        /\ q.password = req[r].password /\ q.knew = req[r].knew
    BY <1>1 DEF Request
  <1>3. to = [req EXCEPT ![r] = q]
    BY <1>1 DEF Request, Moved
  <1> HIDE DEF q, to
  <1>4. /\ to \in [Requests -> Request] /\ to[r] = q
        /\ \A s \in Requests \ {r} : to[s] = req[s]
    BY <1>1, <1>2, <1>3
  <1> QED BY <1>2, <1>4 DEF to

LEMMA IdleEffect ==
    ASSUME TypeOK, NEW r \in Requests
    PROVE  /\ Idle \in Request /\ Idle.at = "idle" /\ Idle.answer = None
           /\ [req EXCEPT ![r] = Idle] \in [Requests -> Request]
           /\ [req EXCEPT ![r] = Idle][r] = Idle
           /\ \A s \in Requests \ {r} : [req EXCEPT ![r] = Idle][s] = req[s]
  <1>1. Over \in Nat /\ 0 \in 0 .. Over
    BY LimitAssumption DEF Over
  <1>2. Idle \in Request /\ Idle.at = "idle" /\ Idle.answer = None
    BY <1>1 DEF Idle, Request
  <1> HIDE DEF Idle
  <1> QED BY <1>2 DEF TypeOK

\* Requests a step is not about stay faithful.
LEMMA OthersFaithful ==
    ASSUME TypeOK, NEW r \in Requests, About(r),
           NEW s \in Requests \ {r}, Faithful(s)
    PROVE  Faithful(s)'
  <1>1. req'[s] = req[s]
    BY DEF About
  <1>2. req[s] \in Request /\ (req[s].at # "idle" => /\ req[s].email \in Emails
                                                     /\ req[s].password \in Passwords)
    BY DEF TypeOK
  <1>3. req[s].answer # None => req[s].at = "answered"
    BY DEF Faithful
  <1>4. ASSUME req[s].at # "idle", users[req[s].email] # None
        PROVE  users'[req[s].email] = users[req[s].email]
    BY <1>2, <1>4 DEF About
  <1>5. req[s].at # "idle" => req[s].password # None
    BY <1>2, NoneAssumption
  <1>6. None \notin Answers
    BY NoneAssumption
  <1> QED BY <1>1, <1>2, <1>3, <1>4, <1>5, <1>6 DEF Faithful, Answers

LEMMA InvInit == Init => Inv
  <1> SUFFICES ASSUME Init PROVE Inv
    OBVIOUS
  <1>1. Over \in Nat /\ 0 \in 0 .. Over
    BY LimitAssumption DEF Over
  <1>2. Idle \in Request /\ Idle.at = "idle" /\ Idle.answer = None
    BY <1>1 DEF Idle, Request
  <1>3. TypeOK
    BY <1>1, <1>2, WindowAssumption DEF Init, TypeOK
  <1>4. CounterExpires
    BY DEF Init, CounterExpires
  <1>5. ASSUME NEW r \in Requests PROVE Faithful(r)
    <2>1. req[r] = Idle
      BY DEF Init
    <2>2. None \notin Answers
      BY NoneAssumption
    <2> QED BY <1>2, <2>1, <2>2 DEF Faithful, Answers
  <1> QED BY <1>3, <1>4, <1>5 DEF Inv
-----------------------------------------------------------------------------
\* Most steps answer a request, let it move on, or lose it.
Settles(r) ==
    \/ \E a \in Answers : req' = Answered(r, a)
    \/ \E at \in {"admitted", "free"} : req' = Moved(r, at)
    \/ req' = [req EXCEPT ![r] = Idle]

LEMMA SettlesEffect ==
    ASSUME TypeOK, NEW r \in Requests, Settles(r)
    PROVE  /\ req' \in [Requests -> Request]
           /\ req'[r].at # "idle" => /\ req'[r].client = req[r].client
                                     /\ req'[r].email = req[r].email
                                     /\ req'[r].password = req[r].password
                                     /\ req'[r].knew = req[r].knew
           /\ \A s \in Requests \ {r} : req'[s] = req[s]
  <1>1. ASSUME NEW a \in Answers, req' = Answered(r, a)
        PROVE  /\ req' \in [Requests -> Request]
               /\ req'[r].client = req[r].client /\ req'[r].email = req[r].email
               /\ req'[r].password = req[r].password /\ req'[r].knew = req[r].knew
               /\ \A s \in Requests \ {r} : req'[s] = req[s]
    BY <1>1, AnsweredEffect
  <1>2. ASSUME NEW at \in {"admitted", "free"}, req' = Moved(r, at)
        PROVE  /\ req' \in [Requests -> Request]
               /\ req'[r].client = req[r].client /\ req'[r].email = req[r].email
               /\ req'[r].password = req[r].password /\ req'[r].knew = req[r].knew
               /\ \A s \in Requests \ {r} : req'[s] = req[s]
    BY <1>2, MovedEffect
  <1>3. ASSUME req' = [req EXCEPT ![r] = Idle]
        PROVE  /\ req' \in [Requests -> Request] /\ req'[r].at = "idle"
               /\ \A s \in Requests \ {r} : req'[s] = req[s]
    BY <1>3, IdleEffect
  <1> QED BY <1>1, <1>2, <1>3 DEF Settles

(* TypeOK, action by action.                                               *)

\* What is known of the request a step is about.
LEMMA RequestType ==
    ASSUME TypeOK, NEW r \in Requests
    PROVE  /\ req[r] \in Request
           /\ req[r].at # "idle" => /\ req[r].client \in Clients
                                    /\ req[r].email \in Emails
                                    /\ req[r].password \in Passwords
  BY DEF TypeOK

\* TypeOK of the requests, from the type of the one that changes.
LEMMA RequestsTyped ==
    ASSUME TypeOK, NEW r \in Requests,
           req' \in [Requests -> Request],
           \A s \in Requests \ {r} : req'[s] = req[s],
           req'[r].at # "idle" => /\ req'[r].client \in Clients
                                  /\ req'[r].email \in Emails
                                  /\ req'[r].password \in Passwords
    PROVE  \A s \in Requests : req'[s].at # "idle" =>
              /\ req'[s].client \in Clients
              /\ req'[s].email \in Emails /\ req'[s].password \in Passwords
  BY RequestType

\* Changes to the counters keep their types and those of the time to live.
LEMMA TypeStep == TypeOK /\ [Next]_vars => TypeOK'
  <1> SUFFICES ASSUME TypeOK, [Next]_vars PROVE TypeOK'
    OBVIOUS
  <1> USE DEF Answers
  <1>0. Over = MaxRequests + 1 /\ MaxRequests \in Nat \ {0} /\ Over \in Nat
    BY LimitAssumption DEF Over
  <1>1. ASSUME NEW r \in Requests, NEW c \in Clients,
               NEW kind \in {"register", "login"}, NEW e \in Emails,
               NEW p \in Passwords, Arrive(r, c, kind, e, p)
        PROVE  TypeOK'
    <2> DEFINE q == [at |-> "new", client |-> c, kind |-> kind, email |-> e,
                     password |-> p, current |-> 0, answer |-> None,
                     knew |-> users[e] = p]
    <2>1. /\ q \in Request /\ q.at = "new" /\ q.client = c /\ q.email = e
          /\ q.password = p
      BY <1>0 DEF Request
    <2>2. req' = [req EXCEPT ![r] = q]
      BY <1>1 DEF Arrive
    <2> HIDE DEF q
    <2>3. /\ req' \in [Requests -> Request] /\ req'[r] = q
          /\ \A s \in Requests \ {r} : req'[s] = req[s]
      BY <2>1, <2>2 DEF TypeOK
    <2> QED BY <1>1, <2>1, <2>3, RequestsTyped DEF Arrive, TypeOK
  <1>2. ASSUME NEW r \in Requests, Incr(r) PROVE TypeOK'
    <2> DEFINE c == req[r].client
               n == Incremented(counter[c])
    <2>1. req[r].at = "new" /\ c \in Clients /\ counter[c] \in 0 .. Over
      BY <1>2, RequestType DEF Incr, TypeOK
    <2>2. n \in 1 .. Over
      BY <1>0, <2>1 DEF Incremented
    <2>3. /\ counter' = [counter EXCEPT ![c] = n] /\ ttl' = ttl
          /\ users' = users /\ lost' = lost
          /\ req' = Counted(r, n)
      BY <1>2 DEF Incr
    <2> HIDE DEF n
    <2>4. /\ counter' \in [Clients -> 0 .. Over]
          /\ \A d \in Clients : ttl'[d] > 0 => counter'[d] > 0
      BY <2>1, <2>2, <2>3 DEF TypeOK
    <2>5. n \in 0 .. Over
      BY <2>2
    <2>6. /\ req' \in [Requests -> Request]
          /\ req'[r].client = req[r].client /\ req'[r].email = req[r].email
          /\ req'[r].password = req[r].password
          /\ \A s \in Requests \ {r} : req'[s] = req[s]
      BY <2>3, <2>5, CountedEffect
    <2> HIDE DEF c
    <2> QED BY <2>1, <2>3, <2>4, <2>6, RequestType, RequestsTyped DEF TypeOK
  <1>3. ASSUME NEW r \in Requests, req[r].at # "idle",
               counter' = counter, Settles(r),
               users' \in [Emails -> Passwords \cup {None}],
               ttl' \in [Clients -> 0 .. Window],
               \A c \in Clients : ttl'[c] > 0 => counter[c] > 0,
               lost' \subseteq Clients
        PROVE  TypeOK'
    <2>1. /\ req' \in [Requests -> Request]
          /\ req'[r].at # "idle" => /\ req'[r].client = req[r].client
                                    /\ req'[r].email = req[r].email
                                    /\ req'[r].password = req[r].password
          /\ \A s \in Requests \ {r} : req'[s] = req[s]
      BY <1>3, SettlesEffect
    <2> QED BY <1>3, <2>1, RequestType, RequestsTyped DEF TypeOK
  <1>4. ASSUME NEW r \in Requests, Expire(r) PROVE TypeOK'
    <2>1. Settles(r) /\ req[r].at = "counted" /\ req[r].client \in Clients
      BY <1>4, RequestType DEF Expire, Settles
    <2>2. /\ ttl' \in [Clients -> 0 .. Window]
          /\ \A c \in Clients : ttl'[c] > 0 => counter[c] > 0
      BY <1>4, <2>1, WindowAssumption DEF Expire, WithTtl, Started, TypeOK
    <2>3. counter' = counter /\ users' = users /\ lost' \subseteq lost
      BY <1>4 DEF Expire
    <2> QED BY <1>3, <2>1, <2>2, <2>3 DEF TypeOK
  <1>5. ASSUME NEW r \in Requests, FindUser(r) \/ LoginUser(r) PROVE TypeOK'
    <2>1. /\ Settles(r) /\ req[r].at = "admitted"
          /\ UNCHANGED <<counter, ttl, users, lost>>
      BY <1>5 DEF FindUser, LoginUser, Settles
    <2> QED BY <1>3, <2>1 DEF TypeOK
  <1>6. ASSUME NEW r \in Requests, CreateUser(r) \/ CreateUserUnanswered(r)
        PROVE  TypeOK'
    <2>1. /\ Settles(r) /\ req[r].at = "free"
          /\ UNCHANGED <<counter, ttl, lost>>
      BY <1>6 DEF CreateUser, CreateUserUnanswered, Settles
    <2>2. \/ users' = users
          \/ users' = [users EXCEPT ![req[r].email] = req[r].password]
      BY <1>6 DEF CreateUser, CreateUserUnanswered
    <2>3. users' \in [Emails -> Passwords \cup {None}]
      BY <2>1, <2>2, RequestType DEF TypeOK
    <2> QED BY <1>3, <2>1, <2>3 DEF TypeOK
  <1>7. ASSUME NEW r \in Requests, Fails(r) PROVE TypeOK'
    <2>1. /\ Settles(r) /\ req[r].at # "idle"
          /\ UNCHANGED <<counter, ttl, users>>
      BY <1>7 DEF Fails, Settles
    <2>2. lost' \subseteq Clients
      BY <1>7, <2>1, RequestType DEF Fails, TypeOK
    <2> QED BY <1>3, <2>1, <2>2 DEF TypeOK
  <1>8. ASSUME NEW c \in Clients, TimePasses(c) PROVE TypeOK'
    <2>1. /\ ttl[c] > 0 /\ ttl' = [ttl EXCEPT ![c] = @ - 1]
          /\ \/ ttl[c] = 1 /\ counter' = [counter EXCEPT ![c] = 0]
             \/ ttl[c] # 1 /\ counter' = counter
          /\ users' = users /\ req' = req /\ lost' \subseteq lost
      BY <1>8 DEF TimePasses
    <2>2. counter' \in [Clients -> 0 .. Over] /\ ttl' \in [Clients -> 0 .. Window]
      BY <1>0, <2>1, WindowAssumption DEF TypeOK
    <2>3. \A d \in Clients : ttl'[d] > 0 => counter'[d] > 0
      BY <2>1 DEF TypeOK
    <2> QED BY <2>1, <2>2, <2>3 DEF TypeOK
  <1>9. CASE UNCHANGED vars
    BY <1>9 DEF vars, TypeOK
  <1> QED BY <1>1, <1>2, <1>4, <1>5, <1>6, <1>7, <1>8, <1>9 DEF Next
-----------------------------------------------------------------------------
(* CounterExpires.                                                         *)

\* A request that is not between INCR and EXPIRE takes no excuse away.
LEMMA CounterFrame ==
    ASSUME CounterExpires, NEW r \in Requests, req[r].at # "counted",
           \A s \in Requests \ {r} : req'[s] = req[s],
           UNCHANGED <<counter, ttl>>, lost' = lost
    PROVE  CounterExpires'
  <1> SUFFICES ASSUME NEW c \in Clients, counter[c] > 0, ttl[c] = 0,
                      c \notin lost
               PROVE  \E s \in Requests : /\ req'[s].client = c
                                         /\ req'[s].at = "counted"
    BY DEF CounterExpires
  <1>1. PICK s \in Requests : req[s].client = c /\ req[s].at = "counted"
    BY DEF CounterExpires
  <1> QED BY <1>1

LEMMA CounterStep == TypeOK /\ CounterExpires /\ [Next]_vars => CounterExpires'
  <1> SUFFICES ASSUME TypeOK, CounterExpires, [Next]_vars PROVE CounterExpires'
    OBVIOUS
  <1>0. MaxRequests \in Nat \ {0} /\ Over = MaxRequests + 1
    BY LimitAssumption DEF Over
  <1>1. ASSUME NEW r \in Requests, NEW c \in Clients,
               NEW kind \in {"register", "login"}, NEW e \in Emails,
               NEW p \in Passwords, Arrive(r, c, kind, e, p)
        PROVE  CounterExpires'
    <2>1. /\ \A s \in Requests \ {r} : req'[s] = req[s]
          /\ req[r].at # "counted"
          /\ UNCHANGED <<counter, ttl, lost>>
      BY <1>1 DEF Arrive, TypeOK
    <2> QED BY <2>1, CounterFrame
  <1>2. ASSUME NEW r \in Requests, Incr(r) PROVE CounterExpires'
    <2> DEFINE d == req[r].client
               n == Incremented(counter[d])
    <2>1. /\ req[r].at = "new" /\ d \in Clients /\ counter[d] \in 0 .. Over
          /\ counter' = [counter EXCEPT ![d] = n]
          /\ req' = Counted(r, n)
          /\ UNCHANGED <<ttl, lost>>
      BY <1>2, RequestType DEF Incr, TypeOK
    <2>2. n \in 0 .. Over
      BY <1>0, <2>1 DEF Incremented
    <2> HIDE DEF n
    <2>3. /\ req'[r].client = d /\ req'[r].at = "counted"
          /\ \A s \in Requests \ {r} : req'[s] = req[s]
      BY <2>1, <2>2, CountedEffect
    <2> HIDE DEF d
    <2>4. ASSUME NEW c \in Clients, counter'[c] > 0, ttl'[c] = 0, c \notin lost'
          PROVE  \E s \in Requests : req'[s].client = c /\ req'[s].at = "counted"
      <3>1. CASE c = d
        BY <2>3, <3>1
      <3>2. CASE c # d
        <4>1. counter'[c] = counter[c]
          BY <2>1, <3>2 DEF TypeOK
        <4>2. PICK s \in Requests : req[s].client = c /\ req[s].at = "counted"
          BY <2>1, <2>4, <4>1 DEF CounterExpires
        <4> QED BY <2>1, <2>3, <4>2
      <3> QED BY <3>1, <3>2
    <2> QED BY <2>4 DEF CounterExpires
  <1>3. ASSUME NEW r \in Requests, Expire(r) PROVE CounterExpires'
    <2> DEFINE d == req[r].client
    <2>1. /\ d \in Clients /\ Settles(r) /\ counter' = counter
          /\ ttl' = WithTtl(r) /\ lost' = lost \ {d}
      BY <1>3, RequestType DEF Expire, Settles, Answers
    <2>2. \A s \in Requests \ {r} : req'[s] = req[s]
      BY <2>1, SettlesEffect
    <2>3. ASSUME NEW c \in Clients, counter'[c] > 0, ttl'[c] = 0, c \notin lost'
          PROVE  \E s \in Requests : req'[s].client = c /\ req'[s].at = "counted"
      <3>1. c # d /\ ttl[c] = 0 /\ c \notin lost
        BY <2>1, <2>3, WindowAssumption DEF WithTtl, Started, TypeOK
      <3>2. PICK s \in Requests : req[s].client = c /\ req[s].at = "counted"
        BY <2>1, <2>3, <3>1 DEF CounterExpires
      <3> QED BY <2>2, <3>1, <3>2
    <2> QED BY <2>3 DEF CounterExpires
  <1>4. ASSUME NEW r \in Requests,
               \/ FindUser(r) \/ LoginUser(r)
               \/ CreateUser(r) \/ CreateUserUnanswered(r)
        PROVE  CounterExpires'
    <2>1. /\ Settles(r) /\ req[r].at # "counted"
          /\ UNCHANGED <<counter, ttl, lost>>
      BY <1>4 DEF FindUser, LoginUser, CreateUser, CreateUserUnanswered, Settles, Answers
    <2> QED BY <2>1, SettlesEffect, CounterFrame
  <1>5. ASSUME NEW r \in Requests, Fails(r) PROVE CounterExpires'
    <2>1. Settles(r) /\ UNCHANGED <<counter, ttl>>
      BY <1>5 DEF Fails, Settles, Answers
    <2>2. \A s \in Requests \ {r} : req'[s] = req[s]
      BY <2>1, SettlesEffect
    <2>3. CASE req[r].at # "counted"
      <3>1. lost' = lost
        BY <1>5, <2>3 DEF Fails
      <3> QED BY <2>1, <2>2, <2>3, <3>1, CounterFrame
    <2>4. CASE req[r].at = "counted"
      <3>1. lost' = lost \cup {req[r].client}
        BY <1>5, <2>4 DEF Fails
      <3>2. ASSUME NEW c \in Clients, counter[c] > 0, ttl[c] = 0, c \notin lost'
            PROVE  \E s \in Requests : req'[s].client = c /\ req'[s].at = "counted"
        <4>1. PICK s \in Requests : req[s].client = c /\ req[s].at = "counted"
          BY <3>1, <3>2 DEF CounterExpires
        <4>2. s # r
          BY <3>1, <3>2, <4>1
        <4> QED BY <2>2, <4>1, <4>2
      <3> QED BY <2>1, <3>2 DEF CounterExpires
    <2> QED BY <2>3, <2>4
  <1>6. ASSUME NEW c \in Clients, TimePasses(c) PROVE CounterExpires'
    <2>1. /\ ttl[c] > 0 /\ ttl' = [ttl EXCEPT ![c] = @ - 1] /\ req' = req
          /\ \/ /\ ttl[c] = 1 /\ counter' = [counter EXCEPT ![c] = 0]
                /\ lost' = lost \ {c}
             \/ ttl[c] # 1 /\ counter' = counter /\ lost' = lost
      BY <1>6 DEF TimePasses
    <2>2. ASSUME NEW d \in Clients, counter'[d] > 0, ttl'[d] = 0
          PROVE  d # c /\ counter'[d] = counter[d] /\ ttl[d] = 0 /\ (d \in lost => d \in lost')
      BY <2>1, <2>2 DEF TypeOK
    <2> QED BY <2>1, <2>2 DEF CounterExpires
  <1>7. CASE UNCHANGED vars
    BY <1>7 DEF vars, CounterExpires
  <1> QED BY <1>1, <1>2, <1>3, <1>4, <1>5, <1>6, <1>7 DEF Next
-----------------------------------------------------------------------------
(* AnswersAreTrue.                                                         *)

\* The account of a request whose password was right.
LEMMA RightPassword ==
    ASSUME TypeOK, NEW r \in Requests, Faithful(r), req[r].at # "idle",
           \A e \in Emails : users[e] # None => users'[e] = users[e],
           req[r].knew
    PROVE  users'[req[r].email] = req[r].password
  <1>1. req[r].email \in Emails /\ req[r].password # None
    BY RequestType, NoneAssumption
  <1>2. users[req[r].email] = req[r].password
    BY DEF Faithful
  <1> QED BY <1>1, <1>2

\* A step that lets a request move on, or drops it, says nothing.
LEMMA SilentFaithful ==
    ASSUME TypeOK, NEW r \in Requests, Faithful(r), req[r].at # "idle",
           \A e \in Emails : users[e] # None => users'[e] = users[e],
           req'[r].answer = None \/ req'[r].answer = "error",
           req'[r].at # "answered" => req'[r].answer = None,
           req'[r].at # "idle" => /\ req'[r].email = req[r].email
                                 /\ req'[r].password = req[r].password
                                 /\ req'[r].knew = req[r].knew
    PROVE  Faithful(r)'
  <1>1. None \notin {"created", "token", "taken", "refused"}
    BY NoneAssumption DEF Answers
  <1>2. (req'[r].at # "idle" /\ req'[r].knew)
            => users'[req'[r].email] = req'[r].password
    BY RightPassword
  <1> QED BY <1>1, <1>2 DEF Faithful

\* One of the four answers that say something.
LEMMA AnswerFaithful ==
    ASSUME TypeOK, NEW r \in Requests, Faithful(r), req[r].at # "idle",
           \A e \in Emails : users[e] # None => users'[e] = users[e],
           NEW a \in Answers, req' = Answered(r, a),
           a \in {"created", "token"} => users'[req[r].email] = req[r].password,
           a = "taken" => users'[req[r].email] # None,
           a = "refused" => ~req[r].knew
    PROVE  Faithful(r)'
  <1>1. /\ req'[r].at = "answered" /\ req'[r].answer = a
        /\ req'[r].email = req[r].email /\ req'[r].password = req[r].password
        /\ req'[r].knew = req[r].knew
    BY AnsweredEffect
  <1>2. req[r].knew => users'[req[r].email] = req[r].password
    BY RightPassword
  <1> QED BY <1>1, <1>2 DEF Faithful

LEMMA FaithfulStep ==
    ASSUME TypeOK, \A r \in Requests : Faithful(r), [Next]_vars
    PROVE  \A r \in Requests : Faithful(r)'
  <1>0. None \notin Passwords /\ None \notin Answers
    BY NoneAssumption
  \* What is left to show of a step about one request.
  <1>1. ASSUME NEW r \in Requests, About(r), Faithful(r)'
        PROVE  \A s \in Requests : Faithful(s)'
    BY <1>1, OthersFaithful
  <1>2. ASSUME NEW r \in Requests, NEW c \in Clients,
               NEW kind \in {"register", "login"}, NEW e \in Emails,
               NEW p \in Passwords, Arrive(r, c, kind, e, p)
        PROVE  \A s \in Requests : Faithful(s)'
    <2>1. /\ req'[r].at = "new" /\ req'[r].answer = None /\ req'[r].email = e
          /\ req'[r].password = p /\ req'[r].knew = (users[e] = p)
          /\ users' = users
          /\ \A s \in Requests \ {r} : req'[s] = req[s]
      BY <1>2 DEF Arrive, TypeOK
    <2>2. About(r)
      BY <2>1 DEF About
    <2>3. Faithful(r)'
      BY <1>0, <2>1 DEF Faithful, Answers
    <2> QED BY <1>1, <2>2, <2>3
  <1>3. ASSUME NEW r \in Requests, Incr(r)
        PROVE  \A s \in Requests : Faithful(s)'
    <2> DEFINE n == Incremented(counter[req[r].client])
    <2>1. /\ req[r].at = "new" /\ users' = users
          /\ req' = Counted(r, n)
      BY <1>3 DEF Incr
    <2>2. n \in 0 .. Over
      BY <2>1, RequestType, LimitAssumption DEF Incremented, TypeOK, Over
    <2> HIDE DEF n
    <2>3. /\ req'[r].at = "counted" /\ req'[r].answer = req[r].answer
          /\ req'[r].email = req[r].email /\ req'[r].password = req[r].password
          /\ req'[r].knew = req[r].knew
          /\ \A s \in Requests \ {r} : req'[s] = req[s]
      BY <2>1, <2>2, CountedEffect
    <2>4. About(r)
      BY <2>1, <2>3 DEF About
    <2>5. req[r].answer = None
      BY <2>1 DEF Faithful
    <2>6. Faithful(r)'
      BY <2>1, <2>3, <2>5, SilentFaithful
    <2> QED BY <1>1, <2>4, <2>6
  <1>4. ASSUME NEW r \in Requests, Settles(r), req[r].at # "idle", About(r),
               \/ \E at \in {"admitted", "free"} : req' = Moved(r, at)
               \/ req' = Answered(r, "error")
               \/ req' = [req EXCEPT ![r] = Idle],
               req[r].at # "answered"
        PROVE  \A s \in Requests : Faithful(s)'
    <2>1. req[r].answer = None
      BY <1>4 DEF Faithful
    <2>2. /\ req'[r].answer = None \/ req'[r].answer = "error"
          /\ req'[r].at # "answered" => req'[r].answer = None
      <3>1. CASE \E at \in {"admitted", "free"} : req' = Moved(r, at)
        BY <2>1, <3>1, MovedEffect
      <3>2. CASE req' = Answered(r, "error")
        BY <3>2, AnsweredEffect DEF Answers
      <3>3. CASE req' = [req EXCEPT ![r] = Idle]
        BY <3>3, IdleEffect
      <3> QED BY <1>4, <3>1, <3>2, <3>3
    <2>3. req'[r].at # "idle" => /\ req'[r].email = req[r].email
                                /\ req'[r].password = req[r].password
                                /\ req'[r].knew = req[r].knew
      BY <1>4, SettlesEffect
    <2>4. Faithful(r)'
      BY <1>4, <2>2, <2>3, SilentFaithful DEF About
    <2> QED BY <1>1, <1>4, <2>4
  <1>5. ASSUME NEW r \in Requests, req[r].at # "idle", About(r),
               NEW a \in Answers, req' = Answered(r, a),
               a \in {"created", "token"} => users'[req[r].email] = req[r].password,
               a = "taken" => users'[req[r].email] # None,
               a = "refused" => ~req[r].knew
        PROVE  \A s \in Requests : Faithful(s)'
    <2>1. Faithful(r)'
      BY <1>5, AnswerFaithful DEF About
    <2> QED BY <1>1, <1>5, <2>1
  <1>6. ASSUME NEW r \in Requests, Settles(r), users' = users
        PROVE  About(r)
    BY <1>6, SettlesEffect DEF About
  <1>7. ASSUME NEW r \in Requests, Expire(r)
        PROVE  \A s \in Requests : Faithful(s)'
    <2>1. /\ req[r].at = "counted" /\ users' = users
          /\ \/ req' = Answered(r, "limited")
             \/ req' = Moved(r, "admitted")
      BY <1>7 DEF Expire
    <2>2. Settles(r) /\ About(r)
      BY <1>6, <2>1 DEF Settles, Answers
    <2> QED BY <1>4, <1>5, <2>1, <2>2 DEF Answers
  <1>8. ASSUME NEW r \in Requests, FindUser(r)
        PROVE  \A s \in Requests : Faithful(s)'
    <2>1. /\ req[r].at = "admitted" /\ users' = users
          /\ \/ users[req[r].email] # None /\ req' = Answered(r, "taken")
             \/ req' = Moved(r, "free")
      BY <1>8 DEF FindUser
    <2>2. Settles(r) /\ About(r)
      BY <1>6, <2>1 DEF Settles, Answers
    <2> QED BY <1>4, <1>5, <2>1, <2>2 DEF Answers
  <1>9. ASSUME NEW r \in Requests, LoginUser(r)
        PROVE  \A s \in Requests : Faithful(s)'
    <2>1. /\ req[r].at = "admitted" /\ users' = users
          /\ \/ /\ users[req[r].email] = req[r].password
                /\ req' = Answered(r, "token")
             \/ /\ users[req[r].email] # req[r].password
                /\ req' = Answered(r, "refused")
      BY <1>9 DEF LoginUser
    <2>2. Settles(r) /\ About(r)
      BY <1>6, <2>1 DEF Settles, Answers
    <2>3. req[r].knew => users[req[r].email] = req[r].password
      BY <2>1 DEF Faithful
    <2> QED BY <1>5, <2>1, <2>2, <2>3 DEF Answers
  <1>10. ASSUME NEW r \in Requests, CreateUser(r) \/ CreateUserUnanswered(r)
         PROVE  \A s \in Requests : Faithful(s)'
    <2>1. /\ req[r].at = "free" /\ Settles(r)
          /\ req[r].email \in Emails
      BY <1>10, RequestType DEF CreateUser, CreateUserUnanswered, Settles, Answers
    <2>2. CASE users[req[r].email] = None
      <3>1. /\ users' = [users EXCEPT ![req[r].email] = req[r].password]
            /\ \/ req' = Answered(r, "created")
               \/ req' = Answered(r, "error")
               \/ req' = [req EXCEPT ![r] = Idle]
        BY <1>10, <2>2 DEF CreateUser, CreateUserUnanswered, Inserted
      <3>2. /\ users'[req[r].email] = req[r].password
            /\ \A e \in Emails : users[e] # None => users'[e] = users[e]
        BY <2>1, <2>2, <3>1 DEF TypeOK
      <3>3. About(r)
        BY <2>1, <3>2, SettlesEffect DEF About
      <3> QED BY <1>4, <1>5, <2>1, <3>1, <3>2, <3>3 DEF Answers
    <2>3. CASE users[req[r].email] # None
      <3>1. /\ users' = users
            /\ req' = Answered(r, "taken") \/ req' = Answered(r, "error")
        BY <1>10, <2>3 DEF CreateUser, CreateUserUnanswered, Inserted
      <3>2. About(r)
        BY <1>6, <2>1, <3>1
      <3> QED BY <1>4, <1>5, <2>1, <2>3, <3>1, <3>2 DEF Answers
    <2> QED BY <2>2, <2>3
  <1>11. ASSUME NEW r \in Requests, Fails(r)
         PROVE  \A s \in Requests : Faithful(s)'
    <2>1. /\ req[r].at \in {"new", "counted", "admitted", "free"}
          /\ users' = users
          /\ req' = Answered(r, "error") \/ req' = [req EXCEPT ![r] = Idle]
      BY <1>11 DEF Fails
    <2>2. Settles(r) /\ About(r)
      BY <1>6, <2>1 DEF Settles, Answers
    <2> QED BY <1>4, <2>1, <2>2
  <1>12. ASSUME users' = users, req' = req
         PROVE  \A s \in Requests : Faithful(s)'
    BY <1>12 DEF Faithful
  <1>13. CASE \E c \in Clients : TimePasses(c)
    BY <1>12, <1>13 DEF TimePasses
  <1>14. CASE UNCHANGED vars
    BY <1>12, <1>14 DEF vars
  <1> QED BY <1>2, <1>3, <1>7, <1>8, <1>9, <1>10, <1>11, <1>13, <1>14 DEF Next

-----------------------------------------------------------------------------
(* The theorems.                                                           *)

LEMMA InvStep == Inv /\ [Next]_vars => Inv'
  BY TypeStep, CounterStep, FaithfulStep DEF Inv

LEMMA InvAlways == Spec => []Inv
  BY InvInit, InvStep, PTL DEF Spec

\* rateLimiter.ts and modules/auth: every variable keeps its type, and only a
\* counter that exists has a time to live.
THEOREM GateTypes == Spec => []TypeOK
  <1>1. Inv => TypeOK
    BY DEF Inv
  <1> QED BY <1>1, InvAlways, PTL

\* rateLimiter.ts: EXPIRE NX on every request leaves no counter without a time
\* to live, for any number of pods, clients and concurrent requests.
THEOREM CountersExpire == Spec => []CounterExpires
  <1>1. Inv => CounterExpires
    BY DEF Inv
  <1> QED BY <1>1, InvAlways, PTL

\* registerUser() and loginUser(): what a client is told about an account is so,
\* however registrations of one address race and wherever they break off.
THEOREM AnswersHold == Spec => []AnswersAreTrue
  <1>1. Inv => AnswersAreTrue
    BY DEF Inv, Faithful, AnswersAreTrue
  <1> QED BY <1>1, InvAlways, PTL
=============================================================================
