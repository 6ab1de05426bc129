-------------------------------- MODULE Gate --------------------------------
(***************************************************************************)
(* What a request meets before it has a session: the rate limiter          *)
(* (shared/middleware/rateLimiter.ts), a counter per client address in     *)
(* Redis, and the routes that register and log in (modules/auth).  Any     *)
(* number of pods run them; a request is one actor, whichever pod has it.  *)
(*                                                                         *)
(* Every Redis command and every SQL statement is an action.  A counter    *)
(* above the limit behaves like any other above the limit, so that all of  *)
(* them are one value.  A time to live is a few ticks, which may pass at   *)
(* any moment.                                                             *)
(***************************************************************************)
EXTENDS Naturals

CONSTANTS
    Clients,      \* request.ip, as lb-proxy reports it
    Emails,       \* e-mail addresses
    Passwords,
    Requests,     \* slots for concurrent requests
    MaxRequests,  \* RATE_LIMIT_MAX_REQUESTS
    Window,       \* RATE_LIMIT_WINDOW_SECONDS, in ticks
    None

Answers == {"created", "taken", "token", "refused", "limited", "error"}

ASSUME LimitAssumption == MaxRequests \in Nat \ {0}
ASSUME WindowAssumption == Window \in Nat \ {0}
ASSUME NoneAssumption == None \notin Passwords \cup Answers

VARIABLES
    counter,      \* counter[c]: value of the key rate_limit:c, 0 without a key
    ttl,          \* ttl[c]: time to live of that key, 0 for none
    users,        \* users[e]: the password of the account with address e
    req,          \* what each request is doing
    lost          \* history: clients of whom a request ended between INCR and
                  \* EXPIRE and no EXPIRE came since

vars == <<counter, ttl, users, req, lost>>

Over == MaxRequests + 1

\* A request: where it is, what it asks for, what INCR returned, the answer, and
\* whether the password was that of the account when it came.
Request ==
    [at : {"idle", "new", "counted", "admitted", "free", "answered"},
     client : Clients \cup {None}, kind : {"register", "login"},
     email : Emails \cup {None}, password : Passwords \cup {None},
     current : 0 .. Over, answer : Answers \cup {None}, knew : BOOLEAN]

Idle == [at |-> "idle", client |-> None, kind |-> "login", email |-> None,
         password |-> None, current |-> 0, answer |-> None, knew |-> FALSE]

TypeOK ==
    /\ counter \in [Clients -> 0 .. Over]
    /\ ttl \in [Clients -> 0 .. Window]
    /\ \A c \in Clients : ttl[c] > 0 => counter[c] > 0
    /\ users \in [Emails -> Passwords \cup {None}]
    /\ req \in [Requests -> Request]
    /\ \A r \in Requests : req[r].at # "idle" =>
          /\ req[r].client \in Clients
          /\ req[r].email \in Emails /\ req[r].password \in Passwords
    /\ lost \subseteq Clients

Init ==
    /\ counter = [c \in Clients |-> 0]
    /\ ttl = [c \in Clients |-> 0]
    /\ users = [e \in Emails |-> None]
    /\ req = [r \in Requests |-> Idle]
    /\ lost = {}

\* The request goes on, the first time with what INCR returned.
Counted(r, n) == [req EXCEPT ![r].at = "counted", ![r].current = n]
Moved(r, at) == [req EXCEPT ![r].at = at]

\* The request is over: its route answers, or the error handler for it.
Answered(r, answer) ==
    [req EXCEPT ![r].at = "answered", ![r].answer = answer]

-----------------------------------------------------------------------------
(* The rate limiter, a hook before every route.                            *)

Arrive(r, c, kind, e, p) ==
    /\ req[r].at \in {"idle", "answered"}
    /\ req' = [req EXCEPT ![r] =
                 [at |-> "new", client |-> c, kind |-> kind, email |-> e,
                  password |-> p, current |-> 0, answer |-> None,
                  knew |-> users[e] = p]]
    /\ UNCHANGED <<counter, ttl, users, lost>>

\* INCR creates the key if there is none.
Incremented(n) == IF n < Over THEN n + 1 ELSE Over
Incr(r) ==
    LET c == req[r].client
        n == Incremented(counter[c])
    IN  /\ req[r].at = "new"
        /\ counter' = [counter EXCEPT ![c] = n]
        /\ req' = Counted(r, n)
        /\ UNCHANGED <<ttl, users, lost>>

\* EXPIRE key NX: a key without a time to live gets one; nothing happens to a
\* missing key.  The first mutated form is called for the first request of a
\* window only, the second leaves a time to live behind for a missing key, and the
\* third, without NX, begins the window anew with every request.
Started(c) == [ttl EXCEPT ![c] = Window]
WithTtlFirstOnly(r) ==
    IF req[r].current = 1 /\ counter[req[r].client] > 0 /\ ttl[req[r].client] = 0
    THEN Started(req[r].client) ELSE ttl
WithTtlForMissing(r) == IF ttl[req[r].client] = 0 THEN Started(req[r].client) ELSE ttl
WithTtlAnew(r) == IF counter[req[r].client] > 0 THEN Started(req[r].client) ELSE ttl
WithTtl(r) ==
    IF counter[req[r].client] > 0 /\ ttl[req[r].client] = 0
    THEN Started(req[r].client) ELSE ttl

Expire(r) ==
    /\ req[r].at = "counted"
    /\ ttl' = WithTtl(r)
    /\ lost' = lost \ {req[r].client}
    /\ req' = IF req[r].current > MaxRequests THEN Answered(r, "limited")
              ELSE Moved(r, "admitted")
    /\ UNCHANGED <<counter, users>>

\* Redis removes a key whose time to live is over.
TimePasses(c) ==
    /\ ttl[c] > 0
    /\ ttl' = [ttl EXCEPT ![c] = @ - 1]
    /\ IF ttl[c] = 1
       THEN counter' = [counter EXCEPT ![c] = 0] /\ lost' = lost \ {c}
       ELSE UNCHANGED <<counter, lost>>
    /\ UNCHANGED <<users, req>>

-----------------------------------------------------------------------------
(* registerUser() and loginUser().                                         *)

\* registerUser() looks the address up, then spends a while hashing.
FindUser(r) ==
    /\ req[r].at = "admitted" /\ req[r].kind = "register"
    /\ req' = IF users[req[r].email] # None THEN Answered(r, "taken")
              ELSE Moved(r, "free")
    /\ UNCHANGED <<counter, ttl, users, lost>>

\* The INSERT: the unique index on the address decides between registrations that
\* all found it free.  The mutated form has no such index.
InsertedOverwriting(r) == TRUE
Inserted(r) == users[req[r].email] = None

\* Who is too late is told "taken" if the code 23505 is found on the error, and
\* gets a 500 if the library has wrapped the driver's error.
CreateUser(r) ==
    /\ req[r].at = "free"
    /\ IF Inserted(r)
       THEN /\ users' = [users EXCEPT ![req[r].email] = req[r].password]
            /\ req' = Answered(r, "created")
       ELSE /\ \E answer \in {"taken", "error"} : req' = Answered(r, answer)
            /\ UNCHANGED users
    /\ UNCHANGED <<counter, ttl, lost>>

\* The row is in, but the reply of the database or the pod is lost.
CreateUserUnanswered(r) ==
    /\ req[r].at = "free" /\ Inserted(r)
    /\ users' = [users EXCEPT ![req[r].email] = req[r].password]
    /\ req' \in {Answered(r, "error"), [req EXCEPT ![r] = Idle]}
    /\ UNCHANGED <<counter, ttl, lost>>

\* loginUser(): one SELECT, and a comparison of hashes.
LoginUser(r) ==
    /\ req[r].at = "admitted" /\ req[r].kind = "login"
    /\ req' = Answered(r, IF users[req[r].email] = req[r].password
                          THEN "token" ELSE "refused")
    /\ UNCHANGED <<counter, ttl, users, lost>>

\* A command or statement fails, or the pod dies: an error, or no answer at all.
Fails(r) ==
    /\ req[r].at \in {"new", "counted", "admitted", "free"}
    /\ req' \in {Answered(r, "error"), [req EXCEPT ![r] = Idle]}
    /\ lost' = IF req[r].at = "counted" THEN lost \cup {req[r].client} ELSE lost
    /\ UNCHANGED <<counter, ttl, users>>

Next ==
    \/ \E r \in Requests :
         \/ \E c \in Clients, kind \in {"register", "login"}, e \in Emails,
               p \in Passwords : Arrive(r, c, kind, e, p)
         \/ Incr(r) \/ Expire(r)
         \/ FindUser(r) \/ LoginUser(r)
         \/ CreateUser(r) \/ CreateUserUnanswered(r)
         \/ Fails(r)
    \/ \E c \in Clients : TimePasses(c)

\* Time passes.  Requests may fail, but not all those of a client
\* between the same two commands.
Spec ==
    /\ Init /\ [][Next]_vars
    /\ \A c \in Clients :
         /\ WF_vars(TimePasses(c))
         /\ SF_vars(\E r \in Requests : req[r].client = c /\ Expire(r))

-----------------------------------------------------------------------------
(* Properties.                                                             *)

\* rateLimiter.ts: a counter never stays without a time to live.  Where it has
\* none, a request is just about to set it, or the last one that should have
\* ended before it could, and no later one has come as far since.
CounterExpires ==
    \A c \in Clients :
        (counter[c] > 0 /\ ttl[c] = 0) =>
            \/ c \in lost
            \/ \E r \in Requests : req[r].client = c /\ req[r].at = "counted"

\* A client that keeps coming back is not locked out for good, wherever requests
\* were cut off and however their commands interleave.
NobodyIsLockedOut ==
    \A c \in Clients :
        ([]<>(\E r \in Requests : req[r].client = c /\ req[r].at = "counted"))
            => []<>(counter[c] <= MaxRequests)

\* Answers say what is so, also when registrations of one address race: who is
\* told "created" owns the account and keeps it, "taken" means that there is an
\* account, a token goes to who knows its password, and who has known it from the
\* start is not refused.
AnswersAreTrue ==
    \A r \in Requests :
        LET q == req[r] IN
            /\ q.answer \in {"created", "token"} => users[q.email] = q.password
            /\ q.answer = "taken" => users[q.email] # None
            /\ q.answer = "refused" => ~q.knew
=============================================================================
