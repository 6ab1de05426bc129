\* One client, one address with two passwords, two concurrent requests.
CONSTANTS
    Clients = {c1}
    Emails = {e1}
    Passwords = {p1, p2}
    Requests = {r1, r2}
    MaxRequests = 2
    Window = 2
    None = None
SPECIFICATION Spec
INVARIANTS
    TypeOK
    CounterExpires
    AnswersAreTrue
PROPERTIES
    NobodyIsLockedOut
