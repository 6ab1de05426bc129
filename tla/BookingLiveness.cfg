SPECIFICATION FairSpec
CONSTANTS
    Seats = {s1}
    Users = {u1}
    BookingIds = {b1}
    Requests = {r1, r2}
    Workers = {w1, w2}
    MaxAttempts = 2
    MaxStalls = 1
    KeepFailed = 1
    MaxSends = 2
    None = None
INVARIANTS
    EventsMatchHistory
PROPERTIES
    ScheduledHoldIsSettled
