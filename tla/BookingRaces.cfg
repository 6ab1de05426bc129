SPECIFICATION Spec
CONSTANTS
    Seats = {s1}
    Users = {u1}
    BookingIds = {b1, b2}
    Requests = {r1, r2}
    Workers = {w1, w2}
    MaxAttempts = 1
    MaxStalls = 1
    KeepFailed = 1
    MaxSends = 0
    None = None
SYMMETRY Interchangeable
INVARIANTS
    TypeOK
    SeatMatchesBookings
    SeatStatementSucceeds
    ConflictIsFinal
    PendingHoldIsGuarded
PROPERTIES
    ImplementsLedger
