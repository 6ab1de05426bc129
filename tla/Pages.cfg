\* A buyer and another user of the tab, two bookings, two calls at a time.
CONSTANTS
    buyer = buyer
    Users = {buyer, other}
    Bookings = {b1, b2}
    Owner <- MCOwner
    Slots = {k1, k2}
    None = None
CONSTRAINTS
    OneOrphan
    OneLogin
SYMMETRY TabSymmetry
SPECIFICATION Spec
INVARIANTS
    TypeOK
    TicketIsPaid
    OnlyOwnBookings
    OrderIsReread
    DisabledForAReason
