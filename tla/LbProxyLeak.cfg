\* One backend, two requests.
CONSTANTS
    N = 1
    Requests = {r1, r2}
SPECIFICATION Spec
INVARIANTS
    InFlightReleased
\* Every request may be over, and the process may have exited.
CHECK_DEADLOCK FALSE
