\* Two backends, three concurrent requests and a shutdown, with both algorithms.
CONSTANTS
    N = 2
    Requests = {r1, r2, r3}
SPECIFICATION FairSpec
INVARIANTS
    TypeOK
    InFlightExact
PROPERTIES
    ShutdownTerminates
    AcceptedIsServed
\* Every request may be over, and the process may have exited.
CHECK_DEADLOCK FALSE
