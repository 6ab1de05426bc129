\* One page, one seat, two pods, two faults.
CONSTANTS
    Seats = {s1}
    Pods = {p1, p2}
    Fetches = {f1, f2}
    MaxChanges = 4
    MaxFaults = 2
    None = None
SPECIFICATION Spec
SYMMETRY LiveSymmetry
INVARIANTS
    TypeOK
    CoveredPageIsCurrent
\* The page goes to the checkout, and changes are bounded.
CHECK_DEADLOCK FALSE
