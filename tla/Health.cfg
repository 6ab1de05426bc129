\* Two recorders and a reader; the clock runs past the window.
CONSTANTS
    Recorders = {p1, p2}
    Readers = {q1}
    Window = 1
    Latencies = {19, 31}
    MaxTime = 2
    MaxRecords = 3
SPECIFICATION Spec
SYMMETRY RecorderSymmetry
INVARIANTS
    TypeOK
    NoSampleLost
    EmaLosesNothing
    AverageWithinSamples
\* The bounded number of records may be used up.
CHECK_DEADLOCK FALSE
