\* Two keep-alive connections and two jobs; the force timer is not counted on.
CONSTANTS
    Conns = {c1, c2}
    Jobs = {j1, j2}
SPECIFICATION DrainSpec
INVARIANTS
    TypeOK
    ResourcesOutliveWork
    ExitZeroIsComplete
    GaugeIsExact
PROPERTIES
    KeepAliveCannotHang
\* The process exits.
CHECK_DEADLOCK FALSE
