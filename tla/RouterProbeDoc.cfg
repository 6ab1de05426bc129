\* As Routing.cfg, without calls lb-proxy does not make.
CONSTANTS
    Unit = 100
    Servers <- Two
    Domain <- OneDomain
    Registered <- Two
    RawWeights = {14, 100}
    Alpha = 30
    MaxShift = 10
    DomainCap = 40
    MinWeight = 3
    TTL = 1
    MaxSignals = 1
    MaxCalls = 0
SPECIFICATION RouterSpec
INVARIANTS
    EveryBackendIsProbed
