CONSTANTS
    Unit = 100
    Servers <- Three
    Domain <- OneDomain
    Registered <- Two
    RawWeights = {14, 100}
    Alpha = 30
    MaxShift = 10
    DomainCap = 40
    MinWeight = 3
    TTL = 1
    MaxSignals = 1
    MaxCalls = 2
SPECIFICATION RouterSpec
INVARIANTS
    RouterTypeOK
    WeightsAreShares
    OverrideDecides
    StalePoolIsUniform
    HeavierGetsMore
PROPERTIES
    RankingRespected
    NewcomerIsTried
