SPECIFICATION Spec
CONSTANTS
    Base = 8
    Counts <- ThreeBitCounts
    MaxLimbs = 3
    MaxPair = 2
INVARIANTS
    CarriesAreExact
    ComparesNumbers
    QuotientsAreExact
