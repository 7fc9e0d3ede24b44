SPECIFICATION Spec
CONSTANTS
    Drivers <- AllDrivers
    Gaps <- KnownGaps
    Scripts = {s1, s2}
    NoFile = NoFile
SYMMETRY AlikeScripts
CHECK_DEADLOCK FALSE
INVARIANTS
    TypeOK
    RestsWhole
    NoAssertFails
    RightPortPasses
    WrongPortFails
