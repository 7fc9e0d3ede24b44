SPECIFICATION WalkSpec
CONSTANTS
    PREC_MAX = 6
    EMAX_DEFAULT = 2
    SLACK = 0
    TARGET_PREC = 2
    SCALE = 1
    LONG_BITS = 2
INVARIANTS SqrtIsCorrect IntegralIsCorrect PartsRecombine
PROPERTIES WalkArrives WalkNeverPasses
