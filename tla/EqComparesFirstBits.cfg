SPECIFICATION Spec
CONSTANTS
    PREC_MAX = 2
    EMAX_DEFAULT = 1
    SLACK = 0
    TARGET_PREC = 1
    SCALE = 1
    LONG_BITS = 2
INVARIANTS EqComparesFirstBits
