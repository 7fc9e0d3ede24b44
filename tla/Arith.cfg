SPECIFICATION Spec
CONSTANTS
    PREC_MAX = 3
    EMAX_DEFAULT = 2
    SLACK = 0
    TARGET_PREC = 1
    SCALE = 2
    LONG_BITS = 2
INVARIANTS
    TypeOK AddIsCorrect MulIsCorrect DivIsCorrect CheckRangeIsCorrect
    SpecialsAgree OrdersAgree MixedAgree
