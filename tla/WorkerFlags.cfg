SPECIFICATION Spec
CONSTANTS
    Arguments <- SomeMasks
    DefaultPrecs = {0, 53, 64}
INVARIANT TypeOK
PROPERTY ImplementsRegister
