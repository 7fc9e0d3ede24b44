CONSTANTS N = 3
          P = 2
          Goldens <- Hanging
SPECIFICATION Spec
INVARIANT CallerTerminates
CHECK_DEADLOCK FALSE
