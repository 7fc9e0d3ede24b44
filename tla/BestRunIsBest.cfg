CONSTANTS a = a
          b = b
          Fns = {a, b}
          Rank <- TwoRanks
          Deps <- TwoDeps
          Goldened = {a, b}
          Findable = {a, b}
          InitStatus <- Fresh
          Procs = {p1}
          Scores = {1, 2, 3}
          Modes = {"grade"}
          Batches <- Singles
          BatchSize = 2
          MaxInvocations = 3
SPECIFICATION Spec
INVARIANT BestRunIsBest
