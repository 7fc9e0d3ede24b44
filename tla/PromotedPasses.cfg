CONSTANTS a = a
          b = b
          Fns = {a, b}
          Rank <- TwoRanks
          Deps <- TwoDeps
          Goldened = {a, b}
          Findable = {a, b}
          InitStatus <- Fresh
          Procs = {p1}
          Scores = {1, 2}
          Modes = {"ship"}
          Batches <- Singles
          BatchSize = 2
          MaxInvocations = 1
SPECIFICATION Spec
INVARIANT PromotedPasses
