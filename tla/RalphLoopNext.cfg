CONSTANTS a = a
          b = b
          Fns = {a, b}
          Rank <- TwoRanks
          Deps <- TwoDeps
          Goldened = {a, b}
          Findable = {a, b}
          InitStatus <- Fresh
          Procs = {p1, p2}
          Scores = {1, 2}
          Modes = {"grade", "next"}
          Batches <- Pairs
          BatchSize = 2
          MaxInvocations = 3
SPECIFICATION FairSpec
INVARIANT SeedsReady
PROPERTIES DoneIsFinal GradingReturns
