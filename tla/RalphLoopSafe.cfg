CONSTANTS a = a
          b = b
          Fns = {a, b}
          Rank <- TwoRanks
          Deps <- TwoDeps
          Goldened = {a, b}
          Findable = {a}
          InitStatus <- Blocked
          Procs = {p1, p2}
          Scores = {1, 2}
          Modes = {"grade", "ship", "commit"}
          Batches <- Pairs
          BatchSize = 2
          MaxInvocations = 2
SPECIFICATION Spec
INVARIANTS TypeOK DoneHasPassingRun PublishedIsDone PromotesDoneBatches
