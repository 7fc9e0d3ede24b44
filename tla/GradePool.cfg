CONSTANTS N = 3
          P = 2
          Goldens <- Mixed
SPECIFICATION FairSpec
INVARIANTS TypeOK QueueAccounted NoHoles OwnReply Owned AllTerminated SpawnBudget
PROPERTIES VerdictFinal GradingEnds ImplementsGrading
CHECK_DEADLOCK FALSE
