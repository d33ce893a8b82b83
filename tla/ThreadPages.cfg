CONSTANTS
  MaxTS = 5
  MaxItems = 3
  MaxHops = 1
  MaxGen = 2
  MaxDeleted = 1
  MaxFailures = 1
SPECIFICATION FairSpec
INVARIANTS NothingSkipped NoneTwice ContinuationsHold
PROPERTY ChainEnds
CHECK_DEADLOCK FALSE
