SPECIFICATION FairSpec
CONSTANTS
  Starts = {s1, s2}
  Nobody = Nobody
  MaxFollows = 2
INVARIANTS TypeOK OwnBuild ZeroMeansStarted FollowsFromScreen
PROPERTIES FollowsUntilInterrupted InterruptReturns QuietMenu
CHECK_DEADLOCK FALSE
