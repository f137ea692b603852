SPECIFICATION FairSpec
CONSTANTS
  p1 = p1
  c1 = c1
  c2 = c2
  n1 = n1
  n2 = n2
  NULL = NULL
  Asked = Asked
  Poller <- MCPoller
  Caller <- MCCaller
  Node <- MCNode
  MaxBlocks = 3
  Workload <- MCWorkload
INVARIANT SetUpBeforeUse
INVARIANT Contiguous
PROPERTY FollowsChain
PROPERTY NeverStale
PROPERTY CallsReturn
PROPERTY EveryBlockTold
