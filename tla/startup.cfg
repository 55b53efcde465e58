CHECK_DEADLOCK FALSE
SPECIFICATION FairBootSpec
CONSTANTS
  Commands <- ThreeLines
  Faults <- FaultKinds
  TickTiming = "early"
  N_OF_QUEUES = 2
  SMALLEST_QUANTUM = 1
INVARIANTS
  QueueFollowsLines
  NoneUnsupervised
  SafeAfterFaults
PROPERTIES
  HandOver
  EndsUnlessLost
