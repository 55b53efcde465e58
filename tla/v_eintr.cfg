SPECIFICATION InterruptibleSpec
CONSTANTS
  Commands <- Short
  TickTiming = "late"
  Faults = {}
  N_OF_QUEUES = 3
  SMALLEST_QUANTUM = 1
INVARIANT MutualExclusion
CHECK_DEADLOCK FALSE
