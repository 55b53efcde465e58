SPECIFICATION Spec
CONSTANTS
  Commands <- Four
  TickTiming = "early"
  Faults = {}
  N_OF_QUEUES = 3
  SMALLEST_QUANTUM = 1
INVARIANT RayEndIsNextBoundary
CHECK_DEADLOCK FALSE
