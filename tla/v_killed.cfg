SPECIFICATION Spec
CONSTANTS
  Commands <- Short
  TickTiming = "late"
  Faults = {}
  N_OF_QUEUES = 3
  SMALLEST_QUANTUM = 1
INVARIANT KilledOnlyWhenFinished
CHECK_DEADLOCK FALSE
