SPECIFICATION Spec
CONSTANTS
  Commands <- Four
  TickTiming = "settled"
  Faults = {}
  N_OF_QUEUES = 3
  SMALLEST_QUANTUM = 1
PROPERTY WaitingKeepsLevel
CHECK_DEADLOCK FALSE
