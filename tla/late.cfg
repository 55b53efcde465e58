CHECK_DEADLOCK FALSE
SPECIFICATION Spec
CONSTANTS
  Commands <- Mixed
  TickTiming = "late"
  Faults = {"malloc", "thread"}
  N_OF_QUEUES = 2
  SMALLEST_QUANTUM = 1
INVARIANTS
  TypeOK
  MutualExclusion
  OnePlace
  CountersAgree
  NeverAborts
  OneRunning
  DoneIsClean
