SPECIFICATION FairSpec
CONSTANTS
  Commands <- Four
  TickTiming = "early"
  Faults = {}
  N_OF_QUEUES = 3
  SMALLEST_QUANTUM = 1
INVARIANTS
  TicksAttributed
  KilledOnlyWhenFinished
  QuantumRespected
  OnlyFirstTickPasses
  BlockedAtRayEnd
PROPERTIES
  ImplementsTaskLife
  Termination
  NoStarvation
