SPECIFICATION FairDumpSpec
CONSTANTS
  N_OF_QUEUES = 2
  Nodes = {n1, n2, n3}
  NULL = NULL
  Heads <- TwoQueues
  Qtds <- SomeQtds
INVARIANTS
  Represents
PROPERTIES
  DestroyFreesQueue
  TransferDelivers
  DumpRestores
  LegalCaller
  Returns
  DumpEnds
