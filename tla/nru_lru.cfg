SPECIFICATION Spec
CONSTANTS
  table_size = 3
  max_page_cnt = 2
  NRU_CYCLES = 3
  Algorithms = {"NRU", "LRU"}
  Kinds = {"R", "W", "X"}
  Endings = {"eof", "junk"}
  MaxLines = 5
INVARIANTS TypeOK MemoryFull WritesAccounted LRUStack CleanExit NoneBeatsOptimum
PROPERTIES NRUEvictsLowest
