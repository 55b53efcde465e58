SPECIFICATION InterruptibleSpec
CONSTANTS
  table_size = 3
  max_page_cnt = 2
  NRU_CYCLES = 3
  Algorithms = {"NRU"}
  Kinds = {"R", "W"}
  Endings = {"eof"}
  MaxLines = 3
INVARIANT NoMisuse
