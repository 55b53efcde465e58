SPECIFICATION Spec
CONSTANTS
  table_size = 3
  max_page_cnt = 2
  NRU_CYCLES = 3
  Algorithms = {"OPT"}
  Kinds = {"R", "W"}
  Endings = {"eof", "junk"}
  MaxLines = 3
INVARIANT NoMisuse
