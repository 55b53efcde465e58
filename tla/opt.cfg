SPECIFICATION Spec
CONSTANTS
  table_size = 4
  max_page_cnt = 2
  NRU_CYCLES = 3
  Algorithms = {"OPT"}
  Kinds = {"R"}
  Endings = {"eof", "junk", "nofile"}
  MaxLines = 7
INVARIANTS OptIsOptimal
