---------------------------- MODULE PageSimProps ----------------------------
(***************************************************************************)
(* What the simulator of PageSim promises.  The properties of an algorithm *)
(* are stated on the lines of the log read so far, not on the fields the   *)
(* algorithm keeps of them.                                                *)
(***************************************************************************)
EXTENDS PageSim

(* The lines read so far, numbered from 0 as tcounter is.                  *)
Past == 0 .. tcounter - 1

PageAt(t) == log[t + 1].page
Written(t) == log[t + 1].rw = "W"

(* The last access to p among those numbered from `since' on, or -1.       *)
LastUse(p, since) ==
  LET uses == {t \in Past : t >= since /\ PageAt(t) = p}
  IN  IF uses = {} THEN -1 ELSE Max(uses)

Handle == {"null", "allocated", "freed"}

(* Type invariant: the variables of sim.c hold values of their types, and  *)
(* the three counters never exceed the lines there are to count.           *)
TypeOK ==
  /\ algorithm \in Algorithms /\ log \in Logs /\ ending \in Endings
  /\ pc \in {"start", "count", "counting", "preload", "preloading", "open",
             "run", "destroy", "statistics", "done", "failed"}
  /\ fp \in {"null", "open", "closed"}
  /\ page_table \in Handle /\ alg_data \in Handle
  /\ pflag \subseteq Pages /\ rflag \subseteq pflag /\ mflag \subseteq pflag
  /\ info \in [Pages -> 0 .. MaxLines]
  /\ n_lines \in 0 .. Len(log)
  /\ \A t \in DOMAIN accesses : accesses[t] \in Pages
  /\ tcounter \in 0 .. Len(log)
  /\ faults_cnt \in 0 .. tcounter
  /\ dirty_cnt \in 0 .. faults_cnt
  /\ misused \in BOOLEAN

-----------------------------------------------------------------------------
(* Memory holds max_page_cnt pages at most, and all it can hold once that  *)
(* many pages have been met: every fault beyond the resident pages evicted *)
(* exactly one page.  sim.c:168-201.                                       *)
Met == {PageAt(t) : t \in Past}

MemoryFull ==
  Cardinality(pflag) =
    IF Cardinality(Met) < max_page_cnt THEN Cardinality(Met) ELSE max_page_cnt

(* No write is lost and none is invented: each page written so far is      *)
(* resident and modified or has been counted as written back, and no more  *)
(* pages are counted than there were writes, or evictions.  sim.c:184-207. *)
Writes == {t \in Past : Written(t)}
PagesWritten == {PageAt(t) : t \in Writes}

WritesAccounted ==
  /\ dirty_cnt + Cardinality(mflag) >= Cardinality(PagesWritten)
  /\ dirty_cnt + Cardinality(mflag) <= Cardinality(Writes)
  /\ dirty_cnt <= faults_cnt - Cardinality(pflag)

(* LRU keeps in memory just the max_page_cnt pages of the log that were    *)
(* used last.  lru_fault and lru_update, sim.c:286-307.                    *)
LRUStack ==
  algorithm = "LRU" =>
    pflag = {p \in Pages :
               /\ LastUse(p, 0) # -1
               /\ Cardinality({q \in Pages : LastUse(q, 0) > LastUse(p, 0)})
                    < max_page_cnt}

(* The access after which NRU last reset the R flags, -1 before the first. *)
LastReset == IF tcounter = 0 THEN -1
             ELSE ((tcounter - 1) \div NRU_CYCLES) * NRU_CYCLES

Referenced == {p \in Pages : LastUse(p, LastReset + 1) # -1}

(* A write since the last access that found p absent from memory cannot be *)
(* told from the log alone, so the M flag is taken from the table.         *)
HistoryClass(p) == (IF p \in Referenced THEN 2 ELSE 0)
                     + (IF p \in mflag THEN 1 ELSE 0)

(* NRU evicts a page that no resident page beats: none has both not been   *)
(* used since the last reset while the victim has, or is as (un)used but   *)
(* clean while the victim is dirty.  nru_fault, nru_update, sim.c:231-270. *)
NRUEvictsLowest ==
  [][algorithm = "NRU" =>
       \A v \in pflag \ pflag' : \A p \in pflag :
         HistoryClass(v) <= HistoryClass(p)]_vars

(* What one access costs with the pages r in memory, whatever victim is    *)
(* chosen, when rest is what the lines after it cost.                      *)
FewestAt(page, rest) ==
  [r \in SUBSET Pages |->
     IF page \in r THEN rest[r]
     ELSE IF Cardinality(r) < max_page_cnt THEN 1 + rest[r \cup {page}]
     ELSE 1 + Min({rest[(r \ {v}) \cup {page}] : v \in r})]

(* The fewest faults the lines from t on cost, starting with r in memory.  *)
FewestFrom(lines) ==
  LET fewest[t \in 0 .. Len(lines)] ==
        IF t = Len(lines) THEN [r \in SUBSET Pages |-> 0]
        ELSE FewestAt(lines[t + 1].page, fewest[t + 1])
  IN  fewest

FewestFaults == FewestFrom(log)[0][{}]

(* OPT is optimal: when it ends no other choice of victims would have had  *)
(* fewer faults on the same log.  opt_fault, sim.c:347-371.                *)
OptIsOptimal ==
  algorithm = "OPT" /\ pc = "done" => faults_cnt = FewestFaults

(* No algorithm does with fewer faults than the log costs memory of this   *)
(* size: none keeps a page it has no room for, nor misses a fault.         *)
(* sim.c:166-201.                                                          *)
NoneBeatsOptimum ==
  pc = "done" => faults_cnt >= FewestFaults

-----------------------------------------------------------------------------
(* The program never closes a file that is not open nor frees a table it   *)
(* has freed.  README.md:3 and :58 of T2.                                  *)
NoMisuse == ~misused

(* However it ends, once the log is open and without an interrupt, the     *)
(* program has closed the log and freed the table, each once.              *)
(* sim.c:210-213, 387-393, 428-432.                                        *)
CleanExit ==
  /\ NoMisuse
  /\ Ended => fp # "open" /\ page_table # "allocated" /\ alg_data # "allocated"

-----------------------------------------------------------------------------
(* The inductive invariants behind these.  What main holds of the file,    *)
(* the table and the algorithm's data at each place.                       *)
Preloading == {"count", "counting", "preload", "preloading"}

HandlesInv ==
  /\ NoMisuse
  /\ pc \in Preloading => algorithm = "OPT"
  /\ pc \in {"counting", "preloading", "run"} <=> fp = "open"
  /\ pc = "start" => page_table = "null" /\ alg_data = "null"
  /\ pc \in Preloading \cup {"open", "run", "destroy"} =>
       page_table = "allocated" /\ alg_data # "freed"
  /\ pc \in {"statistics", "done", "failed"} =>
       page_table = "freed" /\ alg_data # "allocated"

(* The pages in memory are pages of the log, the modified ones pages it    *)
(* wrote.                                                                  *)
MemoryInv == pflag \subseteq Met /\ MemoryFull

WritesInv == mflag \subseteq PagesWritten /\ WritesAccounted

(* Under LRU info is the last use of a page in memory, and all others were *)
(* used before.                                                            *)
RecencyInv ==
  algorithm = "LRU" =>
    \A p \in pflag :
      /\ LastUse(p, 0) = info[p] /\ p \in Met
      /\ \A q \in Pages \ pflag : LastUse(q, 0) < LastUse(p, 0)

(* Under NRU the R flag of a page in memory tells if it was used since the *)
(* last reset.                                                             *)
ReferencedInv ==
  algorithm = "NRU" => \A p \in pflag : p \in rflag <=> p \in Referenced

(* Under OPT the log has been read as it is, once the second pass is over, *)
(* and each fault so far was one of the fewest there can be; under the     *)
(* others there may have been more.                                        *)
BeforeRun == {"start", "open"} \cup Preloading

FaultsToCome == FewestFrom(log)[tcounter][pflag]

PrereadInv ==
  algorithm = "OPT" =>
    /\ pc \in {"preload", "preloading", "open", "run"} => n_lines = Len(log)
    /\ pc \in {"open", "run"} =>
         accesses = [t \in 0 .. n_lines - 1 |-> PageAt(t)]

FaultsInv ==
  /\ pc \in BeforeRun => tcounter = 0 /\ faults_cnt = 0 /\ pflag = {}
  /\ pc \in BeforeRun \cup {"run"} =>
       IF algorithm = "OPT" THEN faults_cnt + FaultsToCome = FewestFaults
       ELSE faults_cnt + FaultsToCome >= FewestFaults
  /\ pc \in {"destroy", "statistics", "done"} =>
       IF algorithm = "OPT" THEN faults_cnt = FewestFaults
       ELSE faults_cnt >= FewestFaults

OptInv == PrereadInv /\ FaultsInv
=============================================================================
