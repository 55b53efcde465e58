------------------------------ MODULE PageSim ------------------------------
(***************************************************************************)
(* The virtual memory simulator of T2/src/sim.c: a log of accesses is read *)
(* and run against a page table with one of three replacement algorithms,  *)
(* NRU, LRU or OPT.  The program is sequential; what may come at any time  *)
(* is SIGINT, whose handler closes the file, frees the table and exits.    *)
(*                                                                         *)
(* A flag of page.c is the set of the pages that have it.                  *)
(***************************************************************************)
EXTENDS Integers, Sequences, FiniteSets, FiniteSetsExt

CONSTANTS
  table_size,    \* pages in the table, 1 << (32 - s) in the program
  max_page_cnt,  \* pages that fit in memory
  NRU_CYCLES,    \* accesses between two resets of the R flags
  Algorithms,    \* the algorithms considered
  Kinds,         \* kinds of access on a line of the log, see BadKind
  Endings,       \* how the log may end, "nofile" if it cannot be opened
  MaxLines       \* bound: longest log considered

Pages == 0 .. table_size - 1

ASSUME SizeAssumption ==
  /\ max_page_cnt \in Nat \ {0}
  /\ table_size \in Nat /\ table_size > max_page_cnt
  /\ NRU_CYCLES \in Nat \ {0}

ASSUME ChoiceAssumption ==
  /\ Algorithms \subseteq {"NRU", "LRU", "OPT"}
  /\ Endings \subseteq {"eof", "junk", "nofile"}
  /\ MaxLines \in Nat

VARIABLES
  algorithm, log, ending,            \* the command line and the file
  pc,
  fp,                                \* "null", "open" or "closed"
  page_table, alg_data,              \* "null", "allocated" or "freed"
  pflag, rflag, mflag, info,         \* the entries of the table
  n_lines, accesses,                 \* what opt_init has read
  tcounter, faults_cnt, dirty_cnt,
  misused                            \* fclose or free of what is not there

inputs  == <<algorithm, log, ending>>
handles == <<fp, page_table, alg_data>>
entries == <<pflag, rflag, mflag, info>>
preread == <<n_lines, accesses>>
counts  == <<tcounter, faults_cnt, dirty_cnt>>

vars == <<inputs, handles, entries, preread, counts, pc, misused>>

Lines == [page : Pages, rw : Kinds]
Logs  == UNION {[1 .. n -> Lines] : n \in 0 .. MaxLines}

BadKind == Kinds \ {"R", "W"}

(* The arguments are valid and the handler of SIGINT is installed.         *)
Init ==
  /\ algorithm \in Algorithms
  /\ log \in Logs
  /\ ending \in Endings
  /\ pc = "start"
  /\ fp = "null" /\ page_table = "null" /\ alg_data = "null"
  /\ pflag = {} /\ rflag = {} /\ mflag = {}
  /\ info = [p \in Pages |-> 0]
  /\ n_lines = 0 /\ accesses = <<>>
  /\ tcounter = 0 /\ faults_cnt = 0 /\ dirty_cnt = 0
  /\ misused = FALSE

-----------------------------------------------------------------------------
(* fclose and free are undefined on what is not open or is freed already;  *)
(* free of a null pointer does nothing.                                    *)
Mutant_stays_open == "open"
AfterFclose == "closed"

Freed(pointer) == IF pointer = "null" THEN "null" ELSE "freed"

(* fclose(fp); page_table_destroy(); show_statistics()                     *)
safe_fatal_error(handle) ==
  /\ misused' = (misused \/ handle # "open" \/ page_table = "freed"
                         \/ alg_data = "freed")
  /\ fp' = AfterFclose
  /\ page_table' = Freed(page_table)
  /\ alg_data' = Freed(alg_data)
  /\ pc' = "failed"
  /\ UNCHANGED <<inputs, entries, preread, counts>>

-----------------------------------------------------------------------------
(* page_table_init, with nru_init or lru_init; opt_init takes more steps.  *)
page_table_init ==
  /\ pc = "start"
  /\ page_table' = "allocated"
  /\ alg_data' = IF algorithm = "NRU" THEN "allocated" ELSE alg_data
  /\ pc' = IF algorithm = "OPT" THEN "count" ELSE "open"
  /\ UNCHANGED <<inputs, fp, entries, preread, counts, misused>>

(* fopen before each of the passes over the log                            *)
OpenLog ==
  /\ pc \in {"count", "preload", "open"} /\ ending # "nofile"
  /\ fp' = "open"
  /\ pc' = CASE pc = "count"   -> "counting"
             [] pc = "preload" -> "preloading"
             [] pc = "open"    -> "run"
  /\ UNCHANGED <<inputs, page_table, alg_data, entries, preread, counts, misused>>

(* fopen returns NULL, which the error exit passes to fclose.              *)
OpenFails ==
  /\ pc \in {"count", "open"} /\ ending = "nofile"
  /\ safe_fatal_error("null")

(* The fclose comes before the test of how the log ended.                  *)
get_accesses_count ==
  /\ pc = "counting"
  /\ IF ending = "eof"
       THEN /\ n_lines' = Len(log)
            /\ alg_data' = "allocated"
            /\ fp' = AfterFclose
            /\ pc' = "preload"
            /\ UNCHANGED <<inputs, page_table, entries, accesses, counts, misused>>
       ELSE safe_fatal_error("closed")

opt_preload ==
  /\ pc = "preloading"
  /\ accesses' = [t \in 0 .. n_lines - 1 |-> log[t + 1].page]
  /\ fp' = AfterFclose
  /\ pc' = "open"
  /\ UNCHANGED <<inputs, page_table, alg_data, entries, n_lines, counts, misused>>

-----------------------------------------------------------------------------
(* The replacement algorithms: the pages alg_fault may return as victim,   *)
(* all from the pages present.                                             *)
Class(p) == (IF p \in rflag THEN 2 ELSE 0) + (IF p \in mflag THEN 1 ELSE 0)

Mutant_NRU_by_modified ==
  {v \in pflag : \A p \in pflag : v \in mflag => p \in mflag}

nru_victims == {v \in pflag : \A p \in pflag : Class(v) <= Class(p)}

Mutant_LRU_newest == {v \in pflag : \A p \in pflag : info[p] <= info[v]}

(* the lowest of the pages with the oldest info                            *)
lru_victims ==
  LET oldest == {v \in pflag : \A p \in pflag : info[v] <= info[p]}
  IN  {Min(oldest)}

(* Uses of the pages present after the current access, at their first one. *)
NextUse(p) ==
  LET uses == {t \in tcounter + 1 .. n_lines - 1 : accesses[t] = p}
  IN  IF uses = {} THEN n_lines ELSE Min(uses)

Mutant_OPT_soonest == {v \in pflag : \A p \in pflag : NextUse(v) <= NextUse(p)}

(* the lowest page not used again, else the page whose turn comes last     *)
opt_victims ==
  LET last == {v \in pflag : \A p \in pflag : NextUse(p) <= NextUse(v)}
  IN  {Min(last)}

alg_fault == CASE algorithm = "NRU" -> nru_victims
               [] algorithm = "LRU" -> lru_victims
               [] algorithm = "OPT" -> opt_victims

(* opt_fault uses info as the mark of the pages it has met.                *)
MarksOfOpt ==
  [p \in Pages |-> IF p \in pflag /\ NextUse(p) < n_lines THEN 1 ELSE 0]

-----------------------------------------------------------------------------
(* One line of the log.                                                    *)
line == log[tcounter + 1]

Reading == pc = "run" /\ tcounter < Len(log)

BadLine ==
  /\ Reading /\ line.rw \in BadKind
  /\ safe_fatal_error(fp)

(* The flags after the access: the page's own, then those of alg_update.   *)
Mutant_reset_off == FALSE
ResetDue == algorithm = "NRU" /\ tcounter % NRU_CYCLES = 0

Touch(present, referenced, modified, marks) ==
  /\ pflag' = present \cup {line.page}
  /\ rflag' = IF ResetDue THEN {}
              ELSE IF line.page \notin pflag \/ algorithm = "NRU"
                     THEN referenced \cup {line.page} ELSE referenced
  /\ mflag' = IF line.rw = "W" THEN modified \cup {line.page} ELSE modified
  /\ info' = IF algorithm = "LRU" THEN [marks EXCEPT ![line.page] = tcounter]
             ELSE marks
  /\ tcounter' = tcounter + 1
  /\ UNCHANGED <<inputs, handles, preread, pc, misused>>

Hit ==
  /\ Reading /\ line.rw \notin BadKind /\ line.page \in pflag
  /\ Touch(pflag, rflag, mflag, info)
  /\ UNCHANGED <<faults_cnt, dirty_cnt>>

Mutant_memory_free == Cardinality(pflag) <= max_page_cnt
MemoryFree == Cardinality(pflag) < max_page_cnt

FaultWithSpace ==
  /\ Reading /\ line.rw \notin BadKind /\ line.page \notin pflag
  /\ MemoryFree
  /\ Touch(pflag, rflag, mflag, info)
  /\ faults_cnt' = faults_cnt + 1
  /\ UNCHANGED dirty_cnt

Mutant_write_back_lost(victim) == UNCHANGED dirty_cnt
WriteBack(victim) ==
  dirty_cnt' = dirty_cnt + (IF victim \in mflag THEN 1 ELSE 0)

Mutant_flags_kept(flagged, victim) == flagged
Cleared(flagged, victim) == flagged \ {victim}

FaultWithVictim ==
  /\ Reading /\ line.rw \notin BadKind /\ line.page \notin pflag
  /\ ~MemoryFree
  /\ \E victim \in alg_fault :
       /\ Touch(pflag \ {victim}, Cleared(rflag, victim), Cleared(mflag, victim),
                IF algorithm = "OPT" THEN MarksOfOpt ELSE info)
       /\ WriteBack(victim)
  /\ faults_cnt' = faults_cnt + 1

-----------------------------------------------------------------------------
(* After the loop.                                                         *)
CloseLog ==
  /\ pc = "run" /\ tcounter = Len(log)
  /\ misused' = (misused \/ fp # "open")
  /\ fp' = AfterFclose
  /\ pc' = "destroy"
  /\ UNCHANGED <<inputs, page_table, alg_data, entries, preread, counts>>

page_table_destroy ==
  /\ pc = "destroy"
  /\ misused' = (misused \/ page_table = "freed" \/ alg_data = "freed")
  /\ page_table' = Freed(page_table)
  /\ alg_data' = Freed(alg_data)
  /\ pc' = "statistics"
  /\ UNCHANGED <<inputs, fp, entries, preread, counts>>

(* show_statistics, and the error message about a log that ends in junk    *)
Finish ==
  /\ pc = "statistics"
  /\ pc' = IF ending = "eof" THEN "done" ELSE "failed"
  /\ UNCHANGED <<inputs, handles, entries, preread, counts, misused>>

Ended == pc \in {"done", "failed"}

Step ==
  \/ page_table_init \/ OpenLog \/ OpenFails \/ get_accesses_count \/ opt_preload
  \/ BadLine \/ Hit \/ FaultWithSpace \/ FaultWithVictim
  \/ CloseLog \/ page_table_destroy \/ Finish

Next == Step \/ (Ended /\ UNCHANGED vars)

Spec == Init /\ [][Next]_vars

-----------------------------------------------------------------------------
(* SIGINT                                                                  *)
sig_handler == ~Ended /\ safe_fatal_error(fp)

InterruptibleSpec == Init /\ [][Next \/ sig_handler]_vars
=============================================================================
