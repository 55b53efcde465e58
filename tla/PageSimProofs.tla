--------------------------- MODULE PageSimProofs ---------------------------
(***************************************************************************)
(* Proofs about the simulator, for any table, memory, algorithms and log.  *)
(***************************************************************************)
EXTENDS PageSimProps, DataFacts, FiniteSetTheorems

-----------------------------------------------------------------------------
(* What is known of the parameters, and of the lines of a log.             *)
LEMMA PagesAreFinite ==
  /\ IsFiniteSet(Pages)
  /\ Pages \subseteq Nat
BY SizeAssumption, FS_Interval DEF Pages

LEMMA LogType ==
  ASSUME log \in Logs
  PROVE  /\ Len(log) \in 0 .. MaxLines
         /\ \A t \in 0 .. Len(log) - 1 : log[t + 1] \in Lines /\ PageAt(t) \in Pages
<1>1. PICK n \in 0 .. MaxLines : log \in [1 .. n -> Lines]
  BY DEF Logs
<1>2. n \in Nat /\ MaxLines \in Nat
  BY ChoiceAssumption
<1>3. Len(log) = n
  BY <1>1, <1>2
<1>4. ASSUME NEW t \in 0 .. n - 1
      PROVE  log[t + 1] \in Lines
  <2>1. t + 1 \in 1 .. n
    BY <1>2
  <2> QED
    BY <1>1, <2>1
<1>5. \A e \in Lines : e.page \in Pages
  BY DEF Lines
<1> QED
  BY <1>2, <1>3, <1>4, <1>5 DEF PageAt

LEMMA LineType ==
  ASSUME TypeOK, Reading
  PROVE  /\ line.page \in Pages /\ line.page = PageAt(tcounter)
         /\ tcounter \in 0 .. Len(log) - 1 /\ Len(log) \in 0 .. MaxLines
         /\ MaxLines \in Nat
<1>1. tcounter \in 0 .. Len(log) - 1 /\ Len(log) \in Nat /\ log \in Logs
  BY LogType, ChoiceAssumption DEF TypeOK, Reading
<1> QED
  BY <1>1, LogType, ChoiceAssumption DEF line, PageAt

(* NextUse is a number no larger than n_lines.                             *)
LEMMA NextUseType ==
  ASSUME TypeOK, NEW p \in Pages
  PROVE  NextUse(p) \in Nat /\ NextUse(p) <= n_lines /\ n_lines \in Nat
<1> DEFINE uses == {t \in tcounter + 1 .. n_lines - 1 : accesses[t] = p}
<1>1. tcounter \in Nat /\ n_lines \in Nat
  BY LogType DEF TypeOK
<1>2. uses \subseteq Nat /\ \A t \in uses : t \in Nat /\ t <= n_lines
  BY <1>1
<1>3. NextUse(p) = IF uses = {} THEN n_lines ELSE Min(uses)
  BY DEF NextUse
<1> HIDE DEF uses
<1>4. CASE uses = {}
  <2>1. NextUse(p) = n_lines
    BY <1>3, <1>4
  <2> QED
    BY <1>1, <2>1
<1>5. CASE uses # {}
  <2>1. NextUse(p) \in uses
    BY <1>2, <1>3, <1>5, MinIsLeast
  <2> QED
    BY <1>1, <1>2, <2>1
<1> QED
  BY <1>4, <1>5

(* The victim is in memory, and no page there beats it.                    *)
LEMMA VictimsPresent ==
  ASSUME TypeOK, pflag # {}, NEW v \in alg_fault
  PROVE  /\ v \in pflag
         /\ algorithm = "LRU" => \A p \in pflag : info[v] <= info[p]
         /\ algorithm = "NRU" => \A p \in pflag : Class(v) <= Class(p)
         /\ algorithm = "OPT" => \A p \in pflag : NextUse(p) <= NextUse(v)
<1>1. algorithm \in {"NRU", "LRU", "OPT"}
  BY ChoiceAssumption DEF TypeOK
<1>2. pflag \subseteq Nat /\ pflag \subseteq Pages
  BY PagesAreFinite DEF TypeOK
<1>3. CASE algorithm = "NRU"
  BY <1>3 DEF alg_fault, nru_victims
<1>4. CASE algorithm = "LRU"
  <2> DEFINE oldest == {u \in pflag : \A p \in pflag : info[u] <= info[p]}
             ages == {info[p] : p \in pflag}
  <2>0. \A p \in pflag : info[p] \in Nat
    <3>1. info \in [Pages -> 0 .. MaxLines] /\ MaxLines \in Nat
      BY ChoiceAssumption DEF TypeOK
    <3>2. \A p \in Pages : info[p] \in Nat
      BY <3>1
    <3> QED
      BY <1>2, <3>2
  <2>1. ages \subseteq Nat /\ ages # {}
    BY <2>0
  <2>2. PICK a \in ages : \A b \in ages : a <= b
    <3> HIDE DEF ages
    <3> QED
      BY <2>1, Least
  <2>3. oldest # {} /\ oldest \subseteq Nat
    <3>1. PICK u \in pflag : a = info[u]
      OBVIOUS
    <3>2. \A p \in pflag : info[p] \in ages
      OBVIOUS
    <3>3. \A p \in pflag : info[u] <= info[p]
      <4> HIDE DEF ages
      <4> QED
        BY <2>2, <3>1, <3>2
    <3> QED
      BY <1>2, <3>3
  <2>4. v = Min(oldest)
    BY <1>4 DEF alg_fault, lru_victims
  <2>5. v \in oldest
    <3> HIDE DEF oldest
    <3> QED
      BY <2>3, <2>4, MinIsLeast
  <2> QED
    BY <1>4, <2>5
<1>5. CASE algorithm = "OPT"
  <2> DEFINE last == {u \in pflag : \A p \in pflag : NextUse(p) <= NextUse(u)}
             turns == {NextUse(p) : p \in pflag}
  <2>1. turns \subseteq Nat /\ turns # {} /\ n_lines \in Nat
    BY <1>2, NextUseType
  <2>2. \A b \in turns : b <= n_lines
    BY <1>2, NextUseType
  <2>3. Max(turns) \in turns /\ \A b \in turns : b <= Max(turns)
    <3> HIDE DEF turns
    <3> QED
      BY <2>1, <2>2, MaxIsGreatest
  <2>4. last # {} /\ last \subseteq Nat
    BY <1>2, <2>3
  <2>5. v = Min(last)
    BY <1>5 DEF alg_fault, opt_victims
  <2>6. v \in last
    <3> HIDE DEF last
    <3> QED
      BY <2>4, <2>5, MinIsLeast
  <2> QED
    BY <1>5, <2>6
<1> QED
  BY <1>1, <1>3, <1>4, <1>5

(* A full memory is not empty.                                             *)
LEMMA FullMemory ==
  ASSUME TypeOK
  PROVE  /\ IsFiniteSet(pflag) /\ Cardinality(pflag) \in Nat
         /\ ~MemoryFree => pflag # {}
<1>1. IsFiniteSet(pflag)
  BY PagesAreFinite, FS_Subset DEF TypeOK
<1> QED
  BY <1>1, FS_CardinalityType, FS_EmptySet, SizeAssumption DEF MemoryFree

-----------------------------------------------------------------------------
(* Only an access changes the table and the counters.                      *)
Access == Hit \/ FaultWithSpace \/ FaultWithVictim

LEMMA StepKinds ==
  ASSUME [Next]_vars
  PROVE  /\ UNCHANGED inputs
         /\ Access \/ UNCHANGED <<entries, counts>>
<1>1. CASE UNCHANGED vars
  BY <1>1 DEF vars, inputs, entries, counts
<1>2. CASE page_table_init
  BY <1>2 DEF page_table_init, inputs
<1>3. CASE OpenLog
  BY <1>3 DEF OpenLog, inputs
<1>4. CASE get_accesses_count
  BY <1>4 DEF get_accesses_count, safe_fatal_error, inputs
<1>5. CASE opt_preload
  BY <1>5 DEF opt_preload, inputs
<1>6. CASE BadLine
  BY <1>6 DEF BadLine, safe_fatal_error, inputs
<1>7. CASE Access
  BY <1>7 DEF Access, Hit, FaultWithSpace, FaultWithVictim, Touch, inputs
<1>8. CASE CloseLog
  BY <1>8 DEF CloseLog, inputs
<1>9. CASE page_table_destroy
  BY <1>9 DEF page_table_destroy, inputs
<1>10. CASE Finish
  BY <1>10 DEF Finish, inputs
<1>11. CASE OpenFails
  BY <1>11 DEF OpenFails, safe_fatal_error, inputs
<1> QED
  BY <1>1, <1>2, <1>3, <1>4, <1>5, <1>6, <1>7, <1>8, <1>9, <1>10, <1>11
     DEF Next, Step, Access

(* An access that finds `out' evicted, at most one page of those present.  *)
Evicting(out) ==
  /\ out \subseteq pflag
  /\ pflag' = (pflag \ out) \cup {line.page}
  /\ mflag' = (mflag \ out) \cup (IF line.rw = "W" THEN {line.page} ELSE {})
  /\ algorithm = "NRU" =>
       rflag' = IF ResetDue THEN {} ELSE (rflag \ out) \cup {line.page}
  /\ rflag' \subseteq pflag'
  /\ algorithm = "LRU" => info' = [info EXCEPT ![line.page] = tcounter]
  /\ \/ /\ line.page \in pflag /\ out = {}
        /\ UNCHANGED <<faults_cnt, dirty_cnt>>
     \/ /\ line.page \notin pflag /\ out = {} /\ MemoryFree
        /\ faults_cnt' = faults_cnt + 1 /\ dirty_cnt' = dirty_cnt
     \/ /\ line.page \notin pflag /\ ~MemoryFree
        /\ faults_cnt' = faults_cnt + 1
        /\ \E v \in alg_fault \cap pflag :
             /\ out = {v}
             /\ dirty_cnt' = dirty_cnt + (IF v \in mflag THEN 1 ELSE 0)

LEMMA AccessStep ==
  ASSUME TypeOK, Access
  PROVE  /\ Reading /\ line.page \in Pages
         /\ tcounter \in Nat /\ tcounter' = tcounter + 1 /\ tcounter' <= Len(log)
         /\ UNCHANGED <<inputs, handles, preread, pc, misused>>
         /\ \E out : Evicting(out)
<1>1. Reading
  BY DEF Access, Hit, FaultWithSpace, FaultWithVictim
<1>2. /\ line.page \in Pages
      /\ tcounter \in 0 .. Len(log) - 1 /\ Len(log) \in Nat
      /\ rflag \subseteq pflag
  BY <1>1, LineType DEF TypeOK
<1>3. /\ tcounter' = tcounter + 1
      /\ UNCHANGED <<inputs, handles, preread, pc, misused>>
  BY DEF Access, Hit, FaultWithSpace, FaultWithVictim, Touch
<1>4. CASE Hit
  <2>1. Touch(pflag, rflag, mflag, info) /\ line.page \in pflag
    BY <1>4 DEF Hit
  <2>2. UNCHANGED <<faults_cnt, dirty_cnt>>
    BY <1>4 DEF Hit
  <2>3. Evicting({})
    BY <1>2, <2>1, <2>2 DEF Touch, Evicting
  <2> QED
    BY <1>1, <1>2, <1>3, <2>3
<1>5. CASE FaultWithSpace
  <2>1. Touch(pflag, rflag, mflag, info) /\ line.page \notin pflag /\ MemoryFree
    BY <1>5 DEF FaultWithSpace
  <2>2. faults_cnt' = faults_cnt + 1 /\ dirty_cnt' = dirty_cnt
    BY <1>5 DEF FaultWithSpace
  <2>3. Evicting({})
    BY <1>2, <2>1, <2>2 DEF Touch, Evicting
  <2> QED
    BY <1>1, <1>2, <1>3, <2>3
<1>6. CASE FaultWithVictim
  <2>1. PICK v \in alg_fault :
          /\ Touch(pflag \ {v}, Cleared(rflag, v), Cleared(mflag, v),
                   IF algorithm = "OPT" THEN MarksOfOpt ELSE info)
          /\ WriteBack(v)
    BY <1>6 DEF FaultWithVictim
  <2>2. v \in alg_fault \cap pflag
    BY <1>6, FullMemory, VictimsPresent DEF FaultWithVictim
  <2>3. /\ pflag' = (pflag \ {v}) \cup {line.page}
        /\ mflag' = (mflag \ {v}) \cup
                      (IF line.rw = "W" THEN {line.page} ELSE {})
    BY <2>1 DEF Touch, Cleared
  <2>4. /\ line.page \notin pflag /\ ~MemoryFree
        /\ faults_cnt' = faults_cnt + 1
    BY <1>6 DEF FaultWithVictim
  <2>5. /\ rflag' = IF ResetDue THEN {} ELSE (rflag \ {v}) \cup {line.page}
        /\ algorithm = "LRU" => info' = [info EXCEPT ![line.page] = tcounter]
    BY <2>1, <2>4 DEF Touch, Cleared
  <2>6. dirty_cnt' = dirty_cnt + (IF v \in mflag THEN 1 ELSE 0)
    BY <2>1 DEF WriteBack
  <2>7. rflag' \subseteq pflag'
    BY <1>2, <2>3, <2>5
  <2>8. Evicting({v})
    BY <2>2, <2>3, <2>4, <2>5, <2>6, <2>7 DEF Evicting
  <2> QED
    BY <1>1, <1>2, <1>3, <2>8
<1> QED
  BY <1>4, <1>5, <1>6 DEF Access

-----------------------------------------------------------------------------
(* Types                                                                   *)
LEMMA InitType == Init => TypeOK
<1> SUFFICES ASSUME Init PROVE TypeOK
  OBVIOUS
<1>1. log \in Logs
  BY DEF Init
<1>2. Len(log) \in Nat
  BY <1>1, LogType
<1>3. info \in [Pages -> 0 .. MaxLines]
  BY ChoiceAssumption DEF Init
<1>4. \A t \in DOMAIN accesses : accesses[t] \in Pages
  BY DEF Init
<1>5. /\ algorithm \in Algorithms /\ ending \in Endings
      /\ pc = "start" /\ fp = "null"
      /\ page_table \in Handle /\ alg_data \in Handle /\ misused \in BOOLEAN
  BY DEF Init, Handle
<1>6. /\ pflag \subseteq Pages /\ rflag \subseteq pflag /\ mflag \subseteq pflag
  BY DEF Init
<1>7. /\ n_lines \in 0 .. Len(log) /\ tcounter \in 0 .. Len(log)
      /\ faults_cnt \in 0 .. tcounter /\ dirty_cnt \in 0 .. faults_cnt
  BY <1>2 DEF Init
<1> QED
  BY <1>1, <1>3, <1>4, <1>5, <1>6, <1>7 DEF TypeOK

LEMMA FreedType ==
  ASSUME NEW h \in Handle
  PROVE  Freed(h) \in Handle
BY DEF Freed, Handle

LEMMA StepType == TypeOK /\ [Next]_vars => TypeOK'
<1> SUFFICES ASSUME TypeOK, [Next]_vars PROVE TypeOK'
  OBVIOUS
<1>1. /\ UNCHANGED inputs
      /\ Access \/ UNCHANGED <<entries, counts>>
  BY StepKinds
<1>2. /\ algorithm' \in Algorithms /\ log' \in Logs /\ ending' \in Endings
      /\ Len(log') = Len(log) /\ Len(log) \in Nat
  BY <1>1, LogType DEF TypeOK, inputs
<1>3. CASE Access
  <2>1. /\ line.page \in Pages /\ Reading
        /\ tcounter \in Nat /\ tcounter' = tcounter + 1 /\ tcounter' <= Len(log)
        /\ UNCHANGED <<inputs, handles, preread, pc, misused>>
    BY <1>3, AccessStep
  <2>2. PICK out : Evicting(out)
    BY <1>3, AccessStep
  <2>3. /\ pflag' \subseteq Pages /\ rflag' \subseteq pflag' /\ mflag' \subseteq pflag'
    BY <2>1, <2>2 DEF Evicting, TypeOK
  <2>4. /\ faults_cnt' \in 0 .. tcounter' /\ dirty_cnt' \in 0 .. faults_cnt'
    BY <2>1, <2>2 DEF Evicting, TypeOK
  <2>5. info' \in [Pages -> 0 .. MaxLines]
    <3>1. /\ MaxLines \in Nat /\ 1 <= MaxLines
          /\ tcounter \in 0 .. MaxLines
      BY <2>1, LineType
    <3>2. \E marks \in [Pages -> 0 .. MaxLines] :
            info' = IF algorithm = "LRU" THEN [marks EXCEPT ![line.page] = tcounter]
                    ELSE marks
      <4>1. info \in [Pages -> 0 .. MaxLines]
        BY DEF TypeOK
      <4>2. MarksOfOpt \in [Pages -> 0 .. MaxLines]
        BY <3>1 DEF MarksOfOpt
      <4> QED
        BY <1>3, <4>1, <4>2 DEF Access, Hit, FaultWithSpace, FaultWithVictim, Touch
    <3> QED
      BY <3>1, <3>2
  <2> QED
    BY <1>2, <2>1, <2>3, <2>4, <2>5 DEF TypeOK, handles, preread
<1>4. CASE UNCHANGED <<entries, counts>>
  <2>1. /\ pc' \in {"start", "count", "counting", "preload", "preloading", "open",
                    "run", "destroy", "statistics", "done", "failed"}
        /\ fp' \in {"null", "open", "closed"}
        /\ page_table' \in Handle /\ alg_data' \in Handle
        /\ misused' \in BOOLEAN
        /\ n_lines' \in 0 .. Len(log)
        /\ \A t \in DOMAIN accesses' : accesses'[t] \in Pages
    <3>0. /\ Freed(page_table) \in Handle /\ Freed(alg_data) \in Handle
          /\ "allocated" \in Handle
      BY FreedType DEF TypeOK, Handle
    <3>1. CASE UNCHANGED vars
      BY <3>1 DEF vars, handles, preread, TypeOK
    <3>2. CASE page_table_init
      BY <3>0, <3>2 DEF page_table_init, preread, TypeOK
    <3>3. CASE OpenLog
      BY <3>3 DEF OpenLog, preread, TypeOK
    <3>4. CASE get_accesses_count
      <4>1. CASE ending = "eof"
        BY <1>2, <3>0, <3>4, <4>1 DEF get_accesses_count, AfterFclose, TypeOK
      <4>2. CASE ending # "eof"
        <5>1. safe_fatal_error("closed")
          BY <3>4, <4>2 DEF get_accesses_count
        <5> QED
          BY <3>0, <5>1 DEF safe_fatal_error, AfterFclose, preread, TypeOK
      <4> QED
        BY <4>1, <4>2
    <3>5. CASE opt_preload
      <4>1. \A t \in 0 .. n_lines - 1 : log[t + 1].page \in Pages
        BY <1>2, LogType DEF PageAt, TypeOK
      <4>2. \A t \in DOMAIN accesses' : accesses'[t] \in Pages
        BY <3>5, <4>1 DEF opt_preload
      <4> QED
        BY <3>5, <4>2 DEF opt_preload, AfterFclose, TypeOK
    <3>6. CASE BadLine
      BY <3>0, <3>6 DEF BadLine, safe_fatal_error, AfterFclose, preread, TypeOK
    <3>7. CASE Access
      BY <3>7, AccessStep DEF handles, preread, TypeOK
    <3>8. CASE CloseLog
      BY <3>8 DEF CloseLog, AfterFclose, preread, TypeOK
    <3>9. CASE page_table_destroy
      BY <3>0, <3>9 DEF page_table_destroy, preread, TypeOK
    <3>10. CASE Finish
      BY <3>10 DEF Finish, handles, preread, TypeOK
    <3>11. CASE OpenFails
      BY <3>0, <3>11 DEF OpenFails, safe_fatal_error, AfterFclose, preread, TypeOK
    <3> QED
      BY <3>1, <3>2, <3>3, <3>4, <3>5, <3>6, <3>7, <3>8, <3>9, <3>10, <3>11
         DEF Next, Step, Access
  <2> QED
    BY <1>2, <1>4, <2>1 DEF TypeOK, entries, counts
<1> QED
  BY <1>1, <1>3, <1>4

(* The variables of sim.c keep their types.                                *)
THEOREM TypeCorrect == Spec => []TypeOK
<1>1. Init => TypeOK
  BY InitType
<1>2. TypeOK /\ [Next]_vars => TypeOK'
  BY StepType
<1> QED
  BY <1>1, <1>2, PTL DEF Spec

-----------------------------------------------------------------------------
(* The file and the table                                                  *)
LEMMA InitHandles == Init => HandlesInv
BY DEF Init, HandlesInv, NoMisuse, Preloading

LEMMA StepHandles ==
  ASSUME "nofile" \notin Endings,
         "OPT" \notin Algorithms \/ "junk" \notin Endings
  PROVE  TypeOK /\ HandlesInv /\ [Next]_vars => HandlesInv'
<1> SUFFICES ASSUME TypeOK, HandlesInv, [Next]_vars PROVE HandlesInv'
  OBVIOUS
<1>0. /\ algorithm \in Algorithms /\ ending \in Endings
      /\ ending \in {"eof", "junk", "nofile"}
      /\ UNCHANGED algorithm
  BY StepKinds, ChoiceAssumption DEF TypeOK, inputs
<1>1. CASE UNCHANGED vars
  BY <1>0, <1>1 DEF vars, handles, HandlesInv, NoMisuse
<1>2. CASE page_table_init
  BY <1>0, <1>2 DEF page_table_init, HandlesInv, NoMisuse, Preloading
<1>3. CASE OpenLog
  BY <1>0, <1>3 DEF OpenLog, HandlesInv, NoMisuse, Preloading
<1>4. CASE get_accesses_count
  <2>1. ending = "eof"
    BY <1>0, <1>4 DEF get_accesses_count, HandlesInv, Preloading
  <2> QED
    BY <1>0, <1>4, <2>1
       DEF get_accesses_count, AfterFclose, HandlesInv, NoMisuse, Preloading
<1>5. CASE opt_preload
  BY <1>0, <1>5 DEF opt_preload, AfterFclose, HandlesInv, NoMisuse, Preloading
<1>6. CASE BadLine
  <2>1. pc = "run" /\ safe_fatal_error(fp)
    BY <1>6 DEF BadLine, Reading
  <2> QED
    BY <2>1 DEF safe_fatal_error, Freed, AfterFclose, HandlesInv, NoMisuse, Preloading
<1>7. CASE Access
  <2>1. UNCHANGED <<inputs, handles, preread, pc, misused>>
    BY <1>7, AccessStep
  <2> QED
    BY <1>0, <2>1 DEF handles, HandlesInv, NoMisuse
<1>8. CASE CloseLog
  BY <1>8 DEF CloseLog, AfterFclose, HandlesInv, NoMisuse, Preloading
<1>9. CASE page_table_destroy
  BY <1>9 DEF page_table_destroy, Freed, HandlesInv, NoMisuse, Preloading
<1>10. CASE Finish
  BY <1>10 DEF Finish, handles, HandlesInv, NoMisuse, Preloading
<1>11. CASE OpenFails
  BY <1>0, <1>11 DEF OpenFails
<1> QED
  BY <1>1, <1>2, <1>3, <1>4, <1>5, <1>6, <1>7, <1>8, <1>9, <1>10, <1>11
     DEF Next, Step, Access

(* Without an interrupt the program closes the log and frees the table     *)
(* once, unless it has no log or OPT meets one it cannot read (v_optfile). *)
THEOREM CleanExitHolds ==
  ASSUME "nofile" \notin Endings,
         "OPT" \notin Algorithms \/ "junk" \notin Endings
  PROVE  Spec => []CleanExit
<1>1. Init => TypeOK /\ HandlesInv
  BY InitType, InitHandles
<1>2. (TypeOK /\ HandlesInv) /\ [Next]_vars => (TypeOK /\ HandlesInv)'
  BY StepType, StepHandles
<1>3. HandlesInv => CleanExit
  BY DEF HandlesInv, CleanExit, Ended
<1> QED
  BY <1>1, <1>2, <1>3, PTL DEF Spec

-----------------------------------------------------------------------------
(* The pages in memory and the pages met                                   *)
LEMMA PastGrows ==
  ASSUME TypeOK, Access
  PROVE  /\ Met' = Met \cup {line.page}
         /\ Writes' = Writes \cup (IF line.rw = "W" THEN {tcounter} ELSE {})
         /\ PagesWritten' = PagesWritten \cup
                              (IF line.rw = "W" THEN {line.page} ELSE {})
         /\ tcounter \notin Writes
<1>1. /\ tcounter \in Nat /\ tcounter' = tcounter + 1
      /\ log' = log
  BY AccessStep DEF inputs
<1>2. Past' = Past \cup {tcounter} /\ tcounter \notin Past
  BY <1>1 DEF Past
<1>3. \A t : PageAt(t)' = PageAt(t) /\ (Written(t)' <=> Written(t))
  BY <1>1 DEF PageAt, Written
<1>4. PageAt(tcounter) = line.page /\ (Written(tcounter) <=> line.rw = "W")
  BY DEF PageAt, Written, line
<1>5. Met' = Met \cup {line.page}
  BY <1>1, <1>2, <1>4 DEF Met, PageAt
<1>6. Writes' = Writes \cup (IF line.rw = "W" THEN {tcounter} ELSE {})
  BY <1>1, <1>2, <1>4 DEF Writes, Written
<1>7. PagesWritten' = PagesWritten \cup
                        (IF line.rw = "W" THEN {line.page} ELSE {})
  BY <1>1, <1>4, <1>6 DEF PagesWritten, PageAt
<1> QED
  BY <1>2, <1>5, <1>6, <1>7 DEF Writes

LEMMA MetType ==
  ASSUME TypeOK
  PROVE  /\ Met \subseteq Pages /\ IsFiniteSet(Met) /\ Cardinality(Met) \in Nat
         /\ PagesWritten \subseteq Pages /\ IsFiniteSet(PagesWritten)
         /\ Cardinality(PagesWritten) \in Nat
         /\ IsFiniteSet(Writes) /\ Cardinality(Writes) \in Nat
         /\ IsFiniteSet(mflag) /\ Cardinality(mflag) \in Nat
<1>1. \A t \in Past : PageAt(t) \in Pages
  <2>1. Past \subseteq 0 .. Len(log) - 1
    BY LogType DEF TypeOK, Past
  <2> QED
    BY <2>1, LogType DEF TypeOK
<1>2. Met \subseteq Pages /\ PagesWritten \subseteq Pages
  BY <1>1 DEF Met, PagesWritten, Writes
<1>3. IsFiniteSet(Past) /\ Writes \subseteq Past
  <2>1. 0 \in Int /\ tcounter - 1 \in Int
    BY LogType DEF TypeOK
  <2> QED
    BY <2>1, FS_Interval DEF Past, Writes
<1>4. mflag \subseteq Pages
  BY DEF TypeOK
<1> QED
  BY <1>2, <1>3, <1>4, PagesAreFinite, FS_Subset, FS_CardinalityType

LEMMA SizeWith ==
  ASSUME NEW T, IsFiniteSet(T), NEW x
  PROVE  /\ Cardinality(T) \in Nat /\ IsFiniteSet(T \cup {x})
         /\ x \in T => Cardinality(T \cup {x}) = Cardinality(T)
         /\ x \notin T => Cardinality(T \cup {x}) = Cardinality(T) + 1
<1>1. x \in T => T \cup {x} = T
  OBVIOUS
<1> QED
  BY <1>1, FS_AddElement, FS_CardinalityType

LEMMA SizeWithout ==
  ASSUME NEW T, IsFiniteSet(T), NEW x
  PROVE  /\ Cardinality(T) \in Nat /\ IsFiniteSet(T \ {x})
         /\ x \notin T => Cardinality(T \ {x}) = Cardinality(T)
         /\ x \in T => Cardinality(T \ {x}) = Cardinality(T) - 1
<1>1. x \notin T => T \ {x} = T
  OBVIOUS
<1> QED
  BY <1>1, FS_RemoveElement, FS_CardinalityType

(* The size of memory is the number of pages met, up to max_page_cnt.      *)
LEMMA MemoryStep ==
  ASSUME TypeOK, MemoryInv, Access
  PROVE  MemoryInv'
<1> DEFINE p == line.page
           m == Cardinality(pflag)
           k == Cardinality(Met)
<1>1. PICK out : Evicting(out)
  BY AccessStep
<1>2. /\ IsFiniteSet(pflag) /\ m \in Nat
      /\ IsFiniteSet(Met) /\ k \in Nat
      /\ max_page_cnt \in Nat \ {0}
  BY FullMemory, MetType, SizeAssumption
<1>3. Met' = Met \cup {p} /\ pflag' = (pflag \ out) \cup {p} /\ out \subseteq pflag
  BY <1>1, PastGrows DEF Evicting
<1>4. pflag \subseteq Met /\ m = IF k < max_page_cnt THEN k ELSE max_page_cnt
  BY DEF MemoryInv, MemoryFull
<1>5. pflag' \subseteq Met'
  BY <1>3, <1>4
<1>6. CASE p \in pflag /\ out = {}
  <2>1. pflag' = pflag /\ Met' = Met
    BY <1>3, <1>4, <1>6
  <2> QED
    BY <2>1 DEF MemoryInv, MemoryFull
<1>7. CASE p \notin pflag /\ out = {} /\ MemoryFree
  <2>1. m < max_page_cnt
    BY <1>7 DEF MemoryFree
  <2>2. k = m
    BY <1>2, <1>4, <2>1
  <2>3. Met = pflag
    BY <1>2, <1>4, <2>2, FS_Subset
  <2>4. pflag' = pflag \cup {p} /\ Met' = pflag \cup {p}
    BY <1>3, <1>7, <2>3
  <2>5. Cardinality(pflag') = m + 1 /\ Cardinality(Met') = m + 1
    BY <1>2, <1>7, <2>4, FS_AddElement
  <2> QED
    BY <1>2, <1>5, <2>1, <2>5 DEF MemoryInv, MemoryFull
<1>8. CASE p \notin pflag /\ ~MemoryFree /\ \E v \in pflag : out = {v}
  <2>1. PICK v \in pflag : out = {v}
    BY <1>8
  <2>2. m = max_page_cnt /\ k >= max_page_cnt
    BY <1>2, <1>4, <1>8 DEF MemoryFree
  <2>3. IsFiniteSet(pflag \ {v}) /\ Cardinality(pflag \ {v}) = m - 1
    BY <1>2, SizeWithout
  <2>4. pflag' = (pflag \ {v}) \cup {p} /\ p \notin pflag \ {v}
    BY <1>3, <1>8, <2>1
  <2>5. Cardinality(pflag') = m
    <3>1. Cardinality(pflag') = Cardinality(pflag \ {v}) + 1
      BY <2>3, <2>4, SizeWith
    <3> QED
      BY <1>2, <2>3, <3>1
  <2>6. Cardinality(Met') \in Nat /\ Cardinality(Met') >= k
    <3>1. Cardinality(Met') = k \/ Cardinality(Met') = k + 1
      BY <1>2, <1>3, SizeWith
    <3> QED
      BY <1>2, <3>1
  <2> QED
    BY <1>2, <1>5, <2>2, <2>5, <2>6 DEF MemoryInv, MemoryFull
<1> QED
  BY <1>1, <1>6, <1>7, <1>8 DEF Evicting

LEMMA InitMemory == Init => MemoryInv
<1> SUFFICES ASSUME Init PROVE MemoryInv
  OBVIOUS
<1>1. Met = {} /\ pflag = {}
  BY DEF Init, Met, Past
<1>2. Cardinality({}) = 0
  BY FS_EmptySet
<1> QED
  BY <1>1, <1>2, SizeAssumption DEF MemoryInv, MemoryFull

LEMMA StepMemory == TypeOK /\ MemoryInv /\ [Next]_vars => MemoryInv'
<1> SUFFICES ASSUME TypeOK, MemoryInv, [Next]_vars PROVE MemoryInv'
  OBVIOUS
<1>1. CASE Access
  BY <1>1, MemoryStep
<1>2. CASE UNCHANGED <<inputs, entries, counts>>
  BY <1>2 DEF inputs, entries, counts, MemoryInv, MemoryFull, Met, Past, PageAt
<1> QED
  BY <1>1, <1>2, StepKinds

(* Memory fills up and stays full: every fault beyond that evicted just    *)
(* one page.                                                               *)
THEOREM MemoryFullHolds == Spec => []MemoryFull
<1>1. Init => TypeOK /\ MemoryInv
  BY InitType, InitMemory
<1>2. (TypeOK /\ MemoryInv) /\ [Next]_vars => (TypeOK /\ MemoryInv)'
  BY StepType, StepMemory
<1>3. MemoryInv => MemoryFull
  BY DEF MemoryInv
<1> QED
  BY <1>1, <1>2, <1>3, PTL DEF Spec

-----------------------------------------------------------------------------
(* What an eviction takes off the modified pages it adds to dirty_cnt, and *)
(* each of them is a fault that left memory as large as it was.            *)
LEMMA EvictionCounts ==
  ASSUME TypeOK, Access, NEW out, Evicting(out),
         dirty_cnt <= faults_cnt - Cardinality(pflag)
  PROVE  /\ dirty_cnt' \in Nat
         /\ IsFiniteSet(mflag \ out) /\ Cardinality(mflag \ out) \in Nat
         /\ dirty_cnt' + Cardinality(mflag \ out) = dirty_cnt + Cardinality(mflag)
         /\ dirty_cnt' <= faults_cnt' - Cardinality(pflag')
<1> DEFINE p == line.page
<1>1. /\ IsFiniteSet(pflag) /\ Cardinality(pflag) \in Nat
      /\ IsFiniteSet(mflag) /\ Cardinality(mflag) \in Nat
      /\ dirty_cnt \in Nat /\ faults_cnt \in Nat
  <2>1. tcounter \in Nat
    BY AccessStep
  <2> QED
    BY <2>1, FullMemory, MetType DEF TypeOK
<1>2. pflag' = (pflag \ out) \cup {p} /\ out \subseteq pflag
  BY DEF Evicting
<1>3. CASE out = {} /\ p \in pflag /\ UNCHANGED <<faults_cnt, dirty_cnt>>
  <2>1. pflag' = pflag /\ mflag \ out = mflag
    BY <1>2, <1>3
  <2> QED
    BY <1>1, <1>3, <2>1
<1>4. CASE out = {} /\ p \notin pflag /\ faults_cnt' = faults_cnt + 1
           /\ dirty_cnt' = dirty_cnt
  <2>1. pflag' = pflag \cup {p} /\ mflag \ out = mflag
    BY <1>2, <1>4
  <2>2. Cardinality(pflag') = Cardinality(pflag) + 1
    BY <1>1, <1>4, <2>1, SizeWith
  <2> QED
    BY <1>1, <1>4, <2>1, <2>2
<1>5. ASSUME NEW v \in pflag, out = {v}, p \notin pflag,
             faults_cnt' = faults_cnt + 1,
             dirty_cnt' = dirty_cnt + (IF v \in mflag THEN 1 ELSE 0)
      PROVE  /\ dirty_cnt' \in Nat
             /\ IsFiniteSet(mflag \ out) /\ Cardinality(mflag \ out) \in Nat
             /\ dirty_cnt' + Cardinality(mflag \ out)
                  = dirty_cnt + Cardinality(mflag)
             /\ dirty_cnt' <= faults_cnt' - Cardinality(pflag')
  <2>1. IsFiniteSet(pflag \ {v}) /\ Cardinality(pflag \ {v}) = Cardinality(pflag) - 1
    BY <1>1, SizeWithout
  <2>2. pflag' = (pflag \ {v}) \cup {p} /\ p \notin pflag \ {v}
    BY <1>2, <1>5
  <2>3. Cardinality(pflag') = Cardinality(pflag \ {v}) + 1
    BY <2>1, <2>2, SizeWith
  <2>4. /\ IsFiniteSet(mflag \ {v}) /\ Cardinality(mflag \ {v}) \in Nat
        /\ v \in mflag => Cardinality(mflag \ {v}) = Cardinality(mflag) - 1
        /\ v \notin mflag => Cardinality(mflag \ {v}) = Cardinality(mflag)
    BY <1>1, SizeWithout, FS_CardinalityType
  <2> QED
    BY <1>1, <1>5, <2>1, <2>3, <2>4
<1>6. CASE \E v \in alg_fault \cap pflag :
             /\ out = {v} /\ p \notin pflag /\ faults_cnt' = faults_cnt + 1
             /\ dirty_cnt' = dirty_cnt + (IF v \in mflag THEN 1 ELSE 0)
  BY <1>5, <1>6
<1> QED
  BY <1>3, <1>4, <1>6 DEF Evicting

LEMMA WritesStep ==
  ASSUME TypeOK, WritesInv, Access
  PROVE  WritesInv'
<1> DEFINE p == line.page
<1>1. PICK out : Evicting(out)
  BY AccessStep
<1>2. /\ mflag \subseteq PagesWritten
      /\ dirty_cnt + Cardinality(mflag) >= Cardinality(PagesWritten)
      /\ dirty_cnt + Cardinality(mflag) <= Cardinality(Writes)
      /\ dirty_cnt <= faults_cnt - Cardinality(pflag)
  BY DEF WritesInv, WritesAccounted
<1>3. /\ dirty_cnt' \in Nat
      /\ IsFiniteSet(mflag \ out) /\ Cardinality(mflag \ out) \in Nat
      /\ dirty_cnt' + Cardinality(mflag \ out) = dirty_cnt + Cardinality(mflag)
      /\ dirty_cnt' <= faults_cnt' - Cardinality(pflag')
  BY <1>1, <1>2, EvictionCounts
<1>4. /\ IsFiniteSet(PagesWritten) /\ Cardinality(PagesWritten) \in Nat
      /\ IsFiniteSet(Writes) /\ Cardinality(Writes) \in Nat
      /\ IsFiniteSet(mflag) /\ Cardinality(mflag) \in Nat
      /\ dirty_cnt \in Nat
  <2>1. tcounter \in Nat
    BY AccessStep
  <2> QED
    BY <2>1, MetType DEF TypeOK
<1>5. mflag' = (mflag \ out) \cup (IF line.rw = "W" THEN {p} ELSE {})
  BY <1>1 DEF Evicting
<1>6. /\ Writes' = Writes \cup (IF line.rw = "W" THEN {tcounter} ELSE {})
      /\ PagesWritten' = PagesWritten \cup (IF line.rw = "W" THEN {p} ELSE {})
      /\ tcounter \notin Writes
  BY PastGrows
<1>7. mflag' \subseteq PagesWritten'
  BY <1>2, <1>5, <1>6
<1>8. CASE line.rw # "W"
  <2>1. mflag' = mflag \ out /\ Writes' = Writes /\ PagesWritten' = PagesWritten
    BY <1>5, <1>6, <1>8
  <2> QED
    BY <1>2, <1>3, <1>4, <1>7, <2>1 DEF WritesInv, WritesAccounted
<1>9. CASE line.rw = "W"
  <2>1. Cardinality(Writes') = Cardinality(Writes) + 1
    BY <1>4, <1>6, <1>9, SizeWith
  <2>2. /\ mflag' = (mflag \ out) \cup {p}
        /\ PagesWritten' = PagesWritten \cup {p}
    BY <1>5, <1>6, <1>9
  <2>3. /\ p \in mflag \ out => Cardinality(mflag') = Cardinality(mflag \ out)
        /\ p \notin mflag \ out => Cardinality(mflag') = Cardinality(mflag \ out) + 1
    BY <1>3, <2>2, SizeWith
  <2>4. /\ p \in PagesWritten => Cardinality(PagesWritten') = Cardinality(PagesWritten)
        /\ p \notin PagesWritten =>
             Cardinality(PagesWritten') = Cardinality(PagesWritten) + 1
    BY <1>4, <2>2, SizeWith
  <2>5. p \in mflag \ out => p \in PagesWritten
    BY <1>2
  <2>6. /\ dirty_cnt' + Cardinality(mflag') >= Cardinality(PagesWritten')
        /\ dirty_cnt' + Cardinality(mflag') <= Cardinality(Writes')
    BY <1>2, <1>3, <1>4, <2>1, <2>3, <2>4, <2>5
  <2> QED
    BY <1>3, <1>7, <2>6 DEF WritesInv, WritesAccounted
<1> QED
  BY <1>8, <1>9

LEMMA InitWrites == Init => WritesInv
<1> SUFFICES ASSUME Init PROVE WritesInv
  OBVIOUS
<1>1. Writes = {} /\ PagesWritten = {}
  BY DEF Init, Past, Writes, PagesWritten
<1>2. mflag = {} /\ pflag = {} /\ dirty_cnt = 0 /\ faults_cnt = 0
  BY DEF Init
<1>3. Cardinality({}) = 0
  BY FS_EmptySet
<1> QED
  BY <1>1, <1>2, <1>3 DEF WritesInv, WritesAccounted

LEMMA StepWrites == TypeOK /\ WritesInv /\ [Next]_vars => WritesInv'
<1> SUFFICES ASSUME TypeOK, WritesInv, [Next]_vars PROVE WritesInv'
  OBVIOUS
<1>1. CASE Access
  BY <1>1, WritesStep
<1>2. CASE UNCHANGED <<inputs, entries, counts>>
  BY <1>2 DEF inputs, entries, counts, WritesInv, WritesAccounted, Writes,
              PagesWritten, Past, PageAt, Written
<1> QED
  BY <1>1, <1>2, StepKinds

(* No write is lost, and none is written back that was not made.           *)
THEOREM WritesAccountedHolds == Spec => []WritesAccounted
<1>1. Init => TypeOK /\ WritesInv
  BY InitType, InitWrites
<1>2. (TypeOK /\ WritesInv) /\ [Next]_vars => (TypeOK /\ WritesInv)'
  BY StepType, StepWrites
<1>3. WritesInv => WritesAccounted
  BY DEF WritesInv
<1> QED
  BY <1>1, <1>2, <1>3, PTL DEF Spec

-----------------------------------------------------------------------------
(* The last use of a page in the first n lines of a log l, as LastUse.     *)
LastIn(l, n, p, s) ==
  LET uses == {t \in 0 .. n - 1 : t >= s /\ l[t + 1].page = p}
  IN  IF uses = {} THEN -1 ELSE Max(uses)

LEMMA LastInIs ==
  ASSUME NEW l, NEW n \in Nat, NEW p, NEW s \in Int
  PROVE  LET u == LastIn(l, n, p, s)
         IN  \/ /\ u = -1
                /\ \A t \in 0 .. n - 1 : t >= s => l[t + 1].page # p
             \/ /\ u \in 0 .. n - 1 /\ u >= s /\ l[u + 1].page = p
                /\ \A t \in 0 .. n - 1 : t >= s /\ l[t + 1].page = p => t <= u
<1> DEFINE uses == {t \in 0 .. n - 1 : t >= s /\ l[t + 1].page = p}
           u == LastIn(l, n, p, s)
<1>1. uses \subseteq Nat /\ \A t \in uses : t <= n
  OBVIOUS
<1>2. u = IF uses = {} THEN -1 ELSE Max(uses)
  BY DEF LastIn
<1>3. CASE uses = {}
  BY <1>2, <1>3
<1>4. CASE uses # {}
  <2>1. u \in uses /\ \A t \in uses : t <= u
    <3> HIDE DEF uses
    <3> QED
      BY <1>1, <1>2, <1>4, MaxIsGreatest
  <2> QED
    BY <2>1
<1> QED
  BY <1>3, <1>4

(* One more line is the last use of its page and of no other.              *)
LEMMA LastInNext ==
  ASSUME NEW l, NEW n \in Nat, NEW p, NEW s \in Int
  PROVE  LastIn(l, n + 1, p, s) = IF l[n + 1].page = p /\ s <= n THEN n
                                  ELSE LastIn(l, n, p, s)
<1> DEFINE u == LastIn(l, n, p, s)
           w == LastIn(l, n + 1, p, s)
<1>1. \/ /\ u = -1
         /\ \A t \in 0 .. n - 1 : t >= s => l[t + 1].page # p
      \/ /\ u \in 0 .. n - 1 /\ u >= s /\ l[u + 1].page = p
         /\ \A t \in 0 .. n - 1 : t >= s /\ l[t + 1].page = p => t <= u
  BY LastInIs
<1>2. \/ /\ w = -1
         /\ \A t \in 0 .. n : t >= s => l[t + 1].page # p
      \/ /\ w \in 0 .. n /\ w >= s /\ l[w + 1].page = p
         /\ \A t \in 0 .. n : t >= s /\ l[t + 1].page = p => t <= w
  <2>1. PICK k \in Nat : k = n + 1
    OBVIOUS
  <2>2. LET v == LastIn(l, k, p, s)
        IN  \/ /\ v = -1
               /\ \A t \in 0 .. k - 1 : t >= s => l[t + 1].page # p
            \/ /\ v \in 0 .. k - 1 /\ v >= s /\ l[v + 1].page = p
               /\ \A t \in 0 .. k - 1 : t >= s /\ l[t + 1].page = p => t <= v
    BY LastInIs
  <2>3. k - 1 = n /\ w = LastIn(l, k, p, s)
    BY <2>1
  <2> QED
    BY <2>2, <2>3
<1> HIDE DEF u, w
<1>3. w = IF l[n + 1].page = p /\ s <= n THEN n ELSE u
  <2>1. CASE l[n + 1].page = p /\ s <= n
    BY <1>2, <2>1
  <2>2. CASE ~(l[n + 1].page = p /\ s <= n)
    <3>1. \A t \in 0 .. n : t >= s /\ l[t + 1].page = p => t \in 0 .. n - 1
      BY <2>2
    <3>2. CASE u = -1
      BY <1>1, <1>2, <3>1, <3>2
    <3>3. CASE u # -1
      <4>1. /\ u \in 0 .. n - 1 /\ u >= s /\ l[u + 1].page = p
            /\ \A t \in 0 .. n - 1 : t >= s /\ l[t + 1].page = p => t <= u
        BY <1>1, <3>3
      <4>2. w \in 0 .. n /\ w >= s /\ l[w + 1].page = p /\ u <= w
        BY <1>2, <4>1
      <4> QED
        BY <2>2, <3>1, <4>1, <4>2
    <3> QED
      BY <2>2, <3>2, <3>3
  <2> QED
    BY <2>1, <2>2
<1> QED
  BY <1>3 DEF u, w

LEMMA LastUseIs ==
  ASSUME TypeOK, NEW p, NEW s \in Int
  PROVE  LET u == LastUse(p, s)
         IN  \/ /\ u = -1
                /\ \A t \in Past : t >= s => PageAt(t) # p
             \/ /\ u \in Past /\ u >= s /\ PageAt(u) = p
                /\ \A t \in Past : t >= s /\ PageAt(t) = p => t <= u
<1>1. tcounter \in Nat
  BY LogType DEF TypeOK
<1>2. LastUse(p, s) = LastIn(log, tcounter, p, s)
  BY DEF LastUse, LastIn, Past, PageAt
<1> QED
  BY <1>1, <1>2, LastInIs DEF Past, PageAt

LEMMA LastUseStep ==
  ASSUME TypeOK, Access, NEW p, NEW s \in Int
  PROVE  LastUse(p, s)' = IF p = line.page /\ s <= tcounter THEN tcounter
                          ELSE LastUse(p, s)
<1>1. tcounter \in Nat /\ tcounter' = tcounter + 1 /\ log' = log
  BY AccessStep DEF inputs
<1>2. LastUse(p, s) = LastIn(log, tcounter, p, s)
  BY DEF LastUse, LastIn, Past, PageAt
<1>3. LastUse(p, s)' = LastIn(log, tcounter + 1, p, s)
  BY <1>1 DEF LastUse, LastIn, Past, PageAt
<1> QED
  BY <1>1, <1>2, <1>3, LastInNext DEF line

-----------------------------------------------------------------------------
(* LRU                                                                     *)

(* No two pages were last used by the same access.                         *)
LEMMA LastUseOnce ==
  ASSUME TypeOK
  PROVE  /\ tcounter \in Nat
         /\ \A p : LastUse(p, 0) \in Int /\ LastUse(p, 0) < tcounter
                     /\ LastUse(p, 0) >= -1
                     /\ (p \in Met <=> LastUse(p, 0) # -1)
         /\ \A p, q : LastUse(p, 0) = LastUse(q, 0) /\ LastUse(p, 0) # -1 => p = q
<1>1. tcounter \in Nat /\ Past = 0 .. tcounter - 1
  BY LogType DEF TypeOK, Past
<1>2. ASSUME NEW p
      PROVE  \/ /\ LastUse(p, 0) = -1
                /\ \A t \in Past : PageAt(t) # p
             \/ /\ LastUse(p, 0) \in Past /\ PageAt(LastUse(p, 0)) = p
  <2>1. \A t \in Past : t >= 0
    BY <1>1
  <2> QED
    BY <2>1, LastUseIs
<1>3. ASSUME NEW p
      PROVE  LastUse(p, 0) \in Int /\ LastUse(p, 0) < tcounter
               /\ LastUse(p, 0) >= -1 /\ (p \in Met <=> LastUse(p, 0) # -1)
  <2>1. CASE LastUse(p, 0) = -1 /\ \A t \in Past : PageAt(t) # p
    BY <1>1, <2>1 DEF Met
  <2>2. CASE LastUse(p, 0) \in Past /\ PageAt(LastUse(p, 0)) = p
    <3>1. p \in Met
      BY <2>2 DEF Met
    <3> QED
      BY <1>1, <2>2, <3>1
  <2> QED
    BY <1>2, <2>1, <2>2
<1>4. \A p, q : LastUse(p, 0) = LastUse(q, 0) /\ LastUse(p, 0) # -1 => p = q
  BY <1>2
<1> QED
  BY <1>1, <1>3, <1>4

LEMMA RecencyStep ==
  ASSUME TypeOK, RecencyInv, Access, algorithm = "LRU"
  PROVE  RecencyInv'
<1>1. PICK out : Evicting(out)
  BY AccessStep
<1>2. /\ line.page \in Pages
      /\ \A q : LastUse(q, 0)' = IF q = line.page THEN tcounter ELSE LastUse(q, 0)
      /\ Met' = Met \cup {line.page}
  <2>1. tcounter \in Nat
    BY AccessStep
  <2> QED
    BY <2>1, AccessStep, LastUseStep, PastGrows
<1>3. /\ tcounter \in Nat
      /\ \A p : LastUse(p, 0) \in Int /\ LastUse(p, 0) < tcounter
      /\ \A p, q : LastUse(p, 0) = LastUse(q, 0) /\ LastUse(p, 0) # -1 => p = q
      /\ \A p \in Met : LastUse(p, 0) # -1
  BY LastUseOnce
<1>4. /\ pflag' = (pflag \ out) \cup {line.page} /\ out \subseteq pflag
      /\ info' = [info EXCEPT ![line.page] = tcounter]
      /\ \A v \in out, p \in pflag : info[v] <= info[p]
  <2>1. \A v \in alg_fault \cap pflag, p \in pflag : info[v] <= info[p]
    BY VictimsPresent
  <2> QED
    BY <1>1, <2>1 DEF Evicting
<1>5. /\ pflag \subseteq Pages /\ DOMAIN info = Pages
      /\ \A p \in Pages : info'[p] = IF p = line.page THEN tcounter ELSE info[p]
  BY <1>4 DEF TypeOK
<1>6. \A p \in pflag : /\ LastUse(p, 0) = info[p] /\ p \in Met
                       /\ \A q \in Pages \ pflag : LastUse(q, 0) < LastUse(p, 0)
  BY DEF RecencyInv
<1>7. ASSUME NEW p \in pflag'
      PROVE  /\ LastUse(p, 0)' = info'[p] /\ p \in Met'
             /\ \A q \in Pages \ pflag' : LastUse(q, 0)' < LastUse(p, 0)'
  <2>1. CASE p = line.page
    <3>1. \A q \in Pages \ pflag' : LastUse(q, 0)' = LastUse(q, 0)
      BY <1>2, <1>4
    <3> QED
      BY <1>2, <1>3, <1>5, <2>1, <3>1
  <2>2. CASE p # line.page
    <3>1. p \in pflag /\ p \notin out
      BY <1>4, <1>7, <2>2
    <3>2. LastUse(p, 0)' = LastUse(p, 0) /\ LastUse(p, 0)' = info'[p] /\ p \in Met'
      BY <1>2, <1>5, <1>6, <2>2, <3>1
    <3>3. ASSUME NEW q \in Pages \ pflag'
          PROVE  LastUse(q, 0)' < LastUse(p, 0)'
      <4>1. LastUse(q, 0)' = LastUse(q, 0)
        BY <1>2, <1>4, <3>3
      <4>2. CASE q \notin pflag
        BY <1>6, <3>1, <3>2, <4>1, <4>2
      <4>3. CASE q \in pflag
        <5>1. q \in out /\ q # p
          BY <1>4, <3>1, <3>3, <4>3
        <5>2. LastUse(q, 0) <= LastUse(p, 0)
          BY <1>4, <1>6, <3>1, <4>3, <5>1
        <5>3. LastUse(q, 0) # LastUse(p, 0)
          BY <1>3, <1>6, <3>1, <5>1
        <5> QED
          BY <1>3, <3>2, <4>1, <5>2, <5>3
      <4> QED
        BY <4>2, <4>3
    <3> QED
      BY <3>2, <3>3
  <2> QED
    BY <2>1, <2>2
<1> QED
  BY <1>7 DEF RecencyInv

LEMMA StepRecency == TypeOK /\ RecencyInv /\ [Next]_vars => RecencyInv'
<1> SUFFICES ASSUME TypeOK, RecencyInv, [Next]_vars PROVE RecencyInv'
  OBVIOUS
<1>1. CASE Access /\ algorithm = "LRU"
  BY <1>1, RecencyStep
<1>2. CASE algorithm # "LRU"
  BY <1>2, StepKinds DEF inputs, RecencyInv
<1>3. CASE UNCHANGED <<inputs, entries, counts>>
  <2>1. UNCHANGED <<algorithm, pflag, info, log, tcounter>>
    BY <1>3 DEF inputs, entries, counts
  <2>2. \A q : LastUse(q, 0) = LastIn(log, tcounter, q, 0)
    BY DEF LastUse, LastIn, Past, PageAt
  <2>3. \A q : LastUse(q, 0)' = LastIn(log', tcounter', q, 0)
    BY DEF LastUse, LastIn, Past, PageAt
  <2>4. \A q : LastUse(q, 0)' = LastUse(q, 0)
    BY <2>1, <2>2, <2>3
  <2>5. Met' = Met
    BY <2>1 DEF Met, Past, PageAt
  <2> QED
    BY <2>1, <2>4, <2>5 DEF RecencyInv
<1> QED
  BY <1>1, <1>2, <1>3, StepKinds

(* The pages used after p are the others in memory, at most; and a page    *)
(* met and not in memory has all of a full memory used after it.           *)
LEMMA RecencyGivesStack == TypeOK /\ MemoryInv /\ RecencyInv => LRUStack
<1> SUFFICES ASSUME TypeOK, MemoryInv, RecencyInv, algorithm = "LRU"
             PROVE  pflag = {p \in Pages :
                               /\ LastUse(p, 0) # -1
                               /\ Cardinality({q \in Pages :
                                                 LastUse(q, 0) > LastUse(p, 0)})
                                    < max_page_cnt}
  BY DEF LRUStack
<1> DEFINE after(p) == {q \in Pages : LastUse(q, 0) > LastUse(p, 0)}
<1>1. /\ IsFiniteSet(pflag) /\ Cardinality(pflag) \in Nat /\ pflag \subseteq Pages
      /\ IsFiniteSet(Met) /\ Cardinality(Met) \in Nat
      /\ max_page_cnt \in Nat
  BY FullMemory, MetType, SizeAssumption DEF TypeOK
<1>2. /\ \A p : LastUse(p, 0) \in Int /\ (p \in Met <=> LastUse(p, 0) # -1)
  BY LastUseOnce
<1>3. \A p \in pflag : /\ p \in Met
                       /\ \A q \in Pages \ pflag : LastUse(q, 0) < LastUse(p, 0)
  BY DEF RecencyInv
<1>4. /\ pflag \subseteq Met
      /\ Cardinality(pflag) = IF Cardinality(Met) < max_page_cnt
                                THEN Cardinality(Met) ELSE max_page_cnt
  BY DEF MemoryInv, MemoryFull
<1>5. ASSUME NEW p \in pflag
      PROVE  LastUse(p, 0) # -1 /\ Cardinality(after(p)) < max_page_cnt
  <2>1. after(p) \subseteq pflag \ {p}
    BY <1>1, <1>2, <1>3
  <2>2. IsFiniteSet(pflag \ {p}) /\ Cardinality(pflag \ {p}) = Cardinality(pflag) - 1
    BY <1>1, SizeWithout
  <2>3. Cardinality(after(p)) \in Nat
          /\ Cardinality(after(p)) <= Cardinality(pflag \ {p})
    <3> HIDE DEF after
    <3> QED
      BY <2>1, <2>2, FS_Subset, FS_CardinalityType
  <2> HIDE DEF after
  <2> QED
    BY <1>1, <1>2, <1>3, <1>4, <2>2, <2>3
<1>6. ASSUME NEW p \in Pages \ pflag, LastUse(p, 0) # -1
      PROVE  ~(Cardinality(after(p)) < max_page_cnt)
  <2>1. p \in Met
    BY <1>2, <1>6
  <2>2. Cardinality(pflag) # Cardinality(Met)
    BY <1>1, <1>4, <1>6, <2>1, FS_Subset
  <2>3. Cardinality(pflag) = max_page_cnt
    BY <1>1, <1>4, <2>2
  <2>4. pflag \subseteq after(p)
    BY <1>1, <1>2, <1>3
  <2>5. IsFiniteSet(after(p))
    BY PagesAreFinite, FS_Subset
  <2>6. Cardinality(after(p)) \in Nat /\ Cardinality(pflag) <= Cardinality(after(p))
    <3> HIDE DEF after
    <3> QED
      BY <2>4, <2>5, FS_Subset, FS_CardinalityType
  <2> HIDE DEF after
  <2> QED
    BY <1>1, <2>3, <2>6
<1> QED
  BY <1>1, <1>5, <1>6

(* LRU keeps the pages used last.                                          *)
THEOREM LRUStackHolds == Spec => []LRUStack
<1>1. Init => TypeOK /\ MemoryInv /\ RecencyInv
  <2>1. Init => RecencyInv
    BY DEF Init, RecencyInv
  <2> QED
    BY <2>1, InitType, InitMemory
<1>2. (TypeOK /\ MemoryInv /\ RecencyInv) /\ [Next]_vars
        => (TypeOK /\ MemoryInv /\ RecencyInv)'
  BY StepType, StepMemory, StepRecency
<1> QED
  BY <1>1, <1>2, RecencyGivesStack, PTL DEF Spec

-----------------------------------------------------------------------------
(* NRU                                                                     *)
LEMMA DivisionFacts ==
  ASSUME NEW n \in Nat, NEW N \in Nat \ {0}
  PROVE  /\ n \div N \in Nat /\ (n \div N) * N \in Nat
         /\ (n \div N) * N <= n
         /\ n % N = 0 => (n \div N) * N = n
         /\ (n + 1) % N # 0 => (n + 1) \div N = n \div N
BY SMT

(* An access resets the R flags just when it moves LastReset.              *)
LEMMA ResetStep ==
  ASSUME TypeOK, Access
  PROVE  /\ tcounter \in Nat /\ LastReset \in Int /\ LastReset < tcounter
         /\ LastReset' = IF tcounter % NRU_CYCLES = 0 THEN tcounter ELSE LastReset
<1>1. /\ tcounter \in Nat /\ tcounter' = tcounter + 1
      /\ NRU_CYCLES \in Nat \ {0}
  BY AccessStep, SizeAssumption
<1>2. LastReset' = (tcounter \div NRU_CYCLES) * NRU_CYCLES
  <2>1. tcounter' # 0 /\ tcounter' - 1 = tcounter
    BY <1>1
  <2> QED
    BY <2>1 DEF LastReset
<1>3. CASE tcounter = 0
  <2>1. tcounter % NRU_CYCLES = 0
    BY <1>1, <1>3
  <2>2. LastReset = -1
    BY <1>3 DEF LastReset
  <2>3. LastReset' = tcounter
    BY <1>1, <1>2, <2>1, DivisionFacts
  <2> QED
    BY <1>3, <2>1, <2>2, <2>3
<1>4. CASE tcounter # 0
  <2>1. PICK n \in Nat : tcounter = n + 1 /\ tcounter - 1 = n
    BY <1>1, <1>4
  <2>2. LastReset = (n \div NRU_CYCLES) * NRU_CYCLES
    BY <1>4, <2>1 DEF LastReset
  <2>3. LastReset \in Int /\ LastReset <= n
    BY <1>1, <2>2, DivisionFacts
  <2>4. tcounter % NRU_CYCLES = 0 => LastReset' = tcounter
    BY <1>1, <1>2, DivisionFacts
  <2>5. tcounter % NRU_CYCLES # 0 => LastReset' = LastReset
    BY <1>1, <1>2, <2>1, <2>2, DivisionFacts
  <2> QED
    BY <1>1, <2>1, <2>3, <2>4, <2>5
<1> QED
  BY <1>3, <1>4

LEMMA ReferencedStep ==
  ASSUME TypeOK, ReferencedInv, Access, algorithm = "NRU"
  PROVE  ReferencedInv'
<1> DEFINE due == tcounter % NRU_CYCLES = 0
<1>1. PICK out : Evicting(out)
  BY AccessStep
<1>2. /\ pflag' = (pflag \ out) \cup {line.page} /\ out \subseteq pflag
      /\ rflag' = IF due THEN {} ELSE (rflag \ out) \cup {line.page}
      /\ pflag \subseteq Pages /\ line.page \in Pages
  BY <1>1, AccessStep DEF Evicting, ResetDue, TypeOK
<1>3. /\ tcounter \in Nat /\ LastReset \in Int /\ LastReset < tcounter
      /\ LastReset' = IF due THEN tcounter ELSE LastReset
      /\ tcounter' = tcounter + 1 /\ log' = log
  BY ResetStep, AccessStep DEF inputs
<1>4. Referenced' = {p \in Pages : LastIn(log', tcounter', p, LastReset' + 1) # -1}
  BY DEF Referenced, LastUse, LastIn, Past, PageAt
<1>5. Referenced = {p \in Pages : LastIn(log, tcounter, p, LastReset + 1) # -1}
  BY DEF Referenced, LastUse, LastIn, Past, PageAt
<1>6. CASE due
  <2>1. ASSUME NEW p
        PROVE  LastIn(log', tcounter', p, LastReset' + 1) = -1
    <3>1. PICK n \in Nat : n = tcounter + 1
      BY <1>3
    <3>2. n \in Int
      OBVIOUS
    <3>3. LastIn(log, n, p, n) = -1
            \/ (LastIn(log, n, p, n) \in 0 .. n - 1 /\ LastIn(log, n, p, n) >= n)
      BY <3>2, LastInIs
    <3>4. LastIn(log, n, p, n) = -1
      BY <3>3
    <3> QED
      BY <1>3, <1>6, <3>1, <3>4
  <2>2. Referenced' = {}
    BY <1>4, <2>1
  <2> QED
    BY <1>2, <1>6, <2>2 DEF ReferencedInv
<1>7. CASE ~due
  <2>1. PICK s \in Int : s = LastReset + 1 /\ s <= tcounter
    BY <1>3
  <2>2. ASSUME NEW p
        PROVE  LastIn(log', tcounter', p, LastReset' + 1)
                 = IF log[tcounter + 1].page = p THEN tcounter
                   ELSE LastIn(log, tcounter, p, s)
    <3>1. LastIn(log, tcounter + 1, p, s)
            = IF log[tcounter + 1].page = p THEN tcounter
              ELSE LastIn(log, tcounter, p, s)
      BY <1>3, <2>1, LastInNext
    <3> QED
      BY <1>3, <1>7, <2>1, <3>1
  <2>3. Referenced' = Referenced \cup {line.page}
    BY <1>2, <1>3, <1>4, <1>5, <2>1, <2>2 DEF line
  <2>4. \A p \in pflag : p \in rflag <=> p \in Referenced
    BY DEF ReferencedInv
  <2>5. \A p \in pflag' : p \in rflag' <=> p \in Referenced'
    BY <1>2, <1>7, <2>3, <2>4
  <2> QED
    BY <2>5 DEF ReferencedInv
<1> QED
  BY <1>6, <1>7

LEMMA StepReferenced == TypeOK /\ ReferencedInv /\ [Next]_vars => ReferencedInv'
<1> SUFFICES ASSUME TypeOK, ReferencedInv, [Next]_vars PROVE ReferencedInv'
  OBVIOUS
<1>1. CASE Access /\ algorithm = "NRU"
  BY <1>1, ReferencedStep
<1>2. CASE algorithm # "NRU"
  BY <1>2, StepKinds DEF inputs, ReferencedInv
<1>3. CASE UNCHANGED <<inputs, entries, counts>>
  <2>1. UNCHANGED <<algorithm, pflag, rflag, log, tcounter>>
    BY <1>3 DEF inputs, entries, counts
  <2>2. Referenced = {p \in Pages : LastIn(log, tcounter, p, LastReset + 1) # -1}
    BY DEF Referenced, LastUse, LastIn, Past, PageAt
  <2>3. Referenced' = {p \in Pages : LastIn(log', tcounter', p, LastReset' + 1) # -1}
    BY DEF Referenced, LastUse, LastIn, Past, PageAt
  <2>4. LastReset' = LastReset
    BY <2>1 DEF LastReset
  <2>5. Referenced' = Referenced
    BY <2>1, <2>2, <2>3, <2>4
  <2> QED
    BY <2>1, <2>5 DEF ReferencedInv
<1> QED
  BY <1>1, <1>2, <1>3, StepKinds

(* NRU evicts no page while another is of a lower class.                   *)
THEOREM NRUEvictsLowestHolds == Spec => NRUEvictsLowest
<1> DEFINE Lowest == algorithm = "NRU" =>
                       \A v \in pflag \ pflag' : \A p \in pflag :
                         HistoryClass(v) <= HistoryClass(p)
<1>1. Init => TypeOK /\ ReferencedInv
  <2>1. Init => ReferencedInv
    BY DEF Init, ReferencedInv
  <2> QED
    BY <2>1, InitType
<1>2. (TypeOK /\ ReferencedInv) /\ [Next]_vars => (TypeOK /\ ReferencedInv)'
  BY StepType, StepReferenced
<1>3. (TypeOK /\ ReferencedInv) /\ [Next]_vars => Lowest
  <2> SUFFICES ASSUME TypeOK, ReferencedInv, [Next]_vars, algorithm = "NRU",
                      NEW v \in pflag \ pflag', NEW p \in pflag
               PROVE  HistoryClass(v) <= HistoryClass(p)
    OBVIOUS
  <2>1. Access
    BY StepKinds DEF entries
  <2>2. PICK out : Evicting(out)
    BY <2>1, AccessStep
  <2>3. v \in out /\ v \in alg_fault
    BY <2>2 DEF Evicting
  <2>4. Class(v) <= Class(p)
    BY <2>3, VictimsPresent
  <2>5. \A q \in pflag : HistoryClass(q) = Class(q)
    BY DEF ReferencedInv, HistoryClass, Class
  <2> QED
    BY <2>4, <2>5
<1> QED
  BY <1>1, <1>2, <1>3, PTL DEF Spec, NRUEvictsLowest

-----------------------------------------------------------------------------
(* The fewest faults there can be.  The inductions go from the last line   *)
(* of the log back, by the counterexample with the fewest lines left.      *)
NoFaults == [r \in SUBSET Pages |-> 0]

(* The recursive function exists.                                          *)
LEMMA FewestDef ==
  ASSUME NEW lines, Len(lines) \in Nat
  PROVE  FewestFrom(lines) = [t \in 0 .. Len(lines) |->
           IF t = Len(lines) THEN NoFaults
           ELSE FewestAt(lines[t + 1].page, FewestFrom(lines)[t + 1])]
<1>1. PICK L \in Nat : L = Len(lines)
  OBVIOUS
<1> DEFINE F(n, f) == f = [t \in L - n .. L |->
                             IF t = L THEN NoFaults
                             ELSE FewestAt(lines[t + 1].page, f[t + 1])]
           Bad == {n \in 0 .. L : ~ \E f : F(n, f)}
<1>2. Bad = {}
  <2> SUFFICES ASSUME Bad # {} PROVE FALSE
    OBVIOUS
  <2>1. PICK n \in Bad : \A m \in Bad : n <= m
    <3>1. Bad \subseteq Nat
      OBVIOUS
    <3> HIDE DEF Bad
    <3> QED
      BY <3>1, Least
  <2>2. n \in 0 .. L /\ ~ \E f : F(n, f)
    BY <2>1
  <2>3. n # 0
    <3>1. F(0, [t \in L - 0 .. L |-> NoFaults])
      OBVIOUS
    <3> HIDE DEF F
    <3> QED
      BY <2>2, <3>1
  <2>4. n - 1 \in 0 .. L /\ n - 1 \notin Bad
    <3> HIDE DEF Bad
    <3> QED
      BY <2>1, <2>2, <2>3
  <2>5. PICK g : F(n - 1, g)
    BY <2>4
  <2> DEFINE first == FewestAt(lines[L - n + 1].page, g[L - n + 1])
             f == [t \in L - n .. L |-> IF t = L - n THEN first ELSE g[t]]
  <2> HIDE DEF first
  <2>6. \A t \in L - n .. L : f[t] = IF t = L THEN NoFaults
                                     ELSE FewestAt(lines[t + 1].page, f[t + 1])
    <3> TAKE t \in L - n .. L
    <3>0. L - n \in 0 .. L - 1 /\ L - n # L
      BY <2>2, <2>3
    <3>1. CASE t = L - n
      <4>1. t + 1 \in L - n .. L /\ t + 1 # L - n /\ t # L
        BY <2>2, <2>3, <3>1
      <4>2. f[t] = first /\ f[t + 1] = g[t + 1]
        BY <3>1, <4>1
      <4>3. f[t] = FewestAt(lines[t + 1].page, g[t + 1])
        BY <3>1, <4>2 DEF first
      <4> QED
        BY <4>1, <4>2, <4>3
    <3>2. CASE t # L - n
      <4>1. /\ t \in L - (n - 1) .. L
            /\ t # L => t + 1 # L - n /\ t + 1 \in L - n .. L
        BY <2>2, <3>2
      <4>2. g[t] = IF t = L THEN NoFaults
                   ELSE FewestAt(lines[t + 1].page, g[t + 1])
        BY <2>5, <4>1
      <4>3. f[t] = g[t]
        BY <3>2
      <4>4. t # L => f[t + 1] = g[t + 1]
        BY <4>1
      <4> QED
        BY <4>2, <4>3, <4>4
    <3> QED
      BY <3>1, <3>2
  <2>7. F(n, f)
    BY <2>6
  <2> HIDE DEF F
  <2> QED
    BY <2>2, <2>7
<1>3. PICK f : F(L, f)
  <2>1. L \in 0 .. L /\ L \notin Bad
    <3> HIDE DEF Bad
    <3> QED
      BY <1>2
  <2> HIDE DEF F
  <2> QED
    BY <2>1
<1>4. \E g : g = [t \in 0 .. Len(lines) |->
                    IF t = Len(lines) THEN NoFaults
                    ELSE FewestAt(lines[t + 1].page, g[t + 1])]
  <2>1. L - L = 0
    OBVIOUS
  <2> QED
    BY <1>1, <1>3, <2>1
<1> QED
  BY <1>4 DEF FewestFrom, NoFaults

LEMMA FewestStep ==
  ASSUME NEW lines, Len(lines) \in Nat
  PROVE  /\ FewestFrom(lines)[Len(lines)] = NoFaults
         /\ \A t \in 0 .. Len(lines) - 1 :
              FewestFrom(lines)[t]
                = FewestAt(lines[t + 1].page, FewestFrom(lines)[t + 1])
<1>1. PICK f : f = FewestFrom(lines)
  OBVIOUS
<1>2. f = [t \in 0 .. Len(lines) |->
             IF t = Len(lines) THEN NoFaults
             ELSE FewestAt(lines[t + 1].page, f[t + 1])]
  BY <1>1, FewestDef
<1>3. \A t \in 0 .. Len(lines) :
        f[t] = IF t = Len(lines) THEN NoFaults
               ELSE FewestAt(lines[t + 1].page, f[t + 1])
  BY <1>2
<1>4. Len(lines) \in 0 .. Len(lines)
  OBVIOUS
<1>5. \A t \in 0 .. Len(lines) - 1 : t \in 0 .. Len(lines) /\ t # Len(lines)
  OBVIOUS
<1> QED
  BY <1>1, <1>3, <1>4, <1>5

-----------------------------------------------------------------------------
(* Memory once it is full, and an exchange of one page for another.        *)
Full == {r \in SUBSET Pages : Cardinality(r) = max_page_cnt}

Swap(r, v, p) == (r \ {v}) \cup {p}

LEMMA SwapFull ==
  ASSUME NEW r \in Full, NEW v \in r, NEW p \in Pages, p \notin r
  PROVE  Swap(r, v, p) \in Full
<1>1. IsFiniteSet(r) /\ r \subseteq Pages /\ Cardinality(r) = max_page_cnt
  BY PagesAreFinite, FS_Subset DEF Full
<1>2. /\ IsFiniteSet(r \ {v}) /\ p \notin r \ {v}
      /\ Cardinality(r \ {v}) = max_page_cnt - 1
  BY <1>1, SizeWithout
<1>3. Cardinality((r \ {v}) \cup {p}) = Cardinality(r \ {v}) + 1
  BY <1>2, SizeWith
<1>4. Cardinality(Swap(r, v, p)) = max_page_cnt
  BY <1>2, <1>3, SizeAssumption DEF Swap
<1>5. Swap(r, v, p) \subseteq Pages
  BY <1>1 DEF Swap
<1> QED
  BY <1>4, <1>5 DEF Full

(* What one line costs.                                                    *)
LEMMA FewestAtIs ==
  ASSUME NEW page \in Pages, NEW rest \in [SUBSET Pages -> Nat]
  PROVE  /\ FewestAt(page, rest) \in [SUBSET Pages -> Nat]
         /\ \A r \in SUBSET Pages :
              /\ page \in r => FewestAt(page, rest)[r] = rest[r]
              /\ page \notin r /\ Cardinality(r) < max_page_cnt =>
                   FewestAt(page, rest)[r] = 1 + rest[r \cup {page}]
              /\ page \notin r /\ ~(Cardinality(r) < max_page_cnt) =>
                   /\ \E v \in r :
                        FewestAt(page, rest)[r] = 1 + rest[Swap(r, v, page)]
                   /\ \A v \in r :
                        FewestAt(page, rest)[r] <= 1 + rest[Swap(r, v, page)]
<1> DEFINE costs(r) == {rest[(r \ {v}) \cup {page}] : v \in r}
<1>1. ASSUME NEW r \in SUBSET Pages, ~(Cardinality(r) < max_page_cnt)
      PROVE  /\ Min(costs(r)) \in Nat
             /\ \E v \in r : Min(costs(r)) = rest[Swap(r, v, page)]
             /\ \A v \in r : /\ rest[Swap(r, v, page)] \in Nat
                             /\ Min(costs(r)) <= rest[Swap(r, v, page)]
  <2>1. r # {}
    BY <1>1, FS_EmptySet, SizeAssumption
  <2>2. \A v \in r : rest[(r \ {v}) \cup {page}] \in Nat
    OBVIOUS
  <2>3. costs(r) \subseteq Nat /\ costs(r) # {}
    BY <2>1, <2>2
  <2>4. Min(costs(r)) \in costs(r) /\ \A c \in costs(r) : Min(costs(r)) <= c
    <3> HIDE DEF costs
    <3> QED
      BY <2>3, MinIsLeast
  <2>5. PICK m : m = Min(costs(r))
    OBVIOUS
  <2>6. m \in costs(r) /\ \A c \in costs(r) : m <= c
    BY <2>4, <2>5
  <2>7. /\ \E v \in r : m = rest[(r \ {v}) \cup {page}]
        /\ \A v \in r : m <= rest[(r \ {v}) \cup {page}]
    BY <2>6
  <2> QED
    BY <2>2, <2>5, <2>7 DEF Swap
<1>2. ASSUME NEW r \in SUBSET Pages
      PROVE  FewestAt(page, rest)[r] =
               IF page \in r THEN rest[r]
               ELSE IF Cardinality(r) < max_page_cnt THEN 1 + rest[r \cup {page}]
               ELSE 1 + Min(costs(r))
  BY DEF FewestAt
<1>3. ASSUME NEW r \in SUBSET Pages
      PROVE  rest[r] \in Nat /\ rest[r \cup {page}] \in Nat
  OBVIOUS
<1> HIDE DEF costs
<1>4. ASSUME NEW r \in SUBSET Pages
      PROVE  FewestAt(page, rest)[r] \in Nat
  <2>1. PICK a \in Nat, b \in Nat : a = rest[r] /\ b = rest[r \cup {page}]
    BY <1>3
  <2>2. CASE page \in r
    BY <1>2, <2>1, <2>2
  <2>3. CASE page \notin r /\ Cardinality(r) < max_page_cnt
    <3>1. FewestAt(page, rest)[r] = 1 + b
      BY <1>2, <2>1, <2>3
    <3> QED
      BY <3>1
  <2>4. CASE page \notin r /\ ~(Cardinality(r) < max_page_cnt)
    <3>1. FewestAt(page, rest)[r] = 1 + Min(costs(r)) /\ Min(costs(r)) \in Nat
      BY <1>1, <1>2, <2>4
    <3> QED
      BY <3>1
  <2> QED
    BY <2>2, <2>3, <2>4
<1>5. FewestAt(page, rest) \in [SUBSET Pages -> Nat]
  <2>1. FewestAt(page, rest) = [r \in SUBSET Pages |-> FewestAt(page, rest)[r]]
    BY DEF FewestAt
  <2> QED
    BY <1>4, <2>1
<1>6. ASSUME NEW r \in SUBSET Pages, page \notin r, ~(Cardinality(r) < max_page_cnt)
      PROVE  /\ \E v \in r :
                  FewestAt(page, rest)[r] = 1 + rest[Swap(r, v, page)]
             /\ \A v \in r :
                  FewestAt(page, rest)[r] <= 1 + rest[Swap(r, v, page)]
  <2>1. PICK m \in Nat : m = Min(costs(r))
    BY <1>1, <1>6
  <2>2. FewestAt(page, rest)[r] = 1 + m
    BY <1>2, <1>6, <2>1
  <2>3. /\ \E v \in r : m = rest[Swap(r, v, page)]
        /\ \A v \in r : rest[Swap(r, v, page)] \in Nat /\ m <= rest[Swap(r, v, page)]
    BY <1>1, <1>6, <2>1
  <2> QED
    BY <2>2, <2>3
<1> QED
  BY <1>2, <1>5, <1>6

LEMMA FewestType ==
  ASSUME NEW lines \in Logs
  PROVE  /\ Len(lines) \in Nat
         /\ \A t \in 0 .. Len(lines) - 1 : lines[t + 1].page \in Pages
         /\ \A t \in 0 .. Len(lines) : FewestFrom(lines)[t] \in [SUBSET Pages -> Nat]
<1>1. /\ Len(lines) \in Nat
      /\ \A t \in 0 .. Len(lines) - 1 : lines[t + 1].page \in Pages
  <2>1. PICK n \in 0 .. MaxLines : lines \in [1 .. n -> Lines]
    BY DEF Logs
  <2>2. n \in Nat /\ Len(lines) = n
    BY <2>1, ChoiceAssumption
  <2>3. \A t \in 0 .. n - 1 : lines[t + 1] \in Lines
    BY <2>1, <2>2
  <2>4. \A e \in Lines : e.page \in Pages
    BY DEF Lines
  <2> QED
    BY <2>2, <2>3, <2>4
<1>2. PICK L \in Nat : L = Len(lines)
  BY <1>1
<1>3. PICK F : F = FewestFrom(lines)
  OBVIOUS
<1>4. /\ F[L] = NoFaults
      /\ \A t \in 0 .. L - 1 : F[t] = FewestAt(lines[t + 1].page, F[t + 1])
  BY <1>1, <1>2, <1>3, FewestStep
<1> DEFINE Bad == {n \in 0 .. L : F[L - n] \notin [SUBSET Pages -> Nat]}
<1>5. Bad = {}
  <2> SUFFICES ASSUME Bad # {} PROVE FALSE
    OBVIOUS
  <2>1. PICK n \in Bad : \A m \in Bad : n <= m
    <3>1. Bad \subseteq Nat
      OBVIOUS
    <3> HIDE DEF Bad
    <3> QED
      BY <3>1, Least
  <2>2. n \in 0 .. L /\ F[L - n] \notin [SUBSET Pages -> Nat]
    BY <2>1
  <2>3. n # 0
    <3>1. L - 0 = L /\ NoFaults \in [SUBSET Pages -> Nat]
      BY DEF NoFaults
    <3> QED
      BY <1>4, <2>2, <3>1
  <2>4. n - 1 \in 0 .. L /\ n - 1 \notin Bad
    <3> HIDE DEF Bad
    <3> QED
      BY <2>1, <2>2, <2>3
  <2>5. F[L - (n - 1)] \in [SUBSET Pages -> Nat]
    BY <2>4
  <2>6. PICK t \in 0 .. L - 1 : t = L - n /\ t + 1 = L - (n - 1)
    BY <2>2, <2>3
  <2>7. FewestAt(lines[t + 1].page, F[t + 1]) \in [SUBSET Pages -> Nat]
    BY <1>1, <1>2, <2>5, <2>6, FewestAtIs
  <2> QED
    BY <1>4, <2>2, <2>6, <2>7
<1>6. ASSUME NEW t \in 0 .. L
      PROVE  F[t] \in [SUBSET Pages -> Nat]
  <2>1. L - t \in 0 .. L /\ L - (L - t) = t
    OBVIOUS
  <2>2. L - t \notin Bad
    BY <1>5
  <2> QED
    BY <2>1, <2>2
<1> QED
  BY <1>1, <1>2, <1>3, <1>6

-----------------------------------------------------------------------------
(* What a line costs a full memory.                                        *)
LEMMA FullLine ==
  ASSUME NEW lines \in Logs, NEW t \in 0 .. Len(lines) - 1, NEW r \in Full
  PROVE  /\ lines[t + 1].page \in Pages
         /\ FewestFrom(lines)[t][r] \in Nat /\ FewestFrom(lines)[t + 1][r] \in Nat
         /\ lines[t + 1].page \in r =>
              FewestFrom(lines)[t][r] = FewestFrom(lines)[t + 1][r]
         /\ lines[t + 1].page \notin r =>
              /\ \E v \in r : FewestFrom(lines)[t][r] =
                   1 + FewestFrom(lines)[t + 1][Swap(r, v, lines[t + 1].page)]
              /\ \A v \in r :
                   /\ Swap(r, v, lines[t + 1].page) \in Full
                   /\ FewestFrom(lines)[t][r] <=
                        1 + FewestFrom(lines)[t + 1][Swap(r, v, lines[t + 1].page)]
<1>1. PICK F : F = FewestFrom(lines)
  OBVIOUS
<1>2. /\ lines[t + 1].page \in Pages
      /\ F[t] \in [SUBSET Pages -> Nat] /\ F[t + 1] \in [SUBSET Pages -> Nat]
      /\ F[t] = FewestAt(lines[t + 1].page, F[t + 1])
  <2>1. Len(lines) \in Nat
    BY FewestType
  <2>2. t \in 0 .. Len(lines) /\ t + 1 \in 0 .. Len(lines)
    BY <2>1
  <2> QED
    BY <1>1, <2>1, <2>2, FewestType, FewestStep
<1>3. PICK p \in Pages : p = lines[t + 1].page
  BY <1>2
<1>4. PICK rest \in [SUBSET Pages -> Nat] : rest = F[t + 1]
  BY <1>2
<1>5. /\ r \in SUBSET Pages /\ ~(Cardinality(r) < max_page_cnt)
      /\ F[t][r] \in Nat /\ rest[r] \in Nat
  <2>1. r \in SUBSET Pages /\ Cardinality(r) = max_page_cnt
    BY DEF Full
  <2> QED
    BY <1>2, <2>1, SizeAssumption
<1>6. F[t] = FewestAt(p, rest)
  BY <1>2, <1>3, <1>4
<1>7. /\ p \in r => F[t][r] = rest[r]
      /\ p \notin r =>
           /\ \E v \in r : F[t][r] = 1 + rest[Swap(r, v, p)]
           /\ \A v \in r : F[t][r] <= 1 + rest[Swap(r, v, p)]
  <2>1. PICK G : G = FewestAt(p, rest)
    OBVIOUS
  <2>2. \A b \in SUBSET Pages :
              /\ p \in b => FewestAt(p, rest)[b] = rest[b]
              /\ p \notin b /\ Cardinality(b) < max_page_cnt =>
                   FewestAt(p, rest)[b] = 1 + rest[b \cup {p}]
              /\ p \notin b /\ ~(Cardinality(b) < max_page_cnt) =>
                   /\ \E v \in b :
                        FewestAt(p, rest)[b] = 1 + rest[Swap(b, v, p)]
                   /\ \A v \in b :
                        FewestAt(p, rest)[b] <= 1 + rest[Swap(b, v, p)]
    BY FewestAtIs
  <2>3. F[t] = G
    BY <1>6, <2>1
  <2> QED
    BY <1>5, <2>1, <2>2, <2>3
<1>8. p \notin r => \A v \in r : Swap(r, v, p) \in Full
  BY SwapFull
<1> QED
  BY <1>1, <1>3, <1>4, <1>5, <1>7, <1>8

(* Exchanges that come to the same.                                        *)
LEMMA Swaps ==
  ASSUME NEW a, NEW x \in a, NEW y, y \notin a, NEW p
  PROVE  /\ y \in Swap(a, x, y) /\ x \notin Swap(a, x, y)
         /\ p # x /\ p # y => (p \in Swap(a, x, y) <=> p \in a)
         /\ Swap(Swap(a, x, y), y, x) = a
         /\ Swap(Swap(a, x, y), y, p) = Swap(a, x, p)
         /\ \A u \in Swap(a, x, y) : u # y =>
              /\ u \in a /\ u # x
              /\ Swap(Swap(a, x, y), u, x) = Swap(a, u, y)
              /\ p \notin a /\ p # y =>
                   /\ x \in Swap(a, u, p) /\ y \notin Swap(a, u, p)
                   /\ Swap(Swap(a, x, y), u, p) = Swap(Swap(a, u, p), x, y)
<1>1. /\ y \in Swap(a, x, y) /\ x \notin Swap(a, x, y)
      /\ p # x /\ p # y => (p \in Swap(a, x, y) <=> p \in a)
  BY DEF Swap
<1>2. Swap(Swap(a, x, y), y, x) = a
  BY DEF Swap
<1>3. Swap(Swap(a, x, y), y, p) = Swap(a, x, p)
  BY DEF Swap
<1>4. ASSUME NEW u \in Swap(a, x, y), u # y
      PROVE  /\ u \in a /\ u # x
             /\ Swap(Swap(a, x, y), u, x) = Swap(a, u, y)
             /\ p \notin a /\ p # y =>
                  /\ x \in Swap(a, u, p) /\ y \notin Swap(a, u, p)
                  /\ Swap(Swap(a, x, y), u, p) = Swap(Swap(a, u, p), x, y)
  <2>1. u \in a /\ u # x
    BY <1>4 DEF Swap
  <2>2. Swap(Swap(a, x, y), u, x) = Swap(a, u, y)
    BY <1>4, <2>1 DEF Swap
  <2>3. ASSUME p \notin a, p # y
        PROVE  /\ x \in Swap(a, u, p) /\ y \notin Swap(a, u, p)
               /\ Swap(Swap(a, x, y), u, p) = Swap(Swap(a, u, p), x, y)
    BY <1>4, <2>1, <2>3 DEF Swap
  <2> QED
    BY <2>1, <2>2, <2>3
<1> QED
  BY <1>1, <1>2, <1>3, <1>4

(* Having a page in the place of another saves one fault at most.          *)
LEMMA OneMore ==
  ASSUME NEW lines \in Logs, NEW t \in 0 .. Len(lines),
         NEW a \in Full, NEW x \in a, NEW y \in Pages, y \notin a
  PROVE  FewestFrom(lines)[t][a] <= 1 + FewestFrom(lines)[t][Swap(a, x, y)]
<1>1. PICK F : F = FewestFrom(lines)
  OBVIOUS
<1>2. PICK L \in Nat : L = Len(lines)
  BY FewestType
<1>3. ASSUME NEW s \in 0 .. L, NEW r \in Full
      PROVE  F[s][r] \in Nat
  <2>1. r \in SUBSET Pages /\ F[s] \in [SUBSET Pages -> Nat]
    BY <1>1, <1>2, FewestType DEF Full
  <2> QED
    BY <2>1
<1> DEFINE OK(s) == \A b \in Full : \A v \in b : \A w \in Pages :
                      w \notin b => F[s][b] <= 1 + F[s][Swap(b, v, w)]
           Bad == {n \in 0 .. L : ~OK(L - n)}
<1>4. OK(L)
  <2> SUFFICES ASSUME NEW b \in Full, NEW v \in b, NEW w \in Pages, w \notin b
               PROVE  F[L][b] <= 1 + F[L][Swap(b, v, w)]
    OBVIOUS
  <2>1. b \in SUBSET Pages /\ Swap(b, v, w) \in SUBSET Pages
    BY SwapFull DEF Full
  <2>2. F[L] = NoFaults
    BY <1>1, <1>2, FewestStep
  <2> QED
    BY <2>1, <2>2 DEF NoFaults
<1>5. ASSUME NEW s \in 0 .. L - 1, OK(s + 1)
      PROVE  OK(s)
  <2> SUFFICES ASSUME NEW b \in Full, NEW v \in b, NEW w \in Pages, w \notin b
               PROVE  F[s][b] <= 1 + F[s][Swap(b, v, w)]
    OBVIOUS
  <2>1. PICK p \in Pages : p = lines[s + 1].page
    BY <1>2, FewestType
  <2>2. PICK G : G = F[s + 1]
    OBVIOUS
  <2>3. PICK c \in Full : c = Swap(b, v, w)
    BY SwapFull
  <2>4. ASSUME NEW r \in Full
        PROVE  /\ F[s][r] \in Nat /\ G[r] \in Nat
               /\ p \in r => F[s][r] = G[r]
               /\ p \notin r =>
                    /\ \E u \in r : F[s][r] = 1 + G[Swap(r, u, p)]
                    /\ \A u \in r : /\ Swap(r, u, p) \in Full
                                    /\ F[s][r] <= 1 + G[Swap(r, u, p)]
    BY <1>1, <1>2, <2>1, <2>2, FullLine
  <2>5. \A d \in Full : \A u \in d : \A z \in Pages :
          z \notin d => G[d] <= 1 + G[Swap(d, u, z)]
    BY <1>5, <2>2
  <2>6. G[b] <= 1 + G[c] /\ G[b] \in Nat /\ G[c] \in Nat
    BY <2>3, <2>4, <2>5
  <2>7. CASE p = w
    <3>1. F[s][b] <= 1 + G[c] /\ F[s][c] = G[c]
      BY <2>3, <2>4, <2>7, Swaps
    <3> QED
      BY <2>3, <3>1
  <2>8. CASE p = v
    <3>1. F[s][b] = G[b] /\ p \notin c
      BY <2>3, <2>4, <2>8, Swaps
    <3>2. PICK u \in c : F[s][c] = 1 + G[Swap(c, u, p)]
      BY <2>4, <3>1
    <3>3. CASE u = w
      <4>1. Swap(c, u, p) = b
        BY <2>3, <2>8, <3>3, Swaps
      <4> QED
        BY <2>3, <2>6, <3>1, <3>2, <4>1
    <3>4. CASE u # w
      <4>1. u \in b /\ Swap(c, u, p) = Swap(b, u, w)
        BY <2>3, <2>8, <3>4, Swaps
      <4>2. PICK d \in Full : d = Swap(b, u, w)
        BY <4>1, SwapFull
      <4>3. G[b] <= 1 + G[d] /\ G[d] \in Nat
        BY <2>4, <2>5, <4>1, <4>2
      <4> QED
        BY <2>3, <2>6, <3>1, <3>2, <4>1, <4>2, <4>3
    <3> QED
      BY <3>3, <3>4
  <2>9. CASE p # v /\ p # w /\ p \in b
    <3>1. p \in c
      BY <2>3, <2>9, Swaps
    <3>2. F[s][b] = G[b] /\ F[s][c] = G[c]
      BY <2>4, <2>9, <3>1
    <3> QED
      BY <2>3, <2>6, <3>2
  <2>10. CASE p # v /\ p # w /\ p \notin b
    <3>1. p \notin c
      BY <2>3, <2>10, Swaps
    <3>2. PICK u \in c : F[s][c] = 1 + G[Swap(c, u, p)]
      BY <2>4, <3>1
    <3>3. CASE u = w
      <4>1. Swap(c, u, p) = Swap(b, v, p)
        BY <2>3, <3>3, Swaps
      <4>2. PICK d \in Full : d = Swap(b, v, p)
        BY <2>10, SwapFull
      <4>3. F[s][b] <= 1 + G[d] /\ G[d] \in Nat /\ F[s][b] \in Nat
        BY <2>4, <2>10, <4>2
      <4> QED
        BY <2>3, <3>2, <4>1, <4>2, <4>3
    <3>4. CASE u # w
      <4>1. /\ u \in b /\ v \in Swap(b, u, p) /\ w \notin Swap(b, u, p)
            /\ Swap(c, u, p) = Swap(Swap(b, u, p), v, w)
        BY <2>3, <2>10, <3>4, Swaps
      <4>2. PICK d \in Full : d = Swap(b, u, p)
        BY <2>10, <4>1, SwapFull
      <4>3. PICK e \in Full : e = Swap(d, v, w)
        BY <4>1, <4>2, SwapFull
      <4>4. G[d] <= 1 + G[e] /\ G[d] \in Nat /\ G[e] \in Nat
        BY <2>4, <2>5, <4>1, <4>2, <4>3
      <4>5. F[s][b] <= 1 + G[d] /\ F[s][b] \in Nat
        BY <2>4, <2>10, <4>1, <4>2
      <4>6. F[s][c] = 1 + G[e]
        BY <3>2, <4>1, <4>2, <4>3
      <4> QED
        BY <2>3, <4>4, <4>5, <4>6
    <3> QED
      BY <3>3, <3>4
  <2> QED
    BY <2>7, <2>8, <2>9, <2>10
<1>6. Bad = {}
  <2> HIDE DEF OK
  <2> SUFFICES ASSUME Bad # {} PROVE FALSE
    OBVIOUS
  <2>1. PICK n \in Bad : \A m \in Bad : n <= m
    <3>1. Bad \subseteq Nat
      OBVIOUS
    <3> HIDE DEF Bad
    <3> QED
      BY <3>1, Least
  <2>2. n \in 0 .. L /\ ~OK(L - n)
    BY <2>1
  <2>3. n # 0
    <3>1. L - 0 = L
      OBVIOUS
    <3> QED
      BY <1>4, <2>2, <3>1
  <2>4. n - 1 \in 0 .. L /\ n - 1 \notin Bad
    <3> HIDE DEF Bad
    <3> QED
      BY <2>1, <2>2, <2>3
  <2>5. OK(L - (n - 1))
    BY <2>4
  <2>6. PICK s \in 0 .. L - 1 : s = L - n /\ s + 1 = L - (n - 1)
    BY <2>2, <2>3
  <2> QED
    BY <1>5, <2>2, <2>5, <2>6
<1>7. OK(t)
  <2> HIDE DEF OK
  <2>1. L - t \in 0 .. L /\ L - (L - t) = t
    BY <1>2
  <2>2. L - t \notin Bad
    BY <1>6
  <2> QED
    BY <2>1, <2>2
<1> QED
  BY <1>1, <1>7

-----------------------------------------------------------------------------
(* Having a page in the place of one whose turn never comes before its own *)
(* costs nothing.                                                          *)
Sooner(lines, t, x, y) ==
  \A s \in t .. Len(lines) - 1 : lines[s + 1].page = y =>
    \E u \in t .. s : lines[u + 1].page = x

LEMMA SoonerIsBetter ==
  ASSUME NEW lines \in Logs, NEW t \in 0 .. Len(lines),
         NEW a \in Full, NEW x \in a, NEW y \in Pages, y \notin a,
         Sooner(lines, t, x, y)
  PROVE  FewestFrom(lines)[t][a] <= FewestFrom(lines)[t][Swap(a, x, y)]
<1>1. PICK F : F = FewestFrom(lines)
  OBVIOUS
<1>2. PICK L \in Nat : L = Len(lines)
  BY FewestType
<1> DEFINE OK(s) == \A b \in Full : \A w \in Pages :
                      x \in b /\ w \notin b /\ Sooner(lines, s, x, w)
                        => F[s][b] <= F[s][Swap(b, x, w)]
           Bad == {n \in 0 .. L : ~OK(L - n)}
<1>4. OK(L)
  <2> SUFFICES ASSUME NEW b \in Full, NEW w \in Pages, x \in b, w \notin b
               PROVE  F[L][b] <= F[L][Swap(b, x, w)]
    OBVIOUS
  <2>1. b \in SUBSET Pages /\ Swap(b, x, w) \in SUBSET Pages
    BY SwapFull DEF Full
  <2>2. F[L] = NoFaults
    BY <1>1, <1>2, FewestStep
  <2> QED
    BY <2>1, <2>2 DEF NoFaults
<1>5. ASSUME NEW s \in 0 .. L - 1, OK(s + 1)
      PROVE  OK(s)
  <2> SUFFICES ASSUME NEW b \in Full, NEW w \in Pages, x \in b, w \notin b,
                      Sooner(lines, s, x, w)
               PROVE  F[s][b] <= F[s][Swap(b, x, w)]
    OBVIOUS
  <2>1. PICK p \in Pages : p = lines[s + 1].page
    BY <1>2, FewestType
  <2>2. PICK G : G = F[s + 1]
    OBVIOUS
  <2>3. PICK c \in Full : c = Swap(b, x, w)
    BY SwapFull
  <2>4. ASSUME NEW r \in Full
        PROVE  /\ F[s][r] \in Nat /\ G[r] \in Nat
               /\ p \in r => F[s][r] = G[r]
               /\ p \notin r =>
                    /\ \E u \in r : F[s][r] = 1 + G[Swap(r, u, p)]
                    /\ \A u \in r : /\ Swap(r, u, p) \in Full
                                    /\ F[s][r] <= 1 + G[Swap(r, u, p)]
    BY <1>1, <1>2, <2>1, <2>2, FullLine
  <2>5. \A d \in Full : \A u \in d : \A z \in Pages :
          z \notin d => G[d] <= 1 + G[Swap(d, u, z)]
    <3>1. s + 1 \in 0 .. Len(lines)
      BY <1>2
    <3> QED
      BY <1>1, <2>2, <3>1, OneMore
  <2>6. p # w
    <3>1. s \in s .. Len(lines) - 1 /\ \A u \in s .. s : u = s
      BY <1>2
    <3>2. p = w => \E u \in s .. s : lines[u + 1].page = x
      BY <2>1, <3>1 DEF Sooner
    <3>3. p = w => p = x
      BY <2>1, <3>1, <3>2
    <3> QED
      BY <3>3
  <2>7. ASSUME p # x, NEW d \in Full, x \in d, w \notin d
        PROVE  G[d] <= G[Swap(d, x, w)]
    <3>1. Sooner(lines, s + 1, x, w)
      <4> SUFFICES ASSUME NEW k \in s + 1 .. Len(lines) - 1,
                          lines[k + 1].page = w
                   PROVE  \E u \in s + 1 .. k : lines[u + 1].page = x
        BY DEF Sooner
      <4>1. k \in s .. Len(lines) - 1
        BY <1>2
      <4>2. PICK u \in s .. k : lines[u + 1].page = x
        BY <4>1 DEF Sooner
      <4>3. u # s
        BY <2>1, <2>7, <4>2
      <4>4. u \in s + 1 .. k
        BY <1>2, <4>2, <4>3
      <4> QED
        BY <4>2, <4>4
    <3> HIDE DEF Sooner
    <3> QED
      BY <1>5, <2>2, <2>7, <3>1
  <2>8. CASE p = x
    <3>1. F[s][b] = G[b] /\ p \notin c /\ G[b] \in Nat
      BY <2>3, <2>4, <2>8, Swaps
    <3>2. PICK u \in c : F[s][c] = 1 + G[Swap(c, u, p)]
      BY <2>4, <3>1
    <3>3. CASE u = w
      <4>1. Swap(c, u, p) = b
        BY <2>3, <2>8, <3>3, Swaps
      <4> QED
        BY <2>3, <3>1, <3>2, <4>1
    <3>4. CASE u # w
      <4>1. u \in b /\ Swap(c, u, p) = Swap(b, u, w)
        BY <2>3, <2>8, <3>4, Swaps
      <4>2. PICK d \in Full : d = Swap(b, u, w)
        BY <4>1, SwapFull
      <4>3. G[b] <= 1 + G[d] /\ G[d] \in Nat
        BY <2>4, <2>5, <4>1, <4>2
      <4> QED
        BY <2>3, <3>1, <3>2, <4>1, <4>2, <4>3
    <3> QED
      BY <3>3, <3>4
  <2>9. CASE p # x /\ p \in b
    <3>1. p \in c
      BY <2>3, <2>6, <2>9, Swaps
    <3>2. F[s][b] = G[b] /\ F[s][c] = G[c]
      BY <2>4, <2>9, <3>1
    <3>3. G[b] <= G[c]
      BY <2>3, <2>7, <2>9
    <3> QED
      BY <2>3, <3>2, <3>3
  <2>10. CASE p # x /\ p \notin b
    <3>1. p \notin c
      BY <2>3, <2>6, <2>10, Swaps
    <3>2. PICK u \in c : F[s][c] = 1 + G[Swap(c, u, p)]
      BY <2>4, <3>1
    <3>3. CASE u = w
      <4>1. Swap(c, u, p) = Swap(b, x, p)
        BY <2>3, <3>3, Swaps
      <4>2. F[s][b] <= 1 + G[Swap(b, x, p)]
        BY <2>4, <2>10
      <4> QED
        BY <2>3, <3>2, <4>1, <4>2
    <3>4. CASE u # w
      <4>1. /\ u \in b /\ x \in Swap(b, u, p) /\ w \notin Swap(b, u, p)
            /\ Swap(c, u, p) = Swap(Swap(b, u, p), x, w)
        BY <2>3, <2>6, <2>10, <3>4, Swaps
      <4>2. PICK d \in Full : d = Swap(b, u, p)
        BY <2>10, <4>1, SwapFull
      <4>3. PICK e \in Full : e = Swap(d, x, w)
        BY <4>1, <4>2, SwapFull
      <4>4. G[d] <= G[e] /\ G[d] \in Nat /\ G[e] \in Nat
        BY <2>4, <2>7, <2>10, <4>1, <4>2, <4>3
      <4>5. F[s][b] <= 1 + G[d] /\ F[s][b] \in Nat
        BY <2>4, <2>10, <4>1, <4>2
      <4>6. F[s][c] = 1 + G[e]
        BY <3>2, <4>1, <4>2, <4>3
      <4> QED
        BY <2>3, <4>4, <4>5, <4>6
    <3> QED
      BY <3>3, <3>4
  <2> QED
    BY <2>8, <2>9, <2>10
<1>6. Bad = {}
  <2> HIDE DEF OK
  <2> SUFFICES ASSUME Bad # {} PROVE FALSE
    OBVIOUS
  <2>1. PICK n \in Bad : \A m \in Bad : n <= m
    <3>1. Bad \subseteq Nat
      OBVIOUS
    <3> HIDE DEF Bad
    <3> QED
      BY <3>1, Least
  <2>2. n \in 0 .. L /\ ~OK(L - n)
    BY <2>1
  <2>3. n # 0
    <3>1. L - 0 = L
      OBVIOUS
    <3> QED
      BY <1>4, <2>2, <3>1
  <2>4. n - 1 \in 0 .. L /\ n - 1 \notin Bad
    <3> HIDE DEF Bad
    <3> QED
      BY <2>1, <2>2, <2>3
  <2>5. OK(L - (n - 1))
    BY <2>4
  <2>6. PICK s \in 0 .. L - 1 : s = L - n /\ s + 1 = L - (n - 1)
    BY <2>2, <2>3
  <2> QED
    BY <1>5, <2>2, <2>5, <2>6
<1>7. OK(t)
  <2> HIDE DEF OK
  <2>1. L - t \in 0 .. L /\ L - (L - t) = t
    BY <1>2
  <2>2. L - t \notin Bad
    BY <1>6
  <2> QED
    BY <2>1, <2>2
<1> QED
  BY <1>1, <1>7

-----------------------------------------------------------------------------
(* OPT                                                                     *)

(* Whatever page OPT keeps, the victim's turn never comes before its own.  *)
LEMMA VictimIsLast ==
  ASSUME TypeOK, PrereadInv, Reading, algorithm = "OPT", pflag # {},
         NEW v \in alg_fault, NEW u \in pflag
  PROVE  Sooner(log, tcounter + 1, u, v)
<1>1. /\ n_lines = Len(log) /\ Len(log) \in Nat /\ tcounter \in Nat
      /\ accesses = [t \in 0 .. n_lines - 1 |-> PageAt(t)]
  BY LineType DEF PrereadInv, Reading
<1>2. NextUse(u) <= NextUse(v)
  BY VictimsPresent
<1>3. v \in Pages /\ u \in Pages
  BY VictimsPresent DEF TypeOK
<1>4. NextUse(u) \in Nat /\ NextUse(v) \in Nat
  BY <1>3, NextUseType
<1>5. ASSUME NEW s \in tcounter + 1 .. Len(log) - 1, log[s + 1].page = v
      PROVE  \E k \in tcounter + 1 .. s : log[k + 1].page = u
  <2> DEFINE uses(p) == {t \in tcounter + 1 .. n_lines - 1 : accesses[t] = p}
  <2>1. \A t \in tcounter + 1 .. n_lines - 1 :
          t \in Nat /\ t < n_lines /\ accesses[t] = log[t + 1].page
    BY <1>1 DEF PageAt
  <2>2. \A p : uses(p) \subseteq Nat
    BY <1>1
  <2>3. s \in uses(v)
    BY <1>1, <1>5, <2>1
  <2>4. \A p : NextUse(p) = IF uses(p) = {} THEN n_lines ELSE Min(uses(p))
    BY DEF NextUse
  <2>5. \A t \in uses(u) : t \in tcounter + 1 .. n_lines - 1 /\ log[t + 1].page = u
    BY <2>1
  <2> HIDE DEF uses
  <2>6. NextUse(v) <= s
    <3>1. NextUse(v) = Min(uses(v))
      BY <2>3, <2>4
    <3> QED
      BY <2>2, <2>3, <3>1, MinIsLeast
  <2>7. NextUse(u) <= s /\ NextUse(u) # n_lines
    BY <1>1, <1>2, <1>4, <1>5, <2>6
  <2>8. NextUse(u) \in uses(u)
    <3>1. uses(u) # {} /\ NextUse(u) = Min(uses(u))
      BY <2>4, <2>7
    <3> QED
      BY <2>2, <3>1, MinIsLeast
  <2>9. NextUse(u) \in tcounter + 1 .. s /\ log[NextUse(u) + 1].page = u
    BY <1>1, <1>5, <2>5, <2>7, <2>8
  <2> QED
    BY <2>9
<1> QED
  BY <1>5 DEF Sooner

(* What a line costs memory with the page there, or with room for it.      *)
LEMMA CheapLine ==
  ASSUME TypeOK, Reading
  PROVE  /\ FaultsToCome \in Nat
         /\ line.page \in pflag =>
              FaultsToCome = FewestFrom(log)[tcounter + 1][pflag]
         /\ line.page \notin pflag /\ MemoryFree =>
              /\ FaultsToCome =
                   1 + FewestFrom(log)[tcounter + 1][pflag \cup {line.page}]
              /\ FewestFrom(log)[tcounter + 1][pflag \cup {line.page}] \in Nat
<1>1. PICK F : F = FewestFrom(log)
  OBVIOUS
<1>2. /\ log \in Logs /\ pflag \in SUBSET Pages /\ line.page \in Pages
      /\ tcounter \in 0 .. Len(log) - 1 /\ Len(log) \in Nat
  BY LineType, FewestType DEF TypeOK
<1>3. tcounter \in 0 .. Len(log) /\ tcounter + 1 \in 0 .. Len(log)
  BY <1>2
<1>4. /\ F[tcounter] \in [SUBSET Pages -> Nat]
      /\ F[tcounter + 1] \in [SUBSET Pages -> Nat]
      /\ F[tcounter] = FewestAt(line.page, F[tcounter + 1])
  BY <1>1, <1>2, <1>3, FewestType, FewestStep DEF line
<1>5. PICK rest \in [SUBSET Pages -> Nat] : rest = F[tcounter + 1]
  BY <1>4
<1>6. PICK p \in Pages : p = line.page
  BY <1>2
<1>7. \A r \in SUBSET Pages :
        /\ p \in r => FewestAt(p, rest)[r] = rest[r]
        /\ p \notin r /\ Cardinality(r) < max_page_cnt =>
             FewestAt(p, rest)[r] = 1 + rest[r \cup {p}]
        /\ p \notin r /\ ~(Cardinality(r) < max_page_cnt) =>
             /\ \E v \in r : FewestAt(p, rest)[r] = 1 + rest[Swap(r, v, p)]
             /\ \A v \in r : FewestAt(p, rest)[r] <= 1 + rest[Swap(r, v, p)]
  BY FewestAtIs
<1>8. FaultsToCome = FewestAt(p, rest)[pflag] /\ FaultsToCome \in Nat
  BY <1>1, <1>2, <1>4, <1>5, <1>6 DEF FaultsToCome
<1>9. pflag \cup {p} \in SUBSET Pages /\ rest[pflag \cup {p}] \in Nat
  BY <1>2
<1> QED
  BY <1>1, <1>2, <1>5, <1>6, <1>7, <1>8, <1>9 DEF MemoryFree

(* An access with a victim costs what it must under OPT, or more.          *)
LEMMA VictimCosts ==
  ASSUME TypeOK, MemoryInv, PrereadInv, Reading, ~MemoryFree,
         line.page \notin pflag, NEW v \in alg_fault
  PROVE  LET after == FewestFrom(log)[tcounter + 1][Swap(pflag, v, line.page)]
         IN  /\ after \in Nat
             /\ FaultsToCome <= 1 + after
             /\ algorithm = "OPT" => FaultsToCome = 1 + after
<1>1. /\ log \in Logs /\ line.page \in Pages /\ line.page = log[tcounter + 1].page
      /\ tcounter \in 0 .. Len(log) - 1 /\ Len(log) \in Nat
  BY LineType, FewestType DEF TypeOK, line
<1>2. pflag \in Full /\ pflag # {}
  <2>1. Cardinality(pflag) \in Nat /\ ~(Cardinality(pflag) < max_page_cnt)
    BY FullMemory DEF MemoryFree
  <2>2. Cardinality(Met) \in Nat
    BY MetType
  <2>3. Cardinality(pflag) = max_page_cnt
    BY <2>1, <2>2, SizeAssumption DEF MemoryInv, MemoryFull
  <2> QED
    BY <2>3, FullMemory DEF Full, TypeOK
<1>3. PICK p \in Pages : p = line.page /\ p \notin pflag
  BY <1>1
<1>4. PICK G : G = FewestFrom(log)[tcounter + 1]
  OBVIOUS
<1>5. v \in pflag /\ v # p /\ v \in Pages
  BY <1>2, <1>3, VictimsPresent DEF TypeOK
<1>6. /\ FaultsToCome \in Nat
      /\ \E u \in pflag : FaultsToCome = 1 + G[Swap(pflag, u, p)]
      /\ \A u \in pflag : /\ Swap(pflag, u, p) \in Full
                          /\ FaultsToCome <= 1 + G[Swap(pflag, u, p)]
  BY <1>1, <1>2, <1>3, <1>4, FullLine DEF FaultsToCome
<1>7. \A r \in Full : G[r] \in Nat
  <2>1. tcounter + 1 \in 0 .. Len(log)
    BY <1>1
  <2>2. G \in [SUBSET Pages -> Nat]
    BY <1>1, <1>4, <2>1, FewestType
  <2> QED
    BY <2>2 DEF Full
<1>8. PICK a \in Full : a = Swap(pflag, v, p)
  BY <1>5, <1>6
<1>9. ASSUME algorithm = "OPT"
      PROVE  FaultsToCome = 1 + G[a]
  <2>1. PICK u \in pflag : FaultsToCome = 1 + G[Swap(pflag, u, p)]
    BY <1>6
  <2>2. CASE u = v
    BY <1>8, <2>1, <2>2
  <2>3. CASE u # v
    <3>1. u \in a /\ v \notin a /\ Swap(a, u, v) = Swap(pflag, u, p)
      BY <1>3, <1>5, <1>8, <2>3 DEF Swap
    <3>2. PICK b \in Full : b = Swap(pflag, u, p)
      BY <1>6
    <3>3. Sooner(log, tcounter + 1, u, v)
      BY <1>2, <1>9, VictimIsLast
    <3>4. tcounter + 1 \in 0 .. Len(log)
      BY <1>1
    <3>5. G[a] <= G[b]
      BY <1>1, <1>4, <1>5, <3>1, <3>2, <3>3, <3>4, SoonerIsBetter
    <3>6. FaultsToCome = 1 + G[b] /\ FaultsToCome <= 1 + G[a]
      BY <1>5, <1>6, <1>8, <2>1, <3>2
    <3> QED
      BY <1>7, <3>5, <3>6
  <2> QED
    BY <2>2, <2>3
<1> QED
  BY <1>3, <1>4, <1>5, <1>6, <1>7, <1>8, <1>9

(* What an access adds to faults_cnt it takes off FaultsToCome under OPT,  *)
(* and no less under the others.                                           *)
LEMMA FaultsStep ==
  ASSUME TypeOK, MemoryInv, OptInv, Access
  PROVE  OptInv'
<1>1. /\ pc = "run" /\ Reading
      /\ tcounter \in Nat /\ tcounter' = tcounter + 1
      /\ UNCHANGED <<inputs, handles, preread, pc, misused>>
      /\ faults_cnt \in Nat
  BY AccessStep DEF Reading, TypeOK
<1>2. PICK out : Evicting(out)
  BY AccessStep
<1>3. UNCHANGED <<algorithm, log, pc, n_lines, accesses>>
  BY <1>1 DEF inputs, preread
<1>4. PrereadInv'
  BY <1>3 DEF OptInv, PrereadInv, PageAt, BeforeRun, Preloading
<1>5. FewestFaults' = FewestFaults
  BY <1>3 DEF FewestFaults
<1>6. PICK G : G = FewestFrom(log)[tcounter + 1]
  OBVIOUS
<1>7. FaultsToCome' = G[pflag']
  BY <1>1, <1>3, <1>6 DEF FaultsToCome
<1>8. PICK n : n = FaultsToCome
  OBVIOUS
<1>9. PICK m : m = G[pflag']
  OBVIOUS
<1>10. /\ n \in Nat
       /\ m \in Nat
       /\ IF algorithm = "OPT" THEN faults_cnt' + m = faults_cnt + n
          ELSE faults_cnt' + m >= faults_cnt + n
  <2>1. n \in Nat
    BY <1>1, <1>8, CheapLine
  <2>2. CASE line.page \in pflag /\ out = {} /\ UNCHANGED <<faults_cnt, dirty_cnt>>
    <3>1. pflag' = pflag
      BY <1>2, <2>2 DEF Evicting
    <3>2. n = m
      BY <1>1, <1>6, <1>8, <1>9, <2>2, <3>1, CheapLine
    <3> QED
      BY <1>1, <2>1, <2>2, <3>2
  <2>3. CASE line.page \notin pflag /\ out = {} /\ MemoryFree
               /\ faults_cnt' = faults_cnt + 1
    <3>1. pflag' = pflag \cup {line.page}
      BY <1>2, <2>3 DEF Evicting
    <3>2. n = 1 + m /\ m \in Nat
      BY <1>1, <1>6, <1>8, <1>9, <2>3, <3>1, CheapLine
    <3> QED
      BY <1>1, <2>1, <2>3, <3>2
  <2>4. CASE line.page \notin pflag /\ ~MemoryFree
               /\ faults_cnt' = faults_cnt + 1
               /\ \E v \in alg_fault \cap pflag : out = {v}
    <3>1. PICK v \in alg_fault : out = {v}
      BY <2>4
    <3>2. pflag' = Swap(pflag, v, line.page)
      BY <1>2, <3>1 DEF Evicting, Swap
    <3>3. m \in Nat /\ n <= 1 + m /\ (algorithm = "OPT" => n = 1 + m)
      BY <1>1, <1>6, <1>8, <1>9, <2>4, <3>2, VictimCosts DEF OptInv
    <3> QED
      BY <1>1, <2>1, <2>4, <3>3
  <2> QED
    BY <1>2, <2>2, <2>3, <2>4 DEF Evicting
<1>11. PICK k : k = FewestFaults
  OBVIOUS
<1>12. IF algorithm = "OPT" THEN faults_cnt + n = k ELSE faults_cnt + n >= k
  BY <1>1, <1>8, <1>11 DEF OptInv, FaultsInv
<1>13. k \in Nat
  <2>1. log \in Logs /\ 0 \in 0 .. Len(log) /\ {} \in SUBSET Pages
    BY FewestType DEF TypeOK
  <2>2. FewestFrom(log)[0] \in [SUBSET Pages -> Nat]
    BY <2>1, FewestType
  <2> QED
    BY <1>11, <2>1, <2>2 DEF FewestFaults
<1>14. faults_cnt' \in Nat
  BY <1>1, <1>2 DEF Evicting
<1>15. IF algorithm = "OPT" THEN faults_cnt' + m = k ELSE faults_cnt' + m >= k
  <2>1. PICK d \in Nat, e \in Nat : d = faults_cnt /\ e = faults_cnt'
    BY <1>1, <1>14
  <2>2. CASE algorithm = "OPT"
    <3>1. e + m = d + n /\ d + n = k
      BY <1>10, <1>12, <2>1, <2>2
    <3> QED
      BY <2>1, <2>2, <3>1
  <2>3. CASE algorithm # "OPT"
    <3>1. e + m >= d + n /\ d + n >= k
      BY <1>10, <1>12, <2>1, <2>3
    <3>2. e + m >= k
      BY <1>10, <1>13, <3>1
    <3> QED
      BY <2>1, <2>3, <3>2
  <2> QED
    BY <2>2, <2>3
<1>16. FaultsInv'
  BY <1>1, <1>3, <1>5, <1>7, <1>9, <1>11, <1>15
     DEF FaultsInv, BeforeRun, Preloading
<1> QED
  BY <1>4, <1>16 DEF OptInv

LEMMA InitOpt == Init => OptInv
<1> SUFFICES ASSUME Init PROVE OptInv
  OBVIOUS
<1>1. PrereadInv
  BY DEF Init, PrereadInv
<1>2. log \in Logs /\ tcounter = 0 /\ pflag = {} /\ faults_cnt = 0 /\ pc = "start"
  BY DEF Init
<1>3. PICK k \in Nat : k = FewestFrom(log)[0][{}]
  <2>1. 0 \in 0 .. Len(log) /\ {} \in SUBSET Pages
    BY <1>2, FewestType
  <2>2. FewestFrom(log)[0] \in [SUBSET Pages -> Nat]
    BY <1>2, <2>1, FewestType
  <2> QED
    BY <2>1, <2>2
<1>4. FewestFaults = k /\ FaultsToCome = k
  BY <1>2, <1>3 DEF FewestFaults, FaultsToCome
<1>5. FaultsInv
  BY <1>2, <1>3, <1>4 DEF FaultsInv
<1> QED
  BY <1>1, <1>5 DEF OptInv

(* The passes over the log of opt_init.                                    *)
LEMMA PrereadStep ==
  ASSUME TypeOK, PrereadInv, [Next]_vars
  PROVE  PrereadInv'
<1>1. UNCHANGED <<algorithm, log>>
  BY StepKinds DEF inputs
<1>2. CASE UNCHANGED <<pc, preread>>
  BY <1>1, <1>2 DEF preread, PrereadInv, PageAt
<1>3. CASE page_table_init
  BY <1>1, <1>3 DEF page_table_init, PrereadInv
<1>4. CASE OpenLog
  <2>1. UNCHANGED <<n_lines, accesses>>
    BY <1>4 DEF OpenLog, preread
  <2>2. /\ pc' \in {"preload", "preloading", "open", "run"} =>
             pc \in {"preload", "open"}
        /\ pc' \in {"open", "run"} => pc = "open"
    BY <1>4 DEF OpenLog
  <2> QED
    BY <1>1, <2>1, <2>2 DEF PrereadInv, PageAt
<1>5. CASE get_accesses_count
  <2>1. ending # "eof" => pc' = "failed"
    BY <1>5 DEF get_accesses_count, safe_fatal_error
  <2>2. ending = "eof" => pc' = "preload" /\ n_lines' = Len(log)
    BY <1>5 DEF get_accesses_count
  <2> QED
    BY <1>1, <2>1, <2>2 DEF PrereadInv
<1>6. CASE opt_preload
  <2>1. /\ n_lines' = n_lines /\ pc = "preloading"
        /\ accesses' = [t \in 0 .. n_lines - 1 |-> log[t + 1].page]
    BY <1>6 DEF opt_preload
  <2> QED
    BY <1>1, <2>1 DEF PrereadInv, PageAt
<1>7. CASE pc' \notin {"preload", "preloading", "open", "run"}
  BY <1>7 DEF PrereadInv
<1>8. CASE BadLine \/ OpenFails
  BY <1>7, <1>8 DEF BadLine, OpenFails, safe_fatal_error
<1>9. CASE CloseLog \/ page_table_destroy \/ Finish
  BY <1>7, <1>9 DEF CloseLog, page_table_destroy, Finish
<1>10. CASE Access
  BY <1>2, <1>10, AccessStep
<1>11. CASE UNCHANGED vars
  BY <1>2, <1>11 DEF vars
<1> QED
  BY <1>3, <1>4, <1>5, <1>6, <1>8, <1>9, <1>10, <1>11 DEF Next, Step, Access

(* Where main goes without reading a line.                                 *)
LEMMA OtherMoves ==
  ASSUME TypeOK, [Next]_vars
  PROVE  \/ Access
         \/ CloseLog
         \/ /\ pc' \in BeforeRun => pc \in BeforeRun
            /\ pc' = "run" => pc \in BeforeRun \cup {"run"}
            /\ pc' \in {"destroy", "statistics", "done"} =>
                 pc \in {"destroy", "statistics", "done"}
<1>1. CASE page_table_init \/ OpenLog \/ opt_preload
  BY <1>1 DEF page_table_init, OpenLog, opt_preload, BeforeRun, Preloading
<1>2. CASE get_accesses_count
  BY <1>2 DEF get_accesses_count, safe_fatal_error, BeforeRun, Preloading
<1>3. CASE BadLine \/ OpenFails
  BY <1>3 DEF BadLine, OpenFails, safe_fatal_error, BeforeRun, Preloading
<1>4. CASE page_table_destroy \/ Finish
  BY <1>4 DEF page_table_destroy, Finish, BeforeRun, Preloading
<1>5. CASE UNCHANGED vars
  BY <1>5 DEF vars
<1> QED
  BY <1>1, <1>2, <1>3, <1>4, <1>5 DEF Next, Step, Access

LEMMA StepOpt == TypeOK /\ MemoryInv /\ OptInv /\ [Next]_vars => OptInv'
<1> SUFFICES ASSUME TypeOK, MemoryInv, OptInv, [Next]_vars PROVE OptInv'
  OBVIOUS
<1>1. CASE Access
  BY <1>1, FaultsStep
<1>2. CASE ~Access
  <2>1. UNCHANGED <<inputs, entries, counts>>
    BY <1>2, StepKinds
  <2>2. UNCHANGED <<algorithm, log, pflag, tcounter, faults_cnt>>
    BY <2>1 DEF inputs, entries, counts
  <2>3. FaultsToCome' = FaultsToCome /\ FewestFaults' = FewestFaults
    BY <2>2 DEF FaultsToCome, FewestFaults
  <2>4. FaultsInv'
    <3>1. CASE CloseLog
      <4>1. pc = "run" /\ tcounter = Len(log) /\ pc' = "destroy"
        BY <3>1 DEF CloseLog
      <4>2. FaultsToCome = 0
        <5>1. Len(log) \in Nat /\ pflag \in SUBSET Pages
          BY FewestType DEF TypeOK
        <5>2. FewestFrom(log)[tcounter] = NoFaults
          BY <4>1, <5>1, FewestStep
        <5> QED
          BY <5>1, <5>2 DEF FaultsToCome, NoFaults
      <4>3. faults_cnt \in Nat
        BY FewestType DEF TypeOK
      <4>4. IF algorithm = "OPT" THEN faults_cnt = FewestFaults
            ELSE faults_cnt >= FewestFaults
        BY <4>1, <4>2, <4>3 DEF OptInv, FaultsInv
      <4> QED
        BY <2>2, <2>3, <4>1, <4>4 DEF FaultsInv, BeforeRun, Preloading
    <3>2. CASE ~CloseLog
      <4>1. /\ pc' \in BeforeRun => pc \in BeforeRun
            /\ pc' = "run" => pc \in BeforeRun \cup {"run"}
            /\ pc' \in {"destroy", "statistics", "done"} =>
                 pc \in {"destroy", "statistics", "done"}
        BY <1>2, <3>2, OtherMoves
      <4> QED
        BY <2>2, <2>3, <4>1 DEF OptInv, FaultsInv, BeforeRun, Preloading
    <3> QED
      BY <3>1, <3>2
  <2> QED
    BY <2>4, PrereadStep DEF OptInv
<1> QED
  BY <1>1, <1>2

LEMMA OptInvAlways == Spec => []OptInv
<1>1. Init => TypeOK /\ MemoryInv /\ OptInv
  BY InitType, InitMemory, InitOpt
<1>2. (TypeOK /\ MemoryInv /\ OptInv) /\ [Next]_vars
        => (TypeOK /\ MemoryInv /\ OptInv)'
  BY StepType, StepMemory, StepOpt
<1> QED
  BY <1>1, <1>2, PTL DEF Spec

(* OPT faults as often as the log and the size of memory require, no more. *)
THEOREM OptIsOptimalHolds == Spec => []OptIsOptimal
<1>1. OptInv => OptIsOptimal
  BY DEF OptInv, FaultsInv, OptIsOptimal
<1> QED
  BY <1>1, OptInvAlways, PTL

(* No algorithm faults less often.                                         *)
THEOREM NoneBeatsOptimumHolds == Spec => []NoneBeatsOptimum
<1>1. Spec => [](TypeOK /\ OptInv)
  BY TypeCorrect, OptInvAlways, PTL
<1>2. TypeOK /\ OptInv => NoneBeatsOptimum
  <2> SUFFICES ASSUME TypeOK, OptInv, pc = "done"
               PROVE  faults_cnt >= FewestFaults
    BY DEF NoneBeatsOptimum
  <2>1. faults_cnt \in Nat
    BY FewestType DEF TypeOK
  <2>2. faults_cnt = FewestFaults \/ faults_cnt >= FewestFaults
    BY DEF OptInv, FaultsInv
  <2> QED
    BY <2>1, <2>2
<1> QED
  BY <1>1, <1>2, PTL
=============================================================================
