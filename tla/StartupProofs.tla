---------------------------- MODULE StartupProofs ----------------------------
(***************************************************************************)
(* Proofs about the start of the program, for every list of commands,      *)
(* number of queues and choice of faults.                                  *)
(***************************************************************************)
EXTENDS StartupProps, SchedulerProofs

(* What the start leaves alone has its initial value.                      *)
Fresh ==
  /\ aux_queue = <<>> /\ current_proc = NULL /\ current_queue = FIRST_QUEUE_ID
  /\ io_threads = 0 /\ quantum_timer = 0 /\ age = [p \in Procs |-> 0]
  /\ freed = {} /\ pc = "loop" /\ queue \in QueueIds /\ ray_end = 0
  /\ io = [p \in Procs |-> "none"] /\ pack = [p \in Procs |-> FIRST_QUEUE_ID]
  /\ sent = [p \in Procs |-> 0] /\ pending = FALSE /\ ub = FALSE

SemaphoreSet ==
  /\ boot \in {"read", "fork", "stop", "insert", "handler", "first"} => sem = 1
  /\ boot = "first_cr" => sem = 0

LinesRead ==
  /\ line \in 0 .. Len(Commands)
  /\ boot \in {"queues", "semget", "semctl"} => line = 0
  /\ boot \in {"fork", "stop", "insert"} => line \in Procs
  /\ boot \in {"handler", "first", "first_cr"} => line = Len(Commands)

(* Only forks that have been tried have failed.                            *)
Tried == IF boot = "fork" THEN line - 1 ELSE line

ForksFailed ==
  /\ boot \in BeforeScheduler => noPid \subseteq 1 .. Tried
  /\ boot = "stop" /\ line \in noPid => running = {}

(* The scheduler's invariant but for OneRunning, which a pid of -1 breaks. *)
SafeInv ==
  /\ TypeOK /\ TurnInv /\ OnePlace /\ SemaphoreInv /\ CountersAgree
  /\ NeverAborts /\ DoneInv

ScheduleInv ==
  boot = "scheduling" => SafeInv /\ (noPid = {} => OneRunning)

BootInv ==
  /\ boot \in BootPlaces
  /\ boot \in BeforeScheduler => Fresh
  /\ SemaphoreSet
  /\ LinesRead
  /\ ForksFailed
  /\ QueueFollowsLines
  /\ NoneUnsupervised
  /\ ScheduleInv

-----------------------------------------------------------------------------
(* The invariant holds at the start.                                       *)
LEMMA BootInvInit == BootInit => BootInv
<1> SUFFICES ASSUME BootInit PROVE BootInv
  OBVIOUS
<1>1. Len(Commands) \in Nat
  BY CommandsAssumption, LenProperties
<1>2. boot = "queues" /\ line = 0 /\ noPid = {} /\ running = {}
  BY DEF BootInit
<1>3. Fresh
  BY DEF BootInit, Fresh, FIRST_QUEUE_ID
<1>4. QueueFollowsLines
  <2>1. [p \in 1 .. 0 |-> p] = <<>>
    BY EmptySeq, SeqDef
  <2>2. Inserted = 0
    BY <1>2 DEF Inserted
  <2> QED
    BY <2>1, <2>2 DEF BootInit, QueueFollowsLines
<1> QED
  BY <1>1, <1>2, <1>3, <1>4
     DEF BootInv, BootPlaces, SemaphoreSet, LinesRead, ForksFailed, Tried,
         NoneUnsupervised, ScheduleInv, BeforeScheduler

(* The node of a new line goes to the end of the first queue.              *)
LEMMA InsertNext ==
  ASSUME NEW k \in Nat
  PROVE  qhead_ins([p \in 1 .. k |-> p], k + 1) = [p \in 1 .. k + 1 |-> p]
<1> DEFINE s == [p \in 1 .. k |-> p]
<1>1. s \in Seq(Nat) /\ Len(s) = k
  BY SeqDef, LenProperties
<1>2. k + 1 \notin Range(s)
  BY DEF Range
<1>3. Append(s, k + 1) = [p \in 1 .. k + 1 |-> p]
  <2>1. /\ Append(s, k + 1) \in Seq(Nat)
        /\ Len(Append(s, k + 1)) = k + 1
        /\ \A i \in 1 .. k : Append(s, k + 1)[i] = s[i]
        /\ Append(s, k + 1)[k + 1] = k + 1
    BY <1>1, AppendProperties
  <2>2. Append(s, k + 1) = [i \in 1 .. k + 1 |-> Append(s, k + 1)[i]]
    BY <2>1, LenProperties
  <2>3. \A i \in 1 .. k + 1 : Append(s, k + 1)[i] = i
    BY <2>1
  <2> QED
    BY <2>2, <2>3
<1> QED
  BY <1>2, <1>3 DEF qhead_ins, IsDuplicate

-----------------------------------------------------------------------------
(* The steps of main before the scheduler.                                 *)

(* One that changes no variable of the scheduler and stays before it.      *)
LEMMA QuietStep ==
  ASSUME BootInv, UNCHANGED <<vars, noPid>>, boot \in BeforeScheduler,
         boot' \in BootPlaces, boot' # "scheduling",
         Inserted' = Inserted, Tried' = Tried,
         LinesRead', SemaphoreSet',
         boot \notin {"stop"} /\ boot' \notin {"stop"}
  PROVE  BootInv'
<1> USE DEF vars, policyVars, queueVars, ioVars, timeVars, childVars, exitVars,
            localVars
<1>1. Fresh /\ Fresh'
  BY DEF BootInv, Fresh
<1>2. running = {} /\ running' = {}
  BY DEF BootInv, NoneUnsupervised
<1>3. ForksFailed'
  BY DEF BootInv, ForksFailed
<1>4. QueueFollowsLines'
  BY DEF BootInv, QueueFollowsLines
<1>5. NoneUnsupervised' /\ ScheduleInv'
  BY <1>2 DEF NoneUnsupervised, ScheduleInv
<1> QED
  BY <1>1, <1>3, <1>4, <1>5 DEF BootInv

LEMMA FailStep ==
  ASSUME BootInv, NEW from \in BeforeScheduler \ {"stop"}, NEW kind,
         Fail(from, kind) \/ Crash(from, kind)
  PROVE  BootInv'
<1>1. /\ boot = from /\ boot' \in {"failed", "killed"}
      /\ UNCHANGED <<vars, line, noPid>>
  BY DEF Fail, Crash, Proceed
<1>2. running' = {}
  BY <1>1 DEF BootInv, NoneUnsupervised, vars, childVars
<1>3. LinesRead'
  BY <1>1 DEF BootInv, LinesRead
<1> QED
  BY <1>1, <1>2, <1>3
     DEF BootInv, BootPlaces, BeforeScheduler, SemaphoreSet, ForksFailed,
         QueueFollowsLines, NoneUnsupervised, ScheduleInv

(* Before the loop, and after it.                                          *)
LEMMA PrepareStep ==
  ASSUME BootInv, create_queues \/ sem_create \/ ReadEnd \/ signal
  PROVE  BootInv'
<1> USE DEF Proceed
<1>1. CASE Fail("queues", "queues") \/ Fail("semget", "semget")
  BY <1>1, FailStep DEF BeforeScheduler
<1>2. CASE ~ (Fail("queues", "queues") \/ Fail("semget", "semget"))
  <2>1. /\ UNCHANGED <<vars, line, noPid>>
        /\ \/ boot = "queues" /\ boot' = "semget"
           \/ boot = "semget" /\ boot' = "semctl"
           \/ boot = "read" /\ boot' = "handler" /\ line = Len(Commands)
           \/ boot = "handler" /\ boot' = "first"
    BY <1>2 DEF create_queues, sem_create, ReadEnd, signal
  <2>2. LinesRead' /\ SemaphoreSet'
    BY <2>1 DEF BootInv, LinesRead, SemaphoreSet, vars
  <2>3. Inserted' = Inserted /\ Tried' = Tried
    BY <2>1 DEF Inserted, Tried
  <2>4. boot \in BeforeScheduler /\ boot' \in BootPlaces
    BY <2>1 DEF BeforeScheduler, BootPlaces
  <2> QED
    BY <2>1, <2>2, <2>3, <2>4, QuietStep
<1> QED
  BY <1>1, <1>2

(* A line that is read is a process from then on.                          *)
LEMMA ReadStep ==
  ASSUME BootInv, ReadLine
  PROVE  BootInv'
<1> USE DEF Proceed
<1>1. CASE Fail("read", "line")
  BY <1>1, FailStep DEF BeforeScheduler
<1>2. CASE ~Fail("read", "line")
  <2>1. /\ boot = "read" /\ boot' = "fork" /\ line' = line + 1
        /\ line < Len(Commands) /\ UNCHANGED <<vars, noPid>>
    BY <1>2 DEF ReadLine
  <2>2. Len(Commands) \in Nat /\ line \in 0 .. Len(Commands)
    BY CommandsAssumption, LenProperties DEF BootInv, LinesRead
  <2>3. LinesRead' /\ SemaphoreSet'
    BY <2>1, <2>2 DEF BootInv, LinesRead, SemaphoreSet, vars, Procs
  <2>4. Inserted' = Inserted /\ Tried' = Tried
    BY <2>1, <2>2 DEF Inserted, Tried
  <2>5. boot \in BeforeScheduler /\ boot' \in BootPlaces
    BY <2>1 DEF BeforeScheduler, BootPlaces
  <2> QED
    BY <2>1, <2>3, <2>4, <2>5, QuietStep
<1> QED
  BY <1>1, <1>2

(* The steps that set the semaphore.                                       *)
LEMMA SemaphoreBootStep ==
  ASSUME BootInv, sem_init \/ EnterFirst
  PROVE  BootInv'
<1> USE DEF Proceed, untouched, policyVars, ioVars, timeVars, localVars
<1>1. CASE Fail("semctl", "semctl")
  BY <1>1, FailStep DEF BeforeScheduler
<1>2. CASE ~Fail("semctl", "semctl")
  <2>1. /\ \/ boot = "semctl" /\ boot' = "read" /\ sem' = 1
           \/ boot = "first" /\ boot' = "first_cr" /\ sem' = sem - 1
        /\ UNCHANGED <<untouched, queues, policyVars, processes_count, running,
                       line, noPid>>
    BY <1>2 DEF sem_init, SETVAL, EnterFirst, sem_enter_cr
  <2>2. LinesRead' /\ SemaphoreSet'
    BY <2>1 DEF BootInv, LinesRead, SemaphoreSet
  <2>3. Fresh /\ running = {}
    BY <2>1 DEF BootInv, BeforeScheduler, NoneUnsupervised
  <2>4. Fresh'
    BY <2>1, <2>3 DEF Fresh
  <2>5. Inserted' = Inserted /\ Tried' = Tried /\ boot \in BeforeScheduler
    BY <2>1 DEF Inserted, Tried, BeforeScheduler
  <2>6. ForksFailed' /\ QueueFollowsLines'
    BY <2>1, <2>5 DEF BootInv, ForksFailed, QueueFollowsLines
  <2>7. NoneUnsupervised' /\ ScheduleInv' /\ boot' \in BootPlaces
    BY <2>1, <2>3 DEF NoneUnsupervised, ScheduleInv, BootPlaces
  <2> QED
    BY <2>2, <2>4, <2>6, <2>7 DEF BootInv
<1> QED
  BY <1>1, <1>2

(* fork leaves a child that runs, or a process without a pid.              *)
LEMMA ForkStep ==
  ASSUME BootInv, fork
  PROVE  BootInv'
<1> USE DEF Proceed, untouched, policyVars, ioVars, timeVars, localVars
<1>1. /\ boot = "fork" /\ boot' = "stop" /\ line \in Procs /\ running = {}
      /\ UNCHANGED <<untouched, queues, policyVars, processes_count, sem, line>>
  BY DEF fork, BootInv, BeforeScheduler, LinesRead, NoneUnsupervised
<1>2. \/ running' = {line} /\ noPid' = noPid
      \/ running' = {} /\ noPid' = noPid \cup {line}
  BY <1>1 DEF fork
<1>3. Fresh'
  BY <1>1 DEF BootInv, BeforeScheduler, Fresh
<1>4. LinesRead' /\ SemaphoreSet'
  BY <1>1 DEF BootInv, LinesRead, SemaphoreSet
<1>5. QueueFollowsLines'
  BY <1>1 DEF BootInv, QueueFollowsLines, BeforeScheduler, Inserted
<1>6. ForksFailed'
  <2>1. line \in Nat /\ line >= 1 /\ noPid \subseteq 1 .. line - 1
    BY <1>1 DEF BootInv, ForksFailed, BeforeScheduler, Tried, Procs
  <2>2. line \notin noPid /\ Tried' = line /\ line' = line
    BY <1>1, <2>1 DEF Tried
  <2>3. noPid' \subseteq 1 .. line
    <3>1. 1 .. line - 1 \subseteq 1 .. line /\ line \in 1 .. line
      BY <2>1
    <3>2. noPid \subseteq 1 .. line
      BY <2>1, <3>1
    <3> QED
      BY <1>2, <3>1, <3>2
  <2>4. line \in noPid' => running' = {}
    BY <1>2, <2>2
  <2> QED
    BY <2>2, <2>3, <2>4 DEF ForksFailed
<1>7. NoneUnsupervised' /\ ScheduleInv' /\ boot' \in BootPlaces
  BY <1>1, <1>2 DEF NoneUnsupervised, ScheduleInv, BootPlaces, BeforeScheduler
<1> QED
  BY <1>3, <1>4, <1>5, <1>6, <1>7 DEF BootInv

(* SIGSTOP stops the one child that runs.                                  *)
LEMMA StopStep ==
  ASSUME BootInv, kill_forked
  PROVE  BootInv'
<1> USE DEF Proceed, untouched, policyVars, ioVars, timeVars, localVars
<1>1. /\ boot = "stop" /\ boot' = "insert" /\ line \in Procs
      /\ running' = running \ Receivers(line)
      /\ UNCHANGED <<untouched, queues, policyVars, processes_count, sem, line,
                     noPid>>
  BY DEF kill_forked, StopChild, BootInv, LinesRead
<1>2. running' = {}
  <2>1. /\ running \subseteq {line}
        /\ line \in noPid => running = {}
    BY <1>1 DEF BootInv, NoneUnsupervised, ForksFailed
  <2> QED
    BY <1>1, <2>1 DEF Receivers
<1>3. Fresh'
  BY <1>1 DEF BootInv, BeforeScheduler, Fresh
<1>4. LinesRead' /\ SemaphoreSet'
  BY <1>1 DEF BootInv, LinesRead, SemaphoreSet
<1>5. QueueFollowsLines' /\ ForksFailed'
  BY <1>1 DEF BootInv, QueueFollowsLines, ForksFailed, BeforeScheduler,
              Inserted, Tried
<1>6. NoneUnsupervised' /\ ScheduleInv' /\ boot' \in BootPlaces
  BY <1>1, <1>2 DEF NoneUnsupervised, ScheduleInv, BootPlaces
<1> QED
  BY <1>3, <1>4, <1>5, <1>6 DEF BootInv

(* The process of the line goes to the end of the first queue.             *)
LEMMA InsertStep ==
  ASSUME BootInv, insert
  PROVE  BootInv'
<1> USE DEF Proceed, untouched, policyVars, ioVars, timeVars, localVars
<1>1. CASE Fail("insert", "malloc") \/ Crash("insert", "malloc")
  BY <1>1, FailStep DEF BeforeScheduler
<1>2. CASE ~(Fail("insert", "malloc") \/ Crash("insert", "malloc"))
  <2>1. /\ boot = "insert" /\ boot' = "read" /\ line \in Procs
        /\ running = {} /\ processes_count' = processes_count + 1
        /\ queues' = [queues EXCEPT ![FIRST_QUEUE_ID] = qhead_ins(@, line)]
        /\ UNCHANGED <<untouched, policyVars, sem, running, line, noPid>>
    BY <1>2 DEF insert, CountProcess, BootInv, LinesRead, NoneUnsupervised,
                BeforeScheduler
  <2>2. Fresh'
    BY <2>1 DEF BootInv, BeforeScheduler, Fresh
  <2>3. LinesRead' /\ SemaphoreSet'
    BY <2>1 DEF BootInv, LinesRead, SemaphoreSet
  <2>4. PICK k \in Nat : line = k + 1
    BY <2>1 DEF Procs
  <2>5. QueueFollowsLines'
    <3>1. /\ queues = [id \in QueueIds |-> IF id = FIRST_QUEUE_ID
                                              THEN [p \in 1 .. k |-> p] ELSE <<>>]
          /\ processes_count = k
      BY <2>1, <2>4 DEF BootInv, QueueFollowsLines, BeforeScheduler, Inserted
    <3>2. FIRST_QUEUE_ID \in QueueIds
      BY QueueAssumption DEF FIRST_QUEUE_ID, QueueIds
    <3>3. qhead_ins(queues[FIRST_QUEUE_ID], line) = [p \in 1 .. k + 1 |-> p]
      BY <2>4, <3>1, <3>2, InsertNext
    <3>4. queues' = [id \in QueueIds |-> IF id = FIRST_QUEUE_ID
                                           THEN [p \in 1 .. k + 1 |-> p] ELSE <<>>]
      BY <2>1, <3>1, <3>2, <3>3
    <3>5. Inserted' = k + 1 /\ FIRST_QUEUE_ID' = FIRST_QUEUE_ID
      BY <2>1, <2>4 DEF Inserted, FIRST_QUEUE_ID
    <3> QED
      BY <2>1, <3>1, <3>4, <3>5 DEF QueueFollowsLines
  <2>6. ForksFailed'
    BY <2>1 DEF BootInv, ForksFailed, BeforeScheduler, Tried
  <2>7. NoneUnsupervised' /\ ScheduleInv' /\ boot' \in BootPlaces
    BY <2>1 DEF NoneUnsupervised, ScheduleInv, BootPlaces
  <2> QED
    BY <2>2, <2>3, <2>5, <2>6, <2>7 DEF BootInv
<1> QED
  BY <1>1, <1>2

(* What main hands over is a state Scheduler starts in.                    *)
LEMMA HandOverStep ==
  ASSUME BootInv, SetFirst
  PROVE  Init'
<1> USE DEF Proceed, untouched, policyVars, ioVars, timeVars, localVars
<1>1. /\ boot = "first_cr" /\ line = Len(Commands) /\ running = {} /\ sem = 0
      /\ UNCHANGED <<untouched, queues, processes_count, running>>
  BY DEF SetFirst, BootInv, LinesRead, NoneUnsupervised, BeforeScheduler,
         SemaphoreSet
<1>2. Fresh
  BY <1>1 DEF BootInv, BeforeScheduler
<1>3. /\ queues' = [id \in QueueIds |-> IF id = FIRST_QUEUE_ID
                                           THEN [p \in Procs |-> p] ELSE <<>>]
      /\ processes_count' = Len(Commands)
  BY <1>1 DEF BootInv, QueueFollowsLines, BeforeScheduler, Inserted, Procs
<1>4. /\ sem' = 1 /\ current_queue' = FIRST_QUEUE_ID
      /\ runs_left' = get_queue_runs(FIRST_QUEUE_ID)
  BY <1>1 DEF SetFirst, sem_exit_cr, FirstRuns
<1>5. /\ aux_queue' = <<>> /\ current_proc' = NULL /\ io_threads' = 0
      /\ quantum_timer' = 0 /\ age' = [p \in Procs |-> 0] /\ freed' = {}
      /\ pc' = "loop" /\ queue' \in QueueIds /\ ray_end' = 0
      /\ io' = [p \in Procs |-> "none"]
      /\ pack' = [p \in Procs |-> FIRST_QUEUE_ID]
      /\ sent' = [p \in Procs |-> 0] /\ pending' = FALSE /\ ub' = FALSE
      /\ running' = {}
  BY <1>1, <1>2 DEF Fresh
<1> QED
  BY <1>3, <1>4, <1>5 DEF Init, FIRST_QUEUE_ID, get_queue_runs, power_of_two

(* The scheduler's initial states, as the next state of a step.            *)
LEMMA NextInit == Init' => IInv'
BY IInvInit, PTL

LEMMA SetFirstStep ==
  ASSUME BootInv, SetFirst
  PROVE  BootInv'
<1>1. IInv'
  BY HandOverStep, NextInit
<1>2. boot' = "scheduling" /\ line' = line
  BY DEF SetFirst, Proceed
<1>3. SafeInv' /\ OneRunning'
  BY <1>1 DEF IInv, SafeInv
<1>4. LinesRead'
  BY <1>2 DEF BootInv, LinesRead
<1> QED
  BY <1>2, <1>3, <1>4
     DEF BootInv, BootPlaces, BeforeScheduler, SemaphoreSet, ForksFailed,
         QueueFollowsLines, NoneUnsupervised, ScheduleInv

-----------------------------------------------------------------------------
(* The steps of the children, and the scheduler's.                         *)

(* A child changes nothing of what main has set up.                        *)
LEMMA ChildStep ==
  ASSUME BootInv, NEW p \in Procs, execv(p) \/ TickTooSoon(p)
  PROVE  BootInv'
<1> USE DEF vars, policyVars, queueVars, ioVars, timeVars, childVars, exitVars,
            localVars
<1>1. CASE execv(p)
  <2>1. UNCHANGED <<vars, boot, line, noPid>>
    BY <1>1 DEF execv
  <2>2. UNCHANGED <<Fresh, SemaphoreSet, LinesRead, ForksFailed>>
    BY <2>1 DEF Fresh, SemaphoreSet, LinesRead, ForksFailed, Tried
  <2>3. UNCHANGED <<QueueFollowsLines, NoneUnsupervised>>
    BY <2>1 DEF QueueFollowsLines, Inserted, NoneUnsupervised
  <2>4. UNCHANGED ScheduleInv
    BY <2>1 DEF ScheduleInv, SafeInv, TypeOK, TurnInv, OnePlace, PlacedOnce,
                NoNodeTwice, At, SemaphoreInv, MutualExclusion,
                InsertingThreads, CountersAgree, Blocked, NeverAborts, DoneInv,
                OneRunning
  <2> QED
    BY <2>1, <2>2, <2>3, <2>4 DEF BootInv
<1>2. CASE TickTooSoon(p)
  <2>1. /\ boot = "stop" /\ boot' = "killed" /\ UNCHANGED <<vars, line, noPid>>
    BY <1>2 DEF TickTooSoon
  <2>2. running' \subseteq {line'} /\ LinesRead'
    BY <2>1 DEF BootInv, NoneUnsupervised, LinesRead
  <2> QED
    BY <2>1, <2>2
       DEF BootInv, BootPlaces, BeforeScheduler, SemaphoreSet, ForksFailed,
           QueueFollowsLines, NoneUnsupervised, ScheduleInv
<1> QED
  BY <1>1, <1>2

(* The scheduler's own steps.                                              *)
LEMMA OwnStep ==
  ASSUME SafeInv, [Next]_vars
  PROVE  SafeInv' /\ (OneRunning => OneRunning')
BY TypeStep, TurnStep, OnePlaceStep, SemaphoreStep, CountersStep,
   NeverAbortsStep, OneRunningStep, DoneStep DEF SafeInv

(* kill(-1, ...) disturbs who runs, and nothing else.                      *)
LEMMA EveryoneStep ==
  ASSUME SafeInv, ResumeEveryone \/ PreemptEveryone
  PROVE  SafeInv'
<1> USE DEF policyVars, queueVars, ioVars, timeVars, childVars, exitVars,
            localVars
<1>1. /\ \/ pc = "resume" /\ pc' = "aim"
         \/ pc = "wait" /\ pc' = "judge"
      /\ UNCHANGED <<policyVars, queueVars, ioVars, age, sent, pending,
                     exitVars, localVars, current_proc, sem, ub>>
  BY DEF ResumeEveryone, PreemptEveryone
<1>2. quantum_timer' \in Nat /\ running' \in SUBSET Procs
  <2>1. quantum_timer \in Nat /\ running \in SUBSET Procs
    BY DEF SafeInv, TypeOK
  <2>2. current_proc \in Procs
    BY <1>1, PlaceNames DEF SafeInv, TurnInv
  <2>3. Receivers(current_proc) \in SUBSET Procs
    BY <2>2 DEF Receivers
  <2>4. \/ quantum_timer' = 0 /\ running' = running \cup Receivers(current_proc)
        \/ quantum_timer' = quantum_timer /\ running' = running \ Receivers(current_proc)
    BY DEF ResumeEveryone, PreemptEveryone, StopChild
  <2> QED
    BY <2>1, <2>3, <2>4
<1>3. TypeOK'
  BY <1>1, <1>2, PlaceNames DEF SafeInv, TypeOK
<1>4. pc' \in Holding /\ pc \in Holding /\ pc' \notin MainInRegion
  BY <1>1, PlaceNames DEF MainInRegion
<1>5. TurnInv'
  BY <1>1, <1>4 DEF SafeInv, TurnInv, Holding
<1>6. OnePlace'
  BY <1>1, <1>4, StayStep DEF SafeInv, Holding
<1>7. SemaphoreInv'
  BY <1>1, <1>4, OutsideStep DEF SafeInv
<1>8. CountersAgree'
  BY <1>1 DEF SafeInv, CountersAgree, Blocked
<1>9. NeverAborts' /\ DoneInv'
  BY <1>1 DEF NeverAborts, DoneInv
<1> QED
  BY <1>3, <1>5, <1>6, <1>7, <1>8, <1>9 DEF SafeInv

LEMMA ScheduleKeeps ==
  ASSUME BootInv, ScheduleStep
  PROVE  BootInv'
<1>1. boot = "scheduling" /\ UNCHANGED <<boot, line, noPid>>
  BY DEF ScheduleStep, ScheduleMain, ResumeEveryone, PreemptEveryone,
         ScheduleOther, TickOfProgram, Scheduling
<1>2. SafeInv /\ (noPid = {} => OneRunning)
  BY <1>1 DEF BootInv, ScheduleInv
<1>3. CASE ResumeEveryone \/ PreemptEveryone
  <2>1. noPid # {}
    BY <1>3 DEF ResumeEveryone, PreemptEveryone, Everyone
  <2>2. SafeInv'
    BY <1>2, <1>3, EveryoneStep
  <2> QED
    BY <1>1, <2>1, <2>2
       DEF BootInv, BeforeScheduler, SemaphoreSet, LinesRead, ForksFailed,
           QueueFollowsLines, NoneUnsupervised, ScheduleInv
<1>4. CASE ~ (ResumeEveryone \/ PreemptEveryone)
  <2>1. Next
    BY <1>4 DEF ScheduleStep, ScheduleMain, ScheduleOther, TickOfProgram, Next,
                Step
  <2>2. SafeInv' /\ (noPid = {} => OneRunning')
    BY <1>2, <2>1, OwnStep
  <2> QED
    BY <1>1, <2>2
       DEF BootInv, BeforeScheduler, SemaphoreSet, LinesRead, ForksFailed,
           QueueFollowsLines, NoneUnsupervised, ScheduleInv
<1> QED
  BY <1>3, <1>4

-----------------------------------------------------------------------------
(* Every step keeps the invariant.                                         *)
LEMMA BootInvStep == BootInv /\ [BootNext]_allVars => BootInv'
<1> SUFFICES ASSUME BootInv, [BootNext]_allVars PROVE BootInv'
  OBVIOUS
<1>1. CASE UNCHANGED allVars
  <2>1. UNCHANGED <<vars, boot, line, noPid>>
    BY <1>1 DEF allVars, bootVars
  <2>2. UNCHANGED <<Fresh, SemaphoreSet, LinesRead, ForksFailed>>
    BY <2>1 DEF vars, policyVars, queueVars, ioVars, timeVars, childVars,
                exitVars, localVars, Fresh, SemaphoreSet, LinesRead,
                ForksFailed, Tried
  <2>3. UNCHANGED <<QueueFollowsLines, NoneUnsupervised>>
    BY <2>1 DEF vars, queueVars, childVars, exitVars, QueueFollowsLines,
                Inserted, NoneUnsupervised
  <2>4. ScheduleInv'
    <3>1. SafeInv /\ UNCHANGED vars => SafeInv' /\ (OneRunning => OneRunning')
      BY OwnStep
    <3> QED
      BY <2>1, <3>1 DEF BootInv, ScheduleInv
  <2> QED
    BY <2>1, <2>2, <2>3, <2>4 DEF BootInv
<1>2. CASE BootStep
  BY <1>2, PrepareStep, ReadStep, SemaphoreBootStep, ForkStep, StopStep,
     InsertStep, SetFirstStep DEF BootStep
<1>3. CASE ScheduleStep
  BY <1>3, ScheduleKeeps
<1>4. ASSUME NEW p \in Procs, execv(p) \/ TickTooSoon(p) PROVE BootInv'
  BY <1>4, ChildStep
<1> QED
  BY <1>1, <1>2, <1>3, <1>4 DEF BootNext

LEMMA BootInductive == BootSpec => []BootInv
BY BootInvInit, BootInvStep, PTL DEF BootSpec

-----------------------------------------------------------------------------
(* The first queue and processes_count follow the lines read.              *)
THEOREM QueueFollowsLinesHolds == BootSpec => []QueueFollowsLines
<1>1. BootInv => QueueFollowsLines
  BY DEF BootInv
<1> QED
  BY <1>1, BootInductive, PTL

(* No child runs while nobody measures its time.                           *)
THEOREM NoneUnsupervisedHolds == BootSpec => []NoneUnsupervised
<1>1. BootInv => NoneUnsupervised
  BY DEF BootInv
<1> QED
  BY <1>1, BootInductive, PTL

(* The theorems about Scheduler are about the program: it starts in one of *)
(* the states Scheduler starts in.                                         *)
THEOREM StartHandsOver == BootSpec => HandOver
<1>1. BootInv /\ [BootNext]_allVars
        => [boot # "scheduling" /\ boot' = "scheduling" => Init']_allVars
  <2> SUFFICES ASSUME BootInv, BootNext, boot # "scheduling",
                      boot' = "scheduling"
               PROVE  Init'
    OBVIOUS
  <2>1. SetFirst
    BY DEF BootNext, BootStep, create_queues, sem_create, sem_init, ReadLine,
           ReadEnd, Fail, Crash, fork, kill_forked, insert, signal, EnterFirst,
           Proceed, execv, TickTooSoon, ScheduleStep, ScheduleMain,
           ResumeEveryone, PreemptEveryone, ScheduleOther, TickOfProgram,
           Scheduling, allVars, bootVars
  <2> QED
    BY <2>1, HandOverStep
<1> QED
  BY <1>1, BootInductive, PTL DEF BootSpec, HandOver

(* The scheduler's safety outlives every fault of the start.               *)
THEOREM SafeAfterFaultsHolds == BootSpec => []SafeAfterFaults
<1>1. BootInv => SafeAfterFaults
  BY DEF BootInv, ScheduleInv, SafeInv, SemaphoreInv, SafeAfterFaults
<1> QED
  BY <1>1, BootInductive, PTL
=============================================================================
