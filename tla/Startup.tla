------------------------------- MODULE Startup -------------------------------
(***************************************************************************)
(* main of T1/main.c from its first line: the queues, the semaphore,       *)
(* init_interpreter, which forks and stops a child for each line of stdin, *)
(* the signal handler, and then the scheduler.  Each call that may fail    *)
(* does so when it is among the Faults of the instance.                    *)
(***************************************************************************)
EXTENDS SchedulerProps

VARIABLES
  boot,     \* where main is before the scheduler, "scheduling" after that
  line,     \* lines of stdin read
  child,    \* "none", "forked", "program" (after execv), or "dead"
  noPid     \* the processes whose pid is -1: fork has failed for them

bootVars == <<boot, line, child, noPid>>

allVars == <<vars, bootVars>>

BootPlaces == {"queues", "semget", "semctl", "read", "fork", "stop", "insert",
               "handler", "first", "first_cr", "scheduling", "failed", "killed"}

(* What happens before the loop over the lines touches these no more than  *)
(* the loop does.                                                          *)
untouched == <<aux_queue, ioVars, timeVars, freed, localVars, current_proc, pc,
               sent, pending, ub>>

-----------------------------------------------------------------------------
(* The globals are zero; the semaphore of SEM_KEY may exist already, with  *)
(* any value, and `queue' has no initial value.                            *)
BootInit ==
  /\ boot = "queues" /\ line = 0
  /\ child = [p \in Procs |-> "none"] /\ noPid = {}
  /\ queues = [id \in QueueIds |-> <<>>]
  /\ aux_queue = <<>>
  /\ current_proc = NULL
  /\ current_queue = 0 /\ runs_left = 0
  /\ processes_count = 0 /\ io_threads = 0
  /\ quantum_timer = 0 /\ age = [p \in Procs |-> 0]
  /\ freed = {}
  /\ sem \in {0, 1, 2}
  /\ pc = "loop" /\ queue \in QueueIds /\ ray_end = 0
  /\ io = [p \in Procs |-> "none"]
  /\ pack = [p \in Procs |-> FIRST_QUEUE_ID]
  /\ running = {} /\ sent = [p \in Procs |-> 0]
  /\ pending = FALSE /\ ub = FALSE

Proceed(from, to) == boot = from /\ boot' = to

(* main returns; nobody continues or kills the children there are.         *)
Fail(from, kind) ==
  /\ kind \in Faults
  /\ Proceed(from, "failed")
  /\ UNCHANGED <<vars, line, child, noPid>>

(* main writes through a null pointer, and the system kills it.            *)
Crash(from, kind) ==
  /\ kind \in Faults
  /\ Proceed(from, "killed")
  /\ UNCHANGED <<vars, line, child, noPid>>

create_queues ==
  \/ /\ Proceed("queues", "semget")
     /\ UNCHANGED <<vars, line, child, noPid>>
  \/ Fail("queues", "queues")

sem_create ==
  \/ /\ Proceed("semget", "semctl")
     /\ UNCHANGED <<vars, line, child, noPid>>
  \/ Fail("semget", "semget")

Mutant_value_kept == UNCHANGED sem
SETVAL == sem' = 1

sem_init ==
  \/ /\ Proceed("semctl", "read")
     /\ SETVAL
     /\ UNCHANGED <<untouched, queues, policyVars, processes_count, running,
                    line, child, noPid>>
  \/ Fail("semctl", "semctl")

-----------------------------------------------------------------------------
(* init_interpreter.                                                       *)
ReadLine ==
  \/ /\ line < Len(Commands)
     /\ Proceed("read", "fork")
     /\ line' = line + 1
     /\ UNCHANGED <<vars, child, noPid>>
  \/ Fail("read", "line")

ReadEnd ==
  /\ line = Len(Commands)
  /\ Proceed("read", "handler")
  /\ UNCHANGED <<vars, line, child, noPid>>

(* A pid of -1 is taken for a child's.                                     *)
fork ==
  /\ Proceed("fork", "stop")
  /\ \/ /\ child' = [child EXCEPT ![line] = "forked"]
        /\ running' = running \cup {line}
        /\ UNCHANGED noPid
     \/ /\ "fork" \in Faults
        /\ noPid' = noPid \cup {line}
        /\ UNCHANGED <<child, running>>
  /\ UNCHANGED <<untouched, queues, policyVars, processes_count, sem, line>>

(* kill(-1, signo) goes to every process of the user.                      *)
Receivers(p) == IF p \in noPid THEN Procs \ noPid ELSE {p}

Mutant_left_running(p) == UNCHANGED running
StopChild(p) == running' = running \ Receivers(p)

kill_forked ==
  /\ Proceed("stop", "insert")
  /\ StopChild(line)
  /\ UNCHANGED <<untouched, queues, policyVars, processes_count, sem, line,
                 child, noPid>>

Mutant_counted_once == processes_count' = 1
CountProcess == processes_count' = processes_count + 1

(* The struct, its node, and its place on the first queue.  Those two      *)
(* mallocs are checked; that of the rays is not.                           *)
insert ==
  \/ /\ Proceed("insert", "read")
     /\ queues' = [queues EXCEPT ![FIRST_QUEUE_ID] = qhead_ins(@, line)]
     /\ CountProcess
     /\ UNCHANGED <<untouched, policyVars, sem, running, line, child, noPid>>
  \/ Fail("insert", "malloc")
  \/ Crash("insert", "malloc")

(* signal(SIGUSR1, signal_handler)                                         *)
signal ==
  /\ Proceed("handler", "first")
  /\ UNCHANGED <<vars, line, child, noPid>>

(* set_current_queue(FIRST_QUEUE_ID)                                       *)
Mutant_no_runs == UNCHANGED runs_left
FirstRuns == runs_left' = get_queue_runs(FIRST_QUEUE_ID)

EnterFirst ==
  /\ Proceed("first", "first_cr")
  /\ sem_enter_cr
  /\ UNCHANGED <<untouched, queues, policyVars, processes_count, running, line,
                 child, noPid>>

SetFirst ==
  /\ Proceed("first_cr", "scheduling")
  /\ current_queue' = FIRST_QUEUE_ID
  /\ FirstRuns
  /\ sem_exit_cr
  /\ UNCHANGED <<untouched, queues, processes_count, running, line, child,
                 noPid>>

BootStep ==
  \/ create_queues \/ sem_create \/ sem_init \/ ReadLine \/ ReadEnd \/ fork
  \/ kill_forked \/ insert \/ signal \/ EnterFirst \/ SetFirst

-----------------------------------------------------------------------------
(* A child that has been forked runs until it is stopped, and after        *)
(* SIGCONT.  It becomes the program, or dies when execv fails.             *)
execv(p) ==
  /\ p \in running /\ child[p] = "forked"
  /\ \/ child' = [child EXCEPT ![p] = "program"]
     \/ "exec" \in Faults /\ child' = [child EXCEPT ![p] = "dead"]
  /\ UNCHANGED <<vars, boot, line, noPid>>

(* Should a whole second go by before the child is stopped, its SIGUSR1    *)
(* meets the default action of a process that has no handler yet.          *)
TickTooSoon(p) ==
  /\ "slow" \in Faults
  /\ boot = "stop" /\ p \in running /\ child[p] = "program"
  /\ sent[p] < TotalTicks(p)
  /\ boot' = "killed"
  /\ UNCHANGED <<vars, line, child, noPid>>

-----------------------------------------------------------------------------
(* The scheduler.  A process without a pid has kill(-1, ...) where the     *)
(* others have the kill of their child.                                    *)
Scheduling == boot = "scheduling" /\ UNCHANGED <<boot, line, noPid>>

Everyone == pc \in {"resume", "wait"} /\ current_proc \in noPid

KillsEveryone == pc = "judge_end" /\ pc' = "fetch" /\ current_proc \in noPid

ScheduleMain ==
  /\ Scheduling /\ ~Everyone
  /\ MainStep
  /\ child' = IF KillsEveryone
                THEN [p \in Procs |-> IF p \in noPid THEN "none" ELSE "dead"]
                ELSE child

ResumeEveryone ==
  /\ Scheduling /\ Everyone /\ pc = "resume"
  /\ quantum_timer' = 0
  /\ running' = running \cup Receivers(current_proc)
  /\ pc' = "aim"
  /\ UNCHANGED <<policyVars, queueVars, ioVars, age, sent, pending, exitVars,
                 localVars, current_proc, sem, ub, child>>

PreemptEveryone ==
  /\ Scheduling /\ Everyone /\ pc = "wait" /\ ~Waiting
  /\ StopChild(current_proc)
  /\ pc' = "judge"
  /\ UNCHANGED <<policyVars, queueVars, ioVars, timeVars, sent, pending,
                 exitVars, localVars, current_proc, sem, ub, child>>

ScheduleEnter == Scheduling /\ MainEnter /\ UNCHANGED child

ScheduleOther(A) == Scheduling /\ A /\ UNCHANGED child

(* Only a child that has become the program sends ticks.                   *)
TickOfProgram(p) == child[p] = "program" /\ ScheduleOther(Tick(p))

ScheduleStep ==
  /\ ~Stopped
  /\ \/ ScheduleMain \/ ResumeEveryone \/ PreemptEveryone
     \/ ScheduleOther(HandleSignal)
     \/ \E p \in Procs : ScheduleOther(IOStep(p)) \/ TickOfProgram(p)

Over == boot \in {"failed", "killed"} \/ Stopped

BootNext ==
  \/ BootStep \/ ScheduleStep
  \/ \E p \in Procs : execv(p) \/ TickTooSoon(p)
  \/ Over /\ UNCHANGED allVars

BootSpec == BootInit /\ [][BootNext]_allVars

(* As in the scheduler: whoever can go on does so.                         *)
BootFairness ==
  /\ WF_allVars(BootStep)
  /\ WF_allVars(~Stopped /\ (ScheduleMain \/ ResumeEveryone \/ PreemptEveryone))
  /\ SF_allVars(~Stopped /\ ScheduleEnter)
  /\ WF_allVars(~Stopped /\ ScheduleOther(HandleSignal))
  /\ \A p \in Procs :
       /\ WF_allVars(execv(p))
       /\ WF_allVars(~Stopped /\ ScheduleOther(IOWake(p) \/ IOReturn(p)))
       /\ SF_allVars(~Stopped /\ ScheduleOther(IOEnter(p)))
       /\ WF_allVars(~Stopped /\ TickOfProgram(p))

FairBootSpec == BootSpec /\ BootFairness
=============================================================================
