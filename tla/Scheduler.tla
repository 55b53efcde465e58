----------------------------- MODULE Scheduler -----------------------------
(***************************************************************************)
(* The multilevel feedback scheduler of T1/main.c: the main thread, one    *)
(* detached thread per process blocked for I/O, the SIGUSR1 handler, the   *)
(* children (T1/prog.c) and the semaphore they share (T1/semlib.c).        *)
(*                                                                         *)
(* A step of the main thread is one access to shared state: a critical     *)
(* region is entered by a step of its own (MainEnter), and is left by the  *)
(* last step of its body.  Outside of critical regions, and inside of      *)
(* them as far as `age' and `quantum_timer' go, the handler and the        *)
(* children may act between any two steps.                                 *)
(***************************************************************************)
EXTENDS SchedPolicy, QueueOps, FiniteSets

CONSTANTS
  Commands,    \* the "exec" lines read from stdin: for each, its rays
  TickTiming,  \* when a child's sleep(1) may end, see Tick
  Faults       \* the calls that may fail, see FaultKinds

Procs == 1 .. Len(Commands)
NULL == 0      \* current_proc before the first qhead_rm

(* scanf takes a negative ray too; the lines here have none.               *)
ASSUME CommandsAssumption == Commands \in Seq(Seq(Nat) \ {<<>>})

ASSUME TimingAssumption == TickTiming \in {"settled", "early", "late"}

(* Calls of the scheduler, the malloc of a procpack and pthread_create,    *)
(* and calls of the start (module Startup), which has mallocs too.         *)
FaultKinds == {"malloc", "thread", "queues", "semget", "semctl", "line", "fork",
               "slow", "exec"}

ASSUME FaultsAssumption == Faults \subseteq FaultKinds

VARIABLES
  queues,           \* proc_queues
  aux_queue,
  current_proc,
  current_queue,    \* current_queue.id; current_queue.queue is its queue
  runs_left,        \* current_queue.runs_left
  processes_count,
  io_threads,
  quantum_timer,
  age,              \* process_struct.age
  freed,            \* processes exit_handler has freed and killed
  sem,              \* value of the System V semaphore
  pc,               \* where the main thread is
  queue,            \* main's local queue, by id
  ray_end,          \* main's local
  io,               \* state of the I/O thread of each process
  pack,             \* procpack.queue, by id, of that thread
  running,          \* children continued and not stopped again
  sent,             \* SIGUSR1s each child has sent
  pending,          \* SIGUSR1 is pending for the scheduler
  ub                \* the handler has used a node that is not there

policyVars == <<current_queue, runs_left>>
queueVars  == <<queues, aux_queue>>
ioVars     == <<io, pack, io_threads>>
timeVars   == <<quantum_timer, age>>
childVars  == <<running, sent, pending>>
exitVars   == <<processes_count, freed>>
localVars  == <<queue, ray_end>>

vars == <<policyVars, queueVars, ioVars, timeVars, childVars, exitVars,
          localVars, current_proc, sem, pc, ub>>

(* main's locals that follow from its other variables: quantum is set with *)
(* queue, procinfo with current_proc.                                      *)
quantum == get_queue_quantum(queue)
rays == Commands[current_proc]

AtSemaphore == {"switch", "fetch", "judge", "merge"}
Region(place) == CASE place = "switch" -> "switch_cr"
                   [] place = "fetch"  -> "fetch_cr"
                   [] place = "judge"  -> "judge_cr"
                   [] place = "merge"  -> "merge_cr"
MainInRegion == {"switch_cr", "fetch_cr", "judge_cr", "judge_end", "judge_io",
                 "merge_cr", "no_memory"}

(* Where main owns current_proc: between qhead_rm and handing it over, or  *)
(* exiting for want of memory, with the region not left.                   *)
Holding == {"resume", "aim", "wait", "judge", "judge_cr", "judge_end",
            "judge_io", "no_memory"}

-----------------------------------------------------------------------------
(* init_interpreter has forked every command's child, stopped it and put   *)
(* it on the first queue, in the order of the commands.  `queue' has no    *)
(* initial value in the code.                                              *)
Init ==
  /\ queues = [id \in QueueIds |->
                 IF id = FIRST_QUEUE_ID THEN [p \in Procs |-> p] ELSE <<>>]
  /\ aux_queue = <<>>
  /\ current_proc = NULL
  /\ current_queue = FIRST_QUEUE_ID
  /\ runs_left = get_queue_runs(FIRST_QUEUE_ID)
  /\ processes_count = Len(Commands)
  /\ io_threads = 0
  /\ quantum_timer = 0
  /\ age = [p \in Procs |-> 0]
  /\ freed = {}
  /\ sem = 1
  /\ pc = "loop"
  /\ queue \in QueueIds
  /\ ray_end = 0
  /\ io = [p \in Procs |-> "none"]
  /\ pack = [p \in Procs |-> FIRST_QUEUE_ID]
  /\ running = {}
  /\ sent = [p \in Procs |-> 0]
  /\ pending = FALSE
  /\ ub = FALSE

-----------------------------------------------------------------------------
(* The semaphore.                                                          *)
Mutant_enter_untaken == sem > 0 /\ sem' = sem
Mutant_enter_no_wait == sem' = sem - 1

sem_enter_cr == sem > 0 /\ sem' = sem - 1
sem_exit_cr  == sem' = sem + 1

MainEnter ==
  /\ pc \in AtSemaphore
  /\ sem_enter_cr
  /\ pc' = Region(pc)
  /\ UNCHANGED <<policyVars, queueVars, ioVars, timeVars, childVars, exitVars,
                 localVars, current_proc, ub>>

-----------------------------------------------------------------------------
(* The outer loop and get_updated_queue.                                   *)
Mutant_done_when_all_blocked == processes_count <= io_threads
AllDone == processes_count <= 0

Finish ==
  /\ pc = "loop" /\ AllDone
  /\ pc' = "done"
  /\ UNCHANGED <<policyVars, queueVars, ioVars, timeVars, childVars, exitVars,
                 localVars, current_proc, sem, ub>>

StartPass ==
  /\ pc = "loop" /\ ~AllDone /\ processes_count # io_threads
  /\ pc' = IF runs_left = 0 THEN "switch" ELSE "take"
  /\ UNCHANGED <<policyVars, queueVars, ioVars, timeVars, childVars, exitVars,
                 localVars, current_proc, sem, ub>>

(* Every process is blocked: the pass goes over the last queue once more.  *)
IdlePass ==
  /\ pc = "loop" /\ ~AllDone /\ processes_count = io_threads
  /\ pc' = "fetch"
  /\ UNCHANGED <<policyVars, queueVars, ioVars, timeVars, childVars, exitVars,
                 localVars, current_proc, sem, ub>>

Mutant_last_queue_skipped == (current_queue + 1) % (N_OF_QUEUES - 1)
NextQueue == (current_queue + 1) % N_OF_QUEUES

(* set_current_queue                                                       *)
SwitchQueue ==
  /\ pc = "switch_cr"
  /\ current_queue' = NextQueue
  /\ runs_left' = get_queue_runs(current_queue')
  /\ sem_exit_cr
  /\ pc' = "take"
  /\ UNCHANGED <<queueVars, ioVars, timeVars, childVars, exitVars, localVars,
                 current_proc, ub>>

TakeRun ==
  /\ pc = "take"
  /\ runs_left' = runs_left - 1
  /\ queue' = current_queue
  /\ pc' = "fetch"
  /\ UNCHANGED <<current_queue, queueVars, ioVars, timeVars, childVars,
                 exitVars, ray_end, current_proc, sem, ub>>

(* After the inner loop: the auxiliary queue goes to the end of `queue'.   *)
Mutant_merged_into_next == [queues EXCEPT ![NextQueue] = qhead_transfer(aux_queue, @)]
Merged == [queues EXCEPT ![queue] = qhead_transfer(aux_queue, @)]

MergeAux ==
  /\ pc = "merge_cr"
  /\ queues' = Merged
  /\ aux_queue' = <<>>
  /\ sem_exit_cr
  /\ pc' = "loop"
  /\ UNCHANGED <<policyVars, ioVars, timeVars, childVars, exitVars, localVars,
                 current_proc, ub>>

-----------------------------------------------------------------------------
(* The inner loop: a turn of one process.                                  *)
FetchNext ==
  /\ pc = "fetch_cr" /\ queues[queue] # <<>>
  /\ current_proc' = Head(queues[queue])
  /\ queues' = [queues EXCEPT ![queue] = Tail(@)]
  /\ sem_exit_cr
  /\ pc' = "resume"
  /\ UNCHANGED <<policyVars, aux_queue, ioVars, timeVars, childVars, exitVars,
                 localVars, ub>>

QueueDrained ==
  /\ pc = "fetch_cr" /\ queues[queue] = <<>>
  /\ sem_exit_cr
  /\ pc' = "merge"
  /\ UNCHANGED <<policyVars, queueVars, ioVars, timeVars, childVars, exitVars,
                 localVars, current_proc, ub>>

Mutant_SIGSTOP_forgotten(p) == UNCHANGED running

kill_SIGCONT(p) == running' = running \cup {p}
kill_SIGSTOP(p) == running' = running \ {p}

Resume ==
  /\ pc = "resume"
  /\ quantum_timer' = 0
  /\ kill_SIGCONT(current_proc)
  /\ pc' = "aim"
  /\ UNCHANGED <<policyVars, queueVars, ioVars, age, sent, pending, exitVars,
                 localVars, current_proc, sem, ub>>

(* ray_end is computed from the age the process has by then.               *)
Aim ==
  /\ pc = "aim"
  /\ ray_end' = get_next_ray_age(rays, age[current_proc])
  /\ pc' = "wait"
  /\ UNCHANGED <<policyVars, queueVars, ioVars, timeVars, childVars, exitVars,
                 queue, current_proc, sem, ub>>

(* The condition of the busy wait.                                         *)
Mutant_quantum_overrun == age[current_proc] < ray_end /\ quantum_timer <= quantum
Waiting == age[current_proc] < ray_end /\ quantum_timer < quantum

Preempt ==
  /\ pc = "wait" /\ ~Waiting
  /\ kill_SIGSTOP(current_proc)
  /\ pc' = "judge"
  /\ UNCHANGED <<policyVars, queueVars, ioVars, timeVars, sent, pending,
                 exitVars, localVars, current_proc, sem, ub>>

-----------------------------------------------------------------------------
(* The verdict on the turn, in one critical region.                        *)
RayEnded ==
  /\ pc = "judge_cr" /\ age[current_proc] = ray_end
  /\ pc' = "judge_end"
  /\ UNCHANGED <<policyVars, queueVars, ioVars, timeVars, childVars, exitVars,
                 localVars, current_proc, sem, ub>>

(* Quantum used up: one queue down, through the auxiliary queue when that  *)
(* is the queue being served.                                              *)
Demote ==
  /\ pc = "judge_cr" /\ age[current_proc] # ray_end
  /\ LET lower == get_lower_priority_queue_id(current_queue)
         dest  == IF lower = current_queue THEN aux_queue ELSE queues[lower]
     IN  IF IsDuplicate(dest, current_proc)
           THEN /\ pc' = "exited"
                /\ UNCHANGED <<queueVars, sem>>
           ELSE /\ IF lower = current_queue
                     THEN /\ aux_queue' = qhead_ins(aux_queue, current_proc)
                          /\ UNCHANGED queues
                     ELSE /\ queues' = [queues EXCEPT ![lower] =
                                          qhead_ins(@, current_proc)]
                          /\ UNCHANGED aux_queue
                /\ sem_exit_cr
                /\ pc' = "fetch"
  /\ UNCHANGED <<policyVars, ioVars, timeVars, childVars, exitVars, localVars,
                 current_proc, ub>>

(* The node is freed and the child killed; current_proc is left dangling.  *)
Mutant_exit_uncounted ==
  freed' = freed \cup {current_proc} /\ UNCHANGED processes_count

exit_handler ==
  /\ processes_count' = processes_count - 1
  /\ freed' = freed \cup {current_proc}

Terminate ==
  /\ pc = "judge_end" /\ age[current_proc] = get_ray_sum(rays)
  /\ exit_handler
  /\ sem_exit_cr
  /\ pc' = "fetch"
  /\ UNCHANGED <<policyVars, queueVars, ioVars, timeVars, childVars, localVars,
                 current_proc, ub>>

RayLeft ==
  /\ pc = "judge_end" /\ age[current_proc] # get_ray_sum(rays)
  /\ pc' = "judge_io"
  /\ UNCHANGED <<policyVars, queueVars, ioVars, timeVars, childVars, exitVars,
                 localVars, current_proc, sem, ub>>

(* malloc answers NULL: exit(0) in the middle of the critical region.      *)
PackFails ==
  /\ pc = "judge_io" /\ "malloc" \in Faults
  /\ pc' = "no_memory"
  /\ UNCHANGED <<policyVars, queueVars, ioVars, timeVars, childVars, exitVars,
                 localVars, current_proc, sem, ub>>

Mutant_queues_swapped(stay_on_queue) ==
  pack' = [pack EXCEPT ![current_proc] =
             IF stay_on_queue THEN get_higher_priority_queue_id(current_queue)
             ELSE current_queue]

pack_current_process(stay_on_queue) ==
  pack' = [pack EXCEPT ![current_proc] =
             IF stay_on_queue THEN current_queue
             ELSE get_higher_priority_queue_id(current_queue)]

(* The result of pthread_create is not looked at: a thread that was not    *)
(* created is counted like one that was.                                   *)
pthread_create(p) ==
  \/ io' = [io EXCEPT ![p] = "sleeping"]
  \/ "thread" \in Faults /\ io' = [io EXCEPT ![p] = "not_created"]

(* io_handler                                                              *)
BlockOnIO ==
  /\ pc = "judge_io"
  /\ pack_current_process(quantum_timer = quantum)
  /\ pthread_create(current_proc)
  /\ io_threads' = io_threads + 1
  /\ IF io_threads' > processes_count
       THEN pc' = "exited" /\ UNCHANGED sem
       ELSE pc' = "fetch" /\ sem_exit_cr
  /\ UNCHANGED <<policyVars, queueVars, timeVars, childVars, exitVars,
                 localVars, current_proc, ub>>

-----------------------------------------------------------------------------
(* io_thread_handler                                                       *)
IOWake(p) ==
  /\ io[p] = "sleeping"
  /\ io' = [io EXCEPT ![p] = "waiting"]
  /\ UNCHANGED <<policyVars, queueVars, pack, io_threads, timeVars, childVars,
                 exitVars, localVars, current_proc, sem, pc, ub>>

IOEnter(p) ==
  /\ io[p] = "waiting"
  /\ sem_enter_cr
  /\ io' = [io EXCEPT ![p] = "inserting"]
  /\ UNCHANGED <<policyVars, queueVars, pack, io_threads, timeVars, childVars,
                 exitVars, localVars, current_proc, pc, ub>>

Mutant_io_thread_uncounted == UNCHANGED io_threads
IOThreadEnds == io_threads' = io_threads - 1

IOReturn(p) ==
  /\ io[p] = "inserting"
  /\ IF pack[p] = current_queue
       THEN /\ aux_queue' = qhead_ins(aux_queue, p)
            /\ UNCHANGED queues
       ELSE /\ queues' = [queues EXCEPT ![pack[p]] = qhead_ins(@, p)]
            /\ UNCHANGED aux_queue
  /\ io' = [io EXCEPT ![p] = "none"]
  /\ IOThreadEnds
  /\ sem_exit_cr
  /\ UNCHANGED <<policyVars, pack, timeVars, childVars, exitVars, localVars,
                 current_proc, pc, ub>>

-----------------------------------------------------------------------------
(* A child sends SIGUSR1 at the end of each second it has run.  TickTiming *)
(* says which ends of a second are considered:                             *)
(*   "settled"  only while main is in the busy wait and would stay there,  *)
(*   "early"    also right after SIGCONT, before ray_end is computed: the  *)
(*              child was stopped in the sleep(1) of a ray, which went on  *)
(*              meanwhile (not before its first ray, nor between two rays, *)
(*              where it has one more sleep to do),                        *)
(*   "late"     at any time the child is running.                          *)
(* The seconds the child's loops over its rays take.                       *)
TotalTicks(p) == RayEnds(Commands[p])[Len(Commands[p])]

InRay(p) ==
  \A k \in DOMAIN Commands[p] : RayEnds(Commands[p])[k] # sent[p]

OnTime(p) ==
  /\ ~pending
  /\ \/ pc = "wait" /\ Waiting
     \/ /\ TickTiming = "early"
        /\ pc = "aim" /\ quantum_timer = 0 /\ InRay(p)

Tick(p) ==
  /\ p \in running
  /\ sent[p] < TotalTicks(p)
  /\ TickTiming = "late" \/ OnTime(p)
  /\ sent' = [sent EXCEPT ![p] = @ + 1]
  /\ pending' = TRUE
  /\ UNCHANGED <<policyVars, queueVars, ioVars, timeVars, running, exitVars,
                 localVars, current_proc, sem, pc, ub>>

(* signal_handler charges current_proc, whichever child sent the signal.   *)
signal_handler ==
  /\ pending
  /\ pending' = FALSE
  /\ IF current_proc = NULL \/ current_proc \in freed
       THEN ub' = TRUE /\ UNCHANGED timeVars
       ELSE /\ quantum_timer' = quantum_timer + 1
            /\ age' = [age EXCEPT ![current_proc] = @ + 1]
            /\ UNCHANGED ub

HandleSignal ==
  /\ signal_handler
  /\ UNCHANGED <<policyVars, queueVars, ioVars, running, sent, exitVars,
                 localVars, current_proc, sem, pc>>

-----------------------------------------------------------------------------
MainStep ==
  \/ MainEnter \/ Finish \/ StartPass \/ IdlePass \/ SwitchQueue \/ TakeRun
  \/ MergeAux \/ FetchNext \/ QueueDrained \/ Resume \/ Aim \/ Preempt
  \/ RayEnded \/ Demote \/ Terminate \/ RayLeft \/ PackFails \/ BlockOnIO

IOStep(p) == IOWake(p) \/ IOEnter(p) \/ IOReturn(p)

(* The program has ended, or anything may happen to it from here on.       *)
Stopped == pc \in {"done", "exited", "no_memory"} \/ ub

Halted == Stopped /\ UNCHANGED vars

Step == MainStep \/ HandleSignal \/ \E p \in Procs : IOStep(p) \/ Tick(p)

Next == (~Stopped /\ Step) \/ Halted

Spec == Init /\ [][Next]_vars

(* Every thread and child keeps running.  A thread that waits in semop     *)
(* gets its turn: Linux serves the waiters of a semaphore in order.        *)
Live(A) == ~Stopped /\ A

Fairness ==
  /\ WF_vars(Live(MainStep))
  /\ SF_vars(Live(MainEnter))
  /\ WF_vars(Live(HandleSignal))
  /\ \A p \in Procs : /\ WF_vars(Live(IOWake(p) \/ IOReturn(p)))
                      /\ SF_vars(Live(IOEnter(p)))
                      /\ WF_vars(Live(Tick(p)))

FairSpec == Spec /\ Fairness

-----------------------------------------------------------------------------
(* semop fails with EINTR when a signal is handled while it waits, and the *)
(* result of sem_enter_cr is not looked at: the thread goes on into the    *)
(* critical region without having taken the semaphore.                     *)
InterruptedMain ==
  /\ pc \in AtSemaphore /\ sem = 0
  /\ signal_handler
  /\ pc' = Region(pc)
  /\ UNCHANGED <<policyVars, queueVars, ioVars, running, sent, exitVars,
                 localVars, current_proc, sem>>

InterruptedIO(p) ==
  /\ io[p] = "waiting" /\ sem = 0
  /\ signal_handler
  /\ io' = [io EXCEPT ![p] = "inserting"]
  /\ UNCHANGED <<policyVars, queueVars, pack, io_threads, running, sent,
                 exitVars, localVars, current_proc, sem, pc>>

InterruptibleNext ==
  \/ Next
  \/ /\ ~Stopped
     /\ InterruptedMain \/ \E p \in Procs : InterruptedIO(p)

InterruptibleSpec == Init /\ [][InterruptibleNext]_vars
=============================================================================
