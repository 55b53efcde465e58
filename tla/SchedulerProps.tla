-------------------------- MODULE SchedulerProps --------------------------
(***************************************************************************)
(* What makes the scheduler of T1/main.c correct.                          *)
(***************************************************************************)
EXTENDS Scheduler

MainPlaces == {"loop", "take", "done", "exited"}
                \cup AtSemaphore \cup MainInRegion \cup Holding
IOPlaces == {"none", "sleeping", "not_created", "waiting", "inserting"}

(* Every variable has its type.                                            *)
TypeOK ==
  /\ queues \in [QueueIds -> Seq(Procs)]
  /\ aux_queue \in Seq(Procs)
  /\ current_proc \in Procs \cup {NULL}
  /\ current_queue \in QueueIds
  /\ queue \in QueueIds
  /\ ray_end \in Nat
  /\ runs_left \in Int
  /\ processes_count \in Int
  /\ io_threads \in Int
  /\ quantum_timer \in Nat
  /\ age \in [Procs -> Nat]
  /\ freed \in SUBSET Procs
  /\ sem \in Nat
  /\ pc \in MainPlaces
  /\ io \in [Procs -> IOPlaces]
  /\ pack \in [Procs -> QueueIds]
  /\ running \in SUBSET Procs
  /\ sent \in [Procs -> Nat]
  /\ pending \in BOOLEAN
  /\ ub \in BOOLEAN

-----------------------------------------------------------------------------
(* Mutual exclusion.  Between sem_enter_cr and sem_exit_cr there is at     *)
(* most one thread, whether main or an I/O thread: the critical regions    *)
(* of main.c are what their comments say.                                  *)
InsertingThreads == {p \in Procs : io[p] = "inserting"}

MutualExclusion ==
  /\ \A p, q \in InsertingThreads : p = q
  /\ pc \in MainInRegion => InsertingThreads = {}

-----------------------------------------------------------------------------
(* The places a process can be at.  -2 is the id main.c gives aux_queue.   *)
AUX_ID == -2
ON_CPU == -3
IN_IO  == -4
GONE   == -5

Places == QueueIds \cup {AUX_ID, ON_CPU, IN_IO, GONE}

At(p, place) ==
  \/ place \in QueueIds /\ p \in Range(queues[place])
  \/ place = AUX_ID /\ p \in Range(aux_queue)
  \/ place = ON_CPU /\ p = current_proc /\ pc \in Holding
  \/ place = IN_IO /\ io[p] # "none"
  \/ place = GONE /\ p \in freed

PlacedOnce ==
  \A p \in Procs : \E place \in Places :
    At(p, place) /\ \A other \in Places : At(p, other) => other = place

NoNodeTwice ==
  /\ \A id \in QueueIds : HasNoDuplicate(queues[id])
  /\ HasNoDuplicate(aux_queue)

(* No process is lost or linked twice.  Whatever the threads interleave,   *)
(* each process is on exactly one queue, or held by main, or by its I/O    *)
(* thread, or destroyed; and no queue has it twice.                        *)
OnePlace == PlacedOnce /\ NoNodeTwice

(* The counters the main loop decides by tell the truth, although they are *)
(* kept by main, exit_handler and the I/O threads: processes_count counts  *)
(* the processes not destroyed, io_threads those blocked.                  *)
Blocked == {p \in Procs : io[p] # "none"}

CountersAgree ==
  /\ processes_count = Cardinality(Procs \ freed)
  /\ io_threads = Cardinality(Blocked)

(* The tests that should never fire never do: neither the "Crash-proof"    *)
(* test of io_handler, although a thread that could not be created stays   *)
(* counted for ever, nor the QUEUE_DUPLICATE of the demotion.  The exit    *)
(* for want of memory is another one ("no_memory"), which a malloc that    *)
(* fails does lead to.                                                     *)
NeverAborts == pc # "exited"

(* Only the process whose turn it is runs; from the SIGSTOP to the next    *)
(* SIGCONT none does.                                                      *)
OneRunning ==
  /\ running \subseteq {current_proc}
  /\ running # {} => pc \in {"aim", "wait"}

(* When main destroys the semaphore and the queues, no thread is left that *)
(* would use them and no node that destroy_queues would leak.              *)
DoneIsClean ==
  pc = "done" => /\ Blocked = {}
                 /\ aux_queue = <<>>
                 /\ \A id \in QueueIds : queues[id] = <<>>
                 /\ running = {}

-----------------------------------------------------------------------------
(* The SIGUSR1s sent by a child are the age of its process, but for the    *)
(* one under way: none is lost, charged to another process, or handled by  *)
(* way of a current_proc that has been freed.                              *)
TicksAttributed ==
  /\ \A p \in Procs :
       sent[p] = age[p] + (IF pending /\ p = current_proc THEN 1 ELSE 0)
  /\ ~ub

(* exit_handler kills a child only when it has done all of its rays.       *)
KilledOnlyWhenFinished ==
  \A p \in freed : sent[p] = TotalTicks(p)

(* No turn is longer than the quantum of the queue it was taken from, not  *)
(* even by a tick that arrives between SIGCONT and the busy wait.          *)
QuantumRespected == pc \in Holding \ {"resume"} => quantum_timer <= quantum

(* The ends of rays the turn goes past on its way to ray_end, without the  *)
(* process blocking for I/O or terminating.                                *)
PassedEnds ==
  LET ends  == RayEnds(Commands[current_proc])
      began == age[current_proc] - quantum_timer
  IN  {k \in DOMAIN ends : began < ends[k] /\ ends[k] < ray_end}

InTurn == pc \in {"wait", "judge", "judge_cr", "judge_end", "judge_io"}

(* What the documents say: a turn goes past no end of a ray.               *)
RayEndIsNextBoundary == InTurn => PassedEnds = {}

(* What the code does: a turn goes past at most the end that the first     *)
(* tick after SIGCONT reaches, the only one that can come before ray_end   *)
(* is computed.                                                            *)
OnlyFirstTickPasses ==
  InTurn => \A k \in PassedEnds :
              RayEnds(Commands[current_proc])[k]
                = age[current_proc] - quantum_timer + 1

(* A process blocked for I/O is at the end of a ray that is not its last.  *)
BlockedAtRayEnd ==
  \A p \in Blocked :
    LET ends == RayEnds(Commands[p])
    IN  \E k \in 1 .. Len(Commands[p]) - 1 :
          age[p] = ends[k] /\ age[p] < TotalTicks(p)

-----------------------------------------------------------------------------
(* The priority level of a process.  Those on the auxiliary queue belong   *)
(* to the queue being served.                                              *)
Level(p) ==
  IF p \in Blocked THEN pack[p]
  ELSE IF \E id \in QueueIds : p \in Range(queues[id])
         THEN CHOOSE id \in QueueIds : p \in Range(queues[id])
         ELSE current_queue

(* What a process looks like from outside of the scheduler.                *)
LifeOf(p) ==
  [state |-> IF p \in freed THEN "gone"
             ELSE IF p \in Blocked THEN "blocked"
             ELSE IF At(p, ON_CPU) THEN "running"
             ELSE IF At(p, AUX_ID) THEN "aside"
             ELSE "ready",
   level |-> IF p \in freed THEN 0 ELSE Level(p)]

lives == [p \in Procs |-> LifeOf(p)]

(* Where main is between the beginning and the end of a pass over a queue. *)
InPass == {"fetch", "fetch_cr", "merge", "merge_cr"} \cup Holding

(* The timer tells the ticks of the turn once the turn has set it.         *)
usedTicks == IF pc \in Holding \ {"resume"} THEN quantum_timer ELSE 0

Life == INSTANCE TaskLife
          WITH Tasks <- Procs, N_OF_LEVELS <- N_OF_QUEUES,
               task <- lives, served <- current_queue, passes <- runs_left,
               serving <- pc \in InPass, used <- usedTicks

(* The scheduler implements the life of its tasks, for ticks that are not  *)
(* late.  A level has as many passes as its runs, and in a pass only tasks *)
(* that are ready at it get a turn, until none is left.  A process goes    *)
(* down only after a full quantum; it blocks only after using time, and    *)
(* comes back at its level after a full quantum, else one higher.  The     *)
(* merge leaves each process at the level it has, although I/O threads     *)
(* insert before and after it; only the switch of queues changes levels,   *)
(* of the processes on the auxiliary queue and of no others.               *)
ImplementsTaskLife == Life!Spec

(* What the documents say: a process that waits for its turn stays at the  *)
(* level its return from I/O, or the end of its quantum, put it on.        *)
WaitingKeepsLevel ==
  [][\A p \in Procs : (At(p, AUX_ID) /\ At(p, AUX_ID)') => Level(p)' = Level(p)]_vars

-----------------------------------------------------------------------------
(* Every process gets the time to do all of its rays, and then the         *)
(* scheduler ends: no process is starved by the higher queues or left      *)
(* behind in I/O.                                                          *)
Termination == <>(pc = "done")

(* A process that is waiting on any queue is eventually given the CPU.     *)
NoStarvation ==
  \A p \in Procs :
    (p \in Range(aux_queue) \/ \E id \in QueueIds : p \in Range(queues[id]))
      ~> At(p, ON_CPU)

-----------------------------------------------------------------------------
(* The inductive invariant behind the safety properties.  The semaphore is *)
(* down exactly while a thread is in its region, and a main thread that    *)
(* is serving a turn has a process to serve.                               *)
SemaphoreInv ==
  /\ sem \in {0, 1}
  /\ sem = 1 => pc \notin MainInRegion /\ InsertingThreads = {}
  /\ MutualExclusion

TurnInv == pc \in Holding => current_proc \in Procs

DoneInv == pc = "done" => processes_count <= 0

IInv ==
  /\ TypeOK
  /\ TurnInv
  /\ OnePlace
  /\ SemaphoreInv
  /\ CountersAgree
  /\ NeverAborts
  /\ OneRunning
  /\ DoneInv

(* The inductive invariant behind the properties about time, when ticks    *)
(* are not late.  A tick is pending only where it may come; a turn has     *)
(* been charged at most one tick when it takes aim; it aims at the end of  *)
(* a ray, which the age does not go past; and a child sends no tick beyond *)
(* its rays.                                                               *)
PendingInv ==
  pending =>
    /\ pc \in {"aim", "wait"}
    /\ pc = "aim" =>
         quantum_timer = 0 /\ age[current_proc] < TotalTicks(current_proc)
    /\ pc = "wait" => Waiting

AimInv ==
  /\ pc = "aim" => quantum_timer <= 1
  /\ InTurn =>
       /\ age[current_proc] <= ray_end
       /\ \E k \in 1 .. Len(rays) : ray_end = RayEnds(rays)[k]
       /\ \A k \in 0 .. Len(rays) :
            RayEnds(rays)[k] < ray_end =>
              RayEnds(rays)[k] <= age[current_proc] - quantum_timer + 1

VerdictInv ==
  /\ pc \in {"judge_end", "judge_io"} => age[current_proc] = ray_end
  /\ pc = "judge_io" => age[current_proc] # get_ray_sum(rays)

SentInv == \A p \in Procs : sent[p] <= TotalTicks(p)

TimingInv ==
  /\ TicksAttributed
  /\ PendingInv
  /\ AimInv
  /\ VerdictInv
  /\ SentInv
  /\ QuantumRespected
  /\ BlockedAtRayEnd
  /\ KilledOnlyWhenFinished

(* When ticks only come in the busy wait, a turn aims before its first one,*)
(* and passes nothing on the way to its aim.                               *)
SettledInv ==
  /\ pc = "aim" => quantum_timer = 0 /\ ~pending
  /\ RayEndIsNextBoundary
=============================================================================
