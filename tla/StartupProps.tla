---------------------------- MODULE StartupProps ----------------------------
(***************************************************************************)
(* What makes the start of T1/main.c correct, and the scheduler after it.  *)
(***************************************************************************)
EXTENDS Startup

BeforeScheduler == {"queues", "semget", "semctl", "read", "fork", "stop",
                    "insert", "handler", "first", "first_cr"}

(* The lines whose process is on the first queue already.                  *)
Inserted == IF boot \in {"fork", "stop", "insert"} THEN line - 1 ELSE line

(* However far the start has come, the first queue holds the processes of  *)
(* the lines read, in their order, and processes_count counts them.        *)
QueueFollowsLines ==
  boot \in BeforeScheduler =>
    /\ queues = [id \in QueueIds |-> IF id = FIRST_QUEUE_ID
                                       THEN [p \in 1 .. Inserted |-> p]
                                       ELSE <<>>]
    /\ processes_count = Inserted

(* No child runs unsupervised.  Before the scheduler continues it, a child *)
(* runs only between its fork and its SIGSTOP: when main gives up because  *)
(* of a later line, the children of the earlier ones stay stopped, and     *)
(* none can send its SIGUSR1 before there is a handler but the last.       *)
NoneUnsupervised ==
  /\ boot \in BeforeScheduler \ {"stop"} => running = {}
  /\ boot \in {"stop", "killed"} => running \subseteq {line}
  /\ boot = "failed" => running = {}

(* Whatever was left in the semaphore, and whichever forks have failed,    *)
(* the scheduler starts in a state Scheduler's Init describes.             *)
HandOver == [][boot # "scheduling" /\ boot' = "scheduling" => Init']_allVars

(* The scheduler keeps its nodes, counters and regions in order whichever  *)
(* children died or were never forked; it takes a pid of -1 to run more    *)
(* than one child at a time.                                               *)
SafeAfterFaults ==
  boot = "scheduling" =>
    /\ MutualExclusion /\ OnePlace /\ CountersAgree /\ NeverAborts
    /\ noPid = {} => OneRunning

(* The program ends, unless a child died or could not be forked, for whose *)
(* ticks main waits for ever, or a thread was not created, for which it    *)
(* goes round for ever.                                                    *)
ChildLost == noPid # {} \/ \E p \in Procs : child[p] = "dead"
ThreadLost == \E p \in Procs : io[p] = "not_created"

EndsUnlessLost ==
  <>(\/ boot \in {"failed", "killed"} \/ pc \in {"done", "no_memory"}
     \/ ChildLost \/ ThreadLost)
=============================================================================
