------------------------------ MODULE TaskLife ------------------------------
(***************************************************************************)
(* What the scheduler of T1/main.c promises of its processes, whatever     *)
(* queues, threads and signals it does it with.  Levels are served in      *)
(* turn, each for a number of passes; in a pass, every task that is ready  *)
(* at the level gets one turn of at most a quantum.  Level 0 has the       *)
(* highest priority: the most passes and the shortest quantum.             *)
(***************************************************************************)
EXTENDS Integers

CONSTANTS Tasks, N_OF_LEVELS, SMALLEST_QUANTUM

VARIABLES
  task,     \* the state and the level of each task
  served,   \* the level being served
  passes,   \* the passes it has left
  serving,  \* whether a pass is under way
  used      \* the ticks the running task has used in its turn

life == <<task, served, passes, serving, used>>

Ready(l)   == [state |-> "ready",   level |-> l]
Aside(l)   == [state |-> "aside",   level |-> l]
Running(l) == [state |-> "running", level |-> l]
Blocked(l) == [state |-> "blocked", level |-> l]
Gone       == [state |-> "gone",    level |-> 0]

Quantum(l) == 2 ^ l * SMALLEST_QUANTUM
Runs(l)    == 2 ^ (N_OF_LEVELS - l - 1)

Lower(l)  == IF l = N_OF_LEVELS - 1 THEN l ELSE l + 1
Higher(l) == IF l = 0 THEN l ELSE l - 1

CpuIsFree == \A p \in Tasks : task[p] # Running(served)

(* A task that comes to the level being served waits aside for the next    *)
(* pass.                                                                   *)
Waits(l) == IF l = served THEN Aside(l) ELSE Ready(l)

Becomes(p, state) == task' = [task EXCEPT ![p] = state]

Init ==
  /\ task = [p \in Tasks |-> Ready(0)]
  /\ served = 0 /\ passes = Runs(0)
  /\ serving = FALSE
  /\ used = 0

-----------------------------------------------------------------------------
BeginPass ==
  /\ ~serving /\ passes > 0
  /\ passes' = passes - 1 /\ serving' = TRUE
  /\ UNCHANGED <<task, served, used>>

(* When no task could run, a pass is made that is not counted.             *)
BeginIdlePass ==
  /\ ~serving
  /\ \A p \in Tasks : task[p].state \in {"blocked", "gone"}
  /\ serving' = TRUE
  /\ UNCHANGED <<task, served, passes, used>>

(* The CPU is given to a task that is ready at the level being served.     *)
Dispatch(p) ==
  /\ serving /\ CpuIsFree
  /\ task[p] = Ready(served)
  /\ Becomes(p, Running(served))
  /\ UNCHANGED <<served, passes, serving, used>>

(* The running task uses a tick of its quantum.                            *)
Use ==
  /\ ~CpuIsFree /\ used < Quantum(served)
  /\ used' = used + 1
  /\ UNCHANGED <<task, served, passes, serving>>

(* The turn of the running task ends.                                      *)
GivesUp(p, state) ==
  /\ task[p] = Running(served)
  /\ Becomes(p, state)
  /\ used' = 0
  /\ UNCHANGED <<served, passes, serving>>

(* A task goes one level down only if it used all of its quantum.          *)
Demote(p) == used = Quantum(served) /\ GivesUp(p, Waits(Lower(served)))

(* A task that ended a ray in its turn blocks.  It will be back at the     *)
(* same level if it used all of its quantum, at the next higher one if it  *)
(* used less.                                                              *)
Block(p) ==
  /\ used > 0
  /\ GivesUp(p, Blocked(IF used = Quantum(served) THEN served ELSE Higher(served)))

(* A task leaves from the CPU, and never comes back.                       *)
Exit(p) == GivesUp(p, Gone)

(* At any time a task comes back to the level it blocked for.              *)
Return(p, l) ==
  /\ task[p] = Blocked(l)
  /\ Becomes(p, Waits(l))
  /\ UNCHANGED <<served, passes, serving, used>>

(* A pass ends when every task that was ready has had its turn; those      *)
(* aside are ready for the next one, at the level they are at.             *)
EndPass ==
  /\ serving /\ CpuIsFree
  /\ \A p \in Tasks : task[p] # Ready(served)
  /\ task' = [p \in Tasks |->
                IF task[p] = Aside(served) THEN Ready(served) ELSE task[p]]
  /\ serving' = FALSE
  /\ UNCHANGED <<served, passes, used>>

(* After its last pass a level hands over to the next.  What no document   *)
(* says: the tasks that came back between the end of the pass and here,    *)
(* and wait aside, change their level with it.                             *)
Switch ==
  /\ ~serving /\ passes = 0
  /\ served' = (served + 1) % N_OF_LEVELS
  /\ passes' = Runs(served')
  /\ task' = [p \in Tasks |->
                IF task[p] = Aside(served) THEN Aside(served') ELSE task[p]]
  /\ UNCHANGED <<serving, used>>

Next ==
  \/ BeginPass \/ BeginIdlePass \/ Use \/ EndPass \/ Switch
  \/ \E p \in Tasks :
       \/ Dispatch(p) \/ Demote(p) \/ Block(p) \/ Exit(p)
       \/ \E l \in 0 .. N_OF_LEVELS - 1 : Return(p, l)

Spec == Init /\ [][Next]_life
=============================================================================
