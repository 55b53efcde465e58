# Scheduler and virtual memory simulator: a TLA+ development

The repository holds two programs for Linux, written in C:

* **T1** (`src/T1`): an interpreter that reads `exec` lines, forks a child for
  each, and schedules the children with a multilevel feedback policy, stopping
  and continuing them with signals. It has real concurrency: a main thread, a
  detached thread for each process blocked for I/O, a signal handler, and the
  children.
* **T2** (`src/T2`): a simulator of virtual memory that runs a log of accesses
  against a page table under NRU, LRU or OPT. It is sequential, except for
  SIGINT.

## 1. Inventory

| Part | State | Operations | Interacts by | What makes it correct |
|---|---|---|---|---|
| T1 scheduler, main (`main.c`) | `proc_queues`, `aux_queue`, `current_proc`, `current_queue`, `processes_count`, `quantum_timer`, each process's `age` | the passes over the queues, a turn (fetch, SIGCONT, busy wait, SIGSTOP, verdict), merge, switch of queues | shared variables under the semaphore; signals to the children | mutual exclusion, no process lost, levels and quanta by the rules, no starvation, an end that leaves nothing behind |
| T1 I/O threads (`io_thread_handler`) | one `procpack` each, `io_threads` | sleep, insert the process, end | queues and `current_queue` under the semaphore | each blocked process comes back once, to the level it was given |
| T1 SIGUSR1 handler | `quantum_timer`, `age` | charge one tick to `current_proc` | asynchronous, also inside the critical regions | the tick is charged to the child that sent it |
| T1 children (`prog.c`) | seconds done | `sleep(1)`, SIGUSR1 | signals | one tick for each second of each ray |
| T1 semaphore library | one System V semaphore | create, init, enter, exit, destroy | `semop` | blocking until free |
| T1 queue module (`queue.c`) | linked nodes from `ini` to `end` | create, insert (refusing duplicates), remove, transfer of some or all, destroy | called by main and the I/O threads, one link per node | the pointers spell the queue the callers put together; every loop ends |
| T1 start (`main` before the loop, `init_interpreter`) | the children, the semaphore and the first queue | create, initialise, parse, fork, stop, insert; any of them may fail | before the scheduler starts | as many stopped children as queued processes, whatever fails; the scheduler starts where it expects to |
| T1 dumps (`dump_queues`) | a queue of its own | take each queue apart, print it and put it back | inside the critical region, through the queue module | leaves the queues as they were |
| T2 simulator (`sim.c`) | page table, counters, `accesses`, `fp` | one access: hit, fault, eviction; reset of R flags; the endings | file, SIGINT | evictions by the algorithm's definition, write-backs counted, one close and one free |
| T2 page flags (`page.c`) | three bits | get and set | called by `sim.c` | independent flags |
| T2 hourglass (`hourglass.c`) | begin/end clock, running or not | begin, stop, hours, minutes, seconds | called by `sim.c` | elapsed time of the last interval |
| T2 utilities, tests, build | | | | |

The hard behaviours are those of T1: the ticks are asynchronous and may come at
any time; signals coalesce; main reads `processes_count` and `io_threads`
outside of the critical regions; an I/O thread compares its queue with
`current_queue` while main is between the merge of one queue and the switch to
the next; and a signal may interrupt `semop`. At the start a call can fail half
way, and a child that was not forked, or died, is still waited for.
`PROJECT.json` lists each hazard with its line.

## 2. Plan

1. `SchedPolicy`, `QueueOps`, `Scheduler`: the scheduler with its threads, the
   handler and the children. *Done.*
2. `SchedulerProps`, `MCScheduler`, the runs `late` and `early`. *Done.*
3. `SchedulerProofs`: safety of the scheduler for every instance. *Done.*
4. `PageSim`, `PageSimProps`: the simulator. *Done.*
5. `TaskLife`: what the scheduler promises of its processes, with `Scheduler`
   shown to implement it, as a property of a run and as a theorem. *Done.*
6. `LinkedQueue`, `Dumps`: the nodes and pointers of `queue.c`, and the dump
   that takes the queues apart; proof that they stay queues, that the calls
   deliver what `QueueOps` says, and that a dump leaves no trace (`DumpsProofs`).
   *Done.*
7. `Startup`: the start with its failures, handing over to the scheduler. *Done,
   with proofs.*
8. `TimingProofs`: the properties about time, for ticks that are not late. *Done.*
9. `PageSimProofs`: the simulator, with the optimality of OPT. *Done.*
10. Left: the stopwatch of T2, which shares no state with the rest.

## 3. Modules

```
 TaskLife <-- INSTANCE -- SchedulerProps
 SchedPolicy, QueueOps <- Scheduler <- SchedulerProps <- MCScheduler   runs
                                             ^
                                             +- Startup <- StartupProps <- MCStartup
                                             |
 QueueOps <- INSTANCE - LinkedQueue <- LinkedQueueProps <- Dumps <- MCQueue
                                             |         ^       ^
 PageSim <- PageSimProps (runs)              |         |       +- DumpsProofs
                  ^                          |         |               |
                  +- PageSimProofs           |         +- LinkedQueueProofs
                                             |
                                             +- SchedulerProofs <- TimingProofs <- TaskLifeProofs
                                                         ^
                                                         +-------- StartupProofs
 DataFacts <- SchedulerProofs, LinkedQueueProofs, PageSimProofs
```

`A <- B` means that B EXTENDS A.

### SchedPolicy
The pure functions of `main.c`, under their own names. `RayEnds(rays)[k]` is
the value of `sum` after the k-th turn of the loops of `get_ray_sum` and
`get_next_ray_age`; it is a recursive function and not a RECURSIVE operator, so
that the proofs can use the module. `PowersAssumption` says that `1 << id` is
positive for the queues there are: a fact of arithmetic TLC evaluates, which
is assumed because the provers know `^` for literals only.

### QueueOps
`queue.c` seen as sequences, for the scheduler: `qhead_ins` refuses a node that
is there, `AfterRm` is what `qhead_rm` leaves, `qhead_transfer` with
`QFLAG_TRANSFER_ALL` appends the nodes of the source and drops those the
destination has. That the linked nodes do this is what `LinkedQueue` shows.

### Scheduler
Processes are `1 .. Len(Commands)`; the pid, the node and the struct of a
process are one value. `pc` is where main is:

| `pc` | `main.c` |
|---|---|
| `loop` | 133-135, the tests of the main loop |
| `switch`, `switch_cr` | 378-385, `set_current_queue` |
| `take` | 371-372 |
| `fetch`, `fetch_cr` | 156-168 |
| `resume` | 175-181 |
| `aim` | 182 |
| `wait` | 183, the busy wait |
| `judge`, `judge_cr` | 190-192 |
| `judge_end`, `judge_io` | 194-209 |
| `merge`, `merge_cr` | 255-260 |
| `done`, `exited` | 271-277; the `exit(0)` of tests that should not fire (211-247, 458-462) |
| `no_memory` | 409, the `exit(0)` of `pack_current_process` |

A place such as `fetch` is before its `sem_enter_cr`, and `fetch_cr` is in the
region. The tests of the verdict on `age` are steps of their own (`RayEnded`,
`Terminate` or `RayLeft`, `BlockOnIO`), since the handler can change `age` and
`quantum_timer` between them. Otherwise a region's body is one step, its last:
all that it reads or writes besides is touched by other threads only inside of
their own regions, which is what `MutualExclusion` says, and that invariant
does not depend on the bodies being single steps: the steps that enter and that
leave are separate, with any step of another thread in between. What main reads
outside of its regions (`processes_count`, `io_threads`, `current_queue`) it
reads in steps of their own.

`queues`, `aux_queue` are sequences; `io[p]` and `pack[p]` are the state of the
I/O thread of p and the queue its procpack names; `freed` holds the processes
`exit_handler` has destroyed; `ub` says that the handler has used a node that
was not there or was freed, after which the model stops.

`Faults` says which calls may fail (`FaultKinds`); two of them concern the
scheduler itself. With `"malloc"` main may exit for want of memory in the middle
of its region (`PackFails`). With `"thread"` a `pthread_create` may fail, whose
result nobody looks at: the process is counted as blocked, its `io` is
`not_created`, and it never comes back. The rays are not negative
(`CommandsAssumption`), although `scanf("%d")` would take them.

A child is two counters and a state: `running` (continued and not stopped),
`sent` (SIGUSR1s so far); its signals set `pending`, one flag, since SIGUSR1
does not queue. `TickTiming` is the one assumption about time:

* `"late"`: a running child's second may end at any time, so a tick may still
  be pending when its turn is over.
* `"early"`: only while main is in the busy wait and would stay there, or
  between SIGCONT and `get_next_ray_age`, from a child that was continued within
  a ray (it was stopped in its `sleep(1)`, and the sleep ran out meanwhile).
  This is the program on a machine that is not overloaded.
* `"settled"`: only in the busy wait (used by `v_level`, to show that its
  divergence has nothing to do with ticks, and by a theorem that shows that the
  one of `v_boundary` has).

`Spec` has a semaphore that always blocks. `InterruptibleSpec` adds that a
handled signal ends a blocked `semop` with an error nobody looks at.

### TaskLife
The abstract specification: levels served in turn, each for its `passes`; in a
pass every task that is `ready` at the level gets one turn (`Dispatch`), in which
it uses ticks of its quantum (`Use`) until it is demoted, blocks or exits.
`Demote` needs a full quantum. `Block` needs at least a tick, and fixes where the
task will come back: its own level after a full quantum, the next higher one
otherwise. A task that comes to the level being served is `aside` until the pass
ends; `EndPass` makes those ready at the level they are at and no other. `Switch`
goes to the next level and carries those aside with it: what the documents do
not say, since they ignore that a process may come back between the merge and
the switch (section 6, `v_level`). It is part of the specification because it is
what the code does; the documents' claim is `WaitingKeepsLevel`.

The refinement mapping is in `SchedulerProps`. `lives`: the state of a process is
the place it is at (aside is on `aux_queue`), its level the queue it is on, that
its I/O thread names, or that is being served. `served` and `passes` are
`current_queue` and `runs_left`, a pass is under way while main is in `InPass`,
and the ticks used are `quantum_timer` once the turn has set it.

### LinkedQueue, LinkedQueueProps
The heads, nodes and pointers of `queue.c`. A function with a loop takes one step
per turn: the scan for a duplicate (`ScanOn`, `Found`, `Link`, also inside of a
transfer), the transfer (`TransferOne`, `TransferDone`), the destruction
(`FreeNode`, `FreeHead`). The locals are variables while a call is under way.
`before` keeps what a transfer or a destruction found: contents, heads, nodes.
`content` is a history variable, the queue as a sequence; no guard reads it but
those of the callers' discipline: a node is inserted only where it is on no
*other* queue (`OffOtherQueues`: one link per node), destroyed only when loose,
and all of a queue is not transferred to itself (`WillEnd`: that never ends).
NULL arguments, refused quantities, duplicates and a failing malloc are steps
with their return codes; partial transfers and rotations are included.

### Dumps
`dump_queues`, statement by statement, as a caller of `LinkedQueue` that takes
turns with any other calls. That it keeps the callers' discipline is a property
(`LegalCaller`: the queue module's own `Spec` is implied), not a guard. When its
own queue cannot be created, which it does not look at, the dump is `undefined`
from there on (the pointer is no queue), and the model stops.
`DumpAssumption` names the heads there are, and that to transfer all is a quantity
the queue module is used with.

### Startup, StartupProps
`main` from its first line to the first pass, then `Scheduler` itself.
`boot` is where main is before `pc` matters. `Faults` names the calls that may
fail: `queues`, `semget`, `semctl`, `line` (a line that does not parse), `fork`,
`malloc` of the process or its node, which main returns from (`Fail`), or of the
rays, which it does not look at and dies of (`Crash`), `exec` (of the child), and
`slow`: a child that gets a second of CPU before the SIGSTOP after its fork, whose
SIGUSR1 then kills main; and `thread`, once scheduling. A fork that fails leaves pid -1, which the code takes for a child's:
the process is in `noPid`, `kill(-1, ...)` reaches every child (`Receivers`), and
`ResumeEveryone`, `PreemptEveryone` and `KillsEveryone` stand for the three
places of the scheduler that signal it. The semaphore may have any value an
earlier user of its key left. A child that dies sends no more ticks.

### PageSim
A log is a sequence of pages and kinds of access; the kind `X` stands for a
letter that is neither R nor W; `ending` says whether the text after the last
line is the end of the file or something that does not parse, or that the log
cannot be opened (`OpenFails`). `pflag`, `rflag`
and `mflag` are the sets of the pages with the flag. `alg_fault` is the set of
victims the algorithm may return: NRU draws one at random; LRU and OPT, whose
loops go over the table in order, return the lowest of equals. Main's line is
one step (`Hit`, `FaultWithSpace`, `FaultWithVictim` or `BadLine`), including
`ALG_UPDATE`. `fp`, `page_table` and `alg_data` (the malloc of `nru_init` or
`opt_init`) are `null`, open or allocated, closed or freed; `misused` records
an `fclose` of what is not open or a `free` of what is freed.
`safe_fatal_error(handle)` takes the state of the file at the call, because
`get_accesses_count` calls it after its own `fclose`. `malloc` is taken to
succeed; the file does not change between OPT's two passes.

## 4. Runs

| Run | Instance | States | What it asks |
|---|---|---|---|
| `late` | 2 queues, 3 processes: rays (1,1), (4), (1,1); ticks at any time; malloc and `pthread_create` may fail | 1,155,779 | the invariants that hold whatever the timing |
| `early` | 3 queues, 4 processes: (1,2), (8), (2,1,1), (0,3); fairness | 13,236 | time and quanta; the refinement of `TaskLife`; termination and no starvation |
| `queue` | 2 priority queues, the auxiliary and the dump's queue, 3 nodes; quantities all, 0 and 2; malloc may fail; fairness | 37,369 | pointers, transfers, destruction, dumps |
| `startup` | 2 queues, 3 lines: (1,1), (2), (1,1); all faults; early ticks; fairness | 14,763 | what a failure leaves behind, and what the scheduler keeps |
| `opt` | logs of up to 7 reads of 4 pages, 2 in memory | 517,001 | OPT against the optimum over all choices of victims |
| `nru_lru` | logs of up to 5 lines, 3 pages, 2 in memory, reads, writes and bad letters, both endings, resets every 3 accesses | 1.6 million | NRU's and LRU's evictions, write-backs, endings |
| `v_eintr`, `v_boundary`, `v_level`, `v_killed` | as the scheduler's, 3 or 4 processes | | disagreements of section 6 |
| `v_interrupt`, `v_optfile` | as `nru_lru`, 3 lines | | disagreements of section 6 |

**The scheduler.** `MutualExclusion`: one thread in the regions. `OnePlace`: each
process is on exactly one queue, or in main's hand, or in its I/O thread, or
gone. `CountersAgree`: the two counters main decides by are what they count.
`NeverAborts`: the tests that should not fire do not, also when threads could
not be created (the exit for want of memory is another place). `OneRunning`: only the child of
the turn is not stopped. `DoneIsClean`: nothing is in use when main destroys it.
`TicksAttributed`, `KilledOnlyWhenFinished`, `QuantumRespected`: what is charged
to whom. `OnlyFirstTickPasses`: a turn goes past at most the end of a ray its
first tick reaches (the documents' stronger `RayEndIsNextBoundary` fails in
`v_boundary`, and is a theorem under `"settled"`); `BlockedAtRayEnd`. `ImplementsTaskLife`: who
runs, for how long, and on which level it waits afterwards, all by the rules of
`TaskLife`: a merge into another queue, a wrong queue after I/O or a demotion
before the quantum is up violates it. `Termination`, `NoStarvation`: liveness.

**The queue module.** `Represents`: following `next` from `ini` gives the
queue's nodes, once each, in order and up to `end`, none of them freed, and a
loose node leads nowhere. `TransferDelivers`: what a partial, a whole and a
self-transfer leave, the whole one agreeing with `QueueOps`.
`DestroyFreesQueue`: the step that returns from a destruction leaves just the
nodes that were not on the queue, all heads but its own, and the queue empty. `Returns`:
no loop goes round for ever. `DumpRestores`, `LegalCaller`, `DumpEnds`: a dump
leaves no trace, keeps to the discipline, and ends.

**The start.** `QueueFollowsLines`: the first queue and the counter follow the
lines. `NoneUnsupervised`: no child runs before the scheduler but the last one
between its fork and its SIGSTOP, also after a failure. `HandOver`: the scheduler
starts in a state of `Scheduler`'s `Init`. `SafeAfterFaults`: mutual exclusion,
one place, counters and error exits survive lost children; one child at a time
only if every fork succeeded. `EndsUnlessLost`: the program ends, or has lost a
child or a thread.

**The simulator's properties** are stated on the log and not on the fields the
algorithms keep: `LRUStack` says which pages are resident, `NRUEvictsLowest`
recomputes the reference classes from the accesses since the last reset,
`OptIsOptimal` compares with the least cost over all choices of victims
(`FewestFaults`), which `NoneBeatsOptimum` says is a bound for the others,
`WritesAccounted` bounds the write-backs by what the log wrote from both sides,
`MemoryFull` and `CleanExit` close the accounts. `TypeOK` also carries that
only resident pages are referenced or modified.

**Bounds.** `SMALLEST_QUANTUM = 1` and, in `early`, `N_OF_QUEUES = 3` are the
program's. `late` and `startup` have two queues: a first and a last one, so that
a process can be demoted, promoted, and stay on the last queue through
`aux_queue`, all within four ticks; with three queues that takes eight, and `late`
has five million states. The four processes of `early` are demoted to the last
queue and stay there through `aux_queue` (8), end a ray on the same tick as a
quantum, have a ray of length 0, are promoted, and are all blocked at once. Ages
are bounded by the rays. One failing `pthread_create` or three, and
the exit for want of memory at each of them, are among the behaviours of `late`.
Three processes suffice for its interleavings: main and two I/O threads contend for the semaphore, in any order, while
the third process is on a queue or on the CPU. In `startup` three lines let a
failure come before, at and after a line whose child exists, and let one process
have no pid among two that have. In `queue`, three nodes give a queue a first, a
middle and a last node, and a transfer of two of them a remainder; a third
priority queue would add no new pair of queues. In `opt`, two of four pages make
each fault a choice and leave pages that are never used again; seven lines are
enough for a wrong choice to cost a fault later. In `nru_lru`, five lines cover
two resets with a fault after each, a page written, evicted and written again.
No run replaces a definition, and there is no state constraint.

**Deadlock** is checked except in `late`, `startup` and the violations about the
scheduler, where the system may really stop: once a tick has been merged with
another or charged to another process, or its child has died, main waits forever
for an age to grow.

**Fairness.** `FairSpec` of `Scheduler`: main, the handler, each child and each
I/O thread keep running if they can (weak fairness: they are threads of a
preemptive kernel; a running child's `sleep(1)` ends). Entering the region is
strongly fair, for main and for each thread: the kernel serves the tasks blocked
in `semop` on one semaphore in the order of their arrival. Nothing is assumed of
how often main goes round. `BootFairness` of `Startup` is the same, with main's
steps before the scheduler and the children's `execv`; no fault is fair, and
none is unfair. `FairDumpSpec`: a function that was called goes on; nothing is
assumed of the callers. Liveness of the scheduler is checked under `"early"`;
under `"late"` it does not hold, as the hang above shows.

**Mutants.** Every property has a mutated definition, next to the one it
changes (`Mutant_...`), with a bug the code could have: a dropped wait, a
forgotten SIGSTOP, a count that is missed, an `end` not moved, a loop that stops
one turn early or late. No definition uses them.

## 5. Proofs

The theorems hold for every value of the constants that satisfies the named
assumptions. Two of these carry content: `SizeAssumption` (the table is larger
than memory, which holds at least one page; resets come every one or more
accesses) and `PowersAssumption` (see `SchedPolicy`).

**The scheduler** (`SchedulerProofs`). For any commands, any number of queues, any
smallest quantum and any timing of ticks `Spec` implies, always: `TypeOK`,
`MutualExclusion`, `OnePlace`, `CountersAgree`, `NeverAborts`, `OneRunning` and
`DoneIsClean`. None of these is inductive alone. `IInv` is their conjunction with
three more facts:

* `SemaphoreInv`: the semaphore is 0 or 1, and at 1 no thread is in its region.
  Mutual exclusion follows step by step from this.
* `TurnInv`: while main goes on with a turn, `current_proc` is a process.
* `DoneInv`: main is done only when no process is left.

The conjuncts lean on each other. The merge appends `aux_queue` to a queue
without dropping a node only because they have none in common (`OnePlace`); a
process is demoted or comes back without a duplicate because main, or its
thread, is its one place (`OnePlace` again), which gives `NeverAborts`; the
crash-proof test does not fire because the blocked processes are not freed and
the one to be blocked is neither (`CountersAgree` and `OnePlace`); and
`DoneIsClean` follows when all are freed, since then every other place is empty.
The layout is one lemma per conjunct (`TypeStep`, `OnePlaceStep`,
`SemaphoreStep`, ...) with one step per action.

**Time** (`TimingProofs`, under `TickTiming # "late"`): `TicksAttributed`,
`KilledOnlyWhenFinished`, `QuantumRespected`, `BlockedAtRayEnd` and
`OnlyFirstTickPasses`. The inductive invariant is `TimingInv`. `PendingInv` says
where a tick may be pending, so that the handler finds the process that sent it
and main cannot leave the busy wait over it; `AimInv` says that a turn was
charged at most one tick when it takes aim, that it aims at an end of a ray, and
that it does not go past it; `VerdictInv` carries the result of the test of the
age to the steps that act on it; `SentInv` bounds what a child sends. The facts
about rays are at the top of `SchedulerProofs`: that the recursive function `RayEnds` is the sum
it is meant to be, that it grows, that the last end is `get_ray_sum`, and what
`get_next_ray_age` returns. They are inductions over the rays, done by the least
counterexample (`Least` in `DataFacts`), because the library's induction theorems
take an operator as a parameter. `RayEndIsNextBoundary` is a theorem for
`TickTiming = "settled"`: `SettledInv` adds that main aims before the first tick
of the turn, so that the end it aims at is the first beyond where the turn began.

**The refinement** (`TaskLifeProofs`, under `TickTiming # "late"`):
`Spec => ImplementsTaskLife`. With late ticks it is false: a
turn may be charged more ticks than its quantum has. `LifeByPlace` turns `OnePlace` into:
the life of a process is that of the place it is at. Then a step that moves no
process is a stutter, or begins a pass (`TakeBegins`, `IdleBegins`), or uses a tick
(`SignalUses`); a step that moves one is the action of `TaskLife` named in its
lemma (`FetchDispatches`, `DemoteDemotes`, `BlockBlocks`, `TerminateExits`,
`IOReturnReturns`); the merge is an `EndPass` (`MergeEndsPass`), which needs that
main's local `queue` is the one being served (`QueueInv`) and that it is empty by
then (`PassInv`); and the switch is a `Switch` (`SwitchSwitches`). That the verdict
finds what `Demote` and `Block` ask for (`VerdictFinds`) is `TurnEndInv`, which
says that the busy wait was left with the turn over, and that the turn began
before the age it aims at; with the invariant about time it follows how many
ticks a turn used (`TurnTicks`). This is why
the proof extends `TimingProofs`.

**The queue module** (`LinkedQueueProofs`): `Spec => []Represents`, for any heads,
nodes and quantities. `IInv` adds to it `FrameInv`, what a call under way knows of
its arguments, and `ScanInv`: the cursor of the scan is at some position of the
queue, and the node is not before it. Without the latter, the scan could end at
NULL having missed the duplicate. Two more theorems say what the calls do.

* `TransferDelivers` needs `TransferInv`: the two queues are what they were after
  `MovedSoFar` moves (`QueuesAfter`), counted by how far `qtd` has come down; and
  in the middle of a move, when the node is on neither queue, the destination
  with that node appended is what it will be. The scan cannot refuse the node,
  since the queues have none in common and the node is loose. `TailOfConcat`
  and `AppendToConcat` of `DataFacts` are the steps on sequences, `NextModulo` the
  turn of a rotation that goes round.
* `DestroyFreesQueue` needs `DestroyInv`: the nodes there are, are those found
  less the ones of the queue that have left it, and no head is gone yet.

**The dump** (`DumpsProofs`): `LegalCaller`, `DumpRestores` and that the error exit
is never taken, for any number of queues. A dump's insertion keeps the discipline
only if the node in hand is on no queue: `DumpInv` says that the queue being dumped is in two parts whose
concatenation is what was found (`Parted`), with the node in hand between them
(`InHand`), and that the other queues are as they were. Its steps in the queue
module use the lemmas of `LinkedQueueProofs`, which are about one step and not
about `Spec`.

**The start** (`StartupProofs`): `QueueFollowsLines`, `NoneUnsupervised`,
`HandOver` and `SafeAfterFaults`, for any commands and choice of faults, from
`BootInv`: nothing the start does not touch has changed (`Fresh`), the semaphore
is 1 once set, and once scheduling the scheduler's invariant without `OneRunning`
holds, which a process without a pid breaks. The scheduler's own lemmas are used
for its steps; only those that signal everyone are new.

**The simulator** (`PageSimProofs`): `TypeOK`, `MemoryFull`, `WritesAccounted`,
`LRUStack`, `NRUEvictsLowest` for any table, memory, algorithms and logs, and
`CleanExit` for logs that open and, under OPT, are well formed. `AccessStep`
says once what a hit and the two kinds of fault do (`Evicting(out)`), and
`VictimsPresent` that there is a victim and what it is. `MemoryInv` adds to
`MemoryFull` that resident pages were met: a fault with free space is then on a
page never met. `WritesInv` adds that modified pages were written: a page
written for the first time is then new on both sides of the account.
`RecencyInv` ties `info` to the log and says that what is not resident was used
before all that is; no two pages were last used by one access (`LastUseOnce`), so
the victim is strictly the oldest. `ReferencedInv` ties the R flags to the
accesses since the last reset; `ResetStep` is the arithmetic of the reset.

`OptIsOptimal` and `NoneBeatsOptimum` rest on `OptInv`: with `FaultsToCome` the
fewest faults the rest of the log costs what is in memory now, OPT keeps
`faults_cnt + FaultsToCome` equal to `FewestFaults`, and the others never let it
fall below; `PrereadInv` adds that what OPT has read ahead is the log. That an
access with a victim keeps the sum under OPT is an exchange argument in two
steps, both by induction from the last line back. `OneMore`: to have a page in
the place of another saves at most one fault. `SoonerIsBetter`: to have it in
the place of one that is never used before it costs none. `VictimIsLast` says
that the page OPT evicts is of the second kind, whatever other page it could
have evicted. The inductions are by the least counterexample again, on the
number of lines left, and `FewestDef` proves that the recursive function they
are about exists.

Model-checked only: liveness (`Termination`, `NoStarvation`, `Returns`,
`DumpEnds`, `EndsUnlessLost`: temporal proofs under fairness are out of the
prover's reach). Every other property of a run that passes is a theorem, those
about time and `ImplementsTaskLife` for ticks that are not late. The
theorems are about specifications in which `semop` is not interrupted: with
`InterruptibleSpec` mutual exclusion is lost, and the rest with it.

## 6. Where code and documents disagree

* `v_eintr`: a tick that interrupts `semop` lets the thread into the region
  without the semaphore (`semlib.c:40`); its `sem_exit_cr` then raises the
  semaphore above 1.
* `v_boundary`: `ray_end` is computed after SIGCONT (`main.c:181-182`), so an
  early tick can step over the end of a ray and the I/O after it.
* `v_level`: a process that comes back between the merge and the switch is put
  on `aux_queue` and merged into the next queue (`main.c:483`, `369`).
* `v_killed`: a late tick is charged to whoever is next (`main.c:424`), who is
  then killed too early.
* `v_interrupt`: SIGINT before `fopen` or after `fclose` (`sim.c:389`).
* `v_optfile`: OPT closes a malformed log twice (`sim.c:424`, `389`).

`OpenFails` of `PageSim` shows one more: a log that cannot be opened leaves `fp`
null, and the error exit passes it to `fclose` (`sim.c:146`, `389`); with
`"nofile"` among its `Endings`, `CleanExit` fails at the second step.

The run `startup` and its theorem show that the safety of the scheduler does not
depend on the children, but also what is lost: after a failed `fork` (pid -1,
`main.c:644`) every child runs in the turn of that process, and a child that
fails to execute or dies is waited for for ever (`main.c:183`).

Seen while reading, and not modelled: the error messages of `sim.c:213` and
`392` print `time+1`, the address of the library's `time` function and not a
line number (`tcounter` is the counter); `sim.c:21` calls 0x1000 cycles 1K;
`get_updated_queue` (`main.c:357-373`) spends the remaining runs of a queue on
it even when it is empty, where `algorithm2.txt:84-87` leaves an empty queue at
once.

## 7. Not modelled

* The text of a line: it is parsed to its command or to an error. The arrays of
  16 rays and arguments that nothing bounds (`main.c:633`) are not modelled.
* What becomes of the stopped children when main returns after a failure: they
  are orphans, which no code continues or kills. A child whose `execv` fails
  shares main's unread stdin; its exit may move main's place in it.
* SIGSTOP sent by `kill(-1, ...)` reaching other processes of the user, such as
  the terminal's.
* Rays with a negative length, which `scanf("%d")` reads (`main.c:627`, `635`) and
  `prog.c` does not run; a `strdup` that fails (`main.c:679`), whose null name is
  only printed.
* What an optimising build makes of the busy wait over plain globals
  (`main.c:183`), and increments inside the handler that are not atomic when a
  thread other than main runs it: TLA+ variables are always fresh.
* T2: `malloc` that fails; a log that changes between OPT's two passes
  (`sim.c:333`); the validation of the arguments; the debug mode; the layout of
  the statistics.
* The hourglass of T2: `sim.c` begins it once and stops it in the statistics,
  where a second stop does nothing; it shares no state with the simulation.
* Printing, in both programs. The tests, the design notes and the build files
  are not part of the programs; they were read for what they expect.
