--------------------------- MODULE TaskLifeProofs ---------------------------
(***************************************************************************)
(* Proof that the scheduler implements TaskLife, for every list of         *)
(* commands and number of queues, when ticks are not late.                 *)
(***************************************************************************)
EXTENDS TimingProofs

(* The life of a process by the place it is at.                            *)
LifeAt(p, x) ==
  IF x = GONE THEN Life!Gone
  ELSE IF x = IN_IO THEN Life!Blocked(pack[p])
  ELSE IF x = ON_CPU THEN Life!Running(current_queue)
  ELSE IF x = AUX_ID THEN Life!Aside(current_queue)
  ELSE Life!Ready(x)

(* main's local queue is the queue being served wherever main uses it.     *)
(* `queue' has no value of its own before the first TakeRun; then every    *)
(* process is on a queue, so that no pass is idle.                         *)
NotServing == {"switch", "switch_cr", "take", "done", "exited"}

QueueInv ==
  /\ pc \notin NotServing \cup {"loop"} => queue = current_queue
  /\ pc = "loop" => queue = current_queue \/ Blocked = {}

(* The runs are counted down to 0, and the pass goes over a queue until it *)
(* is empty.                                                               *)
PassInv ==
  /\ runs_left \in Nat
  /\ pc \in {"switch", "switch_cr"} => runs_left = 0
  /\ pc = "take" => runs_left > 0
  /\ pc \in {"merge", "merge_cr"} => queues[queue] = <<>>

(* Main leaves the busy wait when the turn is over, and nothing happens to *)
(* the turn between the wait and the verdict.  The turn began before the   *)
(* age it aims at, but for a process that had no time left.                *)
TurnEndInv ==
  /\ pc \in {"judge", "judge_cr"} => ~Waiting
  /\ InTurn => \/ age[current_proc] - quantum_timer < ray_end
               \/ ray_end = get_ray_sum(rays)

LifeInv == QueueInv /\ PassInv /\ TurnEndInv

-----------------------------------------------------------------------------
(* Every step keeps main's local queue the one being served.               *)
LEMMA QueueInvStep ==
  ASSUME TypeOK, CountersAgree, QueueInv, [Next]_vars
  PROVE  QueueInv'
<1> USE DEF policyVars, queueVars, ioVars, timeVars, childVars, exitVars,
            localVars, NotServing
<1>1. ASSUME UNCHANGED <<queue, current_queue>>,
             pc \notin NotServing \cup {"loop"}
      PROVE  QueueInv'
  BY <1>1 DEF QueueInv
<1>2. ASSUME UNCHANGED <<queue, current_queue>>,
             pc' \in NotServing
      PROVE  QueueInv'
  BY <1>2 DEF QueueInv
<1>3. CASE IdlePass
  <2>1. io_threads > 0 /\ io_threads = Cardinality(Blocked)
    BY <1>3 DEF IdlePass, AllDone, CountersAgree, TypeOK
  <2>2. Cardinality({}) = 0
    BY FS_EmptySet
  <2>3. Blocked # {}
    BY <2>1, <2>2
  <2> QED
    BY <1>3, <2>3 DEF IdlePass, QueueInv
<1>4. CASE Finish \/ StartPass
  BY <1>2, <1>4 DEF Finish, StartPass
<1>5. CASE SwitchQueue
  BY <1>5 DEF SwitchQueue, QueueInv
<1>6. CASE TakeRun
  BY <1>6 DEF TakeRun, QueueInv
<1>7. CASE MainEnter
  BY <1>7 DEF MainEnter, Region, AtSemaphore, QueueInv
<1>8. CASE MergeAux \/ FetchNext \/ QueueDrained \/ Resume \/ Aim \/ Preempt
  BY <1>1, <1>8 DEF MergeAux, FetchNext, QueueDrained, Resume, Aim, Preempt
<1>9. CASE RayEnded \/ Demote \/ Terminate \/ RayLeft \/ PackFails \/ BlockOnIO
  BY <1>1, <1>9 DEF RayEnded, Demote, Terminate, RayLeft, PackFails, BlockOnIO
<1>10. ASSUME UNCHANGED <<queue, current_queue, pc>>,
              Blocked = {} => Blocked' = {}
       PROVE  QueueInv'
  BY <1>10 DEF QueueInv
<1>11. ASSUME NEW p \in Procs, IOStep(p) PROVE QueueInv'
  <2>1. Blocked # {}
    BY <1>11 DEF IOStep, IOWake, IOEnter, IOReturn, Blocked
  <2> QED
    BY <1>10, <1>11, <2>1 DEF IOStep, IOWake, IOEnter, IOReturn
<1>12. ASSUME NEW p \in Procs, Tick(p) PROVE QueueInv'
  BY <1>10, <1>12 DEF Tick, Blocked
<1>13. CASE HandleSignal \/ UNCHANGED vars
  BY <1>10, <1>13 DEF HandleSignal, Blocked, vars
<1> QED
  BY <1>3, <1>4, <1>5, <1>6, <1>7, <1>8, <1>9, <1>11, <1>12, <1>13
     DEF Next, Step, MainStep, Halted

(* Every step keeps the count of the runs.                                 *)
LEMMA PassInvStep ==
  ASSUME TypeOK, QueueInv, PassInv, [Next]_vars
  PROVE  PassInv'
<1> USE DEF policyVars, queueVars, ioVars, timeVars, childVars, exitVars,
            localVars
<1>1. ASSUME UNCHANGED <<runs_left, queues, queue>>,
             pc' \in {"switch", "switch_cr"} => pc \in {"switch", "switch_cr"},
             pc' = "take" => pc = "take",
             pc' \in {"merge", "merge_cr"} => pc \in {"merge", "merge_cr"}
      PROVE  PassInv'
  BY <1>1 DEF PassInv
<1>2. ASSUME UNCHANGED runs_left,
             pc' \notin {"switch", "switch_cr", "take", "merge", "merge_cr"}
      PROVE  PassInv'
  BY <1>2 DEF PassInv
<1>3. CASE MainEnter
  BY <1>1, <1>3 DEF MainEnter, Region, AtSemaphore
<1>4. CASE StartPass
  BY <1>4 DEF StartPass, PassInv
<1>5. CASE Finish \/ IdlePass
  BY <1>2, <1>5 DEF Finish, IdlePass
<1>6. CASE SwitchQueue
  <2>1. PICK id \in QueueIds : id = current_queue'
    BY <1>6, PolicyType DEF TypeOK, SwitchQueue, NextQueue
  <2>2. get_queue_runs(id) \in Nat \ {0}
    <3>1. N_OF_QUEUES - id - 1 \in QueueIds
      BY QueueAssumption DEF QueueIds
    <3> QED
      BY <3>1, PowersAssumption DEF get_queue_runs
  <2>3. runs_left' = get_queue_runs(id) /\ pc' = "take"
    BY <1>6, <2>1 DEF SwitchQueue
  <2> QED
    BY <2>2, <2>3 DEF PassInv
<1>7. CASE TakeRun
  BY <1>7 DEF TakeRun, PassInv
<1>8. CASE QueueDrained
  BY <1>8 DEF QueueDrained, PassInv
<1>9. CASE \/ MergeAux \/ FetchNext \/ Resume \/ Aim \/ Preempt \/ RayEnded
           \/ Terminate \/ RayLeft \/ PackFails \/ BlockOnIO \/ Demote
  BY <1>2, <1>9
     DEF MergeAux, FetchNext, Resume, Aim, Preempt, RayEnded, Terminate,
         RayLeft, PackFails, BlockOnIO, Demote
<1>10. ASSUME NEW p \in Procs, IOReturn(p) PROVE PassInv'
  <2>1. UNCHANGED <<runs_left, queue, current_queue, pc>>
    BY <1>10 DEF IOReturn
  <2>2. ASSUME pc \in {"merge", "merge_cr"} PROVE queues'[queue] = queues[queue]
    <3>1. queue = current_queue
      BY <2>2 DEF QueueInv, NotServing
    <3>2. \/ queues' = queues
          \/ /\ pack[p] # queue
             /\ queues' = [queues EXCEPT ![pack[p]] = qhead_ins(@, p)]
      BY <1>10, <3>1 DEF IOReturn
    <3> QED
      BY <3>2 DEF TypeOK
  <2> QED
    BY <2>1, <2>2 DEF PassInv
<1>11. ASSUME NEW p \in Procs, IOWake(p) \/ IOEnter(p) \/ Tick(p) PROVE PassInv'
  BY <1>1, <1>11 DEF IOWake, IOEnter, Tick
<1>12. CASE HandleSignal \/ UNCHANGED vars
  BY <1>1, <1>12 DEF HandleSignal, vars
<1> QED
  BY <1>3, <1>4, <1>5, <1>6, <1>7, <1>8, <1>9, <1>10, <1>11, <1>12
     DEF Next, Step, MainStep, IOStep, Halted

(* Every step keeps the turn the one that was aimed.                       *)
LEMMA TurnEndStep ==
  ASSUME IInv, TickTiming # "late", TimingInv, TurnEndInv, [Next]_vars
  PROVE  TurnEndInv'
<1> USE DEF policyVars, queueVars, ioVars, timeVars, childVars, exitVars,
            localVars
<1>1. TypeOK /\ TicksAttributed /\ PendingInv /\ SentInv
  BY DEF IInv, TimingInv
<1>2. ASSUME UNCHANGED <<quantum_timer, age, current_proc, ray_end>>,
             InTurn' => InTurn, pc' \in {"judge", "judge_cr"} => ~Waiting'
      PROVE  TurnEndInv'
  BY <1>2 DEF TurnEndInv, rays
<1>3. ASSUME Quiet PROVE TurnEndInv'
  <2>1. InTurn' => InTurn
    BY <1>3, PlaceNames DEF Quiet, InTurn
  <2>2. pc' \in {"judge", "judge_cr"} => pc \in {"judge", "judge_cr"} /\ queue' = queue
    BY <1>3, PlaceNames DEF Quiet
  <2>3. pc' \in {"judge", "judge_cr"} => ~Waiting'
    BY <1>3, <2>2 DEF Quiet, TurnEndInv, Waiting, quantum
  <2> QED
    BY <1>2, <1>3, <2>1, <2>3 DEF Quiet
<1>4. ASSUME FetchNext \/ Resume \/ Terminate \/ BlockOnIO PROVE TurnEndInv'
  BY <1>4 DEF FetchNext, Resume, Terminate, BlockOnIO, TurnEndInv, InTurn
<1>5. ASSUME Preempt PROVE TurnEndInv'
  BY <1>2, <1>5 DEF Preempt, InTurn, Waiting, quantum
<1>6. ASSUME NEW p \in Procs, Tick(p) PROVE TurnEndInv'
  <2>1. pc' \notin {"judge", "judge_cr"}
    BY <1>6, TickInTurn DEF Tick
  <2> QED
    BY <1>2, <1>6, <2>1 DEF Tick, InTurn
<1>7. ASSUME Aim PROVE TurnEndInv'
  <2>1. current_proc \in Procs
    BY <1>7, HeldFree, PlaceNames DEF Aim
  <2>2. PICK c \in Procs, a \in Nat, t \in Nat :
          c = current_proc /\ a = age[current_proc] /\ t = quantum_timer
    BY <1>1, <2>1 DEF TypeOK
  <2>3. a <= TotalTicks(c)
    BY <1>1, <2>2, AgeWithin
  <2>4. PICK goal \in Nat : goal = get_next_ray_age(Commands[c], a)
    BY NextAgeType
  <2>5. IF a >= get_ray_sum(Commands[c]) THEN goal = a ELSE goal > a
    BY <2>4, CommandType, NextRayAge
  <2>6. TotalTicks(c) = get_ray_sum(Commands[c]) /\ TotalTicks(c) \in Nat
    BY EndsOf
  <2>7. a - t < goal \/ goal = get_ray_sum(Commands[c])
    BY <2>3, <2>5, <2>6
  <2>8. /\ ray_end' = goal /\ pc' = "wait"
        /\ UNCHANGED <<quantum_timer, age, current_proc>>
    BY <1>7, <2>2, <2>4 DEF Aim, rays
  <2> QED
    BY <2>2, <2>7, <2>8 DEF TurnEndInv, rays
<1>8. ASSUME HandleSignal PROVE TurnEndInv'
  <2>1. /\ pc \in {"aim", "wait"} /\ current_proc \in Procs
        /\ quantum_timer' = quantum_timer + 1
        /\ age' = [age EXCEPT ![current_proc] = @ + 1]
        /\ UNCHANGED <<pc, ray_end, current_proc>>
    BY <1>1, <1>8, SignalInTurn
  <2>2. age'[current_proc] - quantum_timer' = age[current_proc] - quantum_timer
    <3>1. age[current_proc] \in Nat /\ quantum_timer \in Nat
      BY <1>1, <2>1 DEF TypeOK
    <3>2. age'[current_proc] = age[current_proc] + 1
      BY <1>1, <2>1 DEF TypeOK
    <3> QED
      BY <2>1, <3>1, <3>2
  <2> QED
    BY <2>1, <2>2 DEF TurnEndInv, InTurn, rays
<1> QED
  BY <1>1, <1>3, <1>4, <1>5, <1>6, <1>7, <1>8, StepKinds

-----------------------------------------------------------------------------
(* A process lives as its place says.                                      *)
LEMMA LifeByPlace ==
  TypeOK /\ OnePlace =>
    \A p \in Procs : \E x \in Places : At(p, x) /\ LifeOf(p) = LifeAt(p, x)
<1> SUFFICES ASSUME TypeOK, OnePlace, NEW p \in Procs
             PROVE  \E x \in Places : At(p, x) /\ LifeOf(p) = LifeAt(p, x)
  OBVIOUS
<1>1. PICK x \in Places : At(p, x) /\ \A y \in Places : At(p, y) => y = x
  BY DEF OnePlace, PlacedOnce
<1>2. /\ p \in freed <=> x = GONE
      /\ p \in Blocked <=> x = IN_IO
      /\ At(p, ON_CPU) <=> x = ON_CPU
      /\ \A id \in QueueIds : p \in Range(queues[id]) <=> id = x
  BY <1>1, PlaceIds DEF At, Blocked
<1>3. Level(p) = IF x = IN_IO THEN pack[p]
                 ELSE IF x \in QueueIds THEN x
                 ELSE current_queue
  BY <1>2, PlaceIds DEF Level
<1>4. LifeOf(p) = LifeAt(p, x)
  BY <1>1, <1>2, <1>3, PlaceIds
     DEF LifeOf, LifeAt, Life!Gone, Life!Blocked, Life!Running, Life!Aside,
         Life!Ready
<1> QED
  BY <1>1, <1>4

(* The same of the next state.                                             *)
LEMMA NextLifeByPlace ==
  (TypeOK /\ OnePlace)' =>
    \A p \in Procs : \E x \in Places :
      At(p, x)' /\ LifeOf(p)' = LifeAt(p, x)'
<1>1. (TypeOK /\ OnePlace)' =>
        (\A p \in Procs : \E x \in Places : At(p, x) /\ LifeOf(p) = LifeAt(p, x))'
  BY LifeByPlace, PTL
<1> QED
  BY <1>1 DEF Places, AUX_ID, ON_CPU, IN_IO, GONE

-----------------------------------------------------------------------------
(* The steps of the scheduler as steps of the lives.  Placed: what they    *)
(* all start from and come to.                                             *)
Placed == TypeOK /\ OnePlace

(* At a place there is but one life.                                       *)
LEMMA LifeThere ==
  ASSUME Placed, NEW p \in Procs, NEW x \in Places, At(p, x)
  PROVE  LifeOf(p) = LifeAt(p, x)
BY LifeByPlace DEF Placed, OnePlace, PlacedOnce

LEMMA NextLifeThere ==
  ASSUME Placed', NEW p \in Procs, NEW x \in Places, At(p, x)'
  PROVE  LifeOf(p)' = LifeAt(p, x)'
<1>1. PICK y \in Places : At(p, y)' /\ LifeOf(p)' = LifeAt(p, y)'
  BY NextLifeByPlace DEF Placed
<1>2. y = x
  BY <1>1 DEF Placed, OnePlace, PlacedOnce, Places, AUX_ID, ON_CPU, IN_IO, GONE
<1> QED
  BY <1>1, <1>2

(* A step that moves no process leaves the lives alone.                    *)
LEMMA LivesStay ==
  ASSUME Placed, Placed', Stays, UNCHANGED <<pack, current_queue>>
  PROVE  UNCHANGED lives
<1>1. ASSUME NEW p \in Procs PROVE LifeOf(p)' = LifeOf(p)
  <2>1. PICK x \in Places : At(p, x)
    BY DEF Placed, OnePlace, PlacedOnce
  <2>2. At(p, x)'
    BY <2>1 DEF Stays
  <2>3. LifeAt(p, x)' = LifeAt(p, x)
    BY DEF LifeAt, GONE, IN_IO, ON_CPU, AUX_ID, Life!Gone, Life!Blocked,
           Life!Running, Life!Aside, Life!Ready
  <2> QED
    BY <2>1, <2>2, <2>3, LifeThere, NextLifeThere
<1> QED
  BY <1>1 DEF lives

(* A step that moves one process changes its life to that of its new       *)
(* place.                                                                  *)
LEMMA LivesMove ==
  ASSUME Placed, Placed', NEW c \in Procs, NEW to \in Places, Moves(c, to),
         UNCHANGED current_queue,
         \A p \in Procs : p # c => pack'[p] = pack[p]
  PROVE  lives' = [lives EXCEPT ![c] = LifeAt(c, to)']
<1>1. ASSUME NEW p \in Procs, p # c PROVE LifeOf(p)' = LifeOf(p)
  <2>1. PICK x \in Places : At(p, x)
    BY DEF Placed, OnePlace, PlacedOnce
  <2>2. At(p, x)'
    BY <1>1, <2>1 DEF Moves
  <2>3. LifeAt(p, x)' = LifeAt(p, x)
    BY <1>1 DEF LifeAt, GONE, IN_IO, ON_CPU, AUX_ID, Life!Gone, Life!Blocked,
                Life!Running, Life!Aside, Life!Ready
  <2> QED
    BY <2>1, <2>2, <2>3, LifeThere, NextLifeThere
<1>2. LifeOf(c)' = LifeAt(c, to)'
  BY NextLifeThere DEF Moves
<1> QED
  BY <1>1, <1>2 DEF lives

(* While main holds no process the CPU is free, else the process runs.     *)
LEMMA NoneRunning ==
  ASSUME Placed, pc \notin Holding
  PROVE  Life!CpuIsFree
<1> SUFFICES ASSUME NEW p \in Procs, lives[p] = Life!Running(current_queue)
             PROVE  FALSE
  BY DEF Life!CpuIsFree
<1>1. PICK x \in Places : At(p, x)
  BY DEF Placed, OnePlace, PlacedOnce
<1>2. x # ON_CPU
  BY <1>1, PlaceIds DEF At
<1>3. lives[p] = LifeAt(p, x)
  BY <1>1, LifeThere DEF lives
<1> QED
  BY <1>2, <1>3 DEF LifeAt, Life!Gone, Life!Blocked, Life!Running, Life!Aside,
                    Life!Ready

LEMMA HolderRuns ==
  ASSUME Placed, TurnInv, pc \in Holding
  PROVE  /\ current_proc \in Procs
         /\ lives[current_proc] = Life!Running(current_queue)
         /\ ~Life!CpuIsFree
<1>1. PICK c \in Procs : c = current_proc
  BY DEF TurnInv
<1>2. At(c, ON_CPU) /\ ON_CPU \in Places
  BY <1>1, PlaceIds DEF At
<1>3. lives[c] = LifeAt(c, ON_CPU)
  BY <1>2, LifeThere DEF lives
<1>4. lives[c] = Life!Running(current_queue)
  BY <1>3, PlaceIds DEF LifeAt
<1> QED
  BY <1>1, <1>4 DEF Life!CpuIsFree

-----------------------------------------------------------------------------
(* The policy of the scheduler is that of the abstract specification.      *)
LEMMA Neighbours ==
  ASSUME NEW id \in QueueIds
  PROVE  /\ QueueIds = 0 .. N_OF_QUEUES - 1
         /\ get_lower_priority_queue_id(id) = Life!Lower(id)
         /\ get_higher_priority_queue_id(id) = Life!Higher(id)
         /\ get_queue_quantum(id) = Life!Quantum(id)
         /\ get_queue_runs(id) = Life!Runs(id)
<1>1. N_OF_QUEUES \in Nat \ {0} /\ id \in 0 .. N_OF_QUEUES - 1
  BY QueueAssumption DEF QueueIds
<1>2. get_lower_priority_queue_id(id) = Life!Lower(id)
  BY <1>1 DEF get_lower_priority_queue_id, Life!Lower
<1>3. get_higher_priority_queue_id(id) = Life!Higher(id)
  BY <1>1 DEF get_higher_priority_queue_id, Life!Higher
<1>4. get_queue_quantum(id) = Life!Quantum(id)
  BY DEF get_queue_quantum, power_of_two, Life!Quantum
<1>5. get_queue_runs(id) = Life!Runs(id)
  BY DEF get_queue_runs, power_of_two, Life!Runs
<1> QED
  BY <1>2, <1>3, <1>4, <1>5 DEF QueueIds

(* The ticks of a turn that has its timer set.                             *)
LEMMA TurnTicks ==
  ASSUME TypeOK, QueueInv, pc \in Holding \ {"resume"}
  PROVE  /\ usedTicks = quantum_timer
         /\ quantum = Life!Quantum(current_queue)
         /\ pc \in InPass
<1>1. PICK id \in QueueIds : id = current_queue /\ queue = id
  BY PlaceNames DEF QueueInv, NotServing, TypeOK
<1>2. quantum = Life!Quantum(current_queue)
  BY <1>1, Neighbours DEF quantum
<1> QED
  BY <1>2 DEF usedTicks, InPass

(* A verdict finds the turn over: by its aim, or by the quantum.           *)
LEMMA VerdictFinds ==
  ASSUME IInv, TimingInv, TurnEndInv
  PROVE  /\ pc = "judge_cr" => \/ age[current_proc] = ray_end
                               \/ quantum_timer = quantum
         /\ pc = "judge_io" => quantum_timer > 0
<1>1. SUFFICES ASSUME pc \in {"judge_cr", "judge_io"}
               PROVE  /\ pc = "judge_cr" => \/ age[current_proc] = ray_end
                                            \/ quantum_timer = quantum
                      /\ pc = "judge_io" => quantum_timer > 0
  OBVIOUS
<1>2. current_proc \in Procs /\ InTurn /\ pc \in Holding \ {"resume"}
  BY <1>1, HeldFree, PlaceNames DEF InTurn
<1>3. /\ age[current_proc] \in Nat /\ quantum_timer \in Nat /\ ray_end \in Nat
      /\ quantum \in Nat
  BY <1>2, QuantumType DEF IInv, TypeOK
<1>4. age[current_proc] <= ray_end /\ quantum_timer <= quantum
  BY <1>2 DEF TimingInv, AimInv, QuantumRespected
<1>5. CASE pc = "judge_cr"
  <2>1. ~(age[current_proc] < ray_end /\ quantum_timer < quantum)
    BY <1>5 DEF TurnEndInv, Waiting
  <2> QED
    BY <1>3, <1>4, <1>5, <2>1
<1>6. CASE pc = "judge_io"
  <2>1. age[current_proc] = ray_end /\ age[current_proc] # get_ray_sum(rays)
    BY <1>6 DEF TimingInv, VerdictInv
  <2>2. age[current_proc] - quantum_timer < age[current_proc]
    BY <1>2, <2>1 DEF TurnEndInv
  <2> QED
    BY <1>3, <1>6, <2>2
<1> QED
  BY <1>1, <1>5, <1>6

-----------------------------------------------------------------------------
(* The actions that change a life, or the pass or turn it is in.  What is  *)
(* left alone by a step is named by what the abstract actions leave alone. *)
KeepsPass == UNCHANGED <<current_queue, runs_left>> /\ (pc' \in InPass <=> pc \in InPass)
KeepsTurn == usedTicks' = usedTicks

LEMMA SameTurn ==
  ASSUME UNCHANGED quantum_timer,
         pc' \in Holding \ {"resume"} <=> pc \in Holding \ {"resume"}
  PROVE  KeepsTurn
BY DEF KeepsTurn, usedTicks, Holding

LEMMA NoTurn ==
  ASSUME pc \notin Holding \ {"resume"}, pc' \notin Holding \ {"resume"}
  PROVE  KeepsTurn /\ usedTicks = 0
BY DEF KeepsTurn, usedTicks, Holding

LEMMA FetchDispatches ==
  ASSUME Placed, Placed', QueueInv, FetchNext
  PROVE  \E p \in Procs : Life!Dispatch(p)
<1>1. /\ pc = "fetch_cr" /\ pc' = "resume"
      /\ UNCHANGED <<pack, current_queue, runs_left>>
      /\ queue = current_queue
  BY DEF FetchNext, ioVars, policyVars, QueueInv, NotServing
<1>2. PICK c \in Procs : At(c, queue) /\ Moves(c, ON_CPU)
  BY OnePlaceFetch DEF Placed
<1>3. PICK id \in QueueIds : id = current_queue
  BY DEF Placed, TypeOK
<1>4. lives[c] = Life!Ready(current_queue)
  <2>1. At(c, id) /\ id \in Places
    BY <1>1, <1>2, <1>3, PlaceIds
  <2>2. lives[c] = LifeAt(c, id)
    BY <2>1, LifeThere DEF lives
  <2> QED
    BY <1>3, <2>2, PlaceIds DEF LifeAt
<1>5. lives' = [lives EXCEPT ![c] = LifeAt(c, ON_CPU)']
  BY <1>1, <1>2, LivesMove, PlaceIds
<1>6. LifeAt(c, ON_CPU)' = Life!Running(current_queue)
  BY <1>1 DEF LifeAt, GONE, IN_IO, ON_CPU, AUX_ID, Life!Running
<1>7. Life!CpuIsFree
  BY <1>1, NoneRunning, PlaceNames
<1>8. pc \in InPass /\ KeepsPass
  BY <1>1, PlaceNames DEF KeepsPass, InPass
<1>9. KeepsTurn
  BY <1>1, NoTurn, PlaceNames
<1> QED
  BY <1>4, <1>5, <1>6, <1>7, <1>8, <1>9
     DEF Life!Dispatch, Life!Becomes, KeepsPass, KeepsTurn

(* What ends the turn of main's process, by the place it goes to.          *)
LEMMA TurnEnds ==
  ASSUME Placed, Placed', TurnInv, pc \in Holding, pc' = "fetch",
         UNCHANGED <<current_queue, runs_left>>,
         NEW c \in Procs, c = current_proc,
         NEW to \in Places, Moves(c, to),
         \A p \in Procs : p # c => pack'[p] = pack[p]
  PROVE  Life!GivesUp(c, LifeAt(c, to)')
<1>1. lives[c] = Life!Running(current_queue)
  BY HolderRuns
<1>2. lives' = [lives EXCEPT ![c] = LifeAt(c, to)']
  BY LivesMove
<1>3. usedTicks' = 0
  BY PlaceNames DEF usedTicks
<1>4. KeepsPass
  BY PlaceNames DEF KeepsPass, InPass
<1> QED
  BY <1>1, <1>2, <1>3, <1>4 DEF Life!GivesUp, Life!Becomes, KeepsPass

LEMMA DemoteDemotes ==
  ASSUME IInv, IInv', TimingInv, LifeInv, Demote
  PROVE  \E p \in Procs : Life!Demote(p)
<1>1. /\ pc = "judge_cr" /\ pc' # "exited" /\ age[current_proc] # ray_end
      /\ UNCHANGED <<pack, current_queue, runs_left>>
      /\ Placed /\ Placed' /\ TurnInv /\ OnePlace /\ TypeOK /\ QueueInv
  BY DEF Demote, ioVars, policyVars, IInv, NeverAborts, Placed, LifeInv
<1>2. pc' = "fetch"
  BY <1>1 DEF Demote
<1>3. PICK c \in Procs : c = current_proc
  BY <1>1, HolderRuns, PlaceNames
<1>4. Moves(c, LowerPlace)
  BY <1>1, <1>3, OnePlaceDemote
<1>5. PICK lower \in QueueIds : lower = get_lower_priority_queue_id(current_queue)
  BY <1>1, PolicyType DEF TypeOK
<1>6. PICK to \in Places : to = LowerPlace
  BY <1>5, PlaceIds DEF LowerPlace
<1>7. Life!GivesUp(c, LifeAt(c, to)')
  BY <1>1, <1>2, <1>3, <1>4, <1>6, TurnEnds, PlaceNames
<1>8. LifeAt(c, to)' = Life!Waits(Life!Lower(current_queue))
  <2>1. current_queue' = current_queue /\ lower = Life!Lower(current_queue)
    BY <1>1, <1>5, Neighbours DEF TypeOK
  <2>2. to = IF lower = current_queue THEN AUX_ID ELSE lower
    BY <1>5, <1>6 DEF LowerPlace
  <2>3. CASE lower = current_queue
    BY <2>1, <2>2, <2>3
       DEF LifeAt, GONE, IN_IO, ON_CPU, AUX_ID, Life!Waits
  <2>4. CASE lower # current_queue
    <3>1. to = lower /\ to \notin {GONE, IN_IO, ON_CPU, AUX_ID}
      BY <2>2, <2>4, PlaceIds
    <3> QED
      BY <2>1, <2>4, <3>1
         DEF LifeAt, GONE, IN_IO, ON_CPU, AUX_ID, Life!Waits
  <2> QED
    BY <2>3, <2>4
<1>9. usedTicks = Life!Quantum(current_queue)
  <2>1. quantum_timer = quantum
    BY <1>1, VerdictFinds DEF LifeInv
  <2> QED
    BY <1>1, <2>1, TurnTicks, PlaceNames
<1> QED
  BY <1>7, <1>8, <1>9 DEF Life!Demote

LEMMA TerminateExits ==
  ASSUME Placed, Placed', TurnInv, Terminate
  PROVE  \E p \in Procs : Life!Exit(p)
<1>1. /\ pc \in Holding /\ pc' = "fetch"
      /\ UNCHANGED <<pack, current_queue, runs_left>>
  BY PlaceNames DEF Terminate, ioVars, policyVars
<1>2. PICK c \in Procs : c = current_proc
  BY <1>1, HolderRuns
<1>3. Moves(c, GONE)
  BY <1>2, OnePlaceTerminate DEF Placed
<1>4. Life!GivesUp(c, LifeAt(c, GONE)')
  BY <1>1, <1>2, <1>3, TurnEnds, PlaceIds
<1>5. LifeAt(c, GONE)' = Life!Gone
  BY DEF LifeAt, GONE, Life!Gone
<1> QED
  BY <1>4, <1>5 DEF Life!Exit

LEMMA BlockBlocks ==
  ASSUME IInv, IInv', TimingInv, LifeInv, BlockOnIO
  PROVE  \E p \in Procs : Life!Block(p)
<1>1. /\ pc = "judge_io" /\ pc' # "exited"
      /\ UNCHANGED <<current_queue, runs_left>>
      /\ Placed /\ Placed' /\ TurnInv /\ OnePlace /\ TypeOK /\ QueueInv
  BY DEF BlockOnIO, policyVars, IInv, NeverAborts, Placed, LifeInv
<1>2. pc' = "fetch"
  BY <1>1 DEF BlockOnIO
<1>3. PICK c \in Procs : c = current_proc
  BY <1>1, HolderRuns, PlaceNames
<1>4. Moves(c, IN_IO)
  BY <1>1, <1>3, OnePlaceBlock
<1>5. usedTicks = quantum_timer /\ quantum = Life!Quantum(current_queue)
  BY <1>1, TurnTicks, PlaceNames
<1>6. /\ \A p \in Procs : p # c => pack'[p] = pack[p]
      /\ pack'[c] = IF usedTicks = Life!Quantum(current_queue)
                      THEN current_queue ELSE Life!Higher(current_queue)
  <2>1. get_higher_priority_queue_id(current_queue) = Life!Higher(current_queue)
    BY <1>1, Neighbours DEF TypeOK
  <2> QED
    BY <1>1, <1>3, <1>5, <2>1 DEF BlockOnIO, pack_current_process, TypeOK
<1>7. Life!GivesUp(c, LifeAt(c, IN_IO)')
  BY <1>1, <1>2, <1>3, <1>4, <1>6, TurnEnds, PlaceIds, PlaceNames
<1>8. LifeAt(c, IN_IO)' = Life!Blocked(pack'[c])
  BY DEF LifeAt, GONE, IN_IO, Life!Blocked
<1>9. usedTicks > 0
  BY <1>1, <1>5, VerdictFinds DEF LifeInv
<1> QED
  BY <1>6, <1>7, <1>8, <1>9 DEF Life!Block

LEMMA IOReturnReturns ==
  ASSUME Placed, Placed', NEW p \in Procs, IOReturn(p)
  PROVE  Life!Return(p, pack[p])
<1>1. /\ UNCHANGED <<pack, current_queue, runs_left, quantum_timer, pc>>
      /\ At(p, IN_IO)
  BY PlaceIds DEF IOReturn, policyVars, timeVars, At
<1>2. PICK level \in QueueIds : level = pack[p]
  BY DEF Placed, TypeOK
<1>3. PICK to \in Places : to = ReturnPlace(p)
  BY <1>2, PlaceIds DEF ReturnPlace
<1>4. Moves(p, to)
  BY <1>3, OnePlaceReturn DEF Placed
<1>5. lives' = [lives EXCEPT ![p] = LifeAt(p, to)']
  BY <1>1, <1>4, LivesMove
<1>6. LifeAt(p, to)' = Life!Waits(level)
  <2>1. CASE level = current_queue
    BY <1>1, <1>2, <1>3, <2>1
       DEF LifeAt, ReturnPlace, GONE, IN_IO, ON_CPU, AUX_ID, Life!Waits
  <2>2. CASE level # current_queue
    <3>1. to = level /\ to \notin {GONE, IN_IO, ON_CPU, AUX_ID}
      BY <1>2, <1>3, <2>2, PlaceIds DEF ReturnPlace
    <3> QED
      BY <2>2, <3>1 DEF LifeAt, GONE, IN_IO, ON_CPU, AUX_ID, Life!Waits
  <2> QED
    BY <2>1, <2>2
<1>7. lives[p] = Life!Blocked(level)
  BY <1>1, <1>2, LifeThere, PlaceIds DEF lives, LifeAt
<1>8. KeepsPass /\ KeepsTurn
  BY <1>1, SameTurn DEF KeepsPass
<1> QED
  BY <1>2, <1>5, <1>6, <1>7, <1>8
     DEF Life!Return, Life!Becomes, KeepsPass, KeepsTurn

(* The merge takes processes from the auxiliary queue to the queue being   *)
(* served, whose level they already had, and which is empty.               *)
LEMMA MergeEndsPass ==
  ASSUME Placed, Placed', QueueInv, PassInv, MergeAux
  PROVE  Life!EndPass
<1>1. /\ UNCHANGED <<pack, current_queue, runs_left>> /\ queue = current_queue
      /\ pc = "merge_cr" /\ pc' = "loop" /\ queues[queue] = <<>>
  BY DEF MergeAux, ioVars, policyVars, QueueInv, NotServing, PassInv
<1>2. PICK served \in QueueIds : served = queue
  BY DEF Placed, TypeOK
<1>3. MoveAllOf(AUX_ID, served)
  BY <1>2, OnePlaceMerge DEF Placed
<1>4. ASSUME NEW p \in Procs
      PROVE  /\ lives[p] # Life!Ready(served)
             /\ LifeOf(p)' = IF lives[p] = Life!Aside(served)
                               THEN Life!Ready(served) ELSE lives[p]
  <2>1. PICK x \in Places : At(p, x)
    BY DEF Placed, OnePlace, PlacedOnce
  <2>2. lives[p] = LifeAt(p, x)
    BY <2>1, LifeThere DEF lives
  <2>3. CASE x # AUX_ID
    <3>1. At(p, x)'
      BY <1>2, <1>3, <2>1, <2>3, PlaceIds DEF MoveAllOf
    <3>2. LifeAt(p, x)' = LifeAt(p, x)
      BY <1>1, <2>3 DEF LifeAt, GONE, IN_IO, ON_CPU, AUX_ID, Life!Gone,
                  Life!Blocked, Life!Running, Life!Aside, Life!Ready
    <3>3. LifeOf(p)' = lives[p]
      BY <2>2, <3>1, <3>2, NextLifeThere
    <3>4. lives[p] # Life!Aside(served)
      BY <2>2, <2>3 DEF LifeAt, Life!Gone, Life!Blocked, Life!Running,
                        Life!Aside, Life!Ready
    <3>5. x # served
      <4>1. Range(queues[served]) = {}
        BY <1>1, <1>2, EmptySeq DEF Range
      <4> QED
        BY <1>2, <2>1, <4>1, PlaceIds DEF At
    <3>6. lives[p] # Life!Ready(served)
      BY <2>2, <3>5 DEF LifeAt, Life!Gone, Life!Blocked, Life!Running,
                        Life!Aside, Life!Ready
    <3> QED
      BY <3>3, <3>4, <3>6
  <2>4. CASE x = AUX_ID
    <3>1. At(p, served)' /\ served \in Places
      BY <1>2, <1>3, <2>1, <2>4, PlaceIds DEF MoveAllOf
    <3>2. LifeAt(p, served)' = Life!Ready(served)
      <4>1. served \notin {GONE, IN_IO, ON_CPU, AUX_ID}
        BY PlaceIds
      <4> QED
        BY <1>2, <4>1 DEF LifeAt, GONE, IN_IO, ON_CPU, AUX_ID, Life!Ready
    <3>3. LifeAt(p, AUX_ID) = Life!Aside(served)
      BY <1>1, <1>2, PlaceIds DEF LifeAt
    <3>4. Life!Aside(served) # Life!Ready(served)
      BY DEF Life!Aside, Life!Ready
    <3>5. LifeOf(p)' = Life!Ready(served)
      BY <3>1, <3>2, NextLifeThere
    <3> QED
      BY <2>2, <2>4, <3>3, <3>4, <3>5
  <2> QED
    BY <2>3, <2>4
<1>5. Life!CpuIsFree
  BY <1>1, NoneRunning, PlaceNames
<1>6. pc \in InPass /\ pc' \notin InPass
  BY <1>1, PlaceNames DEF InPass
<1>7. KeepsTurn
  BY <1>1, NoTurn, PlaceNames
<1>8. lives' = [p \in Procs |-> IF lives[p] = Life!Aside(current_queue)
                                THEN Life!Ready(current_queue) ELSE lives[p]]
  BY <1>1, <1>2, <1>4 DEF lives
<1>9. \A p \in Procs : lives[p] # Life!Ready(current_queue)
  BY <1>1, <1>2, <1>4
<1>10. (pc \in InPass)' = FALSE
  BY <1>6 DEF InPass, Holding
<1> QED
  BY <1>1, <1>5, <1>6, <1>7, <1>8, <1>9, <1>10 DEF Life!EndPass, KeepsTurn

(* The processes on the auxiliary queue go with the queue being served.    *)
LEMMA SwitchSwitches ==
  ASSUME Placed, Placed', PassInv, SwitchQueue
  PROVE  Life!Switch
<1>1. /\ UNCHANGED <<queues, aux_queue, current_proc, io, freed, pack>>
      /\ pc = "switch_cr" /\ pc' = "take" /\ runs_left = 0
      /\ current_queue' = (current_queue + 1) % N_OF_QUEUES
      /\ runs_left' = get_queue_runs(current_queue')
  BY DEF SwitchQueue, NextQueue, queueVars, ioVars, exitVars, PassInv
<1>2. /\ pc \notin Holding /\ pc' \notin Holding
      /\ pc \notin InPass /\ pc' \notin InPass
  BY <1>1, PlaceNames DEF InPass
<1>3. Stays
  BY <1>1, <1>2, StayStep DEF Placed
<1>4. ASSUME NEW p \in Procs
      PROVE  LifeOf(p)' = IF lives[p] = Life!Aside(current_queue)
                            THEN Life!Aside(current_queue') ELSE lives[p]
  <2>1. PICK x \in Places : At(p, x)
    BY DEF Placed, OnePlace, PlacedOnce
  <2>2. LifeOf(p)' = LifeAt(p, x)' /\ lives[p] = LifeAt(p, x)
    BY <1>3, <2>1, LifeThere, NextLifeThere DEF Stays, lives
  <2>3. x # ON_CPU
    BY <1>2, <2>1, PlaceIds DEF At
  <2>4. CASE x = AUX_ID
    <3>1. LifeAt(p, x)' = Life!Aside(current_queue')
      BY <2>4 DEF LifeAt, GONE, IN_IO, ON_CPU, AUX_ID, Life!Aside
    <3>2. LifeAt(p, x) = Life!Aside(current_queue)
      BY <2>4, PlaceIds DEF LifeAt
    <3> QED
      BY <2>2, <3>1, <3>2
  <2>5. CASE x # AUX_ID
    <3>1. LifeAt(p, x) # Life!Aside(current_queue)
      BY <2>5 DEF LifeAt, Life!Gone, Life!Blocked, Life!Running, Life!Aside,
                  Life!Ready
    <3>2. LifeAt(p, x)' = LifeAt(p, x)
      BY <1>1, <2>3, <2>5 DEF LifeAt, GONE, IN_IO, ON_CPU, AUX_ID, Life!Gone,
                              Life!Blocked, Life!Ready
    <3> QED
      BY <2>2, <3>1, <3>2
  <2> QED
    BY <2>4, <2>5
<1>5. lives' = [p \in Procs |-> IF lives[p] = Life!Aside(current_queue)
                                THEN Life!Aside(current_queue') ELSE lives[p]]
  BY <1>4 DEF lives
<1>6. runs_left' = Life!Runs(current_queue')
  <2>1. PICK id \in QueueIds : id = current_queue'
    BY DEF Placed, TypeOK
  <2> QED
    BY <1>1, <2>1, Neighbours
<1>7. KeepsTurn /\ (pc' \in InPass <=> pc \in InPass)
  BY <1>2, NoTurn
<1> QED
  BY <1>1, <1>2, <1>5, <1>6, <1>7 DEF Life!Switch, KeepsTurn

(* A step that moves no process leaves the lives alone.                    *)
LEMMA LivesKept ==
  ASSUME Placed, Placed',
         UNCHANGED <<queues, aux_queue, freed, current_proc, pack, current_queue>>,
         pc' \in Holding <=> pc \in Holding,
         \A p \in Procs : io'[p] = "none" <=> io[p] = "none"
  PROVE  UNCHANGED lives
BY StayStep, LivesStay DEF Placed

LEMMA TakeBegins ==
  ASSUME Placed, Placed', PassInv, TakeRun
  PROVE  Life!BeginPass
<1>1. /\ pc = "take" /\ pc' = "fetch" /\ runs_left' = runs_left - 1
      /\ runs_left > 0
      /\ UNCHANGED <<queues, aux_queue, freed, current_proc, pack, io,
                     current_queue>>
  BY DEF TakeRun, queueVars, ioVars, exitVars, PassInv
<1>2. UNCHANGED lives
  BY <1>1, LivesKept, PlaceNames
<1>3. pc \notin InPass /\ pc' \in InPass /\ KeepsTurn
  BY <1>1, NoTurn, PlaceNames DEF InPass
<1>4. (pc \in InPass)' = TRUE
  BY <1>3 DEF InPass, Holding
<1> QED
  BY <1>1, <1>2, <1>3, <1>4 DEF Life!BeginPass, KeepsTurn

(* By the counters, a pass is idle only if all that are left are blocked.  *)
LEMMA IdleBegins ==
  ASSUME IInv, Placed', IdlePass
  PROVE  Life!BeginIdlePass
<1>1. /\ pc = "loop" /\ pc' = "fetch" /\ processes_count = io_threads
      /\ UNCHANGED <<queues, aux_queue, freed, current_proc, pack, io,
                     current_queue, runs_left>>
  BY DEF IdlePass, queueVars, ioVars, exitVars, policyVars
<1>2. UNCHANGED lives
  BY <1>1, LivesKept, PlaceNames DEF IInv, Placed
<1>3. pc \notin InPass /\ pc' \in InPass /\ KeepsTurn
  BY <1>1, NoTurn, PlaceNames DEF InPass
<1>4. Procs \ freed = Blocked
  <2>1. Blocked \subseteq Procs \ freed
    <3> SUFFICES ASSUME NEW p \in Procs, io[p] # "none", p \in freed
                 PROVE  FALSE
      BY DEF Blocked
    <3> QED
      BY PlaceIds DEF IInv, OnePlace, PlacedOnce, At
  <2>2. IsFiniteSet(Procs \ freed)
    BY ProcsFinite, FS_Difference
  <2>3. Cardinality(Blocked) = Cardinality(Procs \ freed)
    BY <1>1 DEF IInv, CountersAgree
  <2> QED
    BY <2>1, <2>2, <2>3, FS_Subset
<1>5. \A p \in Procs : lives[p].state \in {"blocked", "gone"}
  BY <1>4 DEF lives, LifeOf
<1>6. (pc \in InPass)' = TRUE
  BY <1>3 DEF InPass, Holding
<1> QED
  BY <1>1, <1>2, <1>3, <1>5, <1>6 DEF Life!BeginIdlePass, KeepsTurn

(* A tick that is handled is one of the quantum of the running process.    *)
LEMMA SignalUses ==
  ASSUME IInv, IInv', TimingInv, QueueInv, HandleSignal
  PROVE  Life!Use
<1>1. /\ pc \in {"aim", "wait"} /\ pc' = pc /\ pending
      /\ quantum_timer' = quantum_timer + 1
      /\ UNCHANGED <<queues, aux_queue, freed, current_proc, pack, io,
                     current_queue, runs_left>>
  BY SignalInTurn
     DEF TimingInv, HandleSignal, queueVars, ioVars, exitVars, policyVars
<1>2. Placed /\ Placed' /\ TurnInv
  BY DEF IInv, Placed
<1>3. UNCHANGED lives
  BY <1>1, <1>2, LivesKept
<1>4. ~Life!CpuIsFree
  BY <1>1, <1>2, HolderRuns, PlaceNames
<1>5. usedTicks = quantum_timer /\ quantum = Life!Quantum(current_queue)
  BY <1>1, <1>2, TurnTicks, PlaceNames DEF Placed
<1>6. quantum_timer < quantum
  <2>1. quantum_timer = 0 \/ Waiting
    BY <1>1 DEF TimingInv, PendingInv
  <2>2. quantum \in Nat \ {0}
    BY <1>2, QuantumType DEF Placed
  <2> QED
    BY <2>1, <2>2 DEF Waiting
<1>7. usedTicks' = usedTicks + 1
  BY <1>1, <1>5, PlaceNames DEF usedTicks, Holding
<1>8. KeepsPass
  BY <1>1 DEF KeepsPass
<1> QED
  BY <1>3, <1>4, <1>5, <1>6, <1>7, <1>8 DEF Life!Use, KeepsPass

-----------------------------------------------------------------------------
(* At the start every process is ready at the first queue's level.         *)
LEMMA LivesInit == Init => Life!Init
<1> SUFFICES ASSUME Init PROVE Life!Init
  OBVIOUS
<1>1. Placed
  BY TypeInit, OnePlaceInit DEF Placed
<1>2. 0 \in QueueIds /\ 0 \in Places
  BY QueueAssumption, PlaceIds DEF QueueIds
<1>3. ASSUME NEW p \in Procs PROVE LifeOf(p) = Life!Ready(0)
  <2>1. At(p, 0)
    <3>1. queues[0] = [q \in Procs |-> q]
      BY <1>2 DEF Init, FIRST_QUEUE_ID
    <3> QED
      BY <1>2, <3>1 DEF At, Range
  <2> QED
    BY <1>1, <1>2, <2>1, LifeThere, PlaceIds DEF LifeAt
<1>4. current_queue = 0 /\ runs_left = Life!Runs(0)
  BY <1>2, Neighbours DEF Init, FIRST_QUEUE_ID
<1>5. pc \notin InPass /\ usedTicks = 0
  BY PlaceNames DEF Init, InPass, usedTicks
<1>6. lives = [p \in Procs |-> Life!Ready(0)]
  BY <1>3 DEF lives
<1> QED
  BY <1>4, <1>5, <1>6 DEF Life!Init

(* A step that none of the abstract ones stands for.                       *)
LEMMA NothingLived ==
  ASSUME Placed, Placed',
         UNCHANGED <<queues, aux_queue, freed, current_proc, pack, policyVars>>,
         pc' \in Holding <=> pc \in Holding, pc' \in InPass <=> pc \in InPass,
         KeepsTurn,
         \A p \in Procs : io'[p] = "none" <=> io[p] = "none"
  PROVE  UNCHANGED Life!life
<1>1. UNCHANGED lives
  BY LivesKept DEF policyVars
<1> QED
  BY <1>1 DEF Life!life, KeepsTurn, policyVars

(* Every step of the scheduler is a step of the lives of its processes, or *)
(* changes none.                                                           *)
LEMMA LivesStep ==
  ASSUME IInv, IInv', TickTiming # "late", TimingInv, LifeInv, [Next]_vars
  PROVE  [Life!Next]_(Life!life)
<1> USE DEF queueVars, ioVars, timeVars, childVars, exitVars, localVars
<1>1. Placed /\ Placed' /\ TurnInv /\ QueueInv /\ PassInv
  BY DEF IInv, Placed, LifeInv
<1>2. CASE FetchNext
  BY <1>1, <1>2, FetchDispatches DEF Life!Next
<1>3. CASE Demote
  BY <1>3, DemoteDemotes DEF Life!Next
<1>4. CASE Terminate
  BY <1>1, <1>4, TerminateExits DEF Life!Next
<1>5. CASE BlockOnIO
  BY <1>5, BlockBlocks DEF Life!Next
<1>6. CASE SwitchQueue
  BY <1>1, <1>6, SwitchSwitches DEF Life!Next
<1>7. CASE MergeAux
  BY <1>1, <1>7, MergeEndsPass DEF Life!Next
<1>8. CASE TakeRun
  BY <1>1, <1>8, TakeBegins DEF Life!Next
<1>9. CASE IdlePass
  BY <1>1, <1>9, IdleBegins DEF Life!Next
<1>10. CASE HandleSignal
  BY <1>1, <1>10, SignalUses DEF Life!Next
<1>11. ASSUME NEW p \in Procs, IOReturn(p) PROVE Life!Next
  <2>1. pack[p] \in QueueIds
    BY <1>1 DEF Placed, TypeOK
  <2>2. pack[p] \in 0 .. N_OF_QUEUES - 1
    BY <2>1 DEF QueueIds
  <2> QED
    BY <1>1, <1>11, <2>2, IOReturnReturns DEF Life!Next
<1>12. ASSUME NEW p \in Procs, IOWake(p) \/ IOEnter(p)
       PROVE  UNCHANGED Life!life
  <2>1. \A q \in Procs : io'[q] = "none" <=> io[q] = "none"
    BY <1>1, <1>12 DEF IOWake, IOEnter, Placed, TypeOK
  <2>2. UNCHANGED <<queues, aux_queue, freed, current_proc, pack, policyVars,
                    pc, quantum_timer>>
    BY <1>12 DEF IOWake, IOEnter
  <2>3. KeepsTurn
    BY <2>2, SameTurn
  <2> QED
    BY <1>1, <2>1, <2>2, <2>3, NothingLived
<1>13. CASE MainEnter \/ Finish \/ StartPass \/ QueueDrained
  <2>1. UNCHANGED <<queues, aux_queue, freed, current_proc, pack, policyVars,
                    io, quantum_timer>>
    BY <1>13 DEF MainEnter, Finish, StartPass, QueueDrained
  <2>2. /\ pc' \in Holding <=> pc \in Holding
        /\ pc' \in InPass <=> pc \in InPass
        /\ pc' \in Holding \ {"resume"} <=> pc \in Holding \ {"resume"}
    BY <1>13, PlaceNames
       DEF MainEnter, Finish, StartPass, QueueDrained, Region, InPass
  <2>3. KeepsTurn
    BY <2>1, <2>2, SameTurn
  <2> QED
    BY <1>1, <2>1, <2>2, <2>3, NothingLived
<1>14. CASE Resume
  <2>1. /\ UNCHANGED <<queues, aux_queue, freed, current_proc, pack, policyVars,
                       io>>
        /\ pc = "resume" /\ pc' = "aim" /\ quantum_timer' = 0
    BY <1>14 DEF Resume
  <2>2. KeepsTurn
    BY <2>1, PlaceNames DEF KeepsTurn, usedTicks, Holding
  <2>3. pc \in Holding /\ pc' \in Holding /\ pc \in InPass /\ pc' \in InPass
    BY <2>1, PlaceNames DEF InPass
  <2> QED
    BY <1>1, <2>1, <2>2, <2>3, NothingLived
<1>15. CASE Aim \/ Preempt \/ RayEnded \/ RayLeft \/ PackFails
  <2>1. UNCHANGED <<queues, aux_queue, freed, current_proc, pack, policyVars,
                    io, quantum_timer>>
    BY <1>15 DEF Aim, Preempt, RayEnded, RayLeft, PackFails
  <2>2. /\ pc \in Holding \ {"resume"} /\ pc' \in Holding \ {"resume"}
        /\ pc \in InPass /\ pc' \in InPass
    BY <1>15, PlaceNames DEF Aim, Preempt, RayEnded, RayLeft, PackFails, InPass
  <2>3. KeepsTurn
    BY <2>1, <2>2, SameTurn
  <2> QED
    BY <1>1, <2>1, <2>2, <2>3, NothingLived
<1>16. CASE UNCHANGED vars \/ \E p \in Procs : Tick(p)
  <2>1. UNCHANGED <<queues, aux_queue, freed, current_proc, pack, policyVars,
                    io, quantum_timer, pc>>
    BY <1>16 DEF Tick, vars
  <2>2. KeepsTurn
    BY <2>1, SameTurn
  <2> QED
    BY <1>1, <2>1, <2>2, NothingLived
<1> QED
  BY <1>2, <1>3, <1>4, <1>5, <1>6, <1>7, <1>8, <1>9, <1>10, <1>11, <1>12,
     <1>13, <1>14, <1>15, <1>16 DEF Next, Step, MainStep, IOStep, Halted

-----------------------------------------------------------------------------
(* When ticks are not late, the scheduler implements the life of its       *)
(* processes.                                                              *)
THEOREM SchedulerImplementsTaskLife ==
  ASSUME TickTiming # "late" PROVE Spec => ImplementsTaskLife
<1>1. Init => LifeInv
  <2> SUFFICES ASSUME Init PROVE LifeInv
    OBVIOUS
  <2>1. QueueInv /\ TurnEndInv
    BY DEF Init, QueueInv, Blocked, NotServing, TurnEndInv, InTurn
  <2>2. PassInv
    BY QueueAssumption, PolicyType DEF Init, PassInv, FIRST_QUEUE_ID, QueueIds
  <2> QED
    BY <2>1, <2>2 DEF LifeInv
<1>2. IInv /\ TimingInv /\ LifeInv /\ [Next]_vars => LifeInv'
  BY QueueInvStep, PassInvStep, TurnEndStep DEF IInv, LifeInv
<1>3. IInv /\ IInv' /\ TimingInv /\ LifeInv /\ [Next]_vars
        => [Life!Next]_(Life!life)
  BY LivesStep
<1>4. Spec => []TimingInv
  BY Timed
<1> QED
  BY <1>1, <1>2, <1>3, <1>4, LivesInit, Inductive, PTL
     DEF Spec, ImplementsTaskLife, Life!Spec
=============================================================================
