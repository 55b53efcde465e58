---------------------------- MODULE TimingProofs ----------------------------
(***************************************************************************)
(* Proofs about the time that is charged to the processes, for children    *)
(* whose ticks are not late: TickTiming is "early" or "settled".           *)
(***************************************************************************)
EXTENDS SchedulerProofs

(* What a turn aims at, of a process c that has age a with timer t: the    *)
(* end of a ray it has not passed, the first one but for one that the      *)
(* first tick of the turn reached.                                         *)
Aimed(c, a, t, goal) ==
  LET ends == RayEnds(Commands[c])
  IN  /\ a <= goal
      /\ \E k \in 1 .. Len(Commands[c]) : ends[k] = goal
      /\ \A k \in 0 .. Len(Commands[c]) : ends[k] < goal => ends[k] <= a - t + 1

AimedInTurn ==
  InTurn => Aimed(current_proc, age[current_proc], quantum_timer, ray_end)

(* A step that leaves time, the turn and who is freed alone.               *)
Quiet ==
  /\ UNCHANGED <<quantum_timer, age, sent, pending, current_proc, ray_end,
                 freed, ub>>
  /\ Blocked' \subseteq Blocked
  /\ \/ pc' = pc /\ queue' = queue
     \/ pc \notin {"aim", "wait"} /\ pc' \notin Holding
     \/ /\ queue' = queue
        /\ \/ pc = "judge" /\ pc' = "judge_cr"
           \/ pc = "judge_cr" /\ pc' = "judge_end" /\ age[current_proc] = ray_end
           \/ /\ pc = "judge_end" /\ pc' = "judge_io"
              /\ age[current_proc] # get_ray_sum(rays)
           \/ pc = "judge_io" /\ pc' = "no_memory"

-----------------------------------------------------------------------------
(* The ages of a process are those of its rays.                            *)
LEMMA EndsOf ==
  ASSUME NEW p \in Procs
  PROVE  /\ Len(Commands[p]) \in Nat \ {0}
         /\ TotalTicks(p) = get_ray_sum(Commands[p])
         /\ TotalTicks(p) = RayEnds(Commands[p])[Len(Commands[p])]
         /\ TotalTicks(p) \in Nat
         /\ \A k \in 0 .. Len(Commands[p]) :
              /\ RayEnds(Commands[p])[k] \in Nat
              /\ RayEnds(Commands[p])[k] <= TotalTicks(p)
         /\ DOMAIN RayEnds(Commands[p]) = 0 .. Len(Commands[p])
<1>1. Commands[p] \in Seq(Nat) /\ Commands[p] # <<>>
  BY CommandType
<1>2. Len(Commands[p]) \in Nat \ {0}
  BY <1>1, LenProperties, EmptySeq
<1>3. TotalTicks(p) = get_ray_sum(Commands[p])
  BY DEF TotalTicks, get_ray_sum
<1>4. TotalTicks(p) = RayEnds(Commands[p])[Len(Commands[p])]
  BY DEF TotalTicks
<1> QED
  BY <1>1, <1>2, <1>3, <1>4, RayEndsGrow, RayEndsStep, RaySumIsLast

(* A turn has time.                                                        *)
LEMMA QuantumType == TypeOK => quantum \in Nat \ {0}
<1> SUFFICES ASSUME TypeOK PROVE quantum \in Nat \ {0}
  OBVIOUS
<1>1. queue \in QueueIds
  BY DEF TypeOK
<1>2. power_of_two(queue) \in Nat \ {0} /\ SMALLEST_QUANTUM \in Nat \ {0}
  BY <1>1, PowersAssumption, QueueAssumption
<1>3. \A m, n \in Nat \ {0} : m * n \in Nat \ {0}
  OBVIOUS
<1> QED
  BY <1>2, <1>3 DEF quantum, get_queue_quantum

(* Who main holds is neither blocked nor freed.                            *)
LEMMA HeldFree ==
  ASSUME IInv, pc \in Holding
  PROVE  current_proc \in Procs /\ current_proc \notin freed \cup Blocked
BY HeldOnly DEF IInv, Blocked

(* Only the child of the turn ticks, while main lets it.                   *)
LEMMA TickInTurn ==
  ASSUME IInv, TickTiming # "late", NEW p \in Procs, Tick(p)
  PROVE  /\ p = current_proc /\ ~pending /\ sent[p] < TotalTicks(p)
         /\ \/ pc = "wait" /\ Waiting
            \/ pc = "aim" /\ quantum_timer = 0
BY DEF IInv, OneRunning, Tick, OnTime

(* The handler finds the process that sent the signal.                     *)
LEMMA SignalInTurn ==
  ASSUME IInv, PendingInv, HandleSignal
  PROVE  /\ pc \in {"aim", "wait"} /\ pending /\ ~pending'
         /\ current_proc \in Procs /\ current_proc \notin freed \cup Blocked
         /\ quantum_timer' = quantum_timer + 1
         /\ age' = [age EXCEPT ![current_proc] = @ + 1]
         /\ UNCHANGED <<ub, pc, sent, io, queue, ray_end, freed, current_proc>>
<1>1. pending /\ pc \in {"aim", "wait"} /\ ~pending'
  BY DEF HandleSignal, signal_handler, PendingInv
<1>2. current_proc \in Procs /\ current_proc \notin freed \cup Blocked
  BY <1>1, HeldFree, PlaceNames
<1>3. current_proc # NULL
  <2>1. Len(Commands) \in Nat
    BY CommandsAssumption, LenProperties
  <2> QED
    BY <1>2, <2>1 DEF Procs, NULL
<1>4. /\ quantum_timer' = quantum_timer + 1
      /\ age' = [age EXCEPT ![current_proc] = @ + 1]
      /\ UNCHANGED ub
  BY <1>2, <1>3 DEF HandleSignal, signal_handler
<1> QED
  BY <1>1, <1>2, <1>4 DEF HandleSignal, ioVars, localVars, exitVars

(* All other steps, but those of the turn named here, are quiet.           *)
LEMMA StepKinds ==
  ASSUME TypeOK, [Next]_vars
  PROVE  \/ \E p \in Procs : Tick(p)
         \/ HandleSignal \/ FetchNext \/ Resume \/ Aim \/ Preempt
         \/ Terminate \/ BlockOnIO \/ Quiet
<1> USE DEF policyVars, queueVars, ioVars, timeVars, childVars, exitVars,
            localVars, Quiet, Blocked
<1>1. ASSUME MainEnter PROVE Quiet
  BY <1>1, PlaceNames DEF MainEnter, Region
<1>2. ASSUME Finish \/ StartPass \/ IdlePass PROVE Quiet
  BY <1>2, PlaceNames DEF Finish, StartPass, IdlePass
<1>3. ASSUME SwitchQueue \/ TakeRun \/ MergeAux \/ QueueDrained PROVE Quiet
  BY <1>3, PlaceNames DEF SwitchQueue, TakeRun, MergeAux, QueueDrained
<1>4. ASSUME RayEnded \/ RayLeft \/ PackFails PROVE Quiet
  BY <1>4, PlaceNames DEF RayEnded, RayLeft, PackFails
<1>5. ASSUME Demote PROVE Quiet
  BY <1>5, PlaceNames DEF Demote
<1>6. ASSUME NEW p \in Procs, IOStep(p) PROVE Quiet
  <2>1. io \in [Procs -> IOPlaces] /\ io[p] # "none"
    BY <1>6 DEF TypeOK, IOStep, IOWake, IOEnter, IOReturn
  <2>2. \E value : io' = [io EXCEPT ![p] = value]
    BY <1>6 DEF IOStep, IOWake, IOEnter, IOReturn
  <2>3. Blocked' \subseteq Blocked
    BY <2>1, <2>2
  <2> QED
    BY <1>6, <2>3 DEF IOStep, IOWake, IOEnter, IOReturn
<1>7. ASSUME UNCHANGED vars PROVE Quiet
  BY <1>7 DEF vars
<1> QED
  BY <1>1, <1>2, <1>3, <1>4, <1>5, <1>6, <1>7 DEF Next, Step, MainStep, Halted

-----------------------------------------------------------------------------
(* Every tick is charged to the child that sent it.                        *)
LEMMA AttributedStep ==
  ASSUME IInv, TickTiming # "late", TimingInv, [Next]_vars
  PROVE  TicksAttributed'
<1> USE DEF policyVars, queueVars, ioVars, timeVars, childVars, exitVars,
            localVars
<1>1. TypeOK /\ TicksAttributed /\ PendingInv
  BY DEF IInv, TimingInv
<1>2. ASSUME Quiet PROVE TicksAttributed'
  BY <1>1, <1>2 DEF Quiet, TicksAttributed
<1>3. ASSUME FetchNext PROVE TicksAttributed'
  BY <1>1, <1>3 DEF FetchNext, TicksAttributed, PendingInv
<1>4. ASSUME Resume \/ Aim \/ Preempt \/ Terminate \/ BlockOnIO
      PROVE  TicksAttributed'
  BY <1>1, <1>4 DEF Resume, Aim, Preempt, Terminate, BlockOnIO, TicksAttributed
<1>5. ASSUME NEW p \in Procs, Tick(p) PROVE TicksAttributed'
  <2>1. p = current_proc /\ ~pending
    BY <1>5, TickInTurn
  <2>2. /\ sent' = [sent EXCEPT ![p] = @ + 1] /\ pending'
        /\ UNCHANGED <<age, current_proc, ub>>
    BY <1>5 DEF Tick
  <2> QED
    BY <1>1, <2>1, <2>2 DEF TypeOK, TicksAttributed
<1>6. ASSUME HandleSignal PROVE TicksAttributed'
  <2>1. /\ pending /\ ~pending' /\ current_proc \in Procs
        /\ age' = [age EXCEPT ![current_proc] = @ + 1]
        /\ UNCHANGED <<ub, sent, current_proc>>
    BY <1>1, <1>6, SignalInTurn
  <2> QED
    BY <1>1, <2>1 DEF TypeOK, TicksAttributed
<1> QED
  BY <1>1, <1>2, <1>3, <1>4, <1>5, <1>6, StepKinds

(* No child sends more ticks than it has seconds to run.                   *)
LEMMA SentStep ==
  ASSUME TypeOK, SentInv, [Next]_vars
  PROVE  SentInv'
<1> USE DEF policyVars, queueVars, ioVars, timeVars, childVars, exitVars,
            localVars, TotalTicks
<1>1. ASSUME NEW p \in Procs, Tick(p) PROVE SentInv'
  <2>1. sent[p] < TotalTicks(p) /\ sent' = [sent EXCEPT ![p] = @ + 1]
    BY <1>1 DEF Tick
  <2>2. \A q \in Procs : TotalTicks(q) \in Nat /\ sent[q] \in Nat
    BY EndsOf DEF TypeOK
  <2> HIDE DEF TotalTicks
  <2>3. \A q \in Procs : sent'[q] <= TotalTicks(q)
    BY <2>1, <2>2 DEF TypeOK, SentInv
  <2> QED
    BY <2>3 DEF SentInv, TotalTicks
<1>2. ASSUME UNCHANGED sent PROVE SentInv'
  BY <1>2 DEF SentInv
<1> QED
  BY <1>1, <1>2, StepKinds
     DEF Quiet, HandleSignal, FetchNext, Resume, Aim, Preempt, Terminate,
         BlockOnIO

(* A process is freed at the end of its last ray, and sends no tick after  *)
(* that.                                                                   *)
LEMMA KilledStep ==
  ASSUME IInv, TickTiming # "late", TimingInv, [Next]_vars
  PROVE  KilledOnlyWhenFinished'
<1> USE DEF policyVars, queueVars, ioVars, timeVars, childVars, exitVars,
            localVars
<1>1. /\ TypeOK /\ TicksAttributed /\ PendingInv /\ KilledOnlyWhenFinished
  BY DEF IInv, TimingInv
<1>2. ASSUME UNCHANGED <<sent, freed>> PROVE KilledOnlyWhenFinished'
  BY <1>1, <1>2 DEF KilledOnlyWhenFinished, TotalTicks
<1>3. ASSUME NEW p \in Procs, Tick(p) PROVE KilledOnlyWhenFinished'
  <2>1. p = current_proc /\ pc \in Holding
    BY <1>3, TickInTurn, PlaceNames
  <2>2. p \notin freed
    BY <2>1, HeldFree
  <2>3. sent' = [sent EXCEPT ![p] = @ + 1] /\ UNCHANGED freed
    BY <1>3 DEF Tick
  <2> QED
    BY <1>1, <2>2, <2>3 DEF TypeOK, KilledOnlyWhenFinished, TotalTicks
<1>4. ASSUME Terminate PROVE KilledOnlyWhenFinished'
  <2>1. current_proc \in Procs
    BY <1>4, HeldFree, PlaceNames DEF Terminate
  <2>2. age[current_proc] = TotalTicks(current_proc)
    BY <1>4, <2>1, EndsOf DEF Terminate, rays
  <2>3. ~pending
    BY <1>1, <1>4 DEF Terminate, PendingInv
  <2>4. sent[current_proc] = TotalTicks(current_proc)
    BY <1>1, <2>1, <2>2, <2>3 DEF TypeOK, TicksAttributed
  <2>5. freed' = freed \cup {current_proc} /\ UNCHANGED sent
    BY <1>4 DEF Terminate, exit_handler
  <2> QED
    BY <1>1, <2>4, <2>5 DEF KilledOnlyWhenFinished, TotalTicks
<1> QED
  BY <1>1, <1>2, <1>3, <1>4, StepKinds
     DEF Quiet, HandleSignal, FetchNext, Resume, Aim, Preempt, BlockOnIO

-----------------------------------------------------------------------------
(* A tick is under way only where main waits for it.                       *)
LEMMA PendingStep ==
  ASSUME IInv, TickTiming # "late", TimingInv, [Next]_vars
  PROVE  PendingInv'
<1> USE DEF policyVars, queueVars, ioVars, timeVars, childVars, exitVars,
            localVars
<1>1. TypeOK /\ TicksAttributed /\ PendingInv
  BY DEF IInv, TimingInv
<1>2. ASSUME ~pending' PROVE PendingInv'
  BY <1>2 DEF PendingInv
<1>3. ASSUME Quiet PROVE PendingInv'
  <2>1. (pc' = pc /\ queue' = queue) \/ ~pending'
    BY <1>1, <1>3 DEF Quiet, PendingInv
  <2>2. CASE pc' = pc /\ queue' = queue
    BY <1>1, <1>3, <2>2 DEF Quiet, PendingInv, Waiting, quantum, TotalTicks
  <2> QED
    BY <1>2, <2>1, <2>2
<1>4. ASSUME FetchNext \/ Resume \/ Preempt \/ Terminate \/ BlockOnIO
      PROVE  PendingInv'
  <2>1. ~pending'
    BY <1>1, <1>4
       DEF PendingInv, FetchNext, Resume, Preempt, Terminate, BlockOnIO
  <2> QED
    BY <1>2, <2>1
<1>5. ASSUME NEW p \in Procs, Tick(p) PROVE PendingInv'
  <2>1. /\ p = current_proc /\ ~pending /\ sent[p] < TotalTicks(p)
        /\ \/ pc = "wait" /\ Waiting
           \/ pc = "aim" /\ quantum_timer = 0
    BY <1>5, TickInTurn
  <2>2. age[p] < TotalTicks(p)
    BY <1>1, <2>1 DEF TicksAttributed, TypeOK
  <2>3. UNCHANGED <<pc, quantum_timer, age, current_proc, queue, ray_end>>
    BY <1>5 DEF Tick
  <2> QED
    BY <2>1, <2>2, <2>3 DEF PendingInv, Waiting, quantum, TotalTicks
<1>6. ASSUME HandleSignal PROVE PendingInv'
  BY <1>1, <1>2, <1>6, SignalInTurn
<1>7. ASSUME Aim PROVE PendingInv'
  <2> SUFFICES ASSUME pending PROVE PendingInv'
    BY <1>2, <1>7 DEF Aim
  <2>1. current_proc \in Procs /\ pc = "aim"
    BY <1>7, HeldFree, PlaceNames DEF Aim
  <2>2. quantum_timer = 0 /\ age[current_proc] < TotalTicks(current_proc)
    BY <1>1, <2>1 DEF PendingInv
  <2> DEFINE a == age[current_proc]
             next == get_next_ray_age(Commands[current_proc], a)
  <2>3. a \in Nat
    BY <1>1, <2>1 DEF TypeOK
  <2>4. next > a
    <3>1. ~(a >= get_ray_sum(Commands[current_proc]))
      BY <2>1, <2>2, <2>3, EndsOf
    <3>2. Commands[current_proc] \in Seq(Nat) /\ Commands[current_proc] # <<>>
      BY <2>1, CommandType
    <3> HIDE DEF a
    <3> QED
      BY <2>3, <3>1, <3>2, NextRayAge
  <2>5. next \in Nat
    BY <2>1, <2>3, NextAgeType
  <2>6. 0 < quantum
    BY <1>1, QuantumType
  <2>7. /\ ray_end' = next /\ pc' = "wait"
        /\ UNCHANGED <<quantum_timer, age, queue, current_proc>>
    BY <1>7 DEF Aim, rays
  <2> HIDE DEF next
  <2>8. Waiting'
    BY <2>2, <2>3, <2>4, <2>5, <2>6, <2>7 DEF Waiting, quantum
  <2> QED
    BY <2>7, <2>8 DEF PendingInv
<1> QED
  BY <1>3, <1>4, <1>5, <1>6, <1>7, <1>1, StepKinds

-----------------------------------------------------------------------------
(* The age given back by get_next_ray_age is one to aim at.                *)
LEMMA AimAims ==
  ASSUME NEW c \in Procs, NEW a \in Nat, NEW t \in 0 .. 1, a <= TotalTicks(c)
  PROVE  Aimed(c, a, t, get_next_ray_age(Commands[c], a))
<1> DEFINE ends == RayEnds(Commands[c])
           last == Len(Commands[c])
           next == get_next_ray_age(Commands[c], a)
<1>1. /\ last \in Nat \ {0}
      /\ TotalTicks(c) = get_ray_sum(Commands[c])
      /\ TotalTicks(c) = ends[last]
      /\ TotalTicks(c) \in Nat
      /\ \A k \in 0 .. last : ends[k] \in Nat
  BY EndsOf
<1>2. IF a >= get_ray_sum(Commands[c]) THEN next = a
      ELSE /\ \E k \in 1 .. last : next = ends[k]
           /\ next > a
           /\ \A j \in 0 .. last : ends[j] > a => next <= ends[j]
  BY CommandType, NextRayAge
<1>3. next \in Nat
  BY NextAgeType
<1> HIDE DEF next, ends, last
<1>4. a <= next /\ \E k \in 1 .. last : ends[k] = next
  <2>1. CASE a >= get_ray_sum(Commands[c])
    <3>1. next = a /\ a = ends[last] /\ last \in 1 .. last
      BY <1>1, <1>2, <2>1
    <3> QED
      BY <3>1
  <2>2. CASE ~(a >= get_ray_sum(Commands[c]))
    BY <1>2, <1>3, <2>2
  <2> QED
    BY <2>1, <2>2
<1>5. ASSUME NEW k \in 0 .. last, ends[k] < next PROVE ends[k] <= a - t + 1
  <2>1. ends[k] <= a
    BY <1>1, <1>2, <1>3, <1>5
  <2> QED
    BY <1>1, <2>1
<1> QED
  BY <1>4, <1>5 DEF Aimed, ends, last, next

(* No process is charged more ticks than its rays have.                    *)
LEMMA AgeWithin ==
  ASSUME TypeOK, TicksAttributed, SentInv, NEW p \in Procs
  PROVE  age[p] <= TotalTicks(p)
<1>1. sent[p] \in Nat /\ age[p] \in Nat /\ TotalTicks(p) \in Nat
  BY EndsOf DEF TypeOK
<1>2. sent[p] = age[p] + (IF pending /\ p = current_proc THEN 1 ELSE 0)
  BY DEF TicksAttributed
<1>3. sent[p] <= TotalTicks(p)
  BY DEF SentInv
<1> QED
  BY <1>1, <1>2, <1>3

(* A turn is charged at most one tick before it aims, and then keeps its   *)
(* aim.                                                                    *)
LEMMA AimedStep ==
  ASSUME IInv, TickTiming # "late", TimingInv, [Next]_vars
  PROVE  /\ pc' = "aim" => quantum_timer' <= 1
         /\ AimedInTurn'
<1> USE DEF policyVars, queueVars, ioVars, timeVars, childVars, exitVars,
            localVars
<1> DEFINE Goal == (pc' = "aim" => quantum_timer' <= 1) /\ AimedInTurn'
<1>1. TypeOK /\ TicksAttributed /\ PendingInv /\ SentInv
  BY DEF IInv, TimingInv
<1>2. pc = "aim" => quantum_timer <= 1
  BY DEF TimingInv, AimInv
<1>3. AimedInTurn
  BY Zenon DEF TimingInv, AimInv, AimedInTurn, Aimed, rays
<1>4. ASSUME UNCHANGED <<quantum_timer, age, current_proc, ray_end>>,
             pc' = "aim" => pc = "aim", InTurn' => InTurn
      PROVE  Goal
  BY <1>2, <1>3, <1>4 DEF AimedInTurn
<1>5. ASSUME Quiet PROVE Goal
  BY <1>4, <1>5, PlaceNames DEF Quiet, InTurn
<1>6. ASSUME FetchNext \/ Resume \/ Terminate \/ BlockOnIO PROVE Goal
  BY <1>6 DEF FetchNext, Resume, Terminate, BlockOnIO, AimedInTurn, InTurn
<1>7. ASSUME Preempt \/ \E p \in Procs : Tick(p) PROVE Goal
  BY <1>4, <1>7 DEF Preempt, Tick, InTurn
<1>8. ASSUME Aim PROVE Goal
  <2>1. current_proc \in Procs /\ pc = "aim"
    BY <1>8, HeldFree, PlaceNames DEF Aim
  <2>2. age[current_proc] \in Nat /\ quantum_timer \in 0 .. 1
    BY <1>1, <1>2, <2>1 DEF TypeOK
  <2>3. age[current_proc] <= TotalTicks(current_proc)
    BY <1>1, <2>1, AgeWithin
  <2>4. Aimed(current_proc, age[current_proc], quantum_timer,
              get_next_ray_age(Commands[current_proc], age[current_proc]))
    BY <2>1, <2>2, <2>3, AimAims
  <2>5. /\ ray_end' = get_next_ray_age(Commands[current_proc], age[current_proc])
        /\ pc' = "wait" /\ UNCHANGED <<quantum_timer, age, current_proc>>
    BY <1>8 DEF Aim, rays
  <2> QED
    BY <2>4, <2>5 DEF AimedInTurn
<1>9. ASSUME HandleSignal PROVE Goal
  <2>1. /\ pc \in {"aim", "wait"} /\ pending /\ current_proc \in Procs
        /\ quantum_timer' = quantum_timer + 1
        /\ age' = [age EXCEPT ![current_proc] = @ + 1]
        /\ UNCHANGED <<pc, ray_end, current_proc>>
    BY <1>1, <1>9, SignalInTurn
  <2>2. pc = "aim" => quantum_timer = 0
    BY <1>1, <2>1 DEF PendingInv
  <2>3. CASE pc = "aim"
    BY <2>1, <2>2, <2>3 DEF AimedInTurn, InTurn
  <2>4. CASE pc = "wait"
    <3>1. age[current_proc] < ray_end
      BY <1>1, <2>1, <2>4 DEF PendingInv, Waiting
    <3>2. PICK c \in Procs, a \in Nat, t \in Nat, goal \in Nat :
            /\ c = current_proc /\ a = age[current_proc]
            /\ t = quantum_timer /\ goal = ray_end
      BY <1>1, <2>1 DEF TypeOK
    <3>3. Aimed(c, a, t, goal)
      BY <1>3, <2>4, <3>2 DEF AimedInTurn, InTurn
    <3>4. Aimed(c, a + 1, t + 1, goal)
      <4>1. a + 1 <= goal /\ (a + 1) - (t + 1) + 1 = a - t + 1
        BY <3>1, <3>2
      <4> QED
        BY <3>3, <4>1, Zenon DEF Aimed
    <3>5. /\ current_proc' = c /\ ray_end' = goal /\ quantum_timer' = t + 1
          /\ age'[c] = a + 1
      BY <1>1, <2>1, <3>2 DEF TypeOK
    <3> QED
      BY <2>1, <2>4, <3>4, <3>5 DEF AimedInTurn
  <2> QED
    BY <2>1, <2>3, <2>4
<1> QED
  BY <1>1, <1>5, <1>6, <1>7, <1>8, <1>9, StepKinds

-----------------------------------------------------------------------------
(* The verdict is on the age the turn ended with.                          *)
LEMMA VerdictStep ==
  ASSUME IInv, TickTiming # "late", TimingInv, [Next]_vars
  PROVE  VerdictInv'
<1> USE DEF policyVars, queueVars, ioVars, timeVars, childVars, exitVars,
            localVars
<1>1. PendingInv /\ VerdictInv
  BY DEF TimingInv
<1>2. ASSUME Quiet PROVE VerdictInv'
  BY <1>1, <1>2, PlaceNames DEF Quiet, VerdictInv, rays
<1>3. ASSUME pc' \notin {"judge_end", "judge_io"} PROVE VerdictInv'
  BY <1>3 DEF VerdictInv
<1>4. ASSUME HandleSignal PROVE VerdictInv'
  BY <1>1, <1>3, <1>4, SignalInTurn
<1>5. ASSUME NEW p \in Procs, Tick(p) PROVE VerdictInv'
  BY <1>3, <1>5, TickInTurn DEF Tick
<1>6. ASSUME FetchNext \/ Resume \/ Aim \/ Preempt \/ Terminate \/ BlockOnIO
      PROVE  VerdictInv'
  BY <1>3, <1>6 DEF FetchNext, Resume, Aim, Preempt, Terminate, BlockOnIO
<1> QED
  BY <1>2, <1>4, <1>5, <1>6, StepKinds DEF IInv

(* The handler charges no tick beyond the quantum.                         *)
LEMMA QuantumStep ==
  ASSUME IInv, TickTiming # "late", TimingInv, [Next]_vars
  PROVE  QuantumRespected'
<1> USE DEF policyVars, queueVars, ioVars, timeVars, childVars, exitVars,
            localVars
<1>1. TypeOK /\ PendingInv /\ QuantumRespected /\ quantum \in Nat \ {0}
  BY QuantumType DEF IInv, TimingInv
<1>2. ASSUME UNCHANGED <<quantum_timer, queue>>,
             pc' \in Holding \ {"resume"} => pc \in Holding \ {"resume"}
      PROVE  QuantumRespected'
  BY <1>1, <1>2 DEF QuantumRespected, quantum
<1>3. ASSUME pc' \notin Holding \ {"resume"} PROVE QuantumRespected'
  BY <1>3 DEF QuantumRespected
<1>4. ASSUME Quiet PROVE QuantumRespected'
  BY <1>2, <1>3, <1>4, PlaceNames DEF Quiet
<1>5. ASSUME FetchNext \/ Terminate \/ BlockOnIO PROVE QuantumRespected'
  BY <1>3, <1>5, PlaceNames DEF FetchNext, Terminate, BlockOnIO
<1>6. ASSUME Aim \/ Preempt \/ \E p \in Procs : Tick(p) PROVE QuantumRespected'
  BY <1>2, <1>6, PlaceNames DEF Aim, Preempt, Tick
<1>7. ASSUME Resume PROVE QuantumRespected'
  BY <1>1, <1>7 DEF Resume, QuantumRespected, quantum
<1>8. ASSUME HandleSignal PROVE QuantumRespected'
  <2>1. /\ pc \in {"aim", "wait"} /\ pending
        /\ quantum_timer' = quantum_timer + 1 /\ queue' = queue
    BY <1>1, <1>8, SignalInTurn
  <2>2. quantum_timer = 0 \/ quantum_timer < quantum
    BY <1>1, <2>1 DEF PendingInv, Waiting
  <2>3. quantum_timer \in Nat
    BY <1>1 DEF TypeOK
  <2>4. quantum_timer' <= quantum
    BY <1>1, <2>1, <2>2, <2>3
  <2> QED
    BY <2>1, <2>4 DEF QuantumRespected, quantum
<1> QED
  BY <1>1, <1>4, <1>5, <1>6, <1>7, <1>8, StepKinds

(* A process blocks where a ray ends, and its age stays what it is.        *)
LEMMA BlockedStep ==
  ASSUME IInv, TickTiming # "late", TimingInv, [Next]_vars
  PROVE  BlockedAtRayEnd'
<1> USE DEF policyVars, queueVars, ioVars, timeVars, childVars, exitVars,
            localVars
<1> DEFINE AtEnd(p, a) ==
             \E k \in 1 .. Len(Commands[p]) - 1 :
               a = RayEnds(Commands[p])[k] /\ a < TotalTicks(p)
<1>1. TypeOK /\ PendingInv
  BY DEF IInv, TimingInv
<1>2. \A p \in Blocked : AtEnd(p, age[p])
  BY DEF TimingInv, BlockedAtRayEnd
<1>3. ASSUME \A p \in Blocked' : AtEnd(p, age'[p]) PROVE BlockedAtRayEnd'
  BY <1>3 DEF BlockedAtRayEnd, TotalTicks
<1> HIDE DEF AtEnd
<1>4. ASSUME UNCHANGED age, Blocked' \subseteq Blocked PROVE BlockedAtRayEnd'
  BY <1>2, <1>3, <1>4
<1>5. ASSUME Quiet PROVE BlockedAtRayEnd'
  BY <1>4, <1>5 DEF Quiet
<1>6. ASSUME \/ FetchNext \/ Resume \/ Aim \/ Preempt \/ Terminate
             \/ \E p \in Procs : Tick(p)
      PROVE  BlockedAtRayEnd'
  BY <1>4, <1>6
     DEF FetchNext, Resume, Aim, Preempt, Terminate, Tick, Blocked
<1>7. ASSUME HandleSignal PROVE BlockedAtRayEnd'
  <2>1. /\ current_proc \notin Blocked
        /\ age' = [age EXCEPT ![current_proc] = @ + 1] /\ UNCHANGED io
    BY <1>1, <1>7, SignalInTurn
  <2>2. Blocked' = Blocked /\ \A p \in Blocked : age'[p] = age[p]
    BY <1>1, <2>1 DEF Blocked, TypeOK
  <2> QED
    BY <1>2, <1>3, <2>2
<1>8. ASSUME BlockOnIO PROVE BlockedAtRayEnd'
  <2>1. current_proc \in Procs /\ pc = "judge_io"
    BY <1>8, HeldFree, PlaceNames DEF BlockOnIO
  <2>2. PICK c \in Procs : c = current_proc
    BY <2>1
  <2>3. age[c] = ray_end /\ age[c] # get_ray_sum(Commands[c])
    BY <2>1, <2>2 DEF TimingInv, VerdictInv, rays
  <2>4. PICK k \in 1 .. Len(Commands[c]) : ray_end = RayEnds(Commands[c])[k]
    BY <2>1, <2>2 DEF TimingInv, AimInv, InTurn, rays
  <2>5. AtEnd(c, age[c])
    <3> DEFINE ends == RayEnds(Commands[c])
    <3>1. /\ Len(Commands[c]) \in Nat \ {0}
          /\ TotalTicks(c) = get_ray_sum(Commands[c])
          /\ TotalTicks(c) = ends[Len(Commands[c])]
          /\ TotalTicks(c) \in Nat
          /\ \A j \in 0 .. Len(Commands[c]) :
               ends[j] \in Nat /\ ends[j] <= TotalTicks(c)
      BY EndsOf
    <3>2. age[c] = ends[k]
      BY <2>3, <2>4
    <3> HIDE DEF ends
    <3>3. k # Len(Commands[c])
      BY <2>3, <3>1, <3>2
    <3>4. k \in 1 .. Len(Commands[c]) - 1
      BY <3>1, <3>3
    <3>5. age[c] < TotalTicks(c)
      BY <2>3, <3>1, <3>2
    <3> QED
      BY <3>2, <3>4, <3>5 DEF AtEnd, ends
  <2>6. Blocked' = Blocked \cup {c} /\ UNCHANGED age
    BY <1>1, <1>8, <2>2 DEF BlockOnIO, pthread_create, Blocked, TypeOK
  <2> QED
    BY <1>2, <1>3, <2>5, <2>6
<1> QED
  BY <1>1, <1>5, <1>6, <1>7, <1>8, StepKinds

-----------------------------------------------------------------------------
(* At the start no time has passed.                                        *)
LEMMA TimingInit == Init => TimingInv
<1> SUFFICES ASSUME Init PROVE TimingInv
  OBVIOUS
<1>1. TicksAttributed /\ PendingInv /\ AimInv /\ VerdictInv
  BY DEF Init, TicksAttributed, PendingInv, AimInv, VerdictInv, InTurn
<1>2. SentInv
  BY EndsOf DEF Init, SentInv
<1>3. QuantumRespected /\ BlockedAtRayEnd /\ KilledOnlyWhenFinished
  BY PlaceNames
     DEF Init, QuantumRespected, BlockedAtRayEnd, Blocked, KilledOnlyWhenFinished
<1> QED
  BY <1>1, <1>2, <1>3 DEF TimingInv

LEMMA TimingStep ==
  ASSUME TickTiming # "late"
  PROVE  IInv /\ TimingInv /\ [Next]_vars => TimingInv'
<1> SUFFICES ASSUME IInv, TimingInv, [Next]_vars PROVE TimingInv'
  OBVIOUS
<1>1. AimInv'
  BY AimedStep, Zenon DEF AimInv, AimedInTurn, Aimed, rays
<1>2. SentInv'
  BY SentStep DEF IInv, TimingInv
<1> QED
  BY <1>1, <1>2, AttributedStep, PendingStep, VerdictStep, QuantumStep,
     BlockedStep, KilledStep DEF TimingInv

LEMMA Timed == ASSUME TickTiming # "late" PROVE Spec => []TimingInv
<1>1. IInv /\ TimingInv /\ [Next]_vars => TimingInv'
  BY TimingStep
<1> QED
  BY <1>1, TimingInit, Inductive, PTL DEF Spec

-----------------------------------------------------------------------------
(* No tick is lost, charged to another process or handled by way of a      *)
(* freed one, as long as ticks are not late.                               *)
THEOREM TicksAttributedHolds ==
  ASSUME TickTiming # "late" PROVE Spec => []TicksAttributed
<1>1. TimingInv => TicksAttributed
  BY DEF TimingInv
<1> QED
  BY <1>1, Timed, PTL

(* No child is killed before it has done all of its rays.                  *)
THEOREM KilledOnlyWhenFinishedHolds ==
  ASSUME TickTiming # "late" PROVE Spec => []KilledOnlyWhenFinished
<1>1. TimingInv => KilledOnlyWhenFinished
  BY DEF TimingInv
<1> QED
  BY <1>1, Timed, PTL

(* No turn is longer than its quantum.                                     *)
THEOREM QuantumRespectedHolds ==
  ASSUME TickTiming # "late" PROVE Spec => []QuantumRespected
<1>1. TimingInv => QuantumRespected
  BY DEF TimingInv
<1> QED
  BY <1>1, Timed, PTL

(* A process blocks for I/O only at the end of a ray that is not its last. *)
THEOREM BlockedAtRayEndHolds ==
  ASSUME TickTiming # "late" PROVE Spec => []BlockedAtRayEnd
<1>1. TimingInv => BlockedAtRayEnd
  BY DEF TimingInv
<1> QED
  BY <1>1, Timed, PTL

(* A turn goes past no end of a ray but one that its first tick reaches.   *)
THEOREM OnlyFirstTickPassesHolds ==
  ASSUME TickTiming # "late" PROVE Spec => []OnlyFirstTickPasses
<1>1. IInv /\ TimingInv => OnlyFirstTickPasses
  <2> SUFFICES ASSUME IInv, TimingInv, InTurn, NEW k \in PassedEnds
               PROVE  RayEnds(Commands[current_proc])[k]
                        = age[current_proc] - quantum_timer + 1
    BY DEF OnlyFirstTickPasses
  <2>1. current_proc \in Procs
    BY HeldFree, PlaceNames DEF InTurn
  <2> DEFINE ends == RayEnds(Commands[current_proc])
             began == age[current_proc] - quantum_timer
  <2>2. k \in DOMAIN ends /\ began < ends[k] /\ ends[k] < ray_end
    BY DEF PassedEnds
  <2>3. k \in 0 .. Len(Commands[current_proc]) /\ ends[k] \in Nat
    BY <2>1, <2>2, EndsOf
  <2>4. ends[k] <= began + 1
    BY <2>2, <2>3 DEF TimingInv, AimInv, rays
  <2>5. began \in Int
    BY <2>1 DEF IInv, TypeOK
  <2> HIDE DEF ends, began
  <2>6. ends[k] = began + 1
    BY <2>2, <2>3, <2>4, <2>5
  <2> QED
    BY <2>6 DEF ends, began
<1> QED
  BY <1>1, Timed, Inductive, PTL

-----------------------------------------------------------------------------
(* With ticks in the busy wait only, main aims with no tick of the turn.   *)
NonePassed(c, began, goal) ==
  \A k \in DOMAIN RayEnds(Commands[c]) :
    ~(began < RayEnds(Commands[c])[k] /\ RayEnds(Commands[c])[k] < goal)

NonePassedInTurn ==
  InTurn => NonePassed(current_proc, age[current_proc] - quantum_timer, ray_end)

LEMMA NextIsNearest ==
  ASSUME NEW c \in Procs, NEW a \in Nat
  PROVE  NonePassed(c, a, get_next_ray_age(Commands[c], a))
<1> DEFINE ends == RayEnds(Commands[c])
           last == Len(Commands[c])
           next == get_next_ray_age(Commands[c], a)
<1>1. DOMAIN ends = 0 .. last /\ \A k \in 0 .. last : ends[k] \in Nat
  BY EndsOf
<1>2. IF a >= get_ray_sum(Commands[c]) THEN next = a
      ELSE /\ \E k \in 1 .. last : next = ends[k]
           /\ next > a
           /\ \A j \in 0 .. last : ends[j] > a => next <= ends[j]
  BY CommandType, NextRayAge
<1>3. next \in Nat
  BY NextAgeType
<1> HIDE DEF next, ends, last
<1>4. ASSUME NEW k \in 0 .. last, a < ends[k], ends[k] < next PROVE FALSE
  BY <1>1, <1>2, <1>3, <1>4
<1> QED
  BY <1>1, <1>4 DEF NonePassed, ends, last, next

LEMMA SettledStep ==
  ASSUME TickTiming = "settled", IInv, TimingInv, SettledInv, [Next]_vars
  PROVE  SettledInv'
<1> USE DEF policyVars, queueVars, ioVars, timeVars, childVars, exitVars,
            localVars
<1> DEFINE Calm == pc = "aim" => quantum_timer = 0 /\ ~pending
           Goal == Calm' /\ NonePassedInTurn'
<1>1. TypeOK /\ PendingInv /\ Calm
  BY DEF IInv, TimingInv, SettledInv
<1>2. NonePassedInTurn
  BY DEF SettledInv, RayEndIsNextBoundary, PassedEnds, NonePassedInTurn, NonePassed
<1>3. ASSUME UNCHANGED <<quantum_timer, age, current_proc, ray_end, pending>>,
             pc' = "aim" => pc = "aim", InTurn' => InTurn
      PROVE  Goal
  BY <1>1, <1>2, <1>3 DEF NonePassedInTurn
<1>4. ASSUME Quiet PROVE Goal
  BY <1>3, <1>4, PlaceNames DEF Quiet, InTurn
<1>5. ASSUME FetchNext \/ Terminate \/ BlockOnIO PROVE Goal
  BY <1>5 DEF FetchNext, Terminate, BlockOnIO, NonePassedInTurn, InTurn
<1>6. ASSUME Resume PROVE Goal
  BY <1>1, <1>6 DEF Resume, PendingInv, NonePassedInTurn, InTurn
<1>7. ASSUME Preempt PROVE Goal
  BY <1>3, <1>7 DEF Preempt, InTurn
<1>8. ASSUME NEW p \in Procs, Tick(p) PROVE Goal
  <2>1. pc = "wait"
    BY <1>8 DEF Tick, OnTime
  <2> QED
    BY <1>2, <1>8, <2>1 DEF Tick, NonePassedInTurn, InTurn
<1>9. ASSUME Aim PROVE Goal
  <2>1. current_proc \in Procs /\ pc = "aim" /\ quantum_timer = 0
    BY <1>1, <1>9, HeldFree, PlaceNames DEF Aim
  <2>2. PICK a \in Nat : a = age[current_proc] /\ a - quantum_timer = a
    BY <1>1, <2>1 DEF TypeOK
  <2>3. /\ ray_end' = get_next_ray_age(Commands[current_proc], a)
        /\ pc' = "wait" /\ UNCHANGED <<quantum_timer, age, current_proc>>
    BY <1>9, <2>2 DEF Aim, rays
  <2>4. NonePassed(current_proc, a, ray_end')
    BY <2>1, <2>3, NextIsNearest
  <2> QED
    BY <2>2, <2>3, <2>4 DEF NonePassedInTurn
<1>10. ASSUME HandleSignal PROVE Goal
  <2>1. /\ pc \in {"aim", "wait"} /\ pending /\ current_proc \in Procs
        /\ quantum_timer' = quantum_timer + 1
        /\ age' = [age EXCEPT ![current_proc] = @ + 1]
        /\ UNCHANGED <<pc, ray_end, current_proc>>
    BY <1>1, <1>10, SignalInTurn DEF IInv
  <2>2. pc = "wait"
    BY <1>1, <2>1
  <2>3. age'[current_proc] - quantum_timer' = age[current_proc] - quantum_timer
    <3>1. age[current_proc] \in Nat /\ quantum_timer \in Nat
      BY <1>1, <2>1 DEF TypeOK
    <3>2. age'[current_proc] = age[current_proc] + 1
      BY <1>1, <2>1 DEF TypeOK
    <3> QED
      BY <2>1, <3>1, <3>2
  <2> QED
    BY <1>2, <2>1, <2>2, <2>3 DEF NonePassedInTurn, InTurn
<1>11. Goal
  BY <1>1, <1>4, <1>5, <1>6, <1>7, <1>8, <1>9, <1>10, StepKinds
<1> QED
  BY <1>11 DEF SettledInv, RayEndIsNextBoundary, PassedEnds, NonePassedInTurn,
               NonePassed

(* When ticks only come in the busy wait a turn does end at the next end   *)
(* of a ray, as the documents say: v_boundary is due to the early tick.    *)
THEOREM RayEndIsNextBoundaryWhenSettled ==
  ASSUME TickTiming = "settled" PROVE Spec => []RayEndIsNextBoundary
<1>1. Init => SettledInv
  BY DEF Init, SettledInv, RayEndIsNextBoundary, InTurn
<1>2. IInv /\ TimingInv /\ SettledInv /\ [Next]_vars => SettledInv'
  BY SettledStep
<1>3. Spec => []TimingInv
  BY Timed
<1>4. SettledInv => RayEndIsNextBoundary
  BY DEF SettledInv
<1> QED
  BY <1>1, <1>2, <1>3, <1>4, Inductive, PTL DEF Spec
=============================================================================
