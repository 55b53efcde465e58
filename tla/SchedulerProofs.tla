-------------------------- MODULE SchedulerProofs --------------------------
(***************************************************************************)
(* Proofs about the scheduler, for every list of commands, number of       *)
(* queues, smallest quantum and timing of the ticks.                       *)
(***************************************************************************)
EXTENDS SchedulerProps, DataFacts, FiniteSetTheorems

-----------------------------------------------------------------------------
(* What the loops of get_ray_sum and get_next_ray_age compute, for every   *)
(* sequence of rays.  The inductions over the rays are by the least        *)
(* counterexample, which needs no induction rule with an operator for a    *)
(* parameter.                                                              *)

(* The recursive function exists: its values are those the loop adds up.   *)
LEMMA RayEndsDef ==
  ASSUME NEW lens \in Seq(Nat)
  PROVE  RayEnds(lens) = [k \in 0 .. Len(lens) |->
           IF k = 0 THEN 0 ELSE RayEnds(lens)[k - 1] + lens[k]]
<1> DEFINE F(n, f) == f = [k \in 0 .. n |-> IF k = 0 THEN 0
                                            ELSE f[k - 1] + lens[k]]
           Bad == {n \in 0 .. Len(lens) : ~ \E f : F(n, f)}
<1>1. Len(lens) \in Nat
  BY LenProperties
<1>2. Bad = {}
  <2> SUFFICES ASSUME Bad # {} PROVE FALSE
    OBVIOUS
  <2>1. PICK n \in Bad : \A m \in Bad : n <= m
    <3>1. Bad \subseteq Nat
      BY <1>1
    <3> HIDE DEF Bad
    <3> QED
      BY <3>1, Least
  <2>2. n \in 0 .. Len(lens) /\ ~ \E f : F(n, f)
    BY <2>1
  <2>3. n # 0
    <3>1. F(0, [k \in 0 .. 0 |-> 0])
      OBVIOUS
    <3> HIDE DEF F
    <3> QED
      BY <2>2, <3>1
  <2>4. n - 1 \in 0 .. Len(lens) /\ n - 1 \notin Bad
    <3> HIDE DEF Bad
    <3> QED
      BY <1>1, <2>1, <2>2, <2>3
  <2>5. PICK g : F(n - 1, g)
    BY <2>4
  <2> DEFINE f == [k \in 0 .. n |-> IF k = n THEN g[n - 1] + lens[n] ELSE g[k]]
  <2>6. \A k \in 0 .. n : f[k] = IF k = 0 THEN 0 ELSE f[k - 1] + lens[k]
    <3> TAKE k \in 0 .. n
    <3>1. CASE k = n
      BY <1>1, <2>2, <2>3, <3>1
    <3>2. CASE k # n
      <4>1. k \in 0 .. n - 1 /\ (k # 0 => k - 1 # n /\ k - 1 \in 0 .. n)
        BY <1>1, <2>2, <3>2
      <4>2. g[k] = IF k = 0 THEN 0 ELSE g[k - 1] + lens[k]
        BY <2>5, <4>1
      <4> QED
        BY <4>1, <4>2, <3>2
    <3> QED
      BY <3>1, <3>2
  <2>7. F(n, f)
    BY <2>6
  <2> HIDE DEF F
  <2> QED
    BY <2>2, <2>7
<1>3. PICK f : F(Len(lens), f)
  BY <1>1, <1>2
<1>4. F(Len(lens), RayEnds(lens))
  BY <1>3 DEF RayEnds
<1> QED
  BY <1>4

(* One turn of the loop.                                                   *)
LEMMA RayEndsStep ==
  ASSUME NEW lens \in Seq(Nat)
  PROVE  /\ DOMAIN RayEnds(lens) = 0 .. Len(lens)
         /\ RayEnds(lens)[0] = 0
         /\ \A k \in 1 .. Len(lens) :
              RayEnds(lens)[k] = RayEnds(lens)[k - 1] + lens[k]
<1>1. Len(lens) \in Nat
  BY LenProperties
<1> DEFINE ends == RayEnds(lens)
<1>2. ends = [k \in 0 .. Len(lens) |-> IF k = 0 THEN 0 ELSE ends[k - 1] + lens[k]]
  BY RayEndsDef
<1> HIDE DEF ends
<1>3. /\ DOMAIN ends = 0 .. Len(lens)
      /\ \A k \in 0 .. Len(lens) :
           ends[k] = IF k = 0 THEN 0 ELSE ends[k - 1] + lens[k]
  BY <1>2
<1>4. ends[0] = 0
  BY <1>1, <1>3
<1>5. \A k \in 1 .. Len(lens) : ends[k] = ends[k - 1] + lens[k]
  BY <1>1, <1>3
<1> QED
  BY <1>3, <1>4, <1>5 DEF ends

(* The ends of the rays are ages, and each is no earlier than the ones     *)
(* before it.                                                              *)
LEMMA RayEndsGrow ==
  ASSUME NEW lens \in Seq(Nat)
  PROVE  /\ \A k \in 0 .. Len(lens) : RayEnds(lens)[k] \in Nat
         /\ \A k \in 0 .. Len(lens) : \A j \in 0 .. k :
              RayEnds(lens)[j] <= RayEnds(lens)[k]
<1> DEFINE ends == RayEnds(lens)
           Good(k) == ends[k] \in Nat /\ \A j \in 0 .. k : ends[j] <= ends[k]
           Bad == {k \in 0 .. Len(lens) : ~Good(k)}
<1>1. Len(lens) \in Nat
  BY LenProperties
<1>2. /\ ends[0] = 0
      /\ \A k \in 1 .. Len(lens) : ends[k] = ends[k - 1] + lens[k]
  BY RayEndsStep
<1> HIDE DEF ends
<1>3. Bad = {}
  <2> SUFFICES ASSUME Bad # {} PROVE FALSE
    OBVIOUS
  <2>1. PICK n \in Bad : \A m \in Bad : n <= m
    <3>1. Bad \subseteq Nat
      BY <1>1
    <3> HIDE DEF Bad
    <3> QED
      BY <3>1, Least
  <2>2. n \in 0 .. Len(lens) /\ ~Good(n)
    BY <2>1
  <2>3. n # 0
    <3>1. Good(0)
      BY <1>2
    <3> QED
      BY <2>2, <3>1
  <2>4. n - 1 \in 0 .. Len(lens) /\ n - 1 \notin Bad
    <3> HIDE DEF Bad
    <3> QED
      BY <1>1, <2>1, <2>2, <2>3
  <2>5. /\ ends[n - 1] \in Nat
        /\ \A j \in 0 .. n - 1 : ends[j] <= ends[n - 1]
    BY <2>4
  <2>6. n \in 1 .. Len(lens) /\ lens[n] \in Nat
    BY <1>1, <2>2, <2>3, ElementOfSeq
  <2>7. ends[n] = ends[n - 1] + lens[n]
    BY <1>2, <2>6
  <2>8. ends[n] \in Nat /\ ends[n - 1] <= ends[n]
    BY <2>5, <2>6, <2>7
  <2>9. \A j \in 0 .. n : ends[j] <= ends[n]
    <3> TAKE j \in 0 .. n
    <3>1. CASE j = n
      BY <2>8, <3>1
    <3>2. CASE j \in 0 .. n - 1
      <4>1. ends[j] <= ends[n - 1]
        BY <2>5, <3>2
      <4>2. ends[j] \in Nat
        <5>1. j \notin Bad
          <6>1. ~(n <= j)
            BY <2>6, <3>2
          <6> HIDE DEF Bad
          <6> QED
            BY <2>1, <6>1
        <5>2. j \in 0 .. Len(lens)
          BY <1>1, <2>6, <3>2
        <5> QED
          BY <5>1, <5>2
      <4> QED
        BY <2>5, <2>8, <4>1, <4>2
    <3> QED
      BY <2>6, <3>1, <3>2
  <2> QED
    BY <2>2, <2>8, <2>9
<1>4. \A k \in 0 .. Len(lens) : Good(k)
  BY <1>3
<1> QED
  BY <1>4 DEF ends

(* get_ray_sum is the end of the last ray.                                 *)
LEMMA RaySumIsLast ==
  ASSUME NEW lens \in Seq(Nat)
  PROVE  /\ get_ray_sum(lens) \in Nat
         /\ \A k \in 0 .. Len(lens) : RayEnds(lens)[k] <= get_ray_sum(lens)
<1>1. Len(lens) \in Nat
  BY LenProperties
<1> QED
  BY <1>1, RayEndsGrow DEF get_ray_sum

(* get_next_ray_age finds the first end beyond the age: it is the end of a *)
(* ray, and no end is between the two.  An age that has reached the sum is *)
(* given back.                                                             *)
LEMMA NextRayAge ==
  ASSUME NEW lens \in Seq(Nat), lens # <<>>, NEW a \in Nat
  PROVE  LET ends == RayEnds(lens)
             next == get_next_ray_age(lens, a)
         IN  IF a >= get_ray_sum(lens) THEN next = a
             ELSE /\ \E k \in 1 .. Len(lens) : next = ends[k]
                  /\ next > a
                  /\ \A j \in 0 .. Len(lens) : ends[j] > a => next <= ends[j]
<1> DEFINE ends == RayEnds(lens)
           beyond == {k \in 0 .. Len(lens) : ends[k] > a}
           next == get_next_ray_age(lens, a)
<1>1. Len(lens) \in Nat
  BY LenProperties
<1>2. CASE a >= get_ray_sum(lens)
  BY <1>2 DEF get_next_ray_age
<1>3. CASE ~(a >= get_ray_sum(lens))
  <2>1. next = ends[Min(beyond)]
    BY <1>3 DEF get_next_ray_age
  <2>2. /\ ends[0] = 0
        /\ \A k \in 0 .. Len(lens) : ends[k] \in Nat
        /\ \A k \in 0 .. Len(lens) : \A j \in 0 .. k : ends[j] <= ends[k]
    BY RayEndsStep, RayEndsGrow
  <2>3. ends[Len(lens)] > a
    BY <1>1, <1>3, <2>2 DEF get_ray_sum
  <2> HIDE DEF ends
  <2>4. beyond \subseteq Nat /\ beyond # {}
    BY <1>1, <2>3
  <2> DEFINE k == Min(beyond)
  <2>5. k \in beyond /\ \A j \in beyond : k <= j
    BY <2>4, MinIsLeast
  <2>6. k \in 0 .. Len(lens) /\ ends[k] > a
    BY <2>5
  <2> HIDE DEF k
  <2>7. k # 0
    BY <2>2, <2>6
  <2>8. \A j \in 0 .. Len(lens) : ends[j] > a => ends[k] <= ends[j]
    <3> SUFFICES ASSUME NEW j \in 0 .. Len(lens), ends[j] > a
                 PROVE  ends[k] <= ends[j]
      OBVIOUS
    <3>1. k <= j
      BY <2>5
    <3> QED
      BY <1>1, <2>2, <2>6, <3>1
  <2>9. next = ends[k]
    BY <2>1 DEF k
  <2> QED
    BY <1>1, <1>3, <2>6, <2>7, <2>8, <2>9 DEF ends
<1> QED
  BY <1>2, <1>3

-----------------------------------------------------------------------------
(* The policy functions map queues to queues.                              *)
LEMMA PolicyType ==
  ASSUME NEW id \in QueueIds
  PROVE  /\ get_lower_priority_queue_id(id) \in QueueIds
         /\ get_higher_priority_queue_id(id) \in QueueIds
         /\ get_queue_runs(id) \in Nat
         /\ (id + 1) % N_OF_QUEUES \in QueueIds
<1>1. /\ N_OF_QUEUES \in Nat \ {0}
      /\ \A i \in QueueIds : power_of_two(i) \in Nat
  BY QueueAssumption, PowersAssumption
<1>2. get_lower_priority_queue_id(id) \in QueueIds
  BY <1>1 DEF QueueIds, get_lower_priority_queue_id
<1>3. get_higher_priority_queue_id(id) \in QueueIds
  BY <1>1 DEF QueueIds, get_higher_priority_queue_id
<1>4. get_queue_runs(id) \in Nat
  <2>1. N_OF_QUEUES - id - 1 \in QueueIds
    BY <1>1 DEF QueueIds
  <2> QED
    BY <1>1, <2>1 DEF get_queue_runs
<1>5. (id + 1) % N_OF_QUEUES \in QueueIds
  BY <1>1 DEF QueueIds
<1> QED
  BY <1>2, <1>3, <1>4, <1>5

(* A command has rays, and get_next_ray_age gives them an age to aim at.   *)
LEMMA CommandType ==
  ASSUME NEW p \in Procs
  PROVE  Commands[p] \in Seq(Nat) /\ Commands[p] # <<>>
<1>1. Commands[p] \in Seq(Nat) \ {<<>>}
  BY CommandsAssumption, ElementOfSeq DEF Procs
<1> QED
  BY <1>1

LEMMA NextAgeType ==
  ASSUME NEW p \in Procs, NEW a \in Nat
  PROVE  get_next_ray_age(Commands[p], a) \in Nat
<1>1. Commands[p] \in Seq(Nat) /\ Commands[p] # <<>>
  BY CommandType
<1> DEFINE ends == RayEnds(Commands[p])
           next == get_next_ray_age(Commands[p], a)
<1>2. next = a \/ \E k \in 1 .. Len(Commands[p]) : next = ends[k]
  BY <1>1, NextRayAge
<1>3. \A k \in 0 .. Len(Commands[p]) : ends[k] \in Nat
  BY <1>1, RayEndsGrow
<1>4. Len(Commands[p]) \in Nat
  BY <1>1, LenProperties
<1> HIDE DEF ends, next
<1>5. next \in Nat
  BY <1>2, <1>3, <1>4
<1> QED
  BY <1>5 DEF next

(* A node that is inserted is on the queue once, at its end.               *)
LEMMA InsProperties ==
  ASSUME NEW S, NEW s \in Seq(S), NEW e \in S, HasNoDuplicate(s)
  PROVE  /\ qhead_ins(s, e) \in Seq(S)
         /\ Range(qhead_ins(s, e)) = Range(s) \cup {e}
         /\ HasNoDuplicate(qhead_ins(s, e))
<1>1. CASE e \in Range(s)
  BY <1>1 DEF qhead_ins, IsDuplicate
<1>2. CASE e \notin Range(s)
  BY <1>2, AppendOnce DEF qhead_ins, IsDuplicate, HasNoDuplicate
<1> QED
  BY <1>1, <1>2

(* qhead_rm takes the first node off the queue for good.                   *)
LEMMA RmProperties ==
  ASSUME NEW S, NEW s \in Seq(S), s # <<>>, HasNoDuplicate(s)
  PROVE  /\ Head(s) \in S
         /\ Tail(s) \in Seq(S)
         /\ Head(s) \in Range(s)
         /\ Range(Tail(s)) = Range(s) \ {Head(s)}
         /\ HasNoDuplicate(Tail(s))
BY TailOnce DEF HasNoDuplicate

(* qhead_transfer between queues without a common node moves every node.   *)
LEMMA TransferProperties ==
  ASSUME NEW S, NEW s \in Seq(S), NEW d \in Seq(S),
         Range(s) \cap Range(d) = {}, HasNoDuplicate(s), HasNoDuplicate(d)
  PROVE  /\ qhead_transfer(s, d) \in Seq(S)
         /\ Range(qhead_transfer(s, d)) = Range(d) \cup Range(s)
         /\ HasNoDuplicate(qhead_transfer(s, d))
<1>1. qhead_transfer(s, d) = d \o s
  BY DEF qhead_transfer
<1> QED
  BY <1>1, ConcatOnce DEF HasNoDuplicate

-----------------------------------------------------------------------------
(* Type correctness.  The transfer of the auxiliary queue is where it      *)
(* needs OnePlace: only then is the transfer a concatenation.              *)

(* At most one of two places has a given process.                          *)
LEMMA Disjoint ==
  ASSUME OnePlace, NEW id \in QueueIds, TypeOK
  PROVE  Range(aux_queue) \cap Range(queues[id]) = {}
<1> SUFFICES ASSUME NEW p \in Range(aux_queue), p \in Range(queues[id])
             PROVE  FALSE
  OBVIOUS
<1>1. p \in Procs
  BY RangeOfSeq DEF TypeOK
<1>2. At(p, AUX_ID) /\ At(p, id)
  BY DEF At
<1>3. AUX_ID \in Places /\ id \in Places /\ AUX_ID # id
  BY QueueAssumption DEF Places, AUX_ID, QueueIds
<1> QED
  BY <1>1, <1>2, <1>3 DEF OnePlace, PlacedOnce

(* The names of the places, as one set each.                               *)
LEMMA PlaceNames ==
  /\ MainPlaces = {"loop", "take", "done", "exited", "switch", "fetch", "judge",
                   "merge", "switch_cr", "fetch_cr", "judge_cr", "judge_end",
                   "judge_io", "no_memory", "merge_cr", "resume", "aim",
                   "wait"}
  /\ IOPlaces = {"none", "sleeping", "not_created", "waiting", "inserting"}
  /\ AtSemaphore = {"switch", "fetch", "judge", "merge"}
  /\ MainInRegion = {"switch_cr", "fetch_cr", "judge_cr", "judge_end",
                     "judge_io", "merge_cr", "no_memory"}
  /\ Holding = {"resume", "aim", "wait", "judge", "judge_cr", "judge_end",
                "judge_io", "no_memory"}
BY DEF MainPlaces, IOPlaces, AtSemaphore, MainInRegion, Holding

(* The initial values have their types.                                    *)
LEMMA TypeInit == Init => TypeOK
<1> SUFFICES ASSUME Init PROVE TypeOK
  OBVIOUS
<1>1. Len(Commands) \in Nat
  BY CommandsAssumption, LenProperties
<1>2. FIRST_QUEUE_ID \in QueueIds
  BY QueueAssumption DEF FIRST_QUEUE_ID, QueueIds
<1>3. get_queue_runs(FIRST_QUEUE_ID) \in Nat
  BY <1>2, PolicyType
<1>4. [p \in Procs |-> p] \in Seq(Procs)
  BY <1>1, SeqDef DEF Procs
<1>5. queues \in [QueueIds -> Seq(Procs)]
  BY <1>4, EmptySeq DEF Init
<1>6. aux_queue \in Seq(Procs)
  BY EmptySeq DEF Init
<1>7. pending \in BOOLEAN /\ ub \in BOOLEAN
  BY DEF Init
<1>8. pc \in MainPlaces /\ io \in [Procs -> IOPlaces]
  BY PlaceNames DEF Init
<1> QED
  BY <1>1, <1>2, <1>3, <1>5, <1>6, <1>7, <1>8 DEF Init, TypeOK

(* Every step keeps the types.                                             *)
LEMMA TypeStep ==
  ASSUME TypeOK, TurnInv, OnePlace, [Next]_vars
  PROVE  TypeOK'
<1> USE DEF policyVars, queueVars, ioVars, timeVars, childVars, exitVars,
            localVars
<1>1. ASSUME MainEnter PROVE TypeOK'
  <2>1. sem' \in Nat /\ pc' \in MainPlaces
    BY <1>1, PlaceNames DEF TypeOK, MainEnter, sem_enter_cr, Region
  <2> QED
    BY <1>1, <2>1, PlaceNames DEF TypeOK, MainEnter
<1>2. ASSUME Finish \/ StartPass \/ IdlePass PROVE TypeOK'
  BY <1>2, PlaceNames DEF TypeOK, Finish, StartPass, IdlePass
<1>3. ASSUME SwitchQueue PROVE TypeOK'
  <2>1. current_queue' \in QueueIds /\ runs_left' \in Nat
    BY <1>3, PolicyType DEF TypeOK, SwitchQueue, NextQueue
  <2> QED
    BY <1>3, <2>1, PlaceNames DEF TypeOK, SwitchQueue, sem_exit_cr
<1>4. ASSUME TakeRun PROVE TypeOK'
  BY <1>4, PlaceNames DEF TypeOK, TakeRun
<1>5. ASSUME MergeAux PROVE TypeOK'
  <2>1. qhead_transfer(aux_queue, queues[queue]) \in Seq(Procs)
    BY Disjoint, TransferProperties DEF TypeOK, OnePlace, NoNodeTwice
  <2>2. <<>> \in Seq(Procs)
    BY EmptySeq
  <2> QED
    BY <1>5, <2>1, <2>2, PlaceNames DEF TypeOK, MergeAux, Merged, sem_exit_cr
<1>6. ASSUME FetchNext PROVE TypeOK'
  <2>1. queues[queue] \in Seq(Procs) /\ queues[queue] # <<>>
    BY <1>6, PlaceNames DEF TypeOK, FetchNext
  <2>2. Head(queues[queue]) \in Procs /\ Tail(queues[queue]) \in Seq(Procs)
    BY <2>1, HeadTailProperties
  <2>3. queues' \in [QueueIds -> Seq(Procs)] /\ current_proc' \in Procs
    BY <1>6, <2>2, PlaceNames DEF TypeOK, FetchNext
  <2>4. sem' \in Nat
    BY <1>6, PlaceNames DEF TypeOK, FetchNext, sem_exit_cr
  <2> QED
    BY <1>6, <2>3, <2>4, PlaceNames DEF TypeOK, FetchNext
<1>7. ASSUME QueueDrained PROVE TypeOK'
  BY <1>7, PlaceNames DEF TypeOK, QueueDrained, sem_exit_cr
<1>8. ASSUME Resume PROVE TypeOK'
  BY <1>8, PlaceNames DEF TypeOK, TurnInv, Resume, kill_SIGCONT
<1>9. ASSUME Aim PROVE TypeOK'
  <2>1. current_proc \in Procs /\ age[current_proc] \in Nat
    BY <1>9, PlaceNames DEF TypeOK, TurnInv, Aim
  <2>2. ray_end' \in Nat
    BY <1>9, <2>1, NextAgeType DEF Aim, rays
  <2> QED
    BY <1>9, <2>2, PlaceNames DEF TypeOK, Aim
<1>10. ASSUME Preempt PROVE TypeOK'
  BY <1>10, PlaceNames DEF TypeOK, Preempt, kill_SIGSTOP
<1>11. ASSUME RayEnded \/ RayLeft \/ PackFails PROVE TypeOK'
  BY <1>11, PlaceNames DEF TypeOK, RayEnded, RayLeft, PackFails
<1>12. ASSUME Demote PROVE TypeOK'
  <2>1. current_proc \in Procs
    BY <1>12, PlaceNames DEF TurnInv, Demote
  <2>2. qhead_ins(aux_queue, current_proc) \in Seq(Procs)
    BY <2>1, InsProperties DEF TypeOK, OnePlace, NoNodeTwice
  <2> DEFINE lower == get_lower_priority_queue_id(current_queue)
  <2>3. lower \in QueueIds
    BY PolicyType DEF TypeOK
  <2>4. qhead_ins(queues[lower], current_proc) \in Seq(Procs)
    BY <2>1, <2>3, InsProperties DEF TypeOK, OnePlace, NoNodeTwice
  <2>5. queues' \in [QueueIds -> Seq(Procs)] /\ aux_queue' \in Seq(Procs)
    BY <1>12, <2>2, <2>3, <2>4, PlaceNames DEF TypeOK, Demote
  <2>6. sem' \in Nat /\ pc' \in MainPlaces
    BY <1>12, PlaceNames DEF TypeOK, Demote, sem_exit_cr
  <2> QED
    BY <1>12, <2>5, <2>6, PlaceNames DEF TypeOK, Demote
<1>13. ASSUME Terminate PROVE TypeOK'
  BY <1>13, PlaceNames DEF TypeOK, TurnInv, Terminate, exit_handler, sem_exit_cr
<1>14. ASSUME BlockOnIO PROVE TypeOK'
  <2>1. get_higher_priority_queue_id(current_queue) \in QueueIds
    BY PolicyType DEF TypeOK
  <2>2. pack' \in [Procs -> QueueIds]
    BY <1>14, <2>1, PlaceNames DEF TypeOK, BlockOnIO, pack_current_process
  <2>3. io' \in [Procs -> IOPlaces]
    BY <1>14, PlaceNames DEF TypeOK, BlockOnIO, pthread_create
  <2>4. io_threads' \in Int /\ sem' \in Nat /\ pc' \in MainPlaces
    BY <1>14, PlaceNames DEF TypeOK, BlockOnIO, sem_exit_cr
  <2> QED
    BY <1>14, <2>2, <2>3, <2>4, PlaceNames DEF TypeOK, BlockOnIO
<1>15. ASSUME NEW p \in Procs, IOWake(p) \/ IOEnter(p) PROVE TypeOK'
  <2>1. sem' \in Nat
    BY <1>15, PlaceNames DEF TypeOK, IOWake, IOEnter, sem_enter_cr
  <2>2. io' \in [Procs -> IOPlaces]
    BY <1>15, PlaceNames DEF TypeOK, IOWake, IOEnter
  <2> QED
    BY <1>15, <2>1, <2>2, PlaceNames DEF TypeOK, IOWake, IOEnter
<1>16. ASSUME NEW p \in Procs, IOReturn(p) PROVE TypeOK'
  <2>1. pack[p] \in QueueIds
    BY DEF TypeOK
  <2>2. /\ qhead_ins(aux_queue, p) \in Seq(Procs)
        /\ qhead_ins(queues[pack[p]], p) \in Seq(Procs)
    BY <2>1, InsProperties DEF TypeOK, OnePlace, NoNodeTwice
  <2>3. queues' \in [QueueIds -> Seq(Procs)] /\ aux_queue' \in Seq(Procs)
    BY <1>16, <2>1, <2>2, PlaceNames DEF TypeOK, IOReturn
  <2>4. io' \in [Procs -> IOPlaces] /\ io_threads' \in Int /\ sem' \in Nat
    BY <1>16, PlaceNames DEF TypeOK, IOReturn, IOThreadEnds, sem_exit_cr
  <2> QED
    BY <1>16, <2>3, <2>4, PlaceNames DEF TypeOK, IOReturn
<1>17. ASSUME NEW p \in Procs, Tick(p) PROVE TypeOK'
  BY <1>17, PlaceNames DEF TypeOK, Tick
<1>18. ASSUME HandleSignal PROVE TypeOK'
  <2>1. quantum_timer' \in Nat /\ age' \in [Procs -> Nat]
    <3>1. quantum_timer \in Nat /\ age \in [Procs -> Nat]
      BY DEF TypeOK
    <3>2. CASE UNCHANGED timeVars
      BY <3>1, <3>2
    <3>3. CASE /\ current_proc # NULL
               /\ quantum_timer' = quantum_timer + 1
               /\ age' = [age EXCEPT ![current_proc] = @ + 1]
      <4>1. current_proc \in Procs
        BY <3>3 DEF TypeOK
      <4> QED
        BY <3>1, <3>3, <4>1
    <3>4. \/ UNCHANGED timeVars
          \/ /\ current_proc # NULL
             /\ quantum_timer' = quantum_timer + 1
             /\ age' = [age EXCEPT ![current_proc] = @ + 1]
      BY <1>18, Zenon DEF HandleSignal, signal_handler
    <3> QED
      BY <3>2, <3>3, <3>4
  <2>2. pending' \in BOOLEAN /\ ub' \in BOOLEAN
    BY <1>18, PlaceNames DEF TypeOK, HandleSignal, signal_handler
  <2> QED
    BY <1>18, <2>1, <2>2, PlaceNames DEF TypeOK, HandleSignal
<1>19. ASSUME UNCHANGED vars PROVE TypeOK'
  BY <1>19, PlaceNames DEF TypeOK, vars
<1> QED
  BY <1>1, <1>2, <1>3, <1>4, <1>5, <1>6, <1>7, <1>8, <1>9, <1>10, <1>11, <1>12,
     <1>13, <1>14, <1>15, <1>16, <1>17, <1>18, <1>19
     DEF Next, Step, MainStep, IOStep, Halted

-----------------------------------------------------------------------------
(* Every process has one place.                                            *)
LEMMA PlaceIds ==
  /\ Places = QueueIds \cup {AUX_ID, ON_CPU, IN_IO, GONE}
  /\ {AUX_ID, ON_CPU, IN_IO, GONE} \cap QueueIds = {}
  /\ AUX_ID # ON_CPU /\ AUX_ID # IN_IO /\ AUX_ID # GONE
  /\ ON_CPU # IN_IO /\ ON_CPU # GONE /\ IN_IO # GONE
BY QueueAssumption DEF Places, AUX_ID, ON_CPU, IN_IO, GONE, QueueIds

(* A step leaves every process where it is, or takes one process to        *)
(* another place, or all those of one place to another.                    *)
Stays == \A p \in Procs, x \in Places : At(p, x)' <=> At(p, x)

Moves(c, to) ==
  \A p \in Procs, x \in Places :
    At(p, x)' <=> IF p = c THEN x = to ELSE At(p, x)

MoveAllOf(from, to) ==
  \A p \in Procs, x \in Places :
    At(p, x)' <=> \/ x # from /\ At(p, x)
                  \/ x = to /\ At(p, from)

(* In all three cases each process still has one place.                    *)
LEMMA StayPlaced ==
  ASSUME PlacedOnce, Stays
  PROVE  PlacedOnce'
<1>1. Places' = Places
  BY DEF Places, AUX_ID, ON_CPU, IN_IO, GONE
<1> QED
  BY <1>1 DEF PlacedOnce, Stays

(* One process goes from its place to another.                             *)
LEMMA MoveOne ==
  ASSUME PlacedOnce, NEW c \in Procs, NEW to \in Places, Moves(c, to)
  PROVE  PlacedOnce'
<1>1. Places' = Places
  BY DEF Places, AUX_ID, ON_CPU, IN_IO, GONE
<1> SUFFICES ASSUME NEW p \in Procs
             PROVE  \E place \in Places :
                      /\ At(p, place)'
                      /\ \A other \in Places : At(p, other)' => other = place
  BY <1>1 DEF PlacedOnce
<1>2. CASE p = c
  BY <1>2 DEF Moves
<1>3. CASE p # c
  BY <1>3 DEF PlacedOnce, Moves
<1> QED
  BY <1>2, <1>3

(* All the processes of one place go to another.                           *)
LEMMA MoveAll ==
  ASSUME PlacedOnce, NEW from \in Places, NEW to \in Places, from # to,
         MoveAllOf(from, to)
  PROVE  PlacedOnce'
<1>1. Places' = Places
  BY DEF Places, AUX_ID, ON_CPU, IN_IO, GONE
<1> SUFFICES ASSUME NEW p \in Procs
             PROVE  \E place \in Places :
                      /\ At(p, place)'
                      /\ \A other \in Places : At(p, other)' => other = place
  BY <1>1 DEF PlacedOnce
<1>2. PICK place \in Places :
        At(p, place) /\ \A other \in Places : At(p, other) => other = place
  BY DEF PlacedOnce
<1>3. CASE place = from
  BY <1>2, <1>3 DEF MoveAllOf
<1>4. CASE place # from
  BY <1>2, <1>4 DEF MoveAllOf
<1> QED
  BY <1>3, <1>4

(* At the start every process is on the first queue.                       *)
LEMMA OnePlaceInit == Init => OnePlace
<1> SUFFICES ASSUME Init PROVE OnePlace
  OBVIOUS
<1> DEFINE all == [p \in Procs |-> p]
<1>1. FIRST_QUEUE_ID \in QueueIds
  BY QueueAssumption DEF FIRST_QUEUE_ID, QueueIds
<1>2. /\ \A id \in QueueIds :
           queues[id] = IF id = FIRST_QUEUE_ID THEN all ELSE <<>>
      /\ aux_queue = <<>>
      /\ pc \notin Holding
      /\ \A p \in Procs : io[p] = "none"
      /\ freed = {}
  BY PlaceNames DEF Init
<1>3. Range(all) = Procs /\ HasNoDuplicate(all)
  BY DEF Range, HasNoDuplicate, IsInjective
<1>4. Range(<<>>) = {} /\ HasNoDuplicate(<<>>)
  BY DEF Range, HasNoDuplicate, IsInjective
<1> HIDE DEF all
<1>5. \A p \in Procs, x \in Places : At(p, x) <=> x = FIRST_QUEUE_ID
  BY <1>1, <1>2, <1>3, <1>4, PlaceIds DEF At
<1>6. PlacedOnce
  BY <1>1, <1>5, PlaceIds DEF PlacedOnce
<1>7. NoNodeTwice
  BY <1>2, <1>3, <1>4 DEF NoNodeTwice
<1> QED
  BY <1>6, <1>7 DEF OnePlace

(* Where main's current process is not while main holds it.                *)
LEMMA HeldOnly ==
  ASSUME TypeOK, TurnInv, OnePlace, pc \in Holding
  PROVE  /\ current_proc \in Procs
         /\ \A id \in QueueIds : current_proc \notin Range(queues[id])
         /\ current_proc \notin Range(aux_queue)
         /\ io[current_proc] = "none"
         /\ current_proc \notin freed
         /\ \A x \in Places : At(current_proc, x) <=> x = ON_CPU
<1>1. current_proc \in Procs
  BY DEF TurnInv
<1>2. At(current_proc, ON_CPU) /\ ON_CPU \in Places
  BY PlaceIds DEF At
<1>3. \A x \in Places : At(current_proc, x) <=> x = ON_CPU
  BY <1>1, <1>2 DEF OnePlace, PlacedOnce
<1> QED
  BY <1>1, <1>3, PlaceIds DEF At

(* The steps that change neither a queue nor who holds which process.      *)
LEMMA StayStep ==
  ASSUME OnePlace, UNCHANGED <<queues, aux_queue, freed, current_proc>>,
         pc' \in Holding <=> pc \in Holding,
         \A p \in Procs : io'[p] = "none" <=> io[p] = "none"
  PROVE  OnePlace' /\ Stays
<1>1. Stays
  BY PlaceIds DEF Stays, At, AUX_ID, ON_CPU, IN_IO, GONE, Holding
<1>2. PlacedOnce'
  BY <1>1, StayPlaced DEF OnePlace
<1>3. NoNodeTwice'
  BY DEF OnePlace, NoNodeTwice
<1> QED
  BY <1>1, <1>2, <1>3 DEF OnePlace

(* The merge takes every node of aux_queue to the queue.                   *)
LEMMA OnePlaceMerge ==
  ASSUME TypeOK, OnePlace, MergeAux
  PROVE  OnePlace' /\ MoveAllOf(AUX_ID, queue)
<1> DEFINE new == qhead_transfer(aux_queue, queues[queue])
<1>1. queue \in QueueIds /\ aux_queue \in Seq(Procs) /\ queues[queue] \in Seq(Procs)
  BY DEF TypeOK
<1>2. /\ Range(new) = Range(queues[queue]) \cup Range(aux_queue)
      /\ HasNoDuplicate(new)
  BY <1>1, Disjoint, TransferProperties DEF OnePlace, NoNodeTwice
<1>3. \A id \in QueueIds : queues'[id] = IF id = queue THEN new ELSE queues[id]
  BY <1>1 DEF MergeAux, Merged, TypeOK
<1>4. Range(aux_queue') = {} /\ HasNoDuplicate(aux_queue')
  BY DEF MergeAux, Merged, Range, HasNoDuplicate, IsInjective
<1> HIDE DEF new
<1>5. /\ pc \notin Holding /\ pc' \notin Holding
      /\ UNCHANGED <<io, freed, current_proc>>
  BY PlaceNames DEF MergeAux, ioVars, exitVars
<1>6. MoveAllOf(AUX_ID, queue)
  BY <1>1, <1>2, <1>3, <1>4, <1>5, PlaceIds
     DEF MoveAllOf, At, AUX_ID, ON_CPU, IN_IO, GONE, Holding
<1>7. PlacedOnce'
  BY <1>1, <1>6, MoveAll, PlaceIds DEF OnePlace
<1>8. NoNodeTwice'
  BY <1>2, <1>3, <1>4 DEF OnePlace, NoNodeTwice
<1> QED
  BY <1>6, <1>7, <1>8 DEF OnePlace

(* qhead_rm takes the first process from its queue to the CPU.             *)
LEMMA OnePlaceFetch ==
  ASSUME TypeOK, OnePlace, FetchNext
  PROVE  /\ OnePlace'
         /\ \E c \in Procs : At(c, queue) /\ Moves(c, ON_CPU)
<1> DEFINE rest == Tail(queues[queue])
<1>1. queue \in QueueIds /\ queues[queue] \in Seq(Procs) /\ queues[queue] # <<>>
  BY DEF TypeOK, FetchNext
<1>2. PICK c \in Procs :
      /\ c = Head(queues[queue])
      /\ c \in Range(queues[queue])
      /\ Range(rest) = Range(queues[queue]) \ {c}
      /\ HasNoDuplicate(rest)
  BY <1>1, RmProperties DEF OnePlace, NoNodeTwice
<1>3. \A id \in QueueIds : queues'[id] = IF id = queue THEN rest ELSE queues[id]
  BY <1>1 DEF FetchNext, TypeOK
<1>4. /\ pc \notin Holding /\ pc' \in Holding
      /\ UNCHANGED <<aux_queue, io, freed>>
      /\ current_proc' = c
  BY <1>2, PlaceNames DEF FetchNext, ioVars, exitVars
<1> HIDE DEF rest
<1>5. \A x \in Places : At(c, x) <=> x = queue
  <2>1. At(c, queue) /\ queue \in Places
    BY <1>1, <1>2, PlaceIds DEF At
  <2> QED
    BY <1>2, <2>1 DEF OnePlace, PlacedOnce
<1>6. Moves(c, ON_CPU)
  <2>1. ASSUME NEW p \in Procs, p # c, NEW x \in Places
        PROVE  At(p, x)' <=> At(p, x)
    BY <1>1, <1>2, <1>3, <1>4, <2>1, PlaceIds
       DEF At, AUX_ID, ON_CPU, IN_IO, GONE, Holding
  <2>2. /\ \A id \in QueueIds : c \notin Range(queues'[id])
        /\ c \notin Range(aux_queue) /\ io[c] = "none" /\ c \notin freed
    BY <1>1, <1>2, <1>3, <1>5, PlaceIds DEF At
  <2>3. ASSUME NEW x \in Places
        PROVE  At(c, x)' <=> x = ON_CPU
    BY <1>4, <2>2, PlaceIds DEF At, AUX_ID, ON_CPU, IN_IO, GONE, Holding
  <2> QED
    BY <2>1, <2>3 DEF Moves
<1>7. PlacedOnce'
  BY <1>2, <1>6, MoveOne, PlaceIds DEF OnePlace
<1>8. NoNodeTwice'
  BY <1>2, <1>3, <1>4 DEF OnePlace, NoNodeTwice
<1> QED
  BY <1>1, <1>5, <1>6, <1>7, <1>8, PlaceIds DEF OnePlace

(* A process that is on no queue is put on one: what Demote and IOReturn   *)
(* have in common.                                                         *)
LEMMA Enqueue ==
  ASSUME TypeOK, OnePlace, NEW c \in Procs, NEW to \in QueueIds \cup {AUX_ID},
         \A id \in QueueIds : c \notin Range(queues[id]),
         c \notin Range(aux_queue), c \notin freed,
         IF to = AUX_ID
           THEN aux_queue' = qhead_ins(aux_queue, c) /\ UNCHANGED queues
           ELSE /\ queues' = [queues EXCEPT ![to] = qhead_ins(@, c)]
                /\ UNCHANGED aux_queue,
         UNCHANGED <<freed, current_proc>>,
         \A p \in Procs : p # c =>
           /\ io'[p] = "none" <=> io[p] = "none"
           /\ (p = current_proc /\ pc' \in Holding)
                <=> (p = current_proc /\ pc \in Holding),
         io'[c] = "none",
         ~ (c = current_proc /\ pc' \in Holding)
  PROVE  OnePlace' /\ Moves(c, to)
<1>1. /\ \A id \in QueueIds :
           /\ Range(queues'[id]) = Range(queues[id]) \cup (IF id = to THEN {c} ELSE {})
           /\ HasNoDuplicate(queues'[id])
      /\ Range(aux_queue') = Range(aux_queue) \cup (IF AUX_ID = to THEN {c} ELSE {})
      /\ HasNoDuplicate(aux_queue')
  <2>1. CASE to = AUX_ID
    <3>1. AUX_ID \notin QueueIds
      BY PlaceIds
    <3>2. aux_queue \in Seq(Procs) /\ HasNoDuplicate(aux_queue)
      BY DEF TypeOK, OnePlace, NoNodeTwice
    <3>3. /\ Range(aux_queue') = Range(aux_queue) \cup {c}
          /\ HasNoDuplicate(aux_queue')
      BY <2>1, <3>2, InsProperties
    <3> QED
      BY <2>1, <3>1, <3>3 DEF OnePlace, NoNodeTwice
  <2>2. CASE to # AUX_ID
    <3>1. queues[to] \in Seq(Procs) /\ HasNoDuplicate(queues[to])
      BY <2>2 DEF TypeOK, OnePlace, NoNodeTwice
    <3>2. /\ Range(qhead_ins(queues[to], c)) = Range(queues[to]) \cup {c}
          /\ HasNoDuplicate(qhead_ins(queues[to], c))
      BY <3>1, InsProperties
    <3>3. \A id \in QueueIds :
            queues'[id] = IF id = to THEN qhead_ins(queues[to], c) ELSE queues[id]
      BY <2>2 DEF TypeOK
    <3> QED
      BY <2>2, <3>2, <3>3 DEF OnePlace, NoNodeTwice
  <2> QED
    BY <2>1, <2>2
<1>2. Moves(c, to)
  <2>1. ASSUME NEW p \in Procs, p # c
        PROVE  /\ \A id \in QueueIds : p \in Range(queues'[id]) <=> p \in Range(queues[id])
               /\ p \in Range(aux_queue') <=> p \in Range(aux_queue)
    BY <1>1, <2>1
  <2>2. ASSUME NEW p \in Procs, p # c, NEW x \in Places
        PROVE  At(p, x)' <=> At(p, x)
    BY <2>1, <2>2, PlaceIds DEF At, AUX_ID, ON_CPU, IN_IO, GONE, Holding
  <2>3. /\ \A id \in QueueIds : c \in Range(queues'[id]) <=> id = to
        /\ c \in Range(aux_queue') <=> AUX_ID = to
    BY <1>1
  <2>4. ASSUME NEW x \in Places
        PROVE  At(c, x)' <=> x = to
    BY <2>3, PlaceIds DEF At, AUX_ID, ON_CPU, IN_IO, GONE, Holding
  <2> QED
    BY <2>2, <2>4 DEF Moves
<1>3. PlacedOnce'
  BY <1>2, MoveOne, PlaceIds DEF OnePlace
<1>4. NoNodeTwice'
  BY <1>1 DEF NoNodeTwice
<1> QED
  BY <1>2, <1>3, <1>4 DEF OnePlace

(* Where main puts a process that used its quantum, and an I/O thread its  *)
(* process.                                                                *)
LowerPlace ==
  IF get_lower_priority_queue_id(current_queue) = current_queue THEN AUX_ID
  ELSE get_lower_priority_queue_id(current_queue)

ReturnPlace(p) == IF pack[p] = current_queue THEN AUX_ID ELSE pack[p]

(* A process that used its quantum goes from the CPU to a queue.           *)
LEMMA OnePlaceDemote ==
  ASSUME TypeOK, TurnInv, OnePlace, Demote
  PROVE  OnePlace' /\ Moves(current_proc, LowerPlace)
<1> USE DEF policyVars, queueVars, ioVars, timeVars, childVars, exitVars,
            localVars
<1>1. pc \in Holding
  BY PlaceNames DEF Demote
<1>2. PICK c \in Procs : c = current_proc
  BY <1>1, HeldOnly
<1> DEFINE lower == get_lower_priority_queue_id(current_queue)
<1>3. lower \in QueueIds
  BY PolicyType DEF TypeOK
<1>4. /\ \A id \in QueueIds : c \notin Range(queues[id])
      /\ c \notin Range(aux_queue) /\ c \notin freed /\ io[c] = "none"
  BY <1>1, <1>2, HeldOnly
<1>5. /\ ~IsDuplicate(aux_queue, c)
      /\ ~IsDuplicate(queues[lower], c)
  BY <1>3, <1>4 DEF IsDuplicate
<1>6. pc' = "fetch" /\ UNCHANGED <<freed, current_proc, io>>
  BY <1>2, <1>5 DEF Demote
<1>7. CASE lower = current_queue
  <2>1. aux_queue' = qhead_ins(aux_queue, c) /\ UNCHANGED queues
    BY <1>2, <1>5, <1>7 DEF Demote
  <2> QED
    BY <1>2, <1>4, <1>6, <1>7, <2>1, Enqueue, PlaceNames
       DEF LowerPlace
<1>8. CASE lower # current_queue
  <2>1. /\ queues' = [queues EXCEPT ![lower] = qhead_ins(@, c)]
        /\ UNCHANGED aux_queue
    BY <1>2, <1>5, <1>8 DEF Demote
  <2>2. lower # AUX_ID
    BY <1>3, PlaceIds
  <2>3. LowerPlace = lower
    BY <1>8 DEF LowerPlace
  <2> HIDE DEF lower
  <2>4. OnePlace' /\ Moves(c, lower)
    BY <1>2, <1>3, <1>4, <1>6, <2>1, <2>2, Enqueue, PlaceNames
  <2> QED
    BY <1>2, <2>3, <2>4
<1> QED
  BY <1>7, <1>8

(* A process that has done its rays goes from the CPU for good.            *)
LEMMA OnePlaceTerminate ==
  ASSUME TypeOK, TurnInv, OnePlace, Terminate
  PROVE  OnePlace' /\ Moves(current_proc, GONE)
<1> USE DEF policyVars, queueVars, ioVars, timeVars, childVars, exitVars,
            localVars
<1>1. pc \in Holding /\ pc' \notin Holding
  BY PlaceNames DEF Terminate
<1>2. PICK c \in Procs : c = current_proc
  BY <1>1, HeldOnly
<1>3. /\ freed' = freed \cup {c}
      /\ UNCHANGED <<queues, aux_queue, io, current_proc>>
  BY <1>2 DEF Terminate, exit_handler
<1>4. Moves(c, GONE)
  <2>1. ASSUME NEW p \in Procs, p # c, NEW x \in Places
        PROVE  At(p, x)' <=> At(p, x)
    BY <1>1, <1>2, <1>3, <2>1, PlaceIds DEF At, AUX_ID, ON_CPU, IN_IO, GONE, Holding
  <2>2. ASSUME NEW x \in Places
        PROVE  At(c, x)' <=> x = GONE
    BY <1>1, <1>2, <1>3, HeldOnly, PlaceIds DEF At, AUX_ID, ON_CPU, IN_IO, GONE, Holding
  <2> QED
    BY <2>1, <2>2 DEF Moves
<1>5. PlacedOnce'
  BY <1>4, MoveOne, PlaceIds DEF OnePlace
<1> QED
  BY <1>2, <1>3, <1>4, <1>5 DEF OnePlace, NoNodeTwice

(* A process that has ended a ray goes from the CPU to its I/O thread.     *)
LEMMA OnePlaceBlock ==
  ASSUME TypeOK, TurnInv, OnePlace, BlockOnIO
  PROVE  OnePlace' /\ Moves(current_proc, IN_IO)
<1> USE DEF policyVars, queueVars, ioVars, timeVars, childVars, exitVars,
            localVars
<1>1. pc \in Holding /\ pc' \notin Holding
  BY PlaceNames DEF BlockOnIO
<1>2. PICK c \in Procs : c = current_proc
  BY <1>1, HeldOnly
<1>3. /\ \A p \in Procs : IF p = c THEN io'[p] # "none" ELSE io'[p] = io[p]
      /\ UNCHANGED <<queues, aux_queue, freed, current_proc>>
  BY <1>2 DEF BlockOnIO, pthread_create, TypeOK
<1>4. Moves(c, IN_IO)
  <2>1. ASSUME NEW p \in Procs, p # c, NEW x \in Places
        PROVE  At(p, x)' <=> At(p, x)
    BY <1>1, <1>2, <1>3, <2>1, PlaceIds DEF At, AUX_ID, ON_CPU, IN_IO, GONE, Holding
  <2>2. ASSUME NEW x \in Places
        PROVE  At(c, x)' <=> x = IN_IO
    BY <1>1, <1>2, <1>3, HeldOnly, PlaceIds DEF At, AUX_ID, ON_CPU, IN_IO, GONE, Holding
  <2> QED
    BY <2>1, <2>2 DEF Moves
<1>5. PlacedOnce'
  BY <1>4, MoveOne, PlaceIds DEF OnePlace
<1> QED
  BY <1>2, <1>3, <1>4, <1>5 DEF OnePlace, NoNodeTwice

(* The I/O thread puts its process on a queue.                             *)
LEMMA OnePlaceReturn ==
  ASSUME TypeOK, OnePlace, NEW p \in Procs, IOReturn(p)
  PROVE  OnePlace' /\ Moves(p, ReturnPlace(p))
<1> USE DEF policyVars, queueVars, ioVars, timeVars, childVars, exitVars,
            localVars
<1>1. At(p, IN_IO) /\ IN_IO \in Places
  BY PlaceIds DEF At, IOReturn
<1>2. \A x \in Places : At(p, x) => x = IN_IO
  BY <1>1 DEF OnePlace, PlacedOnce
<1>3. /\ \A id \in QueueIds : p \notin Range(queues[id])
      /\ p \notin Range(aux_queue) /\ p \notin freed
      /\ ~ (p = current_proc /\ pc \in Holding)
  BY <1>2, PlaceIds DEF At
<1>4. /\ io'[p] = "none"
      /\ \A q \in Procs : q # p => io'[q] = io[q]
      /\ UNCHANGED <<freed, current_proc, pc>>
  BY DEF IOReturn, TypeOK
<1>5. CASE pack[p] = current_queue
  <2>1. aux_queue' = qhead_ins(aux_queue, p) /\ UNCHANGED queues
    BY <1>5 DEF IOReturn
  <2> QED
    BY <1>3, <1>4, <1>5, <2>1, Enqueue DEF ReturnPlace
<1>6. CASE pack[p] # current_queue
  <2>1. PICK to \in QueueIds : to = pack[p]
    BY DEF TypeOK
  <2>2. /\ queues' = [queues EXCEPT ![to] = qhead_ins(@, p)]
        /\ UNCHANGED aux_queue
    BY <1>6, <2>1 DEF IOReturn
  <2>3. to # AUX_ID
    BY PlaceIds
  <2> QED
    BY <1>3, <1>4, <1>6, <2>1, <2>2, <2>3, Enqueue DEF ReturnPlace
<1> QED
  BY <1>5, <1>6

(* Every step keeps each process at one place.                             *)
LEMMA OnePlaceStep ==
  ASSUME TypeOK, TurnInv, OnePlace, [Next]_vars
  PROVE  OnePlace'
<1> USE DEF policyVars, queueVars, ioVars, timeVars, childVars, exitVars,
            localVars
<1>1. ASSUME MainEnter PROVE OnePlace'
  <2>1. pc' \in Holding <=> pc \in Holding
    BY <1>1, PlaceNames DEF MainEnter, Region
  <2> QED
    BY <1>1, <2>1, StayStep DEF MainEnter
<1>2. ASSUME Finish \/ StartPass \/ IdlePass PROVE OnePlace'
  BY <1>2, StayStep, PlaceNames DEF Finish, StartPass, IdlePass
<1>3. ASSUME SwitchQueue \/ TakeRun \/ QueueDrained PROVE OnePlace'
  BY <1>3, StayStep, PlaceNames DEF SwitchQueue, TakeRun, QueueDrained
<1>4. ASSUME Resume \/ Aim \/ Preempt PROVE OnePlace'
  BY <1>4, StayStep, PlaceNames DEF Resume, Aim, Preempt
<1>5. ASSUME RayEnded \/ RayLeft \/ PackFails PROVE OnePlace'
  BY <1>5, StayStep, PlaceNames DEF RayEnded, RayLeft, PackFails
<1>6. ASSUME NEW p \in Procs, IOReturn(p) PROVE OnePlace'
  BY <1>6, OnePlaceReturn
<1>7. ASSUME NEW p \in Procs, IOWake(p) \/ IOEnter(p) PROVE OnePlace'
  <2>1. \A q \in Procs : io'[q] = "none" <=> io[q] = "none"
    BY <1>7 DEF IOWake, IOEnter, TypeOK
  <2> QED
    BY <1>7, <2>1, StayStep DEF IOWake, IOEnter
<1>8. ASSUME NEW p \in Procs, Tick(p) PROVE OnePlace'
  BY <1>8, StayStep DEF Tick
<1>9. ASSUME HandleSignal PROVE OnePlace'
  BY <1>9, StayStep DEF HandleSignal
<1>10. ASSUME UNCHANGED vars PROVE OnePlace'
  BY <1>10, StayStep DEF vars
<1> QED
  BY <1>1, <1>2, <1>3, <1>4, <1>5, <1>6, <1>7, <1>8, <1>9, <1>10,
     OnePlaceMerge, OnePlaceFetch, OnePlaceDemote, OnePlaceTerminate,
     OnePlaceBlock
     DEF Next, Step, MainStep, IOStep, Halted

-----------------------------------------------------------------------------
(* The semaphore.  A step that does not touch it leaves every thread on    *)
(* its side of the critical region.                                        *)
LEMMA OutsideStep ==
  ASSUME SemaphoreInv, sem' = sem,
         pc' \in MainInRegion => pc \in MainInRegion,
         \A p \in Procs : io'[p] = "inserting" => io[p] = "inserting"
  PROVE  SemaphoreInv'
BY DEF SemaphoreInv, MutualExclusion, InsertingThreads, MainInRegion

(* Main leaves its critical region.                                        *)
LEMMA MainLeaves ==
  ASSUME SemaphoreInv, pc \in MainInRegion, sem' = sem + 1,
         pc' \notin MainInRegion, UNCHANGED io
  PROVE  SemaphoreInv'
BY DEF SemaphoreInv, MutualExclusion, InsertingThreads, MainInRegion

(* Every step keeps the semaphore down while a region is occupied.         *)
LEMMA SemaphoreStep ==
  ASSUME TypeOK, TurnInv, OnePlace, SemaphoreInv, [Next]_vars
  PROVE  SemaphoreInv'
<1> USE DEF policyVars, queueVars, ioVars, timeVars, childVars, exitVars,
            localVars
<1>1. ASSUME MainEnter PROVE SemaphoreInv'
  <2>1. sem = 1 /\ sem' = 0 /\ UNCHANGED io
    BY <1>1 DEF MainEnter, sem_enter_cr, SemaphoreInv
  <2>2. InsertingThreads' = {}
    BY <2>1 DEF SemaphoreInv, InsertingThreads
  <2> QED
    BY <2>1, <2>2 DEF SemaphoreInv, MutualExclusion
<1>2. ASSUME Finish \/ StartPass \/ IdlePass PROVE SemaphoreInv'
  BY <1>2, OutsideStep, PlaceNames DEF Finish, StartPass, IdlePass
<1>3. ASSUME SwitchQueue PROVE SemaphoreInv'
  BY <1>3, MainLeaves, PlaceNames DEF SwitchQueue, sem_exit_cr
<1>4. ASSUME TakeRun PROVE SemaphoreInv'
  BY <1>4, OutsideStep, PlaceNames DEF TakeRun
<1>5. ASSUME MergeAux PROVE SemaphoreInv'
  BY <1>5, MainLeaves, PlaceNames DEF MergeAux, sem_exit_cr
<1>6. ASSUME FetchNext \/ QueueDrained PROVE SemaphoreInv'
  BY <1>6, MainLeaves, PlaceNames DEF FetchNext, QueueDrained, sem_exit_cr
<1>7. ASSUME Resume \/ Aim \/ Preempt PROVE SemaphoreInv'
  BY <1>7, OutsideStep, PlaceNames DEF Resume, Aim, Preempt
<1>8. ASSUME RayEnded \/ RayLeft \/ PackFails PROVE SemaphoreInv'
  BY <1>8, OutsideStep, PlaceNames DEF RayEnded, RayLeft, PackFails
<1>9. ASSUME Demote PROVE SemaphoreInv'
  <2>1. pc = "judge_cr" /\ UNCHANGED io
    BY <1>9 DEF Demote
  <2>2. \/ pc' = "exited" /\ UNCHANGED sem
        \/ pc' = "fetch" /\ sem' = sem + 1
    BY <1>9 DEF Demote, sem_exit_cr
  <2> QED
    BY <2>1, <2>2, OutsideStep, MainLeaves, PlaceNames
<1>10. ASSUME Terminate PROVE SemaphoreInv'
  BY <1>10, MainLeaves, PlaceNames DEF Terminate, sem_exit_cr
<1>11. ASSUME BlockOnIO PROVE SemaphoreInv'
  <2>1. /\ pc = "judge_io"
        /\ \/ pc' = "exited" /\ UNCHANGED sem
           \/ pc' = "fetch" /\ sem' = sem + 1
    BY <1>11 DEF BlockOnIO, sem_exit_cr
  <2>2. \A p \in Procs : io'[p] = "inserting" => io[p] = "inserting"
    BY <1>11 DEF BlockOnIO, pthread_create, TypeOK
  <2>3. InsertingThreads = {}
    BY <2>1, PlaceNames DEF SemaphoreInv, MutualExclusion
  <2>4. InsertingThreads' = {}
    BY <2>2, <2>3 DEF InsertingThreads
  <2>5. sem = 0
    BY <2>1, PlaceNames DEF SemaphoreInv
  <2>6. MainInRegion' = MainInRegion
    BY DEF MainInRegion
  <2> QED
    BY <2>1, <2>4, <2>5, <2>6, PlaceNames DEF SemaphoreInv, MutualExclusion
<1>12. ASSUME NEW p \in Procs, IOWake(p) PROVE SemaphoreInv'
  <2>1. \A q \in Procs : io'[q] = "inserting" => io[q] = "inserting"
    BY <1>12 DEF IOWake, TypeOK
  <2> QED
    BY <1>12, <2>1, OutsideStep DEF IOWake
<1>13. ASSUME NEW p \in Procs, IOEnter(p) PROVE SemaphoreInv'
  <2>1. sem = 1 /\ sem' = 0 /\ UNCHANGED pc
    BY <1>13 DEF IOEnter, sem_enter_cr, SemaphoreInv
  <2>2. pc \notin MainInRegion /\ InsertingThreads = {}
    BY <2>1 DEF SemaphoreInv
  <2>3. InsertingThreads' = {p}
    BY <1>13, <2>2 DEF InsertingThreads, IOEnter, TypeOK
  <2>4. MainInRegion' = MainInRegion
    BY DEF MainInRegion
  <2> QED
    BY <2>1, <2>2, <2>3, <2>4 DEF SemaphoreInv, MutualExclusion
<1>14. ASSUME NEW p \in Procs, IOReturn(p) PROVE SemaphoreInv'
  <2>1. p \in InsertingThreads
    BY <1>14 DEF IOReturn, InsertingThreads
  <2>2. sem = 0 /\ pc \notin MainInRegion /\ InsertingThreads = {p}
    BY <2>1 DEF SemaphoreInv, MutualExclusion, InsertingThreads
  <2>3. sem' = 1 /\ UNCHANGED pc
    BY <1>14, <2>2 DEF IOReturn, sem_exit_cr
  <2>4. InsertingThreads' = {}
    BY <1>14, <2>2 DEF InsertingThreads, IOReturn, TypeOK
  <2>5. MainInRegion' = MainInRegion
    BY DEF MainInRegion
  <2> QED
    BY <2>2, <2>3, <2>4, <2>5 DEF SemaphoreInv, MutualExclusion
<1>15. ASSUME NEW p \in Procs, Tick(p) PROVE SemaphoreInv'
  BY <1>15, OutsideStep DEF Tick
<1>16. ASSUME HandleSignal PROVE SemaphoreInv'
  BY <1>16, OutsideStep DEF HandleSignal
<1>17. ASSUME UNCHANGED vars PROVE SemaphoreInv'
  BY <1>17, OutsideStep DEF vars
<1> QED
  BY <1>1, <1>2, <1>3, <1>4, <1>5, <1>6, <1>7, <1>8, <1>9, <1>10, <1>11, <1>12,
     <1>13, <1>14, <1>15, <1>16, <1>17
     DEF Next, Step, MainStep, IOStep, Halted

-----------------------------------------------------------------------------
(* The counters.                                                           *)

(* There are finitely many processes, so that they can be counted.         *)
LEMMA ProcsFinite ==
  /\ IsFiniteSet(Procs)
  /\ Cardinality(Procs) = Len(Commands)
<1>1. Len(Commands) \in Nat
  BY CommandsAssumption, LenProperties
<1>2. /\ IsFiniteSet(1 .. Len(Commands))
      /\ Cardinality(1 .. Len(Commands)) =
           IF 1 > Len(Commands) THEN 0 ELSE Len(Commands) - 1 + 1
  BY <1>1, FS_Interval
<1> QED
  BY <1>1, <1>2 DEF Procs

(* Every step keeps the counters in agreement with what they count.        *)
LEMMA CountersStep ==
  ASSUME TypeOK, TurnInv, OnePlace, CountersAgree, [Next]_vars
  PROVE  CountersAgree'
<1> USE DEF policyVars, queueVars, ioVars, timeVars, childVars, exitVars,
            localVars
<1>1. IsFiniteSet(Procs \ freed) /\ IsFiniteSet(Blocked)
  BY ProcsFinite, FS_Subset DEF Blocked
<1>2. ASSUME UNCHANGED <<processes_count, io_threads, freed>>,
             \A p \in Procs : io'[p] = "none" <=> io[p] = "none"
      PROVE  CountersAgree'
  <2>1. Blocked' = Blocked
    BY <1>2 DEF Blocked
  <2> QED
    BY <1>2, <2>1 DEF CountersAgree
<1>3. ASSUME Terminate PROVE CountersAgree'
  <2>1. current_proc \in Procs /\ current_proc \notin freed
    BY <1>3, HeldOnly, PlaceNames DEF Terminate
  <2>2. (Procs \ freed)' = (Procs \ freed) \ {current_proc}
    BY <1>3 DEF Terminate, exit_handler
  <2>3. Cardinality((Procs \ freed)') = Cardinality(Procs \ freed) - 1
    BY <1>1, <2>1, <2>2, FS_RemoveElement
  <2>4. Blocked' = Blocked /\ UNCHANGED io_threads
    BY <1>3 DEF Terminate, Blocked
  <2> QED
    BY <1>3, <2>3, <2>4 DEF CountersAgree, Terminate, exit_handler
<1>4. ASSUME BlockOnIO PROVE CountersAgree'
  <2>1. current_proc \in Procs /\ current_proc \notin Blocked
    BY <1>4, HeldOnly, PlaceNames DEF BlockOnIO, Blocked
  <2>2. Blocked' = Blocked \cup {current_proc}
    BY <1>4, <2>1 DEF BlockOnIO, pthread_create, Blocked, TypeOK
  <2>3. Cardinality(Blocked') = Cardinality(Blocked) + 1
    BY <1>1, <2>1, <2>2, FS_AddElement
  <2>4. UNCHANGED <<processes_count, freed>> /\ io_threads' = io_threads + 1
    BY <1>4 DEF BlockOnIO
  <2> QED
    BY <2>3, <2>4 DEF CountersAgree
<1>5. ASSUME NEW p \in Procs, IOReturn(p) PROVE CountersAgree'
  <2>1. p \in Blocked
    BY <1>5 DEF IOReturn, Blocked
  <2>2. Blocked' = Blocked \ {p}
    BY <1>5 DEF IOReturn, Blocked, TypeOK
  <2>3. Cardinality(Blocked') = Cardinality(Blocked) - 1
    BY <1>1, <2>1, <2>2, FS_RemoveElement
  <2>4. UNCHANGED <<processes_count, freed>> /\ io_threads' = io_threads - 1
    BY <1>5 DEF IOReturn, IOThreadEnds
  <2> QED
    BY <2>3, <2>4 DEF CountersAgree
<1>6. ASSUME NEW p \in Procs, IOWake(p) \/ IOEnter(p) PROVE CountersAgree'
  <2>1. \A q \in Procs : io'[q] = "none" <=> io[q] = "none"
    BY <1>6 DEF IOWake, IOEnter, TypeOK
  <2> QED
    BY <1>2, <1>6, <2>1 DEF IOWake, IOEnter
<1>7. ASSUME NEW p \in Procs, Tick(p) PROVE CountersAgree'
  BY <1>2, <1>7 DEF Tick
<1>8. ASSUME HandleSignal PROVE CountersAgree'
  BY <1>2, <1>8 DEF HandleSignal
<1>9. ASSUME UNCHANGED vars PROVE CountersAgree'
  BY <1>2, <1>9 DEF vars
<1>10. ASSUME MainEnter \/ Finish \/ StartPass \/ IdlePass PROVE CountersAgree'
  BY <1>2, <1>10 DEF MainEnter, Finish, StartPass, IdlePass
<1>11. ASSUME SwitchQueue \/ TakeRun \/ MergeAux \/ FetchNext PROVE CountersAgree'
  BY <1>2, <1>11 DEF SwitchQueue, TakeRun, MergeAux, FetchNext
<1>12. ASSUME QueueDrained \/ Resume \/ Aim \/ Preempt PROVE CountersAgree'
  BY <1>2, <1>12 DEF QueueDrained, Resume, Aim, Preempt
<1>13. ASSUME RayEnded \/ Demote \/ RayLeft \/ PackFails PROVE CountersAgree'
  BY <1>2, <1>13 DEF RayEnded, Demote, RayLeft, PackFails
<1> QED
  BY <1>3, <1>4, <1>5, <1>6, <1>7, <1>8, <1>9, <1>10, <1>11, <1>12, <1>13
     DEF Next, Step, MainStep, IOStep, Halted

-----------------------------------------------------------------------------
(* The error exits.                                                        *)

(* No step takes an error exit.                                            *)
LEMMA NeverAbortsStep ==
  ASSUME TypeOK, TurnInv, OnePlace, CountersAgree, NeverAborts, [Next]_vars
  PROVE  NeverAborts'
<1>1. ASSUME Demote PROVE NeverAborts'
  <2>1. get_lower_priority_queue_id(current_queue) \in QueueIds
    BY PolicyType DEF TypeOK
  <2>2. pc \in Holding
    BY <1>1, PlaceNames DEF Demote
  <2>3. /\ ~IsDuplicate(aux_queue, current_proc)
        /\ ~IsDuplicate(queues[get_lower_priority_queue_id(current_queue)], current_proc)
    BY <2>1, <2>2, HeldOnly DEF IsDuplicate
  <2>4. pc' = "fetch"
    BY <1>1, <2>3 DEF Demote
  <2> QED
    BY <2>4 DEF NeverAborts
<1>2. ASSUME BlockOnIO PROVE NeverAborts'
  <2>1. CountersAgree'
    BY CountersStep
  <2>2. OnePlace' /\ TypeOK'
    BY OnePlaceStep, TypeStep
  <2>3. Blocked' \subseteq Procs \ freed'
    <3> SUFFICES ASSUME NEW p \in Blocked', p \in freed'
                 PROVE  FALSE
      BY DEF Blocked
    <3>1. p \in Procs /\ At(p, IN_IO)' /\ At(p, GONE)'
      BY DEF Blocked, At, IN_IO, GONE, TypeOK
    <3>2. IN_IO \in Places' /\ GONE \in Places'
      BY DEF Places
    <3>3. IN_IO # GONE /\ IN_IO' = IN_IO /\ GONE' = GONE
      BY DEF IN_IO, GONE
    <3> QED
      BY <2>2, <3>1, <3>2, <3>3 DEF OnePlace, PlacedOnce
  <2>4. IsFiniteSet(Procs \ freed')
    BY ProcsFinite, FS_Subset
  <2>5. Cardinality(Blocked') <= Cardinality(Procs \ freed')
    BY <2>3, <2>4, FS_Subset
  <2>6. io_threads' <= processes_count'
    BY <2>1, <2>5 DEF CountersAgree
  <2>7. processes_count' \in Int /\ io_threads' \in Int /\ UNCHANGED processes_count
    BY <1>2, <2>2 DEF TypeOK, BlockOnIO, exitVars
  <2>8. pc' = "fetch"
    BY <1>2, <2>6, <2>7 DEF BlockOnIO
  <2> QED
    BY <2>8 DEF NeverAborts
<1>3. ASSUME MainEnter \/ Finish \/ StartPass \/ IdlePass PROVE NeverAborts'
  BY <1>3, PlaceNames DEF NeverAborts, MainEnter, Region, Finish, StartPass, IdlePass
<1>4. ASSUME SwitchQueue \/ TakeRun \/ MergeAux \/ FetchNext PROVE NeverAborts'
  BY <1>4 DEF NeverAborts, SwitchQueue, TakeRun, MergeAux, FetchNext
<1>5. ASSUME QueueDrained \/ Resume \/ Aim \/ Preempt PROVE NeverAborts'
  BY <1>5 DEF NeverAborts, QueueDrained, Resume, Aim, Preempt
<1>6. ASSUME RayEnded \/ Terminate \/ RayLeft \/ PackFails PROVE NeverAborts'
  BY <1>6 DEF NeverAborts, RayEnded, Terminate, RayLeft, PackFails
<1>7. ASSUME NEW p \in Procs, IOStep(p) \/ Tick(p) PROVE NeverAborts'
  BY <1>7 DEF NeverAborts, IOStep, IOWake, IOEnter, IOReturn, Tick
<1>8. ASSUME HandleSignal \/ UNCHANGED vars PROVE NeverAborts'
  BY <1>8 DEF NeverAborts, HandleSignal, vars
<1> QED
  BY <1>1, <1>2, <1>3, <1>4, <1>5, <1>6, <1>7, <1>8
     DEF Next, Step, MainStep, Halted

-----------------------------------------------------------------------------
(* The children.                                                           *)

(* Every step keeps all children but that of the turn stopped.             *)
LEMMA OneRunningStep ==
  ASSUME OneRunning, [Next]_vars
  PROVE  OneRunning'
<1> USE DEF policyVars, queueVars, ioVars, timeVars, childVars, exitVars,
            localVars, OneRunning
<1>1. ASSUME MainEnter PROVE OneRunning'
  <2>1. pc \notin {"aim", "wait"}
    BY <1>1, PlaceNames DEF MainEnter
  <2> QED
    BY <1>1, <2>1 DEF MainEnter
<1>2. ASSUME Finish \/ StartPass \/ IdlePass PROVE OneRunning'
  BY <1>2 DEF Finish, StartPass, IdlePass
<1>3. ASSUME SwitchQueue \/ TakeRun \/ MergeAux \/ FetchNext PROVE OneRunning'
  BY <1>3 DEF SwitchQueue, TakeRun, MergeAux, FetchNext
<1>4. ASSUME QueueDrained \/ Aim PROVE OneRunning'
  BY <1>4 DEF QueueDrained, Aim
<1>5. ASSUME Resume \/ Preempt PROVE OneRunning'
  BY <1>5 DEF Resume, Preempt, kill_SIGCONT, kill_SIGSTOP
<1>6. ASSUME RayEnded \/ Terminate \/ RayLeft \/ PackFails \/ Demote \/ BlockOnIO PROVE OneRunning'
  BY <1>6 DEF RayEnded, Terminate, RayLeft, PackFails, Demote, BlockOnIO
<1>7. ASSUME NEW p \in Procs, IOStep(p) \/ Tick(p) PROVE OneRunning'
  BY <1>7 DEF IOStep, IOWake, IOEnter, IOReturn, Tick
<1>8. ASSUME HandleSignal \/ UNCHANGED vars PROVE OneRunning'
  BY <1>8 DEF HandleSignal, vars
<1> QED
  BY <1>1, <1>2, <1>3, <1>4, <1>5, <1>6, <1>7, <1>8
     DEF Next, Step, MainStep, Halted

(* No step is taken after the end.                                         *)
LEMMA DoneStep ==
  ASSUME DoneInv, [Next]_vars
  PROVE  DoneInv'
<1>1. CASE UNCHANGED vars
  BY <1>1 DEF DoneInv, vars, exitVars
<1>2. CASE ~Stopped /\ Finish
  BY <1>2 DEF DoneInv, Finish, AllDone, exitVars
<1>3. ASSUME ~Stopped, MainStep, ~Finish PROVE pc' # "done"
  BY <1>3, PlaceNames
     DEF MainStep, MainEnter, Region, StartPass, IdlePass, SwitchQueue, TakeRun,
         MergeAux, FetchNext, QueueDrained, Resume, Aim, Preempt, RayEnded,
         Demote, Terminate, RayLeft, PackFails, BlockOnIO
<1>4. ASSUME ~Stopped, HandleSignal \/ \E p \in Procs : IOStep(p) \/ Tick(p)
      PROVE pc' # "done"
  BY <1>4 DEF Stopped, HandleSignal, IOStep, IOWake, IOEnter, IOReturn, Tick
<1> QED
  BY <1>1, <1>2, <1>3, <1>4 DEF Next, Step, Halted, DoneInv

(* When no process is left, every place but GONE is empty.                 *)
LEMMA DoneImpliesClean ==
  ASSUME TypeOK, OnePlace, CountersAgree, OneRunning, DoneInv
  PROVE  DoneIsClean
<1> SUFFICES ASSUME pc = "done"
             PROVE  /\ Blocked = {}
                    /\ aux_queue = <<>>
                    /\ \A id \in QueueIds : queues[id] = <<>>
                    /\ running = {}
  BY DEF DoneIsClean
<1>1. Procs \subseteq freed
  <2>1. IsFiniteSet(Procs \ freed)
    BY ProcsFinite, FS_Subset
  <2>2. Cardinality(Procs \ freed) \in Nat /\ Cardinality(Procs \ freed) <= 0
    BY <2>1, FS_CardinalityType DEF DoneInv, CountersAgree
  <2> QED
    BY <2>1, <2>2, FS_EmptySet
<1>2. \A p \in Procs, x \in Places : At(p, x) => x = GONE
  BY <1>1, PlaceIds DEF OnePlace, PlacedOnce, At
<1>3. Blocked = {}
  BY <1>2, PlaceIds DEF Blocked, At
<1>4. ASSUME NEW s \in Seq(Procs), \A p \in Procs : p \notin Range(s)
      PROVE  s = <<>>
  <2>1. Range(s) = {s[i] : i \in 1 .. Len(s)}
    BY RangeEquality
  <2>2. s # <<>> => s[1] \in Procs /\ 1 \in 1 .. Len(s)
    BY EmptySeq, ElementOfSeq
  <2> QED
    BY <1>4, <2>1, <2>2
<1>5. aux_queue = <<>>
  BY <1>2, <1>4, PlaceIds DEF TypeOK, At
<1>6. \A id \in QueueIds : queues[id] = <<>>
  <2> SUFFICES ASSUME NEW id \in QueueIds PROVE queues[id] = <<>>
    OBVIOUS
  <2>1. \A p \in Procs : p \notin Range(queues[id])
    BY <1>2, PlaceIds DEF At
  <2> QED
    BY <1>4, <2>1 DEF TypeOK
<1>7. running = {}
  BY DEF OneRunning
<1> QED
  BY <1>3, <1>5, <1>6, <1>7

-----------------------------------------------------------------------------
(* The inductive invariant.                                                *)

(* The invariant holds at the start.                                       *)
LEMMA IInvInit == Init => IInv
<1> SUFFICES ASSUME Init PROVE IInv
  OBVIOUS
<1>1. TypeOK /\ OnePlace
  BY TypeInit, OnePlaceInit
<1>2. TurnInv /\ NeverAborts /\ OneRunning /\ DoneInv
  BY PlaceNames DEF Init, TurnInv, NeverAborts, OneRunning, DoneInv
<1>3. SemaphoreInv
  BY PlaceNames DEF Init, SemaphoreInv, MutualExclusion, InsertingThreads
<1>4. CountersAgree
  <2>1. Blocked = {} /\ Procs \ freed = Procs
    BY DEF Init, Blocked
  <2> QED
    BY <2>1, ProcsFinite, FS_EmptySet DEF Init, CountersAgree
<1> QED
  BY <1>1, <1>2, <1>3, <1>4 DEF IInv

(* Main has a process in hand when it goes on with a turn.                 *)
LEMMA TurnStep ==
  ASSUME TypeOK, TurnInv, [Next]_vars
  PROVE  TurnInv'
<1> USE DEF policyVars, queueVars, ioVars, timeVars, childVars, exitVars,
            localVars
<1>1. ASSUME pc' \in Holding => pc \in Holding, UNCHANGED current_proc
      PROVE  TurnInv'
  BY <1>1 DEF TurnInv, Holding
<1>2. ASSUME FetchNext PROVE TurnInv'
  <2>1. queues[queue] \in Seq(Procs) /\ queues[queue] # <<>>
    BY <1>2 DEF TypeOK, FetchNext
  <2> QED
    BY <1>2, <2>1, HeadTailProperties DEF FetchNext, TurnInv
<1>3. ASSUME MainEnter PROVE TurnInv'
  BY <1>1, <1>3, PlaceNames DEF MainEnter, Region
<1>4. ASSUME Finish \/ StartPass \/ IdlePass \/ SwitchQueue \/ TakeRun PROVE TurnInv'
  BY <1>1, <1>4, PlaceNames DEF Finish, StartPass, IdlePass, SwitchQueue, TakeRun
<1>5. ASSUME MergeAux \/ QueueDrained \/ Resume \/ Aim \/ Preempt PROVE TurnInv'
  BY <1>1, <1>5, PlaceNames DEF MergeAux, QueueDrained, Resume, Aim, Preempt
<1>6. ASSUME RayEnded \/ Demote \/ Terminate \/ RayLeft \/ PackFails \/ BlockOnIO PROVE TurnInv'
  BY <1>1, <1>6, PlaceNames DEF RayEnded, Demote, Terminate, RayLeft, PackFails, BlockOnIO
<1>7. ASSUME NEW p \in Procs, IOStep(p) \/ Tick(p) PROVE TurnInv'
  BY <1>1, <1>7 DEF IOStep, IOWake, IOEnter, IOReturn, Tick
<1>8. ASSUME HandleSignal \/ UNCHANGED vars PROVE TurnInv'
  BY <1>1, <1>8 DEF HandleSignal, vars
<1> QED
  BY <1>2, <1>3, <1>4, <1>5, <1>6, <1>7, <1>8
     DEF Next, Step, MainStep, Halted

(* Every step keeps the invariant.                                         *)
LEMMA IInvStep == IInv /\ [Next]_vars => IInv'
<1> SUFFICES ASSUME IInv, [Next]_vars PROVE IInv'
  OBVIOUS
<1> QED
  BY TypeStep, TurnStep, OnePlaceStep, SemaphoreStep, CountersStep,
     NeverAbortsStep, OneRunningStep, DoneStep DEF IInv

(* The invariant holds in every state of the specification.                *)
LEMMA Inductive == Spec => []IInv
BY IInvInit, IInvStep, PTL DEF Spec

-----------------------------------------------------------------------------
(* Every variable keeps its type.                                          *)
THEOREM TypeCorrect == Spec => []TypeOK
<1>1. IInv => TypeOK
  BY DEF IInv
<1> QED
  BY <1>1, Inductive, PTL

(* At most one thread is in a critical region of main.c, as long as semop  *)
(* is not interrupted.                                                     *)
THEOREM MutualExclusionHolds == Spec => []MutualExclusion
<1>1. IInv => MutualExclusion
  BY DEF IInv, SemaphoreInv
<1> QED
  BY <1>1, Inductive, PTL

(* No process is ever lost or on two queues.                               *)
THEOREM OnePlaceHolds == Spec => []OnePlace
<1>1. IInv => OnePlace
  BY DEF IInv
<1> QED
  BY <1>1, Inductive, PTL

(* processes_count and io_threads are what they count.                     *)
THEOREM CountersAgreeHolds == Spec => []CountersAgree
<1>1. IInv => CountersAgree
  BY DEF IInv
<1> QED
  BY <1>1, Inductive, PTL

(* The "Crash-proof" test and the duplicate tests of main never succeed.   *)
THEOREM NeverAbortsHolds == Spec => []NeverAborts
<1>1. IInv => NeverAborts
  BY DEF IInv
<1> QED
  BY <1>1, Inductive, PTL

(* One child runs at a time, and only during its turn.                     *)
THEOREM OneRunningHolds == Spec => []OneRunning
<1>1. IInv => OneRunning
  BY DEF IInv
<1> QED
  BY <1>1, Inductive, PTL

(* What is destroyed at the end is not in use.                             *)
THEOREM DoneIsCleanHolds == Spec => []DoneIsClean
<1>1. IInv => DoneIsClean
  BY DoneImpliesClean DEF IInv
<1> QED
  BY <1>1, Inductive, PTL
=============================================================================
