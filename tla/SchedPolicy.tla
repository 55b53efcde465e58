---------------------------- MODULE SchedPolicy ----------------------------
(***************************************************************************)
(* The pure functions of the T1 scheduler (T1/main.c): the queues'         *)
(* priorities, runs and quanta, and the ages at which the CPU bursts       *)
(* ("rays") of a process end.  Queue 0 has the highest priority.           *)
(***************************************************************************)
EXTENDS Integers, Sequences, FiniteSetsExt

CONSTANTS
  N_OF_QUEUES,      \* number of priority queues (3 in the program)
  SMALLEST_QUANTUM  \* quantum of queue 0, in ticks (1 in the program)

QueueIds == 0 .. N_OF_QUEUES - 1

FIRST_QUEUE_ID == 0

power_of_two(exp) == 2 ^ exp

(* Runs a queue gets before the next one takes over: the first queue has   *)
(* the most.                                                               *)
get_queue_runs(id) == power_of_two(N_OF_QUEUES - id - 1)

(* Ticks a process of queue id may use in one turn.                        *)
get_queue_quantum(id) == power_of_two(id) * SMALLEST_QUANTUM

get_higher_priority_queue_id(id) ==
  IF id <= 0 THEN 0 ELSE (id - 1) % N_OF_QUEUES

Mutant_lower_wraps(id) == (id + 1) % N_OF_QUEUES

get_lower_priority_queue_id(id) ==
  IF id >= N_OF_QUEUES - 1 THEN N_OF_QUEUES - 1 ELSE (id + 1) % N_OF_QUEUES

(* The value of `sum' after each turn of the loops over the rays: index k  *)
(* holds the age at which the k-th ray ends.                               *)
RayEnds(rays) ==
  LET end[k \in 0 .. Len(rays)] == IF k = 0 THEN 0 ELSE end[k - 1] + rays[k]
  IN  end

Mutant_last_ray_left_out(rays) == RayEnds(rays)[Len(rays) - 1]

get_ray_sum(rays) == RayEnds(rays)[Len(rays)]

Mutant_runs_over_all_rays(rays, age) ==
  IF age >= get_ray_sum(rays) THEN age ELSE get_ray_sum(rays)

Mutant_stops_at_age(rays, age) ==
  LET end == RayEnds(rays)
  IN  IF age >= get_ray_sum(rays) THEN age
      ELSE end[Min({k \in 0 .. Len(rays) : end[k] >= age})]

(* The loop leaves at the first ray end beyond age, and a process that has *)
(* no ray left gets its own age back.                                      *)
get_next_ray_age(rays, age) ==
  LET end == RayEnds(rays)
      beyond == {k \in 0 .. Len(rays) : end[k] > age}
  IN  IF age >= get_ray_sum(rays) THEN age ELSE end[Min(beyond)]

ASSUME QueueAssumption ==
  /\ N_OF_QUEUES \in Nat \ {0}
  /\ SMALLEST_QUANTUM \in Nat \ {0}

(* 1 << exp is positive for the exponents that occur.                      *)
ASSUME PowersAssumption ==
  \A id \in QueueIds : power_of_two(id) \in Nat \ {0}
=============================================================================
