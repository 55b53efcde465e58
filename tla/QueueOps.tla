------------------------------ MODULE QueueOps ------------------------------
(***************************************************************************)
(* What the operations of T1/queue.c do to a queue, seen as the sequence   *)
(* of its nodes from `ini' to `end'.                                       *)
(***************************************************************************)
EXTENDS Sequences, Functions

(* qhead_ins answers QUEUE_DUPLICATE and leaves the queue alone when the   *)
(* node is on it already.                                                  *)
IsDuplicate(queue, node) == node \in Range(queue)

qhead_ins(queue, node) ==
  IF IsDuplicate(queue, node) THEN queue ELSE Append(queue, node)

(* What qhead_rm leaves; it returns NULL for an empty queue.               *)
AfterRm(queue) == IF queue = <<>> THEN queue ELSE Tail(queue)

(* qhead_transfer with QFLAG_TRANSFER_ALL, for two different queues: what  *)
(* dest becomes.  Nodes of src that dest holds already are dropped; src    *)
(* ends empty.                                                             *)
Mutant_first_lost(src, dest) ==
  IF src = <<>> THEN dest ELSE dest \o Tail(src)

qhead_transfer(src, dest) ==
  IF Range(src) \cap Range(dest) = {}
    THEN dest \o src
    ELSE dest \o SelectSeq(src, LAMBDA node : ~IsDuplicate(dest, node))

HasNoDuplicate(queue) == IsInjective(queue)
=============================================================================
