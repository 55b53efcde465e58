-------------------------- MODULE LinkedQueueProps --------------------------
(***************************************************************************)
(* What the pointers of T1/queue.c must keep up, and what its loops        *)
(* deliver.                                                                *)
(***************************************************************************)
EXTENDS LinkedQueue, FiniteSetsExt

Functions_at == {"idle", "ins", "transfer", "transfer_ins", "destroy"}
Codes == {"QUEUE_OK", "QUEUE_NULL", "QUEUE_MEM", "QUEUE_PARAM",
          "QUEUE_DUPLICATE", "void"}

(* Every variable has its type.                                            *)
TypeOK ==
  /\ heads \in SUBSET Heads /\ nodes \in SUBSET Nodes
  /\ ini \in [Heads -> Nodes \cup {NULL}]
  /\ end \in [Heads -> Nodes \cup {NULL}]
  /\ next \in [Nodes -> Nodes \cup {NULL}]
  /\ content \in [Heads -> Seq(Nodes)]
  /\ at \in Functions_at
  /\ dest \in Heads \cup {NULL} /\ src \in Heads \cup {NULL}
  /\ node \in Nodes \cup {NULL} /\ q \in Nodes \cup {NULL}
  /\ qtd \in Int
  /\ ret \in Codes \cup Nodes \cup {NULL}
  /\ before \in [dest : Seq(Nodes), src : Seq(Nodes), qtd : Int,
                 heads : SUBSET Heads, nodes : SUBSET Nodes]

-----------------------------------------------------------------------------
(* The links nxt that make c the queue that starts at first.               *)
Linked(nxt, first, c) ==
  /\ first = IF c = <<>> THEN NULL ELSE c[1]
  /\ \A i \in 1 .. Len(c) : nxt[c[i]] = IF i < Len(c) THEN c[i + 1] ELSE NULL

Last(c) == IF c = <<>> THEN NULL ELSE c[Len(c)]

BeingDestroyed(h) == at = "destroy" /\ h = dest

(* Each queue's pointers spell its content; while a head is destroyed, the *)
(* cursor does for the nodes not freed yet.                                *)
PointersSpell ==
  \A h \in Heads :
    IF BeingDestroyed(h)
      THEN Linked(next, q, content[h])
      ELSE h \in heads =>
             Linked(next, ini[h], content[h]) /\ end[h] = Last(content[h])

(* A node has one place, in one queue, and what is on a queue is allocated.*)
NodesOnce ==
  /\ \A h \in Heads : OnQueue(h) \subseteq nodes /\ IsInjective(content[h])
  /\ \A h, g \in Heads : h # g => OnQueue(h) \cap OnQueue(g) = {}
  /\ \A h \in Heads \ heads : content[h] = <<>>

(* A node that is on no queue leads nowhere, so that inserting it does not *)
(* bring in others.                                                        *)
LooseNodes ==
  \A n \in nodes : Loose(n) => next[n] = NULL

(* The queue stays a queue.  Whatever the callers insert, take off, move,  *)
(* in part or whole, and destroy, following next from ini gives the        *)
(* queue's nodes, in order, once each and up to end, and none is freed.    *)
Represents == PointersSpell /\ NodesOnce /\ LooseNodes

-----------------------------------------------------------------------------
(* The nodes a transfer has to move, and the queue that is what is left of *)
(* queue and then what is moved.                                           *)
Moved ==
  IF before.qtd = QFLAG_TRANSFER_ALL THEN Len(before.src)
  ELSE Min({before.qtd, Len(before.src)})

Rotated(queue, n) ==
  IF queue = <<>> THEN <<>>
  ELSE LET k == n % Len(queue)
       IN  SubSeq(queue, k + 1, Len(queue)) \o SubSeq(queue, 1, k)

(* A transfer of qtd nodes appends the first qtd of the source, or all it  *)
(* has, in their order; of a queue to itself, it rotates it; and of all    *)
(* nodes, it does what the scheduler's model takes it to do.               *)
TransferDelivers ==
  [][at = "transfer" /\ at' = "idle" =>
       IF src = dest
         THEN content'[src] = Rotated(before.src, before.qtd)
         ELSE /\ content'[dest] = before.dest \o SubSeq(before.src, 1, Moved)
              /\ content'[src] =
                   SubSeq(before.src, Moved + 1, Len(before.src))
              /\ before.qtd = QFLAG_TRANSFER_ALL =>
                   content'[dest] = Seqs!qhead_transfer(before.src, before.dest)]_vars

(* When the destruction of a head ends, the memory is what the call found  *)
(* less the head and all the nodes that were on it: none of them is left   *)
(* behind, and no other node or head is freed.  The queue is empty.        *)
DestroyFreesQueue ==
  [][at = "destroy" /\ at' = "idle" =>
       /\ nodes' = before.nodes \ Range(before.dest)
       /\ heads' = before.heads \ {dest}
       /\ content'[dest] = <<>>]_vars

(* Every call returns: no loop goes round for ever, because no queue is    *)
(* linked into a ring.                                                     *)
Returns == at # "idle" ~> at = "idle"

-----------------------------------------------------------------------------
(* The inductive invariant behind Represents.  A loop works on heads that  *)
(* are there; the node being inserted is on no other queue, and off all of *)
(* them if a transfer has taken it; the cursor is at some position of the  *)
(* queue, and the node is not before it.                                   *)
FrameInv ==
  /\ InInsertion => node \in nodes /\ OffOtherQueues(node, dest)
  /\ at = "transfer_ins" => Loose(node)
  /\ at # "idle" => dest \in heads
  /\ at \in {"transfer", "transfer_ins"} => src \in heads

ScanInv ==
  InInsertion =>
    \E k \in 1 .. Len(content[dest]) + 1 :
      /\ q = IF k <= Len(content[dest]) THEN content[dest][k] ELSE NULL
      /\ \A j \in 1 .. k - 1 : content[dest][j] # node

IInv == TypeOK /\ Represents /\ FrameInv /\ ScanInv

(* What a transfer has made of its queues when it has moved n nodes.       *)
DestAfter(n) ==
  IF src = dest THEN Rotated(before.src, n)
  ELSE before.dest \o SubSeq(before.src, 1, n)

SrcAfter(n) == SubSeq(before.src, n + 1, Len(before.src))

QueuesAfter(n, d) ==
  /\ d = DestAfter(n)
  /\ src # dest => n <= Len(before.src) /\ content[src] = SrcAfter(n)

MovedSoFar == before.qtd - qtd

(* Behind TransferDelivers: qtd tells how many nodes have been moved, and  *)
(* between the two halves of a move the node is missing from the queues.   *)
TransferInv ==
  at \in {"transfer", "transfer_ins"} =>
    /\ WillEnd(src, dest, before.qtd)
    /\ src = dest => before.dest = before.src
    /\ src # dest => Range(before.src) \cap Range(before.dest) = {}
    /\ MovedSoFar >= 0
    /\ IF before.qtd = QFLAG_TRANSFER_ALL THEN qtd < 0 ELSE qtd >= 0
    /\ IF at = "transfer" THEN QueuesAfter(MovedSoFar, content[dest])
       ELSE /\ qtd # 0
            /\ QueuesAfter(MovedSoFar + 1, Append(content[dest], node))

(* Behind DestroyFreesQueue: of the nodes that were on the queue, those    *)
(* are freed that are on it no more.                                       *)
DestroyInv ==
  at = "destroy" =>
    /\ OnQueue(dest) \subseteq Range(before.dest)
    /\ nodes = before.nodes \ (Range(before.dest) \ OnQueue(dest))
    /\ heads = before.heads

CallInv == TransferInv /\ DestroyInv
=============================================================================
