---------------------------- MODULE LinkedQueue ----------------------------
(***************************************************************************)
(* The queues of T1/queue.c as linked nodes: each head points to its first *)
(* and last node, each node to the next.  A function with a loop takes one *)
(* step per turn of the loop; the others take one step.  `content' is a    *)
(* history variable: the queue as a sequence, changed by the operations of *)
(* QueueOps, against which the pointers are checked.                       *)
(***************************************************************************)
EXTENDS Integers, Sequences, Functions

Seqs == INSTANCE QueueOps

CONSTANTS
  Heads,  \* the caller's variables of type qhead
  Nodes,  \* the addresses malloc may return for a node
  Qtds,   \* the quantities callers transfer
  NULL

ASSUME NullAssumption == NULL \notin Nodes \cup Heads

ASSUME QtdsAssumption == Qtds \subseteq Int

QFLAG_TRANSFER_ALL == -1

VARIABLES
  heads,    \* the heads that are allocated; a caller's others are NULL
  nodes,    \* the nodes that are allocated
  ini, end, \* of each head
  next,     \* of each node
  content,  \* of each head, as a sequence
  at,       \* the loop being executed, "idle" when the caller is
  dest, src, node, qtd, \* arguments of the call being executed
  q,        \* the loop's cursor
  ret,      \* what the last call returned, NULL during the next
  before    \* what the call found: its queues' contents, qtd, the memory

memory == <<heads, nodes>>
links  == <<ini, end, next>>
frame  == <<at, dest, src, node, qtd, q, before>>
vars   == <<memory, links, content, frame, ret>>

Nothing == [dest |-> <<>>, src |-> <<>>, qtd |-> 0, heads |-> {}, nodes |-> {}]

Init ==
  /\ heads = {} /\ nodes = {}
  /\ ini = [h \in Heads |-> NULL]
  /\ end = [h \in Heads |-> NULL]
  /\ next = [n \in Nodes |-> NULL]
  /\ content = [h \in Heads |-> <<>>]
  /\ at = "idle"
  /\ dest = NULL /\ src = NULL /\ node = NULL /\ qtd = 0 /\ q = NULL
  /\ ret = NULL
  /\ before = Nothing

OnQueue(h) == Range(content[h])

(* The locals of a function are gone when it returns.                      *)
Return(value) ==
  /\ ret' = value
  /\ at' = "idle"
  /\ dest' = NULL /\ src' = NULL /\ node' = NULL /\ qtd' = 0 /\ q' = NULL
  /\ before' = Nothing

Refuse(value) ==
  at = "idle" /\ Return(value) /\ UNCHANGED <<memory, links, content>>

-----------------------------------------------------------------------------
(* Nodes and heads.                                                        *)
qnode_create(n) ==
  /\ at = "idle" /\ n \notin nodes
  /\ nodes' = nodes \cup {n}
  /\ next' = [next EXCEPT ![n] = NULL]
  /\ Return("QUEUE_OK")
  /\ UNCHANGED <<heads, ini, end, content>>

(* What a freed node holds is forgotten.                                   *)
free(n) == nodes' = nodes \ {n} /\ next' = [next EXCEPT ![n] = NULL]

qnode_destroy(n) ==
  /\ at = "idle" /\ n \in nodes
  /\ free(n)
  /\ Return("void")
  /\ UNCHANGED <<heads, ini, end, content>>

qhead_create(h) ==
  /\ at = "idle" /\ h \notin heads
  /\ heads' = heads \cup {h}
  /\ ini' = [ini EXCEPT ![h] = NULL]
  /\ end' = [end EXCEPT ![h] = NULL]
  /\ Return("QUEUE_OK")
  /\ UNCHANGED <<nodes, next, content>>

(* malloc fails.                                                           *)
OutOfMemory == Refuse("QUEUE_MEM")

qhead_empty(h) == ini[h] = NULL

-----------------------------------------------------------------------------
(* qhead_ins, whose loop is that of qhead_has_node.                        *)
qhead_ins(h, n) ==
  /\ at = "idle" /\ h \in heads /\ n \in nodes
  /\ at' = "ins"
  /\ dest' = h /\ node' = n /\ q' = ini[h] /\ ret' = NULL
  /\ UNCHANGED <<memory, links, content, src, qtd, before>>

ins_null(h, n) == (h \notin heads \/ n = NULL) /\ Refuse("QUEUE_NULL")

InInsertion == at \in {"ins", "transfer_ins"}

ScanOn ==
  /\ InInsertion /\ q \notin {NULL, node}
  /\ q' = next[q]
  /\ UNCHANGED <<memory, links, content, at, dest, src, node, qtd, before, ret>>

Mutant_end_not_moved ==
  IF ini[dest] = NULL
    THEN /\ ini' = [ini EXCEPT ![dest] = node]
         /\ end' = [end EXCEPT ![dest] = node]
         /\ UNCHANGED next
    ELSE /\ next' = [next EXCEPT ![end[dest]] = node]
         /\ UNCHANGED <<ini, end>>

LinkNode ==
  IF ini[dest] = NULL
    THEN /\ ini' = [ini EXCEPT ![dest] = node]
         /\ end' = [end EXCEPT ![dest] = node]
         /\ UNCHANGED next
    ELSE /\ next' = [next EXCEPT ![end[dest]] = node]
         /\ end' = [end EXCEPT ![dest] = node]
         /\ UNCHANGED ini

Mutant_not_counted == qtd
OneLess == qtd - 1

(* The insertion returns to the caller, or to the loop of the transfer,    *)
(* which looks at qtd only.                                                *)
InsReturns(value) ==
  \/ at = "ins" /\ Return(value)
  \/ /\ at = "transfer_ins"
     /\ at' = "transfer"
     /\ qtd' = OneLess
     /\ node' = NULL /\ q' = NULL
     /\ UNCHANGED <<dest, src, before, ret>>

Found ==
  /\ InInsertion /\ q = node
  /\ InsReturns("QUEUE_DUPLICATE")
  /\ UNCHANGED <<memory, links, content>>

Link ==
  /\ InInsertion /\ q = NULL
  /\ LinkNode
  /\ content' = [content EXCEPT ![dest] = Seqs!qhead_ins(@, node)]
  /\ InsReturns("QUEUE_OK")
  /\ UNCHANGED memory

-----------------------------------------------------------------------------
(* The first node leaves the queue.                                        *)
Unlink(h) ==
  /\ end' = [end EXCEPT ![h] = IF ini[h] = @ THEN NULL ELSE @]
  /\ ini' = [ini EXCEPT ![h] = next[@]]
  /\ next' = [next EXCEPT ![ini[h]] = NULL]
  /\ content' = [content EXCEPT ![h] = Seqs!AfterRm(@)]

qhead_rm(h) ==
  /\ at = "idle" /\ h \in heads /\ ~qhead_empty(h)
  /\ Unlink(h)
  /\ Return(ini[h])
  /\ UNCHANGED memory

rm_null(h) == (h \notin heads \/ qhead_empty(h)) /\ Refuse(NULL)

-----------------------------------------------------------------------------
qhead_transfer(s, d, n) ==
  /\ at = "idle" /\ s \in heads /\ d \in heads
  /\ n > 0 \/ n = QFLAG_TRANSFER_ALL
  /\ at' = "transfer"
  /\ src' = s /\ dest' = d /\ qtd' = n /\ ret' = NULL
  /\ before' = [dest |-> content[d], src |-> content[s], qtd |-> n,
                heads |-> heads, nodes |-> nodes]
  /\ UNCHANGED <<memory, links, content, node, q>>

transfer_refused(s, d, n) ==
  \/ (s \notin heads \/ d \notin heads) /\ Refuse("QUEUE_NULL")
  \/ /\ s \in heads /\ d \in heads
     /\ n <= 0 /\ n # QFLAG_TRANSFER_ALL
     /\ Refuse("QUEUE_PARAM")

Mutant_one_too_few == qtd # 1 /\ ~qhead_empty(src)
Transferring == qtd # 0 /\ ~qhead_empty(src)

TransferOne ==
  /\ at = "transfer" /\ Transferring
  /\ Unlink(src)
  /\ node' = ini[src]
  /\ q' = ini'[dest]
  /\ at' = "transfer_ins"
  /\ UNCHANGED <<memory, dest, src, qtd, before, ret>>

TransferDone ==
  /\ at = "transfer" /\ ~Transferring
  /\ Return("QUEUE_OK")
  /\ UNCHANGED <<memory, links, content>>

-----------------------------------------------------------------------------
(* qhead_destroy frees the nodes too, each after its link has been read.   *)
qhead_destroy(h) ==
  /\ at = "idle" /\ h \in heads
  /\ at' = "destroy"
  /\ dest' = h /\ q' = ini[h] /\ ret' = NULL
  /\ before' = [dest |-> content[h], src |-> <<>>, qtd |-> 0,
                heads |-> heads, nodes |-> nodes]
  /\ UNCHANGED <<memory, links, content, src, node, qtd>>

Mutant_last_node_leaked ==
  /\ at = "destroy" /\ q # NULL
  /\ IF next[q] = NULL THEN UNCHANGED <<nodes, next>> ELSE free(q)
  /\ q' = next[q]
  /\ content' = [content EXCEPT ![dest] = Seqs!AfterRm(@)]
  /\ UNCHANGED <<heads, ini, end, at, dest, src, node, qtd, before, ret>>

FreeNode ==
  /\ at = "destroy" /\ q # NULL
  /\ free(q)
  /\ q' = next[q]
  /\ content' = [content EXCEPT ![dest] = Seqs!AfterRm(@)]
  /\ UNCHANGED <<heads, ini, end, at, dest, src, node, qtd, before, ret>>

FreeHead ==
  /\ at = "destroy" /\ q = NULL
  /\ heads' = heads \ {dest}
  /\ ini' = [ini EXCEPT ![dest] = NULL]
  /\ end' = [end EXCEPT ![dest] = NULL]
  /\ Return("void")
  /\ UNCHANGED <<nodes, next, content>>

-----------------------------------------------------------------------------
(* What callers must know.  A node has one link, so it can be on one queue *)
(* at a time, and a node that is on one is not destroyed; all of a queue   *)
(* is not transferred to itself, which would never end.                    *)
OffOtherQueues(n, h) == \A g \in Heads \ {h} : n \notin OnQueue(g)
Loose(n) == \A h \in Heads : n \notin OnQueue(h)
WillEnd(s, d, n) == s # d \/ n # QFLAG_TRANSFER_ALL

(* The calls a caller may make on the heads H.                             *)
Calls(H) ==
  \/ OutOfMemory
  \/ \E n \in Nodes : qnode_create(n) \/ (Loose(n) /\ qnode_destroy(n))
  \/ \E h \in H :
       \/ qhead_create(h) \/ qhead_destroy(h)
       \/ qhead_rm(h) \/ rm_null(h)
       \/ \E n \in Nodes : OffOtherQueues(n, h) /\ qhead_ins(h, n)
       \/ \E n \in Nodes \cup {NULL} : ins_null(h, n)
       \/ \E d \in H, n \in Qtds :
            \/ WillEnd(h, d, n) /\ qhead_transfer(h, d, n)
            \/ transfer_refused(h, d, n)

Loops ==
  \/ ScanOn \/ Found \/ Link
  \/ TransferOne \/ TransferDone
  \/ FreeNode \/ FreeHead

Next == Calls(Heads) \/ Loops

Spec == Init /\ [][Next]_vars
=============================================================================
