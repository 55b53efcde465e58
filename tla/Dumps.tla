------------------------------- MODULE Dumps -------------------------------
(***************************************************************************)
(* dump_queues of T1/main.c: to print a queue, which has no iterator, it   *)
(* takes it apart node by node into a queue of its own and moves them      *)
(* back.  Between two dumps the rest of the program calls the queue module *)
(* as it likes.                                                            *)
(***************************************************************************)
EXTENDS LinkedQueueProps

CONSTANT N_OF_QUEUES

(* proc_queues, by index, and the two other heads.                         *)
QueueIds == 0 .. N_OF_QUEUES - 1
aux_queue == -1
dump_queue == -2

ASSUME DumpAssumption ==
  /\ N_OF_QUEUES \in Nat \ {0}
  /\ Heads = QueueIds \cup {aux_queue, dump_queue}
  /\ QFLAG_TRANSFER_ALL \in Qtds

VARIABLES
  step,     \* where dump_queues is, "out" when it is not being executed
  i, f,     \* the loop's counter; the queue being taken apart
  current,  \* current_queue.id
  asked     \* what the dump found: contents and nodes

dumpVars == <<step, i, f, current, asked>>

NotAsked == [content |-> <<>>, nodes |-> {}]

DumpInit ==
  /\ Init
  /\ step = "out" /\ i = 0 /\ f = 0 /\ current = 0
  /\ asked = NotAsked

(* Everything else that uses the queues: it has no access to dump_queue.   *)
Client ==
  /\ step = "out"
  /\ Calls(Heads \ {dump_queue})
  /\ UNCHANGED dumpVars

InQueueModule == Loops /\ UNCHANGED dumpVars

(* create_queues has run before.                                           *)
StartDump ==
  /\ step = "out" /\ at = "idle"
  /\ heads = Heads \ {dump_queue}
  /\ step' = "create" /\ i' = 0 /\ f' = 0
  /\ current' \in QueueIds
  /\ asked' = [content |-> content, nodes |-> nodes]
  /\ UNCHANGED vars

(* What qhead_create returns is not looked at: without memory, the pointer *)
(* used from here on is no queue, and nothing is said of what follows.     *)
CreateDumpQueue ==
  /\ step = "create"
  /\ \/ qhead_create(dump_queue) /\ step' = "take" /\ f' = i
     \/ OutOfMemory /\ step' = "undefined" /\ UNCHANGED f
  /\ UNCHANGED <<i, current, asked>>

Mutant_node_not_taken ==
  /\ step = "take" /\ at = "idle"
  /\ Refuse(ini[f])
  /\ step' = "taken"
  /\ UNCHANGED <<i, f, current, asked>>

TakeNode ==
  /\ step = "take"
  /\ qhead_rm(f) \/ rm_null(f)
  /\ step' = "taken"
  /\ UNCHANGED <<i, f, current, asked>>

KeepNode ==
  /\ step = "taken" /\ ret # NULL
  /\ qhead_ins(dump_queue, ret)
  /\ step' = "kept"
  /\ UNCHANGED <<i, f, current, asked>>

NodeKept ==
  /\ step = "kept" /\ at = "idle"
  /\ step' = IF ret = "QUEUE_OK" THEN "take" ELSE "exited"
  /\ UNCHANGED <<vars, i, f, current, asked>>

Mutant_dumped_to_first ==
  /\ step = "taken" /\ ret = NULL
  /\ qhead_transfer(dump_queue, 0, QFLAG_TRANSFER_ALL)
  /\ step' = "restored"
  /\ UNCHANGED <<i, f, current, asked>>

PutBack ==
  /\ step = "taken" /\ ret = NULL
  /\ qhead_transfer(dump_queue, f, QFLAG_TRANSFER_ALL)
  /\ step' = "restored"
  /\ UNCHANGED <<i, f, current, asked>>

(* The queue being served goes with the auxiliary queue.                   *)
AuxNext ==
  /\ step = "restored" /\ at = "idle" /\ f = current
  /\ step' = "take" /\ f' = aux_queue
  /\ UNCHANGED <<vars, i, current, asked>>

DestroyDumpQueue ==
  /\ step = "restored" /\ f # current
  /\ qhead_destroy(dump_queue)
  /\ step' = "destroyed"
  /\ UNCHANGED <<i, f, current, asked>>

Mutant_index_wraps == (i + 1) % N_OF_QUEUES
NextIndex == i + 1

NextQueueOrEnd ==
  /\ step = "destroyed" /\ at = "idle"
  /\ IF NextIndex < N_OF_QUEUES
       THEN step' = "create" /\ i' = NextIndex /\ UNCHANGED <<f, current, asked>>
       ELSE step' = "out" /\ i' = 0 /\ f' = 0 /\ current' = 0 /\ asked' = NotAsked
  /\ UNCHANGED vars

dump_queues ==
  \/ StartDump \/ CreateDumpQueue \/ TakeNode \/ KeepNode \/ NodeKept
  \/ PutBack \/ AuxNext \/ DestroyDumpQueue \/ NextQueueOrEnd

Stopped == step \in {"exited", "undefined"} /\ UNCHANGED <<vars, dumpVars>>

DumpNext == Client \/ InQueueModule \/ dump_queues \/ Stopped

DumpSpec == DumpInit /\ [][DumpNext]_<<vars, dumpVars>>

(* Called functions go on.                                                 *)
FairDumpSpec ==
  DumpSpec /\ WF_<<vars, dumpVars>>(InQueueModule \/ (step # "out" /\ dump_queues))

-----------------------------------------------------------------------------
(* A dump leaves no trace: every queue has the nodes it had, in the same   *)
(* order, and no node is freed with the queue they were kept on.           *)
DumpRestores ==
  [][step = "destroyed" /\ step' = "out" =>
       content = asked.content /\ nodes = asked.nodes]_<<vars, dumpVars>>

(* dump_queues uses the queue module as its other callers do: in           *)
(* particular it never inserts a node that is still on a queue.            *)
LegalCaller == Spec

(* A dump that has begun ends, unless its queue could not be created, and  *)
(* not by the error exit of a refused insertion.                           *)
DumpEnds == step # "out" ~> step \in {"out", "undefined"}

-----------------------------------------------------------------------------
(* The inductive invariant behind these.  The queue being dumped is in two *)
(* parts, first on one side of the node in hand and then on the other; the *)
(* node is on no queue, so that no insertion of it is refused; and the     *)
(* other queues are as they were found.                                    *)
DumpFrame ==
  /\ step \in {"out", "create", "take", "taken", "kept", "restored",
               "destroyed", "undefined"}
  /\ i \in QueueIds /\ current \in QueueIds
  /\ f \in Heads \ {dump_queue}
  /\ step # "out" =>
       /\ asked.content \in [Heads -> Seq(Nodes)]
       /\ asked.content[dump_queue] = <<>>
       /\ nodes = asked.nodes

DumpHeads ==
  /\ step \in {"take", "taken", "kept", "restored"} => heads = Heads
  /\ step = "destroyed" /\ at # "idle" => heads = Heads
  /\ step = "create" \/ (step = "destroyed" /\ at = "idle") =>
       heads = Heads \ {dump_queue}

(* What the dump waits for, if it has called the queue module.             *)
DumpCalls ==
  /\ step \in {"create", "take", "taken", "undefined"} => at = "idle"
  /\ step = "kept" => at \in {"idle", "ins"}
  /\ step = "restored" => at \in {"idle", "transfer", "transfer_ins"}
  /\ step = "destroyed" => at \in {"idle", "destroy"}
  /\ step = "kept" /\ at = "ins" => dest = dump_queue /\ Loose(node)
  /\ step = "restored" /\ at # "idle" =>
       src = dump_queue /\ dest = f /\ qtd < 0
  /\ step = "destroyed" /\ at = "destroy" => dest = dump_queue
  /\ step = "kept" /\ at = "idle" => ret = "QUEUE_OK"

InHand(n) ==
  n \in nodes /\ Loose(n)
    /\ Append(content[dump_queue], n) \o content[f] = asked.content[f]

Parted == content[dump_queue] \o content[f] = asked.content[f]

DumpContents ==
  /\ step # "out" =>
       \A h \in Heads \ {dump_queue, f} : content[h] = asked.content[h]
  /\ step = "take" => Parted
  /\ step = "taken" =>
       IF ret = NULL THEN Parted /\ content[f] = <<>> ELSE InHand(ret)
  /\ step = "kept" => IF at = "ins" THEN InHand(node) ELSE Parted
  /\ step = "restored" =>
       asked.content[f] =
         (IF at = "transfer_ins" THEN Append(content[f], node) ELSE content[f])
           \o content[dump_queue]
  /\ step \in {"create", "destroyed"} \/ (step = "restored" /\ at = "idle") =>
       content = asked.content

DumpInv == DumpFrame /\ DumpHeads /\ DumpCalls /\ DumpContents
=============================================================================
