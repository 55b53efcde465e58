---------------------------- MODULE DumpsProofs ----------------------------
(***************************************************************************)
(* Proof that dump_queues of T1/main.c leaves no trace, for any number of  *)
(* queues and any nodes on them, and keeps to what callers of the queue    *)
(* module must know.                                                       *)
(***************************************************************************)
EXTENDS Dumps, LinkedQueueProofs

allVars == <<vars, dumpVars>>

(* The three kinds of head are different ones.                             *)
LEMMA HeadsOfDump ==
  /\ QueueIds \subseteq Heads /\ aux_queue \in Heads /\ dump_queue \in Heads
  /\ aux_queue \notin QueueIds /\ dump_queue \notin QueueIds
  /\ aux_queue # dump_queue
  /\ 0 \in QueueIds
  /\ QFLAG_TRANSFER_ALL \in Qtds
BY DumpAssumption DEF QueueIds, aux_queue, dump_queue

(* Whoever calls it, the queue module is called as its callers must.       *)
LEMMA DumpStepsAreCalls ==
  ASSUME IInv, DumpInv, [DumpNext]_allVars
  PROVE  [Next]_vars
<1>0. /\ f \in Heads /\ f # dump_queue /\ dump_queue \in Heads
  BY HeadsOfDump DEF DumpInv, DumpFrame
<1>1. CASE UNCHANGED allVars
  BY <1>1 DEF allVars
<1>2. CASE Client
  BY <1>2, HeadsOfDump DEF Client, Calls, Next
<1>3. CASE InQueueModule
  BY <1>3 DEF InQueueModule, Next
<1>4. CASE StartDump \/ NodeKept \/ AuxNext \/ NextQueueOrEnd
  BY <1>4 DEF StartDump, NodeKept, AuxNext, NextQueueOrEnd
<1>5. CASE CreateDumpQueue \/ DestroyDumpQueue
  BY <1>0, <1>5 DEF CreateDumpQueue, DestroyDumpQueue, Calls, Next
<1>6. CASE TakeNode
  BY <1>0, <1>6 DEF TakeNode, Calls, Next
<1>7. CASE KeepNode
  <2>1. ret \in nodes /\ Loose(ret) /\ qhead_ins(dump_queue, ret)
    BY <1>7 DEF KeepNode, DumpInv, DumpContents, InHand
  <2>2. ret \in Nodes /\ OffOtherQueues(ret, dump_queue)
    BY <2>1 DEF IInv, TypeOK, Loose, OffOtherQueues
  <2> QED
    BY <1>0, <2>1, <2>2 DEF Calls, Next
<1>8. CASE PutBack
  <2>1. WillEnd(dump_queue, f, QFLAG_TRANSFER_ALL)
    BY <1>0 DEF WillEnd
  <2> QED
    BY <1>0, <1>8, <2>1, HeadsOfDump DEF PutBack, Calls, Next
<1>9. CASE Stopped
  BY <1>9 DEF Stopped
<1> QED
  BY <1>1, <1>2, <1>3, <1>4, <1>5, <1>6, <1>7, <1>8, <1>9
     DEF DumpNext, dump_queues

LEMMA DumpInitial == DumpInit => IInv /\ DumpInv
<1> SUFFICES ASSUME DumpInit PROVE IInv /\ DumpInv
  OBVIOUS
<1>1. IInv
  BY IInvInit DEF DumpInit
<1>2. DumpInv
  BY HeadsOfDump
     DEF DumpInit, DumpInv, DumpFrame, DumpHeads, DumpCalls, DumpContents
<1> QED
  BY <1>1, <1>2

-----------------------------------------------------------------------------
(* Between the calls of the dump, the loops of the queue module.           *)
LEMMA LoopKeepsDump ==
  ASSUME IInv, DumpInv, InQueueModule
  PROVE  DumpInv'
<1>0. /\ TypeOK /\ Represents /\ FrameInv /\ ScanInv
      /\ DumpFrame /\ DumpHeads /\ DumpCalls /\ DumpContents
      /\ Loops /\ UNCHANGED <<step, i, f, current, asked>>
  BY DEF IInv, DumpInv, InQueueModule, dumpVars
<1>1. at # "idle"
  BY <1>0 DEF Loops, ScanOn, Found, Link, InInsertion, TransferOne,
              TransferDone, FreeNode, FreeHead
<1>2. /\ f \in Heads /\ dump_queue \in Heads /\ f # dump_queue
      /\ \A h \in Heads : content[h] \in Seq(Nodes)
  BY <1>0, HeadsOfDump DEF DumpFrame, TypeOK
<1>3. CASE step = "out"
  BY <1>0, <1>3 DEF DumpInv, DumpFrame, DumpHeads, DumpCalls, DumpContents
<1>4. CASE step = "kept"
  <2>1. /\ at = "ins" /\ dest = dump_queue /\ InHand(node) /\ ~Found
    BY <1>0, <1>1, <1>4, LooseNotFound
       DEF DumpCalls, DumpContents, InInsertion
  <2>2. CASE ScanOn
    <3>1. UNCHANGED <<memory, content, at, dest, src, node, qtd, ret>>
      BY <2>2 DEF ScanOn
    <3> QED
      BY <1>0, <1>4, <2>1, <3>1
         DEF DumpInv, DumpFrame, DumpHeads, DumpCalls, DumpContents, memory,
             InHand, Loose, OnQueue
  <2>3. CASE Link
    <3>1. /\ at' = "idle" /\ ret' = "QUEUE_OK" /\ UNCHANGED memory
          /\ content' = [content EXCEPT ![dump_queue] = Append(@, node)]
      BY <1>0, <2>1, <2>3, LinkAppends DEF Link, InsReturns, Return
    <3>2. /\ content'[dump_queue] = Append(content[dump_queue], node)
          /\ \A h \in Heads \ {dump_queue} : content'[h] = content[h]
      BY <1>0, <1>2, <3>1 DEF TypeOK
    <3>3. Parted'
      BY <1>0, <1>2, <2>1, <3>2 DEF Parted, InHand
    <3> QED
      BY <1>0, <1>2, <1>4, <3>1, <3>2, <3>3
         DEF DumpInv, DumpFrame, DumpHeads, DumpCalls, DumpContents, memory
  <2> QED
    BY <1>0, <2>1, <2>2, <2>3
       DEF Loops, TransferOne, TransferDone, FreeNode, FreeHead
<1>5. CASE step = "restored"
  <2>1. /\ at \in {"transfer", "transfer_ins"}
        /\ src = dump_queue /\ dest = f /\ qtd < 0
        /\ heads = Heads
    BY <1>0, <1>1, <1>5 DEF DumpCalls, DumpHeads
  <2>2. ~Found
    BY <1>0, <2>1, LooseNotFound DEF FrameInv, Found, InInsertion
  <2>3. CASE ScanOn
    <3>1. UNCHANGED <<memory, content, at, dest, src, node, qtd, ret>>
      BY <2>3 DEF ScanOn
    <3> QED
      BY <1>0, <1>5, <2>1, <3>1
         DEF DumpInv, DumpFrame, DumpHeads, DumpCalls, DumpContents, memory
  <2>4. CASE Link
    <3>1. /\ at = "transfer_ins" /\ at' = "transfer" /\ qtd' = qtd - 1
          /\ UNCHANGED <<memory, dest, src>>
          /\ content' = [content EXCEPT ![f] = Append(@, node)]
      BY <1>0, <2>1, <2>4, LinkAppends
         DEF Link, InInsertion, InsReturns, OneLess
    <3>2. /\ content'[f] = Append(content[f], node)
          /\ \A h \in Heads \ {f} : content'[h] = content[h]
      BY <1>0, <1>2, <3>1 DEF TypeOK
    <3>3. asked.content[f] = content'[f] \o content'[dump_queue]
      BY <1>0, <1>2, <1>5, <3>1, <3>2 DEF DumpContents
    <3>4. qtd' < 0
      BY <1>0, <2>1, <3>1 DEF TypeOK
    <3> QED
      BY <1>0, <1>2, <1>5, <2>1, <3>1, <3>2, <3>3, <3>4
         DEF DumpInv, DumpFrame, DumpHeads, DumpCalls, DumpContents, memory
  <2>5. CASE TransferOne
    <3> PICK c : c = content[dump_queue]
      OBVIOUS
    <3>1. /\ at = "transfer" /\ at' = "transfer_ins"
          /\ ~qhead_empty(dump_queue) /\ Unlink(dump_queue)
          /\ node' = ini[dump_queue]
          /\ UNCHANGED <<memory, dest, src, qtd>>
      BY <2>1, <2>5 DEF TransferOne, Transferring
    <3>2. /\ c \in Seq(Nodes) /\ c # <<>> /\ node' = Head(c)
          /\ content' = [content EXCEPT ![dump_queue] = Tail(c)]
      BY <1>0, <1>2, <2>1, <3>1, UnlinkTakes
    <3>3. /\ content'[dump_queue] = Tail(c)
          /\ \A h \in Heads \ {dump_queue} : content'[h] = content[h]
      BY <1>0, <1>2, <3>2 DEF TypeOK
    <3>4. Append(content[f], Head(c)) \o Tail(c) = content[f] \o c
      BY <1>2, <3>2, MoveOver
    <3>5. asked.content[f] = Append(content'[f], node') \o content'[dump_queue]
      BY <1>0, <1>2, <1>5, <3>1, <3>2, <3>3, <3>4 DEF DumpContents
    <3> QED
      BY <1>0, <1>2, <1>5, <2>1, <3>1, <3>3, <3>5
         DEF DumpInv, DumpFrame, DumpHeads, DumpCalls, DumpContents, memory
  <2>6. CASE TransferDone
    <3>1. /\ at = "transfer" /\ at' = "idle" /\ qhead_empty(dump_queue)
          /\ UNCHANGED <<memory, content>>
      BY <1>0, <2>1, <2>6 DEF TransferDone, Transferring, Return, TypeOK
    <3>2. content[dump_queue] = <<>>
      BY <1>0, <1>2, <2>1, <3>1, EmptyQueue
    <3>3. content[f] = asked.content[f]
      <4>1. content[f] \o <<>> = content[f]
        BY <1>2, ConcatEmptySeq
      <4> QED
        BY <1>0, <1>5, <3>1, <3>2, <4>1 DEF DumpContents
    <3>4. \A h \in Heads : content[h] = asked.content[h]
      BY <1>0, <1>5, <3>2, <3>3 DEF DumpContents, DumpFrame
    <3>5. content = asked.content
      BY <1>0, <1>5, <3>4 DEF DumpFrame, TypeOK
    <3>6. content[f] \o content[dump_queue] = asked.content[f]
      BY <1>0, <1>5, <3>1 DEF DumpContents
    <3> QED
      BY <1>0, <1>2, <1>5, <2>1, <3>1, <3>5, <3>6
         DEF DumpInv, DumpFrame, DumpHeads, DumpCalls, DumpContents, memory
  <2> QED
    BY <1>0, <2>1, <2>2, <2>3, <2>4, <2>5, <2>6 DEF Loops, FreeNode, FreeHead
<1>6. CASE step = "destroyed"
  <2>1. /\ at = "destroy" /\ dest = dump_queue /\ heads = Heads
        /\ content = asked.content /\ content[dump_queue] = <<>>
    BY <1>0, <1>1, <1>6 DEF DumpCalls, DumpHeads, DumpContents, DumpFrame
  <2>2. ~FreeNode
    BY <1>0, <2>1, FreeNodeTakes
  <2>3. FreeHead
    BY <1>0, <2>1, <2>2
       DEF Loops, ScanOn, Found, Link, InInsertion, TransferOne, TransferDone
  <2>4. /\ at' = "idle" /\ heads' = Heads \ {dump_queue}
        /\ UNCHANGED <<nodes, content>>
    BY <2>1, <2>3 DEF FreeHead, Return
  <2> QED
    BY <1>0, <1>6, <2>1, <2>4
       DEF DumpInv, DumpFrame, DumpHeads, DumpCalls, DumpContents
<1> QED
  BY <1>0, <1>1, <1>3, <1>4, <1>5, <1>6 DEF DumpFrame, DumpCalls

-----------------------------------------------------------------------------
(* The steps of the dump itself.                                           *)
LEMMA DumpKeeps ==
  ASSUME IInv, DumpInv, dump_queues
  PROVE  DumpInv'
<1>0. /\ TypeOK /\ Represents
      /\ DumpFrame /\ DumpHeads /\ DumpCalls /\ DumpContents
  BY DEF IInv, DumpInv
<1>1. /\ f \in Heads /\ dump_queue \in Heads /\ f # dump_queue
      /\ \A h \in Heads : content[h] \in Seq(Nodes)
      /\ i \in QueueIds /\ QueueIds \subseteq Heads /\ dump_queue \notin QueueIds
      /\ 0 \in QueueIds /\ aux_queue \in Heads /\ aux_queue # dump_queue
  BY <1>0, HeadsOfDump DEF DumpFrame, TypeOK
<1>2. CASE StartDump
  <2>1. /\ at = "idle" /\ heads = Heads \ {dump_queue}
        /\ step' = "create" /\ i' = 0 /\ f' = 0 /\ current' \in QueueIds
        /\ asked' = [content |-> content, nodes |-> nodes]
        /\ UNCHANGED <<memory, content, at>>
    BY <1>2 DEF StartDump, vars, frame
  <2>2. content \in [Heads -> Seq(Nodes)] /\ content[dump_queue] = <<>>
    BY <1>0, <1>1, <2>1 DEF TypeOK, Represents, NodesOnce
  <2>3. asked'.content = content /\ asked'.nodes = nodes
    BY <2>1
  <2> QED
    BY <1>1, <2>1, <2>2, <2>3
       DEF DumpInv, DumpFrame, DumpHeads, DumpCalls, DumpContents, memory
<1>3. CASE CreateDumpQueue
  <2>1. step = "create" /\ at' = "idle"
        /\ UNCHANGED <<nodes, content, i, current, asked>>
    BY <1>3 DEF CreateDumpQueue, qhead_create, OutOfMemory, Refuse, Return, memory
  <2>2. CASE qhead_create(dump_queue) /\ step' = "take" /\ f' = i
    <3>1. heads' = Heads /\ content = asked.content /\ content[dump_queue] = <<>>
      BY <1>0, <1>1, <2>1, <2>2
         DEF qhead_create, DumpHeads, DumpContents, DumpFrame
    <3>2. Parted'
      <4>1. content[i] \in Seq(Nodes) /\ <<>> \o content[i] = content[i]
        BY <1>1, ConcatEmptySeq
      <4> QED
        BY <2>1, <2>2, <3>1, <4>1 DEF Parted
    <3> QED
      BY <1>0, <1>1, <2>1, <2>2, <3>1, <3>2
         DEF DumpInv, DumpFrame, DumpHeads, DumpCalls, DumpContents
  <2>3. CASE OutOfMemory /\ step' = "undefined" /\ UNCHANGED f
    BY <1>0, <1>1, <2>1, <2>3
       DEF OutOfMemory, Refuse, DumpInv, DumpFrame, DumpHeads, DumpCalls,
           DumpContents
  <2> QED
    BY <1>3, <2>2, <2>3 DEF CreateDumpQueue
<1>4. CASE TakeNode
  <2>1. /\ step = "take" /\ step' = "taken" /\ at = "idle" /\ at' = "idle"
        /\ UNCHANGED <<heads, nodes, i, f, current, asked>>
        /\ heads = Heads /\ f \in heads
    BY <1>0, <1>1, <1>4
       DEF TakeNode, qhead_rm, rm_null, Refuse, Return, memory, DumpHeads
  <2>2. content[dump_queue] \o content[f] = asked.content[f]
    BY <1>0, <2>1 DEF DumpContents, Parted
  <2>3. CASE qhead_rm(f)
    <3> PICK c, n : c = content[f] /\ n = ini[f]
      OBVIOUS
    <3>1. ~qhead_empty(f) /\ Unlink(f) /\ ret' = n
      BY <2>3 DEF qhead_rm, Return
    <3>2. /\ c \in Seq(Nodes) /\ c # <<>> /\ n = Head(c) /\ n \in Nodes
          /\ content' = [content EXCEPT ![f] = Tail(c)]
      BY <1>0, <2>1, <3>1, UnlinkTakes
    <3>3. /\ content'[f] = Tail(c)
          /\ \A h \in Heads \ {f} : content'[h] = content[h]
      BY <1>0, <1>1, <3>2 DEF TypeOK
    <3>4. n \in nodes /\ Loose(n)'
      BY <1>0, <2>1, <3>1, <3>2, NullAssumption, UnlinkKeeps DEF memory
    <3>5. Append(content[dump_queue], Head(c)) \o Tail(c) =
            content[dump_queue] \o c
      BY <1>1, <3>2, MoveOver
    <3>6. InHand(ret)'
      <4>1. Append(content'[dump_queue], ret') \o content'[f'] = asked'.content[f']
        BY <1>1, <2>1, <2>2, <3>1, <3>2, <3>3, <3>5
      <4> QED
        BY <2>1, <3>1, <3>4, <4>1 DEF InHand, Loose
    <3>7. ret' # NULL
      BY <3>1, <3>2, NullAssumption
    <3> QED
      BY <1>0, <1>1, <2>1, <3>3, <3>6, <3>7
         DEF DumpInv, DumpFrame, DumpHeads, DumpCalls, DumpContents
  <2>4. CASE rm_null(f)
    <3>1. ret' = NULL /\ content' = content /\ content[f] = <<>>
      BY <1>0, <2>1, <2>4, EmptyQueue DEF rm_null, Refuse, Return
    <3> QED
      BY <1>0, <1>1, <2>1, <2>2, <3>1
         DEF DumpInv, DumpFrame, DumpHeads, DumpCalls, DumpContents, Parted
  <2> QED
    BY <1>4, <2>3, <2>4 DEF TakeNode
<1>5. CASE KeepNode
  <2>1. /\ step = "taken" /\ ret # NULL /\ step' = "kept" /\ at' = "ins"
        /\ dest' = dump_queue /\ node' = ret
        /\ UNCHANGED <<memory, content, i, f, current, asked>>
    BY <1>5 DEF KeepNode, qhead_ins
  <2>2. InHand(ret)
    BY <1>0, <2>1 DEF DumpContents
  <2>3. InHand(node)' /\ Loose(node)'
    BY <2>1, <2>2 DEF InHand, Loose, OnQueue, memory
  <2> QED
    BY <1>0, <1>1, <2>1, <2>3
       DEF DumpInv, DumpFrame, DumpHeads, DumpCalls, DumpContents, memory
<1>6. CASE NodeKept
  <2>1. /\ step = "kept" /\ at = "idle" /\ ret = "QUEUE_OK" /\ step' = "take"
        /\ UNCHANGED <<memory, content, at, i, f, current, asked>>
    BY <1>0, <1>6 DEF NodeKept, DumpCalls, vars, frame
  <2>2. Parted /\ Parted'
    BY <1>0, <2>1 DEF DumpContents, Parted
  <2> QED
    BY <1>0, <1>1, <2>1, <2>2
       DEF DumpInv, DumpFrame, DumpHeads, DumpCalls, DumpContents, memory
<1>7. CASE PutBack
  <2>1. /\ step = "taken" /\ ret = NULL /\ step' = "restored" /\ at' = "transfer"
        /\ src' = dump_queue /\ dest' = f /\ qtd' = QFLAG_TRANSFER_ALL
        /\ UNCHANGED <<memory, content, i, f, current, asked>>
    BY <1>7 DEF PutBack, qhead_transfer
  <2>2. asked.content[f] = content[f] \o content[dump_queue]
    <3>1. /\ content[f] = <<>>
          /\ content[dump_queue] \o content[f] = asked.content[f]
      BY <1>0, <2>1 DEF DumpContents, Parted
    <3>2. /\ content[dump_queue] \o <<>> = content[dump_queue]
          /\ <<>> \o content[dump_queue] = content[dump_queue]
      BY <1>1, ConcatEmptySeq
    <3> QED
      BY <3>1, <3>2
  <2> QED
    BY <1>0, <1>1, <2>1, <2>2
       DEF DumpInv, DumpFrame, DumpHeads, DumpCalls, DumpContents, memory,
           QFLAG_TRANSFER_ALL
<1>8. CASE AuxNext
  <2>1. /\ step = "restored" /\ at = "idle" /\ step' = "take"
        /\ f' = aux_queue
        /\ UNCHANGED <<memory, content, at, i, current, asked>>
    BY <1>8 DEF AuxNext, vars, frame
  <2>2. content = asked.content /\ content[dump_queue] = <<>>
    BY <1>0, <2>1 DEF DumpContents, DumpFrame
  <2>3. Parted'
    <3>1. <<>> \o content[aux_queue] = content[aux_queue]
      BY <1>1, ConcatEmptySeq
    <3> QED
      BY <2>1, <2>2, <3>1 DEF Parted
  <2> QED
    BY <1>0, <1>1, <2>1, <2>2, <2>3
       DEF DumpInv, DumpFrame, DumpHeads, DumpCalls, DumpContents, memory
<1>9. CASE DestroyDumpQueue
  <2>1. /\ step = "restored" /\ at = "idle" /\ step' = "destroyed"
        /\ at' = "destroy" /\ dest' = dump_queue
        /\ UNCHANGED <<memory, content, i, f, current, asked>>
    BY <1>9 DEF DestroyDumpQueue, qhead_destroy
  <2> QED
    BY <1>0, <1>1, <2>1
       DEF DumpInv, DumpFrame, DumpHeads, DumpCalls, DumpContents, memory
<1>10. CASE NextQueueOrEnd
  <2>1. /\ step = "destroyed" /\ at = "idle" /\ UNCHANGED <<memory, content, at>>
    BY <1>10 DEF NextQueueOrEnd, vars, frame
  <2>2. CASE NextIndex < N_OF_QUEUES
    <3>1. /\ step' = "create" /\ i' = i + 1 /\ UNCHANGED <<f, current, asked>>
          /\ i + 1 < N_OF_QUEUES
      BY <1>10, <2>2 DEF NextQueueOrEnd, NextIndex
    <3>2. i' \in QueueIds
      BY <1>1, <3>1, DumpAssumption DEF QueueIds
    <3> QED
      BY <1>0, <1>1, <2>1, <3>1, <3>2
         DEF DumpInv, DumpFrame, DumpHeads, DumpCalls, DumpContents, memory
  <2>3. CASE ~(NextIndex < N_OF_QUEUES)
    <3>1. step' = "out" /\ i' = 0 /\ f' = 0 /\ current' = 0
      BY <1>10, <2>3 DEF NextQueueOrEnd
    <3> QED
      BY <1>1, <3>1
         DEF DumpInv, DumpFrame, DumpHeads, DumpCalls, DumpContents
  <2> QED
    BY <2>2, <2>3
<1> QED
  BY <1>2, <1>3, <1>4, <1>5, <1>6, <1>7, <1>8, <1>9, <1>10 DEF dump_queues

LEMMA DumpStep ==
  IInv /\ DumpInv /\ [DumpNext]_allVars => (IInv /\ DumpInv)' /\ [Next]_vars
<1> SUFFICES ASSUME IInv, DumpInv, [DumpNext]_allVars
             PROVE  IInv' /\ DumpInv' /\ [Next]_vars
  OBVIOUS
<1>1. [Next]_vars /\ IInv'
  BY DumpStepsAreCalls, IInvStep
<1>2. CASE UNCHANGED allVars \/ Stopped
  <2>1. UNCHANGED <<heads, nodes, content, at, dest, src, node, qtd, ret,
                    step, i, f, current, asked>>
    BY <1>2 DEF allVars, Stopped, vars, memory, frame, dumpVars
  <2>2. DumpFrame' /\ DumpHeads' /\ DumpCalls'
    BY <2>1 DEF DumpInv, DumpFrame, DumpHeads, DumpCalls, Loose, OnQueue
  <2>3. DumpContents'
    BY <2>1 DEF DumpInv, DumpContents, Parted, InHand, Loose, OnQueue
  <2> QED
    BY <1>1, <2>2, <2>3 DEF DumpInv
<1>3. CASE Client
  <2>1. step' = "out" /\ UNCHANGED <<i, f, current>>
    BY <1>3 DEF Client, dumpVars
  <2>2. DumpFrame'
    BY <2>1 DEF DumpInv, DumpFrame
  <2>3. DumpHeads' /\ DumpCalls'
    BY <2>1 DEF DumpHeads, DumpCalls
  <2>4. DumpContents'
    BY <2>1 DEF DumpContents
  <2> QED
    BY <1>1, <2>2, <2>3, <2>4 DEF DumpInv
<1> QED
  BY <1>1, <1>2, <1>3, LoopKeepsDump, DumpKeeps DEF DumpNext

LEMMA DumpInvAlways == DumpSpec => [](IInv /\ DumpInv)
BY DumpInitial, DumpStep, PTL DEF DumpSpec, allVars

(* dump_queues, together with all else that uses the queues, calls the     *)
(* queue module as it must be called.                                      *)
THEOREM LegalCallerHolds == DumpSpec => LegalCaller
<1>1. DumpInit => Init
  BY DEF DumpInit
<1> QED
  BY <1>1, DumpStep, DumpInvAlways, PTL DEF DumpSpec, LegalCaller, Spec, allVars

(* A dump leaves every queue as it found it.                               *)
THEOREM DumpRestoresHolds == DumpSpec => DumpRestores
<1>1. IInv /\ DumpInv /\ [DumpNext]_allVars =>
        [step = "destroyed" /\ step' = "out" =>
           content = asked.content /\ nodes = asked.nodes]_allVars
  BY DEF DumpInv, DumpFrame, DumpContents
<1> QED
  BY <1>1, DumpInvAlways, PTL DEF DumpSpec, DumpRestores, allVars

(* No insertion of a dump is refused, so that its error exit is not taken. *)
THEOREM NoErrorExit == DumpSpec => [](step # "exited")
<1>1. DumpInv => step # "exited"
  BY DEF DumpInv, DumpFrame
<1> QED
  BY <1>1, DumpInvAlways, PTL
=============================================================================
