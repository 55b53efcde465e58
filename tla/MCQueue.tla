------------------------------ MODULE MCQueue ------------------------------
(***************************************************************************)
(* An instance of the queues and their dump for TLC.                       *)
(***************************************************************************)
EXTENDS Dumps

TwoQueues == {0, 1, aux_queue, dump_queue}

(* All nodes, some of them, and a quantity qhead_transfer refuses.         *)
SomeQtds == {QFLAG_TRANSFER_ALL, 0, 2}
=============================================================================
