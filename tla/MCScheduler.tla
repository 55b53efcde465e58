---------------------------- MODULE MCScheduler ----------------------------
(***************************************************************************)
(* Instances of the scheduler for TLC.                                     *)
(***************************************************************************)
EXTENDS SchedulerProps

(* Two processes bound by I/O, and one by the CPU that is demoted to the   *)
(* last of two queues and has time left there.                             *)
Mixed == << <<1, 1>>, <<4>>, <<1, 1>> >>

(* Four processes: the second is demoted to the last of three queues and   *)
(* stays there, the last has a first ray of length 0, which it goes past.  *)
Four == << <<1, 2>>, <<8>>, <<2, 1, 1>>, <<0, 3>> >>

(* Three processes that are blocked for I/O at the same time.              *)
Short == << <<1, 1>>, <<2>>, <<1, 1>> >>
=============================================================================
