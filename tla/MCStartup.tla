------------------------------ MODULE MCStartup ------------------------------
(***************************************************************************)
(* An instance of the start and the scheduler for TLC.                     *)
(***************************************************************************)
EXTENDS StartupProps

(* Two processes that block for I/O, and one that is demoted.              *)
ThreeLines == << <<1, 1>>, <<2>>, <<1, 1>> >>
=============================================================================
