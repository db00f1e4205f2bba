---------------------------- MODULE MCEmailQueue ----------------------------
(***************************************************************************)
(* EmailQueue for TLC.                                                     *)
(***************************************************************************)
EXTENDS EmailQueue, TLC

CONSTANTS p1, p2

\* Two processes that run the same worker are interchangeable.
SwapProcesses == Permutations(Procs)
=============================================================================
