---------------------------- MODULE MCVMThreads ----------------------------
(***************************************************************************)
(* Instances of VMThreads for TLC.                                         *)
(***************************************************************************)
EXTENDS VMThreads, TLC

AddressSymmetry == Permutations(Threads)

=============================================================================
