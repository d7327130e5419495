------------------------------ MODULE MCSpiMem ------------------------------
(* Instances of SpiMem for TLC.                                             *)
EXTENDS SpiMem, TLC

TaskSymmetry == Permutations(Tasks)
=============================================================================
