------------------------------ MODULE MCRestore ------------------------------
(* Instances of EmergencyRestore for TLC.                                   *)
EXTENDS EmergencyRestore, TLC

ValueSymmetry == Permutations(Values)
=============================================================================
