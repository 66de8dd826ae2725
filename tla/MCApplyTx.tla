----------------------------- MODULE MCApplyTx -----------------------------
(* Instances of ApplyTx for TLC.                                           *)
EXTENDS ApplyTx, TLC

ValueSymmetry == Permutations(Values)
=============================================================================
