----------------------------- MODULE MCCCStack -----------------------------
(* Instances of CCStack for TLC.                                           *)
EXTENDS CCStack, TLC

DataSymmetry == Permutations(Data)
===============================================================================
