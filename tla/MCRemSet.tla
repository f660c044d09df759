------------------------------- MODULE MCRemSet -------------------------------
(* The remembered sets with interchangeable processors and entries.          *)
EXTENDS RemSet, TLC

StorerSymmetry == Permutations(Storers) \cup Permutations(Entries)
===============================================================================
