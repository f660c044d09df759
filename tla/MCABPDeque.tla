------------------------------ MODULE MCABPDeque ------------------------------
(* Small instances of ABPDeque for TLC.                                    *)
EXTENDS ABPDeque, TLC

(* Tasks and thieves are interchangeable. *)
Symmetry == Permutations(Task) \union Permutations(Thieves)

===============================================================================
