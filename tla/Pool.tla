-------------------------------- MODULE Pool --------------------------------
(***************************************************************************)
(* What an allocator promises its callers: an element it hands out is      *)
(* nobody else's until it is freed.                                        *)
(***************************************************************************)
EXTENDS Naturals

CONSTANT Elems
VARIABLE holders        \* per element: how many callers hold it

Init == holders = [e \in Elems |-> 0]

Alloc(e) == holders[e] = 0 /\ holders' = [holders EXCEPT ![e] = 1]
Free(e) == holders[e] = 1 /\ holders' = [holders EXCEPT ![e] = 0]

Next == \E e \in Elems : Alloc(e) \/ Free(e)

Spec == Init /\ [][Next]_holders

=============================================================================
