---------------------------- MODULE MCCollectors ----------------------------
(* The concurrent collector, the local collector and the entanglement check, *)
(* in one run: "which" is chosen in the initial state and that one runs, the *)
(* others stay as initialised.                                               *)
EXTENDS MCConcurrentCollection, LocalCollection, Decheck

CONSTANTS g, shared, t1, t2, t3, Program

VARIABLE which

(* An owner's heap: what its stack leads to, what the object a leads to, and *)
(* what b does, with the depths of these three.                              *)
Heap(onStack, ofA, ofB) ==
  [x \in LocalObjects \union {Stack} |->
     CASE x = Stack -> onStack [] x = a -> ofA [] x = b -> ofB
       [] OTHER -> [k \in LocalFields |-> NULL]]
Two(x, y) == (f :> x) @@ (g :> y)
One(x) == Two(x, NULL)
None == Two(NULL, NULL)
Depths(da, db, dc) ==
  [x \in LocalObjects |-> CASE x = a -> da [] x = b -> db [] OTHER -> dc]
TwoSlots == [x \in LocalObjects \union {Shared, Stack} |->
               IF x \in {Stack, b} THEN {f, g} ELSE {f}]
MutableOnes == {a, shared}

(* The object a is mutable and b is not; n has a chunk of its own.           *)
Overlapping(fields, depths, count) ==
  [field |-> fields, depth |-> depths, writes |-> count, overlap |-> TRUE, overwrites |-> FALSE]
Alternating(fields, depths, count) ==
  [field |-> fields, depth |-> depths, writes |-> count, overlap |-> FALSE, overwrites |-> TRUE]

(* Without a collection during a barrier, any heap.  With one, the heaps     *)
(* without immutable objects that lead to others and without pointers from   *)
(* one of the owner's heaps into a deeper one.                               *)
Alternate == {
  Alternating(Heap(One(a), One(b), Two(c, c)), Depths(2, 2, 2), 1),
  Alternating(Heap(One(a), One(b), One(n)), Depths(2, 2, 2), 1),
  Alternating(Heap(Two(a, c), None, None), Depths(2, 2, 3), 2)}
Overlap == {
  Overlapping(Heap(One(a), One(c), None), Depths(2, 2, 2), 2),
  Overlapping(Heap(One(a), One(c), None), Depths(3, 2, 2), 2),
  Overlapping(Heap(One(a), One(n), None), Depths(2, 2, 2), 2)}

(* CollectionProofs is about these heaps.                                    *)
ASSUME \A s \in Overlap : IsPlain(s)

(* The heaps of the two runs that expect a violation.                        *)
ImmutableChain == {Overlapping(Heap(One(a), One(b), One(c)), Depths(2, 2, 2), 1)}
InnerPointer == {Overlapping(Heap(Two(a, c), None, None), Depths(2, 2, 3), 2)}

SomePrograms ==
  CASE Program = "all" -> Alternate \union Overlap
    [] Program = "immutable chain" -> ImmutableChain
    [] Program = "inner pointer" -> InnerPointer

AllVars == <<which, vars, localVars, decheckVars>>

(* What does not run.                                                        *)
NoConcurrent == Init /\ field = CHOOSE start \in Several : TRUE
NoLocal == LocalInit /\ shape = CHOOSE s \in Programs : TRUE
AllInit ==
  \/ which = "concurrent" /\ Program = "all" /\ Init /\ NoLocal /\ DecheckInit
  \/ which = "local" /\ LocalInit /\ NoConcurrent /\ DecheckInit
  \/ which = "check" /\ Program = "all" /\ DecheckInit /\ NoConcurrent /\ NoLocal

AllNext ==
  \/ which = "concurrent" /\ Next /\ UNCHANGED <<which, localVars, decheckVars>>
  \/ which = "local" /\ LocalNext /\ UNCHANGED <<which, vars, decheckVars>>
  \/ which = "check" /\ DecheckNext /\ UNCHANGED <<which, vars, localVars>>

AllSpec == AllInit /\ [][AllNext]_AllVars

\* The types of the three parts.
AllTypeOK == TypeOK /\ LocalTypeOK /\ DecheckTypeOK
=============================================================================
