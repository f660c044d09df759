----------------------- MODULE MCConcurrentCollection -----------------------
(* Heaps of a few objects for ConcurrentCollection.                          *)
EXTENDS ConcurrentCollection, TLC

CONSTANTS a, b, c, n, f

Of(x, y, z) == [o \in Objects |-> [k \in Fields |->
  CASE o = a -> x [] o = b -> y [] o = c -> z [] OTHER -> Nil]]

(* A list, a list whose tail has a second way in, and a cycle.              *)
List == {Of(b, c, Nil)}
Several == List \union {Of(c, c, Nil), Of(b, a, c)}
Start == {a}

MutatorSymmetry == Permutations(Mutators)

(* Every object has a chunk of its own.                                      *)
OwnChunks == (a :> 1) @@ (b :> 2) @@ (c :> 3) @@ (n :> 4)

=============================================================================
