----------------------------- MODULE MCPromotion -----------------------------
(* What a promotion works on, checked in one run: "which" is chosen in the  *)
(* initial state; either heartbeats turn sporks into forks, or forks, joins *)
(* and collections change the heaps of threads.  The beats that do not run  *)
(* stay as they start, the heaps have no state.                             *)
EXTENDS Heartbeat

CONSTANTS t1, t2, HeapThreads, HeapRoot, HeapsPerThread, ChunksPerThread, HeapDepth,
          Entangled, Nil

VARIABLES which, heap, levelHead, heapThread, grace, older, budget

Budget(depth, spawns, regs, lookups, locals, missing) ==
  [depth |-> depth, spawns |-> spawns, regs |-> regs, lookups |-> lookups,
   locals |-> locals, missing |-> missing]
(* Two collections, of which one may still run when its depth is joined; a  *)
(* look-up beside a collection; a local collection around one.              *)
Some == {Budget(4, 3, 2, 0, 0, 0), Budget(3, 2, 1, 1, 0, 0), Budget(3, 2, 1, 0, 1, 1)}

Heaps == INSTANCE HeapChain WITH
  Threads <- HeapThreads, Root <- HeapRoot, MaxDepth <- HeapDepth, Budgets <- Some,
  thread <- heapThread

ASSUME Heaps!HeapChainAssumption

heapVars == <<heap, levelHead, heapThread, grace, older, budget>>
AllVars == <<which, vars, heapVars>>

NoHeaps == heap = Nil /\ levelHead = Nil /\ heapThread = Nil /\ grace = Nil
             /\ older = Nil /\ budget = Nil
AllInit == \/ which = "heaps" /\ Heaps!Init /\ Init
           \/ which = "beats" /\ Init /\ NoHeaps
AllNext ==
  \/ /\ which = "heaps"
     /\ Heaps!Next \/ UNCHANGED heapVars      \* the bounds end there
     /\ UNCHANGED <<which, vars>>
  \/ which = "beats" /\ Next /\ UNCHANGED <<which, heapVars>>
AllSpec == AllInit /\ [][AllNext]_AllVars

\* HeapChain: the list of heaps of a thread is sorted, its chains are what the
\* assertions say, and no heap is lost or in two lists.
ListsAreRight == which = "heaps" => Heaps!ChainTypeOK /\ Heaps!ChainsAreRight

\* HeapChain: whoever looks for the heap of a chunk finds the right one.
FindsHeaps == which = "heaps" => Heaps!LevelHeadsAreRight

\* HeapChain: no chunk outside of a heap that is registered points into it.
NothingPointsInto == [][which = "heaps" => Heaps!RegisteredHeapsAreClosed]_AllVars
==============================================================================
