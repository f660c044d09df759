------------------------- MODULE FixedSizeAllocator -------------------------
(***************************************************************************)
(* The allocators of heap records and union-find nodes, one per processor  *)
(* (runtime/gc/fixed-size-allocator.c).  A processor allocates from its    *)
(* own allocator only; whoever frees an element gives it back to the       *)
(* allocator it came from: the owner through its private free list, others *)
(* through a shared one that is pushed with a compare-and-swap and emptied *)
(* as a whole by the owner.                                                *)
(*                                                                         *)
(* The lists are linked through the elements, as in the code.  The buffer  *)
(* is the set of elements not handed out yet.  An element in use holds the *)
(* caller's data where its link was; nothing reads it as a link.           *)
(***************************************************************************)
EXTENDS Naturals, FiniteSets

CONSTANTS Procs,        \* processors, each with its allocator
          Elems,        \* all elements the buffers can ever hold
          Owner,        \* the allocator noted in the element's chunk
          Null,         \* no element
          MaxAllocs     \* bound: allocations of each processor

ASSUME OwnerAssumption == Owner \in [Elems -> Procs]
ASSUME FiniteAssumption == IsFiniteSet(Procs) /\ IsFiniteSet(Elems)
ASSUME NullAssumption == Null \notin Elems
ASSUME BoundAssumption == MaxAllocs \in Nat

VARIABLES
  freeList,        \* per allocator: head of the private list
  sharedFreeList,  \* per allocator: head of the shared list
  nextFree,        \* per element: its link
  numAllocated, numLocalFreed, numSharedFreed,    \* per allocator: statistics
  pc,              \* per processor: where it is in a call
  topElem,         \* per processor: allocateFixedSize's topElem
  elem, oldVal,    \* per processor: freeFixedSize's elem and oldVal
  place,           \* history, per element: where it is
  holders          \* history, per element: callers that hold it

numbers == <<numAllocated, numLocalFreed, numSharedFreed>>
vars == <<freeList, sharedFreeList, nextFree, numbers, pc, topElem, elem,
          oldVal, place, holders>>

Places == {"buffer", "inUse", "local", "shared", "taken", "pushing"}
Labels == {"idle", "swap", "others", "link", "push", "count"}

Init ==
  /\ freeList = [p \in Procs |-> Null]
  /\ sharedFreeList = [p \in Procs |-> Null]
  /\ nextFree = [e \in Elems |-> Null]
  /\ numAllocated = [p \in Procs |-> 0]
  /\ numLocalFreed = [p \in Procs |-> 0]
  /\ numSharedFreed = [p \in Procs |-> 0]
  /\ pc = [p \in Procs |-> "idle"]
  /\ topElem = [p \in Procs |-> Null]
  /\ elem = [p \in Procs |-> Null]
  /\ oldVal = [p \in Procs |-> Null]
  /\ place = [e \in Elems |-> "buffer"]
  /\ holders = [e \in Elems |-> 0]

-----------------------------------------------------------------------------
(* allocateFixedSize.                                                      *)

HandOut(e) == holders' = [holders EXCEPT ![e] = @ + 1]
GiveBack(e) == holders' = [holders EXCEPT ![e] = @ - 1]

MayAllocate(p) == pc[p] = "idle" /\ numAllocated[p] < MaxAllocs

\* Fast path 1: the private list.
AllocateLocal(p) ==
  LET e == freeList[p]
  IN  /\ MayAllocate(p)
      /\ e # Null
      /\ freeList' = [freeList EXCEPT ![p] = nextFree[e]]
      /\ nextFree' = [nextFree EXCEPT ![e] = Null]
      /\ numAllocated' = [numAllocated EXCEPT ![p] = @ + 1]
      /\ place' = [place EXCEPT ![e] = "inUse"]
      /\ HandOut(e)
      /\ UNCHANGED <<sharedFreeList, numLocalFreed, numSharedFreed, pc, topElem,
                     elem, oldVal>>

\* Fast path 2: the shared list is not empty, and only its owner empties it.
FindShared(p) ==
  /\ MayAllocate(p)
  /\ freeList[p] = Null /\ sharedFreeList[p] # Null
  /\ topElem' = [topElem EXCEPT ![p] = sharedFreeList[p]]
  /\ pc' = [pc EXCEPT ![p] = "swap"]
  /\ UNCHANGED <<freeList, sharedFreeList, nextFree, numbers, elem, oldVal, place,
                 holders>>

\* The compare-and-swap that takes the whole list, and the next attempt.
TakeShared(p) ==
  /\ pc[p] = "swap"
  /\ IF sharedFreeList[p] = topElem[p]
       THEN /\ sharedFreeList' = [sharedFreeList EXCEPT ![p] = Null]
            /\ place' = [e \in Elems |-> IF place[e] = "shared" /\ Owner[e] = p
                                           THEN "taken" ELSE place[e]]
            /\ pc' = [pc EXCEPT ![p] = "others"]
            /\ UNCHANGED topElem
       ELSE /\ topElem' = [topElem EXCEPT ![p] = sharedFreeList[p]]
            /\ UNCHANGED <<sharedFreeList, place, pc>>
  /\ UNCHANGED <<freeList, nextFree, numbers, elem, oldVal, holders>>

\* Mutant: the top element stays in the list.
BugKeepTop(p) ==
  LET t == topElem[p]
  IN  /\ pc[p] = "others"
      /\ freeList' = [freeList EXCEPT ![p] = t]
      /\ numAllocated' = [numAllocated EXCEPT ![p] = @ + 1]
      /\ place' = [e \in Elems |-> IF e = t THEN "inUse"
                                   ELSE IF place[e] = "taken" /\ Owner[e] = p
                                     THEN "local" ELSE place[e]]
      /\ HandOut(t)
      /\ pc' = [pc EXCEPT ![p] = "idle"]
      /\ topElem' = [topElem EXCEPT ![p] = Null]
      /\ UNCHANGED <<sharedFreeList, nextFree, numLocalFreed, numSharedFreed, elem,
                     oldVal>>

\* The top element is returned, the others become the private list.
KeepOthers(p) ==
  LET t == topElem[p]
  IN  /\ pc[p] = "others"
      /\ freeList' = [freeList EXCEPT ![p] = nextFree[t]]
      /\ nextFree' = [nextFree EXCEPT ![t] = Null]
      /\ numAllocated' = [numAllocated EXCEPT ![p] = @ + 1]
      /\ place' = [e \in Elems |-> IF e = t THEN "inUse"
                                   ELSE IF place[e] = "taken" /\ Owner[e] = p
                                     THEN "local" ELSE place[e]]
      /\ HandOut(t)
      /\ pc' = [pc EXCEPT ![p] = "idle"]
      /\ topElem' = [topElem EXCEPT ![p] = Null]
      /\ UNCHANGED <<sharedFreeList, numLocalFreed, numSharedFreed, elem, oldVal>>

\* Fast path 3 and the slow path: an element of the buffer.
AllocateFresh(p) ==
  /\ MayAllocate(p)
  /\ freeList[p] = Null /\ sharedFreeList[p] = Null
  /\ \E e \in Elems : /\ place[e] = "buffer" /\ Owner[e] = p
                      /\ place' = [place EXCEPT ![e] = "inUse"]
      /\ HandOut(e)
  /\ numAllocated' = [numAllocated EXCEPT ![p] = @ + 1]
  /\ UNCHANGED <<freeList, sharedFreeList, nextFree, numLocalFreed,
                 numSharedFreed, pc, topElem, elem, oldVal>>

-----------------------------------------------------------------------------
(* freeFixedSize, of an element that is in use.                            *)

FreeLocal(p, e) ==
  /\ pc[p] = "idle" /\ place[e] = "inUse" /\ Owner[e] = p
  /\ nextFree' = [nextFree EXCEPT ![e] = freeList[p]]
  /\ freeList' = [freeList EXCEPT ![p] = e]
  /\ numLocalFreed' = [numLocalFreed EXCEPT ![p] = @ + 1]
  /\ place' = [place EXCEPT ![e] = "local"]
  /\ GiveBack(e)
  /\ UNCHANGED <<sharedFreeList, numAllocated, numSharedFreed, pc, topElem, elem,
                 oldVal>>

FreeRemote(p, e) ==
  /\ pc[p] = "idle" /\ place[e] = "inUse" /\ Owner[e] # p
  /\ elem' = [elem EXCEPT ![p] = e]
  /\ place' = [place EXCEPT ![e] = "pushing"]
  /\ GiveBack(e)
  /\ pc' = [pc EXCEPT ![p] = "link"]
  /\ UNCHANGED <<freeList, sharedFreeList, nextFree, numbers, topElem, oldVal>>

\* oldVal is read and the element, still private, is linked to it.
Link(p) ==
  LET head == sharedFreeList[Owner[elem[p]]]
  IN  /\ pc[p] = "link"
      /\ oldVal' = [oldVal EXCEPT ![p] = head]
      /\ nextFree' = [nextFree EXCEPT ![elem[p]] = head]
      /\ pc' = [pc EXCEPT ![p] = "push"]
      /\ UNCHANGED <<freeList, sharedFreeList, numbers, topElem, elem, place,
                     holders>>

\* Mutant: the head is stored instead of compared and swapped.
BugPush(p) ==
  /\ pc[p] = "push"
  /\ sharedFreeList' = [sharedFreeList EXCEPT ![Owner[elem[p]]] = elem[p]]
  /\ place' = [place EXCEPT ![elem[p]] = "shared"]
  /\ pc' = [pc EXCEPT ![p] = "count"]
  /\ UNCHANGED <<freeList, nextFree, numbers, topElem, elem, oldVal, holders>>

\* The compare-and-swap that publishes the element.
Push(p) ==
  LET o == Owner[elem[p]]
  IN  /\ pc[p] = "push"
      /\ IF sharedFreeList[o] = oldVal[p]
           THEN /\ sharedFreeList' = [sharedFreeList EXCEPT ![o] = elem[p]]
                /\ place' = [place EXCEPT ![elem[p]] = "shared"]
                /\ pc' = [pc EXCEPT ![p] = "count"]
           ELSE /\ pc' = [pc EXCEPT ![p] = "link"]
                /\ UNCHANGED <<sharedFreeList, place>>
      /\ UNCHANGED <<freeList, nextFree, numbers, topElem, elem, oldVal, holders>>

\* Mutant: the statistics count down.
BugCount(p) ==
  /\ pc[p] = "count"
  /\ numSharedFreed' = [numSharedFreed EXCEPT ![Owner[elem[p]]] = @ - 1]
  /\ pc' = [pc EXCEPT ![p] = "idle"]
  /\ elem' = [elem EXCEPT ![p] = Null]
  /\ oldVal' = [oldVal EXCEPT ![p] = Null]
  /\ UNCHANGED <<freeList, sharedFreeList, nextFree, numAllocated, numLocalFreed,
                 topElem, place, holders>>

Count(p) ==
  /\ pc[p] = "count"
  /\ numSharedFreed' = [numSharedFreed EXCEPT ![Owner[elem[p]]] = @ + 1]
  /\ pc' = [pc EXCEPT ![p] = "idle"]
  /\ elem' = [elem EXCEPT ![p] = Null]
  /\ oldVal' = [oldVal EXCEPT ![p] = Null]
  /\ UNCHANGED <<freeList, sharedFreeList, nextFree, numAllocated, numLocalFreed,
                 topElem, place, holders>>

-----------------------------------------------------------------------------

\* Nobody has to call the allocator again.
Rest == (\A p \in Procs : pc[p] = "idle") /\ UNCHANGED vars

Step(p) ==
  \/ AllocateLocal(p)
  \/ FindShared(p)
  \/ TakeShared(p)
  \/ KeepOthers(p)
  \/ AllocateFresh(p)
  \/ \E e \in Elems : FreeLocal(p, e)
  \/ \E e \in Elems : FreeRemote(p, e)
  \/ Link(p)
  \/ Push(p)
  \/ Count(p)

Next == (\E p \in Procs : Step(p)) \/ Rest

Spec == Init /\ [][Next]_vars

-----------------------------------------------------------------------------

Links == Elems \cup {Null}

\* The state has the shape the code's types give it.
TypeOK ==
  /\ freeList \in [Procs -> Links] /\ sharedFreeList \in [Procs -> Links]
  /\ nextFree \in [Elems -> Links]
  /\ numAllocated \in [Procs -> Nat] /\ numLocalFreed \in [Procs -> Nat]
  /\ numSharedFreed \in [Procs -> Nat]
  /\ pc \in [Procs -> Labels]
  /\ topElem \in [Procs -> Links] /\ elem \in [Procs -> Links]
  /\ oldVal \in [Procs -> Links]
  /\ place \in [Elems -> Places] /\ holders \in [Elems -> Nat]

At(where, p) == {e \in Elems : place[e] = where /\ Owner[e] = p}

\* The elements a head leads to: those in every set that has the head and, with
\* an element, the one it links to.
Chain(head) ==
  LET Closed == {S \in SUBSET Elems : \A e \in {head} \cup {nextFree[d] : d \in S} :
                                        e \in S \cup {Null}}
  IN  {e \in Elems : \A S \in Closed : e \in S}

\* No element gets lost and none is in two lists: a list holds exactly the
\* elements that were freed to it, whichever pushes, attempts and take-overs
\* were under way together.
ListsAreWhole ==
  \A p \in Procs :
    /\ Chain(freeList[p]) = At("local", p)
    /\ Chain(sharedFreeList[p]) = At("shared", p)
    /\ pc[p] = "others" => Chain(topElem[p]) = At("taken", p)

Freed(p) == numLocalFreed[p] + numSharedFreed[p]

\* numFixedSizeCurrentlyInUse asserts that no more elements were freed than
\* allocated, with the frees counted after the elements can be allocated
\* again; once nobody is in a call the difference is what is in use.
InUseIsCounted ==
  \A p \in Procs :
    /\ Freed(p) <= numAllocated[p]
    /\ (\A q \in Procs : pc[q] = "idle") =>
         numAllocated[p] - Freed(p) = Cardinality(At("inUse", p))

\* The free lists are whole, and what was allocated and not freed is what is
\* in use.
ListsAndCounts == ListsAreWhole /\ InUseIsCounted

\* The allocator keeps its promise: it never hands out an element somebody
\* still uses or is giving back.
P == INSTANCE Pool
ImplementsPool == P!Spec

=============================================================================
