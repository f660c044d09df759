--------------------------- MODULE StructuresProofs ---------------------------
(***************************************************************************)
(* The shared data structures of the runtime, for any number of            *)
(* processors, elements, storers and entries: the fixed-size allocators,   *)
(* the root bag of the concurrent collector and the remembered sets.  They *)
(* do not call each other; each has its part below.                        *)
(***************************************************************************)
EXTENDS FixedSizeAllocator, CCStack, RemSet,
        FiniteSetTheorems, SequenceTheorems, WellFoundedInduction, TLAPS

-----------------------------------------------------------------------------

(***************************************************************************)
(* The fixed-size allocator keeps its promise for every number of          *)
(* processors, elements and allocations: an element is never handed out    *)
(* while somebody holds it or is giving it back.                           *)
(*                                                                         *)
(* That needs the shape of the linked lists, stated without reachability:  *)
(* an element on a list links to an element of the same list, no two       *)
(* elements link to the same one, and none links to the head.  Removing a  *)
(* head therefore leaves no link to it behind, which is what makes a stale *)
(* head in a compare-and-swap harmless.                                    *)
(*                                                                         *)
(* A list also is whole: a head leads to everything that was freed to it.  *)
(* That needs, besides, that every element of a list but the head is       *)
(* linked to, and that there is no cycle.  And what was allocated and not  *)
(* freed is in use, once the frees under way are counted too.              *)
(***************************************************************************)

InList(e) == place[e] \in {"local", "shared", "taken"}

\* An element is held by one caller if it is in use and by none otherwise.
HoldersMatch == \A e \in Elems : holders[e] = IF place[e] = "inUse" THEN 1 ELSE 0

\* A head belongs to its list, and so does the list in the owner's hand.
HeadsInList ==
  \A p \in Procs :
    /\ freeList[p] # Null => place[freeList[p]] = "local" /\ Owner[freeList[p]] = p
    /\ sharedFreeList[p] # Null =>
         place[sharedFreeList[p]] = "shared" /\ Owner[sharedFreeList[p]] = p
    /\ pc[p] = "others" =>
         topElem[p] \in Elems /\ place[topElem[p]] = "taken" /\ Owner[topElem[p]] = p

\* Links stay within a list.
LinksInList ==
  \A e \in Elems : InList(e) /\ nextFree[e] # Null =>
    place[nextFree[e]] = place[e] /\ Owner[nextFree[e]] = Owner[e]

\* No two elements link to the same one.
LinksApart ==
  \A e, f \in Elems :
    InList(e) /\ InList(f) /\ nextFree[e] # Null /\ nextFree[e] = nextFree[f] => e = f

\* Nothing links to a head.
HeadsUnlinked ==
  \A p \in Procs, e \in Elems : InList(e) /\ nextFree[e] # Null =>
    /\ nextFree[e] # freeList[p]
    /\ nextFree[e] # sharedFreeList[p]
    /\ pc[p] = "others" => nextFree[e] # topElem[p]

\* A processor that gives an element back has it for itself until it is
\* published, linked to the head it will compare with.
Giving ==
  \A p \in Procs :
    /\ pc[p] \in {"link", "push"} => elem[p] \in Elems /\ place[elem[p]] = "pushing"
    /\ pc[p] = "push" => nextFree[elem[p]] = oldVal[p]
    /\ pc[p] = "count" => elem[p] \in Elems
    /\ \A q \in Procs : pc[p] \in {"link", "push"} /\ pc[q] \in {"link", "push"}
                          /\ elem[p] = elem[q] => p = q

\* The list an owner is about to take is not empty: only it could empty it.
Taking ==
  \A p \in Procs : pc[p] = "swap" => topElem[p] # Null /\ sharedFreeList[p] # Null

IInv ==
  /\ TypeOK
  /\ HoldersMatch
  /\ HeadsInList
  /\ LinksInList
  /\ LinksApart
  /\ HeadsUnlinked
  /\ Giving
  /\ Taking

-----------------------------------------------------------------------------

\* The initial state.
LEMMA InitInv == Init => IInv
<1> SUFFICES ASSUME Init PROVE IInv
  OBVIOUS
<1> USE DEF Init, Links, Labels, Places
<1>1. TypeOK
  BY OwnerAssumption DEF TypeOK
<1>2. HoldersMatch /\ LinksInList /\ LinksApart /\ HeadsUnlinked
  BY DEF HoldersMatch, LinksInList, LinksApart, HeadsUnlinked, InList
<1>3. HeadsInList /\ Giving /\ Taking
  BY DEF HeadsInList, Giving, Taking
<1>4. QED
  BY <1>1, <1>2, <1>3 DEF IInv

LEMMA AllocateLocalInv ==
  ASSUME NEW p \in Procs, IInv, AllocateLocal(p)
  PROVE  IInv'
<1> USE OwnerAssumption, NullAssumption DEF AllocateLocal, MayAllocate, HandOut
<1>1. TypeOK'
  BY SMTT(30) DEF IInv, TypeOK, Links, Labels, Places
<1>2. HoldersMatch'
  BY SMTT(30) DEF IInv, TypeOK, HoldersMatch, HeadsInList
<1>3. HeadsInList'
  BY SMTT(30) DEF IInv, TypeOK, HeadsInList, LinksInList, HeadsUnlinked, InList, Links
<1>4. LinksInList'
  BY SMTT(30) DEF IInv, TypeOK, LinksInList, HeadsUnlinked, InList
<1>5. LinksApart'
  BY SMTT(30) DEF IInv, TypeOK, LinksApart, InList
<1>6. HeadsUnlinked'
  BY SMTT(30) DEF IInv, TypeOK, HeadsInList, LinksApart, HeadsUnlinked, InList, Links
<1>7. Giving'
  BY SMTT(30) DEF IInv, TypeOK, HeadsInList, Giving
<1>8. Taking'
  BY SMTT(30) DEF IInv, TypeOK, Taking
<1>9. QED
  BY <1>1, <1>2, <1>3, <1>4, <1>5, <1>6, <1>7, <1>8 DEF IInv

LEMMA FindSharedInv ==
  ASSUME NEW p \in Procs, IInv, FindShared(p)
  PROVE  IInv'
<1> USE OwnerAssumption, NullAssumption DEF FindShared, MayAllocate, numbers
<1>1. TypeOK'
  BY SMTT(30) DEF IInv, TypeOK, Labels, Places
<1>2. HoldersMatch'
  BY SMTT(30) DEF IInv, TypeOK, HoldersMatch
<1>3. HeadsInList'
  BY SMTT(30) DEF IInv, TypeOK, HeadsInList
<1>4. LinksInList'
  BY SMTT(30) DEF IInv, TypeOK, LinksInList, InList
<1>5. LinksApart'
  BY SMTT(30) DEF IInv, TypeOK, LinksApart, InList
<1>6. HeadsUnlinked'
  BY SMTT(30) DEF IInv, TypeOK, HeadsUnlinked, InList
<1>7. Giving'
  BY SMTT(30) DEF IInv, TypeOK, Giving
<1>8. Taking'
  BY SMTT(30) DEF IInv, TypeOK, Taking
<1>9. QED
  BY <1>1, <1>2, <1>3, <1>4, <1>5, <1>6, <1>7, <1>8 DEF IInv

LEMMA TakeSharedInv ==
  ASSUME NEW p \in Procs, IInv, TakeShared(p)
  PROVE  IInv'
<1> USE OwnerAssumption, NullAssumption DEF TakeShared, numbers
<1>1. TypeOK'
  <2>1. sharedFreeList' \in [Procs -> Links] /\ topElem' \in [Procs -> Links]
    BY DEF IInv, TypeOK, Links
  <2>2. place' \in [Elems -> Places] /\ pc' \in [Procs -> Labels]
    BY DEF IInv, TypeOK, Labels, Places
  <2>3. QED
    BY <2>1, <2>2 DEF IInv, TypeOK
<1>2. HoldersMatch'
  BY SMTT(30) DEF IInv, TypeOK, HoldersMatch
<1>3. HeadsInList'
  BY SMTT(30) DEF IInv, TypeOK, HeadsInList, Taking, Links
<1>4. LinksInList'
  BY SMTT(30) DEF IInv, TypeOK, LinksInList, InList, Links
<1>5. LinksApart'
  BY SMTT(30) DEF IInv, TypeOK, LinksApart, InList
<1>6. HeadsUnlinked'
  BY SMTT(30) DEF IInv, TypeOK, HeadsUnlinked, InList
<1>7. Giving'
  BY SMTT(30) DEF IInv, TypeOK, Giving
<1>8. Taking'
  BY SMTT(30) DEF IInv, TypeOK, Taking
<1>9. QED
  BY <1>1, <1>2, <1>3, <1>4, <1>5, <1>6, <1>7, <1>8 DEF IInv

LEMMA KeepOthersInv ==
  ASSUME NEW p \in Procs, IInv, KeepOthers(p)
  PROVE  IInv'
<1> USE OwnerAssumption, NullAssumption DEF KeepOthers, HandOut
<1>1. TypeOK'
  BY SMTT(30) DEF IInv, TypeOK, HeadsInList, Links, Labels, Places
<1>2. HoldersMatch'
  BY SMTT(30) DEF IInv, TypeOK, HoldersMatch, HeadsInList
<1>3. HeadsInList'
  BY SMTT(30) DEF IInv, TypeOK, HeadsInList, LinksInList, HeadsUnlinked, InList, Links
<1>4. LinksInList'
  BY SMTT(30) DEF IInv, TypeOK, LinksInList, HeadsUnlinked, InList, Links
<1>5. LinksApart'
  BY SMTT(30) DEF IInv, TypeOK, LinksApart, InList
<1>6. HeadsUnlinked'
  BY SMTT(30) DEF IInv, TypeOK, HeadsInList, LinksApart, HeadsUnlinked, InList
<1>7. Giving'
  BY SMTT(30) DEF IInv, TypeOK, HeadsInList, Giving
<1>8. Taking'
  BY SMTT(30) DEF IInv, TypeOK, Taking
<1>9. QED
  BY <1>1, <1>2, <1>3, <1>4, <1>5, <1>6, <1>7, <1>8 DEF IInv

LEMMA AllocateFreshInv ==
  ASSUME NEW p \in Procs, IInv, AllocateFresh(p)
  PROVE  IInv'
<1> USE OwnerAssumption, NullAssumption DEF AllocateFresh, MayAllocate, HandOut
<1>1. TypeOK'
  BY SMTT(30) DEF IInv, TypeOK, Labels, Places
<1>2. HoldersMatch'
  BY SMTT(30) DEF IInv, TypeOK, HoldersMatch
<1>3. HeadsInList'
  BY SMTT(30) DEF IInv, TypeOK, HeadsInList
<1>4. LinksInList'
  BY SMTT(30) DEF IInv, TypeOK, LinksInList, InList
<1>5. LinksApart'
  BY SMTT(30) DEF IInv, TypeOK, LinksApart, InList
<1>6. HeadsUnlinked'
  BY SMTT(30) DEF IInv, TypeOK, HeadsUnlinked, InList
<1>7. Giving'
  BY SMTT(30) DEF IInv, TypeOK, Giving
<1>8. Taking'
  BY SMTT(30) DEF IInv, TypeOK, Taking
<1>9. QED
  BY <1>1, <1>2, <1>3, <1>4, <1>5, <1>6, <1>7, <1>8 DEF IInv

LEMMA FreeLocalInv ==
  ASSUME NEW p \in Procs, NEW e \in Elems, IInv, FreeLocal(p, e)
  PROVE  IInv'
<1> USE OwnerAssumption, NullAssumption DEF FreeLocal, GiveBack
<1>1. TypeOK'
  BY SMTT(30) DEF IInv, TypeOK, HoldersMatch, Links, Labels, Places
<1>2. HoldersMatch'
  BY SMTT(30) DEF IInv, TypeOK, HoldersMatch
<1>3. HeadsInList'
  BY SMTT(30) DEF IInv, TypeOK, HeadsInList
<1>4. LinksInList'
  BY SMTT(30) DEF IInv, TypeOK, HeadsInList, LinksInList, InList
<1>5. LinksApart'
  BY SMTT(30) DEF IInv, TypeOK, LinksApart, HeadsUnlinked, InList
<1>6. HeadsUnlinked'
  BY SMTT(30) DEF IInv, TypeOK, HeadsInList, LinksInList, HeadsUnlinked, InList
<1>7. Giving'
  BY SMTT(30) DEF IInv, TypeOK, Giving
<1>8. Taking'
  BY SMTT(30) DEF IInv, TypeOK, Taking
<1>9. QED
  BY <1>1, <1>2, <1>3, <1>4, <1>5, <1>6, <1>7, <1>8 DEF IInv

LEMMA FreeRemoteInv ==
  ASSUME NEW p \in Procs, NEW e \in Elems, IInv, FreeRemote(p, e)
  PROVE  IInv'
<1> USE OwnerAssumption, NullAssumption DEF FreeRemote, GiveBack, numbers
<1>1. TypeOK'
  BY SMTT(30) DEF IInv, TypeOK, HoldersMatch, Links, Labels, Places
<1>2. HoldersMatch'
  BY SMTT(30) DEF IInv, TypeOK, HoldersMatch
<1>3. HeadsInList'
  BY SMTT(30) DEF IInv, TypeOK, HeadsInList
<1>4. LinksInList'
  BY SMTT(30) DEF IInv, TypeOK, LinksInList, InList
<1>5. LinksApart'
  BY SMTT(30) DEF IInv, TypeOK, LinksApart, InList
<1>6. HeadsUnlinked'
  BY SMTT(30) DEF IInv, TypeOK, HeadsUnlinked, InList
<1>7. Giving'
  BY SMTT(30) DEF IInv, TypeOK, Giving
<1>8. Taking'
  BY SMTT(30) DEF IInv, TypeOK, Taking
<1>9. QED
  BY <1>1, <1>2, <1>3, <1>4, <1>5, <1>6, <1>7, <1>8 DEF IInv

LEMMA LinkInv ==
  ASSUME NEW p \in Procs, IInv, Link(p)
  PROVE  IInv'
<1> USE OwnerAssumption, NullAssumption DEF Link, numbers
<1>1. TypeOK'
  <2>1. elem[p] \in Elems /\ sharedFreeList[Owner[elem[p]]] \in Links
    BY DEF IInv, TypeOK, Giving
  <2>2. oldVal' \in [Procs -> Links] /\ nextFree' \in [Elems -> Links]
    BY <2>1 DEF IInv, TypeOK
  <2>3. pc' \in [Procs -> Labels]
    BY DEF IInv, TypeOK, Labels
  <2>4. QED
    BY <2>2, <2>3 DEF IInv, TypeOK
<1>2. HoldersMatch'
  BY SMTT(30) DEF IInv, TypeOK, HoldersMatch
<1>3. HeadsInList'
  BY SMTT(30) DEF IInv, TypeOK, HeadsInList
<1>4. LinksInList'
  BY SMTT(30) DEF IInv, TypeOK, LinksInList, Giving, InList
<1>5. LinksApart'
  BY SMTT(30) DEF IInv, TypeOK, LinksApart, Giving, InList
<1>6. HeadsUnlinked'
  BY SMTT(30) DEF IInv, TypeOK, HeadsUnlinked, Giving, InList
<1>7. Giving'
  BY SMTT(30) DEF IInv, TypeOK, Giving
<1>8. Taking'
  BY SMTT(30) DEF IInv, TypeOK, Taking
<1>9. QED
  BY <1>1, <1>2, <1>3, <1>4, <1>5, <1>6, <1>7, <1>8 DEF IInv

LEMMA PushInv ==
  ASSUME NEW p \in Procs, IInv, Push(p)
  PROVE  IInv'
<1> USE OwnerAssumption, NullAssumption DEF Push, numbers
<1>1. TypeOK'
  <2>1. elem[p] \in Elems
    BY DEF IInv, TypeOK, Giving
  <2>2. sharedFreeList' \in [Procs -> Links]
    BY <2>1 DEF IInv, TypeOK, Links
  <2>3. place' \in [Elems -> Places] /\ pc' \in [Procs -> Labels]
    BY <2>1 DEF IInv, TypeOK, Labels, Places
  <2>4. QED
    BY <2>2, <2>3 DEF IInv, TypeOK
<1>2. HoldersMatch'
  BY SMTT(30) DEF IInv, TypeOK, HoldersMatch, Giving
<1>3. HeadsInList'
  BY SMTT(30) DEF IInv, TypeOK, HeadsInList, Giving, Links
<1>4. LinksInList'
  BY SMTT(30) DEF IInv, TypeOK, HeadsInList, LinksInList, Giving, InList, Links
<1>5. LinksApart'
  BY SMTT(30) DEF IInv, TypeOK, LinksApart, HeadsUnlinked, Giving, InList
<1>6. HeadsUnlinked'
  BY SMTT(30) DEF IInv, TypeOK, HeadsInList, LinksInList, HeadsUnlinked, Giving, InList
<1>7. Giving'
  BY SMTT(30) DEF IInv, TypeOK, Giving
<1>8. Taking'
  BY SMTT(30) DEF IInv, TypeOK, Giving, Taking
<1>9. QED
  BY <1>1, <1>2, <1>3, <1>4, <1>5, <1>6, <1>7, <1>8 DEF IInv

LEMMA CountInv ==
  ASSUME NEW p \in Procs, IInv, Count(p)
  PROVE  IInv'
<1> USE OwnerAssumption, NullAssumption DEF Count
<1>1. TypeOK'
  BY SMTT(30) DEF IInv, TypeOK, Giving, Links, Labels, Places
<1>2. HoldersMatch'
  BY SMTT(30) DEF IInv, TypeOK, HoldersMatch
<1>3. HeadsInList'
  BY SMTT(30) DEF IInv, TypeOK, HeadsInList
<1>4. LinksInList'
  BY SMTT(30) DEF IInv, TypeOK, LinksInList, InList
<1>5. LinksApart'
  BY SMTT(30) DEF IInv, TypeOK, LinksApart, InList
<1>6. HeadsUnlinked'
  BY SMTT(30) DEF IInv, TypeOK, HeadsUnlinked, InList
<1>7. Giving'
  BY SMTT(30) DEF IInv, TypeOK, Giving
<1>8. Taking'
  BY SMTT(30) DEF IInv, TypeOK, Taking
<1>9. QED
  BY <1>1, <1>2, <1>3, <1>4, <1>5, <1>6, <1>7, <1>8 DEF IInv

\* Nothing changes: the invariant speaks of the state only.
LEMMA UnchangedInv ==
  ASSUME IInv, UNCHANGED vars
  PROVE  IInv'
<1> USE DEF vars, numbers
<1>1. TypeOK' /\ HoldersMatch'
  BY DEF IInv, TypeOK, HoldersMatch
<1>2. HeadsInList' /\ LinksInList' /\ LinksApart'
  BY DEF IInv, HeadsInList, LinksInList, LinksApart, InList
<1>3. HeadsUnlinked' /\ Giving' /\ Taking'
  BY DEF IInv, HeadsUnlinked, Giving, Taking, InList
<1>4. QED
  BY <1>1, <1>2, <1>3 DEF IInv

\* The lists keep their shape in every behaviour of the allocators, whichever
\* calls of allocateFixedSize and freeFixedSize overlap.
THEOREM InvHolds == Spec => []IInv
<1>1. IInv /\ [Next]_vars => IInv'
  <2> SUFFICES ASSUME IInv, [Next]_vars PROVE IInv'
    OBVIOUS
  <2>1. ASSUME NEW p \in Procs, Step(p) PROVE IInv'
    <3>1. CASE AllocateLocal(p)
      BY <3>1, AllocateLocalInv
    <3>2. CASE FindShared(p)
      BY <3>2, FindSharedInv
    <3>3. CASE TakeShared(p)
      BY <3>3, TakeSharedInv
    <3>4. CASE KeepOthers(p)
      BY <3>4, KeepOthersInv
    <3>5. CASE AllocateFresh(p)
      BY <3>5, AllocateFreshInv
    <3>6. CASE \E e \in Elems : FreeLocal(p, e)
      BY <3>6, FreeLocalInv
    <3>7. CASE \E e \in Elems : FreeRemote(p, e)
      BY <3>7, FreeRemoteInv
    <3>8. CASE Link(p)
      BY <3>8, LinkInv
    <3>9. CASE Push(p)
      BY <3>9, PushInv
    <3>10. CASE Count(p)
      BY <3>10, CountInv
    <3>11. QED
      BY <2>1, <3>1, <3>2, <3>3, <3>4, <3>5, <3>6, <3>7, <3>8, <3>9, <3>10 DEF Step
  <2>2. CASE UNCHANGED vars
    BY <2>2, UnchangedInv
  <2>3. QED
    BY <2>1, <2>2 DEF Next, Rest
<1>2. QED
  BY InitInv, <1>1, PTL DEF Spec

\* The words of the allocators hold elements or Null, the statistics numbers.
THEOREM TypeCorrect == Spec => []TypeOK
<1>1. IInv => TypeOK
  BY DEF IInv
<1>2. QED
  BY InvHolds, <1>1, PTL

-----------------------------------------------------------------------------

\* A call that returns an element returns one that nobody held.
LEMMA AllocateImplements ==
  ASSUME NEW p \in Procs, IInv, AllocateLocal(p) \/ KeepOthers(p) \/ AllocateFresh(p)
  PROVE  P!Next
<1>1. ASSUME NEW e \in Elems, place[e] # "inUse", HandOut(e)
      PROVE  P!Alloc(e)
  <2>1. holders[e] = 0
    BY <1>1 DEF IInv, HoldersMatch
  <2>2. QED
    BY <1>1, <2>1 DEF P!Alloc, HandOut
<1>2. CASE AllocateLocal(p)
  <2>1. freeList[p] \in Elems /\ place[freeList[p]] = "local"
    BY <1>2 DEF AllocateLocal, IInv, TypeOK, HeadsInList, Links
  <2>2. QED
    BY <1>1, <1>2, <2>1 DEF AllocateLocal, P!Next
<1>3. CASE KeepOthers(p)
  <2>1. topElem[p] \in Elems /\ place[topElem[p]] = "taken"
    BY <1>3 DEF KeepOthers, IInv, HeadsInList
  <2>2. QED
    BY <1>1, <1>3, <2>1 DEF KeepOthers, P!Next
<1>4. CASE AllocateFresh(p)
  <2>1. PICK e \in Elems : place[e] = "buffer" /\ HandOut(e)
    BY <1>4 DEF AllocateFresh
  <2>2. QED
    BY <1>1, <2>1 DEF P!Next
<1>5. QED
  BY <1>2, <1>3, <1>4

\* A call that frees an element takes it from its one holder.
LEMMA FreeImplements ==
  ASSUME NEW p \in Procs, NEW e \in Elems, IInv, FreeLocal(p, e) \/ FreeRemote(p, e)
  PROVE  P!Next
<1>1. place[e] = "inUse" /\ GiveBack(e)
  BY DEF FreeLocal, FreeRemote
<1>2. holders[e] = 1
  BY <1>1 DEF IInv, HoldersMatch
<1>3. P!Free(e)
  BY <1>1, <1>2 DEF P!Free, GiveBack
<1>4. QED
  BY <1>3 DEF P!Next

\* The allocators keep the promise of Pool, for every number of processors and
\* elements: whatever heads are stale when a compare-and-swap succeeds, no
\* element is handed out while a caller holds it.
THEOREM ImplementsPoolHolds == Spec => ImplementsPool
<1>1. Init => P!Init
  BY DEF Init, P!Init
<1>2. IInv /\ [Next]_vars => [P!Next]_holders
  <2> SUFFICES ASSUME IInv, [Next]_vars PROVE P!Next \/ UNCHANGED holders
    OBVIOUS
  <2>1. ASSUME NEW p \in Procs, Step(p) PROVE P!Next \/ UNCHANGED holders
    <3>1. CASE AllocateLocal(p) \/ KeepOthers(p) \/ AllocateFresh(p)
      BY <3>1, AllocateImplements
    <3>2. CASE \E e \in Elems : FreeLocal(p, e) \/ FreeRemote(p, e)
      BY <3>2, FreeImplements
    <3>3. CASE FindShared(p) \/ TakeShared(p) \/ Link(p) \/ Push(p) \/ Count(p)
      BY <3>3 DEF FindShared, TakeShared, Link, Push, Count
    <3>4. QED
      BY <2>1, <3>1, <3>2, <3>3 DEF Step
  <2>2. CASE UNCHANGED vars
    BY <2>2 DEF vars
  <2>3. QED
    BY <2>1, <2>2 DEF Next, Rest
<1>3. QED
  BY <1>1, <1>2, InvHolds, PTL DEF Spec, ImplementsPool, P!Spec

-----------------------------------------------------------------------------
(* What is reached, and what is counted.                                   *)

\* An element that is linked to from a list.
Linked(e) == \E d \in Elems : InList(d) /\ nextFree[d] = e

\* Every element of a list is its head or linked to from a list.
Reached ==
  \A e \in Elems :
    /\ place[e] = "local" => e = freeList[Owner[e]] \/ Linked(e)
    /\ place[e] = "shared" => e = sharedFreeList[Owner[e]] \/ Linked(e)
    /\ place[e] = "taken" =>
         pc[Owner[e]] = "others" /\ (e = topElem[Owner[e]] \/ Linked(e))

\* The links do not form a cycle: they lead from lower to higher numbers.
Ranks(rank) ==
  \A e \in Elems : InList(e) /\ nextFree[e] # Null => rank[e] < rank[nextFree[e]]
Ranked == \E rank \in [Elems -> Nat] : Ranks(rank)

\* A processor looks at its shared list only when its own is empty.
Emptied == \A p \in Procs : pc[p] \in {"swap", "others"} => freeList[p] = Null

\* The processors whose remote free of an element of p is not counted yet.
Uncounted(p) ==
  {q \in Procs : pc[q] \in {"link", "push", "count"} /\ Owner[elem[q]] = p}

\* Every element that was allocated is in use, freed, or about to be counted.
Counted ==
  \A p \in Procs :
    numAllocated[p] = Freed(p) + Cardinality(At("inUse", p)) + Cardinality(Uncounted(p))

ListInv == Reached /\ Ranked /\ Emptied /\ Counted

Below == {p \in Nat \X Nat : p[1] < p[2]}

\* The order of the numbers is well-founded.
LEMMA BelowIsWellFounded == IsWellFoundedOn(Below, Nat)
<1>1. Below = OpToRel(<, Nat)
  BY DEF Below, OpToRel
<1> QED
  BY <1>1, NatLessThanWellFounded, Zenon

\* A nonempty set of numbers has a least one.
LEMMA LeastExists ==
  ASSUME NEW T \in SUBSET Nat, T # {}
  PROVE  \E x \in T : \A y \in T : x <= y
<1>1. PICK x \in T : \A y \in T : <<y, x>> \notin Below
  BY BelowIsWellFounded, WFMin
<1>2. ASSUME NEW y \in T, ~(x <= y) PROVE FALSE
  <2>1. y \in Nat /\ x \in Nat /\ y < x
    BY <1>2
  <2>2. <<y, x>> \in Below
    BY <2>1 DEF Below
  <2> QED
    BY <1>1, <2>2
<1> QED
  BY <1>2

\* A closed set that has the head of a list has the whole list: of what it
\* lacked, the element of the least rank would be linked to by an element
\* that it has.
LEMMA ClosedHasAll ==
  ASSUME IInv, ListInv, NEW T \in SUBSET Elems, NEW S \in SUBSET Elems,
         NEW head \in Links,
         \A e \in T : InList(e) /\ (e = head \/ \E d \in T : nextFree[d] = e),
         \A e \in {head} \cup {nextFree[d] : d \in S} : e \in S \cup {Null}
  PROVE  T \subseteq S
<1>1. PICK rank \in [Elems -> Nat] : Ranks(rank)
  BY DEF ListInv, Ranked
<1> DEFINE R == {rank[e] : e \in T \ S}
<1>2. ASSUME T \ S # {} PROVE FALSE
  <2>1. R \in SUBSET Nat /\ R # {}
    BY <1>2
  <2>2. PICK e \in T \ S : \A x \in T \ S : rank[e] <= rank[x]
    <3>1. PICK n \in R : \A m \in R : n <= m
      <4> HIDE DEF R
      <4> QED
        BY <2>1, LeastExists
    <3> QED
      BY <3>1
  <2>3. e # Null /\ e \in Elems
    BY NullAssumption
  <2>4. e # head
    BY <2>2, <2>3
  <2>5. PICK d \in T : nextFree[d] = e
    BY <2>2, <2>4
  <2>6. d \notin S
    BY <2>2, <2>3, <2>5
  <2>7. rank[d] < rank[e]
    BY <1>1, <2>3, <2>5 DEF Ranks
  <2>8. rank[e] <= rank[d]
    BY <2>2, <2>6
  <2>9. rank[d] \in Nat /\ rank[e] \in Nat
    BY <2>3
  <2> QED
    BY <2>7, <2>8, <2>9
<1> QED
  BY <1>2

\* What a head leads to is its list.
LEMMA ChainIsList ==
  ASSUME IInv, ListInv, NEW p \in Procs,
         NEW where \in {"local", "shared", "taken"}, NEW head \in Links,
         head # Null => head \in At(where, p),
         \A e \in At(where, p) : e = head \/ Linked(e)
  PROVE  Chain(head) = At(where, p)
<1> DEFINE T == At(where, p)
<1>1. T \in SUBSET Elems /\ \A e \in T : InList(e)
  BY DEF At, InList
<1>2. ASSUME NEW d \in Elems, InList(d), nextFree[d] \in T PROVE d \in T
  <2>1. nextFree[d] # Null
    BY <1>1, <1>2, NullAssumption
  <2> QED
    BY <1>2, <2>1 DEF IInv, LinksInList, At
<1>3. \A e \in T : e = head \/ \E d \in T : nextFree[d] = e
  BY <1>2 DEF Linked
<1>4. \A e \in {head} \cup {nextFree[d] : d \in T} : e \in T \cup {Null}
  <2>1. ASSUME NEW d \in T, nextFree[d] # Null PROVE nextFree[d] \in T
    <3>1. d \in Elems /\ InList(d) /\ place[d] = where /\ Owner[d] = p
      BY <1>1 DEF At
    <3>2. place[nextFree[d]] = where /\ Owner[nextFree[d]] = p /\ nextFree[d] \in Elems
      BY <2>1, <3>1 DEF IInv, LinksInList, TypeOK, Links
    <3> QED
      BY <3>2 DEF At
  <2> HIDE DEF T
  <2>2. head \in T \cup {Null}
    BY DEF T
  <2> QED
    BY <2>1, <2>2
<1>5. ASSUME NEW S \in SUBSET Elems,
             \A e \in {head} \cup {nextFree[d] : d \in S} : e \in S \cup {Null}
      PROVE  T \subseteq S
  <2> HIDE DEF T
  <2> QED
    BY <1>1, <1>3, <1>5, ClosedHasAll
<1> HIDE DEF T
<1>6. Chain(head) = T
  BY <1>1, <1>4, <1>5 DEF Chain
<1> QED
  BY <1>6 DEF T

\* The free lists are whole.
LEMMA WholeFromInv ==
  ASSUME IInv, ListInv
  PROVE  ListsAreWhole
<1> SUFFICES ASSUME NEW p \in Procs
             PROVE  /\ Chain(freeList[p]) = At("local", p)
                    /\ Chain(sharedFreeList[p]) = At("shared", p)
                    /\ pc[p] = "others" => Chain(topElem[p]) = At("taken", p)
  BY DEF ListsAreWhole
<1>1. freeList[p] \in Links /\ sharedFreeList[p] \in Links /\ topElem[p] \in Links
  BY DEF IInv, TypeOK
<1>2. Chain(freeList[p]) = At("local", p)
  <2>1. freeList[p] # Null => freeList[p] \in At("local", p)
    BY <1>1 DEF IInv, HeadsInList, At, Links
  <2>2. \A e \in At("local", p) : e = freeList[p] \/ Linked(e)
    BY DEF ListInv, Reached, At
  <2> QED
    BY <1>1, <2>1, <2>2, ChainIsList
<1>3. Chain(sharedFreeList[p]) = At("shared", p)
  <2>1. sharedFreeList[p] # Null => sharedFreeList[p] \in At("shared", p)
    BY <1>1 DEF IInv, HeadsInList, At, Links
  <2>2. \A e \in At("shared", p) : e = sharedFreeList[p] \/ Linked(e)
    BY DEF ListInv, Reached, At
  <2> QED
    BY <1>1, <2>1, <2>2, ChainIsList
<1>4. ASSUME pc[p] = "others" PROVE Chain(topElem[p]) = At("taken", p)
  <2>1. topElem[p] \in At("taken", p)
    BY <1>4 DEF IInv, HeadsInList, At
  <2>2. \A e \in At("taken", p) : e = topElem[p] \/ Linked(e)
    BY DEF ListInv, Reached, At
  <2> QED
    BY <1>1, <2>1, <2>2, ChainIsList
<1> QED
  BY <1>2, <1>3, <1>4

\* A list without a head has no elements.
LEMMA NoHeadNoList ==
  ASSUME IInv, ListInv, NEW p \in Procs, freeList[p] = Null
  PROVE  At("local", p) = {}
<1>1. Chain(freeList[p]) = At("local", p)
  BY WholeFromInv DEF ListsAreWhole
<1>2. Chain(Null) = {}
  <2>1. \A e \in {Null} \cup {nextFree[d] : d \in {}} : e \in {} \cup {Null}
    OBVIOUS
  <2>2. \A e \in Chain(Null) : e \in {}
    BY <2>1, Zenon DEF Chain
  <2> QED
    BY <2>2
<1> QED
  BY <1>1, <1>2

\* What is counted are finite sets.
LEMMA CountedSets ==
  ASSUME NEW p \in Procs
  PROVE  /\ IsFiniteSet(At("inUse", p)) /\ Cardinality(At("inUse", p)) \in Nat
         /\ IsFiniteSet(Uncounted(p)) /\ Cardinality(Uncounted(p)) \in Nat
<1>1. At("inUse", p) \in SUBSET Elems /\ Uncounted(p) \in SUBSET Procs
  BY DEF At, Uncounted
<1>2. IsFiniteSet(At("inUse", p)) /\ IsFiniteSet(Uncounted(p))
  BY <1>1, FiniteAssumption, FS_Subset
<1> QED
  BY <1>2, FS_CardinalityType

\* Once nobody is in a call, what was allocated and not freed is in use.
LEMMA CountedFromInv ==
  ASSUME IInv, ListInv
  PROVE  InUseIsCounted
<1> SUFFICES ASSUME NEW p \in Procs
             PROVE  /\ Freed(p) <= numAllocated[p]
                    /\ (\A q \in Procs : pc[q] = "idle") =>
                         numAllocated[p] - Freed(p) = Cardinality(At("inUse", p))
  BY DEF InUseIsCounted
<1>1. /\ numAllocated[p] = Freed(p) + Cardinality(At("inUse", p)) + Cardinality(Uncounted(p))
      /\ numAllocated[p] \in Nat /\ Freed(p) \in Nat
  BY DEF IInv, TypeOK, ListInv, Counted, Freed
<1>2. (\A q \in Procs : pc[q] = "idle") => Uncounted(p) = {}
  BY DEF Uncounted
<1> QED
  BY <1>1, <1>2, CountedSets, FS_EmptySet

-----------------------------------------------------------------------------
(* Every step keeps what is reached and counted.                           *)

\* A step that links no element of a list anew forms no cycle.
LEMMA RankedKept ==
  ASSUME Ranked,
         \A e \in Elems : InList(e)' /\ nextFree'[e] # Null =>
           InList(e) /\ nextFree'[e] = nextFree[e]
  PROVE  Ranked'
<1>1. PICK rank \in [Elems -> Nat] : Ranks(rank)
  BY DEF Ranked
<1>2. Ranks(rank)'
  BY <1>1 DEF Ranks
<1> QED
  BY <1>2 DEF Ranked

\* Nor does one that puts an element before the head of a list.
LEMMA RankedPushed ==
  ASSUME IInv, Ranked, NEW x \in Elems,
         \A e \in Elems : InList(e)' /\ nextFree'[e] # Null =>
           /\ nextFree'[e] \in Elems \ {x}
           /\ e # x => InList(e) /\ nextFree'[e] = nextFree[e]
  PROVE  Ranked'
<1>1. PICK rank \in [Elems -> Nat] : Ranks(rank)
  BY DEF Ranked
<1>2. PICK new \in [Elems -> Nat] : new = [e \in Elems |-> IF e = x THEN 0 ELSE rank[e] + 1]
  <2>1. [e \in Elems |-> IF e = x THEN 0 ELSE rank[e] + 1] \in [Elems -> Nat]
    OBVIOUS
  <2> QED
    BY <2>1
<1>3. ASSUME NEW e \in Elems, InList(e)', nextFree'[e] # Null
      PROVE  new[e] < new[nextFree'[e]]
  <2>1. nextFree'[e] \in Elems /\ nextFree'[e] # x
    BY <1>3
  <2>2. new[nextFree'[e]] = rank[nextFree'[e]] + 1 /\ rank[nextFree'[e]] \in Nat
    BY <1>2, <2>1
  <2>3. CASE e = x
    BY <1>2, <2>2, <2>3
  <2>4. CASE e # x
    <3>1. InList(e) /\ nextFree'[e] = nextFree[e]
      BY <1>3, <2>4
    <3>2. rank[e] < rank[nextFree'[e]]
      BY <1>1, <1>3, <3>1 DEF Ranks
    <3>3. new[e] = rank[e] + 1 /\ rank[e] \in Nat
      BY <1>2, <2>4
    <3> QED
      BY <2>2, <3>2, <3>3
  <2> QED
    BY <2>3, <2>4
<1>4. Ranks(new)'
  BY <1>3 DEF Ranks
<1> QED
  BY <1>4 DEF Ranked

\* A step that moves no element and counts nothing.
LEMMA CountedKept ==
  ASSUME Counted, UNCHANGED numbers,
         \A p \in Procs : UNCHANGED <<At("inUse", p), Uncounted(p)>>
  PROVE  Counted'
BY DEF Counted, Freed, numbers

\* An allocation is counted for the owner, who uses one element more.
LEMMA CountedAllocated ==
  ASSUME IInv, Counted, NEW p \in Procs, NEW e \in Elems,
         place[e] # "inUse", Owner[e] = p,
         numAllocated' = [numAllocated EXCEPT ![p] = @ + 1],
         UNCHANGED <<numLocalFreed, numSharedFreed>>,
         \A q \in Procs : UNCHANGED Uncounted(q),
         \A q \in Procs \ {p} : UNCHANGED At("inUse", q),
         At("inUse", p)' = At("inUse", p) \cup {e}
  PROVE  Counted'
<1>1. /\ Cardinality(At("inUse", p)') = Cardinality(At("inUse", p)) + 1
      /\ Cardinality(At("inUse", p)) \in Nat /\ Cardinality(Uncounted(p)) \in Nat
  <2>1. e \notin At("inUse", p)
    BY DEF At
  <2> QED
    BY <2>1, CountedSets, FS_AddElement
<1>2. /\ numAllocated'[p] = numAllocated[p] + 1 /\ numAllocated[p] \in Nat
      /\ \A q \in Procs \ {p} : numAllocated'[q] = numAllocated[q]
      /\ \A q \in Procs : Freed(q)' = Freed(q) /\ Freed(q) \in Nat
  BY DEF IInv, TypeOK, Freed
<1>3. numAllocated'[p] = Freed(p)' + Cardinality(At("inUse", p)') + Cardinality(Uncounted(p)')
  <2>1. numAllocated[p] = Freed(p) + Cardinality(At("inUse", p)) + Cardinality(Uncounted(p))
    BY DEF Counted
  <2> QED
    BY <1>1, <1>2, <2>1
<1>4. ASSUME NEW q \in Procs, q # p
      PROVE  numAllocated'[q] = Freed(q)' + Cardinality(At("inUse", q)')
                                  + Cardinality(Uncounted(q)')
  BY <1>2, <1>4 DEF Counted
<1> QED
  BY <1>3, <1>4 DEF Counted

\* The element the removed head links to becomes the head.
LEMMA AllocateLocalList ==
  ASSUME NEW p \in Procs, IInv, ListInv, AllocateLocal(p)
  PROVE  ListInv'
<1> DEFINE x == freeList[p]
<1>1. /\ x \in Elems /\ place[x] = "local" /\ Owner[x] = p /\ x # Null
      /\ freeList' = [freeList EXCEPT ![p] = nextFree[x]]
      /\ nextFree' = [nextFree EXCEPT ![x] = Null]
      /\ place' = [place EXCEPT ![x] = "inUse"]
      /\ UNCHANGED <<sharedFreeList, numLocalFreed, numSharedFreed, pc, topElem, elem>>
      /\ numAllocated' = [numAllocated EXCEPT ![p] = @ + 1] /\ pc[p] = "idle"
  BY NullAssumption DEF AllocateLocal, MayAllocate, IInv, TypeOK, HeadsInList, Links
<1>2. /\ \A e \in Elems : e # x => place'[e] = place[e] /\ nextFree'[e] = nextFree[e]
      /\ place'[x] = "inUse" /\ nextFree'[x] = Null
      /\ freeList'[p] = nextFree[x] /\ \A q \in Procs : q # p => freeList'[q] = freeList[q]
  BY <1>1 DEF IInv, TypeOK
<1> HIDE DEF x
<1>3. Reached'
  <2>1. ASSUME NEW e \in Elems, e # x, Linked(e) PROVE Linked(e)' \/ e = nextFree[x]
    BY <1>2, <2>1 DEF Linked, InList
  <2>2. ASSUME NEW e \in Elems, InList(e), e = nextFree[x]
        PROVE  place[e] = "local" /\ Owner[e] = p
    BY <1>1, <2>2, NullAssumption DEF IInv, LinksInList, InList
  <2>3. ASSUME NEW e \in Elems, place'[e] = "local"
        PROVE  e = freeList'[Owner[e]] \/ Linked(e)'
    <3>1. e # x /\ place[e] = "local" /\ Owner[e] \in Procs
      BY <1>2, <2>3, OwnerAssumption
    <3>2. CASE e = freeList[Owner[e]]
      BY <1>1, <1>2, <3>1, <3>2 DEF x
    <3>3. CASE Linked(e)
      BY <1>2, <2>1, <2>2, <3>1, <3>3 DEF InList
    <3> QED
      BY <3>1, <3>2, <3>3 DEF ListInv, Reached
  <2>4. ASSUME NEW e \in Elems, place'[e] = "shared"
        PROVE  e = sharedFreeList'[Owner[e]] \/ Linked(e)'
    BY <1>1, <1>2, <2>1, <2>2, <2>4 DEF ListInv, Reached, InList
  <2>5. ASSUME NEW e \in Elems, place'[e] = "taken"
        PROVE  pc'[Owner[e]] = "others" /\ (e = topElem'[Owner[e]] \/ Linked(e)')
    BY <1>1, <1>2, <2>1, <2>2, <2>5 DEF ListInv, Reached, InList
  <2> QED
    BY <2>3, <2>4, <2>5 DEF Reached
<1>4. Ranked'
  BY <1>2, RankedKept DEF ListInv, InList
<1>5. Emptied'
  BY <1>1, <1>2 DEF ListInv, Emptied
<1>6. Counted'
  <2>1. \A q \in Procs : UNCHANGED Uncounted(q)
    BY <1>1 DEF Uncounted
  <2>2. At("inUse", p)' = At("inUse", p) \cup {x}
    BY <1>1, <1>2 DEF At
  <2>3. \A q \in Procs \ {p} : UNCHANGED At("inUse", q)
    BY <1>1, <1>2 DEF At
  <2> QED
    BY <1>1, <2>1, <2>2, <2>3, CountedAllocated DEF ListInv
<1> QED
  BY <1>3, <1>4, <1>5, <1>6 DEF ListInv

\* A look at the shared list moves nothing.
LEMMA FindSharedList ==
  ASSUME NEW p \in Procs, IInv, ListInv, FindShared(p)
  PROVE  ListInv'
<1>1. /\ pc' = [pc EXCEPT ![p] = "swap"] /\ pc[p] = "idle" /\ freeList[p] = Null
      /\ topElem' = [topElem EXCEPT ![p] = sharedFreeList[p]]
      /\ UNCHANGED <<freeList, sharedFreeList, nextFree, numbers, elem, place>>
  BY DEF FindShared, MayAllocate
<1>2. /\ pc'[p] = "swap" /\ \A q \in Procs : q # p => pc'[q] = pc[q]
      /\ \A q \in Procs : q # p => topElem'[q] = topElem[q]
  BY <1>1 DEF IInv, TypeOK
<1>3. Reached'
  BY <1>1, <1>2, OwnerAssumption DEF ListInv, Reached, Linked, InList
<1>4. Ranked'
  BY <1>1, RankedKept DEF ListInv, InList
<1>5. Emptied'
  BY <1>1, <1>2 DEF ListInv, Emptied
<1>6. Counted'
  BY <1>1, <1>2, CountedKept DEF ListInv, At, Uncounted
<1> QED
  BY <1>3, <1>4, <1>5, <1>6 DEF ListInv

\* The head that is taken leads to the whole list, whatever was read before.
LEMMA TakeSharedList ==
  ASSUME NEW p \in Procs, IInv, ListInv, TakeShared(p)
  PROVE  ListInv'
<1>1. /\ pc[p] = "swap"
      /\ UNCHANGED <<freeList, nextFree, numbers, elem>>
  BY DEF TakeShared
<1>2. CASE sharedFreeList[p] # topElem[p]
  <2>1. UNCHANGED <<sharedFreeList, place, pc>>
        /\ topElem' = [topElem EXCEPT ![p] = sharedFreeList[p]]
    BY <1>2 DEF TakeShared
  <2>2. \A q \in Procs : q # p => topElem'[q] = topElem[q]
    BY <2>1 DEF IInv, TypeOK
  <2>3. Reached'
    BY <1>1, <2>1, <2>2, OwnerAssumption DEF ListInv, Reached, Linked, InList
  <2>4. Ranked'
    BY <1>1, <2>1, RankedKept DEF ListInv, InList
  <2>5. Emptied' /\ Counted'
    BY <1>1, <2>1, CountedKept DEF ListInv, Emptied, At, Uncounted
  <2> QED
    BY <2>3, <2>4, <2>5 DEF ListInv
<1>3. CASE sharedFreeList[p] = topElem[p]
  <2>1. /\ sharedFreeList' = [sharedFreeList EXCEPT ![p] = Null]
        /\ place' = [e \in Elems |-> IF place[e] = "shared" /\ Owner[e] = p
                                       THEN "taken" ELSE place[e]]
        /\ pc' = [pc EXCEPT ![p] = "others"] /\ UNCHANGED topElem
    BY <1>3 DEF TakeShared
  <2>2. /\ pc'[p] = "others" /\ \A q \in Procs : q # p => pc'[q] = pc[q]
        /\ \A q \in Procs : q # p => sharedFreeList'[q] = sharedFreeList[q]
        /\ \A e \in Elems : InList(e)' <=> InList(e)
    BY <2>1 DEF IInv, TypeOK, InList
  <2>3. \A e \in Elems : Linked(e)' <=> Linked(e)
    BY <1>1, <2>2 DEF Linked
  <2>4. Reached'
    <3>1. ASSUME NEW e \in Elems, place'[e] = "local"
          PROVE  e = freeList'[Owner[e]] \/ Linked(e)'
      BY <1>1, <2>1, <2>3, <3>1 DEF ListInv, Reached
    <3>2. ASSUME NEW e \in Elems, place'[e] = "shared"
          PROVE  e = sharedFreeList'[Owner[e]] \/ Linked(e)'
      BY <2>1, <2>2, <2>3, <3>2, OwnerAssumption DEF ListInv, Reached
    <3>3. ASSUME NEW e \in Elems, place'[e] = "taken"
          PROVE  pc'[Owner[e]] = "others" /\ (e = topElem'[Owner[e]] \/ Linked(e)')
      BY <1>1, <1>3, <2>1, <2>2, <2>3, <3>3, OwnerAssumption DEF ListInv, Reached
    <3> QED
      BY <3>1, <3>2, <3>3 DEF Reached
  <2>5. Ranked'
    BY <1>1, <2>2, RankedKept DEF ListInv
  <2>6. Emptied'
    BY <1>1, <2>2 DEF ListInv, Emptied
  <2>7. Counted'
    <3>1. ASSUME NEW q \in Procs PROVE UNCHANGED <<At("inUse", q), Uncounted(q)>>
      BY <1>1, <2>1, <2>2 DEF At, Uncounted
    <3> QED
      BY <1>1, <3>1, CountedKept DEF ListInv
  <2> QED
    BY <2>4, <2>5, <2>6, <2>7 DEF ListInv
<1> QED
  BY <1>2, <1>3

\* The private list was empty, so that the others of the taken one are all of it.
LEMMA KeepOthersList ==
  ASSUME NEW p \in Procs, IInv, ListInv, KeepOthers(p)
  PROVE  ListInv'
<1> DEFINE x == topElem[p]
<1>1. /\ x \in Elems /\ place[x] = "taken" /\ Owner[x] = p /\ x # Null /\ pc[p] = "others"
      /\ freeList' = [freeList EXCEPT ![p] = nextFree[x]]
      /\ nextFree' = [nextFree EXCEPT ![x] = Null]
      /\ place' = [e \in Elems |-> IF e = x THEN "inUse"
                                   ELSE IF place[e] = "taken" /\ Owner[e] = p
                                     THEN "local" ELSE place[e]]
      /\ pc' = [pc EXCEPT ![p] = "idle"] /\ topElem' = [topElem EXCEPT ![p] = Null]
      /\ UNCHANGED <<sharedFreeList, numLocalFreed, numSharedFreed, elem>>
      /\ numAllocated' = [numAllocated EXCEPT ![p] = @ + 1]
  BY NullAssumption DEF KeepOthers, IInv, HeadsInList
<1>2. /\ \A e \in Elems : e # x => nextFree'[e] = nextFree[e] /\ (InList(e)' <=> InList(e))
      /\ place'[x] = "inUse" /\ nextFree'[x] = Null
      /\ freeList'[p] = nextFree[x] /\ \A q \in Procs : q # p => freeList'[q] = freeList[q]
      /\ pc'[p] = "idle" /\ \A q \in Procs : q # p => pc'[q] = pc[q]
      /\ \A q \in Procs : q # p => topElem'[q] = topElem[q]
  BY <1>1 DEF IInv, TypeOK, InList
<1>0. At("local", p) = {}
  BY <1>1, NoHeadNoList DEF ListInv, Emptied
<1> HIDE DEF x
<1>3. Reached'
  <2>1. ASSUME NEW e \in Elems, e # x, Linked(e) PROVE Linked(e)' \/ e = nextFree[x]
    BY <1>2, <2>1 DEF Linked, InList
  <2>2. ASSUME NEW e \in Elems, InList(e), e = nextFree[x]
        PROVE  place[e] = "taken" /\ Owner[e] = p
    BY <1>1, <2>2, NullAssumption DEF IInv, LinksInList, InList
  <2>3. ASSUME NEW e \in Elems, place'[e] = "local"
        PROVE  e = freeList'[Owner[e]] \/ Linked(e)'
    <3>1. e # x /\ Owner[e] \in Procs
      BY <1>2, <2>3, OwnerAssumption
    <3>2. CASE Owner[e] = p
      <4>1. place[e] = "taken"
        BY <1>0, <1>1, <2>3, <3>1, <3>2 DEF At
      <4>2. Linked(e)
        BY <3>1, <3>2, <4>1 DEF ListInv, Reached, x
      <4> QED
        BY <1>2, <2>1, <3>1, <3>2, <4>2
    <3>3. CASE Owner[e] # p
      <4>1. place[e] = "local"
        BY <1>1, <2>3, <3>1, <3>3
      <4>2. e = freeList[Owner[e]] \/ Linked(e)
        BY <4>1 DEF ListInv, Reached
      <4> QED
        BY <1>2, <2>1, <2>2, <3>1, <3>3, <4>1, <4>2 DEF InList
    <3> QED
      BY <3>2, <3>3
  <2>4. ASSUME NEW e \in Elems, place'[e] = "shared"
        PROVE  e = sharedFreeList'[Owner[e]] \/ Linked(e)'
    BY <1>1, <1>2, <2>1, <2>2, <2>4 DEF ListInv, Reached, InList
  <2>5. ASSUME NEW e \in Elems, place'[e] = "taken"
        PROVE  pc'[Owner[e]] = "others" /\ (e = topElem'[Owner[e]] \/ Linked(e)')
    <3>1. e # x /\ place[e] = "taken" /\ Owner[e] # p /\ Owner[e] \in Procs
      BY <1>1, <2>5, OwnerAssumption
    <3> QED
      BY <1>2, <2>1, <2>2, <3>1 DEF ListInv, Reached, InList
  <2> QED
    BY <2>3, <2>4, <2>5 DEF Reached
<1>4. Ranked'
  BY <1>2, RankedKept DEF ListInv, InList
<1>5. Emptied'
  BY <1>2 DEF ListInv, Emptied
<1>6. Counted'
  <2>1. \A q \in Procs : UNCHANGED Uncounted(q)
    BY <1>1, <1>2 DEF Uncounted
  <2>2. At("inUse", p)' = At("inUse", p) \cup {x}
    BY <1>1 DEF At
  <2>3. \A q \in Procs \ {p} : UNCHANGED At("inUse", q)
    BY <1>1 DEF At
  <2> QED
    BY <1>1, <2>1, <2>2, <2>3, CountedAllocated DEF ListInv
<1> QED
  BY <1>3, <1>4, <1>5, <1>6 DEF ListInv

\* An element of the buffer was in no list.
LEMMA AllocateFreshList ==
  ASSUME NEW p \in Procs, IInv, ListInv, AllocateFresh(p)
  PROVE  ListInv'
<1>1. PICK x \in Elems : place[x] = "buffer" /\ Owner[x] = p
                         /\ place' = [place EXCEPT ![x] = "inUse"]
  BY DEF AllocateFresh
<1>2. /\ UNCHANGED <<freeList, sharedFreeList, nextFree, numLocalFreed, numSharedFreed,
                     pc, topElem, elem>>
      /\ numAllocated' = [numAllocated EXCEPT ![p] = @ + 1]
  BY DEF AllocateFresh
<1>3. /\ place'[x] = "inUse" /\ \A e \in Elems : e # x => place'[e] = place[e]
      /\ \A e \in Elems : InList(e)' <=> InList(e)
  BY <1>1 DEF IInv, TypeOK, InList
<1>4. \A e \in Elems : Linked(e)' <=> Linked(e)
  BY <1>2, <1>3 DEF Linked
<1>5. Reached'
  BY <1>2, <1>3, <1>4 DEF ListInv, Reached
<1>6. Ranked'
  BY <1>2, <1>3, RankedKept DEF ListInv
<1>7. Emptied'
  BY <1>2 DEF ListInv, Emptied
<1>8. Counted'
  <2>1. \A q \in Procs : UNCHANGED Uncounted(q)
    BY <1>2 DEF Uncounted
  <2>2. At("inUse", p)' = At("inUse", p) \cup {x}
    BY <1>1, <1>3 DEF At
  <2>3. \A q \in Procs \ {p} : UNCHANGED At("inUse", q)
    BY <1>1, <1>3 DEF At
  <2> QED
    BY <1>1, <1>2, <2>1, <2>2, <2>3, CountedAllocated DEF ListInv
<1> QED
  BY <1>5, <1>6, <1>7, <1>8 DEF ListInv

\* The head that was is linked to by the new one.
LEMMA FreeLocalList ==
  ASSUME NEW p \in Procs, NEW x \in Elems, IInv, ListInv, FreeLocal(p, x)
  PROVE  ListInv'
<1>1. /\ place[x] = "inUse" /\ Owner[x] = p /\ x # Null
      /\ nextFree' = [nextFree EXCEPT ![x] = freeList[p]]
      /\ freeList' = [freeList EXCEPT ![p] = x]
      /\ numLocalFreed' = [numLocalFreed EXCEPT ![p] = @ + 1]
      /\ place' = [place EXCEPT ![x] = "local"] /\ pc[p] = "idle"
      /\ UNCHANGED <<sharedFreeList, numAllocated, numSharedFreed, pc, topElem, elem>>
  BY NullAssumption DEF FreeLocal
<1>2. /\ \A e \in Elems : e # x => place'[e] = place[e] /\ nextFree'[e] = nextFree[e]
      /\ place'[x] = "local" /\ nextFree'[x] = freeList[p]
      /\ freeList'[p] = x /\ \A q \in Procs : q # p => freeList'[q] = freeList[q]
      /\ \A e \in Elems : e # x => (InList(e)' <=> InList(e))
      /\ InList(x)' /\ ~InList(x)
  BY <1>1 DEF IInv, TypeOK, InList
<1>3. Reached'
  <2>1. ASSUME NEW e \in Elems, Linked(e) PROVE Linked(e)'
    BY <1>2, <2>1 DEF Linked
  <2>2. \A e \in Elems : e = freeList[p] => Linked(e)'
    BY <1>2 DEF Linked
  <2>3. ASSUME NEW e \in Elems, place'[e] = "local"
        PROVE  e = freeList'[Owner[e]] \/ Linked(e)'
    BY <1>1, <1>2, <2>1, <2>2, <2>3, OwnerAssumption DEF ListInv, Reached
  <2>4. ASSUME NEW e \in Elems, place'[e] = "shared"
        PROVE  e = sharedFreeList'[Owner[e]] \/ Linked(e)'
    BY <1>1, <1>2, <2>1, <2>4 DEF ListInv, Reached
  <2>5. ASSUME NEW e \in Elems, place'[e] = "taken"
        PROVE  pc'[Owner[e]] = "others" /\ (e = topElem'[Owner[e]] \/ Linked(e)')
    BY <1>1, <1>2, <2>1, <2>5 DEF ListInv, Reached
  <2> QED
    BY <2>3, <2>4, <2>5 DEF Reached
<1>4. Ranked'
  <2>1. freeList[p] # Null => freeList[p] \in Elems /\ freeList[p] # x
    BY <1>1 DEF IInv, TypeOK, HeadsInList, Links
  <2>2. \A e \in Elems : e # x /\ InList(e) /\ nextFree[e] # Null => nextFree[e] \in Elems \ {x}
    BY <1>2 DEF IInv, LinksInList, TypeOK, Links, InList
  <2> QED
    BY <1>2, <2>1, <2>2, RankedPushed DEF ListInv
<1>5. Emptied'
  BY <1>1, <1>2 DEF ListInv, Emptied
<1>6. Counted'
  <2>1. \A q \in Procs : UNCHANGED Uncounted(q)
    BY <1>1 DEF Uncounted
  <2>2. At("inUse", p)' = At("inUse", p) \ {x} /\ x \in At("inUse", p)
    BY <1>1, <1>2 DEF At
  <2>3. \A q \in Procs \ {p} : UNCHANGED At("inUse", q)
    BY <1>1, <1>2 DEF At
  <2>4. /\ Cardinality(At("inUse", p)') = Cardinality(At("inUse", p)) - 1
        /\ Cardinality(At("inUse", p)) \in Nat /\ Cardinality(Uncounted(p)) \in Nat
    BY <2>2, CountedSets, FS_RemoveElement
  <2>5. /\ Freed(p)' = Freed(p) + 1 /\ Freed(p) \in Nat
        /\ \A q \in Procs \ {p} : Freed(q)' = Freed(q)
    BY <1>1 DEF IInv, TypeOK, Freed
  <2>6. numAllocated'[p] = Freed(p)' + Cardinality(At("inUse", p)') + Cardinality(Uncounted(p)')
    <3>1. numAllocated[p] = Freed(p) + Cardinality(At("inUse", p)) + Cardinality(Uncounted(p))
      BY DEF ListInv, Counted
    <3> QED
      BY <1>1, <2>1, <2>4, <2>5, <3>1
  <2> QED
    BY <1>1, <2>1, <2>3, <2>5, <2>6 DEF ListInv, Counted
<1> QED
  BY <1>3, <1>4, <1>5, <1>6 DEF ListInv

\* What another processor frees is uncounted for its owner until the call ends.
LEMMA FreeRemoteList ==
  ASSUME NEW p \in Procs, NEW x \in Elems, IInv, ListInv, FreeRemote(p, x)
  PROVE  ListInv'
<1> DEFINE o == Owner[x]
<1>1. /\ place[x] = "inUse" /\ o # p /\ o \in Procs
      /\ elem' = [elem EXCEPT ![p] = x] /\ place' = [place EXCEPT ![x] = "pushing"]
      /\ pc' = [pc EXCEPT ![p] = "link"] /\ pc[p] = "idle"
      /\ UNCHANGED <<freeList, sharedFreeList, nextFree, numbers, topElem>>
  BY OwnerAssumption DEF FreeRemote
<1> HIDE DEF o
<1>2. /\ place'[x] = "pushing" /\ \A e \in Elems : e # x => place'[e] = place[e]
      /\ \A e \in Elems : InList(e)' <=> InList(e)
      /\ pc'[p] = "link" /\ \A q \in Procs : q # p => pc'[q] = pc[q] /\ elem'[q] = elem[q]
      /\ elem'[p] = x
  BY <1>1 DEF IInv, TypeOK, InList
<1>3. \A e \in Elems : Linked(e)' <=> Linked(e)
  BY <1>1, <1>2 DEF Linked
<1>4. Reached'
  <2>1. \A e \in Elems : InList(e) /\ pc[Owner[e]] = "others" => pc'[Owner[e]] = "others"
    BY <1>1, <1>2, OwnerAssumption
  <2> QED
    BY <1>1, <1>2, <1>3, <2>1 DEF ListInv, Reached, InList
<1>5. Ranked'
  BY <1>1, <1>2, RankedKept DEF ListInv
<1>6. Emptied'
  BY <1>1, <1>2 DEF ListInv, Emptied
<1>7. Counted'
  <2>1. Uncounted(o)' = Uncounted(o) \cup {p} /\ p \notin Uncounted(o)
    BY <1>1, <1>2 DEF Uncounted, o
  <2>2. At("inUse", o)' = At("inUse", o) \ {x} /\ x \in At("inUse", o)
    BY <1>1, <1>2 DEF At, o
  <2>3. ASSUME NEW q \in Procs \ {o} PROVE UNCHANGED <<At("inUse", q), Uncounted(q)>>
    BY <1>1, <1>2 DEF At, Uncounted, o
  <2>4. /\ Cardinality(At("inUse", o)') = Cardinality(At("inUse", o)) - 1
        /\ Cardinality(At("inUse", o)) \in Nat
        /\ Cardinality(Uncounted(o)') = Cardinality(Uncounted(o)) + 1
        /\ Cardinality(Uncounted(o)) \in Nat
    <3>1. /\ IsFiniteSet(At("inUse", o)) /\ Cardinality(At("inUse", o)) \in Nat
          /\ IsFiniteSet(Uncounted(o)) /\ Cardinality(Uncounted(o)) \in Nat
      BY <1>1, CountedSets
    <3>2. Cardinality(At("inUse", o) \ {x}) = Cardinality(At("inUse", o)) - 1
      BY <2>2, <3>1, FS_RemoveElement
    <3>3. Cardinality(Uncounted(o) \cup {p}) = Cardinality(Uncounted(o)) + 1
      BY <2>1, <3>1, FS_AddElement
    <3> QED
      BY <2>1, <2>2, <3>1, <3>2, <3>3
  <2>5. \A q \in Procs : Freed(q)' = Freed(q) /\ Freed(q) \in Nat
    BY <1>1 DEF IInv, TypeOK, Freed, numbers
  <2>6. numAllocated'[o] = Freed(o)' + Cardinality(At("inUse", o)') + Cardinality(Uncounted(o)')
    <3>1. numAllocated[o] = Freed(o) + Cardinality(At("inUse", o)) + Cardinality(Uncounted(o))
      BY <1>1 DEF ListInv, Counted
    <3>2. numAllocated'[o] = numAllocated[o]
      BY <1>1 DEF numbers
    <3>3. Freed(o)' = Freed(o) /\ Freed(o) \in Nat
      BY <1>1, <2>5
    <3> QED
      BY <2>4, <3>1, <3>2, <3>3
  <2> QED
    BY <1>1, <2>3, <2>5, <2>6 DEF ListInv, Counted, numbers
<1> QED
  BY <1>4, <1>5, <1>6, <1>7 DEF ListInv

\* The element that is linked is not in a list yet.
LEMMA LinkList ==
  ASSUME NEW p \in Procs, IInv, ListInv, Link(p)
  PROVE  ListInv'
<1>1. /\ pc[p] = "link" /\ pc' = [pc EXCEPT ![p] = "push"]
      /\ elem[p] \in Elems /\ ~InList(elem[p])
      /\ \A e \in Elems : e # elem[p] => nextFree'[e] = nextFree[e]
      /\ UNCHANGED <<freeList, sharedFreeList, numbers, topElem, elem, place>>
  BY DEF Link, IInv, TypeOK, Giving, InList
<1>2. /\ pc'[p] = "push" /\ \A q \in Procs : q # p => pc'[q] = pc[q]
      /\ \A e \in Elems : InList(e)' <=> InList(e)
  BY <1>1 DEF IInv, TypeOK, InList
<1>3. \A e \in Elems : Linked(e)' <=> Linked(e)
  BY <1>1, <1>2 DEF Linked
<1>4. Reached'
  <2>1. \A e \in Elems : InList(e) /\ pc[Owner[e]] = "others" => pc'[Owner[e]] = "others"
    BY <1>1, <1>2, OwnerAssumption
  <2> QED
    BY <1>1, <1>2, <1>3, <2>1 DEF ListInv, Reached, InList
<1>5. Ranked'
  BY <1>1, <1>2, RankedKept DEF ListInv
<1>6. Emptied'
  BY <1>1, <1>2 DEF ListInv, Emptied
<1>7. Counted'
  BY <1>1, <1>2, CountedKept DEF ListInv, At, Uncounted
<1> QED
  BY <1>4, <1>5, <1>6, <1>7 DEF ListInv

\* The element is published before the head it links to, which may have left
\* the list and come back meanwhile.
LEMMA PushList ==
  ASSUME NEW p \in Procs, IInv, ListInv, Push(p)
  PROVE  ListInv'
<1>0. PICK x \in Elems : x = elem[p]
  BY DEF Push, IInv, Giving
<1> DEFINE o == Owner[x]
<1>1. /\ pc[p] = "push" /\ place[x] = "pushing" /\ o \in Procs
      /\ nextFree[x] = oldVal[p] /\ x # Null
      /\ UNCHANGED <<freeList, nextFree, numbers, topElem, elem>>
  BY <1>0, OwnerAssumption, NullAssumption DEF Push, IInv, Giving
<1> HIDE DEF o
<1>2. CASE sharedFreeList[o] # oldVal[p]
  <2>1. pc' = [pc EXCEPT ![p] = "link"] /\ UNCHANGED <<sharedFreeList, place>>
    BY <1>0, <1>2 DEF Push, o
  <2>2. pc'[p] = "link" /\ \A q \in Procs : q # p => pc'[q] = pc[q]
    BY <2>1 DEF IInv, TypeOK
  <2>3. \A e \in Elems : InList(e) /\ pc[Owner[e]] = "others" => pc'[Owner[e]] = "others"
    BY <1>1, <2>2, OwnerAssumption
  <2>4. Reached'
    BY <1>1, <2>1, <2>3 DEF ListInv, Reached, Linked, InList
  <2>5. Ranked'
    BY <1>1, <2>1, RankedKept DEF ListInv, InList
  <2>6. Emptied' /\ Counted'
    BY <1>1, <2>1, <2>2, CountedKept DEF ListInv, Emptied, At, Uncounted
  <2> QED
    BY <2>4, <2>5, <2>6 DEF ListInv
<1>3. CASE sharedFreeList[o] = oldVal[p]
  <2>1. /\ sharedFreeList' = [sharedFreeList EXCEPT ![o] = x]
        /\ place' = [place EXCEPT ![x] = "shared"] /\ pc' = [pc EXCEPT ![p] = "count"]
    BY <1>0, <1>3 DEF Push, o
  <2>2. /\ pc'[p] = "count" /\ \A q \in Procs : q # p => pc'[q] = pc[q]
        /\ sharedFreeList'[o] = x
        /\ \A q \in Procs : q # o => sharedFreeList'[q] = sharedFreeList[q]
        /\ place'[x] = "shared" /\ \A e \in Elems : e # x => place'[e] = place[e]
        /\ \A e \in Elems : e # x => (InList(e)' <=> InList(e))
        /\ InList(x)' /\ ~InList(x)
    BY <1>1, <2>1 DEF IInv, TypeOK, InList
  <2>3. Reached'
    <3>1. ASSUME NEW e \in Elems, Linked(e) PROVE Linked(e)'
      BY <1>1, <2>2, <3>1 DEF Linked
    <3>2. \A e \in Elems : e = sharedFreeList[o] => Linked(e)'
      BY <1>1, <1>3, <2>2 DEF Linked
    <3>3. ASSUME NEW e \in Elems, place'[e] = "local"
          PROVE  e = freeList'[Owner[e]] \/ Linked(e)'
      BY <1>1, <2>2, <3>1, <3>3 DEF ListInv, Reached
    <3>4. ASSUME NEW e \in Elems, place'[e] = "shared"
          PROVE  e = sharedFreeList'[Owner[e]] \/ Linked(e)'
      BY <2>2, <3>1, <3>2, <3>4, OwnerAssumption DEF ListInv, Reached, o
    <3>5. ASSUME NEW e \in Elems, place'[e] = "taken"
          PROVE  pc'[Owner[e]] = "others" /\ (e = topElem'[Owner[e]] \/ Linked(e)')
      BY <1>1, <2>2, <3>1, <3>5, OwnerAssumption DEF ListInv, Reached
    <3> QED
      BY <3>3, <3>4, <3>5 DEF Reached
  <2>4. Ranked'
    <3>1. nextFree[x] # Null => nextFree[x] \in Elems /\ nextFree[x] # x
      BY <1>1, <1>3, NullAssumption DEF IInv, TypeOK, HeadsInList, Links
    <3>2. \A e \in Elems : e # x /\ InList(e) /\ nextFree[e] # Null =>
            nextFree[e] \in Elems \ {x}
      BY <1>1 DEF IInv, LinksInList, TypeOK, Links, InList
    <3> QED
      BY <1>1, <2>2, <3>1, <3>2, RankedPushed DEF ListInv
  <2>5. Emptied'
    BY <1>1, <2>2 DEF ListInv, Emptied
  <2>6. Counted'
    <3>1. ASSUME NEW q \in Procs PROVE UNCHANGED <<At("inUse", q), Uncounted(q)>>
      BY <1>1, <2>2 DEF At, Uncounted
    <3> QED
      BY <1>1, <3>1, CountedKept DEF ListInv
  <2> QED
    BY <2>3, <2>4, <2>5, <2>6 DEF ListInv
<1> QED
  BY <1>2, <1>3

\* The statistics catch up with what is in the list already.
LEMMA CountList ==
  ASSUME NEW p \in Procs, IInv, ListInv, Count(p)
  PROVE  ListInv'
<1>0. PICK o \in Procs : o = Owner[elem[p]]
  BY OwnerAssumption DEF Count, IInv, Giving
<1>1. /\ pc[p] = "count"
      /\ numSharedFreed' = [numSharedFreed EXCEPT ![o] = @ + 1]
      /\ pc' = [pc EXCEPT ![p] = "idle"] /\ elem' = [elem EXCEPT ![p] = Null]
      /\ UNCHANGED <<freeList, sharedFreeList, nextFree, numAllocated, numLocalFreed,
                     topElem, place>>
  BY <1>0 DEF Count
<1>2. pc'[p] = "idle" /\ \A q \in Procs : q # p => pc'[q] = pc[q] /\ elem'[q] = elem[q]
  BY <1>1 DEF IInv, TypeOK
<1>3. \A e \in Elems : pc[Owner[e]] = "others" => pc'[Owner[e]] = "others"
  BY <1>1, <1>2, OwnerAssumption
<1>4. Reached'
  BY <1>1, <1>3 DEF ListInv, Reached, Linked, InList
<1>5. Ranked'
  BY <1>1, RankedKept DEF ListInv, InList
<1>6. Emptied'
  BY <1>1, <1>2 DEF ListInv, Emptied
<1>7. Counted'
  <2>1. Uncounted(o)' = Uncounted(o) \ {p} /\ p \in Uncounted(o)
    BY <1>0, <1>1, <1>2 DEF Uncounted
  <2>2. \A q \in Procs \ {o} : UNCHANGED Uncounted(q)
    BY <1>0, <1>1, <1>2 DEF Uncounted
  <2>3. \A q \in Procs : UNCHANGED At("inUse", q)
    BY <1>1 DEF At
  <2>4. /\ Cardinality(At("inUse", o)) \in Nat
        /\ Cardinality(Uncounted(o)') = Cardinality(Uncounted(o)) - 1
        /\ Cardinality(Uncounted(o)) \in Nat
    BY <1>1, <2>1, CountedSets, FS_RemoveElement
  <2>5. /\ Freed(o)' = Freed(o) + 1 /\ Freed(o) \in Nat
        /\ \A q \in Procs \ {o} : Freed(q)' = Freed(q)
    BY <1>1 DEF IInv, TypeOK, Freed
  <2>6. numAllocated'[o] = Freed(o)' + Cardinality(At("inUse", o)') + Cardinality(Uncounted(o)')
    <3>1. numAllocated[o] = Freed(o) + Cardinality(At("inUse", o)) + Cardinality(Uncounted(o))
      BY <1>1 DEF ListInv, Counted
    <3>2. numAllocated'[o] = numAllocated[o] /\ At("inUse", o)' = At("inUse", o)
      BY <1>1, <2>3
    <3> QED
      BY <2>4, <2>5, <3>1, <3>2
  <2> QED
    BY <1>1, <2>2, <2>3, <2>5, <2>6 DEF ListInv, Counted
<1> QED
  BY <1>4, <1>5, <1>6, <1>7 DEF ListInv

\* The initial state has no lists.
LEMMA InitList == Init => ListInv
<1> SUFFICES ASSUME Init PROVE ListInv
  OBVIOUS
<1> USE DEF Init
<1>1. Reached /\ Emptied
  BY DEF Reached, Emptied
<1>2. Ranked
  <2>1. [e \in Elems |-> 0] \in [Elems -> Nat] /\ Ranks([e \in Elems |-> 0])
    BY DEF Ranks, InList
  <2> QED
    BY <2>1 DEF Ranked
<1>3. Counted
  <2>1. ASSUME NEW p \in Procs PROVE At("inUse", p) = {} /\ Uncounted(p) = {}
    BY DEF At, Uncounted
  <2>2. Cardinality({}) = 0
    BY FS_EmptySet
  <2> QED
    BY <2>1, <2>2 DEF Counted, Freed
<1> QED
  BY <1>1, <1>2, <1>3 DEF ListInv

\* The invariant speaks of the state only.
LEMMA UnchangedList ==
  ASSUME ListInv, UNCHANGED vars
  PROVE  ListInv'
<1> USE DEF vars, numbers
<1>1. Reached' /\ Emptied'
  BY DEF ListInv, Reached, Linked, Emptied, InList
<1>2. Ranked'
  BY RankedKept DEF ListInv, InList
<1>3. Counted'
  BY CountedKept DEF ListInv, At, Uncounted
<1> QED
  BY <1>1, <1>2, <1>3 DEF ListInv

\* In every behaviour of the allocators, for every number of processors and
\* elements, each free list holds exactly what was freed to it, also while
\* elements are pushed and whole lists are taken by others; and what was
\* allocated and not freed is what is in use once nobody is in a call.
THEOREM ListsAndCountsHolds == Spec => []ListsAndCounts
<1>1. IInv /\ ListInv /\ [Next]_vars => ListInv'
  <2> SUFFICES ASSUME IInv, ListInv, [Next]_vars PROVE ListInv'
    OBVIOUS
  <2>1. ASSUME NEW p \in Procs, Step(p) PROVE ListInv'
    <3>1. CASE AllocateLocal(p)
      BY <3>1, AllocateLocalList
    <3>2. CASE FindShared(p)
      BY <3>2, FindSharedList
    <3>3. CASE TakeShared(p)
      BY <3>3, TakeSharedList
    <3>4. CASE KeepOthers(p)
      BY <3>4, KeepOthersList
    <3>5. CASE AllocateFresh(p)
      BY <3>5, AllocateFreshList
    <3>6. CASE \E e \in Elems : FreeLocal(p, e)
      BY <3>6, FreeLocalList
    <3>7. CASE \E e \in Elems : FreeRemote(p, e)
      BY <3>7, FreeRemoteList
    <3>8. CASE Link(p)
      BY <3>8, LinkList
    <3>9. CASE Push(p)
      BY <3>9, PushList
    <3>10. CASE Count(p)
      BY <3>10, CountList
    <3> QED
      BY <2>1, <3>1, <3>2, <3>3, <3>4, <3>5, <3>6, <3>7, <3>8, <3>9, <3>10 DEF Step
  <2>2. CASE UNCHANGED vars
    BY <2>2, UnchangedList
  <2> QED
    BY <2>1, <2>2 DEF Next, Rest
<1>2. IInv /\ ListInv => ListsAndCounts
  BY WholeFromInv, CountedFromInv DEF ListsAndCounts
<1>3. QED
  BY InitList, InvHolds, <1>1, <1>2, PTL DEF Spec

-----------------------------------------------------------------------------

(***************************************************************************)
(* The bag of CCStack.tla, for any number of stacks, data and any size of  *)
(* the chunks.                                                             *)
(*                                                                         *)
(* What a push brought is with the collector or in a stack (AllKept), as   *)
(* long as every stack that is closed is held by the collector: a push to  *)
(* a closed stack is dropped, and only a holder of the mutex pushes.  That *)
(* ends when the flag of the bag is set, with all stacks empty, or when    *)
(* the collector meets a stack that is not empty: then it lets go of the   *)
(* stacks that it has closed, whose pushes are lost from then on.  The     *)
(* marking never ends without them only because it never ends: the         *)
(* collector cannot pass the stack it stopped at, whose mutex it has kept  *)
(* (Stuck, the disagreement that the run cc_stack_locks shows).            *)
(***************************************************************************)

(* What a stack holds.                                                      *)
Content(chunks) == UNION {chunks[j] : j \in 1 .. Len(chunks)}

(* A push stores under the mutex of its stack.                              *)
PushersHold ==
  \A p \in Mutators :
    /\ pusher[p].pc = "store" => mutex[p] = p
    /\ pusher[p].pc # "idle" => pusher[p].datum \in Data

ClosedIsEmpty == \A i \in Mutators : isClosed[i] => storage[i] = <<>>

(* The phases of the collector, and which stacks it has closed and holds.   *)
Gathering ==
  /\ closer.pc \in {"look", "batch", "take"}
  /\ \A i \in Mutators : ~isClosed[i]
  /\ Closing("take") => mutex[Current] = Collector /\ storage[Current] # <<>>

Confirming ==
  /\ Closing("confirm")
  /\ \A i \in Mutators : isClosed[i] <=> i < Current
  /\ \A i \in Mutators : i < Current => mutex[i] = Collector

Confirmed ==
  /\ Closing("succeed")
  /\ \A i \in Mutators : isClosed[i] /\ mutex[i] = Collector

Closed ==
  /\ closer.pc \in {"unlock", "closed"}
  /\ \A i \in Mutators : isClosed[i]
  /\ Closing("unlock") => \A i \in Mutators : Current <= i => mutex[i] = Collector

(* After a failure: s is where the loop stopped.                            *)
StuckAt(s) ==
  /\ Current <= s
  /\ storage[s] # <<>> /\ ~isClosed[s] /\ mutex[s] = Collector
  /\ \A i \in Mutators : i < s => isClosed[i]
  /\ Closing("release") =>
       \A i \in Mutators : Current <= i /\ i < s => mutex[i] = Collector

Stuck ==
  /\ closer.pc \in {"release", "batch"}
  /\ \E s \in Mutators : StuckAt(s)

(* What was pushed is with the collector or in a stack.                     *)
AllKept == \A d \in pushed : d \in removed \/ \E i \in Mutators : d \in Content(storage[i])

PhaseInv ==
  /\ allClosed <=> closer.pc \in {"unlock", "closed"}
  /\ \/ Stuck
     \/ (Gathering \/ Confirming \/ Confirmed \/ Closed) /\ AllKept

BagTypeInv == BagTypeOK /\ PushersHold
BagIInv == BagTypeInv /\ ClosedIsEmpty /\ PhaseInv

-----------------------------------------------------------------------------
(* Stacks as sequences of chunks *)

(* A sequence without its last element.                                     *)
LEMMA FrontFacts ==
  ASSUME NEW S, NEW b \in Seq(S), b # <<>>, NEW c, c = Front(b)
  PROVE  /\ c \in Seq(S) /\ Len(b) \in Nat /\ Len(b) >= 1 /\ Len(c) = Len(b) - 1
         /\ \A i \in 1 .. Len(c) : c[i] = b[i]
<1>1. Len(b) \in Nat /\ Len(b) >= 1
  BY EmptySeq
<1>2. c = SubSeq(b, 1, Len(b) - 1)
  BY DEF Front
<1>3. \A i \in 1 .. Len(b) - 1 : b[i] \in S
  BY <1>1
<1>4. /\ c \in Seq(S)
      /\ Len(c) = IF 1 <= Len(b) - 1 THEN Len(b) - 1 - 1 + 1 ELSE 0
      /\ \A i \in 1 .. Len(b) - 1 - 1 + 1 : c[i] = b[1 + i - 1]
  BY <1>1, <1>2, <1>3, SubSeqProperties
<1>5. Len(c) = Len(b) - 1
  <2> DEFINE n == Len(b)
  <2>1. n \in Nat /\ n >= 1 /\ Len(c) = IF 1 <= n - 1 THEN n - 1 - 1 + 1 ELSE 0
    BY <1>1, <1>4
  <2> HIDE DEF n
  <2>2. Len(c) = n - 1
    BY <2>1
  <2> QED
    BY <2>2 DEF n
<1>6. \A i \in 1 .. Len(c) : i \in 1 .. Len(b) - 1 - 1 + 1 /\ 1 + i - 1 = i
  BY <1>1, <1>5
<1> QED
  BY <1>1, <1>4, <1>5, <1>6

(* A datum that is stored is in the stack with what was there.              *)
LEMMA StoreInKeeps ==
  ASSUME NEW chunks \in Seq(SUBSET Data), NEW d \in Data
  PROVE  /\ StoreIn(chunks, d) \in Seq(SUBSET Data)
         /\ StoreIn(chunks, d) # <<>>
         /\ d \in Content(StoreIn(chunks, d))
         /\ Content(chunks) \subseteq Content(StoreIn(chunks, d))
<1>1. CASE chunks = <<>> \/ Cardinality(Last(chunks)) = ChunkSize
  <2>1. StoreIn(chunks, d) = Append(chunks, {d})
    BY <1>1 DEF StoreIn
  <2> DEFINE new == Append(chunks, {d})
  <2>2. /\ new \in Seq(SUBSET Data) /\ Len(new) = Len(chunks) + 1
        /\ new[Len(chunks) + 1] = {d}
        /\ \A j \in 1 .. Len(chunks) : new[j] = chunks[j]
    OBVIOUS
  <2>3. Len(chunks) \in Nat /\ new # <<>>
    BY <2>2
  <2> HIDE DEF new
  <2>4. d \in Content(new)
    BY <2>2, <2>3 DEF Content
  <2>5. Content(chunks) \subseteq Content(new)
    BY <2>2, <2>3 DEF Content
  <2> QED
    BY <2>1, <2>2, <2>3, <2>4, <2>5 DEF new
<1>2. CASE chunks # <<>> /\ Cardinality(Last(chunks)) # ChunkSize
  <2> DEFINE n == Len(chunks)
             new == Front(chunks) \o <<Last(chunks) \union {d}>>
  <2>1. StoreIn(chunks, d) = new
    BY <1>2 DEF StoreIn
  <2>2. n \in Nat \ {0} /\ chunks[n] \in SUBSET Data
    BY <1>2
  <2>3. /\ Front(chunks) \in Seq(SUBSET Data) /\ Len(Front(chunks)) = n - 1
        /\ \A j \in 1 .. n - 1 : Front(chunks)[j] = chunks[j]
    BY <1>2, <2>2, FrontFacts
  <2>4. Last(chunks) = chunks[n] /\ <<Last(chunks) \union {d}>> \in Seq(SUBSET Data)
    BY <2>2 DEF Last
  <2>5. /\ new \in Seq(SUBSET Data) /\ Len(new) = n
        /\ \A j \in 1 .. n - 1 : new[j] = chunks[j]
        /\ new[n] = chunks[n] \union {d}
    BY <2>2, <2>3, <2>4
  <2> HIDE DEF new, n
  <2>6. new # <<>>
    BY <2>2, <2>5
  <2>7. d \in Content(new)
    BY <2>2, <2>5 DEF Content
  <2>8. ASSUME NEW e \in Content(chunks)
        PROVE  e \in Content(new)
    <3>1. PICK j \in 1 .. n : e \in chunks[j]
      BY DEF Content, n
    <3>2. e \in new[j] /\ j \in 1 .. Len(new)
      BY <2>2, <2>5, <3>1
    <3> QED
      BY <3>2 DEF Content
  <2> QED
    BY <2>1, <2>5, <2>6, <2>7, <2>8
<1> QED
  BY <1>1, <1>2

(* A batch is what leaves the stack.                                        *)
LEMMA UnlinkedAndHead ==
  ASSUME NEW chunks \in Seq(SUBSET Data), chunks # <<>>
  PROVE  /\ Unlinked(chunks) \in Seq(SUBSET Data)
         /\ Head(chunks) \subseteq Data
         /\ \A e \in Content(chunks) : e \in Head(chunks) \/ e \in Content(Unlinked(chunks))
<1>1. /\ Unlinked(chunks) \in Seq(SUBSET Data) /\ Len(Unlinked(chunks)) = Len(chunks) - 1
      /\ Head(chunks) = chunks[1] /\ Head(chunks) \subseteq Data
      /\ \A j \in 2 .. Len(chunks) : Unlinked(chunks)[j - 1] = chunks[j]
  BY DEF Unlinked
<1>2. ASSUME NEW e \in Content(chunks), e \notin Head(chunks)
      PROVE  e \in Content(Unlinked(chunks))
  <2>1. PICK j \in 1 .. Len(chunks) : e \in chunks[j]
    BY DEF Content
  <2>2. j \in 2 .. Len(chunks)
    BY <1>1, <1>2, <2>1
  <2>3. e \in Unlinked(chunks)[j - 1] /\ j - 1 \in 1 .. Len(Unlinked(chunks))
    BY <1>1, <2>1, <2>2
  <2> QED
    BY <2>3 DEF Content
<1> QED
  BY <1>1, <1>2

(* Nothing is in an empty stack.                                            *)
LEMMA EmptyHasNothing == Content(<<>>) = {}
BY DEF Content

(* The stacks are numbered from 0, and the collector is none of them.       *)
LEMMA StacksAreNumbers ==
  /\ NumStacks \in Nat \ {0} /\ 0 \in Mutators
  /\ \A i \in Mutators : i \in Nat /\ i < NumStacks /\ i # Collector /\ i # Nil
  /\ \A i \in Mutators : i + 1 < NumStacks => i + 1 \in Mutators
  /\ Collector # Nil
BY StacksAssumption DEF Mutators, Collector

-----------------------------------------------------------------------------
(* The types *)

(* The types of a step of the collector that changes only closer and mutex. *)
LEMMA MovesAreTyped ==
  ASSUME BagTypeInv, NEW label, NEW i \in Mutators, Goto(label, i),
         label \in {"look", "confirm", "succeed", "unlock", "release", "batch", "take", "closed"},
         mutex' = mutex \/ Lock(Current, Collector) \/ (mutex[Current] = Collector /\ Unlock(Current)),
         pusher' = pusher
  PROVE  /\ closer' \in [pc : {"look", "confirm", "succeed", "unlock", "release", "batch",
                               "take", "closed"}, i : Mutators]
         /\ mutex' \in [Mutators -> Mutators \union {Collector, Nil}]
         /\ PushersHold'
<1>1. closer' \in [pc : {"look", "confirm", "succeed", "unlock", "release", "batch",
                         "take", "closed"}, i : Mutators]
  BY DEF Goto
<1>2. mutex' \in [Mutators -> Mutators \union {Collector, Nil}]
  BY DEF BagTypeInv, BagTypeOK, Lock, Unlock
<1>3. Current \in Mutators /\ mutex \in [Mutators -> Mutators \union {Collector, Nil}]
  BY DEF BagTypeInv, BagTypeOK, Current
<1>4. \A p \in Mutators : mutex[p] = p => mutex'[p] = p
  BY <1>3, StacksAreNumbers DEF Lock, Unlock
<1>5. PushersHold'
  BY <1>4 DEF BagTypeInv, PushersHold
<1> QED
  BY <1>1, <1>2, <1>5

(* The types initially.                                                     *)
LEMMA TypesInitial == BagInit => BagTypeInv
<1> SUFFICES ASSUME BagInit PROVE BagTypeInv
  OBVIOUS
<1>1. BagTypeOK
  <2>1. \A p \in Mutators :
          Idle \in [pc : {"idle", "push", "lock", "store"}, datum : Data \union {Nil}]
    BY DEF Idle
  <2>2. [pc |-> "look", i |-> 0] \in
          [pc : {"look", "confirm", "succeed", "unlock", "release", "batch", "take", "closed"},
           i : Mutators]
    BY StacksAreNumbers
  <2> QED
    BY <2>1, <2>2, EmptySeq DEF BagInit, BagTypeOK
<1>2. PushersHold
  BY DEF BagInit, PushersHold, Idle
<1> QED
  BY <1>1, <1>2 DEF BagTypeInv

(* The types and a push.                                                    *)
LEMMA PushTypes ==
  ASSUME BagTypeInv, NEW p \in Mutators,
         (\E d \in Data : Call(p, d)) \/ PushLook(p) \/ PushLock(p) \/ PushStore(p)
  PROVE  BagTypeInv'
<1>1. /\ pusher \in [Mutators ->
           [pc : {"idle", "push", "lock", "store"}, datum : Data \union {Nil}]]
      /\ mutex \in [Mutators -> Mutators \union {Collector, Nil}]
      /\ storage \in [Mutators -> Seq(SUBSET Data)]
      /\ PushersHold
  BY DEF BagTypeInv, BagTypeOK
<1>2. CASE \E d \in Data : Call(p, d)
  <2>1. BagTypeOK'
    BY <1>1, <1>2 DEF Call, BagTypeInv, BagTypeOK
  <2>2. PushersHold'
    BY <1>1, <1>2 DEF Call, PushersHold
  <2> QED
    BY <2>1, <2>2 DEF BagTypeInv
<1>3. CASE PushLook(p)
  <2>1. /\ pusher' = [pusher EXCEPT ![p] = Idle] \/ pusher' = [pusher EXCEPT ![p].pc = "lock"]
        /\ pushed' = pushed \/ pushed' = pushed \union {pusher[p].datum}
        /\ pusher[p].pc = "push" /\ pusher[p].datum \in Data
        /\ UNCHANGED <<allClosed, isClosed, storage, mutex, closer, removed>>
    BY <1>1, <1>3 DEF PushLook, Return, PushersHold
  <2>2. pusher' \in [Mutators ->
          [pc : {"idle", "push", "lock", "store"}, datum : Data \union {Nil}]]
    <3>1. Idle \in [pc : {"idle", "push", "lock", "store"}, datum : Data \union {Nil}]
      BY DEF Idle
    <3>2. CASE pusher' = [pusher EXCEPT ![p] = Idle]
      BY <1>1, <3>1, <3>2
    <3>3. CASE pusher' = [pusher EXCEPT ![p].pc = "lock"]
      BY <1>1, <3>3
    <3> QED
      BY <2>1, <3>2, <3>3
  <2>3. BagTypeOK'
    BY <2>1, <2>2 DEF BagTypeInv, BagTypeOK
  <2>4. PushersHold'
    <3>1. CASE pusher' = [pusher EXCEPT ![p] = Idle]
      <4>1. /\ pusher'[p].pc = "idle"
            /\ \A q \in Mutators : q # p => pusher'[q] = pusher[q]
        BY <1>1, <3>1 DEF Idle
      <4> QED
        BY <1>1, <2>1, <4>1 DEF PushersHold
    <3>2. CASE pusher' = [pusher EXCEPT ![p].pc = "lock"]
      BY <1>1, <2>1, <3>2 DEF PushersHold
    <3> QED
      BY <2>1, <3>1, <3>2
  <2> QED
    BY <2>3, <2>4 DEF BagTypeInv
<1>4. CASE PushLock(p)
  <2>1. /\ pusher' = [pusher EXCEPT ![p].pc = "store"] /\ mutex' = [mutex EXCEPT ![p] = p]
        /\ UNCHANGED <<allClosed, isClosed, storage, closer, removed, pushed>>
    BY <1>4 DEF PushLock, Lock
  <2>2. mutex' \in [Mutators -> Mutators \union {Collector, Nil}]
    BY <1>1, <2>1
  <2>3. pusher' \in [Mutators ->
          [pc : {"idle", "push", "lock", "store"}, datum : Data \union {Nil}]]
    BY <1>1, <2>1
  <2>4. BagTypeOK'
    BY <2>1, <2>2, <2>3 DEF BagTypeInv, BagTypeOK
  <2>5. PushersHold'
    BY <1>1, <1>4, StacksAreNumbers DEF PushLock, Lock, PushersHold
  <2> QED
    BY <2>4, <2>5 DEF BagTypeInv
<1>5. CASE PushStore(p)
  <2>1. pusher[p].datum \in Data /\ StoreIn(storage[p], pusher[p].datum) \in Seq(SUBSET Data)
    BY <1>1, <1>5, StoreInKeeps DEF PushStore, PushersHold
  <2>2. storage' \in [Mutators -> Seq(SUBSET Data)]
    BY <1>1, <1>5, <2>1 DEF PushStore
  <2>3. BagTypeOK'
    <3>1. /\ pusher' = [pusher EXCEPT ![p] = Idle] /\ mutex' = [mutex EXCEPT ![p] = Nil]
          /\ pushed' \in {pushed, pushed \union {pusher[p].datum}}
          /\ UNCHANGED <<allClosed, isClosed, closer, removed>>
      BY <1>5 DEF PushStore, Unlock, Return
    <3>2. Idle \in [pc : {"idle", "push", "lock", "store"}, datum : Data \union {Nil}]
      BY DEF Idle
    <3>3. pusher' \in [Mutators ->
            [pc : {"idle", "push", "lock", "store"}, datum : Data \union {Nil}]]
      BY <1>1, <3>1, <3>2
    <3>4. mutex' \in [Mutators -> Mutators \union {Collector, Nil}]
      BY <1>1, <3>1
    <3> QED
      BY <2>1, <2>2, <3>1, <3>3, <3>4 DEF BagTypeInv, BagTypeOK
  <2>4. PushersHold'
    BY <1>1, <1>5 DEF PushStore, Unlock, Return, Idle, PushersHold
  <2> QED
    BY <2>3, <2>4 DEF BagTypeInv
<1> QED
  BY <1>2, <1>3, <1>4, <1>5

-----------------------------------------------------------------------------
(* The steps of the collector *)

(* Where the collector goes.                                                *)
LEMMA GotoFacts ==
  ASSUME NEW label, NEW i, Goto(label, i)
  PROVE  closer'.pc = label /\ closer'.i = i
BY DEF Goto

(* Nothing gets lost where nothing is stored, taken or pushed.              *)
LEMMA KeptUnchanged ==
  ASSUME AllKept, UNCHANGED <<storage, removed, pushed>>
  PROVE  AllKept'
BY DEF AllKept

(* The look without mutexes comes to the second loop with no stack closed.  *)
LEMMA LookStep ==
  ASSUME BagIInv, Look
  PROVE  BagIInv'
<1>1. Gathering /\ AllKept /\ ~allClosed /\ Closing("look") /\ Current \in Mutators
  BY DEF BagIInv, PhaseInv, Stuck, Gathering, Confirming, Confirmed, Closed, Look, Closing,
         BagTypeInv, BagTypeOK, Current
<1>2. UNCHANGED <<allClosed, isClosed, storage, mutex, pusher, removed, pushed>>
  BY DEF Look
<1>3. PICK label \in {"look", "batch", "confirm"}, i \in Mutators :
        Goto(label, i) /\ (label = "confirm" => i = 0)
  BY <1>1, StacksAreNumbers DEF Look
<1>4. closer'.pc = label /\ closer'.i = i
  BY <1>3, GotoFacts
<1>5. BagTypeInv'
  <2>1. closer' \in [pc : {"look", "confirm", "succeed", "unlock", "release", "batch",
                           "take", "closed"}, i : Mutators] /\ PushersHold'
    BY <1>2, <1>3, MovesAreTyped DEF BagIInv
  <2> QED
    BY <1>2, <2>1 DEF BagIInv, BagTypeInv, BagTypeOK
<1>6. ClosedIsEmpty'
  BY <1>2 DEF BagIInv, ClosedIsEmpty
<1>7. AllKept' /\ ~allClosed'
  BY <1>1, <1>2, KeptUnchanged
<1>8. CASE label # "confirm"
  <2>1. Gathering'
    BY <1>1, <1>2, <1>4, <1>8 DEF Gathering, Closing
  <2> QED
    BY <1>4, <1>5, <1>6, <1>7, <2>1 DEF BagIInv, PhaseInv
<1>9. CASE label = "confirm"
  <2>1. Confirming'
    BY <1>1, <1>2, <1>3, <1>4, <1>9, StacksAreNumbers DEF Gathering, Confirming, Closing, Current
  <2> QED
    BY <1>4, <1>5, <1>6, <1>7, <1>9, <2>1 DEF BagIInv, PhaseInv
<1> QED
  BY <1>8, <1>9

(* The second loop: the stacks before the current one are closed and held.  *)
LEMMA ConfirmStep ==
  ASSUME BagIInv, Confirm
  PROVE  BagIInv'
<1>1. /\ Confirming /\ AllKept /\ ~allClosed /\ Current \in Mutators
      /\ mutex[Current] = Nil /\ Lock(Current, Collector)
  BY DEF BagIInv, PhaseInv, Stuck, Gathering, Confirming, Confirmed, Closed, Confirm, Closing,
         BagTypeInv, BagTypeOK, Current, Lock
<1>2. /\ UNCHANGED <<allClosed, storage, pusher, removed, pushed>>
      /\ mutex' = [mutex EXCEPT ![Current] = Collector]
      /\ mutex \in [Mutators -> Mutators \union {Collector, Nil}]
      /\ isClosed \in [Mutators -> BOOLEAN]
  BY DEF Confirm, Lock, BagIInv, BagTypeInv, BagTypeOK
<1>3. \A i \in Mutators : mutex'[i] = IF i = Current THEN Collector ELSE mutex[i]
  BY <1>2
<1>4. AllKept' /\ ~allClosed'
  BY <1>1, <1>2, KeptUnchanged
<1>5. CASE ~StillEmpty(Current)
  <2>1. Goto("release", 0) /\ isClosed' = isClosed
    BY <1>5 DEF Confirm
  <2>2. closer'.pc = "release" /\ closer'.i = 0
    BY <2>1, GotoFacts
  <2>3. BagTypeInv'
    BY <1>1, <1>2, <2>1, MovesAreTyped, StacksAreNumbers DEF BagIInv, BagTypeInv, BagTypeOK
  <2>4. ClosedIsEmpty'
    BY <1>2, <2>1 DEF BagIInv, ClosedIsEmpty
  <2>5. PICK s \in Mutators : s = Current
    BY <1>1
  <2>6. StuckAt(s)'
    <3>1. s \in Nat /\ storage[s] # <<>> /\ ~isClosed[s] /\ mutex'[s] = Collector
      BY <1>1, <1>3, <1>5, <2>5, StacksAreNumbers DEF Confirming, StillEmpty
    <3>2. \A i \in Mutators : i < s => isClosed[i] /\ mutex'[i] = Collector
      BY <1>1, <1>3, <2>5, StacksAreNumbers DEF Confirming
    <3> QED
      BY <1>2, <2>1, <2>2, <3>1, <3>2 DEF StuckAt, Current
  <2> QED
    BY <1>4, <2>2, <2>3, <2>4, <2>6 DEF BagIInv, PhaseInv, Stuck
<1>6. CASE StillEmpty(Current)
  <2>1. /\ isClosed' = [isClosed EXCEPT ![Current] = TRUE]
        /\ \/ Current + 1 < NumStacks /\ Goto("confirm", Current + 1)
           \/ ~(Current + 1 < NumStacks) /\ Goto("succeed", 0)
    BY <1>6 DEF Confirm
  <2>2. \A i \in Mutators : isClosed'[i] <=> i <= Current
    BY <1>1, <1>2, <2>1, StacksAreNumbers DEF Confirming
  <2>3. \A i \in Mutators : i <= Current => mutex'[i] = Collector
    BY <1>1, <1>3, StacksAreNumbers DEF Confirming
  <2>4. ClosedIsEmpty'
    BY <1>1, <1>2, <1>6, <2>1 DEF BagIInv, ClosedIsEmpty, StillEmpty
  <2>5. isClosed' \in [Mutators -> BOOLEAN]
    BY <1>2, <2>1
  <2>6. CASE Current + 1 < NumStacks /\ Goto("confirm", Current + 1)
    <3>1. Current + 1 \in Mutators
      BY <1>1, <2>6, StacksAreNumbers
    <3>2. BagTypeInv'
      BY <1>1, <1>2, <2>5, <2>6, <3>1, MovesAreTyped DEF BagIInv, BagTypeInv, BagTypeOK
    <3>3. closer'.pc = "confirm" /\ Current' = Current + 1
      BY <2>6, GotoFacts DEF Current
    <3>4. Confirming'
      BY <1>1, <2>2, <2>3, <3>3, StacksAreNumbers DEF Confirming, Closing
    <3> QED
      BY <1>4, <2>4, <3>2, <3>3, <3>4 DEF BagIInv, PhaseInv
  <2>7. CASE ~(Current + 1 < NumStacks) /\ Goto("succeed", 0)
    <3>1. BagTypeInv'
      BY <1>1, <1>2, <2>5, <2>7, MovesAreTyped, StacksAreNumbers DEF BagIInv, BagTypeInv, BagTypeOK
    <3>2. closer'.pc = "succeed"
      BY <2>7, GotoFacts
    <3>3. Confirmed'
      BY <1>1, <2>2, <2>3, <2>7, <3>2, StacksAreNumbers DEF Confirmed, Closing
    <3> QED
      BY <1>4, <2>4, <3>1, <3>2, <3>3 DEF BagIInv, PhaseInv
  <2> QED
    BY <2>1, <2>6, <2>7
<1> QED
  BY <1>5, <1>6

(* The bag is closed when all stacks are, and all are held.                 *)
LEMMA SucceedStep ==
  ASSUME BagIInv, Succeed
  PROVE  BagIInv'
<1>1. Confirmed /\ AllKept
  BY DEF BagIInv, PhaseInv, Stuck, Gathering, Confirming, Confirmed, Closed, Succeed, Closing
<1>2. /\ UNCHANGED <<isClosed, storage, mutex, pusher, removed, pushed>>
      /\ allClosed' = TRUE /\ Goto("unlock", 0) /\ closer'.pc = "unlock"
  BY GotoFacts DEF Succeed
<1>3. BagTypeInv'
  BY <1>2, MovesAreTyped, StacksAreNumbers DEF BagIInv, BagTypeInv, BagTypeOK
<1>4. ClosedIsEmpty' /\ AllKept'
  BY <1>1, <1>2, KeptUnchanged DEF BagIInv, ClosedIsEmpty
<1>5. Closed'
  BY <1>1, <1>2 DEF Confirmed, Closed
<1> QED
  BY <1>2, <1>3, <1>4, <1>5 DEF BagIInv, PhaseInv

(* After the close the mutexes are given back.                              *)
LEMMA UnlockAllStep ==
  ASSUME BagIInv, UnlockAll
  PROVE  BagIInv'
<1>1. /\ Closed /\ AllKept /\ allClosed /\ Closing("unlock") /\ Current \in Mutators
      /\ Unlock(Current) /\ mutex[Current] = Collector
  <2>1. Closed /\ AllKept /\ allClosed /\ Closing("unlock")
    BY DEF BagIInv, PhaseInv, Stuck, Gathering, Confirming, Confirmed, Closed, UnlockAll, Closing
  <2>2. Current \in Mutators
    BY DEF BagIInv, BagTypeInv, BagTypeOK, Current
  <2> QED
    BY <2>1, <2>2, StacksAreNumbers DEF UnlockAll, Closed
<1>2. /\ UNCHANGED <<allClosed, isClosed, storage, pusher, removed, pushed>>
      /\ mutex' = [mutex EXCEPT ![Current] = Nil]
      /\ mutex \in [Mutators -> Mutators \union {Collector, Nil}]
  BY DEF UnlockAll, Unlock, BagIInv, BagTypeInv, BagTypeOK
<1>3. ClosedIsEmpty' /\ AllKept'
  BY <1>1, <1>2, KeptUnchanged DEF BagIInv, ClosedIsEmpty
<1>4. CASE Current + 1 < NumStacks
  <2>1. Goto("unlock", Current + 1) /\ Current + 1 \in Mutators
    BY <1>1, <1>4, StacksAreNumbers DEF UnlockAll
  <2>2. closer'.pc = "unlock" /\ Current' = Current + 1
    BY <2>1, GotoFacts DEF Current
  <2>3. BagTypeInv'
    BY <1>1, <1>2, <2>1, MovesAreTyped DEF BagIInv, BagTypeInv, BagTypeOK
  <2>4. \A i \in Mutators : Current + 1 <= i => mutex'[i] = Collector
    BY <1>1, <1>2, StacksAreNumbers DEF Closed
  <2>5. Closed'
    BY <1>1, <1>2, <2>2, <2>4 DEF Closed
  <2> QED
    BY <1>1, <1>2, <1>3, <2>2, <2>3, <2>5 DEF BagIInv, PhaseInv
<1>5. CASE ~(Current + 1 < NumStacks)
  <2>1. Goto("closed", 0) /\ closer'.pc = "closed"
    BY <1>5, GotoFacts DEF UnlockAll
  <2>2. BagTypeInv'
    BY <1>1, <1>2, <2>1, MovesAreTyped, StacksAreNumbers DEF BagIInv, BagTypeInv, BagTypeOK
  <2>3. Closed'
    BY <1>1, <1>2, <2>1 DEF Closed, Closing
  <2> QED
    BY <1>1, <1>2, <1>3, <2>1, <2>2, <2>3 DEF BagIInv, PhaseInv
<1> QED
  BY <1>4, <1>5

(* The loop stops at the first stack that is not closed.                    *)
LEMMA StoppedAtIs ==
  ASSUME NEW s \in Mutators, ~isClosed[s], \A i \in Mutators : i < s => isClosed[i]
  PROVE  StoppedAt = s
<1> DEFINE Stops(i) == ~isClosed[i] /\ \A j \in 0 .. i - 1 : isClosed[j]
<1>1. \A i \in Mutators : \A j \in 0 .. i - 1 : j \in Mutators /\ j < i
  BY StacksAssumption DEF Mutators
<1>2. Stops(s)
  BY <1>1
<1>3. ASSUME NEW i \in Mutators, Stops(i) PROVE i = s
  <2>1. i \in Nat /\ s \in Nat
    BY StacksAreNumbers
  <2>2. ~(i < s)
    BY <1>3
  <2>3. ~(s < i)
    <3>1. s < i => s \in 0 .. i - 1
      BY <2>1
    <3> QED
      BY <1>3, <3>1
  <2> QED
    BY <2>1, <2>2, <2>3
<1>4. StoppedAt = CHOOSE i \in Mutators : Stops(i)
  BY DEF StoppedAt
<1> HIDE DEF Stops
<1> QED
  BY <1>2, <1>3, <1>4

(* After a failure all but the last mutex are given back.                   *)
LEMMA ReleaseStep ==
  ASSUME BagIInv, Release
  PROVE  BagIInv'
<1>1. /\ Stuck /\ ~allClosed /\ Closing("release") /\ Current \in Mutators
      /\ UNCHANGED <<allClosed, isClosed, storage, pusher, removed, pushed>>
      /\ mutex \in [Mutators -> Mutators \union {Collector, Nil}]
  BY DEF BagIInv, PhaseInv, Stuck, Gathering, Confirming, Confirmed, Closed, Release, Closing,
         BagTypeInv, BagTypeOK, Current
<1>2. PICK s \in Mutators : StuckAt(s)
  BY <1>1 DEF Stuck
<1>3. StoppedAt = s
  BY <1>2, StoppedAtIs DEF StuckAt
<1>4. ClosedIsEmpty'
  BY <1>1 DEF BagIInv, ClosedIsEmpty
<1>5. CASE Current < s
  <2>1. Unlock(Current) /\ Goto("release", Current + 1)
    BY <1>3, <1>5 DEF Release
  <2>2. mutex[Current] = Collector /\ Current + 1 \in Mutators
    BY <1>1, <1>2, <1>5, StacksAreNumbers DEF StuckAt
  <2>3. closer'.pc = "release" /\ Current' = Current + 1
    BY <2>1, GotoFacts DEF Current
  <2>4. BagTypeInv'
    BY <1>1, <2>1, <2>2, MovesAreTyped DEF BagIInv, BagTypeInv, BagTypeOK
  <2>5. \A i \in Mutators : Current < i => mutex'[i] = mutex[i]
    BY <1>1, <2>1, StacksAreNumbers DEF Unlock
  <2>6. \A i \in Mutators : Current + 1 <= i => Current < i /\ Current <= i
    BY <1>1, StacksAreNumbers
  <2>7. Current + 1 <= s
    BY <1>1, <1>5, StacksAreNumbers
  <2>8. StuckAt(s)'
    BY <1>1, <1>2, <1>5, <2>3, <2>5, <2>6, <2>7 DEF StuckAt
  <2> QED
    BY <1>1, <1>4, <2>3, <2>4, <2>8 DEF BagIInv, PhaseInv, Stuck
<1>6. CASE ~(Current < s)
  <2>1. Goto("batch", 0) /\ mutex' = mutex
    BY <1>3, <1>6 DEF Release
  <2>2. closer'.pc = "batch" /\ Current' = 0
    BY <2>1, GotoFacts DEF Current
  <2>3. BagTypeInv'
    BY <1>1, <2>1, MovesAreTyped, StacksAreNumbers DEF BagIInv, BagTypeInv, BagTypeOK
  <2>4. StuckAt(s)'
    BY <1>1, <1>2, <2>1, <2>2, StacksAreNumbers DEF StuckAt, Closing
  <2> QED
    BY <1>1, <1>4, <2>2, <2>3, <2>4 DEF BagIInv, PhaseInv, Stuck
<1> QED
  BY <1>5, <1>6

(* The collector goes on to the next stack, or looks again.                 *)
LEMMA NextStackFacts ==
  ASSUME Current \in Mutators, NextStack
  PROVE  \E label \in {"batch", "look"}, i \in Mutators :
           /\ Goto(label, i) /\ closer'.pc = label /\ Current' = i
           /\ Current + 1 < NumStacks => label = "batch" /\ i = Current + 1
<1>1. CASE Current + 1 < NumStacks
  BY <1>1, StacksAreNumbers, GotoFacts DEF NextStack, Current
<1>2. CASE ~(Current + 1 < NumStacks)
  BY <1>2, StacksAreNumbers, GotoFacts DEF NextStack, Current
<1> QED
  BY <1>1, <1>2

(* The collector comes to a stack: it passes it, takes it or is stuck.      *)
LEMMA BatchStep ==
  ASSUME BagIInv, Batch
  PROVE  BagIInv'
<1>1. /\ (Gathering /\ AllKept) \/ Stuck
      /\ ~allClosed /\ Closing("batch") /\ Current \in Mutators
      /\ UNCHANGED <<allClosed, isClosed, storage, pusher, removed, pushed>>
      /\ mutex \in [Mutators -> Mutators \union {Collector, Nil}]
  BY DEF BagIInv, PhaseInv, Gathering, Confirming, Confirmed, Closed, Batch, Closing,
         BagTypeInv, BagTypeOK, Current
<1>2. ClosedIsEmpty' /\ (AllKept => AllKept')
  BY <1>1, KeptUnchanged DEF BagIInv, ClosedIsEmpty
<1>3. CASE storage[Current] = <<>> /\ NextStack /\ mutex' = mutex
  <2>1. PICK label \in {"batch", "look"}, i \in Mutators :
          /\ Goto(label, i) /\ closer'.pc = label /\ Current' = i
          /\ Current + 1 < NumStacks => label = "batch" /\ i = Current + 1
    BY <1>1, <1>3, NextStackFacts
  <2>2. BagTypeInv'
    BY <1>1, <1>3, <2>1, MovesAreTyped DEF BagIInv, BagTypeInv, BagTypeOK
  <2>3. CASE Gathering /\ AllKept
    <3>1. Gathering'
      BY <1>1, <2>1, <2>3 DEF Gathering, Closing
    <3> QED
      BY <1>1, <1>2, <2>1, <2>2, <2>3, <3>1 DEF BagIInv, PhaseInv
  <2>4. CASE Stuck
    <3>1. PICK s \in Mutators : StuckAt(s)
      BY <2>4 DEF Stuck
    <3>2. Current + 1 <= s /\ Current + 1 < NumStacks
      BY <1>1, <1>3, <3>1, StacksAreNumbers DEF StuckAt
    <3>3. closer'.pc = "batch" /\ Current' <= s
      BY <2>1, <3>2
    <3>4. StuckAt(s)'
      BY <1>1, <1>3, <3>1, <3>3 DEF StuckAt, Closing
    <3> QED
      BY <1>1, <1>2, <2>2, <3>3, <3>4 DEF BagIInv, PhaseInv, Stuck
  <2> QED
    BY <1>1, <2>3, <2>4
<1>4. CASE storage[Current] # <<>> /\ Lock(Current, Collector) /\ Goto("take", Current)
  <2>1. closer'.pc = "take" /\ Current' = Current /\ mutex'[Current] = Collector
    BY <1>1, <1>4, GotoFacts DEF Current, Lock
  <2>2. ~Stuck
    <3>1. ASSUME NEW s \in Mutators, StuckAt(s)
          PROVE  FALSE
      <4>1. mutex[Current] = Nil /\ s # Current
        BY <1>4, <3>1, StacksAreNumbers DEF Lock, StuckAt
      <4>2. isClosed[Current]
        BY <1>1, <3>1, <4>1, StacksAreNumbers DEF StuckAt
      <4> QED
        BY <1>1, <1>4, <4>2 DEF BagIInv, ClosedIsEmpty
    <3> QED
      BY <3>1 DEF Stuck
  <2>3. BagTypeInv'
    BY <1>1, <1>4, MovesAreTyped DEF BagIInv, BagTypeInv, BagTypeOK
  <2>4. Gathering'
    BY <1>1, <1>4, <2>1, <2>2 DEF Gathering
  <2> QED
    BY <1>1, <1>2, <2>1, <2>2, <2>3, <2>4 DEF BagIInv, PhaseInv
<1> QED
  BY <1>3, <1>4 DEF Batch

(* What leaves a stack comes to the collector.                              *)
LEMMA TakeStep ==
  ASSUME BagIInv, Take
  PROVE  BagIInv'
<1>1. /\ Gathering /\ AllKept /\ ~allClosed /\ Closing("take")
      /\ UNCHANGED <<allClosed, isClosed, pusher, pushed>>
      /\ mutex \in [Mutators -> Mutators \union {Collector, Nil}]
      /\ storage \in [Mutators -> Seq(SUBSET Data)] /\ removed \subseteq Data
  BY DEF BagIInv, PhaseInv, Stuck, Gathering, Confirming, Confirmed, Closed, Take, Closing,
         BagTypeInv, BagTypeOK
<1>2. Current \in Mutators
  BY DEF BagIInv, BagTypeInv, BagTypeOK, Current
<1>3. /\ storage[Current] # <<>> /\ mutex[Current] = Collector /\ Unlock(Current)
      /\ removed' = removed \union Head(storage[Current])
      /\ storage' = [storage EXCEPT ![Current] = Unlinked(@)]
      /\ NextStack
  BY <1>1 DEF Take, Gathering
<1>4. PICK chunks \in Seq(SUBSET Data) : chunks = storage[Current]
  BY <1>1, <1>2
<1>5. /\ Unlinked(chunks) \in Seq(SUBSET Data) /\ Head(chunks) \subseteq Data
      /\ \A e \in Content(chunks) : e \in Head(chunks) \/ e \in Content(Unlinked(chunks))
  BY <1>3, <1>4, UnlinkedAndHead
<1>6. PICK label \in {"batch", "look"}, i \in Mutators :
        Goto(label, i) /\ closer'.pc = label /\ Current' = i
  BY <1>2, <1>3, NextStackFacts
<1>7. storage' \in [Mutators -> Seq(SUBSET Data)] /\ removed' \subseteq Data
  BY <1>1, <1>3, <1>4, <1>5
<1>8. BagTypeInv'
  BY <1>1, <1>3, <1>6, <1>7, MovesAreTyped DEF BagIInv, BagTypeInv, BagTypeOK
<1>9. Gathering' /\ ClosedIsEmpty'
  BY <1>1, <1>6 DEF Gathering, ClosedIsEmpty, Closing
<1>10. AllKept'
  <2>1. ASSUME NEW e \in pushed, e \notin removed'
        PROVE  \E j \in Mutators : e \in Content(storage'[j])
    <3>1. e \notin removed /\ e \notin Head(chunks)
      BY <1>3, <1>4, <2>1
    <3>2. PICK j \in Mutators : e \in Content(storage[j])
      BY <1>1, <3>1 DEF AllKept
    <3>3. CASE j = Current
      <4>1. e \in Content(Unlinked(chunks)) /\ storage'[j] = Unlinked(chunks)
        BY <1>1, <1>2, <1>3, <1>4, <1>5, <3>1, <3>2, <3>3
      <4> QED
        BY <4>1
    <3>4. CASE j # Current
      BY <1>1, <1>3, <3>2, <3>4
    <3> QED
      BY <3>3, <3>4
  <2> QED
    BY <1>1, <2>1 DEF AllKept
<1> QED
  BY <1>1, <1>6, <1>8, <1>9, <1>10 DEF BagIInv, PhaseInv

-----------------------------------------------------------------------------
(* The steps of a push *)

(* A push keeps the phase: what the collector holds stays held, and nothing *)
(* leaves a stack.                                                          *)
LEMMA PhaseKept ==
  ASSUME PhaseInv, UNCHANGED <<closer, isClosed, allClosed>>, Current \in Mutators,
         \A i \in Mutators : mutex[i] = Collector => mutex'[i] = Collector,
         \A i \in Mutators : storage[i] # <<>> => storage'[i] # <<>>,
         (Gathering \/ Confirming \/ Confirmed \/ Closed) /\ AllKept => AllKept'
  PROVE  PhaseInv'
<1>1. \A s \in Mutators : StuckAt(s) => StuckAt(s)'
  BY DEF StuckAt, Closing, Current
<1>2. Stuck => Stuck'
  BY <1>1 DEF Stuck
<1>3. Gathering => Gathering'
  BY DEF Gathering, Closing, Current
<1>4. Confirming => Confirming'
  BY DEF Confirming, Closing, Current
<1>5. Confirmed => Confirmed'
  BY DEF Confirmed, Closing
<1>6. Closed => Closed'
  BY DEF Closed, Closing, Current
<1> QED
  BY <1>2, <1>3, <1>4, <1>5, <1>6 DEF PhaseInv

(* A push that is dropped comes after the close, or while it is stuck.      *)
LEMMA PushStoreStep ==
  ASSUME BagIInv, NEW p \in Mutators, PushStore(p)
  PROVE  ClosedIsEmpty' /\ PhaseInv'
<1>1. /\ UNCHANGED <<closer, isClosed, allClosed, removed>>
      /\ mutex \in [Mutators -> Mutators \union {Collector, Nil}]
      /\ storage \in [Mutators -> Seq(SUBSET Data)]
      /\ mutex[p] = p /\ pusher[p].datum \in Data /\ Unlock(p)
      /\ pushed' = IF allClosed THEN pushed ELSE pushed \union {pusher[p].datum}
      /\ storage' = IF ~isClosed[p]
                    THEN [storage EXCEPT ![p] = StoreIn(@, pusher[p].datum)] ELSE storage
  BY DEF PushStore, Return, Accepts, BagIInv, BagTypeInv, BagTypeOK, PushersHold
<1>2. Current \in Mutators
  BY DEF BagIInv, BagTypeInv, BagTypeOK, Current
<1>3. PICK d \in Data : d = pusher[p].datum
  BY <1>1
<1>4. /\ StoreIn(storage[p], d) # <<>> /\ d \in Content(StoreIn(storage[p], d))
      /\ Content(storage[p]) \subseteq Content(StoreIn(storage[p], d))
  BY <1>1, StoreInKeeps
<1>5. \A i \in Mutators : mutex[i] = Collector => mutex'[i] = Collector
  BY <1>1, StacksAreNumbers DEF Unlock
<1>6. /\ \A i \in Mutators : storage[i] # <<>> => storage'[i] # <<>>
      /\ \A i \in Mutators : Content(storage[i]) \subseteq Content(storage'[i])
      /\ \A i \in Mutators : isClosed[i] => storage'[i] = storage[i]
      /\ ~isClosed[p] => d \in Content(storage'[p])
  BY <1>1, <1>3, <1>4
<1>7. ASSUME (Gathering \/ Confirming \/ Confirmed \/ Closed) /\ AllKept
      PROVE  AllKept'
  <2>1. ~isClosed[p] \/ allClosed
    BY <1>1, <1>7, StacksAreNumbers
       DEF Gathering, Confirming, Confirmed, Closed, BagIInv, PhaseInv
  <2> QED
    BY <1>1, <1>3, <1>6, <1>7, <2>1 DEF AllKept
<1>8. ClosedIsEmpty'
  BY <1>1, <1>6 DEF BagIInv, ClosedIsEmpty
<1> QED
  BY <1>1, <1>2, <1>5, <1>6, <1>7, <1>8, PhaseKept DEF BagIInv

(* The four steps of a push.                                                *)
LEMMA PushStep ==
  ASSUME BagIInv, NEW p \in Mutators,
         (\E d \in Data : Call(p, d)) \/ PushLook(p) \/ PushLock(p) \/ PushStore(p)
  PROVE  BagIInv'
<1>1. BagTypeInv'
  BY PushTypes DEF BagIInv
<1>2. Current \in Mutators
  BY DEF BagIInv, BagTypeInv, BagTypeOK, Current
<1>3. CASE (\E d \in Data : Call(p, d)) \/ PushLook(p) \/ PushLock(p)
  <2>1. /\ UNCHANGED <<closer, isClosed, allClosed, removed, storage, pushed>>
        /\ mutex' = mutex \/ Lock(p, p)
    BY <1>3 DEF Call, PushLook, PushLock, Return
  <2>2. \A i \in Mutators : mutex[i] = Collector => mutex'[i] = Collector
    <3>1. mutex \in [Mutators -> Mutators \union {Collector, Nil}]
      BY DEF BagIInv, BagTypeInv, BagTypeOK
    <3> QED
      BY <2>1, <3>1, StacksAreNumbers DEF Lock
  <2>3. ClosedIsEmpty' /\ (AllKept => AllKept')
    BY <2>1, KeptUnchanged DEF BagIInv, ClosedIsEmpty
  <2> QED
    BY <1>1, <1>2, <2>1, <2>2, <2>3, PhaseKept DEF BagIInv
<1>4. CASE PushStore(p)
  BY <1>1, <1>4, PushStoreStep DEF BagIInv
<1> QED
  BY <1>3, <1>4

-----------------------------------------------------------------------------
(* The results *)

(* The invariant initially.                                                 *)
LEMMA BagInvariantInitial == BagInit => BagIInv
<1> SUFFICES ASSUME BagInit PROVE BagIInv
  OBVIOUS
<1>1. /\ closer.pc = "look" /\ ~allClosed /\ pushed = {}
      /\ \A i \in Mutators : ~isClosed[i]
  BY DEF BagInit
<1>2. Gathering /\ AllKept /\ ClosedIsEmpty
  BY <1>1 DEF Gathering, AllKept, ClosedIsEmpty, Closing
<1> QED
  BY <1>1, <1>2, TypesInitial DEF BagIInv, PhaseInv

(* The invariant is kept.                                                   *)
LEMMA BagInvariantStep ==
  ASSUME BagIInv, [BagNext]_bagVars
  PROVE  BagIInv'
<1>1. CASE TryClose
  BY <1>1, LookStep, ConfirmStep, SucceedStep, UnlockAllStep, ReleaseStep, BatchStep, TakeStep
     DEF TryClose
<1>2. CASE \E p \in Mutators :
             \/ \E d \in Data : Call(p, d)
             \/ PushLook(p) \/ PushLock(p) \/ PushStore(p)
  BY <1>2, PushStep
<1>3. CASE UNCHANGED bagVars
  BY <1>3 DEF bagVars, BagIInv, BagTypeInv, BagTypeOK, PushersHold, ClosedIsEmpty, PhaseInv, Stuck,
     StuckAt, Gathering, Confirming, Confirmed, Closed, AllKept, Closing, Current
<1> QED
  BY <1>1, <1>2, <1>3 DEF BagNext

(* The invariant holds in every state of the bag.                           *)
THEOREM BagInvariant == BagSpec => []BagIInv
<1> QED
  BY BagInvariantInitial, BagInvariantStep, PTL DEF BagSpec

(* Every variable of the bag keeps its type: the stacks are sequences of    *)
(* chunks of data, and a mutex has one owner or none.                       *)
THEOREM BagTypesKept == BagSpec => []BagTypeOK
<1>1. BagIInv => BagTypeOK
  BY DEF BagIInv, BagTypeInv
<1> QED
  BY <1>1, BagInvariant, PTL

(* When CC_stack_try_close has closed the bag, the collector has every      *)
(* pointer whose CC_stack_push ended before, whatever they raced with.      *)
THEOREM NothingLostHolds == BagSpec => []NothingLost
<1>1. ASSUME BagIInv, allClosed PROVE pushed \subseteq removed
  <2>1. Closed /\ AllKept
    BY <1>1 DEF BagIInv, PhaseInv, Stuck, Gathering, Confirming, Confirmed, Closed, Closing
  <2>2. \A i \in Mutators : Content(storage[i]) = {}
    BY <1>1, <2>1, EmptyHasNothing DEF BagIInv, ClosedIsEmpty, Closed
  <2> QED
    BY <2>1, <2>2 DEF AllKept
<1>2. BagIInv => NothingLost
  BY <1>1 DEF NothingLost
<1> QED
  BY <1>2, BagInvariant, PTL

-----------------------------------------------------------------------------

(***************************************************************************)
(* The remembered sets of RemSet.tla, for any number of storers and        *)
(* entries, chunks of any size and any number of operations of the owner.  *)
(*                                                                         *)
(* A list of chunks may be moved at any time while somebody fills a slot   *)
(* of one of them.  So it is followed where each chunk is (ListsInv), that *)
(* the chunk a storer works on stays with its heap unless the heap was     *)
(* merged (StorersInv), and that a slot belongs to one claimant until it   *)
(* is filled (SlotsInv).  What a pass has still to come to is said by the  *)
(* places of the entries in the list it goes through (Ahead).              *)
(***************************************************************************)

(* The state *)

Slots == 1 .. EntriesPerChunk

StorerStates ==
  [pc : StorerPC, entry : Entries \union {None}, heap : Heaps, chunk : Chunks \union {None},
   at : 0 .. EntriesPerChunk, fresh : Chunks \union {None}]

OwnerStates ==
  [pc : OwnerPC, heap : Heaps, taken : Seq(Chunks), cur : Chunks \union {None},
   pos : 0 .. EntriesPerChunk, front : 0 .. EntriesPerChunk,
   fishy : Seq([chunk : Chunks, scanned : 0 .. EntriesPerChunk]), i : Nat,
   changed : BOOLEAN, tracked : BOOLEAN]

Types ==
  /\ pub \in [Heaps -> Seq(Chunks)] /\ priv \in [Heaps -> Seq(Chunks)]
  /\ linked \in BOOLEAN
  /\ frontier \in [Chunks -> 0 .. EntriesPerChunk]
  /\ slot \in [Chunks -> [Slots -> Entries \union {None}]]
  /\ retire \in [Chunks -> BOOLEAN] /\ free \subseteq Chunks
  /\ st \in [Storers -> StorerStates] /\ ow \in OwnerStates
  /\ passes \in 0 .. MaxPasses
  /\ returned \subseteq Entries /\ visited \subseteq Entries /\ due \subseteq Entries
  /\ quiet \in BOOLEAN

(* What the types rest on: where the storer and the owner are.              *)
PointersInv ==
  /\ \A s \in Storers :
       /\ st[s].pc # "idle" => st[s].entry \in Entries
       /\ st[s].pc \in {"frontier", "claim", "copy", "recheck"} => st[s].chunk \in Chunks
       /\ st[s].pc \in {"claim", "copy", "recheck"} => st[s].at < EntriesPerChunk
       /\ st[s].pc = "publish" <=> st[s].fresh # None
  /\ ow.pc \in {"enter", "scan", "next"} => ow.cur \in Members(pub[ow.heap])
  /\ ow.pc \in {"sweep", "fish"} => ow.i <= Len(ow.fishy)
  /\ ow.pc = "fish" => ow.i > 0

(* Where a chunk is: in the lists of a heap, or taken from one of them to   *)
(* be given to another of that heap, or to the parent.                      *)
TakenFor(h) == (ow.pc = "plain" /\ ow.heap = h) \/ (ow.pc = "give" /\ h = Parent)
Holding(h) == Kept(h) \union (IF TakenFor(h) THEN InHand ELSE {})
Used == Kept(Parent) \union Kept(Child) \union InHand

Distinct(s) == \A i, j \in 1 .. Len(s) : s[i] = s[j] => i = j

(* No chunk is in two places.                                               *)
ListsInv ==
  /\ \A h \in Heaps : Distinct(pub[h]) /\ Distinct(priv[h])
  /\ Distinct(ow.taken)
  /\ \A h, g \in Heaps : Members(pub[h]) \intersect Members(priv[g]) = {}
  /\ Members(pub[Parent]) \intersect Members(pub[Child]) = {}
  /\ Members(priv[Parent]) \intersect Members(priv[Child]) = {}
  /\ \A h \in Heaps : Kept(h) \intersect InHand = {}
  /\ Used \intersect free = {}
  /\ \A s \in Storers : st[s].fresh \notin Used \union free
  /\ \A s, t \in Storers : st[s].fresh = st[t].fresh /\ st[s].fresh # None => s = t

OwnerInv ==
  /\ ow.taken # <<>> => ow.pc \in {"plain", "give"}
  /\ ow.pc \in {"take", "give"} => linked
  /\ ow.pc \in {"pop", "plain"} /\ linked => ow.heap = Parent
  /\ ow.pc \in {"idle", "take", "give"} => due = {}

(* A slot before the frontier is filled, or its one claimant will fill it.  *)
Claims(s, c, k) == st[s].pc = "copy" /\ st[s].chunk = c /\ st[s].at + 1 = k

SlotsInv ==
  /\ \A c \in Chunks, k \in Slots :
       /\ slot[c][k] # None => k <= frontier[c]
       /\ k <= frontier[c] /\ slot[c][k] = None => \E s \in Storers : Claims(s, c, k)
  /\ \A s \in Storers :
       /\ st[s].pc = "copy" =>
            st[s].at < frontier[st[s].chunk] /\ slot[st[s].chunk][st[s].at + 1] = None
       /\ st[s].pc = "recheck" => slot[st[s].chunk][st[s].at + 1] = st[s].entry
  /\ \A s, t \in Storers, c \in Chunks, k \in Slots : Claims(s, c, k) /\ Claims(t, c, k) => s = t

(* The chunk a storer works on stays with the heap that it takes the object *)
(* to be in, unless that heap was merged, which it notices at the end.      *)
StorersInv ==
  \A s \in Storers :
    st[s].pc \in {"frontier", "claim", "copy", "recheck"} =>
      /\ st[s].chunk \in Used
      /\ ~(linked /\ st[s].heap = Child) => st[s].chunk \in Holding(st[s].heap)

(* What was remembered is in the heap that stands for the object.           *)
Home == Holding(Parent) \union (IF linked /\ ow.pc # "take" THEN {} ELSE Holding(Child))
KeptInv == \A e \in returned : \E c \in Home : e \in EntriesOf(c)

(* An entry that the pass will come to: it is in a chunk that the pass has  *)
(* not left, and no empty slot is before it.                                *)
Reaches(c, k) ==
  \/ ow.pc = "pop" /\ c \in Members(pub[ow.heap])
  \/ ow.pc = "plain" /\ c \in Members(ow.taken)
  \/ /\ ow.pc \in {"enter", "scan", "next"}
     /\ \E i, j \in 1 .. Len(pub[ow.heap]) :
          /\ pub[ow.heap][i] = ow.cur /\ pub[ow.heap][j] = c
          /\ \/ i < j
             \/ i = j /\ ow.pc = "enter"
             \/ i = j /\ ow.pc = "scan" /\ ow.pos < k /\ k <= ow.front

Ahead(e) ==
  \E c \in Chunks, k \in Slots :
    slot[c][k] = e /\ (\A j \in 1 .. k : slot[c][j] # None) /\ Reaches(c, k)

PassInv == quiet /\ ow.pc # "crashed" => \A e \in due : e \in visited \/ Ahead(e)

RemSetTypeInv == Types /\ PointersInv
RemSetIInv == RemSetTypeInv /\ ListsInv /\ OwnerInv /\ SlotsInv /\ StorersInv /\ KeptInv /\ PassInv

-----------------------------------------------------------------------------
(* Lists of chunks *)

(* A member is at some place.                                               *)
LEMMA MemberFacts ==
  ASSUME NEW s, NEW c
  PROVE  c \in Members(s) <=> \E i \in 1 .. Len(s) : s[i] = c
BY DEF Members

(* The members of a list are chunks, and 0 is none.                         *)
LEMMA MembersAreChunks ==
  ASSUME NEW s \in Seq(Chunks)
  PROVE  Members(s) \subseteq Chunks /\ None \notin Members(s)
BY RemSetAssumption DEF Members, Chunks, None

(* A list that was appended to another.                                     *)
LEMMA ConcatFacts ==
  ASSUME NEW s \in Seq(Chunks), NEW t \in Seq(Chunks)
  PROVE  /\ s \o t \in Seq(Chunks)
         /\ Members(s \o t) = Members(s) \union Members(t)
         /\ Distinct(s) /\ Distinct(t) /\ Members(s) \intersect Members(t) = {} =>
              Distinct(s \o t)
<1> DEFINE new == s \o t
<1>1. /\ Len(s) \in Nat /\ Len(t) \in Nat
      /\ new \in Seq(Chunks) /\ Len(new) = Len(s) + Len(t)
      /\ \A i \in 1 .. Len(new) : new[i] = IF i <= Len(s) THEN s[i] ELSE t[i - Len(s)]
  OBVIOUS
<1> HIDE DEF new
<1>2. \A i \in 1 .. Len(new) :
        \/ i \in 1 .. Len(s) /\ new[i] = s[i] /\ s[i] \in Members(s)
        \/ i > Len(s) /\ i - Len(s) \in 1 .. Len(t) /\ new[i] = t[i - Len(s)]
             /\ t[i - Len(s)] \in Members(t)
  BY <1>1 DEF Members
<1>3. ASSUME NEW c \in Members(new) PROVE c \in Members(s) \union Members(t)
  BY <1>2, <1>3 DEF Members
<1>4. ASSUME NEW c \in Members(s) PROVE c \in Members(new)
  BY <1>1, <1>4 DEF Members
<1>5. ASSUME NEW c \in Members(t) PROVE c \in Members(new)
  <2>1. PICK j \in 1 .. Len(t) : t[j] = c
    BY <1>5 DEF Members
  <2> DEFINE k == j + Len(s)
  <2>2. k \in 1 .. Len(new) /\ ~(k <= Len(s)) /\ k - Len(s) = j
    BY <1>1, <2>1
  <2>3. k \in 1 .. Len(new) /\ new[k] = c
    BY <1>1, <2>1, <2>2
  <2> QED
    BY <2>3 DEF Members
<1>6. ASSUME Distinct(s), Distinct(t), Members(s) \intersect Members(t) = {}
      PROVE  Distinct(new)
  <2>1. ASSUME NEW i \in 1 .. Len(new), NEW j \in 1 .. Len(new), new[i] = new[j]
        PROVE  i = j
    <3>1. CASE i \in 1 .. Len(s) /\ j \in 1 .. Len(s)
      BY SMTT(30), <1>1, <1>6, <2>1, <3>1 DEF Distinct
    <3>2. CASE i \notin 1 .. Len(s) /\ j \notin 1 .. Len(s)
      <4>1. /\ i - Len(s) \in 1 .. Len(t) /\ j - Len(s) \in 1 .. Len(t)
            /\ t[i - Len(s)] = t[j - Len(s)]
        BY <1>2, <2>1, <3>2
      <4>2. i - Len(s) = j - Len(s)
        BY <1>6, <4>1 DEF Distinct
      <4> QED
        BY <1>1, <4>2
    <3>3. CASE (i \in 1 .. Len(s)) # (j \in 1 .. Len(s))
      BY SMTT(30), <1>1, <1>2, <1>6, <2>1, <3>3
    <3> QED
      BY <3>1, <3>2, <3>3
  <2> QED
    BY <2>1 DEF Distinct
<1> QED
  BY <1>1, <1>3, <1>4, <1>5, <1>6 DEF new

(* A chunk that was appended to a list.                                     *)
LEMMA AppendFacts ==
  ASSUME NEW s \in Seq(Chunks), NEW c \in Chunks
  PROVE  /\ Append(s, c) \in Seq(Chunks)
         /\ Members(Append(s, c)) = Members(s) \union {c}
         /\ Len(Append(s, c)) = Len(s) + 1 /\ Len(s) \in Nat
         /\ \A i \in 1 .. Len(s) : Append(s, c)[i] = s[i]
         /\ Distinct(s) /\ c \notin Members(s) => Distinct(Append(s, c))
<1> DEFINE new == Append(s, c)
<1>1. /\ Len(s) \in Nat /\ new \in Seq(Chunks) /\ Len(new) = Len(s) + 1
      /\ new[Len(s) + 1] = c /\ \A i \in 1 .. Len(s) : new[i] = s[i]
  OBVIOUS
<1> HIDE DEF new
<1>2. \A i \in 1 .. Len(new) :
        \/ i \in 1 .. Len(s) /\ new[i] = s[i] /\ s[i] \in Members(s)
        \/ i = Len(s) + 1 /\ new[i] = c
  BY <1>1 DEF Members
<1>3. Members(new) = Members(s) \union {c}
  <2>1. ASSUME NEW d \in Members(new) PROVE d \in Members(s) \union {c}
    BY <1>2, <2>1 DEF Members
  <2>2. ASSUME NEW d \in Members(s) PROVE d \in Members(new)
    BY <1>1, <2>2 DEF Members
  <2>3. c \in Members(new)
    BY <1>1 DEF Members
  <2> QED
    BY <2>1, <2>2, <2>3
<1>4. ASSUME Distinct(s), c \notin Members(s) PROVE Distinct(new)
  BY <1>2, <1>4 DEF Distinct
<1> QED
  BY <1>1, <1>3, <1>4 DEF new

(* The empty list.                                                          *)
LEMMA EmptyFacts ==
  /\ <<>> \in Seq(Chunks) /\ Members(<<>>) = {} /\ Distinct(<<>>)
  /\ \A s \in Seq(Chunks) : s = <<>> <=> Members(s) = {}
<1>1. <<>> \in Seq(Chunks) /\ Members(<<>>) = {} /\ Distinct(<<>>)
  BY DEF Members, Distinct
<1>2. ASSUME NEW s \in Seq(Chunks), s # <<>> PROVE Members(s) # {}
  <2>1. 1 \in 1 .. Len(s)
    BY <1>2, EmptySeq
  <2> QED
    BY <2>1 DEF Members
<1> QED
  BY <1>1, <1>2

(* The first and the last chunk of a list.                                  *)
LEMMA EndsFacts ==
  ASSUME NEW s \in Seq(Chunks)
  PROVE  /\ FirstChunk(s) \in Chunks \union {None} /\ LastChunk(s) \in Chunks \union {None}
         /\ LastChunk(s) # None => LastChunk(s) \in Members(s)
         /\ s # <<>> => FirstChunk(s) = s[1] /\ 1 \in 1 .. Len(s)
<1>1. CASE s = <<>>
  BY <1>1 DEF FirstChunk, LastChunk
<1>2. CASE s # <<>>
  <2>1. 1 \in 1 .. Len(s) /\ Len(s) \in 1 .. Len(s)
    BY <1>2, EmptySeq
  <2>2. s[1] \in Chunks /\ s[Len(s)] \in Chunks /\ s[Len(s)] \in Members(s)
    BY <2>1 DEF Members
  <2> QED
    BY <1>2, <2>1, <2>2 DEF FirstChunk, LastChunk
<1> QED
  BY <1>1, <1>2

(* The successor of a chunk in a list.                                      *)
LEMMA NextFacts ==
  ASSUME NEW s \in Seq(Chunks), Distinct(s), NEW i \in 1 .. Len(s), NEW c, s[i] = c
  PROVE  NextChunk(s, c) = IF i = Len(s) THEN None ELSE s[i + 1]
<1>1. (CHOOSE j \in 1 .. Len(s) : s[j] = c) = i
  BY DEF Distinct
<1> QED
  BY <1>1 DEF NextChunk

(* The successor of any member is a member, or there is none.               *)
LEMMA NextIsMember ==
  ASSUME NEW s \in Seq(Chunks), Distinct(s), NEW c \in Members(s)
  PROVE  NextChunk(s, c) = None \/ NextChunk(s, c) \in Members(s)
<1>1. PICK i \in 1 .. Len(s) : s[i] = c
  BY DEF Members
<1>2. CASE i = Len(s)
  BY <1>1, <1>2, NextFacts
<1>3. CASE i # Len(s)
  <2>1. i + 1 \in 1 .. Len(s)
    BY <1>3
  <2>2. s[i + 1] \in Members(s)
    BY <2>1 DEF Members
  <2> QED
    BY <1>1, <1>3, <2>2, NextFacts
<1> QED
  BY <1>2, <1>3

-----------------------------------------------------------------------------
(* The types *)

(* Only s moves, and what it points to is of the right kind.                *)
Moves(s) ==
  /\ st' \in [Storers -> StorerStates]
  /\ \A t \in Storers : t # s => st'[t] = st[t]

(* The pointers of a storer.                                                *)
StorerPointers(x) ==
  /\ x.pc # "idle" => x.entry \in Entries
  /\ x.pc \in {"frontier", "claim", "copy", "recheck"} => x.chunk \in Chunks
  /\ x.pc \in {"claim", "copy", "recheck"} => x.at < EntriesPerChunk
  /\ x.pc = "publish" <=> x.fresh # None

(* Facts about the constants and the two idle states.                       *)
LEMMA ZeroIsTyped ==
  /\ 0 \in 0 .. EntriesPerChunk /\ EntriesPerChunk \in Nat /\ 0 \notin Chunks
  /\ Parent \in Heaps /\ Child \in Heaps /\ Parent # Child
  /\ \A h \in Heaps : Root(h) \in Heaps
  /\ IdleStorer \in StorerStates /\ IdleOwner \in OwnerStates
  /\ None = 0 /\ None \notin Entries
<1>1. 0 \in 0 .. EntriesPerChunk /\ EntriesPerChunk \in Nat /\ 0 \notin Chunks
  BY RemSetAssumption DEF Chunks
<1>2. Parent \in Heaps /\ Child \in Heaps /\ Parent # Child
  BY DEF Heaps, Parent, Child
<1>3. IdleStorer \in StorerStates
  BY <1>1, <1>2 DEF IdleStorer, StorerStates, StorerPC, None
<1>4. IdleOwner \in OwnerStates
  <2>1. <<>> \in Seq(Chunks) /\ <<>> \in Seq([chunk : Chunks, scanned : 0 .. EntriesPerChunk])
    OBVIOUS
  <2> QED
    BY <1>1, <1>2, <2>1 DEF IdleOwner, OwnerStates, OwnerPC, None
<1> QED
  BY <1>1, <1>2, <1>3, <1>4, RemSetAssumption DEF Root, None

(* A storer in a new state.                                                 *)
LEMMA NewState ==
  ASSUME Types, NEW s \in Storers, NEW u \in StorerStates, st' = [st EXCEPT ![s] = u]
  PROVE  Moves(s) /\ st'[s] = u
BY DEF Types, Moves

(* The fields that a step may change together.                              *)
LEMMA TwoFields ==
  ASSUME NEW x \in StorerStates, NEW label \in StorerPC, NEW c \in Chunks \union {None},
         NEW h \in Heaps, NEW f \in Chunks \union {None}
  PROVE  /\ [x EXCEPT !.chunk = c, !.pc = label] \in StorerStates
         /\ [x EXCEPT !.heap = h, !.pc = label] \in StorerStates
         /\ [x EXCEPT !.fresh = f, !.pc = label] \in StorerStates
BY DEF StorerStates

(* A storer whose control point changes.                                    *)
LEMMA GotoTyped ==
  ASSUME Types, NEW s \in Storers, NEW label \in StorerPC, StorerGoto(s, label)
  PROVE  /\ Moves(s) /\ st'[s].pc = label /\ st'[s].fresh = st[s].fresh
         /\ st'[s].entry = st[s].entry /\ st'[s].heap = st[s].heap
         /\ st'[s].chunk = st[s].chunk /\ st'[s].at = st[s].at
BY DEF Types, StorerGoto, Moves, StorerStates

(* A storer that gets a fresh chunk, or parts with it.                      *)
LEMMA FreshMoves ==
  ASSUME Types, NEW s \in Storers, NEW f \in Chunks \union {None}, NEW label \in StorerPC,
         st' = [st EXCEPT ![s] = [st[s] EXCEPT !.fresh = f, !.pc = label]]
  PROVE  Moves(s) /\ st'[s].entry = st[s].entry /\ st'[s].pc = label /\ st'[s].fresh = f
<1>1. PICK x \in StorerStates : x = st[s]
  BY DEF Types
<1> DEFINE u == [x EXCEPT !.fresh = f, !.pc = label]
<1>2. u \in StorerStates
  BY TwoFields, ZeroIsTyped
<1>3. u.entry = x.entry /\ u.pc = label /\ u.fresh = f
  BY DEF StorerStates
<1>4. st' = [st EXCEPT ![s] = u]
  BY <1>1
<1> HIDE DEF u
<1>5. Moves(s) /\ st'[s] = u
  BY <1>2, <1>4, NewState
<1> QED
  BY <1>1, <1>3, <1>5

(* What each step of a storer does to the storer itself.                    *)

(* Remember: the storer starts with the entry.                              *)
LEMMA RememberMoves ==
  ASSUME Types, NEW s \in Storers, NEW e \in Entries, NEW h \in Heaps, Remember(s, e, h)
  PROVE  Moves(s) /\ st'[s].pc = "load" /\ st'[s].entry = e /\ st'[s].fresh = None
<1> DEFINE u == [IdleStorer EXCEPT !.pc = "load", !.entry = e, !.heap = Root(h)]
<1>1. u \in StorerStates /\ u.pc = "load" /\ u.entry = e /\ u.fresh = None
  BY ZeroIsTyped DEF IdleStorer, StorerStates, StorerPC
<1>2. st' = [st EXCEPT ![s] = u]
  BY DEF Remember
<1> HIDE DEF u
<1> QED
  BY <1>1, <1>2 DEF Types, Moves

(* LoadLast: it has the last chunk, or is to allocate one.                  *)
LEMMA LoadLastMoves ==
  ASSUME Types, NEW s \in Storers, LoadLast(s)
  PROVE  /\ Moves(s) /\ st'[s].entry = st[s].entry /\ st'[s].fresh = st[s].fresh
         /\ st'[s].heap = st[s].heap /\ st[s].heap \in Heaps
         /\ st'[s].chunk = LastChunk(pub[st[s].heap])
         /\ st'[s].pc = IF st'[s].chunk = None THEN "allocate" ELSE "frontier"
<1>1. st[s].heap \in Heaps /\ pub[st[s].heap] \in Seq(Chunks)
  BY DEF Types, StorerStates
<1>2. PICK c \in Chunks \union {None} : c = LastChunk(pub[st[s].heap])
  BY <1>1, EndsFacts
<1>3. PICK label \in StorerPC : label = (IF c = None THEN "allocate" ELSE "frontier")
  BY DEF StorerPC
<1>4. PICK x \in StorerStates : x = st[s]
  BY DEF Types
<1> DEFINE u == [x EXCEPT !.chunk = c, !.pc = label]
<1>5. u \in StorerStates
  BY TwoFields, ZeroIsTyped
<1>6. /\ u.chunk = c /\ u.pc = label /\ u.entry = x.entry /\ u.fresh = x.fresh /\ u.heap = x.heap
  BY DEF StorerStates
<1>7. st' = [st EXCEPT ![s] = u]
  BY <1>2, <1>3, <1>4 DEF LoadLast
<1> HIDE DEF u
<1>8. Moves(s) /\ st'[s] = u
  BY <1>5, <1>7, NewState
<1> QED
  BY <1>1, <1>2, <1>3, <1>4, <1>6, <1>8

(* LoadFrontier: it has read a frontier; if the chunk is not full, it tries *)
(* to claim the slot there.                                                 *)
LEMMA LoadFrontierMoves ==
  ASSUME RemSetTypeInv, NEW s \in Storers, LoadFrontier(s)
  PROVE  /\ Moves(s) /\ st'[s].entry = st[s].entry /\ st'[s].fresh = st[s].fresh
         /\ st'[s].heap = st[s].heap /\ st'[s].chunk = st[s].chunk
         /\ st[s].chunk \in Chunks
         /\ st'[s].at = frontier[st[s].chunk] /\ st'[s].at \in 0 .. EntriesPerChunk
         /\ st'[s].pc = IF st'[s].at = EntriesPerChunk THEN "allocate" ELSE "claim"
<1>1. st[s].chunk \in Chunks
  BY DEF LoadFrontier, StorerAt, RemSetTypeInv, PointersInv
<1>2. PICK f \in 0 .. EntriesPerChunk : f = frontier[st[s].chunk]
  BY <1>1 DEF RemSetTypeInv, Types
<1>3. st' = [st EXCEPT ![s].at = f,
                       ![s].pc = IF f = EntriesPerChunk THEN "allocate" ELSE "claim"]
  BY <1>2 DEF LoadFrontier
<1> QED
  BY ZenonT(40), <1>1, <1>2, <1>3 DEF RemSetTypeInv, Types, Moves, StorerStates, StorerPC

(* Claim: the compare-and-swap decides between copying and starting over.   *)
LEMMA ClaimMoves ==
  ASSUME Types, NEW s \in Storers, Claim(s)
  PROVE  /\ Moves(s) /\ st'[s].fresh = st[s].fresh
         /\ st'[s].entry = st[s].entry /\ st'[s].heap = st[s].heap
         /\ st'[s].chunk = st[s].chunk /\ st'[s].at = st[s].at
         /\ st'[s].pc = IF frontier[st[s].chunk] = st[s].at THEN "copy" ELSE "load"
<1>1. PICK label \in StorerPC :
        label = (IF frontier[st[s].chunk] = st[s].at THEN "copy" ELSE "load")
  BY DEF StorerPC
<1>2. StorerGoto(s, label)
  BY <1>1 DEF Claim
<1> QED
  BY <1>1, <1>2, GotoTyped

(* Copy: it looks at the heap's root next.                                  *)
LEMMA CopyMoves ==
  ASSUME Types, NEW s \in Storers, Copy(s)
  PROVE  /\ Moves(s) /\ st'[s].pc = "recheck" /\ st'[s].fresh = st[s].fresh
         /\ st'[s].entry = st[s].entry /\ st'[s].heap = st[s].heap
         /\ st'[s].chunk = st[s].chunk /\ st'[s].at = st[s].at
BY GotoTyped DEF Copy, StorerPC

(* Recheck: it is done, or starts over with the same entry.                 *)
LEMMA RecheckMoves ==
  ASSUME RemSetTypeInv, NEW s \in Storers, Recheck(s)
  PROVE  /\ Moves(s) /\ st'[s].fresh = None
         /\ st'[s].pc = "idle" \/ (st'[s].pc = "load" /\ st'[s].entry = st[s].entry)
<1>1. CASE Root(st[s].heap) = st[s].heap
  <2>1. st' = [st EXCEPT ![s] = IdleStorer]
    BY <1>1 DEF Recheck
  <2> QED
    BY <2>1, ZeroIsTyped DEF RemSetTypeInv, Types, Moves, IdleStorer
<1>2. CASE Root(st[s].heap) # st[s].heap
  <2>1. st[s].heap \in Heaps /\ st[s].fresh = None
    BY DEF RemSetTypeInv, Types, StorerStates, PointersInv, Recheck, StorerAt
  <2>2. PICK h \in Heaps : h = Root(st[s].heap)
    BY <2>1, ZeroIsTyped
  <2>3. PICK x \in StorerStates : x = st[s]
    BY DEF RemSetTypeInv, Types
  <2> DEFINE u == [x EXCEPT !.heap = h, !.pc = "load"]
  <2>4. u \in StorerStates
    BY TwoFields, ZeroIsTyped DEF StorerPC
  <2>5. u.pc = "load" /\ u.entry = x.entry /\ u.fresh = x.fresh
    BY DEF StorerStates
  <2>6. st' = [st EXCEPT ![s] = u]
    BY <1>2, <2>2, <2>3 DEF Recheck
  <2> HIDE DEF u
  <2>7. Moves(s) /\ st'[s] = u
    BY <2>4, <2>6, NewState DEF RemSetTypeInv
  <2> QED
    BY <2>1, <2>3, <2>5, <2>7
<1> QED
  BY <1>1, <1>2

(* Allocate: somebody else has appended a chunk, or it has a fresh one.     *)
LEMMA AllocateMoves ==
  ASSUME RemSetTypeInv, NEW s \in Storers, Allocate(s)
  PROVE  /\ Moves(s) /\ st'[s].entry = st[s].entry /\ st[s].fresh = None
         /\ \/ st'[s].pc = "load" /\ st'[s].fresh = None /\ UNCHANGED memory
            \/ \E c \in free :
                 /\ free' = free \ {c}
                 /\ frontier' = [frontier EXCEPT ![c] = 0]
                 /\ slot' = [slot EXCEPT ![c] = [i \in 1..EntriesPerChunk |-> None]]
                 /\ retire' = [retire EXCEPT ![c] = FALSE]
                 /\ st'[s].pc = "publish" /\ st'[s].fresh = c
<1>1. st[s].fresh = None
  BY DEF RemSetTypeInv, PointersInv, Allocate, StorerAt
<1>2. CASE LastChunk(pub[st[s].heap]) # st[s].chunk
  <2>1. StorerGoto(s, "load") /\ UNCHANGED memory
    BY <1>2 DEF Allocate
  <2> QED
    BY <1>1, <2>1, GotoTyped DEF RemSetTypeInv, StorerPC
<1>3. CASE LastChunk(pub[st[s].heap]) = st[s].chunk
  <2>1. PICK c \in free :
          /\ free' = free \ {c}
          /\ frontier' = [frontier EXCEPT ![c] = 0]
          /\ slot' = [slot EXCEPT ![c] = [i \in 1..EntriesPerChunk |-> None]]
          /\ retire' = [retire EXCEPT ![c] = FALSE]
          /\ st' = [st EXCEPT ![s].fresh = c, ![s].pc = "publish"]
    BY <1>3 DEF Allocate
  <2>4. st' = [st EXCEPT ![s] = [st[s] EXCEPT !.fresh = c, !.pc = "publish"]]
    BY <2>1
  <2>2. c \in Chunks /\ st[s] \in StorerStates
    BY DEF RemSetTypeInv, Types
  <2>3. Moves(s) /\ st'[s].entry = st[s].entry /\ st'[s].pc = "publish" /\ st'[s].fresh = c
    BY <2>2, <2>4, FreshMoves DEF RemSetTypeInv, StorerPC
  <2> QED
    BY <1>1, <2>1, <2>3
<1> QED
  BY <1>2, <1>3

(* Publish: the fresh chunk is in the list, or back with the allocator.     *)
LEMMA PublishMoves ==
  ASSUME RemSetTypeInv, NEW s \in Storers, Publish(s)
  PROVE  /\ Moves(s) /\ st'[s].pc = "load" /\ st'[s].entry = st[s].entry /\ st'[s].fresh = None
         /\ st[s].fresh \in Chunks /\ st[s].heap \in Heaps
         /\ \/ pub' = [pub EXCEPT ![st[s].heap] = Append(@, st[s].fresh)] /\ free' = free
            \/ free' = free \union {st[s].fresh} /\ pub' = pub
<1>1. st[s].fresh \in Chunks /\ st[s].heap \in Heaps
  BY DEF Publish, StorerAt, RemSetTypeInv, Types, PointersInv, StorerStates
<1>2. st' = [st EXCEPT ![s] = [st[s] EXCEPT !.fresh = None, !.pc = "load"]]
  BY DEF Publish
<1>3. Moves(s) /\ st'[s].pc = "load" /\ st'[s].entry = st[s].entry /\ st'[s].fresh = None
  BY <1>2, FreshMoves DEF RemSetTypeInv, StorerPC
<1> QED
  BY <1>1, <1>3 DEF Publish

-----------------------------------------------------------------------------
(* The steps of the storers *)

(* The types after a step of a storer.                                      *)
LEMMA StorerTypes ==
  ASSUME RemSetTypeInv, NEW s \in Storers, Moves(s), StorerPointers(st'[s]),
         UNCHANGED <<priv, linked, ow, passes, visited, due, quiet>>,
         pub' \in [Heaps -> Seq(Chunks)],
         \A h \in Heaps : Members(pub[h]) \subseteq Members(pub'[h]),
         frontier' \in [Chunks -> 0 .. EntriesPerChunk],
         slot' \in [Chunks -> [Slots -> Entries \union {None}]],
         retire' \in [Chunks -> BOOLEAN], free' \subseteq Chunks, returned' \subseteq Entries
  PROVE  RemSetTypeInv'
<1>1. Types'
  BY DEF RemSetTypeInv, Types, Moves
<1>2. ow.heap \in Heaps
  BY DEF RemSetTypeInv, Types, OwnerStates
<1>3. \A t \in Storers : StorerPointers(st'[t])
  BY DEF RemSetTypeInv, PointersInv, StorerPointers, Moves
<1>4. PointersInv'
  BY <1>2, <1>3 DEF RemSetTypeInv, PointersInv, StorerPointers
<1> QED
  BY <1>1, <1>4 DEF RemSetTypeInv

(* Lists that stay as they are hold the same chunks.                        *)
LEMMA SameLists ==
  ASSUME UNCHANGED <<pub, priv, linked, ow>>
  PROVE  /\ Used' = Used /\ Home' = Home
         /\ \A h \in Heaps : Holding(h)' = Holding(h)
BY DEF Used, Home, Holding, Kept, InHand, TakenFor

(* What is in the lists are chunks.                                         *)
LEMMA UsedAreChunks ==
  ASSUME Types
  PROVE  /\ \A h \in Heaps : pub[h] \in Seq(Chunks) /\ priv[h] \in Seq(Chunks)
         /\ ow.taken \in Seq(Chunks)
         /\ Used \subseteq Chunks /\ Home \subseteq Used
<1>1. /\ \A h \in Heaps : pub[h] \in Seq(Chunks) /\ priv[h] \in Seq(Chunks)
      /\ ow.taken \in Seq(Chunks)
  BY DEF Types, OwnerStates
<1>2. \A h \in Heaps : Members(pub[h]) \subseteq Chunks /\ Members(priv[h]) \subseteq Chunks
  BY <1>1, MembersAreChunks
<1>3. Members(ow.taken) \subseteq Chunks
  BY <1>1, MembersAreChunks
<1>4. Used \subseteq Chunks
  BY <1>2, <1>3, ZeroIsTyped DEF Used, Kept, InHand
<1>5. Home \subseteq Used
  BY DEF Home, Used, Holding
<1> QED
  BY <1>1, <1>4, <1>5

(* A step of a storer that touches neither lists nor slots.                 *)
LEMMA StorerStill ==
  ASSUME RemSetIInv, NEW s \in Storers, Moves(s), StorerPointers(st'[s]),
         UNCHANGED <<lists, memory, ow, passes, visited, due, quiet>>,
         st[s].pc # "copy", st'[s].pc \notin {"copy", "recheck"}, st'[s].fresh = st[s].fresh,
         st'[s].pc \in {"frontier", "claim"} =>
           /\ st'[s].chunk \in Used
           /\ ~(linked /\ st'[s].heap = Child) => st'[s].chunk \in Holding(st'[s].heap),
         \A e \in returned' : e \in Entries /\ \E c \in Home : e \in EntriesOf(c)
  PROVE  RemSetIInv'
<1>1. RemSetTypeInv'
  BY StorerTypes DEF RemSetIInv, RemSetTypeInv, Types, lists, memory
<1>2. Used' = Used /\ Home' = Home /\ \A h \in Heaps : Holding(h)' = Holding(h)
  BY SameLists DEF lists
<1>3. \A t \in Storers : st'[t].fresh = st[t].fresh
  BY DEF Moves
<1>4. ListsInv'
  BY <1>2, <1>3 DEF RemSetIInv, ListsInv, lists, memory, Kept, InHand
<1>5. OwnerInv'
  BY DEF RemSetIInv, OwnerInv, lists
<1>6. \A t \in Storers, c \in Chunks, k \in Slots : Claims(t, c, k)' <=> Claims(t, c, k)
  BY DEF Claims, Moves
<1>7. SlotsInv'
  BY <1>6 DEF RemSetIInv, SlotsInv, Moves, memory
<1>8. StorersInv'
  <2>1. \A t \in Storers : st[t].heap \in Heaps /\ st'[t].heap \in Heaps
    BY DEF RemSetIInv, RemSetTypeInv, Types, StorerStates, Moves
  <2> QED
    BY <1>2, <2>1 DEF RemSetIInv, StorersInv, Moves, lists
<1>9. KeptInv'
  BY <1>2 DEF KeptInv, EntriesOf, memory
<1>10. PassInv'
  BY DEF RemSetIInv, PassInv, Ahead, Reaches, lists, memory
<1> QED
  BY <1>1, <1>4, <1>5, <1>7, <1>8, <1>9, <1>10 DEF RemSetIInv

(* The public list of a heap is held for it.                                *)
LEMMA ListsAreHeld ==
  ASSUME NEW h \in Heaps
  PROVE  /\ Members(pub[h]) \subseteq Holding(h) /\ Members(priv[h]) \subseteq Holding(h)
         /\ Holding(h) \subseteq Used
BY DEF Holding, Used, Kept, Heaps

(* A storer that only starts has claimed nothing.                           *)
LEMMA RememberStep ==
  ASSUME RemSetIInv, NEW s \in Storers, NEW e \in Entries, NEW h \in Heaps, Remember(s, e, h)
  PROVE  RemSetIInv'
<1>1. Moves(s) /\ st'[s].pc = "load" /\ st'[s].entry = e /\ st'[s].fresh = None
  BY RememberMoves DEF RemSetIInv, RemSetTypeInv
<1>2. st[s].pc = "idle" /\ st[s].fresh = None
  BY DEF Remember, StorerAt, RemSetIInv, RemSetTypeInv, PointersInv
<1>3. UNCHANGED <<lists, memory, ow, passes, history>>
  BY DEF Remember
<1> QED
  BY <1>1, <1>2, <1>3, StorerStill
     DEF StorerPointers, history, RemSetIInv, KeptInv, RemSetTypeInv, Types

(* The last chunk of the heap's public list is in the heap.                 *)
LEMMA LoadLastStep ==
  ASSUME RemSetIInv, NEW s \in Storers, LoadLast(s)
  PROVE  RemSetIInv'
<1>1. /\ Moves(s) /\ st'[s].entry = st[s].entry /\ st'[s].fresh = st[s].fresh
      /\ st'[s].heap = st[s].heap /\ st[s].heap \in Heaps
      /\ st'[s].chunk = LastChunk(pub[st[s].heap])
      /\ st'[s].pc = IF st'[s].chunk = None THEN "allocate" ELSE "frontier"
  BY LoadLastMoves DEF RemSetIInv, RemSetTypeInv
<1>2. st[s].pc = "load" /\ st[s].fresh = None /\ st[s].entry \in Entries
  BY DEF LoadLast, StorerAt, RemSetIInv, RemSetTypeInv, PointersInv
<1>3. UNCHANGED <<lists, memory, ow, passes, history>>
  BY DEF LoadLast
<1>4. pub[st[s].heap] \in Seq(Chunks)
  BY <1>1 DEF RemSetIInv, RemSetTypeInv, Types
<1>5. st'[s].pc = "frontier" =>
        st'[s].chunk \in Chunks /\ st'[s].chunk \in Holding(st'[s].heap) /\ st'[s].chunk \in Used
  BY <1>1, <1>4, EndsFacts, MembersAreChunks, ListsAreHeld
<1>6. StorerPointers(st'[s])
  BY <1>1, <1>2, <1>5 DEF StorerPointers
<1> QED
  BY <1>1, <1>2, <1>3, <1>5, <1>6, StorerStill DEF history, RemSetIInv, KeptInv, RemSetTypeInv, Types

(* The frontier that is read is within the chunk.                           *)
LEMMA LoadFrontierStep ==
  ASSUME RemSetIInv, NEW s \in Storers, LoadFrontier(s)
  PROVE  RemSetIInv'
<1>1. /\ Moves(s) /\ st'[s].entry = st[s].entry /\ st'[s].fresh = st[s].fresh
      /\ st'[s].heap = st[s].heap /\ st'[s].chunk = st[s].chunk
      /\ st[s].chunk \in Chunks /\ st'[s].at \in 0 .. EntriesPerChunk
      /\ st'[s].pc = IF st'[s].at = EntriesPerChunk THEN "allocate" ELSE "claim"
  BY LoadFrontierMoves DEF RemSetIInv
<1>2. st[s].pc = "frontier" /\ st[s].fresh = None /\ st[s].entry \in Entries
  BY DEF LoadFrontier, StorerAt, RemSetIInv, RemSetTypeInv, PointersInv
<1>3. UNCHANGED <<lists, memory, ow, passes, history>>
  BY DEF LoadFrontier
<1>4. st'[s].pc = "claim" => st'[s].at < EntriesPerChunk
  BY <1>1, ZeroIsTyped
<1>5. StorerPointers(st'[s])
  BY <1>1, <1>2, <1>4 DEF StorerPointers
<1>6. /\ st[s].chunk \in Used
      /\ ~(linked /\ st[s].heap = Child) => st[s].chunk \in Holding(st[s].heap)
  BY <1>2 DEF RemSetIInv, StorersInv
<1> QED
  BY <1>1, <1>2, <1>3, <1>5, <1>6, StorerStill DEF history, RemSetIInv, KeptInv, RemSetTypeInv, Types

(* An entry that was stored is in the heap that the object is in, unless    *)
(* that one was merged.                                                     *)
LEMMA RecheckStep ==
  ASSUME RemSetIInv, NEW s \in Storers, Recheck(s)
  PROVE  RemSetIInv'
<1>1. /\ Moves(s) /\ st'[s].fresh = None
      /\ st'[s].pc = "idle" \/ (st'[s].pc = "load" /\ st'[s].entry = st[s].entry)
  BY RecheckMoves DEF RemSetIInv
<1>2. /\ st[s].pc = "recheck" /\ st[s].fresh = None /\ st[s].entry \in Entries
      /\ st[s].chunk \in Chunks /\ st[s].at \in 0 .. EntriesPerChunk
      /\ st[s].at < EntriesPerChunk /\ st[s].heap \in Heaps
  BY DEF Recheck, StorerAt, RemSetIInv, RemSetTypeInv, Types, PointersInv, StorerStates
<1>3. UNCHANGED <<lists, memory, ow, passes, visited, due, quiet>>
  BY DEF Recheck
<1>4. StorerPointers(st'[s])
  BY <1>1, <1>2 DEF StorerPointers
<1>5. returned' = returned \/ (returned' = returned \union {st[s].entry} /\
                               Root(st[s].heap) = st[s].heap)
  BY DEF Recheck
<1>6. ASSUME Root(st[s].heap) = st[s].heap
      PROVE  st[s].chunk \in Home /\ st[s].entry \in EntriesOf(st[s].chunk)
  <2>1. ~(linked /\ st[s].heap = Child)
    BY <1>6, ZeroIsTyped DEF Root
  <2>2. st[s].chunk \in Holding(st[s].heap)
    BY <1>2, <2>1 DEF RemSetIInv, StorersInv
  <2>3. st[s].chunk \in Home
    BY <1>2, <2>1, <2>2 DEF Home, Heaps
  <2>4. st[s].at + 1 \in Slots /\ slot[st[s].chunk][st[s].at + 1] = st[s].entry
    BY <1>2, ZeroIsTyped DEF Slots, RemSetIInv, SlotsInv
  <2> QED
    BY <1>2, <2>3, <2>4, ZeroIsTyped DEF EntriesOf, Slots
<1>7. \A e \in returned' : e \in Entries /\ \E c \in Home : e \in EntriesOf(c)
  BY <1>2, <1>5, <1>6 DEF RemSetIInv, KeptInv, RemSetTypeInv, Types
<1> QED
  BY <1>1, <1>2, <1>3, <1>4, <1>7, StorerStill

(* The compare-and-swap of the frontier gives the slot to one storer.       *)
LEMMA ClaimStep ==
  ASSUME RemSetIInv, NEW s \in Storers, Claim(s)
  PROVE  RemSetIInv'
<1>1. /\ Moves(s) /\ st'[s].fresh = st[s].fresh
      /\ st'[s].entry = st[s].entry /\ st'[s].heap = st[s].heap
      /\ st'[s].chunk = st[s].chunk /\ st'[s].at = st[s].at
      /\ st'[s].pc = IF frontier[st[s].chunk] = st[s].at THEN "copy" ELSE "load"
  BY ClaimMoves DEF RemSetIInv, RemSetTypeInv
<1>2. /\ st[s].pc = "claim" /\ st[s].fresh = None /\ st[s].entry \in Entries
      /\ st[s].chunk \in Chunks /\ st[s].at \in 0 .. EntriesPerChunk
      /\ st[s].at < EntriesPerChunk
  BY DEF Claim, StorerAt, RemSetIInv, RemSetTypeInv, Types, PointersInv, StorerStates
<1>3. UNCHANGED <<lists, slot, retire, free, ow, passes, history>>
  BY DEF Claim
<1>4. StorerPointers(st'[s])
  BY <1>1, <1>2 DEF StorerPointers
<1>5. CASE frontier[st[s].chunk] # st[s].at
  <2>1. frontier' = frontier
    BY <1>2, <1>5 DEF Claim, RemSetIInv, RemSetTypeInv, Types
  <2> QED
    BY <1>1, <1>2, <1>3, <1>4, <1>5, <2>1, StorerStill
       DEF memory, history, RemSetIInv, KeptInv, RemSetTypeInv, Types
<1>6. CASE frontier[st[s].chunk] = st[s].at
  <2> DEFINE c == st[s].chunk
             k == st[s].at + 1
  <2>1. frontier' = [frontier EXCEPT ![c] = k] /\ st'[s].pc = "copy"
    BY <1>1, <1>6 DEF Claim
  <2>2. /\ c \in Chunks /\ k \in Slots /\ frontier[c] + 1 = k
        /\ frontier \in [Chunks -> 0 .. EntriesPerChunk]
    BY <1>2, <1>6, ZeroIsTyped DEF Slots, RemSetIInv, RemSetTypeInv, Types
  <2>3. RemSetTypeInv'
    <3>1. frontier' \in [Chunks -> 0 .. EntriesPerChunk]
      BY <2>1, <2>2, ZeroIsTyped DEF Slots
    <3> QED
      BY <1>1, <1>3, <1>4, <3>1, StorerTypes DEF RemSetIInv, RemSetTypeInv, Types, lists, history
  <2>4. Used' = Used /\ Home' = Home /\ \A h \in Heaps : Holding(h)' = Holding(h)
    BY <1>3, SameLists DEF lists
  <2>5. \A t \in Storers : st'[t].fresh = st[t].fresh
    BY <1>1 DEF Moves
  <2>6. ListsInv'
    BY <1>3, <2>4, <2>5 DEF RemSetIInv, ListsInv, lists, Kept, InHand
  <2>7. OwnerInv'
    BY <1>3 DEF RemSetIInv, OwnerInv, lists, history
  <2>8. StorersInv'
    <3>1. /\ st[s].chunk \in Used
          /\ ~(linked /\ st[s].heap = Child) => st[s].chunk \in Holding(st[s].heap)
      BY <1>2 DEF RemSetIInv, StorersInv
    <3>2. \A t \in Storers : st[t].heap \in Heaps /\ st'[t].heap \in Heaps
      BY <1>1 DEF RemSetIInv, RemSetTypeInv, Types, StorerStates, Moves
    <3> QED
      BY <1>1, <1>3, <2>4, <3>1, <3>2 DEF RemSetIInv, StorersInv, Moves, lists
  <2>9. KeptInv'
    BY <1>3, <2>4 DEF RemSetIInv, KeptInv, EntriesOf, history
  <2>10. PassInv'
    BY <1>3 DEF RemSetIInv, PassInv, Ahead, Reaches, lists, history
  <2>11. SlotsInv'
    <3>1. \A t \in Storers, d \in Chunks, j \in Slots :
            Claims(t, d, j)' <=> IF t = s THEN d = c /\ j = k ELSE Claims(t, d, j)
      BY <1>1, <2>1 DEF Claims, Moves
    <3>2. \A t \in Storers, d \in Chunks, j \in Slots : Claims(t, d, j) => j <= frontier[d]
      <4>1. \A t \in Storers : st[t].at \in Nat
        BY DEF RemSetIInv, RemSetTypeInv, Types, StorerStates
      <4>2. \A d \in Chunks : frontier[d] \in Nat
        BY <2>2
      <4> QED
        BY <4>1, <4>2 DEF Claims, RemSetIInv, SlotsInv
    <3>3. slot[c][k] = None
      BY <2>2, ZeroIsTyped DEF RemSetIInv, SlotsInv, Slots
    <3>4. \A d \in Chunks : frontier[d] \in Nat /\ frontier[d] <= frontier'[d]
      BY <2>1, <2>2
    <3>5. \A d \in Chunks, j \in Slots :
            /\ slot'[d][j] # None => j <= frontier'[d]
            /\ j <= frontier'[d] /\ slot'[d][j] = None => \E t \in Storers : Claims(t, d, j)'
      <4> SUFFICES ASSUME NEW d \in Chunks, NEW j \in Slots
                   PROVE  /\ slot[d][j] # None => j <= frontier'[d]
                          /\ j <= frontier'[d] /\ slot[d][j] = None =>
                               \E t \in Storers : Claims(t, d, j)'
        BY <1>3
      <4>1. slot[d][j] # None => j <= frontier'[d]
        BY <3>4, <2>1, <2>2 DEF RemSetIInv, SlotsInv, Slots
      <4>2. CASE d = c /\ j = k
        BY <3>1, <3>3, <4>1, <4>2
      <4>3. CASE ~(d = c /\ j = k)
        <5>1. j <= frontier'[d] => j <= frontier[d]
          BY <2>1, <2>2, <4>3 DEF Slots
        <5>2. \A t \in Storers : Claims(t, d, j) => t # s
          BY <1>2 DEF Claims
        <5> QED
          BY <3>1, <4>1, <5>1, <5>2 DEF RemSetIInv, SlotsInv
      <4> QED
        BY <4>2, <4>3
    <3>6. \A t \in Storers :
            /\ st'[t].pc = "copy" =>
                 st'[t].at < frontier'[st'[t].chunk] /\ slot'[st'[t].chunk][st'[t].at + 1] = None
            /\ st'[t].pc = "recheck" => slot'[st'[t].chunk][st'[t].at + 1] = st'[t].entry
      <4>1. st'[s].at < frontier'[c]
        BY <1>1, <1>2, <2>1, <2>2
      <4>2. \A t \in Storers : st[t].pc = "copy" => st[t].at < frontier'[st[t].chunk]
        <5>1. \A t \in Storers : st[t].pc = "copy" => st[t].chunk \in Chunks /\ st[t].at \in Nat
          BY DEF RemSetIInv, RemSetTypeInv, Types, PointersInv, StorerStates
        <5>2. \A d \in Chunks : frontier'[d] \in Nat
          BY <2>1, <2>2, ZeroIsTyped DEF Slots
        <5> QED
          BY <3>4, <5>1, <5>2 DEF RemSetIInv, SlotsInv
      <4> QED
        BY <1>1, <1>3, <2>1, <3>3, <4>1, <4>2 DEF RemSetIInv, SlotsInv, Moves
    <3>7. \A t, u \in Storers, d \in Chunks, j \in Slots :
            Claims(t, d, j)' /\ Claims(u, d, j)' => t = u
      <4>1. ~(k <= frontier[c])
        BY <2>2
      <4> QED
        BY <3>1, <3>2, <2>2, <4>1 DEF RemSetIInv, SlotsInv
    <3> QED
      BY <3>5, <3>6, <3>7 DEF SlotsInv
  <2> QED
    BY <2>3, <2>6, <2>7, <2>8, <2>9, <2>10, <2>11 DEF RemSetIInv
<1> QED
  BY <1>5, <1>6

(* A slot that is filled was empty, and was this storer's.                  *)
LEMMA CopyStep ==
  ASSUME RemSetIInv, NEW s \in Storers, Copy(s)
  PROVE  RemSetIInv'
<1>1. /\ Moves(s) /\ st'[s].pc = "recheck" /\ st'[s].fresh = st[s].fresh
      /\ st'[s].entry = st[s].entry /\ st'[s].heap = st[s].heap
      /\ st'[s].chunk = st[s].chunk /\ st'[s].at = st[s].at
  BY CopyMoves DEF RemSetIInv, RemSetTypeInv
<1> DEFINE c == st[s].chunk
           k == st[s].at + 1
           e == st[s].entry
<1>2. /\ st[s].pc = "copy" /\ st[s].fresh = None /\ e \in Entries /\ e # None
      /\ c \in Chunks /\ st[s].at \in 0 .. EntriesPerChunk /\ st[s].at < EntriesPerChunk
  BY ZeroIsTyped DEF Copy, StorerAt, RemSetIInv, RemSetTypeInv, Types, PointersInv, StorerStates
<1>3. /\ UNCHANGED <<lists, frontier, retire, free, ow, passes, history>>
      /\ slot' = [slot EXCEPT ![c][k] = e]
  BY DEF Copy
<1>4. StorerPointers(st'[s])
  BY <1>1, <1>2 DEF StorerPointers
<1>5. /\ k \in Slots /\ slot \in [Chunks -> [Slots -> Entries \union {None}]]
      /\ slot[c][k] = None /\ k <= frontier[c] /\ frontier[c] \in Nat
  <2>1. slot[c][k] = None /\ st[s].at < frontier[c] /\ frontier[c] \in 0 .. EntriesPerChunk
    BY <1>2 DEF RemSetIInv, SlotsInv, RemSetTypeInv, Types
  <2> QED
    BY <1>2, <2>1, ZeroIsTyped DEF Slots, RemSetIInv, RemSetTypeInv, Types
<1>6. \A d \in Chunks, j \in Slots :
        slot'[d][j] = IF d = c /\ j = k THEN e ELSE slot[d][j]
  BY <1>2, <1>3, <1>5
<1>7. RemSetTypeInv'
  <2>1. slot' \in [Chunks -> [Slots -> Entries \union {None}]]
    BY <1>2, <1>3, <1>5
  <2> QED
    BY <1>1, <1>3, <1>4, <2>1, StorerTypes DEF RemSetIInv, RemSetTypeInv, Types, lists, history
<1>8. Used' = Used /\ Home' = Home /\ \A h \in Heaps : Holding(h)' = Holding(h)
  BY <1>3, SameLists DEF lists
<1>9. \A t \in Storers : st'[t].fresh = st[t].fresh
  BY <1>1 DEF Moves
<1>10. ListsInv'
  BY <1>3, <1>8, <1>9 DEF RemSetIInv, ListsInv, lists, Kept, InHand
<1>11. OwnerInv'
  BY <1>3 DEF RemSetIInv, OwnerInv, lists, history
<1>12. StorersInv'
  <2>1. /\ st[s].chunk \in Used
        /\ ~(linked /\ st[s].heap = Child) => st[s].chunk \in Holding(st[s].heap)
    BY <1>2 DEF RemSetIInv, StorersInv
  <2>2. \A t \in Storers : st[t].heap \in Heaps /\ st'[t].heap \in Heaps
    BY <1>1 DEF RemSetIInv, RemSetTypeInv, Types, StorerStates, Moves
  <2> QED
    BY <1>1, <1>3, <1>8, <2>1, <2>2 DEF RemSetIInv, StorersInv, Moves, lists
<1>13. \A d \in Chunks : \A x \in EntriesOf(d) : x \in EntriesOf(d)'
  BY <1>5, <1>6 DEF EntriesOf, Slots
<1>14. KeptInv'
  <2>1. Home \subseteq Chunks
    BY UsedAreChunks DEF RemSetIInv, RemSetTypeInv
  <2> QED
    BY <1>3, <1>8, <1>13, <2>1 DEF RemSetIInv, KeptInv, history
<1>15. PassInv'
  <2>1. \A d \in Chunks, j \in Slots : Reaches(d, j)' <=> Reaches(d, j)
    BY <1>3 DEF Reaches, lists
  <2>2. \A d \in Chunks, j \in Slots : slot[d][j] # None => slot'[d][j] = slot[d][j]
    BY <1>5, <1>6
  <2>3. \A j \in Slots : \A i \in 1 .. j : i \in Slots
    BY ZeroIsTyped DEF Slots
  <2>4. ASSUME NEW x, Ahead(x), x # None PROVE Ahead(x)'
    BY <2>1, <2>2, <2>3, <2>4 DEF Ahead
  <2>5. \A x \in due : x # None
    BY ZeroIsTyped DEF RemSetIInv, RemSetTypeInv, Types
  <2> QED
    BY <1>3, <2>4, <2>5 DEF RemSetIInv, PassInv, history
<1>16. SlotsInv'
  <2>1. \A t \in Storers, d \in Chunks, j \in Slots :
          /\ Claims(t, d, j)' <=> t # s /\ Claims(t, d, j)
          /\ Claims(s, d, j) <=> d = c /\ j = k
    BY <1>1, <1>2 DEF Claims, Moves
  <2>2. \A d \in Chunks, j \in Slots :
          /\ slot'[d][j] # None => j <= frontier'[d]
          /\ j <= frontier'[d] /\ slot'[d][j] = None => \E t \in Storers : Claims(t, d, j)'
    BY <1>2, <1>3, <1>5, <1>6, <2>1 DEF RemSetIInv, SlotsInv
  <2>3. ASSUME NEW t \in Storers, t # s, st[t].pc \in {"copy", "recheck"}
        PROVE  slot'[st[t].chunk][st[t].at + 1] = slot[st[t].chunk][st[t].at + 1]
    <3>1. st[t].chunk \in Chunks /\ st[t].at + 1 \in Slots /\ st[t].entry # None
      <4>1. st[t].chunk \in Chunks /\ st[t].at \in 0 .. EntriesPerChunk /\ st[t].at < EntriesPerChunk
            /\ st[t].entry \in Entries
        BY <2>3 DEF RemSetIInv, RemSetTypeInv, Types, PointersInv, StorerStates
      <4> QED
        BY <4>1, ZeroIsTyped DEF Slots
    <3>2. CASE st[t].pc = "copy"
      <4>1. Claims(t, st[t].chunk, st[t].at + 1)
        BY <3>2 DEF Claims
      <4>2. ~(st[t].chunk = c /\ st[t].at + 1 = k)
        BY <2>1, <2>3, <3>1, <4>1 DEF RemSetIInv, SlotsInv
      <4> QED
        BY <1>6, <3>1, <4>2
    <3>3. CASE st[t].pc = "recheck"
      <4>1. slot[st[t].chunk][st[t].at + 1] = st[t].entry
        BY <3>3 DEF RemSetIInv, SlotsInv
      <4> QED
        BY <1>5, <1>6, <3>1, <4>1
    <3> QED
      BY <2>3, <3>2, <3>3
  <2>4. slot'[c][k] = e
    BY <1>2, <1>5, <1>6
  <2>5. \A t \in Storers :
          /\ st'[t].pc = "copy" =>
               st'[t].at < frontier'[st'[t].chunk] /\ slot'[st'[t].chunk][st'[t].at + 1] = None
          /\ st'[t].pc = "recheck" => slot'[st'[t].chunk][st'[t].at + 1] = st'[t].entry
    BY <1>1, <1>3, <2>3, <2>4 DEF RemSetIInv, SlotsInv, Moves
  <2>6. \A t, u \in Storers, d \in Chunks, j \in Slots :
          Claims(t, d, j)' /\ Claims(u, d, j)' => t = u
    BY <2>1 DEF RemSetIInv, SlotsInv
  <2> QED
    BY <2>2, <2>5, <2>6 DEF SlotsInv
<1> QED
  BY <1>7, <1>10, <1>11, <1>12, <1>14, <1>15, <1>16 DEF RemSetIInv

(* A chunk that the allocator hands out is in no list, and nobody works on  *)
(* it.                                                                      *)
LEMMA AllocateStep ==
  ASSUME RemSetIInv, NEW s \in Storers, Allocate(s)
  PROVE  RemSetIInv'
<1>1. /\ Moves(s) /\ st'[s].entry = st[s].entry /\ st[s].fresh = None
      /\ \/ st'[s].pc = "load" /\ st'[s].fresh = None /\ UNCHANGED memory
         \/ \E c \in free :
              /\ free' = free \ {c}
              /\ frontier' = [frontier EXCEPT ![c] = 0]
              /\ slot' = [slot EXCEPT ![c] = [i \in 1..EntriesPerChunk |-> None]]
              /\ retire' = [retire EXCEPT ![c] = FALSE]
              /\ st'[s].pc = "publish" /\ st'[s].fresh = c
  BY AllocateMoves DEF RemSetIInv
<1>2. st[s].pc = "allocate" /\ st[s].entry \in Entries
  BY DEF Allocate, StorerAt, RemSetIInv, RemSetTypeInv, PointersInv
<1>3. UNCHANGED <<lists, ow, passes, history>>
  BY DEF Allocate
<1>4. CASE st'[s].pc = "load" /\ st'[s].fresh = None /\ UNCHANGED memory
  BY <1>1, <1>2, <1>3, <1>4, StorerStill
     DEF StorerPointers, history, RemSetIInv, KeptInv, RemSetTypeInv, Types
<1>5. ASSUME NEW c \in free,
             free' = free \ {c}, frontier' = [frontier EXCEPT ![c] = 0],
             slot' = [slot EXCEPT ![c] = [i \in 1..EntriesPerChunk |-> None]],
             retire' = [retire EXCEPT ![c] = FALSE],
             st'[s].pc = "publish", st'[s].fresh = c
      PROVE  RemSetIInv'
  <2>1. c \in Chunks /\ c \notin Used /\ c # None
    BY ZeroIsTyped DEF RemSetIInv, RemSetTypeInv, Types, ListsInv
  <2>2. \A d \in Chunks : d # c => slot'[d] = slot[d] /\ frontier'[d] = frontier[d]
    BY <1>5 DEF RemSetIInv, RemSetTypeInv, Types
  <2>3. frontier'[c] = 0 /\ \A k \in Slots : slot'[c][k] = None
    BY <1>5, <2>1 DEF RemSetIInv, RemSetTypeInv, Types, Slots
  <2>4. RemSetTypeInv'
    <3>1. /\ slot' \in [Chunks -> [Slots -> Entries \union {None}]]
          /\ frontier' \in [Chunks -> 0 .. EntriesPerChunk]
          /\ retire' \in [Chunks -> BOOLEAN] /\ free' \subseteq Chunks
      BY <1>5, ZeroIsTyped DEF RemSetIInv, RemSetTypeInv, Types, Slots
    <3>2. StorerPointers(st'[s])
      BY <1>1, <1>2, <1>5, <2>1 DEF StorerPointers
    <3> QED
      BY <1>1, <1>3, <3>1, <3>2, StorerTypes DEF RemSetIInv, RemSetTypeInv, Types, lists, history
  <2>5. Used' = Used /\ Home' = Home /\ \A h \in Heaps : Holding(h)' = Holding(h)
    BY <1>3, SameLists DEF lists
  <2>6. ListsInv'
    <3>1. \A t \in Storers : t # s => st'[t].fresh = st[t].fresh /\ st[t].fresh # c
      BY <1>1, <1>5 DEF Moves, RemSetIInv, ListsInv
    <3>2. \A t \in Storers : st'[t].fresh \notin Used' \union free'
      BY <1>5, <2>1, <2>5, <3>1 DEF RemSetIInv, ListsInv
    <3>3. \A t, u \in Storers : st'[t].fresh = st'[u].fresh /\ st'[t].fresh # None => t = u
      BY <1>5, <3>1 DEF RemSetIInv, ListsInv
    <3>4. Used' \intersect free' = {}
      BY <1>5, <2>5 DEF RemSetIInv, ListsInv
    <3> QED
      BY <1>3, <3>2, <3>3, <3>4 DEF RemSetIInv, ListsInv, lists, Kept, InHand
  <2>7. OwnerInv'
    BY <1>3 DEF RemSetIInv, OwnerInv, lists, history
  <2>8. StorersInv'
    <3>1. \A t \in Storers : st[t].heap \in Heaps
      BY DEF RemSetIInv, RemSetTypeInv, Types, StorerStates
    <3> QED
      BY <1>1, <1>3, <1>5, <2>5, <3>1 DEF RemSetIInv, StorersInv, Moves, lists
  <2>9. KeptInv'
    <3>1. \A d \in Home : d \in Chunks /\ d # c
      BY <2>1, UsedAreChunks DEF RemSetIInv, RemSetTypeInv
    <3> QED
      BY <1>3, <2>2, <2>5, <3>1 DEF RemSetIInv, KeptInv, EntriesOf, history
  <2>10. PassInv'
    <3>1. \A d \in Chunks, k \in Slots : Reaches(d, k) => d # c
      <4>1. ow.heap \in Heaps
        BY DEF RemSetIInv, RemSetTypeInv, Types, OwnerStates
      <4>2. Members(pub[ow.heap]) \subseteq Used /\ Members(ow.taken) \subseteq Used
        BY <4>1, ListsAreHeld DEF Used, InHand
      <4> QED
        BY <2>1, <4>2 DEF Reaches, Members
    <3>2. \A d \in Chunks, k \in Slots : Reaches(d, k)' <=> Reaches(d, k)
      BY <1>3 DEF Reaches, lists
    <3>3. ASSUME NEW e, Ahead(e) PROVE Ahead(e)'
      BY <2>2, <3>1, <3>2, <3>3 DEF Ahead
    <3> QED
      BY <1>3, <3>3 DEF RemSetIInv, PassInv, history
  <2>11. SlotsInv'
    <3>1. \A t \in Storers : st[t].pc \in {"copy", "recheck"} => st[t].chunk \in Chunks \ {c}
      BY <2>1 DEF RemSetIInv, StorersInv, RemSetTypeInv, PointersInv
    <3>2. \A t \in Storers, d \in Chunks, k \in Slots : Claims(t, d, k)' <=> Claims(t, d, k)
      BY <1>1, <1>2, <1>5 DEF Claims, Moves
    <3>3. \A d \in Chunks, k \in Slots :
            /\ slot'[d][k] # None => k <= frontier'[d]
            /\ k <= frontier'[d] /\ slot'[d][k] = None => \E t \in Storers : Claims(t, d, k)'
      BY <2>2, <2>3, <3>2, ZeroIsTyped DEF RemSetIInv, SlotsInv, Slots
    <3>4. \A t \in Storers :
            /\ st'[t].pc = "copy" =>
                 st'[t].at < frontier'[st'[t].chunk] /\ slot'[st'[t].chunk][st'[t].at + 1] = None
            /\ st'[t].pc = "recheck" => slot'[st'[t].chunk][st'[t].at + 1] = st'[t].entry
      BY <1>1, <1>5, <2>2, <3>1 DEF RemSetIInv, SlotsInv, Moves
    <3> QED
      BY <3>2, <3>3, <3>4 DEF RemSetIInv, SlotsInv
  <2> QED
    BY <2>4, <2>6, <2>7, <2>8, <2>9, <2>10, <2>11 DEF RemSetIInv
<1> QED
  BY <1>1, <1>4, <1>5

(* A chunk that is appended was in no list.                                 *)
LEMMA PublishStep ==
  ASSUME RemSetIInv, NEW s \in Storers, Publish(s)
  PROVE  RemSetIInv'
<1> DEFINE h == st[s].heap
           c == st[s].fresh
<1>1. /\ Moves(s) /\ st'[s].pc = "load" /\ st'[s].entry = st[s].entry /\ st'[s].fresh = None
      /\ c \in Chunks /\ h \in Heaps
      /\ \/ pub' = [pub EXCEPT ![h] = Append(@, c)] /\ free' = free
         \/ free' = free \union {c} /\ pub' = pub
  BY PublishMoves DEF RemSetIInv
<1>2. st[s].pc = "publish" /\ st[s].entry \in Entries /\ c # None
  BY DEF Publish, StorerAt, RemSetIInv, RemSetTypeInv, PointersInv
<1>3. UNCHANGED <<priv, linked, frontier, slot, retire, ow, passes, history>>
  BY DEF Publish
<1>4. StorerPointers(st'[s])
  BY <1>1, <1>2 DEF StorerPointers
<1>5. pub \in [Heaps -> Seq(Chunks)] /\ c \notin Used /\ c \notin free
  BY DEF RemSetIInv, RemSetTypeInv, Types, ListsInv
<1>6. \A g \in Heaps :
        /\ pub'[g] \in Seq(Chunks) /\ Members(pub[g]) \subseteq Members(pub'[g])
        /\ Members(pub'[g]) \subseteq Members(pub[g]) \union {c}
        /\ Members(pub'[g]) = Members(pub[g]) \/ (g = h /\ free' = free)
        /\ Len(pub[g]) \in Nat /\ Len(pub'[g]) \in Nat /\ Len(pub[g]) <= Len(pub'[g])
        /\ \A i \in 1 .. Len(pub[g]) : pub'[g][i] = pub[g][i]
        /\ Distinct(pub[g]) => Distinct(pub'[g])
  <2> SUFFICES ASSUME NEW g \in Heaps
               PROVE  /\ pub'[g] \in Seq(Chunks) /\ Members(pub[g]) \subseteq Members(pub'[g])
                      /\ Members(pub'[g]) \subseteq Members(pub[g]) \union {c}
                      /\ Members(pub'[g]) = Members(pub[g]) \/ (g = h /\ free' = free)
                      /\ Len(pub[g]) \in Nat /\ Len(pub'[g]) \in Nat
                      /\ Len(pub[g]) <= Len(pub'[g])
                      /\ \A i \in 1 .. Len(pub[g]) : pub'[g][i] = pub[g][i]
                      /\ Distinct(pub[g]) => Distinct(pub'[g])
    OBVIOUS
  <2>1. pub[g] \in Seq(Chunks) /\ Len(pub[g]) \in Nat
    BY <1>5
  <2>2. CASE pub'[g] = pub[g]
    BY <2>1, <2>2
  <2>3. CASE g = h /\ pub'[g] = Append(pub[g], c) /\ free' = free
    <3>1. c \notin Members(pub[g])
      BY <1>5, ListsAreHeld
    <3> QED
      BY <1>1, <2>1, <2>3, <3>1, AppendFacts
  <2> QED
    BY <1>1, <1>5, <2>2, <2>3
<1>7. RemSetTypeInv'
  <2>1. pub' \in [Heaps -> Seq(Chunks)]
    <3>1. pub' = [pub EXCEPT ![h] = Append(pub[h], c)] \/ pub' = pub
      BY <1>1
    <3>2. Append(pub[h], c) \in Seq(Chunks)
      BY <1>1, <1>5, AppendFacts
    <3> QED
      BY <1>1, <1>5, <3>1, <3>2
  <2>2. free' \subseteq Chunks
    BY <1>1 DEF RemSetIInv, RemSetTypeInv, Types
  <2> QED
    BY <1>1, <1>3, <1>4, <1>6, <2>1, <2>2, StorerTypes DEF RemSetIInv, RemSetTypeInv, Types, history
<1>8. \A g \in Heaps :
        /\ Holding(g) \subseteq Holding(g)'
        /\ Kept(g)' \subseteq Kept(g) \union {c}
        /\ InHand' = InHand
  BY <1>3, <1>6 DEF Holding, Kept, InHand, TakenFor
<1>9. /\ Used \subseteq Used' /\ Home \subseteq Home'
      /\ Used' \subseteq Used \union {c} /\ (free' # free => Used' = Used)
  BY ZenonT(40), <1>3, <1>6, <1>8, ZeroIsTyped DEF Used, Home, Kept, InHand
<1>10. ListsInv'
  <2>1. \A t \in Storers : t # s => st'[t].fresh = st[t].fresh /\ st[t].fresh # c
    BY <1>1, <1>2 DEF Moves, RemSetIInv, ListsInv
  <2>2. free' = free \/ (free' = free \union {c} /\ Used' = Used)
    BY <1>1, <1>9
  <2>3. None \notin Used' /\ None \notin free'
    <3>1. None \notin Chunks /\ Used \subseteq Chunks /\ free \subseteq Chunks
      BY ZeroIsTyped, UsedAreChunks DEF RemSetIInv, RemSetTypeInv, Types
    <3> QED
      BY <1>1, <1>9, <3>1
  <2>4. \A t \in Storers : st'[t].fresh \notin Used' \union free'
    BY <1>1, <1>9, <2>1, <2>2, <2>3 DEF RemSetIInv, ListsInv
  <2>5. \A t, u \in Storers : st'[t].fresh = st'[u].fresh /\ st'[t].fresh # None => t = u
    BY <1>1, <2>1 DEF RemSetIInv, ListsInv
  <2>6. Used' \intersect free' = {}
    BY <1>5, <1>9, <2>2 DEF RemSetIInv, ListsInv
  <2>7. \A g \in Heaps : Distinct(pub'[g]) /\ Distinct(priv'[g])
    BY <1>3, <1>6 DEF RemSetIInv, ListsInv
  <2>8. \A g \in Heaps : c \notin Kept(g) /\ c \notin InHand
    BY <1>5, ZeroIsTyped DEF Used, Heaps
  <2>9. ASSUME NEW f \in Heaps, NEW g \in Heaps
        PROVE  Members(pub'[f]) \intersect Members(priv'[g]) = {}
    <3>1. Members(pub'[f]) \subseteq Members(pub[f]) \union {c}
      BY <1>6
    <3>2. priv' = priv
      BY <1>3
    <3>3. c \notin Members(priv[g])
      BY <2>8 DEF Kept
    <3>4. Members(pub[f]) \intersect Members(priv[g]) = {}
      BY DEF RemSetIInv, ListsInv
    <3> QED
      BY <3>1, <3>2, <3>3, <3>4
  <2>10. Members(pub'[Parent]) \intersect Members(pub'[Child]) = {}
    <3>1. /\ Members(pub[Parent]) \intersect Members(pub[Child]) = {}
          /\ c \notin Members(pub[Parent]) /\ c \notin Members(pub[Child])
      BY <2>8, ZeroIsTyped DEF RemSetIInv, ListsInv, Kept
    <3>2. /\ Members(pub'[Parent]) \subseteq Members(pub[Parent]) \union {c}
          /\ Members(pub'[Child]) \subseteq Members(pub[Child]) \union {c}
          /\ Members(pub'[Parent]) = Members(pub[Parent]) \/ h = Parent
          /\ Members(pub'[Child]) = Members(pub[Child]) \/ h = Child
      BY <1>6, ZeroIsTyped
    <3> HIDE DEF h, c
    <3>3. Parent # Child
      BY ZeroIsTyped
    <3> QED
      BY <3>1, <3>2, <3>3
  <2>11. \A g \in Heaps : Kept(g)' \intersect InHand' = {}
    BY <1>8, <2>8 DEF RemSetIInv, ListsInv
  <2>12. /\ Distinct(ow'.taken)
         /\ Members(priv'[Parent]) \intersect Members(priv'[Child]) = {}
    BY <1>3 DEF RemSetIInv, ListsInv
  <2> QED
    BY <2>4, <2>5, <2>6, <2>7, <2>9, <2>10, <2>11, <2>12 DEF ListsInv
<1>11. OwnerInv'
  BY <1>3 DEF RemSetIInv, OwnerInv, history
<1>12. StorersInv'
  <2>1. \A t \in Storers : st[t].heap \in Heaps
    BY DEF RemSetIInv, RemSetTypeInv, Types, StorerStates
  <2> QED
    BY <1>1, <1>3, <1>8, <1>9, <2>1 DEF RemSetIInv, StorersInv, Moves
<1>13. KeptInv'
  BY <1>3, <1>9 DEF RemSetIInv, KeptInv, EntriesOf, history
<1>14. PassInv'
  <2>1. ow.heap \in Heaps
    BY DEF RemSetIInv, RemSetTypeInv, Types, OwnerStates
  <2>2. ASSUME NEW d \in Chunks, NEW k \in Slots, Reaches(d, k) PROVE Reaches(d, k)'
    <3>1. CASE ow.pc = "pop" \/ ow.pc = "plain"
      BY <1>3, <1>6, <2>1, <2>2, <3>1 DEF Reaches
    <3>2. CASE ow.pc \in {"enter", "scan", "next"}
      <4>1. PICK i \in 1 .. Len(pub[ow.heap]), j \in 1 .. Len(pub[ow.heap]) :
              /\ pub[ow.heap][i] = ow.cur /\ pub[ow.heap][j] = d
              /\ \/ i < j
                 \/ i = j /\ ow.pc = "enter"
                 \/ i = j /\ ow.pc = "scan" /\ ow.pos < k /\ k <= ow.front
        BY <2>2, <3>2 DEF Reaches
      <4>2. /\ i \in 1 .. Len(pub'[ow.heap]) /\ j \in 1 .. Len(pub'[ow.heap])
            /\ pub'[ow.heap][i] = ow.cur /\ pub'[ow.heap][j] = d
        BY <1>6, <2>1, <4>1
      <4> QED
        BY <1>3, <3>2, <4>1, <4>2 DEF Reaches
    <3> QED
      BY <2>2, <3>1, <3>2 DEF Reaches
  <2>3. ASSUME NEW e, Ahead(e) PROVE Ahead(e)'
    BY <1>3, <2>2, <2>3 DEF Ahead
  <2> QED
    BY <1>3, <2>3 DEF RemSetIInv, PassInv, history
<1>15. SlotsInv'
  <2>1. \A t \in Storers, d \in Chunks, k \in Slots : Claims(t, d, k)' <=> Claims(t, d, k)
    BY <1>1, <1>2 DEF Claims, Moves
  <2> QED
    BY <1>1, <1>3, <2>1 DEF RemSetIInv, SlotsInv, Moves
<1> QED
  BY <1>7, <1>10, <1>11, <1>12, <1>13, <1>14, <1>15 DEF RemSetIInv

(* The steps of the storers keep the invariant.                             *)
LEMMA StorerSteps ==
  ASSUME RemSetIInv, NEW s \in Storers, StorerStep(s)
  PROVE  RemSetIInv'
BY RememberStep, LoadLastStep, LoadFrontierStep, ClaimStep, CopyStep, RecheckStep,
   AllocateStep, PublishStep DEF StorerStep

-----------------------------------------------------------------------------
(* The steps of the owner *)

(* The types after a step of the owner.                                     *)
LEMMA OwnerTypes ==
  ASSUME RemSetTypeInv, UNCHANGED <<memory, st>>, returned' = returned,
         ow' \in OwnerStates, linked' \in BOOLEAN, passes' \in 0 .. MaxPasses,
         pub' \in [Heaps -> Seq(Chunks)], priv' \in [Heaps -> Seq(Chunks)],
         visited' \subseteq Entries, due' \subseteq Entries, quiet' \in BOOLEAN,
         ow'.pc \in {"enter", "scan", "next"} => ow'.cur \in Members(pub'[ow'.heap]),
         ow'.pc \in {"sweep", "fish"} => ow'.i <= Len(ow'.fishy),
         ow'.pc = "fish" => ow'.i > 0
  PROVE  RemSetTypeInv'
<1>1. Types'
  BY DEF RemSetTypeInv, Types, memory
<1>2. PointersInv'
  BY DEF RemSetTypeInv, PointersInv
<1> QED
  BY <1>1, <1>2 DEF RemSetTypeInv

(* The owner fills no slots, so these are as they were.                     *)
LEMMA SlotsKept ==
  ASSUME SlotsInv, UNCHANGED <<slot, frontier, st>>
  PROVE  SlotsInv'
BY DEF SlotsInv, Claims

(* The chunks may move between lists, if they stay with their heap.         *)
LEMMA StorersKept ==
  ASSUME StorersInv, UNCHANGED st, linked => linked', Used \subseteq Used',
         \A h \in Heaps : ~(linked' /\ h = Child) => Holding(h) \subseteq Holding(h)',
         \A s \in Storers : st[s].heap \in Heaps
  PROVE  StorersInv'
BY DEF StorersInv

(* What was remembered is kept if no chunk leaves the home.                 *)
LEMMA EntriesKept ==
  ASSUME KeptInv, UNCHANGED slot, returned' = returned, Home \subseteq Home'
  PROVE  KeptInv'
BY DEF KeptInv, EntriesOf

(* The owner holds nothing outside of the two moves.                        *)
LEMMA NothingTaken ==
  ASSUME Types, OwnerInv, ow.pc \notin {"plain", "give"}
  PROVE  /\ ow.taken = <<>> /\ InHand = {}
         /\ \A h \in Heaps : Holding(h) = Kept(h)
<1>1. ow.taken = <<>>
  BY DEF OwnerInv
<1> QED
  BY <1>1, EmptyFacts DEF InHand, Holding, TakenFor

(* A step of the owner within a pass that moves no list.                    *)
LEMMA OwnerStill ==
  ASSUME RemSetIInv, RemSetTypeInv', UNCHANGED <<lists, memory, st>>, returned' = returned,
         ow.pc \notin {"plain", "give", "take"}, ow'.pc \notin {"plain", "give", "take"},
         ow'.taken = <<>>, ow'.pc = "idle" => due' = {},
         ow'.pc = "pop" /\ linked => ow'.heap = Parent, PassInv'
  PROVE  RemSetIInv'
<1>1. ow.taken = <<>> /\ InHand = {}
  BY NothingTaken DEF RemSetIInv, RemSetTypeInv
<1>2. InHand' = {} /\ ow'.taken = ow.taken
  BY <1>1, EmptyFacts DEF InHand
<1>3. /\ Kept(Parent)' = Kept(Parent) /\ Kept(Child)' = Kept(Child)
      /\ \A h \in Heaps : Kept(h)' = Kept(h)
  BY DEF Kept, lists
<1>4. Used' = Used /\ Home' = Home /\ \A h \in Heaps : Holding(h)' = Holding(h)
  BY <1>1, <1>2, <1>3, ZeroIsTyped DEF Used, Home, Holding, TakenFor, lists
<1>5. ListsInv'
  BY <1>2, <1>3, <1>4 DEF RemSetIInv, ListsInv, lists, memory
<1>6. OwnerInv'
  BY DEF OwnerInv, lists
<1>7. SlotsInv'
  BY SlotsKept DEF RemSetIInv, memory
<1>8. StorersInv'
  BY <1>4, StorersKept DEF RemSetIInv, RemSetTypeInv, Types, StorerStates, lists
<1>9. KeptInv'
  BY <1>4, EntriesKept DEF RemSetIInv, memory
<1> QED
  BY <1>5, <1>6, <1>7, <1>8, <1>9 DEF RemSetIInv

(* What the owner is doing goes into one of its fields after another.       *)
LEMMA OwnerFields ==
  ASSUME Types
  PROVE  /\ ow.heap \in Heaps /\ ow.taken \in Seq(Chunks) /\ ow.cur \in Chunks \union {None}
         /\ ow.pos \in 0 .. EntriesPerChunk /\ ow.front \in 0 .. EntriesPerChunk
         /\ ow.fishy \in Seq([chunk : Chunks, scanned : 0 .. EntriesPerChunk])
         /\ ow.i \in Nat /\ Len(ow.fishy) \in Nat
BY DEF Types, OwnerStates

(* A private list is gone through up to the first empty slot of each chunk. *)
LEMMA ForeachFacts ==
  ASSUME Types, SlotsInv, NEW chunks \in Seq(Chunks)
  PROVE  /\ ForeachPrivate(chunks) \subseteq Entries
         /\ \A c \in Members(chunks), k \in Slots :
              (\A j \in 1 .. k : slot[c][j] # None) => slot[c][k] \in ForeachPrivate(chunks)
<1>1. Members(chunks) \subseteq Chunks
  BY MembersAreChunks
<1>2. ASSUME NEW c \in Members(chunks)
      PROVE  FilledPrefix(c) \subseteq Entries
  <2>1. \A j \in 1 .. frontier[c] : j \in Slots /\ j \in 1 .. j
    <3>1. frontier[c] \in 0 .. EntriesPerChunk
      BY <1>1 DEF Types
    <3> QED
      BY <3>1, ZeroIsTyped DEF Slots
  <2>2. \A j \in Slots : slot[c][j] \in Entries \union {None}
    BY <1>1 DEF Types
  <2> QED
    BY <2>1, <2>2 DEF FilledPrefix
<1>3. ASSUME NEW c \in Members(chunks), NEW k \in Slots, \A j \in 1 .. k : slot[c][j] # None
      PROVE  slot[c][k] \in FilledPrefix(c)
  <2>1. k \in 1 .. k /\ k \in Nat
    BY DEF Slots
  <2>2. k <= frontier[c]
    BY <1>1, <1>3, <2>1 DEF SlotsInv
  <2>3. k \in 1 .. frontier[c]
    <3>1. frontier[c] \in Nat
      BY <1>1 DEF Types
    <3> QED
      BY <2>2, <3>1 DEF Slots
  <2> QED
    BY <1>3, <2>3 DEF FilledPrefix
<1> QED
  BY <1>2, <1>3 DEF ForeachPrivate

(* At the start of a pass with nobody between claiming and filling a slot,  *)
(* no empty slot is before an entry.                                        *)
LEMMA QuietSlots ==
  ASSUME RemSetIInv, \A s \in Storers : st[s].pc \in {"idle", "load"},
         NEW c \in Chunks, NEW e \in EntriesOf(c)
  PROVE  \E k \in Slots : slot[c][k] = e /\ \A j \in 1 .. k : slot[c][j] # None
<1>1. PICK k \in Slots : slot[c][k] = e /\ e # None
  BY DEF EntriesOf, Slots
<1>2. k <= frontier[c] /\ frontier[c] \in Nat
  BY <1>1 DEF RemSetIInv, SlotsInv, RemSetTypeInv, Types
<1>3. \A j \in 1 .. k : j \in Slots /\ j <= frontier[c]
  BY <1>2, ZeroIsTyped DEF Slots
<1>4. \A s \in Storers, j \in Slots : ~Claims(s, c, j)
  BY DEF Claims
<1> QED
  BY <1>1, <1>3, <1>4 DEF RemSetIInv, SlotsInv

(* A pass begins: what the private list holds is visited at once, and the   *)
(* rest of what was remembered is in the public list.                       *)
LEMMA BeginPassFacts ==
  ASSUME RemSetIInv, NEW h \in Heaps, BeginPass(h)
  PROVE  /\ UNCHANGED <<lists, memory, st, returned>> /\ ow.pc = "idle"
         /\ visited' \subseteq Entries /\ due' \subseteq Entries /\ quiet' \in BOOLEAN
         /\ passes' \in 0 .. MaxPasses
         /\ quiet' => \A e \in due' :
              \/ e \in visited'
              \/ \E c \in Members(pub[h]), k \in Slots :
                   c \in Chunks /\ slot[c][k] = e /\ \A j \in 1 .. k : slot[c][j] # None
<1>1. UNCHANGED <<lists, memory, st, returned>> /\ ow.pc = "idle"
  BY DEF BeginPass
<1>2. pub[h] \in Seq(Chunks) /\ priv[h] \in Seq(Chunks)
  BY DEF RemSetIInv, RemSetTypeInv, Types
<1>3. visited' = ForeachPrivate(priv[h]) /\ visited' \subseteq Entries
  BY <1>2, ForeachFacts DEF BeginPass, RemSetIInv, RemSetTypeInv
<1>4. due' \subseteq Entries /\ quiet' \in BOOLEAN /\ passes' \in 0 .. MaxPasses
  BY RemSetAssumption DEF BeginPass, RemSetIInv, RemSetTypeInv, Types
<1>5. ASSUME quiet', NEW e \in due', e \notin visited'
      PROVE  \E c \in Members(pub[h]), k \in Slots :
               c \in Chunks /\ slot[c][k] = e /\ \A j \in 1 .. k : slot[c][j] # None
  <2>1. \A s \in Storers : st[s].pc \in {"idle", "load"}
    BY <1>5 DEF BeginPass
  <2>2. PICK c \in Members(pub[h] \o priv[h]) : e \in EntriesOf(c)
    BY <1>5 DEF BeginPass
  <2>3. c \in Members(pub[h]) \/ c \in Members(priv[h])
    BY <1>2, <2>2, ConcatFacts
  <2>4. c \in Chunks
    BY <1>2, <2>3, MembersAreChunks
  <2>5. PICK k \in Slots : slot[c][k] = e /\ \A j \in 1 .. k : slot[c][j] # None
    BY <2>1, <2>2, <2>4, QuietSlots
  <2>6. c \notin Members(priv[h])
    BY <1>2, <1>3, <1>5, <2>5, ForeachFacts DEF RemSetIInv, RemSetTypeInv
  <2> QED
    BY <2>3, <2>4, <2>5, <2>6
<1> QED
  BY <1>1, <1>3, <1>4, <1>5

(* A pass that starts at the first chunk has all of the public list ahead.  *)
LEMMA BeginTrackedStep ==
  ASSUME RemSetIInv, NEW h \in Heaps, BeginTracked(h)
  PROVE  RemSetIInv'
<1>1. /\ UNCHANGED <<lists, memory, st, returned>> /\ ow.pc = "idle"
      /\ visited' \subseteq Entries /\ due' \subseteq Entries /\ quiet' \in BOOLEAN
      /\ passes' \in 0 .. MaxPasses
      /\ quiet' => \A e \in due' :
           \/ e \in visited'
           \/ \E c \in Members(pub[h]), k \in Slots :
                c \in Chunks /\ slot[c][k] = e /\ \A j \in 1 .. k : slot[c][j] # None
  BY BeginPassFacts DEF BeginTracked
<1>2. pub[h] \in Seq(Chunks)
  BY DEF RemSetIInv, RemSetTypeInv, Types
<1>3. PICK f \in Chunks \union {None} : f = FirstChunk(pub[h])
  BY <1>2, EndsFacts
<1>4. PICK label \in {"end", "enter"} : label = (IF pub[h] = <<>> THEN "end" ELSE "enter")
  OBVIOUS
<1> DEFINE u == [IdleOwner EXCEPT !.heap = h, !.tracked = TRUE, !.cur = f, !.pc = label]
<1>5. u \in OwnerStates
  BY ZeroIsTyped DEF IdleOwner, OwnerStates, OwnerPC
<1>6. u.pc = label /\ u.heap = h /\ u.cur = f /\ u.taken = <<>>
  BY DEF IdleOwner
<1>7. ow' = u
  BY <1>3, <1>4 DEF BeginTracked
<1> HIDE DEF u
<1>8. label = "enter" => f = pub[h][1] /\ 1 \in 1 .. Len(pub[h]) /\ f \in Members(pub[h])
  BY <1>2, <1>3, <1>4, EndsFacts DEF Members
<1>9. RemSetTypeInv'
  BY <1>1, <1>5, <1>6, <1>7, <1>8, OwnerTypes DEF RemSetIInv, RemSetTypeInv, Types, lists
<1>10. PassInv'
  <2>1. ASSUME quiet', NEW e \in due', e \notin visited' PROVE Ahead(e)'
    <3>1. PICK c \in Members(pub[h]), k \in Slots :
            c \in Chunks /\ slot[c][k] = e /\ \A j \in 1 .. k : slot[c][j] # None
      BY <1>1, <2>1
    <3>2. PICK j \in 1 .. Len(pub[h]) : pub[h][j] = c
      BY DEF Members
    <3>3. pub[h] # <<>> /\ label = "enter"
      BY <1>4, <3>2
    <3>4. 1 < j \/ 1 = j
      BY <1>2, <3>2
    <3>5. Reaches(c, k)'
      BY <1>1, <1>6, <1>7, <1>8, <3>2, <3>3, <3>4 DEF Reaches, lists
    <3> QED
      BY <1>1, <3>1, <3>5 DEF Ahead, memory
  <2> QED
    BY <2>1 DEF PassInv
<1> QED
  BY <1>1, <1>6, <1>7, <1>9, <1>10, OwnerStill

(* A pass that is to pop the public list has all of it ahead.               *)
LEMMA BeginPlainStep ==
  ASSUME RemSetIInv, NEW h \in Heaps, BeginPlain(h)
  PROVE  RemSetIInv'
<1>1. /\ UNCHANGED <<lists, memory, st, returned>> /\ ow.pc = "idle"
      /\ visited' \subseteq Entries /\ due' \subseteq Entries /\ quiet' \in BOOLEAN
      /\ passes' \in 0 .. MaxPasses
      /\ quiet' => \A e \in due' :
           \/ e \in visited'
           \/ \E c \in Members(pub[h]), k \in Slots :
                c \in Chunks /\ slot[c][k] = e /\ \A j \in 1 .. k : slot[c][j] # None
  BY BeginPassFacts DEF BeginPlain
<1>2. pub[h] \in Seq(Chunks)
  BY DEF RemSetIInv, RemSetTypeInv, Types
<1>3. PICK label \in {"end", "pop"} : label = (IF pub[h] = <<>> THEN "end" ELSE "pop")
  OBVIOUS
<1> DEFINE u == [IdleOwner EXCEPT !.heap = h, !.pc = label]
<1>4. u \in OwnerStates
  BY ZeroIsTyped DEF IdleOwner, OwnerStates, OwnerPC
<1>5. u.pc = label /\ u.heap = h /\ u.taken = <<>>
  BY DEF IdleOwner
<1>6. ow' = u
  BY <1>3 DEF BeginPlain
<1> HIDE DEF u
<1>9. linked => h = Parent
  BY ZeroIsTyped DEF BeginPlain, BeginPass, Root, Heaps
<1>7. RemSetTypeInv'
  BY <1>1, <1>4, <1>5, <1>6, OwnerTypes DEF RemSetIInv, RemSetTypeInv, Types, lists
<1>8. PassInv'
  <2>1. ASSUME quiet', NEW e \in due', e \notin visited' PROVE Ahead(e)'
    <3>1. PICK c \in Members(pub[h]), k \in Slots :
            c \in Chunks /\ slot[c][k] = e /\ \A j \in 1 .. k : slot[c][j] # None
      BY <1>1, <2>1
    <3>2. label = "pop"
      BY <1>2, <1>3, EmptyFacts
    <3>3. Reaches(c, k)'
      BY <1>1, <1>5, <1>6, <3>2 DEF Reaches, lists
    <3> QED
      BY <1>1, <3>1, <3>3 DEF Ahead, memory
  <2> QED
    BY <2>1 DEF PassInv
<1> QED
  BY <1>1, <1>5, <1>6, <1>7, <1>8, <1>9, OwnerStill

(* The chunks of a list that is taken stay with their heap.                 *)
LEMMA PopPlainStep ==
  ASSUME RemSetIInv, PopPlain
  PROVE  RemSetIInv'
<1> DEFINE h == ow.heap
<1>1. /\ ow.pc = "pop" /\ ow' = [ow EXCEPT !.taken = pub[h], !.pc = "plain"]
      /\ pub' = [pub EXCEPT ![h] = <<>>]
      /\ UNCHANGED <<priv, linked, memory, st, passes, history>>
  BY DEF PopPlain
<1>2. h \in Heaps /\ pub \in [Heaps -> Seq(Chunks)] /\ priv \in [Heaps -> Seq(Chunks)]
  BY OwnerFields DEF RemSetIInv, RemSetTypeInv, Types
<1>3. PICK taken \in Seq(Chunks) : taken = pub[h]
  BY <1>2
<1>4. /\ ow' \in OwnerStates /\ ow'.pc = "plain" /\ ow'.taken = taken /\ ow'.heap = h
  BY <1>1, <1>3 DEF RemSetIInv, RemSetTypeInv, Types, OwnerStates, OwnerPC
<1>5. ow.taken = <<>> /\ InHand = {} /\ \A g \in Heaps : Holding(g) = Kept(g)
  BY <1>1, NothingTaken DEF RemSetIInv, RemSetTypeInv
<1>6. /\ InHand' = Members(pub[h])
      /\ \A g \in Heaps : Members(pub'[g]) = IF g = h THEN {} ELSE Members(pub[g])
      /\ \A g \in Heaps : pub'[g] = IF g = h THEN <<>> ELSE pub[g]
  BY <1>1, <1>2, <1>3, <1>4, EmptyFacts DEF InHand
<1>7. RemSetTypeInv'
  <2>1. pub' \in [Heaps -> Seq(Chunks)]
    BY <1>1, <1>2, EmptyFacts
  <2> QED
    BY <1>1, <1>4, <2>1, OwnerTypes DEF RemSetIInv, RemSetTypeInv, Types, history
<1>8. \A g \in Heaps : Holding(g)' = Holding(g)
  BY <1>1, <1>4, <1>5, <1>6 DEF Holding, Kept, TakenFor
<1>9. Used' = Used /\ Home' = Home
  <2>1. Used' = Used
    BY <1>1, <1>2, <1>5, <1>6, ZeroIsTyped DEF Used, Kept, Heaps
  <2>2. Home' = Home
    BY <1>1, <1>4, <1>8, ZeroIsTyped DEF Home
  <2> QED
    BY <2>1, <2>2
<1>10. ListsInv'
  <2>1. /\ \A g \in Heaps : Distinct(pub'[g]) /\ Distinct(priv'[g])
        /\ Distinct(ow'.taken)
    BY <1>1, <1>2, <1>3, <1>4, <1>6, EmptyFacts DEF RemSetIInv, ListsInv
  <2>2. ASSUME NEW f \in Heaps, NEW g \in Heaps
        PROVE  Members(pub'[f]) \intersect Members(priv'[g]) = {}
    <3>1. Members(pub'[f]) \subseteq Members(pub[f]) /\ priv'[g] = priv[g]
      BY <1>1, <1>6
    <3>2. Members(pub[f]) \intersect Members(priv[g]) = {}
      BY DEF RemSetIInv, ListsInv
    <3> QED
      BY <3>1, <3>2
  <2>3. /\ Members(pub'[Parent]) \intersect Members(pub'[Child]) = {}
        /\ Members(priv'[Parent]) \intersect Members(priv'[Child]) = {}
    BY <1>1, <1>6, ZeroIsTyped DEF RemSetIInv, ListsInv
  <2>4. \A g \in Heaps : Kept(g)' \intersect InHand' = {}
    <3>1. \A f, g \in Heaps : f # g => Members(pub[f]) \intersect Members(pub[g]) = {}
      BY DEF RemSetIInv, ListsInv, Heaps
    <3> QED
      BY <1>1, <1>2, <1>6, <3>1 DEF RemSetIInv, ListsInv, Kept
  <2> QED
    BY <1>1, <1>9, <2>1, <2>2, <2>3, <2>4 DEF RemSetIInv, ListsInv, memory
<1>11. OwnerInv'
  BY <1>1, <1>4 DEF RemSetIInv, OwnerInv
<1>12. StorersInv'
  BY <1>1, <1>8, <1>9, StorersKept DEF RemSetIInv, RemSetTypeInv, Types, StorerStates
<1>13. SlotsInv' /\ KeptInv'
  BY <1>1, <1>9, SlotsKept, EntriesKept DEF RemSetIInv, memory, history
<1>14. PassInv'
  <2>1. ASSUME NEW e, Ahead(e) PROVE Ahead(e)'
    BY <1>1, <1>3, <1>4, <2>1 DEF Ahead, Reaches, memory
  <2> QED
    BY <1>1, <1>4, <2>1 DEF RemSetIInv, PassInv, history
<1> QED
  BY <1>7, <1>10, <1>11, <1>12, <1>13, <1>14 DEF RemSetIInv

(* The taken chunks are gone through and come back to the heap.             *)
LEMMA ScanPlainStep ==
  ASSUME RemSetIInv, ScanPlain
  PROVE  RemSetIInv'
<1> DEFINE h == ow.heap
<1>1. /\ ow.pc = "plain" /\ ow' = [ow EXCEPT !.taken = <<>>, !.pc = "end"]
      /\ visited' = visited \union ForeachPrivate(ow.taken)
      /\ priv' = [priv EXCEPT ![h] = @ \o ow.taken]
      /\ UNCHANGED <<pub, linked, memory, st, passes, returned, due, quiet>>
  BY DEF ScanPlain
<1>2. h \in Heaps /\ priv \in [Heaps -> Seq(Chunks)] /\ ow.taken \in Seq(Chunks)
  BY OwnerFields DEF RemSetIInv, RemSetTypeInv, Types
<1>3. ow' \in OwnerStates /\ ow'.pc = "end" /\ ow'.taken = <<>> /\ ow'.heap = h
  BY <1>1, EmptyFacts DEF RemSetIInv, RemSetTypeInv, Types, OwnerStates, OwnerPC
<1>4. /\ Distinct(priv[h]) /\ Distinct(ow.taken)
      /\ \A g \in Heaps : Kept(g) \intersect InHand = {}
      /\ \A f, g \in Heaps : Members(pub[f]) \intersect Members(priv[g]) = {}
      /\ Members(priv[Parent]) \intersect Members(priv[Child]) = {}
  BY <1>2 DEF RemSetIInv, ListsInv
<1>5. /\ priv[h] \o ow.taken \in Seq(Chunks) /\ Distinct(priv[h] \o ow.taken)
      /\ Members(priv[h] \o ow.taken) = Members(priv[h]) \union InHand
  <2>1. Members(priv[h]) \intersect Members(ow.taken) = {}
    BY <1>2, <1>4 DEF Kept, InHand
  <2> QED
    BY <1>2, <1>4, <2>1, ConcatFacts DEF InHand
<1>6. /\ priv' \in [Heaps -> Seq(Chunks)] /\ priv'[h] = priv[h] \o ow.taken
      /\ \A g \in Heaps : g # h => priv'[g] = priv[g]
  <2> DEFINE new == priv[h] \o ow.taken
  <2>1. new \in Seq(Chunks) /\ priv' = [priv EXCEPT ![h] = new]
    BY <1>1, <1>5
  <2> HIDE DEF new
  <2>2. /\ priv' \in [Heaps -> Seq(Chunks)] /\ priv'[h] = new
        /\ \A g \in Heaps : g # h => priv'[g] = priv[g]
    BY <1>2, <2>1
  <2> QED
    BY <2>2 DEF new
<1>7. InHand' = {} /\ \A g \in Heaps :
        Kept(g)' = Kept(g) \union (IF g = h THEN InHand ELSE {})
  BY <1>1, <1>3, <1>5, <1>6, EmptyFacts DEF InHand, Kept
<1>8. \A g \in Heaps : Holding(g)' = Holding(g)
  BY <1>1, <1>3, <1>7 DEF Holding, TakenFor
<1>9. Used' = Used /\ Home' = Home
  <2>1. Used' = Used
    BY <1>2, <1>7 DEF Used, Heaps
  <2>2. Home' = Home
    BY <1>1, <1>3, <1>8, ZeroIsTyped DEF Home
  <2> QED
    BY <2>1, <2>2
<1>10. RemSetTypeInv'
  <2>1. visited' \subseteq Entries
    BY <1>1, <1>2, ForeachFacts DEF RemSetIInv, RemSetTypeInv, Types
  <2> QED
    BY <1>1, <1>3, <1>6, <2>1, OwnerTypes DEF RemSetIInv, RemSetTypeInv, Types
<1>11. ListsInv'
  <2>1. \A g \in Heaps : Distinct(pub'[g]) /\ Distinct(priv'[g])
    BY <1>1, <1>5, <1>6 DEF RemSetIInv, ListsInv
  <2>2. Distinct(ow'.taken)
    BY <1>3, EmptyFacts
  <2>3. ASSUME NEW f \in Heaps, NEW g \in Heaps
        PROVE  Members(pub'[f]) \intersect Members(priv'[g]) = {}
    <3>1. Members(priv'[g]) \subseteq Members(priv[g]) \union InHand /\ pub'[f] = pub[f]
      BY <1>1, <1>5, <1>6
    <3>2. Members(pub[f]) \intersect InHand = {}
      BY <1>4 DEF Kept
    <3> QED
      BY <1>4, <3>1, <3>2
  <2>4. Members(priv'[Parent]) \intersect Members(priv'[Child]) = {}
    <3>1. \A g \in Heaps : Members(priv[g]) \intersect InHand = {}
      BY <1>4 DEF Kept
    <3>2. CASE h = Parent
      <4>1. /\ Members(priv'[Parent]) = Members(priv[Parent]) \union InHand
            /\ Members(priv'[Child]) = Members(priv[Child])
        BY <1>5, <1>6, <3>2, ZeroIsTyped
      <4> QED
        BY <1>4, <3>1, <4>1, ZeroIsTyped
    <3>3. CASE h = Child
      <4>1. /\ Members(priv'[Child]) = Members(priv[Child]) \union InHand
            /\ Members(priv'[Parent]) = Members(priv[Parent])
        BY <1>5, <1>6, <3>3, ZeroIsTyped
      <4> QED
        BY <1>4, <3>1, <4>1, ZeroIsTyped
    <3> QED
      BY <1>2, <3>2, <3>3 DEF Heaps
  <2>5. \A g \in Heaps : Kept(g)' \intersect InHand' = {}
    BY <1>7
  <2>6. Members(pub'[Parent]) \intersect Members(pub'[Child]) = {}
    BY <1>1 DEF RemSetIInv, ListsInv
  <2> QED
    BY <1>1, <1>9, <2>1, <2>2, <2>3, <2>4, <2>5, <2>6 DEF RemSetIInv, ListsInv, memory
<1>12. OwnerInv'
  BY <1>1, <1>3 DEF RemSetIInv, OwnerInv
<1>13. StorersInv'
  BY <1>1, <1>8, <1>9, StorersKept DEF RemSetIInv, RemSetTypeInv, Types, StorerStates
<1>14. SlotsInv' /\ KeptInv'
  BY <1>1, <1>9, SlotsKept, EntriesKept DEF RemSetIInv, memory
<1>15. PassInv'
  <2>1. ASSUME NEW e, Ahead(e) PROVE e \in visited'
    <3>1. PICK c \in Chunks, k \in Slots :
            slot[c][k] = e /\ (\A j \in 1 .. k : slot[c][j] # None) /\ c \in Members(ow.taken)
      BY <1>1, <2>1 DEF Ahead, Reaches
    <3> QED
      BY <1>1, <1>2, <3>1, ForeachFacts DEF RemSetIInv, RemSetTypeInv
  <2> QED
    BY <1>1, <1>3, <2>1 DEF RemSetIInv, PassInv
<1> QED
  BY <1>10, <1>11, <1>12, <1>13, <1>14, <1>15 DEF RemSetIInv

(* The owner enters a chunk: all that is filled there is still before it.   *)
LEMMA EnterChunkStep ==
  ASSUME RemSetIInv, EnterChunk
  PROVE  RemSetIInv'
<1>1. ow.pc = "enter" /\ UNCHANGED <<lists, memory, st, passes, history>>
  BY DEF EnterChunk
<1>2. ow.heap \in Heaps /\ ow.cur \in Members(pub[ow.heap]) /\ pub[ow.heap] \in Seq(Chunks)
  BY <1>1, OwnerFields DEF RemSetIInv, RemSetTypeInv, Types, PointersInv
<1>3. ow.cur \in Chunks
  BY <1>2, MembersAreChunks
<1>4. PICK f \in 0 .. EntriesPerChunk : f = frontier[ow.cur]
  BY <1>3 DEF RemSetIInv, RemSetTypeInv, Types
<1>5. ow' = [ow EXCEPT !.pos = 0, !.front = f, !.pc = "scan"]
  BY <1>4 DEF EnterChunk
<1>6. /\ ow' \in OwnerStates /\ ow'.pc = "scan" /\ ow'.pos = 0 /\ ow'.front = f
      /\ ow'.heap = ow.heap /\ ow'.cur = ow.cur /\ ow'.taken = ow.taken
  BY <1>5, ZeroIsTyped DEF RemSetIInv, RemSetTypeInv, Types, OwnerStates, OwnerPC
<1>7. ow.taken = <<>>
  BY <1>1 DEF RemSetIInv, OwnerInv
<1>8. RemSetTypeInv'
  BY <1>1, <1>2, <1>6, OwnerTypes DEF RemSetIInv, RemSetTypeInv, Types, lists, history
<1>9. PassInv'
  <2>1. ASSUME NEW e, Ahead(e) PROVE Ahead(e)'
    <3>1. PICK c \in Chunks, k \in Slots :
            slot[c][k] = e /\ (\A j \in 1 .. k : slot[c][j] # None) /\ Reaches(c, k)
      BY <2>1 DEF Ahead
    <3>2. PICK i \in 1 .. Len(pub[ow.heap]), j \in 1 .. Len(pub[ow.heap]) :
            pub[ow.heap][i] = ow.cur /\ pub[ow.heap][j] = c /\ (i < j \/ i = j)
      BY <1>1, <3>1 DEF Reaches
    <3>3. k \in 1 .. k /\ 0 < k
      BY DEF Slots
    <3>4. k <= frontier[c]
      BY <3>1, <3>3 DEF RemSetIInv, SlotsInv
    <3>5. i = j => k <= f
      BY <1>4, <3>2, <3>4
    <3>6. Reaches(c, k)'
      BY <1>1, <1>6, <3>2, <3>3, <3>5 DEF Reaches, lists
    <3> QED
      BY <1>1, <3>1, <3>6 DEF Ahead, memory
  <2> QED
    BY <1>1, <1>6, <2>1 DEF RemSetIInv, PassInv, history
<1> QED
  BY <1>1, <1>6, <1>7, <1>8, <1>9, OwnerStill DEF history

(* A visit hands one entry to the closure and goes one place on.            *)
LEMMA VisitFacts ==
  ASSUME RemSetIInv, NEW c \in Chunks, Visit(c)
  PROVE  /\ UNCHANGED <<lists, memory, st, passes, returned, due, quiet>>
         /\ ow' \in OwnerStates /\ ow'.pos = ow.pos + 1
         /\ ow'.pc = ow.pc /\ ow'.heap = ow.heap /\ ow'.cur = ow.cur /\ ow'.front = ow.front
         /\ ow'.taken = ow.taken /\ ow'.fishy = ow.fishy /\ ow'.i = ow.i
         /\ visited' \subseteq Entries /\ visited \subseteq visited'
         /\ slot[c][ow.pos + 1] \in visited'
<1>1. /\ ow.pos < ow.front /\ slot[c][ow.pos + 1] # None
      /\ visited' = visited \union {slot[c][ow.pos + 1]}
      /\ ow' = [ow EXCEPT !.pos = ow.pos + 1]
      /\ UNCHANGED <<lists, memory, st, passes, returned, due, quiet>>
  BY DEF Visit, CanVisit
<1>2. PICK p \in 0 .. EntriesPerChunk : p = ow.pos + 1 /\ p \in Slots
  BY <1>1, OwnerFields, ZeroIsTyped DEF RemSetIInv, RemSetTypeInv, Slots
<1>3. slot[c][p] \in Entries
  BY <1>1, <1>2 DEF RemSetIInv, RemSetTypeInv, Types
<1>4. ow' = [ow EXCEPT !.pos = p]
  BY <1>1, <1>2
<1> QED
  BY <1>1, <1>2, <1>3, <1>4 DEF RemSetIInv, RemSetTypeInv, Types, OwnerStates

(* Nothing is skipped in a chunk that is gone through.                      *)
LEMMA ScanChunkStep ==
  ASSUME RemSetIInv, ScanChunk
  PROVE  RemSetIInv'
<1>1. ow.pc = "scan" /\ Visit(ow.cur)
  BY DEF ScanChunk
<1>2. ow.heap \in Heaps /\ ow.cur \in Members(pub[ow.heap]) /\ pub[ow.heap] \in Seq(Chunks)
  BY <1>1, OwnerFields DEF RemSetIInv, RemSetTypeInv, Types, PointersInv
<1>3. ow.cur \in Chunks
  BY <1>2, MembersAreChunks
<1>4. /\ UNCHANGED <<lists, memory, st, passes, returned, due, quiet>>
      /\ ow' \in OwnerStates /\ ow'.pos = ow.pos + 1
      /\ ow'.pc = ow.pc /\ ow'.heap = ow.heap /\ ow'.cur = ow.cur /\ ow'.front = ow.front
      /\ ow'.taken = ow.taken /\ ow'.fishy = ow.fishy /\ ow'.i = ow.i
      /\ visited' \subseteq Entries /\ visited \subseteq visited'
      /\ slot[ow.cur][ow.pos + 1] \in visited'
  BY <1>1, <1>3, VisitFacts
<1>5. ow.taken = <<>>
  BY <1>1 DEF RemSetIInv, OwnerInv
<1>6. RemSetTypeInv'
  BY <1>1, <1>2, <1>4, OwnerTypes DEF RemSetIInv, RemSetTypeInv, Types, lists
<1>7. PassInv'
  <2>1. ASSUME NEW e, Ahead(e), e \notin visited' PROVE Ahead(e)'
    <3>1. PICK c \in Chunks, k \in Slots :
            slot[c][k] = e /\ (\A j \in 1 .. k : slot[c][j] # None) /\ Reaches(c, k)
      BY <2>1 DEF Ahead
    <3>2. PICK i \in 1 .. Len(pub[ow.heap]), j \in 1 .. Len(pub[ow.heap]) :
            /\ pub[ow.heap][i] = ow.cur /\ pub[ow.heap][j] = c
            /\ i < j \/ (i = j /\ ow.pos < k /\ k <= ow.front)
      BY <1>1, <3>1 DEF Reaches
    <3>3. i = j => k # ow.pos + 1
      BY <1>4, <2>1, <3>1, <3>2
    <3>4. ow.pos < k => k = ow.pos + 1 \/ ow.pos + 1 < k
      <4>1. ow.pos \in Int /\ k \in Int
        BY OwnerFields, RemSetAssumption DEF RemSetIInv, RemSetTypeInv, Slots
      <4> QED
        BY <4>1
    <3>5. Reaches(c, k)'
      BY <1>1, <1>4, <3>2, <3>3, <3>4 DEF Reaches, lists
    <3> QED
      BY <1>4, <3>1, <3>5 DEF Ahead, memory
  <2> QED
    BY <1>1, <1>4, <2>1 DEF RemSetIInv, PassInv
<1> QED
  BY <1>1, <1>4, <1>5, <1>6, <1>7, OwnerStill

(* A chunk is left at an empty slot: no entry the pass owes is behind it.   *)
LEMMA LeaveChunkStep ==
  ASSUME RemSetIInv, LeaveChunk
  PROVE  RemSetIInv'
<1>1. ow.pc = "scan" /\ ~CanVisit(ow.cur) /\ UNCHANGED <<lists, memory, st, passes, history>>
  BY DEF LeaveChunk
<1>2. ow.heap \in Heaps /\ ow.cur \in Members(pub[ow.heap]) /\ pub[ow.heap] \in Seq(Chunks)
  BY <1>1, OwnerFields DEF RemSetIInv, RemSetTypeInv, Types, PointersInv
<1>3. ow.cur \in Chunks
  BY <1>2, MembersAreChunks
<1>4. PICK f \in Seq([chunk : Chunks, scanned : 0 .. EntriesPerChunk]) :
        f = (IF IsFishy(ow.cur) THEN Append(ow.fishy, [chunk |-> ow.cur, scanned |-> ow.pos])
                                ELSE ow.fishy)
  <2>1. /\ [chunk |-> ow.cur, scanned |-> ow.pos]
             \in [chunk : Chunks, scanned : 0 .. EntriesPerChunk]
        /\ ow.fishy \in Seq([chunk : Chunks, scanned : 0 .. EntriesPerChunk])
    BY <1>3, OwnerFields DEF RemSetIInv, RemSetTypeInv
  <2>2. Append(ow.fishy, [chunk |-> ow.cur, scanned |-> ow.pos])
          \in Seq([chunk : Chunks, scanned : 0 .. EntriesPerChunk])
    BY <2>1, AppendProperties
  <2> QED
    BY <2>1, <2>2
<1>5. ow' = [ow EXCEPT !.pc = "next", !.fishy = f]
  BY <1>4 DEF LeaveChunk
<1>6. /\ ow' \in OwnerStates /\ ow'.pc = "next"
      /\ ow'.heap = ow.heap /\ ow'.cur = ow.cur /\ ow'.taken = ow.taken
  BY <1>4, <1>5 DEF RemSetIInv, RemSetTypeInv, Types, OwnerStates, OwnerPC
<1>7. ow.taken = <<>>
  BY <1>1 DEF RemSetIInv, OwnerInv
<1>8. RemSetTypeInv'
  BY <1>1, <1>2, <1>6, OwnerTypes DEF RemSetIInv, RemSetTypeInv, Types, lists, history
<1>9. PassInv'
  <2>1. ASSUME NEW e, Ahead(e) PROVE Ahead(e)'
    <3>1. PICK c \in Chunks, k \in Slots :
            slot[c][k] = e /\ (\A j \in 1 .. k : slot[c][j] # None) /\ Reaches(c, k)
      BY <2>1 DEF Ahead
    <3>2. PICK i \in 1 .. Len(pub[ow.heap]), j \in 1 .. Len(pub[ow.heap]) :
            /\ pub[ow.heap][i] = ow.cur /\ pub[ow.heap][j] = c
            /\ i < j \/ (i = j /\ ow.pos < k /\ k <= ow.front)
      BY <1>1, <3>1 DEF Reaches
    <3>3. i < j
      <4>1. ASSUME i = j, ow.pos < k, k <= ow.front PROVE FALSE
        <5>1. ow.pos < ow.front /\ ow.pos + 1 \in 1 .. k
          BY <4>1, OwnerFields DEF RemSetIInv, RemSetTypeInv, Slots
        <5> QED
          BY <1>1, <3>1, <3>2, <4>1, <5>1 DEF CanVisit
      <4> QED
        BY <3>2, <4>1
    <3>4. Reaches(c, k)'
      BY <1>1, <1>6, <3>2, <3>3 DEF Reaches, lists
    <3> QED
      BY <1>1, <3>1, <3>4 DEF Ahead, memory
  <2> QED
    BY <1>1, <1>6, <2>1 DEF RemSetIInv, PassInv, history
<1> QED
  BY <1>1, <1>6, <1>7, <1>8, <1>9, OwnerStill DEF history

(* The owner goes to the next chunk, and to no other.                       *)
LEMMA FollowNextStep ==
  ASSUME RemSetIInv, FollowNext
  PROVE  RemSetIInv'
<1> DEFINE list == pub[ow.heap]
<1>1. ow.pc = "next" /\ UNCHANGED <<lists, memory, st, passes, history>>
  BY DEF FollowNext
<1>2. ow.heap \in Heaps /\ ow.cur \in Members(list) /\ list \in Seq(Chunks) /\ Distinct(list)
  BY <1>1, OwnerFields DEF RemSetIInv, RemSetTypeInv, Types, PointersInv, ListsInv
<1>3. PICK c \in Chunks \union {None} :
        c = NextChunk(list, ow.cur) /\ (c # None => c \in Members(list))
  BY <1>2, NextIsMember, MembersAreChunks
<1>4. PICK label \in {"sweep", "enter"} : label = (IF c = None THEN "sweep" ELSE "enter")
  OBVIOUS
<1>5. PICK n \in Nat : n = Len(ow.fishy)
  BY OwnerFields DEF RemSetIInv, RemSetTypeInv
<1>6. ow' = [ow EXCEPT !.cur = c, !.pc = label, !.i = n, !.changed = FALSE]
  BY <1>3, <1>4, <1>5 DEF FollowNext
<1>7. /\ ow' \in OwnerStates /\ ow'.pc = label /\ ow'.cur = c /\ ow'.i = n
      /\ ow'.heap = ow.heap /\ ow'.taken = ow.taken /\ ow'.fishy = ow.fishy
  BY <1>6 DEF RemSetIInv, RemSetTypeInv, Types, OwnerStates, OwnerPC
<1>8. ow.taken = <<>>
  BY <1>1 DEF RemSetIInv, OwnerInv
<1>9. RemSetTypeInv'
  BY <1>1, <1>2, <1>3, <1>4, <1>5, <1>7, OwnerTypes DEF RemSetIInv, RemSetTypeInv, Types, lists, history
<1>10. PassInv'
  <2>1. ASSUME NEW e, Ahead(e) PROVE Ahead(e)'
    <3>1. PICK d \in Chunks, k \in Slots :
            slot[d][k] = e /\ (\A j \in 1 .. k : slot[d][j] # None) /\ Reaches(d, k)
      BY <2>1 DEF Ahead
    <3>2. PICK i \in 1 .. Len(list), j \in 1 .. Len(list) :
            list[i] = ow.cur /\ list[j] = d /\ i < j
      BY <1>1, <3>1 DEF Reaches
    <3>3. Len(list) \in Nat
      BY <1>2
    <3> HIDE DEF list
    <3>4. i # Len(list) /\ i + 1 \in 1 .. Len(list) /\ (i + 1 < j \/ i + 1 = j)
      BY <3>2, <3>3
    <3>5. c = list[i + 1]
      BY <1>2, <1>3, <3>2, <3>4, NextFacts
    <3>6. list[i + 1] \in Members(list)
      BY <3>4 DEF Members
    <3>7. label = "enter"
      BY <1>2, <1>4, <3>5, <3>6, MembersAreChunks
    <3>8. Reaches(d, k)'
      BY <1>1, <1>7, <3>2, <3>4, <3>5, <3>7 DEF Reaches, lists, list
    <3> QED
      BY <1>1, <3>1, <3>8 DEF Ahead, memory
  <2> QED
    BY <1>1, <1>7, <2>1 DEF RemSetIInv, PassInv, history
<1> QED
  BY <1>1, <1>4, <1>7, <1>8, <1>9, <1>10, OwnerStill DEF history

(* Behind the chunks of the list nothing is ahead: the pass owes nothing.   *)
LEMMA NothingAhead ==
  ASSUME PassInv, ow.pc \notin {"pop", "plain", "enter", "scan", "next", "crashed"},
         due' = due, quiet' = quiet, visited \subseteq visited'
  PROVE  PassInv'
BY DEF PassInv, Ahead, Reaches

(* The entries of the fishy chunks are of the chunks, and typed.            *)
LEMMA FishyFacts ==
  ASSUME RemSetTypeInv, ow.pc \in {"sweep", "fish"}, ow.i > 0
  PROVE  /\ ow.i \in 1 .. Len(ow.fishy) /\ ow.fishy[ow.i].chunk \in Chunks
         /\ ow.fishy[ow.i].scanned \in 0 .. EntriesPerChunk
         /\ frontier[ow.fishy[ow.i].chunk] \in 0 .. EntriesPerChunk
<1>1. ow.i \in 1 .. Len(ow.fishy)
  BY OwnerFields DEF RemSetTypeInv, PointersInv
<1>2. ow.fishy[ow.i] \in [chunk : Chunks, scanned : 0 .. EntriesPerChunk]
  <2>1. ow.fishy \in Seq([chunk : Chunks, scanned : 0 .. EntriesPerChunk])
    BY OwnerFields DEF RemSetTypeInv
  <2> QED
    BY <1>1, <2>1, ElementOfSeq
<1> QED
  BY <1>1, <1>2 DEF RemSetTypeInv, Types

(* The sweep over the fishy chunks goes from one to the next.               *)
LEMMA SweepFishyStep ==
  ASSUME RemSetIInv, SweepFishy
  PROVE  RemSetIInv'
<1>1. ow.pc = "sweep" /\ UNCHANGED <<lists, memory, st, passes, history>>
  BY DEF SweepFishy
<1>2. ow.taken = <<>>
  BY <1>1 DEF RemSetIInv, OwnerInv
<1>3. /\ ow' \in OwnerStates /\ ow'.pc \in {"sweep", "fish", "last"} /\ ow'.taken = ow.taken
      /\ ow'.pc = "fish" => ow'.i > 0
      /\ ow'.pc \in {"sweep", "fish"} => ow'.i <= Len(ow'.fishy)
  <2>1. CASE ow.i > 0
    <3>1. PICK p \in 0 .. EntriesPerChunk, f \in 0 .. EntriesPerChunk :
            p = ow.fishy[ow.i].scanned /\ f = frontier[ow.fishy[ow.i].chunk]
      BY <1>1, <2>1, FishyFacts DEF RemSetIInv
    <3>2. ow' = [ow EXCEPT !.pos = p, !.pc = "fish", !.front = f]
      BY <2>1, <3>1 DEF SweepFishy
    <3>3. /\ ow' \in OwnerStates /\ ow'.pc = "fish" /\ ow'.taken = ow.taken
          /\ ow'.i = ow.i /\ ow'.fishy = ow.fishy
      BY <3>2 DEF RemSetIInv, RemSetTypeInv, Types, OwnerStates, OwnerPC
    <3> QED
      BY <1>1, <2>1, <3>3 DEF RemSetIInv, RemSetTypeInv, PointersInv
  <2>2. CASE ~(ow.i > 0) /\ ow.changed
    <3>1. PICK n \in Nat : n = Len(ow.fishy)
      BY OwnerFields DEF RemSetIInv, RemSetTypeInv
    <3>2. ow' = [ow EXCEPT !.i = n, !.changed = FALSE]
      BY <2>2, <3>1 DEF SweepFishy
    <3>3. /\ ow' \in OwnerStates /\ ow'.pc = "sweep" /\ ow'.taken = ow.taken
          /\ ow'.i = n /\ ow'.fishy = ow.fishy
      BY <1>1, <3>2 DEF RemSetIInv, RemSetTypeInv, Types, OwnerStates, OwnerPC
    <3> QED
      BY <3>1, <3>3
  <2>3. CASE ~(ow.i > 0) /\ ~ow.changed
    <3>1. ow' = [ow EXCEPT !.pc = "last"]
      BY <2>3 DEF SweepFishy
    <3>2. ow' \in OwnerStates /\ ow'.pc = "last" /\ ow'.taken = ow.taken
      BY <3>1 DEF RemSetIInv, RemSetTypeInv, Types, OwnerStates, OwnerPC
    <3> QED
      BY <3>2
  <2> QED
    BY <2>1, <2>2, <2>3
<1>4. RemSetTypeInv'
  BY <1>1, <1>3, OwnerTypes DEF RemSetIInv, RemSetTypeInv, Types, lists, history
<1>5. PassInv'
  BY <1>1, NothingAhead DEF RemSetIInv, history
<1> QED
  BY <1>1, <1>2, <1>3, <1>4, <1>5, OwnerStill DEF history

(* An entry that came late to a fishy chunk is visited.                     *)
LEMMA ScanFishyStep ==
  ASSUME RemSetIInv, ScanFishy
  PROVE  RemSetIInv'
<1>1. ow.pc = "fish" /\ Visit(ow.fishy[ow.i].chunk) /\ ow.i > 0 /\ ow.i <= Len(ow.fishy)
  BY DEF ScanFishy, RemSetIInv, RemSetTypeInv, PointersInv
<1>2. ow.taken = <<>>
  BY <1>1 DEF RemSetIInv, OwnerInv
<1>3. ow.fishy[ow.i].chunk \in Chunks
  BY <1>1, FishyFacts DEF RemSetIInv
<1>4. /\ UNCHANGED <<lists, memory, st, passes, returned, due, quiet>>
      /\ ow' \in OwnerStates /\ ow'.pc = ow.pc /\ ow'.taken = ow.taken
      /\ ow'.fishy = ow.fishy /\ ow'.i = ow.i
      /\ visited' \subseteq Entries /\ visited \subseteq visited'
  BY <1>1, <1>3, VisitFacts
<1>5. RemSetTypeInv'
  BY <1>1, <1>4, OwnerTypes DEF RemSetIInv, RemSetTypeInv, Types, lists
<1>6. PassInv'
  BY <1>1, <1>4, NothingAhead DEF RemSetIInv
<1> QED
  BY <1>1, <1>2, <1>4, <1>5, <1>6, OwnerStill

(* A fishy chunk is left at its frontier, or looked at once more.           *)
LEMMA LeaveFishyStep ==
  ASSUME RemSetIInv, LeaveFishy
  PROVE  RemSetIInv'
<1>1. ow.pc = "fish" /\ UNCHANGED <<lists, memory, st, passes, history>>
  BY DEF LeaveFishy
<1>2. ow.taken = <<>> /\ ow.i > 0
  BY <1>1 DEF RemSetIInv, OwnerInv, RemSetTypeInv, PointersInv
<1>3. /\ ow.i \in 1 .. Len(ow.fishy)
      /\ frontier[ow.fishy[ow.i].chunk] \in 0 .. EntriesPerChunk
  BY <1>1, <1>2, FishyFacts DEF RemSetIInv
<1>4. /\ ow' \in OwnerStates /\ ow'.pc \in {"sweep", "fish"} /\ ow'.taken = ow.taken
      /\ ow'.pc = "fish" => ow'.i > 0
      /\ ow'.i <= Len(ow'.fishy)
  <2>1. CASE ow.pos = frontier[ow.fishy[ow.i].chunk]
    <3>1. PICK b \in BOOLEAN : b = (ow.changed \/ ow.pos # ow.fishy[ow.i].scanned)
      OBVIOUS
    <3>2. PICK f : f = [ow.fishy EXCEPT ![ow.i].scanned = ow.pos]
      OBVIOUS
    <3>3. f \in Seq([chunk : Chunks, scanned : 0 .. EntriesPerChunk]) /\ Len(f) = Len(ow.fishy)
      <4>1. PICK r \in [chunk : Chunks, scanned : 0 .. EntriesPerChunk] : r = ow.fishy[ow.i]
        <5>1. ow.fishy \in Seq([chunk : Chunks, scanned : 0 .. EntriesPerChunk])
          BY OwnerFields DEF RemSetIInv, RemSetTypeInv
        <5> QED
          BY <1>3, <5>1, ElementOfSeq
      <4>2. [r EXCEPT !.scanned = ow.pos] \in [chunk : Chunks, scanned : 0 .. EntriesPerChunk]
        BY OwnerFields DEF RemSetIInv, RemSetTypeInv
      <4>3. f = [ow.fishy EXCEPT ![ow.i] = [r EXCEPT !.scanned = ow.pos]]
        BY <3>2, <4>1
      <4> QED
        BY <1>3, <4>2, <4>3, OwnerFields, ExceptSeq DEF RemSetIInv, RemSetTypeInv
    <3>4. PICK n \in Nat : n = ow.i - 1
      BY <1>3
    <3>5. ow' = [ow EXCEPT !.changed = b, !.fishy = f, !.i = n, !.pc = "sweep"]
      <4>1. ow' = [ow EXCEPT !.changed = @ \/ ow.pos # ow.fishy[ow.i].scanned,
                             !.fishy[ow.i].scanned = ow.pos, !.i = @ - 1, !.pc = "sweep"]
        BY <2>1 DEF LeaveFishy
      <4> QED
        BY <3>1, <3>2, <3>4, <4>1 DEF RemSetIInv, RemSetTypeInv, Types, OwnerStates
    <3>6. /\ ow' \in OwnerStates /\ ow'.pc = "sweep" /\ ow'.taken = ow.taken
          /\ ow'.fishy = f /\ ow'.i = n
      BY <3>3, <3>5 DEF RemSetIInv, RemSetTypeInv, Types, OwnerStates, OwnerPC
    <3> QED
      BY <1>3, <3>3, <3>4, <3>6, OwnerFields DEF RemSetIInv, RemSetTypeInv
  <2>2. CASE ow.pos # frontier[ow.fishy[ow.i].chunk]
    <3>1. PICK n \in 0 .. EntriesPerChunk : n = frontier[ow.fishy[ow.i].chunk]
      BY <1>3
    <3>2. ow' = [ow EXCEPT !.front = n]
      BY <2>2, <3>1 DEF LeaveFishy
    <3>3. /\ ow' \in OwnerStates /\ ow'.pc = ow.pc /\ ow'.taken = ow.taken
          /\ ow'.fishy = ow.fishy /\ ow'.i = ow.i
      BY <3>2 DEF RemSetIInv, RemSetTypeInv, Types, OwnerStates
    <3> QED
      BY <1>1, <1>2, <1>3, <3>3
  <2> QED
    BY <2>1, <2>2
<1>5. RemSetTypeInv'
  BY <1>1, <1>4, OwnerTypes DEF RemSetIInv, RemSetTypeInv, Types, lists, history
<1>6. PassInv'
  BY <1>1, NothingAhead DEF RemSetIInv, history
<1> QED
  BY <1>1, <1>2, <1>4, <1>5, <1>6, OwnerStill DEF history

(* The last look at lastChunk moves nothing.                                *)
LEMMA CheckLastStep ==
  ASSUME RemSetIInv, CheckLast
  PROVE  RemSetIInv'
<1>1. ow.pc = "last" /\ UNCHANGED <<lists, memory, st, passes, history>>
  BY DEF CheckLast
<1>2. PICK label \in {"popTracked", "crashed"} : ow' = [ow EXCEPT !.pc = label]
  BY DEF CheckLast
<1>3. ow' \in OwnerStates /\ ow'.pc = label /\ ow'.taken = ow.taken
  BY <1>2 DEF RemSetIInv, RemSetTypeInv, Types, OwnerStates, OwnerPC
<1>4. ow.taken = <<>>
  BY <1>1 DEF RemSetIInv, OwnerInv
<1>5. RemSetTypeInv'
  BY <1>1, <1>2, <1>3, OwnerTypes DEF RemSetIInv, RemSetTypeInv, Types, lists, history
<1>6. PassInv'
  BY <1>1, NothingAhead DEF RemSetIInv, history
<1> QED
  BY <1>1, <1>2, <1>3, <1>4, <1>5, <1>6, OwnerStill DEF history

(* A pass ends, and with it what it owed.                                   *)
LEMMA EndPassStep ==
  ASSUME RemSetIInv, EndPass
  PROVE  RemSetIInv'
<1>1. /\ ow.pc = "end" /\ ow' = IdleOwner /\ due' = {} /\ visited' = {} /\ quiet' = TRUE
      /\ UNCHANGED <<lists, memory, st, passes, returned>>
  BY DEF EndPass
<1>2. ow' \in OwnerStates /\ ow'.pc = "idle" /\ ow'.taken = <<>>
  BY <1>1, ZeroIsTyped DEF IdleOwner
<1>3. RemSetTypeInv'
  BY <1>1, <1>2, OwnerTypes DEF RemSetIInv, RemSetTypeInv, Types, lists
<1>4. PassInv'
  BY <1>1 DEF PassInv
<1> QED
  BY <1>1, <1>2, <1>3, <1>4, OwnerStill

(* The public list is popped where it was gone through, and stays with the  *)
(* heap.                                                                    *)
LEMMA PopTrackedStep ==
  ASSUME RemSetIInv, PopTracked
  PROVE  RemSetIInv'
<1> DEFINE h == ow.heap
<1>1. /\ ow.pc = "popTracked" /\ ow' = [IdleOwner EXCEPT !.pc = "end", !.tracked = TRUE]
      /\ priv' = [priv EXCEPT ![h] = @ \o pub[h]] /\ pub' = [pub EXCEPT ![h] = <<>>]
      /\ UNCHANGED <<linked, memory, st, passes, history>>
  BY DEF PopTracked
<1>2. h \in Heaps /\ pub \in [Heaps -> Seq(Chunks)] /\ priv \in [Heaps -> Seq(Chunks)]
  BY OwnerFields DEF RemSetIInv, RemSetTypeInv, Types
<1>3. ow' \in OwnerStates /\ ow'.pc = "end" /\ ow'.taken = <<>>
  BY <1>1, ZeroIsTyped DEF IdleOwner, OwnerStates, OwnerPC
<1>4. /\ \A g \in Heaps : Distinct(pub[g]) /\ Distinct(priv[g])
      /\ \A f, g \in Heaps : Members(pub[f]) \intersect Members(priv[g]) = {}
      /\ Members(pub[Parent]) \intersect Members(pub[Child]) = {}
      /\ Members(priv[Parent]) \intersect Members(priv[Child]) = {}
  BY DEF RemSetIInv, ListsInv
<1>5. PICK new \in Seq(Chunks) :
        /\ new = priv[h] \o pub[h] /\ Distinct(new)
        /\ Members(new) = Members(priv[h]) \union Members(pub[h])
  <2>1. Members(priv[h]) \intersect Members(pub[h]) = {}
    BY <1>2, <1>4
  <2>2. priv[h] \in Seq(Chunks) /\ pub[h] \in Seq(Chunks) /\ Distinct(priv[h]) /\ Distinct(pub[h])
    BY <1>2, <1>4
  <2> QED
    BY <2>1, <2>2, ConcatFacts
<1>6. /\ priv' \in [Heaps -> Seq(Chunks)] /\ pub' \in [Heaps -> Seq(Chunks)]
      /\ priv'[h] = new /\ pub'[h] = <<>>
      /\ \A g \in Heaps : g # h => priv'[g] = priv[g] /\ pub'[g] = pub[g]
  BY <1>1, <1>2, <1>5, EmptyFacts
<1>7. /\ Members(priv'[h]) = Members(priv[h]) \union Members(pub[h])
      /\ Members(pub'[h]) = {}
      /\ \A g \in Heaps : g # h =>
           Members(priv'[g]) = Members(priv[g]) /\ Members(pub'[g]) = Members(pub[g])
  BY <1>5, <1>6, EmptyFacts
<1>8. InHand = {} /\ InHand' = {} /\ \A g \in Heaps : Holding(g) = Kept(g)
  BY <1>1, <1>3, NothingTaken, EmptyFacts DEF RemSetIInv, RemSetTypeInv, InHand
<1>9. \A g \in Heaps : Kept(g)' = Kept(g) /\ Holding(g)' = Holding(g)
  BY <1>2, <1>3, <1>7, <1>8 DEF Kept, Holding, TakenFor
<1>10. Used' = Used /\ Home' = Home
  <2>1. Used' = Used
    BY <1>8, <1>9, ZeroIsTyped DEF Used
  <2>2. Home' = Home
    BY <1>1, <1>3, <1>9, ZeroIsTyped DEF Home
  <2> QED
    BY <2>1, <2>2
<1>11. RemSetTypeInv'
  BY <1>1, <1>3, <1>6, OwnerTypes DEF RemSetIInv, RemSetTypeInv, Types, history
<1>12. ListsInv'
  <2>1. \A g \in Heaps : Distinct(pub'[g]) /\ Distinct(priv'[g])
    BY <1>4, <1>5, <1>6, EmptyFacts
  <2>2. Distinct(ow'.taken)
    BY <1>3, EmptyFacts
  <2>3. \A f, g \in Heaps : f # g => Members(pub[f]) \intersect Members(pub[g]) = {}
    BY <1>4 DEF Heaps
  <2>4. ASSUME NEW f \in Heaps, NEW g \in Heaps
        PROVE  Members(pub'[f]) \intersect Members(priv'[g]) = {}
    <3>1. CASE f = h
      BY <1>7, <3>1
    <3>2. CASE f # h
      <4>1. /\ Members(pub'[f]) = Members(pub[f])
            /\ Members(priv'[g]) \subseteq Members(priv[g]) \union Members(pub[h])
        BY <1>7, <3>2
      <4>2. Members(pub[f]) \intersect Members(pub[h]) = {}
        BY <1>2, <2>3, <3>2
      <4>3. Members(pub[f]) \intersect Members(priv[g]) = {}
        BY <1>4
      <4> QED
        BY <4>1, <4>2, <4>3
    <3> QED
      BY <3>1, <3>2
  <2>5. \A f, g \in Heaps : f # g => Members(priv'[f]) \intersect Members(priv'[g]) = {}
    <3>1. ASSUME NEW f \in Heaps, NEW g \in Heaps, f # g, g # h
          PROVE  Members(priv'[f]) \intersect Members(priv'[g]) = {}
      <4>1. /\ Members(priv'[g]) = Members(priv[g])
            /\ Members(priv'[f]) \subseteq Members(priv[f]) \union Members(pub[h])
        BY <1>7, <3>1
      <4>2. Members(priv[f]) \intersect Members(priv[g]) = {}
        BY <1>4, <3>1 DEF Heaps
      <4>3. Members(pub[h]) \intersect Members(priv[g]) = {}
        BY <1>2, <1>4
      <4> QED
        BY <4>1, <4>2, <4>3
    <3>2. \A f, g \in Heaps : f # g => g # h \/ f # h
      OBVIOUS
    <3> HIDE DEF h
    <3> QED
      BY <3>1, <3>2
  <2>6. Members(pub'[Parent]) \intersect Members(pub'[Child]) = {}
    <3>1. \A g \in Heaps : Members(pub'[g]) \subseteq Members(pub[g])
      BY <1>7
    <3> QED
      BY <1>4, <3>1, ZeroIsTyped
  <2>7. \A g \in Heaps : Kept(g)' \intersect InHand' = {}
    BY <1>8
  <2>8. Members(priv'[Parent]) \intersect Members(priv'[Child]) = {}
    BY <2>5, ZeroIsTyped
  <2> QED
    BY <1>1, <1>10, <2>1, <2>2, <2>4, <2>6, <2>7, <2>8 DEF RemSetIInv, ListsInv, memory
<1>13. OwnerInv'
  BY <1>3 DEF OwnerInv
<1>14. StorersInv'
  BY <1>1, <1>9, <1>10, StorersKept DEF RemSetIInv, RemSetTypeInv, Types, StorerStates
<1>15. SlotsInv' /\ KeptInv'
  BY <1>1, <1>10, SlotsKept, EntriesKept DEF RemSetIInv, memory, history
<1>16. PassInv'
  BY <1>1, NothingAhead DEF RemSetIInv, history
<1> QED
  BY <1>11, <1>12, <1>13, <1>14, <1>15, <1>16 DEF RemSetIInv

(* The union-find node is linked first: the child's chunks are to follow.   *)
LEMMA LinkIntoStep ==
  ASSUME RemSetIInv, LinkInto
  PROVE  RemSetIInv'
<1>1. /\ ow.pc = "idle" /\ passes < MaxPasses /\ passes' = passes + 1 /\ linked' = TRUE
      /\ ow' = [ow EXCEPT !.pc = "take"]
      /\ UNCHANGED <<pub, priv, memory, st, history>>
  BY DEF LinkInto
<1>2. ow' \in OwnerStates /\ ow'.pc = "take" /\ ow'.taken = ow.taken
  BY <1>1 DEF RemSetIInv, RemSetTypeInv, Types, OwnerStates, OwnerPC
<1>3. ow.taken = <<>> /\ InHand = {} /\ \A g \in Heaps : Holding(g) = Kept(g)
  BY <1>1, NothingTaken DEF RemSetIInv, RemSetTypeInv
<1>4. InHand' = {} /\ \A g \in Heaps : Kept(g)' = Kept(g) /\ Holding(g)' = Kept(g)
  BY <1>1, <1>2, <1>3 DEF InHand, Kept, Holding, TakenFor
<1>5. Used' = Used /\ Home \subseteq Home'
  BY <1>1, <1>2, <1>3, <1>4, ZeroIsTyped DEF Used, Home
<1>6. passes' \in 0 .. MaxPasses
  BY <1>1, RemSetAssumption DEF RemSetIInv, RemSetTypeInv, Types
<1>7. RemSetTypeInv'
  BY <1>1, <1>2, <1>6, OwnerTypes DEF RemSetIInv, RemSetTypeInv, Types, history
<1>8. ListsInv'
  BY <1>1, <1>2, <1>3, <1>4, <1>5 DEF RemSetIInv, ListsInv, memory
<1>9. OwnerInv'
  BY <1>1, <1>2, <1>3 DEF RemSetIInv, OwnerInv, history
<1>10. StorersInv'
  BY <1>1, <1>3, <1>4, <1>5, StorersKept DEF RemSetIInv, RemSetTypeInv, Types, StorerStates
<1>11. SlotsInv' /\ KeptInv'
  BY <1>1, <1>5, SlotsKept, EntriesKept DEF RemSetIInv, memory, history
<1>12. PassInv'
  BY <1>1 DEF RemSetIInv, OwnerInv, PassInv, history
<1> QED
  BY <1>7, <1>8, <1>9, <1>10, <1>11, <1>12 DEF RemSetIInv

(* The child's private chunks go to the parent, its public ones are on the  *)
(* way there.                                                               *)
LEMMA TakeChildStep ==
  ASSUME RemSetIInv, TakeChild
  PROVE  RemSetIInv'
<1>1. /\ ow.pc = "take"
      /\ priv' = [priv EXCEPT ![Parent] = @ \o priv[Child], ![Child] = <<>>]
      /\ pub' = [pub EXCEPT ![Child] = <<>>]
      /\ UNCHANGED <<linked, memory, st, passes, history>>
  BY DEF TakeChild
<1>2. pub \in [Heaps -> Seq(Chunks)] /\ priv \in [Heaps -> Seq(Chunks)]
  BY DEF RemSetIInv, RemSetTypeInv, Types
<1>3. /\ \A g \in Heaps : Distinct(pub[g]) /\ Distinct(priv[g])
      /\ \A f, g \in Heaps : Members(pub[f]) \intersect Members(priv[g]) = {}
      /\ Members(pub[Parent]) \intersect Members(pub[Child]) = {}
      /\ Members(priv[Parent]) \intersect Members(priv[Child]) = {}
  BY DEF RemSetIInv, ListsInv
<1>4. PICK new \in Seq(Chunks) :
        /\ new = priv[Parent] \o priv[Child] /\ Distinct(new)
        /\ Members(new) = Members(priv[Parent]) \union Members(priv[Child])
  BY <1>2, <1>3, ConcatFacts, ZeroIsTyped
<1>5. PICK taken \in Seq(Chunks) : taken = pub[Child] /\ Distinct(taken)
  BY <1>2, <1>3, ZeroIsTyped
<1>6. PICK label \in {"idle", "give"} : label = (IF pub[Child] = <<>> THEN "idle" ELSE "give")
  OBVIOUS
<1>7. ow' = [ow EXCEPT !.taken = taken, !.pc = label]
  BY <1>5, <1>6 DEF TakeChild
<1>8. ow' \in OwnerStates /\ ow'.pc = label /\ ow'.taken = taken
  BY <1>7 DEF RemSetIInv, RemSetTypeInv, Types, OwnerStates, OwnerPC
<1>9. /\ priv' \in [Heaps -> Seq(Chunks)] /\ pub' \in [Heaps -> Seq(Chunks)]
      /\ priv'[Parent] = new /\ priv'[Child] = <<>>
      /\ pub'[Parent] = pub[Parent] /\ pub'[Child] = <<>>
  BY <1>1, <1>2, <1>4, EmptyFacts, ZeroIsTyped
<1>10. /\ Members(priv'[Parent]) = Members(priv[Parent]) \union Members(priv[Child])
       /\ Members(priv'[Child]) = {} /\ Members(pub'[Child]) = {}
       /\ Members(pub'[Parent]) = Members(pub[Parent])
       /\ InHand' = Members(pub[Child])
       /\ label = "idle" => Members(pub[Child]) = {} /\ taken = <<>>
  BY <1>2, <1>4, <1>5, <1>6, <1>8, <1>9, EmptyFacts, ZeroIsTyped DEF InHand
<1>11. linked /\ InHand = {} /\ \A g \in Heaps : Holding(g) = Kept(g)
  BY <1>1, NothingTaken DEF RemSetIInv, RemSetTypeInv, OwnerInv
<1>12. Holding(Parent)' = Used /\ Used' = Used /\ Home' = Used /\ Home \subseteq Used
  <2>1. Holding(Parent)' = Used
    BY <1>6, <1>8, <1>10, <1>11 DEF Holding, Used, Kept, TakenFor
  <2>2. Used' = Used
    BY <1>10, <1>11 DEF Used, Kept
  <2>3. Home' = Used
    BY <1>1, <1>6, <1>8, <1>11, <2>1 DEF Home
  <2>4. Home \subseteq Used
    BY <1>11, ZeroIsTyped DEF Home, Used
  <2> QED
    BY <2>1, <2>2, <2>3, <2>4
<1>13. RemSetTypeInv'
  BY <1>1, <1>6, <1>8, <1>9, OwnerTypes DEF RemSetIInv, RemSetTypeInv, Types, history
<1>14. ListsInv'
  <2>1. \A g \in Heaps : Distinct(pub'[g]) /\ Distinct(priv'[g])
    BY <1>3, <1>4, <1>9, EmptyFacts DEF Heaps
  <2>2. \A f, g \in Heaps : Members(pub'[f]) \intersect Members(priv'[g]) = {}
    BY <1>3, <1>10 DEF Heaps
  <2>3. \A g \in Heaps : Kept(g)' \intersect InHand' = {}
    BY <1>3, <1>10 DEF Heaps, Kept
  <2>4. Used' \intersect free' = {} /\ \A s \in Storers : st'[s].fresh \notin Used' \union free'
    BY <1>1, <1>12 DEF RemSetIInv, ListsInv, memory
  <2> QED
    BY <1>1, <1>5, <1>8, <1>10, <2>1, <2>2, <2>3, <2>4 DEF RemSetIInv, ListsInv
<1>15. OwnerInv'
  BY <1>1, <1>6, <1>8, <1>10, <1>11 DEF RemSetIInv, OwnerInv, history
<1>16. StorersInv'
  <2>1. \A g \in Heaps : ~(linked' /\ g = Child) => Holding(g) \subseteq Holding(g)'
    BY <1>1, <1>11, <1>12 DEF Heaps, Used
  <2>2. \A s \in Storers : st[s].heap \in Heaps
    BY DEF RemSetIInv, RemSetTypeInv, Types, StorerStates
  <2> QED
    BY <1>1, <1>12, <2>1, <2>2, StorersKept DEF RemSetIInv
<1>17. SlotsInv' /\ KeptInv'
  BY <1>1, <1>12, SlotsKept, EntriesKept DEF RemSetIInv, memory, history
<1>18. PassInv'
  BY <1>1 DEF RemSetIInv, OwnerInv, PassInv, history
<1> QED
  BY <1>13, <1>14, <1>15, <1>16, <1>17, <1>18 DEF RemSetIInv

(* The chunks arrive: those of the storers that stay with the child are now *)
(* in the parent's list.                                                    *)
LEMMA GiveParentStep ==
  ASSUME RemSetIInv, GiveParent
  PROVE  RemSetIInv'
<1>1. /\ ow.pc = "give" /\ ow' = IdleOwner
      /\ retire' = [c \in Chunks |-> retire[c] \/ c = LastChunk(pub[Parent])]
      /\ pub' = [pub EXCEPT ![Parent] = @ \o ow.taken]
      /\ UNCHANGED <<priv, linked, frontier, slot, free, st, passes, history>>
  BY DEF GiveParent
<1>2. pub \in [Heaps -> Seq(Chunks)] /\ ow.taken \in Seq(Chunks) /\ linked
  BY <1>1, OwnerFields DEF RemSetIInv, RemSetTypeInv, Types, OwnerInv
<1>3. /\ \A g \in Heaps : Distinct(pub[g]) /\ Distinct(priv[g])
      /\ Distinct(ow.taken)
      /\ \A f, g \in Heaps : Members(pub[f]) \intersect Members(priv[g]) = {}
      /\ Members(pub[Parent]) \intersect Members(pub[Child]) = {}
      /\ \A g \in Heaps : Kept(g) \intersect InHand = {}
  BY DEF RemSetIInv, ListsInv
<1>4. PICK new \in Seq(Chunks) :
        /\ new = pub[Parent] \o ow.taken /\ Distinct(new)
        /\ Members(new) = Members(pub[Parent]) \union InHand
  <2>1. Members(pub[Parent]) \intersect Members(ow.taken) = {}
    BY <1>3, ZeroIsTyped DEF Kept, InHand
  <2> QED
    BY <1>2, <1>3, <2>1, ConcatFacts, ZeroIsTyped DEF InHand
<1>5. /\ pub' \in [Heaps -> Seq(Chunks)] /\ pub'[Parent] = new /\ pub'[Child] = pub[Child]
  BY <1>1, <1>2, <1>4, ZeroIsTyped
<1>6. /\ Members(pub'[Parent]) = Members(pub[Parent]) \union InHand
      /\ Members(pub'[Child]) = Members(pub[Child])
  BY <1>4, <1>5
<1>7. ow' \in OwnerStates /\ ow'.pc = "idle" /\ ow'.taken = <<>> /\ InHand' = {}
  BY <1>1, ZeroIsTyped, EmptyFacts DEF IdleOwner, InHand
<1>8. \A g \in Heaps : Holding(g)' = Holding(g)
  <2>1. Holding(Parent) = Kept(Parent) \union InHand /\ Holding(Child) = Kept(Child)
    BY <1>1, ZeroIsTyped DEF Holding, TakenFor
  <2>2. Holding(Parent)' = Kept(Parent)' /\ Holding(Child)' = Kept(Child)'
    BY <1>7, ZeroIsTyped DEF Holding, TakenFor
  <2> QED
    BY <1>1, <1>6, <2>1, <2>2 DEF Kept, Heaps
<1>9. Used' = Used /\ Home' = Home
  <2>1. Used' = Used
    BY <1>1, <1>6, <1>7 DEF Used, Kept
  <2>2. Home' = Home
    BY <1>1, <1>7, <1>8, ZeroIsTyped DEF Home
  <2> QED
    BY <2>1, <2>2
<1>10. RemSetTypeInv'
  <2>1. retire' \in [Chunks -> BOOLEAN]
    BY <1>1
  <2>2. Types'
    BY <1>1, <1>5, <1>7, <2>1 DEF RemSetIInv, RemSetTypeInv, Types, history
  <2>3. PointersInv'
    BY <1>1, <1>7 DEF RemSetIInv, RemSetTypeInv, PointersInv
  <2> QED
    BY <2>2, <2>3 DEF RemSetTypeInv
<1>11. ListsInv'
  <2>1. \A g \in Heaps : Distinct(pub'[g]) /\ Distinct(priv'[g])
    BY <1>1, <1>3, <1>4, <1>5 DEF Heaps
  <2>2. Distinct(ow'.taken)
    BY <1>7, EmptyFacts
  <2>3. ASSUME NEW f \in Heaps, NEW g \in Heaps
        PROVE  Members(pub'[f]) \intersect Members(priv'[g]) = {}
    <3>1. Members(pub'[f]) \subseteq Members(pub[f]) \union InHand /\ priv'[g] = priv[g]
      BY <1>1, <1>6 DEF Heaps
    <3>2. Members(priv[g]) \intersect InHand = {}
      BY <1>3 DEF Kept
    <3> QED
      BY <1>3, <3>1, <3>2
  <2>4. Members(pub'[Parent]) \intersect Members(pub'[Child]) = {}
    <3>1. Members(pub[Child]) \intersect InHand = {}
      BY <1>3, ZeroIsTyped DEF Kept
    <3> QED
      BY <1>3, <1>6, <3>1
  <2>5. \A g \in Heaps : Kept(g)' \intersect InHand' = {}
    BY <1>7
  <2> QED
    BY <1>1, <1>9, <2>1, <2>2, <2>3, <2>4, <2>5 DEF RemSetIInv, ListsInv
<1>12. OwnerInv'
  BY <1>1, <1>7 DEF RemSetIInv, OwnerInv, history
<1>13. StorersInv'
  BY <1>1, <1>8, <1>9, StorersKept DEF RemSetIInv, RemSetTypeInv, Types, StorerStates
<1>14. SlotsInv' /\ KeptInv'
  BY <1>1, <1>9, SlotsKept, EntriesKept DEF RemSetIInv, history
<1>15. PassInv'
  BY <1>1 DEF RemSetIInv, OwnerInv, PassInv, history
<1> QED
  BY <1>10, <1>11, <1>12, <1>13, <1>14, <1>15 DEF RemSetIInv

(* The steps of the owner keep the invariant.                               *)
LEMMA OwnerSteps ==
  ASSUME RemSetIInv, OwnerStep
  PROVE  RemSetIInv'
BY BeginTrackedStep, BeginPlainStep, PopPlainStep, ScanPlainStep, EnterChunkStep, ScanChunkStep,
   LeaveChunkStep, FollowNextStep, SweepFishyStep, ScanFishyStep, LeaveFishyStep, CheckLastStep,
   PopTrackedStep, EndPassStep, LinkIntoStep, TakeChildStep, GiveParentStep DEF OwnerStep

-----------------------------------------------------------------------------
(* The theorems *)

(* Nothing is stored and no chunk is used at the start.                     *)
LEMMA RemSetInvariantInitial ==
  ASSUME RemSetInit
  PROVE  RemSetIInv
<1>1. RemSetTypeInv
  <2>1. Types
    <3>1. slot \in [Chunks -> [Slots -> Entries \union {None}]]
      BY DEF RemSetInit, Slots
    <3>2. pub \in [Heaps -> Seq(Chunks)] /\ priv \in [Heaps -> Seq(Chunks)]
      BY EmptyFacts DEF RemSetInit
    <3>3. passes \in 0 .. MaxPasses
      BY RemSetAssumption DEF RemSetInit
    <3> QED
      BY <3>1, <3>2, <3>3, ZeroIsTyped DEF RemSetInit, Types
  <2>2. PointersInv
    BY DEF RemSetInit, PointersInv, IdleStorer, IdleOwner
  <2> QED
    BY <2>1, <2>2 DEF RemSetTypeInv
<1>2. /\ \A h \in Heaps : pub[h] = <<>> /\ priv[h] = <<>> /\ Kept(h) = {}
      /\ ow.taken = <<>> /\ InHand = {} /\ Used = {} /\ ow.pc = "idle"
  <2>1. \A h \in Heaps : pub[h] = <<>> /\ priv[h] = <<>> /\ Kept(h) = {}
    BY EmptyFacts DEF RemSetInit, Kept
  <2>2. ow.taken = <<>> /\ InHand = {} /\ ow.pc = "idle"
    BY EmptyFacts DEF RemSetInit, IdleOwner, InHand
  <2> QED
    BY <2>1, <2>2, ZeroIsTyped DEF Used
<1>3. ListsInv
  <2>1. \A s \in Storers : st[s].fresh = None /\ None \notin Chunks
    BY ZeroIsTyped DEF RemSetInit, IdleStorer
  <2> QED
    BY <1>2, <2>1, EmptyFacts, ZeroIsTyped DEF ListsInv, RemSetInit
<1>4. OwnerInv
  BY <1>2 DEF OwnerInv, RemSetInit
<1>5. SlotsInv
  <2>1. \A s \in Storers : st[s].pc = "idle"
    BY DEF RemSetInit, IdleStorer
  <2>2. \A c \in Chunks, k \in Slots : slot[c][k] = None /\ ~(k <= frontier[c])
    BY DEF RemSetInit, Slots
  <2> QED
    BY <2>1, <2>2 DEF SlotsInv, Claims
<1>6. StorersInv
  BY DEF StorersInv, RemSetInit, IdleStorer
<1>7. KeptInv /\ PassInv
  BY DEF KeptInv, PassInv, RemSetInit
<1> QED
  BY <1>1, <1>3, <1>4, <1>5, <1>6, <1>7 DEF RemSetIInv

(* Every step keeps the invariant.                                          *)
LEMMA RemSetInvariantStep ==
  ASSUME RemSetIInv, [RemSetNext]_remSetVars
  PROVE  RemSetIInv'
<1>1. CASE OwnerStep
  BY <1>1, OwnerSteps
<1>2. CASE \E s \in Storers : StorerStep(s)
  BY <1>2, StorerSteps
<1>3. CASE UNCHANGED remSetVars
  <2>1. UNCHANGED <<lists, memory, st, ow, passes, history>>
    BY <1>3 DEF remSetVars, lists, memory, history
  <2>2. RemSetTypeInv'
    BY <2>1 DEF RemSetIInv, RemSetTypeInv, Types, PointersInv, lists, memory, history
  <2>3. Used' = Used /\ Home' = Home /\ \A h \in Heaps : Holding(h)' = Holding(h)
    BY <2>1, SameLists DEF lists
  <2>4. ListsInv' /\ OwnerInv'
    BY <2>1, <2>3 DEF RemSetIInv, ListsInv, OwnerInv, Kept, InHand, lists, memory, history
  <2>5. SlotsInv' /\ KeptInv'
    BY <2>1, <2>3, SlotsKept, EntriesKept DEF RemSetIInv, memory, history
  <2>7. StorersInv'
    BY <2>1, <2>3, StorersKept DEF RemSetIInv, RemSetTypeInv, Types, StorerStates, lists
  <2>6. PassInv'
    BY <2>1 DEF RemSetIInv, PassInv, Ahead, Reaches, lists, memory, history
  <2> QED
    BY <2>2, <2>4, <2>5, <2>6, <2>7 DEF RemSetIInv
<1> QED
  BY <1>1, <1>2, <1>3 DEF RemSetNext, Done

(* The invariant of the remembered sets: each chunk is in one place, a slot *)
(* below the frontier has its entry or its one claimant, and a storer's     *)
(* chunk stays with the heap it stores for until the heap is merged.        *)
THEOREM RemSetInvariant == RemSetSpec => []RemSetIInv
<1>1. RemSetInit => RemSetIInv
  BY RemSetInvariantInitial
<1>2. RemSetIInv /\ [RemSetNext]_remSetVars => RemSetIInv'
  BY RemSetInvariantStep
<1> QED
  BY <1>1, <1>2, PTL DEF RemSetSpec

(* The state has the shape the code's types give it, and no list holds a    *)
(* chunk that the allocator may hand out.                                   *)
THEOREM RemSetTypesKept == RemSetSpec => []RemSetTypeOK
<1>1. ASSUME RemSetIInv PROVE RemSetTypeOK
  <2>1. Types /\ \A h \in Heaps : Members(pub[h]) \subseteq Used /\ Members(priv[h]) \subseteq Used
    BY <1>1, ListsAreHeld DEF RemSetIInv, RemSetTypeInv
  <2>2. Used \subseteq Chunks \ free
    BY <1>1, <2>1, UsedAreChunks DEF RemSetIInv, ListsInv
  <2>3. \A s \in Storers : st[s].pc \in StorerPC /\ st[s].chunk \in Chunks \union {None}
    BY <2>1 DEF Types, StorerStates
  <2>4. ow.pc \in OwnerPC /\ ow.cur \in Chunks \union {None}
    BY <2>1 DEF Types, OwnerStates
  <2> QED
    BY <2>1, <2>2, <2>3, <2>4 DEF RemSetTypeOK, Types, Slots
<1>2. RemSetIInv => RemSetTypeOK
  BY <1>1
<1> QED
  BY <1>2, RemSetInvariant, PTL

(* An entry whose call of HM_HH_rememberAtLevel returned is in the set of   *)
(* the heap that stands for its object: no join, however it interleaves     *)
(* with the store, leaves it behind in the child.                           *)
THEOREM StoredIsKeptHolds == RemSetSpec => []StoredIsKept
<1>1. ASSUME RemSetIInv PROVE StoredIsKept
  <2>1. \A h \in Heaps : Holding(h) \subseteq Kept(h) \union InHand
    BY DEF Holding
  <2>2. Home \subseteq Kept(Parent) \union InHand
                        \union (IF linked /\ ow.pc # "take" THEN {} ELSE Kept(Child))
    BY <2>1, ZeroIsTyped DEF Home
  <2> QED
    BY <1>1, <2>2 DEF RemSetIInv, KeptInv, StoredIsKept
<1>2. RemSetIInv => StoredIsKept
  BY <1>1
<1> QED
  BY <1>2, RemSetInvariant, PTL

(* A pass that starts with nobody between claiming a slot and filling it    *)
(* hands every entry remembered so far to the closure, whatever the storers *)
(* do while it lasts.                                                       *)
THEOREM QuietPassVisitsAllHolds == RemSetSpec => []QuietPassVisitsAll
<1>1. RemSetIInv => QuietPassVisitsAll
  BY DEF RemSetIInv, PassInv, Ahead, Reaches, QuietPassVisitsAll
<1> QED
  BY <1>1, RemSetInvariant, PTL

(* A list without repetition has as many members as places.                 *)
LEMMA DistinctCount ==
  ASSUME NEW s \in Seq(Chunks), Distinct(s)
  PROVE  Cardinality(Members(s)) = Len(s)
<1>1. Len(s) \in Nat
  OBVIOUS
<1> DEFINE f == [i \in 1 .. Len(s) |-> s[i]]
<1>2. f \in [1 .. Len(s) -> Members(s)]
  BY DEF Members
<1>3. \A i, j \in 1 .. Len(s) : f[i] = f[j] => i = j
  BY DEF Distinct
<1>4. \A c \in Members(s) : \E i \in 1 .. Len(s) : f[i] = c
  BY DEF Members
<1> HIDE DEF f
<1>5. f \in Bijection(1 .. Len(s), Members(s))
  BY <1>2, <1>3, <1>4 DEF Bijection, Injection, Surjection, IsInjective
<1>6. ExistsBijection(1 .. Len(s), Members(s))
  BY <1>5 DEF ExistsBijection
<1> QED
  BY <1>1, <1>6, FS_CountingElements

(* A chunk is in one list, once, or with the allocator, or fresh in the     *)
(* hands of one storer.                                                     *)
THEOREM ChunksInOnePlaceHolds == RemSetSpec => []ChunksInOnePlace
<1>1. ASSUME RemSetIInv PROVE ChunksInOnePlace
  <2> DEFINE s1 == pub[Parent]
             s2 == s1 \o pub[Child]
             s3 == s2 \o priv[Parent]
             s4 == s3 \o priv[Child]
             s5 == s4 \o ow.taken
  <2>1. /\ pub[Parent] \in Seq(Chunks) /\ pub[Child] \in Seq(Chunks)
        /\ priv[Parent] \in Seq(Chunks) /\ priv[Child] \in Seq(Chunks)
        /\ ow.taken \in Seq(Chunks)
    BY <1>1, UsedAreChunks, ZeroIsTyped DEF RemSetIInv, RemSetTypeInv
  <2>2. /\ Distinct(pub[Parent]) /\ Distinct(pub[Child])
        /\ Distinct(priv[Parent]) /\ Distinct(priv[Child]) /\ Distinct(ow.taken)
        /\ Members(pub[Parent]) \intersect Members(pub[Child]) = {}
        /\ Members(priv[Parent]) \intersect Members(priv[Child]) = {}
        /\ \A f, g \in {Parent, Child} : Members(pub[f]) \intersect Members(priv[g]) = {}
        /\ \A f \in {Parent, Child} :
             /\ Members(pub[f]) \intersect Members(ow.taken) = {}
             /\ Members(priv[f]) \intersect Members(ow.taken) = {}
    BY <1>1 DEF RemSetIInv, ListsInv, Heaps, Kept, InHand
  <2>3. /\ s2 \in Seq(Chunks) /\ Distinct(s2)
        /\ Members(s2) = Members(pub[Parent]) \union Members(pub[Child])
    BY <2>1, <2>2, ConcatFacts
  <2> HIDE DEF s2
  <2>4. Members(s2) \intersect Members(priv[Parent]) = {}
    BY <2>2, <2>3
  <2>5. /\ s3 \in Seq(Chunks) /\ Distinct(s3)
        /\ Members(s3) = Members(s2) \union Members(priv[Parent])
    BY <2>1, <2>2, <2>3, <2>4, ConcatFacts
  <2> HIDE DEF s3
  <2>6. Members(s3) \intersect Members(priv[Child]) = {}
    BY <2>2, <2>3, <2>5
  <2>7. /\ s4 \in Seq(Chunks) /\ Distinct(s4)
        /\ Members(s4) = Members(s3) \union Members(priv[Child])
    BY <2>1, <2>2, <2>5, <2>6, ConcatFacts
  <2> HIDE DEF s4
  <2>8. Members(s4) \intersect Members(ow.taken) = {}
    BY <2>2, <2>3, <2>5, <2>7
  <2>9. /\ s5 \in Seq(Chunks) /\ Distinct(s5)
        /\ Members(s5) = Members(s4) \union Members(ow.taken)
    BY <2>1, <2>2, <2>7, <2>8, ConcatFacts
  <2> HIDE DEF s5
  <2>10. Members(s5) = Used
    BY <2>3, <2>5, <2>7, <2>9 DEF Used, Kept, InHand
  <2>11. Cardinality(Members(s5)) = Len(s5)
    BY <2>9, DistinctCount
  <2>12. Members(s5) \intersect (free \union ({st[s].fresh : s \in Storers} \ {None})) = {}
    BY <1>1, <2>10 DEF RemSetIInv, ListsInv
  <2> QED
    BY <2>11, <2>12 DEF ChunksInOnePlace, s5, s4, s3, s2
<1>2. RemSetIInv => ChunksInOnePlace
  BY <1>1
<1> QED
  BY <1>2, RemSetInvariant, PTL
===============================================================================
