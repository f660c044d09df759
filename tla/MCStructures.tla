----------------------------- MODULE MCStructures -----------------------------
(* The shared data structures of the runtime that do not call each other,  *)
(* checked in one run: "which" is chosen in the initial state, that        *)
(* structure runs and the others stay as they were initialised.            *)
EXTENDS FixedSizeAllocator, CCStack, RemSet, BlockAllocator

CONSTANTS p1, p2, p3, e1, e2, e3, e4, s1

VARIABLE which

\* Three processors; one owns most elements, so that the two others free
\* to the same shared list while its owner empties it.
MCOwner == [e \in Elems |-> IF e = e4 THEN p2 ELSE p1]

\* Storers and entries are interchangeable, and so are the two heaps until one
\* is linked into the other: of three entries s1 has two and the other storer
\* has one, and a pass (the only operation of its behaviour) is the parent's.
Roles ==
  /\ \A s \in Storers : st[s].entry # None =>
       IF s = s1 THEN st[s].entry = (IF 1 \in returned THEN 2 ELSE 1) ELSE st[s].entry = 3
  /\ ow.heap = Parent

AllVars == <<which, vars, bagVars, remSetVars, blockVars>>

AllInit ==
  /\ which \in {"elements", "bag", "remembered", "blocks"}
  /\ Init /\ BagInit /\ RemSetInit /\ BlockInit
  /\ which # "blocks" => requests = CHOOSE r \in RequestSets : TRUE

\* The collector of the bag may wait forever for a mutex that it holds (the
\* run cc_stack_locks shows how), so that only there the system may stop.
AllNext ==
  \/ /\ which = "elements"
     /\ Next
     /\ UNCHANGED <<which, bagVars, remSetVars, blockVars>>
  \/ /\ which = "bag"
     /\ BagNext \/ UNCHANGED bagVars
     /\ UNCHANGED <<which, vars, remSetVars, blockVars>>
  \/ /\ which = "remembered"
     /\ RemSetNext /\ Roles'
     /\ UNCHANGED <<which, vars, bagVars, blockVars>>
  \/ /\ which = "blocks"
     /\ BlockNext
     /\ UNCHANGED <<which, vars, bagVars, remSetVars>>

\* RemSetFairness, where the remembered sets are what runs.
AllFairness ==
  /\ WF_remSetVars(which = "remembered" /\ OwnerStep)
  /\ \A s \in Storers : WF_remSetVars(which = "remembered" /\ Finish(s))

AllSpec == AllInit /\ [][AllNext]_AllVars /\ AllFairness
===============================================================================
