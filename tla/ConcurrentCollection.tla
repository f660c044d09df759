------------------------ MODULE ConcurrentCollection ------------------------
(***************************************************************************)
(* The concurrent collection of a heap (runtime/gc/concurrent-collection.c)*)
(* with the mutators' write barrier (runtime/gc/assign.c).                 *)
(*                                                                         *)
(* At a fork the heap of the current depth is split off and registered     *)
(* with the pointers the two sides start with: a snapshot.  A collector    *)
(* marks what the snapshot reaches, with the mutators writing; before a    *)
(* pointer is overwritten its old value goes into the heap's root bag      *)
(* (CCStack is the bag in detail).  Chunks with nothing marked are freed.  *)
(* The marks are taken off again by a second traversal, and the heap is    *)
(* merged back when the next one of its depth is registered.               *)
(*                                                                         *)
(* Left out: the closures and the stack copies themselves, which are       *)
(* always scanned and stand here for the pointers in them (roots), and     *)
(* remembered entries, which are handled like roots; a chain of several    *)
(* heaps collected at once; pinning.                                       *)
(***************************************************************************)
EXTENDS Naturals

CONSTANTS
  Mutators,        \* threads of the two sides of forks
  Old, Fresh,      \* objects of the heap, and objects allocated later
  Fields,          \* the fields of an object
  ChunkOf,         \* the chunk of each object
  Shapes, Held,    \* the heap a thread may have built, and what it holds of it
  Nil,             \* what is not a pointer into the modelled heaps
  MaxCollections, MaxWrites   \* bounds

Objects == Old \union Fresh
Pointers == Objects \union {Nil}
Chunks == {ChunkOf[o] : o \in Objects}

ASSUME ObjectsAssumption ==
  /\ Old \intersect Fresh = {} /\ Nil \notin Objects
  /\ Objects \subseteq DOMAIN ChunkOf
  /\ Shapes \subseteq [Objects -> [Fields -> Old \union {Nil}]]
  /\ Held \subseteq Old
  /\ \A o \in Old, n \in Fresh : ChunkOf[o] # ChunkOf[n]
  /\ MaxCollections \in Nat /\ MaxWrites \in Nat

VARIABLES
  field,       \* the objects' fields
  allocated,   \* the objects there are
  space,       \* per chunk: "primary", "from", "to" or "freed"
  marked,      \* objects with the mark bit in their header
  regs,        \* pointers each mutator has got hold of
  write,       \* the write each mutator is in
  ccstate,     \* of the heap that was split off
  roots,       \* the pointers of the snapshot
  phase,       \* what the collector is doing
  todo,        \* roots or bag entries it still has to go through
  worklist,    \* fields of marked objects it still has to look at
  bag, closed, \* the root bag
  removed,     \* entries taken out of the bag
  snapshot,    \* history: what the roots reached at registration
  collections, \* collections so far
  writes       \* writes and allocations so far

heap == <<field, allocated, space>>
mutator == <<regs, write>>
collector == <<ccstate, phase, todo, worklist, removed>>
history == <<roots, snapshot, collections>>
counted == <<history, writes>>
vars == <<heap, marked, mutator, collector, bag, closed, counted>>

NoWrite == [pc |-> "none", obj |-> Nil, key |-> Nil, old |-> Nil]

Targets(os) == {field[o][k] : o \in os, k \in Fields} \ {Nil}

(* The least set that holds from and what its members point to.            *)
Reachable(from) ==
  {o \in Objects : \A os \in SUBSET Objects :
     from \union Targets(os) \subseteq os => o \in os}

Init ==
  /\ field \in Shapes
  /\ allocated = Old
  /\ space = [c \in Chunks |-> "primary"]
  /\ marked = {}
  /\ regs = [m \in Mutators |-> Held]
  /\ write = [m \in Mutators |-> NoWrite]
  /\ ccstate = "UNREG" /\ phase = "idle"
  /\ roots = {} /\ todo = {} /\ worklist = {} /\ bag = {} /\ removed = {}
  /\ closed = FALSE
  /\ snapshot = {} /\ collections = 0 /\ writes = 0

-----------------------------------------------------------------------------
(* The mutators.  A pointer that was loaded is kept: giving it up would    *)
(* only make less reachable.                                               *)

At(m, pc) == write[m].pc = pc
Goto(m, pc) == write' = [write EXCEPT ![m].pc = pc]

Load(m, o, k) ==
  /\ At(m, "none") /\ o \in regs[m]
  /\ field[o][k] # Nil
  /\ regs' = [regs EXCEPT ![m] = @ \union {field[o][k]}]
  /\ UNCHANGED <<heap, marked, write, collector, bag, closed, counted>>

(* Into the primary heap, while the heap that was split off is collected.  *)
Allocate(m, n, k, v) ==
  /\ At(m, "none") /\ n \in Fresh \ allocated
  /\ ccstate # "UNREG" /\ space[ChunkOf[n]] = "primary"
  /\ v \in regs[m] \union {Nil}
  /\ writes < MaxWrites /\ writes' = writes + 1
  /\ allocated' = allocated \union {n}
  /\ field' = [field EXCEPT ![n] = [j \in Fields |-> IF j = k THEN v ELSE Nil]]
  /\ regs' = [regs EXCEPT ![m] = @ \union {n}]
  /\ UNCHANGED <<space, marked, write, collector, bag, closed, history>>

(* Assignable_writeBarrier loads the value that will be overwritten.       *)
StartWrite(m, o, k) ==
  /\ At(m, "none") /\ o \in regs[m]
  /\ writes < MaxWrites
  /\ writes' = writes + 1
  /\ write' = [write EXCEPT ![m] =
       [pc |-> "barrier", obj |-> o, key |-> k, old |-> field[o][k]]]
  /\ UNCHANGED <<heap, marked, regs, collector, bag, closed, history>>

(* Its heap is registered for collection: its level head is not the        *)
(* primary heap.                                                           *)
Registered(o) == o # Nil /\ space[ChunkOf[o]] # "primary"

BugNilToo(o) == Registered(o) => o \notin marked
BugWhileCollecting(o) == Registered(o) /\ o \notin marked /\ ccstate = "COLLECTING"
MustRemember(o) == Registered(o) /\ o \notin marked

Barrier(m) ==
  /\ At(m, "barrier")
  /\ Goto(m, IF MustRemember(write[m].old) THEN "push" ELSE "store")
  /\ UNCHANGED <<heap, marked, regs, collector, bag, closed, counted>>

(* HM_HH_addRootForCollector: a bag that is closed takes nothing.          *)
Push(m) ==
  /\ At(m, "push")
  /\ bag' = IF closed THEN bag ELSE bag \union {write[m].old}
  /\ Goto(m, "store")
  /\ UNCHANGED <<heap, marked, regs, collector, closed, counted>>

Store(m, v) ==
  /\ At(m, "store")
  /\ v \in regs[m] \union {Nil}
  /\ field' = [field EXCEPT ![write[m].obj][write[m].key] = v]
  /\ write' = [write EXCEPT ![m] = NoWrite]
  /\ UNCHANGED <<allocated, space, marked, regs, collector, bag, closed, counted>>

Mutate(m) ==
  \/ \E o \in Objects, k \in Fields :
       Load(m, o, k) \/ StartWrite(m, o, k) \/ \E v \in Pointers : Allocate(m, o, k, v)
  \/ Barrier(m) \/ Push(m) \/ \E v \in Pointers : Store(m, v)

(* HM_HH_registerCont, at a fork: the thread that forks is the only one    *)
(* that can reach the heap, the one collected before is merged first, and  *)
(* both sides start with what the snapshot has.                            *)
RegisterCont ==
  LET held == UNION {regs[m] : m \in Mutators} IN
  /\ ccstate \in {"UNREG", "DONE"} /\ phase = "idle"
  /\ collections < MaxCollections
  /\ \A m \in Mutators : At(m, "none")
  /\ space' = [c \in Chunks |->
       IF \E o \in allocated : ChunkOf[o] = c /\ space[c] # "freed" THEN "from" ELSE space[c]]
  /\ roots' = held
  /\ regs' = [m \in Mutators |-> held]
  /\ snapshot' = Reachable(held)
  /\ ccstate' = "REG"
  /\ bag' = {} /\ closed' = FALSE
  /\ collections' = collections + 1
  /\ UNCHANGED <<field, allocated, marked, write, phase, todo, worklist, removed, writes>>

-----------------------------------------------------------------------------
(* The collector *)

FieldsOf(o) == {o} \X Fields
InScope(o) == o # Nil /\ space[ChunkOf[o]] \in {"from", "to"}

ClaimHeap ==
  /\ ccstate = "REG"
  /\ ccstate' = "COLLECTING"
  /\ phase' = "mark"
  /\ todo' = roots
  /\ UNCHANGED <<heap, marked, mutator, worklist, removed, bag, closed, counted>>

(* CC_collectAtPublicLevel: a small heap is claimed and left alone.        *)
LeaveAlone ==
  /\ ccstate = "REG"
  /\ ccstate' = "DONE"
  /\ UNCHANGED <<heap, marked, mutator, phase, todo, worklist, removed, bag, closed, counted>>

(* The chunk is kept, and an object not met before is marked.              *)
TryMark(o) ==
  /\ space' = IF InScope(o) THEN [space EXCEPT ![ChunkOf[o]] = "to"] ELSE space
  /\ marked' = IF InScope(o) THEN marked \union {o} ELSE marked

Found(o) == IF InScope(o) /\ o \notin marked THEN FieldsOf(o) ELSE {}

MarkRoot(o) ==
  /\ phase = "mark" /\ worklist = {} /\ o \in todo
  /\ todo' = todo \ {o}
  /\ TryMark(o)
  /\ worklist' = Found(o)
  /\ UNCHANGED <<field, allocated, mutator, ccstate, phase, removed, bag, closed, counted>>

MarkField(o, k) ==
  /\ phase = "mark" /\ <<o, k>> \in worklist
  /\ TryMark(field[o][k])
  /\ worklist' = (worklist \ {<<o, k>>}) \union Found(field[o][k])
  /\ UNCHANGED <<field, allocated, mutator, ccstate, phase, todo, removed, bag, closed, counted>>

(* CC_closeStack closes the bag if it is empty, and else takes a batch,    *)
(* the first chunk of each stack.                                          *)
Close ==
  /\ closed' = TRUE
  /\ phase' = "unmark" /\ todo' = roots
  /\ UNCHANGED <<removed, bag>>

TakeBatch(batch) ==
  /\ todo' = batch /\ removed' = removed \union batch
  /\ bag' = bag \ batch
  /\ UNCHANGED <<phase, closed>>

BugCloseAnyway == Close
CloseOrTake ==
  \/ bag = {} /\ Close
  \/ \E batch \in SUBSET bag \ {{}} : TakeBatch(batch)

CloseStack ==
  /\ phase = "mark" /\ worklist = {} /\ todo = {}
  /\ CloseOrTake
  /\ UNCHANGED <<heap, marked, mutator, ccstate, worklist, counted>>

IsMarked(o) == o # Nil /\ space[ChunkOf[o]] = "to" /\ o \in marked
Uncovered(o) == IF IsMarked(o) THEN FieldsOf(o) ELSE {}

UnmarkRoot(o) ==
  /\ phase \in {"unmark", "unmarkBag"} /\ worklist = {} /\ o \in todo
  /\ todo' = todo \ {o}
  /\ marked' = IF IsMarked(o) THEN marked \ {o} ELSE marked
  /\ worklist' = Uncovered(o)
  /\ UNCHANGED <<heap, mutator, ccstate, phase, removed, bag, closed, counted>>

UnmarkField(o, k) ==
  LET v == field[o][k] IN
  /\ phase \in {"unmark", "unmarkBag"} /\ <<o, k>> \in worklist
  /\ marked' = IF IsMarked(v) THEN marked \ {v} ELSE marked
  /\ worklist' = (worklist \ {<<o, k>>}) \union Uncovered(v)
  /\ UNCHANGED <<heap, mutator, ccstate, phase, todo, removed, bag, closed, counted>>

(* After the roots, the entries that were taken out of the bag.            *)
UnmarkRemoved ==
  /\ phase = "unmark" /\ worklist = {} /\ todo = {}
  /\ phase' = "unmarkBag" /\ todo' = removed /\ removed' = {}
  /\ UNCHANGED <<heap, marked, mutator, ccstate, worklist, bag, closed, counted>>

FreeChunks ==
  /\ phase = "unmarkBag" /\ worklist = {} /\ todo = {}
  /\ space' = [c \in Chunks |-> IF space[c] = "from" THEN "freed" ELSE space[c]]
  /\ phase' = "done"
  /\ UNCHANGED <<field, allocated, marked, mutator, ccstate, todo, worklist, removed,
                 bag, closed, counted>>

Finish ==
  /\ phase = "done"
  /\ ccstate' = "DONE" /\ phase' = "idle"
  /\ UNCHANGED <<heap, marked, mutator, todo, worklist, removed, bag, closed, counted>>

Collect ==
  \/ ClaimHeap \/ LeaveAlone \/ CloseStack \/ UnmarkRemoved \/ FreeChunks \/ Finish
  \/ \E o \in Objects :
       \/ MarkRoot(o) \/ UnmarkRoot(o)
       \/ \E k \in Fields : MarkField(o, k) \/ UnmarkField(o, k)

\* The bound: the program stops when the last collection has ended.
Over == collections = MaxCollections /\ ccstate = "DONE"
Stop == Over /\ UNCHANGED vars

Next == Collect \/ RegisterCont \/ Stop \/ (~Over /\ \E m \in Mutators : Mutate(m))

Spec == Init /\ [][Next]_vars

-----------------------------------------------------------------------------
(* Properties *)

TypeOK ==
  /\ field \in [Objects -> [Fields -> Pointers]]
  /\ Old \subseteq allocated /\ allocated \subseteq Objects
  /\ space \in [Chunks -> {"primary", "from", "to", "freed"}]
  /\ marked \subseteq allocated
  /\ regs \in [Mutators -> SUBSET allocated]
  /\ \A m \in Mutators :
       /\ write[m].pc \in {"none", "barrier", "push", "store"}
       /\ {write[m].obj, write[m].old} \subseteq Pointers
  /\ ccstate \in {"UNREG", "REG", "COLLECTING", "DONE"}
  /\ phase \in {"idle", "mark", "unmark", "unmarkBag", "done"}
  /\ roots \union todo \union bag \union removed \subseteq allocated
  /\ worklist \subseteq Objects \X Fields
  /\ closed \in BOOLEAN /\ snapshot \subseteq allocated
  /\ collections \in 0 .. MaxCollections /\ writes \in 0 .. MaxWrites

(* The pointers a mutator can come by, with those of a write it is in: the *)
(* barrier looks into the header of the old value.                         *)
InUse == UNION {regs[m] \union ({write[m].old} \ {Nil}) : m \in Mutators}

(* What the header file promises (concurrent-collection.h): objects in     *)
(* preserved chunks may point to freed ones, but such objects are not      *)
(* reachable.  Whatever the mutators overwrite and pass on during a        *)
(* collection, nothing they can reach is in a chunk that was freed.        *)
ReachableIsKept == \A o \in Reachable(InUse) : space[ChunkOf[o]] # "freed"

(* When nothing is left to mark, exactly the snapshot is marked: all of it *)
(* in spite of the writes, and nothing that was garbage at registration.   *)
MarksAreSnapshot ==
  phase = "mark" /\ todo \union worklist \union bag = {} => marked = snapshot

=============================================================================
