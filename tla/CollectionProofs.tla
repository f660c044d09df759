--------------------------- MODULE CollectionProofs ---------------------------
(***************************************************************************)
(* The two collectors: first the concurrent one (ConcurrentCollection.tla),*)
(* for any objects, fields, shapes of the heap and number of mutators, and *)
(* from "The local collector" on, the local one (LocalCollection.tla).     *)
(*                                                                         *)
(* The concurrent collector.  What a mutator may come by is in the         *)
(* snapshot or was allocated since (KnownInv), so it is enough that the    *)
(* snapshot is kept.  That it is all marked is not seen from the heap as   *)
(* it is when the collector looks: the mutators have written to it.  The   *)
(* invariant follows the pointers as they were at registration (first):    *)
(* each is still in its field, or was logged, that is, it is marked or on  *)
(* its way to the collector (Covered).  When the collector has nothing     *)
(* left, what is marked is closed under these pointers, and the snapshot   *)
(* is the least such set.                                                  *)
(*                                                                         *)
(* A mark that an earlier collection forgot stops the collector before it  *)
(* has looked at the object's fields, and nothing can be said (the run     *)
(* cc_twice).  So the theorems are about collections that start clean, and *)
(* about the first one, which does.                                        *)
(***************************************************************************)
EXTENDS ConcurrentCollection, LocalCollection, FiniteSetTheorems, NaturalsInduction,
        WellFoundedInduction, TLAPS

Writes ==
  [pc : {"none", "barrier", "push", "store"}, obj : Pointers, key : Fields \union {Nil},
   old : Pointers]

Types ==
  /\ field \in [Objects -> [Fields -> Pointers]]
  /\ Old \subseteq allocated /\ allocated \subseteq Objects
  /\ space \in [Chunks -> {"primary", "from", "to", "freed"}]
  /\ marked \subseteq allocated
  /\ regs \in [Mutators -> SUBSET allocated]
  /\ write \in [Mutators -> Writes]
  /\ ccstate \in {"UNREG", "REG", "COLLECTING", "DONE"}
  /\ phase \in {"idle", "mark", "unmark", "unmarkBag", "done"}
  /\ roots \subseteq allocated /\ todo \subseteq allocated
  /\ bag \subseteq allocated /\ removed \subseteq allocated
  /\ worklist \subseteq allocated \X Fields
  /\ closed \in BOOLEAN /\ snapshot \subseteq allocated
  /\ collections \in 0 .. MaxCollections /\ writes \in 0 .. MaxWrites

(* What the types rest on: only allocated objects are pointed to.           *)
PointersInv ==
  /\ \A o \in allocated, k \in Fields : field[o][k] \in allocated \union {Nil}
  /\ \A m \in Mutators :
       /\ write[m].old \in allocated \union {Nil}
       /\ ~At(m, "none") => write[m].obj \in regs[m] /\ write[m].key \in Fields
       /\ At(m, "none") => write[m].old = Nil
       /\ At(m, "push") => write[m].old # Nil

TypeInv == Types /\ PointersInv

(* What a mutator may know: the snapshot, and what is in no registered heap, *)
(* that is, what was allocated since.                                       *)
Unregistered == {o \in allocated : space[ChunkOf[o]] = "primary"}
Known == snapshot \union Unregistered

KnownInv ==
  /\ \A o \in Known, k \in Fields : field[o][k] \in Known \union {Nil}
  /\ \A m \in Mutators :
       /\ regs[m] \subseteq Known
       /\ write[m].old \in Known \union {Nil}
       /\ At(m, "push") => write[m].old \in snapshot
  /\ \A o \in snapshot : space[ChunkOf[o]] \in {"from", "to"}

(* How far the collection is: during the marking nothing but the snapshot is *)
(* met, and afterwards all its chunks are kept.                             *)
PhaseInv ==
  /\ ccstate = "COLLECTING" <=> phase # "idle"
  /\ ccstate = "UNREG" => snapshot = {}
  /\ ccstate = "REG" => marked = {} /\ ~closed
  /\ phase \in {"idle", "done"} => todo = {} /\ worklist = {}
  /\ phase = "mark" =>
       /\ ~closed
       /\ marked \subseteq snapshot /\ todo \subseteq snapshot
       /\ worklist \subseteq marked \X Fields
       /\ \A o \in marked : space[ChunkOf[o]] = "to"
       /\ roots \subseteq marked \union todo
  /\ phase \in {"unmark", "unmarkBag", "done"} =>
       \A o \in snapshot : space[ChunkOf[o]] = "to"
  /\ roots \subseteq snapshot /\ bag \subseteq snapshot

(* Marked, or waiting to be.                                                *)
Logged(v) == v = Nil \/ v \in marked \/ v \in todo \/ v \in bag

(* The snapshot is what the roots reach by the pointers in first.           *)
IsSnapshotOf(first) ==
  /\ \A o \in snapshot, k \in Fields : first[o][k] \in snapshot \union {Nil}
  /\ \A os \in SUBSET Objects :
       /\ roots \subseteq os
       /\ \A o \in os, k \in Fields : first[o][k] \in os \union {Nil}
       => snapshot \subseteq os

(* A pointer in first is still there or was logged; who is in a write that   *)
(* will overwrite it has seen to that before the store; and it was looked at *)
(* in a marked object, unless the field is in the worklist.                 *)
Covered(first) ==
  /\ \A o \in snapshot, k \in Fields : field[o][k] = first[o][k] \/ Logged(first[o][k])
  /\ \A m \in Mutators : ~At(m, "none") /\ write[m].obj \in snapshot =>
       LET v == first[write[m].obj][write[m].key]
       IN  Logged(v) \/ (write[m].old = v /\ ~At(m, "store"))
  /\ \A o \in marked, k \in Fields : <<o, k>> \in worklist \/ Logged(first[o][k])

SnapshotInv ==
  ccstate = "REG" \/ phase = "mark" =>
    \E first \in [Objects -> [Fields -> Pointers]] : IsSnapshotOf(first) /\ Covered(first)

Safe == KnownInv /\ PhaseInv /\ SnapshotInv
IInv == TypeInv /\ Safe

(* The collection before took off every mark.                               *)
StartsClean == ccstate = "REG" => marked = {}

-----------------------------------------------------------------------------
(* The types *)

(* The constants, as the proofs use them.                                   *)
LEMMA Constants ==
  /\ Nil \notin Objects /\ Old \subseteq Objects /\ Fresh \subseteq Objects
  /\ \A o \in Objects : ChunkOf[o] \in Chunks
  /\ Held \subseteq Old /\ MaxCollections \in Nat /\ MaxWrites \in Nat
  /\ Shapes \subseteq [Objects -> [Fields -> Old \union {Nil}]]
BY ObjectsAssumption DEF Objects, Chunks

(* A closed set that holds the start holds what is reachable from it.       *)
LEMMA ReachableIsLeast ==
  ASSUME NEW from, NEW os \in SUBSET Objects, from \subseteq os,
         \A o \in os, k \in Fields : field[o][k] \in os \union {Nil}
  PROVE  Reachable(from) \subseteq os
BY DEF Reachable, Targets

(* What is reachable holds the start and is closed.                         *)
LEMMA ReachableIsClosed ==
  ASSUME Types, NEW from \in SUBSET Objects
  PROVE  /\ from \subseteq Reachable(from) /\ Reachable(from) \subseteq Objects
         /\ \A o \in Reachable(from), k \in Fields :
              field[o][k] \in Reachable(from) \union {Nil}
<1>1. /\ from \subseteq Reachable(from) /\ Reachable(from) \subseteq Objects
  BY DEF Reachable
<1>2. ASSUME NEW o \in Reachable(from), NEW k \in Fields, field[o][k] # Nil
      PROVE  field[o][k] \in Reachable(from)
  <2>1. o \in Objects /\ field[o][k] \in Objects
    BY <1>2 DEF Reachable, Types, Pointers
  <2>2. ASSUME NEW os \in SUBSET Objects, from \union Targets(os) \subseteq os
        PROVE  field[o][k] \in os
    <3>1. o \in os
      BY <2>2 DEF Reachable
    <3> QED
      BY <1>2, <2>2, <3>1 DEF Targets
  <2> QED
    BY <2>1, <2>2 DEF Reachable
<1> QED
  BY <1>1, <1>2

(* The initial states are well typed.                                       *)
LEMMA TypeInit == Init => TypeInv
<1> SUFFICES ASSUME Init PROVE TypeInv
  OBVIOUS
<1> USE Constants
<1>1. /\ field \in [Objects -> [Fields -> Old \union {Nil}]]
      /\ [Fields -> Old \union {Nil}] \subseteq [Fields -> Pointers]
  BY DEF Init, Pointers
<1>2. /\ write \in [Mutators -> Writes] /\ \A m \in Mutators : write[m] = NoWrite
  BY DEF Init, Writes, NoWrite, Pointers
<1>3. space \in [Chunks -> {"primary", "from", "to", "freed"}]
  BY DEF Init
<1>4. regs \in [Mutators -> SUBSET allocated]
  BY DEF Init
<1>5. Types
  <2>1. /\ collections \in 0 .. MaxCollections /\ writes \in 0 .. MaxWrites
        /\ Old \subseteq allocated /\ allocated \subseteq Objects
        /\ worklist \subseteq allocated \X Fields
    BY DEF Init, Objects
  <2>2. field \in [Objects -> [Fields -> Pointers]]
    BY <1>1
  <2> HIDE Constants
  <2> QED
    BY <1>2, <1>3, <1>4, <2>1, <2>2 DEF Init, Types
<1>6. PointersInv
  BY <1>1, <1>2 DEF Init, PointersInv, At, NoWrite
<1> QED
  BY <1>5, <1>6 DEF TypeInv

(* A step inside a write changes where the mutator is and no more.          *)
LEMMA GotoFacts ==
  ASSUME write \in [Mutators -> Writes], NEW m \in Mutators,
         NEW pc \in {"none", "barrier", "push", "store"}, Goto(m, pc)
  PROVE  /\ write' \in [Mutators -> Writes]
         /\ \A l \in Mutators : l # m => write'[l] = write[l]
         /\ write'[m].pc = pc /\ write'[m].old = write[m].old
         /\ write'[m].obj = write[m].obj /\ write'[m].key = write[m].key
BY DEF Goto, Writes

(* Every step of a mutator keeps the types.                                 *)
LEMMA MutateTypes ==
  ASSUME TypeInv, NEW m \in Mutators, Mutate(m)
  PROVE  TypeInv'
<1> USE Constants DEF TypeInv, Types, PointersInv, Pointers, At, heap, mutator, collector,
                      history, counted
<1>1. ASSUME NEW o \in Objects, NEW k \in Fields, Load(m, o, k) PROVE TypeInv'
  BY <1>1 DEF Load
<1>2. ASSUME NEW o \in Objects, NEW k \in Fields, StartWrite(m, o, k) PROVE TypeInv'
  BY <1>2 DEF StartWrite, Writes
<1>3. ASSUME NEW n \in Objects, NEW k \in Fields, NEW v \in Pointers, Allocate(m, n, k, v)
      PROVE  TypeInv'
  BY <1>3 DEF Allocate
<1>4. ASSUME Barrier(m) PROVE TypeInv'
  <2> DEFINE pc == IF MustRemember(write[m].old) THEN "push" ELSE "store"
  <2>1. /\ write' \in [Mutators -> Writes]
        /\ \A l \in Mutators : l # m => write'[l] = write[l]
        /\ write'[m].pc = pc /\ write'[m].old = write[m].old
        /\ write'[m].obj = write[m].obj /\ write'[m].key = write[m].key
    BY <1>4, GotoFacts DEF Barrier
  <2>2. write[m].pc = "barrier"
    BY <1>4 DEF Barrier
  <2>3. Types'
    BY <1>4, <2>1, <2>2 DEF Barrier
  <2>4. PointersInv'
    BY <1>4, <2>1, <2>2 DEF Barrier, MustRemember, Registered
  <2> QED
    BY <2>3, <2>4
<1>5. ASSUME Push(m) PROVE TypeInv'
  <2> DEFINE pc == "store"
  <2>1. /\ write' \in [Mutators -> Writes]
        /\ \A l \in Mutators : l # m => write'[l] = write[l]
        /\ write'[m].pc = pc /\ write'[m].old = write[m].old
        /\ write'[m].obj = write[m].obj /\ write'[m].key = write[m].key
    BY <1>5, GotoFacts DEF Push
  <2>2. write[m].pc = "push"
    BY <1>5 DEF Push
  <2>3. Types'
    BY <1>5, <2>1, <2>2 DEF Push
  <2>4. PointersInv'
    BY <1>5, <2>1, <2>2 DEF Push
  <2> QED
    BY <2>3, <2>4
<1>6. ASSUME NEW v \in Pointers, Store(m, v) PROVE TypeInv'
  <2>1. Types'
    BY <1>6 DEF Store, NoWrite, Writes
  <2>2. PointersInv'
    BY <1>6 DEF Store, NoWrite, Writes
  <2> QED
    BY <2>1, <2>2
<1> QED
  BY <1>1, <1>2, <1>3, <1>4, <1>5, <1>6 DEF Mutate

(* Every step of the collector keeps the types.                             *)
LEMMA CollectTypes ==
  ASSUME TypeInv, Collect
  PROVE  TypeInv'
<1> USE Constants DEF TypeInv, Types, PointersInv, Pointers, At, heap, mutator, collector,
                      history, counted
<1>1. ASSUME ClaimHeap PROVE TypeInv'
  BY <1>1 DEF ClaimHeap
<1>2. ASSUME LeaveAlone PROVE TypeInv'
  BY <1>2 DEF LeaveAlone
<1>3. ASSUME CloseStack PROVE TypeInv'
  BY <1>3 DEF CloseStack, CloseOrTake, Close, TakeBatch
<1>4. ASSUME UnmarkRemoved PROVE TypeInv'
  BY <1>4 DEF UnmarkRemoved
<1>5. ASSUME FreeChunks PROVE TypeInv'
  BY <1>5 DEF FreeChunks
<1>6. ASSUME Finish PROVE TypeInv'
  BY <1>6 DEF Finish
<1>7. ASSUME NEW o \in Objects, MarkRoot(o) PROVE TypeInv'
  BY <1>7 DEF MarkRoot, TryMark, Found, FieldsOf, InScope
<1>8. ASSUME NEW o \in Objects, UnmarkRoot(o) PROVE TypeInv'
  BY <1>8 DEF UnmarkRoot, IsMarked, Uncovered, FieldsOf
<1>9. ASSUME NEW o \in Objects, NEW k \in Fields, MarkField(o, k) PROVE TypeInv'
  BY <1>9 DEF MarkField, TryMark, Found, FieldsOf, InScope
<1>10. ASSUME NEW o \in Objects, NEW k \in Fields, UnmarkField(o, k) PROVE TypeInv'
  BY <1>10 DEF UnmarkField, IsMarked, Uncovered, FieldsOf
<1> QED
  BY <1>1, <1>2, <1>3, <1>4, <1>5, <1>6, <1>7, <1>8, <1>9, <1>10 DEF Collect

(* A registration keeps the types: the snapshot holds allocated objects.    *)
LEMMA RegisterTypes ==
  ASSUME TypeInv, RegisterCont
  PROVE  TypeInv'
<1> DEFINE kept == UNION {regs[m] : m \in Mutators}
<1> USE Constants DEF TypeInv, Types, PointersInv
<1>1. kept \subseteq allocated
  OBVIOUS
<1>2. snapshot' \subseteq allocated
  BY <1>1, ReachableIsLeast DEF RegisterCont
<1>3. space' \in [Chunks -> {"primary", "from", "to", "freed"}]
  BY DEF RegisterCont
<1>4. /\ regs' = [m \in Mutators |-> kept] /\ roots' = kept
      /\ regs' \in [Mutators -> SUBSET allocated]
  BY <1>1 DEF RegisterCont
<1>5. /\ UNCHANGED <<field, allocated, marked, write, phase, todo, worklist, removed, writes>>
      /\ ccstate' = "REG" /\ bag' = {} /\ closed' = FALSE
      /\ collections' \in 0 .. MaxCollections
  BY DEF RegisterCont
<1>6. Types'
  <2> HIDE Constants
  <2> QED
    BY <1>1, <1>2, <1>3, <1>4, <1>5
<1>7. PointersInv'
  BY <1>4 DEF RegisterCont, At
<1> QED
  BY <1>6, <1>7

(* Every step keeps the types.                                              *)
LEMMA TypeNext == TypeInv /\ [Next]_vars => TypeInv'
<1>1. ASSUME TypeInv, UNCHANGED vars PROVE TypeInv'
  BY <1>1 DEF TypeInv, Types, PointersInv, At, vars, heap, mutator, collector, history,
              counted
<1> QED
  BY <1>1, MutateTypes, CollectTypes, RegisterTypes DEF Next, Stop
-----------------------------------------------------------------------------
(* The snapshot *)

(* The objects of the snapshot are in a registered heap.                    *)
LEMMA SnapshotInScope ==
  ASSUME TypeInv, KnownInv, NEW o \in snapshot
  PROVE  o \in Objects /\ o # Nil /\ InScope(o) /\ Registered(o)
BY Constants DEF TypeInv, Types, KnownInv, InScope, Registered

(* What a mutator knows of a registered heap is in the snapshot.            *)
LEMMA RegisteredIsSnapshot ==
  ASSUME NEW o \in Known, InScope(o) \/ Registered(o)
  PROVE  o \in snapshot
BY DEF Known, Unregistered, InScope, Registered

(* What the snapshot was taken of does not depend on the heap now.          *)
LEMMA SnapshotSame ==
  ASSUME NEW first, IsSnapshotOf(first), UNCHANGED <<snapshot, roots>>
  PROVE  IsSnapshotOf(first)'
BY DEF IsSnapshotOf

(* Steps that neither write nor mark.                                       *)
LEMMA CoverageSame ==
  ASSUME SnapshotInv,
         UNCHANGED <<field, marked, write, ccstate, phase, roots, todo, worklist, bag,
                     snapshot>>
  PROVE  SnapshotInv'
BY DEF SnapshotInv, IsSnapshotOf, Covered, Logged, At

(* Steps that leave the collector and the chunks alone.                     *)
LEMMA PhaseSame ==
  ASSUME PhaseInv,
         UNCHANGED <<ccstate, phase, marked, closed, todo, worklist, snapshot, space, roots,
                     bag>>
  PROVE  PhaseInv'
BY DEF PhaseInv

-----------------------------------------------------------------------------
(* The mutators *)

(* A load finds what was known already.                                     *)
LEMMA LoadKeeps ==
  ASSUME IInv, NEW m \in Mutators, NEW o \in Objects, NEW k \in Fields, Load(m, o, k)
  PROVE  Safe'
<1> USE DEF IInv, Safe, heap, collector, counted, history
<1>1. UNCHANGED <<field, allocated, space, marked, write, ccstate, phase, roots, todo,
                  worklist, bag, closed, snapshot>>
  BY DEF Load
<1>2. KnownInv'
  BY <1>1 DEF Load, KnownInv, Known, Unregistered, TypeInv, Types, At
<1> QED
  BY <1>1, <1>2, CoverageSame, PhaseSame

(* A new object is not in the snapshot.                                     *)
LEMMA AllocateKeeps ==
  ASSUME IInv, NEW m \in Mutators, NEW n \in Objects, NEW k \in Fields, NEW v \in Pointers,
         Allocate(m, n, k, v)
  PROVE  Safe'
<1> USE DEF IInv, Safe, heap, collector, counted, history
<1>1. /\ UNCHANGED <<space, marked, write, ccstate, phase, roots, todo, worklist, bag,
                     closed, snapshot>>
      /\ allocated' = allocated \union {n} /\ n \notin allocated
      /\ space[ChunkOf[n]] = "primary"
  BY DEF Allocate
<1>2. /\ \A o \in allocated : field'[o] = field[o]
      /\ \A j \in Fields : field'[n][j] \in regs[m] \union {Nil}
  BY <1>1 DEF Allocate, TypeInv, Types
<1>3. Known' = Known \union {n}
  BY <1>1 DEF Known, Unregistered
<1>4. Known \subseteq allocated
  BY DEF Known, Unregistered, TypeInv, Types
<1>5. KnownInv'
  <2>1. \A o \in Known', j \in Fields : field'[o][j] \in Known' \union {Nil}
    BY <1>2, <1>3, <1>4 DEF KnownInv
  <2>2. \A l \in Mutators : regs'[l] \subseteq Known'
    BY <1>3 DEF Allocate, KnownInv, TypeInv, Types
  <2> QED
    BY <1>1, <1>3, <2>1, <2>2 DEF KnownInv, At
<1>6. SnapshotInv'
  BY <1>1, <1>2, <1>4 DEF SnapshotInv, IsSnapshotOf, Covered, Logged, At, Known
<1> QED
  BY <1>1, <1>5, <1>6, PhaseSame

(* The old value that a write starts with is the first one, or that is      *)
(* logged.                                                                  *)
LEMMA StartWriteKeeps ==
  ASSUME IInv, NEW m \in Mutators, NEW o \in Objects, NEW k \in Fields,
         StartWrite(m, o, k)
  PROVE  Safe'
<1> USE DEF IInv, Safe, heap, collector, counted, history
<1>1. UNCHANGED <<field, allocated, space, marked, regs, ccstate, phase, roots, todo,
                  worklist, bag, closed, snapshot>>
  BY DEF StartWrite
<1>2. /\ \A l \in Mutators \ {m} : write'[l] = write[l]
      /\ write'[m] = [pc |-> "barrier", obj |-> o, key |-> k, old |-> field[o][k]]
      /\ o \in Known
  BY DEF StartWrite, TypeInv, Types, KnownInv
<1>3. KnownInv'
  BY <1>1, <1>2 DEF KnownInv, Known, Unregistered, At
<1>4. SnapshotInv'
  <2> SUFFICES ASSUME ccstate = "REG" \/ phase = "mark" PROVE SnapshotInv'
    BY <1>1 DEF SnapshotInv
  <2> PICK first \in [Objects -> [Fields -> Pointers]] : IsSnapshotOf(first) /\ Covered(first)
    BY DEF SnapshotInv
  <2>1. Covered(first)'
    BY <1>1, <1>2 DEF Covered, Logged, At
  <2> QED
    BY <1>1, <2>1, SnapshotSame DEF SnapshotInv
<1> QED
  BY <1>1, <1>3, <1>4, PhaseSame

(* The barrier passes a pointer of the snapshot only if it is marked.       *)
LEMMA BarrierKeeps ==
  ASSUME IInv, NEW m \in Mutators, Barrier(m)
  PROVE  Safe'
<1> USE DEF IInv, Safe, heap, collector, counted, history
<1>1. UNCHANGED <<field, allocated, space, marked, regs, ccstate, phase, roots, todo,
                  worklist, bag, closed, snapshot>>
  BY DEF Barrier
<1>2. /\ \A l \in Mutators : l # m => write'[l] = write[l]
      /\ write'[m].pc = IF MustRemember(write[m].old) THEN "push" ELSE "store"
      /\ write'[m].obj = write[m].obj /\ write'[m].key = write[m].key
      /\ write'[m].old = write[m].old /\ At(m, "barrier")
  BY DEF Barrier, Goto, TypeInv, Types, Writes
<1>3. KnownInv'
  <2>1. write[m].old \in Known \union {Nil}
    BY DEF KnownInv
  <2>2. MustRemember(write[m].old) => write[m].old \in snapshot
    BY <2>1, RegisteredIsSnapshot DEF MustRemember, Registered
  <2> QED
    BY <1>1, <1>2, <2>2 DEF KnownInv, Known, Unregistered, At
<1>4. SnapshotInv'
  <2> SUFFICES ASSUME ccstate = "REG" \/ phase = "mark" PROVE SnapshotInv'
    BY <1>1 DEF SnapshotInv
  <2> PICK first \in [Objects -> [Fields -> Pointers]] : IsSnapshotOf(first) /\ Covered(first)
    BY DEF SnapshotInv
  <2> DEFINE v == first[write[m].obj][write[m].key]
  <2>1. ASSUME write[m].obj \in snapshot, ~MustRemember(write[m].old) PROVE Logged(v)
    <3>1. Logged(v) \/ write[m].old = v
      BY <1>2, <2>1 DEF Covered, At
    <3>2. v \in snapshot \union {Nil}
      BY <1>2, <2>1 DEF IsSnapshotOf, TypeInv, PointersInv, At
    <3> QED
      BY <2>1, <3>1, <3>2, SnapshotInScope DEF MustRemember, Logged
  <2>2. Covered(first)'
    BY <1>1, <1>2, <2>1 DEF Covered, Logged, At
  <2> QED
    BY <1>1, <2>2, SnapshotSame DEF SnapshotInv
<1> QED
  BY <1>1, <1>3, <1>4, PhaseSame

(* A push logs the pointer, since the bag is open during the marking.       *)
LEMMA PushKeeps ==
  ASSUME IInv, NEW m \in Mutators, Push(m)
  PROVE  Safe'
<1> USE DEF IInv, Safe, heap, collector, counted, history
<1>1. /\ UNCHANGED <<field, allocated, space, marked, regs, ccstate, phase, roots, todo,
                     worklist, closed, snapshot>>
      /\ bag' = IF closed THEN bag ELSE bag \union {write[m].old}
  BY DEF Push
<1>2. /\ \A l \in Mutators : l # m => write'[l] = write[l]
      /\ write'[m].pc = "store" /\ At(m, "push")
      /\ write'[m].obj = write[m].obj /\ write'[m].key = write[m].key
      /\ write'[m].old = write[m].old
  BY DEF Push, Goto, TypeInv, Types, Writes
<1>3. write[m].old \in snapshot
  BY <1>2 DEF KnownInv
<1>4. KnownInv'
  BY <1>1, <1>2 DEF KnownInv, Known, Unregistered, At
<1>5. PhaseInv'
  BY <1>1, <1>3 DEF PhaseInv
<1>6. SnapshotInv'
  <2> SUFFICES ASSUME ccstate = "REG" \/ phase = "mark" PROVE SnapshotInv'
    BY <1>1 DEF SnapshotInv
  <2> PICK first \in [Objects -> [Fields -> Pointers]] : IsSnapshotOf(first) /\ Covered(first)
    BY DEF SnapshotInv
  <2>1. bag' = bag \union {write[m].old}
    BY <1>1 DEF PhaseInv
  <2>2. \A v : Logged(v) => Logged(v)'
    BY <1>1, <2>1 DEF Logged
  <2> PICK old : old = write[m].old
    OBVIOUS
  <2>3. Logged(old)'
    BY <2>1 DEF Logged
  <2>4. \A v : v = write[m].old => Logged(v)'
    BY <2>3
  <2>5. Covered(first)'
    BY <1>1, <1>2, <2>2, <2>4 DEF Covered, At
  <2> QED
    BY <1>1, <2>5, SnapshotSame DEF SnapshotInv
<1> QED
  BY <1>4, <1>5, <1>6

(* What a store overwrites was logged, and what it stores was known.        *)
LEMMA StoreKeeps ==
  ASSUME IInv, NEW m \in Mutators, NEW v \in Pointers, Store(m, v)
  PROVE  Safe'
<1> USE DEF IInv, Safe, heap, collector, counted, history
<1> DEFINE obj == write[m].obj
           key == write[m].key
<1>1. /\ UNCHANGED <<allocated, space, marked, regs, ccstate, phase, roots, todo, worklist,
                     bag, closed, snapshot>>
      /\ v \in Known \union {Nil} /\ At(m, "store")
      /\ obj \in Objects /\ key \in Fields
  BY DEF Store, KnownInv, TypeInv, Types, PointersInv, At
<1>2. \A o \in Objects, k \in Fields :
        field'[o][k] = IF o = obj /\ k = key THEN v ELSE field[o][k]
  BY <1>1 DEF Store, TypeInv, Types
<1>3. \A l \in Mutators : l # m => write'[l] = write[l]
  BY DEF Store, TypeInv, Types
<1>4. write'[m] = NoWrite
  BY DEF Store, TypeInv, Types
<1>5. Known' = Known /\ Known \subseteq Objects
  BY <1>1 DEF Known, Unregistered, TypeInv, Types
<1>6. KnownInv'
  <2>1. \A o \in Known, k \in Fields : field'[o][k] \in Known \union {Nil}
    BY <1>1, <1>2, <1>5 DEF KnownInv
  <2>2. ASSUME NEW l \in Mutators
        PROVE  /\ regs'[l] \subseteq Known
               /\ write'[l].old \in Known \union {Nil}
               /\ At(l, "push")' => write'[l].old \in snapshot
    BY <1>1, <1>3, <1>4 DEF KnownInv, NoWrite, At
  <2> QED
    BY <1>1, <1>5, <2>1, <2>2 DEF KnownInv
<1>7. SnapshotInv'
  <2> SUFFICES ASSUME ccstate = "REG" \/ phase = "mark" PROVE SnapshotInv'
    BY <1>1 DEF SnapshotInv
  <2> PICK first \in [Objects -> [Fields -> Pointers]] : IsSnapshotOf(first) /\ Covered(first)
    BY DEF SnapshotInv
  <2>1. \A x : Logged(x)' <=> Logged(x)
    BY <1>1 DEF Logged
  <2>2. obj \in snapshot => Logged(first[obj][key])
    BY <1>1 DEF Covered, At
  <2>3. \A o \in snapshot, k \in Fields : field'[o][k] = first[o][k] \/ Logged(first[o][k])
    BY <1>2, <1>5, <2>2 DEF Covered, Known
  <2>4. \A l \in Mutators : ~At(l, "none")' => write'[l] = write[l] /\ ~At(l, "none")
    BY <1>3, <1>4 DEF NoWrite, At
  <2>5. Covered(first)'
    BY <1>1, <2>1, <2>3, <2>4 DEF Covered, At
  <2> QED
    BY <1>1, <2>5, SnapshotSame DEF SnapshotInv
<1> QED
  BY <1>1, <1>6, <1>7, PhaseSame

(* Every step of a mutator keeps the invariant.                             *)
LEMMA MutateKeeps ==
  ASSUME IInv, NEW m \in Mutators, Mutate(m)
  PROVE  Safe'
BY LoadKeeps, AllocateKeeps, StartWriteKeeps, BarrierKeeps, PushKeeps, StoreKeeps
   DEF Mutate

(* A registration takes the snapshot of the pointers as they are.           *)
LEMMA RegisterKeeps ==
  ASSUME IInv, RegisterCont, StartsClean'
  PROVE  Safe'
<1> DEFINE kept == UNION {regs[m] : m \in Mutators}
<1> USE DEF IInv, Safe
<1>1. /\ UNCHANGED <<field, allocated, marked, write, phase, todo, worklist>>
      /\ phase = "idle" /\ \A m \in Mutators : At(m, "none")
      /\ roots' = kept /\ snapshot' = Reachable(kept)
      /\ ccstate' = "REG" /\ bag' = {} /\ closed' = FALSE /\ marked' = {}
  BY DEF RegisterCont, StartsClean
<1>2. /\ kept \in SUBSET Objects /\ kept \subseteq Known /\ Known \in SUBSET Objects
      /\ Known \subseteq allocated
  BY DEF KnownInv, Known, Unregistered, TypeInv, Types
<1>3. /\ snapshot' \subseteq Known /\ kept \subseteq snapshot' /\ snapshot' \subseteq Objects
      /\ \A o \in snapshot', k \in Fields : field[o][k] \in snapshot' \union {Nil}
  BY <1>1, <1>2, ReachableIsLeast, ReachableIsClosed DEF KnownInv, TypeInv
<1>4. \A o \in Known : space[ChunkOf[o]] # "freed" /\ ChunkOf[o] \in Chunks
  BY <1>2, Constants DEF KnownInv, Known, Unregistered
<1>5. \A o \in allocated : space[ChunkOf[o]] # "freed" => space'[ChunkOf[o]] = "from"
  <2> SUFFICES ASSUME NEW o \in allocated, space[ChunkOf[o]] # "freed"
               PROVE  space'[ChunkOf[o]] = "from"
    OBVIOUS
  <2>1. ChunkOf[o] \in Chunks
    BY Constants DEF TypeInv, Types
  <2> QED
    BY <2>1 DEF RegisterCont
<1>6. \A m \in Mutators : regs'[m] = kept /\ write[m].old \in Known \union {Nil}
  BY DEF RegisterCont, KnownInv
<1>7. KnownInv'
  <2>1. \A o \in snapshot' : space'[ChunkOf[o]] = "from"
    BY <1>2, <1>3, <1>4, <1>5
  <2>2. Known' = snapshot'
    BY <1>1, <1>5, Constants DEF Known, Unregistered, RegisterCont, TypeInv, Types
  <2>3. \A m \in Mutators : regs'[m] = kept /\ write'[m].old = Nil /\ ~At(m, "push")'
    BY <1>1, <1>6 DEF At, TypeInv, PointersInv
  <2> QED
    BY <1>1, <1>3, <2>1, <2>2, <2>3 DEF KnownInv
<1>8. PhaseInv'
  BY <1>1, <1>3 DEF PhaseInv
<1>9. SnapshotInv'
  <2>1. \A os \in SUBSET Objects :
          /\ kept \subseteq os
          /\ \A o \in os, k \in Fields : field[o][k] \in os \union {Nil}
          => Reachable(kept) \subseteq os
    BY ReachableIsLeast
  <2>2. IsSnapshotOf(field)'
    BY <1>1, <1>3, <2>1 DEF IsSnapshotOf
  <2>3. Covered(field)'
    BY <1>1 DEF Covered, At
  <2> QED
    BY <1>1, <2>2, <2>3 DEF SnapshotInv, TypeInv, Types
<1> QED
  BY <1>7, <1>8, <1>9

-----------------------------------------------------------------------------
(* The collector *)

(* What a step of the collector leaves alone.                               *)
LEMMA CollectorFrame ==
  ASSUME IInv,
         UNCHANGED <<field, allocated, mutator, snapshot>>,
         \A c \in Chunks : space'[c] = "primary" <=> space[c] = "primary",
         \A o \in snapshot : space'[ChunkOf[o]] \in {"from", "to"}
  PROVE  KnownInv'
<1>1. Known' = Known
  BY Constants DEF Known, Unregistered, IInv, TypeInv, Types
<1> QED
  BY <1>1 DEF IInv, Safe, KnownInv, mutator, At

(* The marking starts from the roots.                                       *)
LEMMA ClaimKeeps ==
  ASSUME IInv, ClaimHeap
  PROVE  Safe'
<1> USE DEF IInv, Safe, ClaimHeap, heap, mutator, counted, history
<1>1. KnownInv'
  BY CollectorFrame DEF KnownInv
<1>2. PhaseInv'
  BY DEF PhaseInv
<1>3. SnapshotInv'
  <2> PICK first \in [Objects -> [Fields -> Pointers]] : IsSnapshotOf(first) /\ Covered(first)
    BY DEF SnapshotInv
  <2>1. todo = {}
    BY DEF PhaseInv
  <2>2. Covered(first)'
    BY <2>1 DEF Covered, Logged, At
  <2> QED
    BY <2>2, SnapshotSame DEF SnapshotInv
<1> QED
  BY <1>1, <1>2, <1>3

(* A heap that is left alone stays as it is.                                *)
LEMMA LeaveAloneKeeps ==
  ASSUME IInv, LeaveAlone
  PROVE  Safe'
<1> USE DEF IInv, Safe, LeaveAlone, heap, mutator, counted, history
<1>1. KnownInv'
  BY CollectorFrame DEF KnownInv
<1> QED
  BY <1>1 DEF PhaseInv, SnapshotInv

(* A pointer of the snapshot is marked, another one is out of scope.        *)
LEMMA TryMarkFacts ==
  ASSUME IInv, phase = "mark", NEW v \in Known \union {Nil}, TryMark(v)
  PROVE  /\ v \in snapshot => v \in marked'
         /\ marked \subseteq marked' /\ marked' \subseteq marked \union {v}
         /\ marked' \subseteq snapshot
         /\ \A o \in marked' : space'[ChunkOf[o]] = "to"
         /\ \A c \in Chunks : space'[c] = "primary" <=> space[c] = "primary"
         /\ \A o \in snapshot : space'[ChunkOf[o]] \in {"from", "to"}
<1> USE DEF IInv, Safe, TypeInv, Types
<1>1. v \in snapshot <=> InScope(v)
  BY SnapshotInScope, RegisteredIsSnapshot, Constants DEF InScope, Known
<1>2. CASE InScope(v)
  <2>1. v \in Objects /\ ChunkOf[v] \in Chunks /\ \A o \in snapshot : ChunkOf[o] \in Chunks
    BY <1>1, <1>2, Constants
  <2>2. /\ space' = [space EXCEPT ![ChunkOf[v]] = "to"] /\ marked' = marked \union {v}
    BY <1>2 DEF TryMark
  <2>3. marked \subseteq snapshot /\ \A o \in marked : space[ChunkOf[o]] = "to"
    BY DEF PhaseInv
  <2> QED
    BY <1>1, <1>2, <2>1, <2>2, <2>3 DEF KnownInv, InScope
<1>3. CASE ~InScope(v)
  BY <1>1, <1>3 DEF TryMark, PhaseInv, KnownInv
<1> QED
  BY <1>2, <1>3

(* A root or a bag entry is marked, its fields go to the worklist.          *)
LEMMA MarkRootKeeps ==
  ASSUME IInv, NEW o \in Objects, MarkRoot(o)
  PROVE  Safe'
<1> USE DEF IInv, Safe, mutator, counted, history
<1>1. /\ UNCHANGED <<field, allocated, mutator, ccstate, phase, bag, closed, snapshot, roots>>
      /\ phase = "mark" /\ worklist = {} /\ o \in todo /\ TryMark(o)
      /\ todo' = todo \ {o} /\ worklist' = Found(o)
  BY DEF MarkRoot
<1>2. o \in snapshot /\ o \in Known
  BY <1>1 DEF PhaseInv, Known
<1>3. /\ o \in marked' /\ marked \subseteq marked' /\ marked' \subseteq marked \union {o}
      /\ marked' \subseteq snapshot
      /\ \A x \in marked' : space'[ChunkOf[x]] = "to"
      /\ \A c \in Chunks : space'[c] = "primary" <=> space[c] = "primary"
      /\ \A x \in snapshot : space'[ChunkOf[x]] \in {"from", "to"}
  BY <1>1, <1>2, TryMarkFacts
<1>4. KnownInv'
  BY <1>1, <1>3, CollectorFrame
<1>5. InScope(o)
  BY <1>2, SnapshotInScope
<1>6. worklist' \subseteq marked' \X Fields
  BY <1>1, <1>3 DEF Found, FieldsOf
<1>7. PhaseInv'
  BY <1>1, <1>3, <1>6 DEF PhaseInv
<1>8. SnapshotInv'
  <2> PICK first \in [Objects -> [Fields -> Pointers]] : IsSnapshotOf(first) /\ Covered(first)
    BY <1>1 DEF SnapshotInv
  <2>1. \A v : Logged(v) => Logged(v)'
    BY <1>1, <1>3 DEF Logged
  <2>2. ASSUME NEW x \in marked', NEW k \in Fields
        PROVE  <<x, k>> \in worklist' \/ Logged(first[x][k])'
    <3>1. CASE x \in marked
      BY <1>1, <2>1, <3>1 DEF Covered
    <3>2. CASE x \notin marked
      BY <1>1, <1>3, <1>5, <3>2 DEF Found, FieldsOf
    <3> QED
      BY <3>1, <3>2
  <2>3. Covered(first)'
    BY <1>1, <2>1, <2>2 DEF Covered, At
  <2> QED
    BY <1>1, <2>3, SnapshotSame DEF SnapshotInv
<1> QED
  BY <1>4, <1>7, <1>8

(* The collector may find another pointer than the first in a field: then   *)
(* the first is logged.                                                     *)
LEMMA MarkFieldKeeps ==
  ASSUME IInv, NEW o \in Objects, NEW k \in Fields, MarkField(o, k)
  PROVE  Safe'
<1> USE DEF IInv, Safe, mutator, counted, history
<1> PICK v : v = field[o][k]
  OBVIOUS
<1>1. /\ UNCHANGED <<field, allocated, mutator, ccstate, phase, bag, closed, snapshot, roots,
                     todo>>
      /\ phase = "mark" /\ <<o, k>> \in worklist /\ TryMark(v)
      /\ worklist' = (worklist \ {<<o, k>>}) \union Found(v)
  BY DEF MarkField
<1>2. o \in snapshot /\ v \in Known \union {Nil}
  BY <1>1 DEF PhaseInv, Known, KnownInv
<1>3. /\ v \in snapshot => v \in marked'
      /\ marked \subseteq marked' /\ marked' \subseteq marked \union {v}
      /\ marked' \subseteq snapshot
      /\ \A x \in marked' : space'[ChunkOf[x]] = "to"
      /\ \A c \in Chunks : space'[c] = "primary" <=> space[c] = "primary"
      /\ \A x \in snapshot : space'[ChunkOf[x]] \in {"from", "to"}
  BY <1>1, <1>2, TryMarkFacts
<1>4. KnownInv'
  BY <1>1, <1>3, CollectorFrame
<1>5. v \in marked' => InScope(v)
  BY <1>3, SnapshotInScope
<1>6. worklist' \subseteq marked' \X Fields
  <2>1. worklist \subseteq marked' \X Fields
    BY <1>1, <1>3 DEF PhaseInv
  <2>2. InScope(v) => v \in marked'
    BY <1>1 DEF TryMark
  <2> QED
    BY <1>1, <2>1, <2>2 DEF Found, FieldsOf
<1>7. PhaseInv'
  BY <1>1, <1>3, <1>6 DEF PhaseInv
<1>8. SnapshotInv'
  <2> PICK first \in [Objects -> [Fields -> Pointers]] : IsSnapshotOf(first) /\ Covered(first)
    BY <1>1 DEF SnapshotInv
  <2>1. \A x : Logged(x) => Logged(x)'
    BY <1>1, <1>3 DEF Logged
  <2>2. Logged(first[o][k])'
    <3>1. CASE field[o][k] = first[o][k]
      <4>1. v \in snapshot \union {Nil}
        BY <1>2, <3>1 DEF IsSnapshotOf
      <4> QED
        BY <1>3, <3>1, <4>1 DEF Logged
    <3>2. CASE field[o][k] # first[o][k]
      BY <1>2, <2>1, <3>2 DEF Covered
    <3> QED
      BY <3>1, <3>2
  <2>3. ASSUME NEW x \in marked', NEW j \in Fields
        PROVE  <<x, j>> \in worklist' \/ Logged(first[x][j])'
    <3>1. CASE x \in marked
      BY <1>1, <2>1, <2>2, <3>1 DEF Covered
    <3>2. CASE x \notin marked
      BY <1>1, <1>3, <1>5, <3>2 DEF Found, FieldsOf
    <3> QED
      BY <3>1, <3>2
  <2>4. Covered(first)'
    BY <1>1, <2>1, <2>3 DEF Covered, At
  <2> QED
    BY <1>1, <2>4, SnapshotSame DEF SnapshotInv
<1> QED
  BY <1>4, <1>7, <1>8

(* Every pointer of the snapshot that was overwritten was handed to the     *)
(* collector, so that with nothing left to go through all is marked.        *)
LEMMA MarkingIsComplete ==
  ASSUME IInv
  PROVE  MarksAreSnapshot
<1> SUFFICES ASSUME phase = "mark", todo = {}, worklist = {}, bag = {}
             PROVE  marked = snapshot
  BY DEF MarksAreSnapshot
<1> USE DEF IInv, Safe
<1> PICK first \in [Objects -> [Fields -> Pointers]] : IsSnapshotOf(first) /\ Covered(first)
  BY DEF SnapshotInv
<1>1. marked \subseteq snapshot /\ roots \subseteq marked /\ marked \in SUBSET Objects
  BY DEF PhaseInv, TypeInv, Types
<1>2. \A o \in marked, k \in Fields : first[o][k] \in marked \union {Nil}
  BY DEF Covered, Logged
<1> QED
  BY <1>1, <1>2 DEF IsSnapshotOf

(* The bag is closed only if everything is marked; a batch stays logged.    *)
LEMMA CloseStackKeeps ==
  ASSUME IInv, CloseStack
  PROVE  Safe'
<1> USE DEF IInv, Safe
<1>1. /\ UNCHANGED <<field, allocated, space, marked, mutator, ccstate, worklist, snapshot,
                     roots>>
      /\ phase = "mark" /\ worklist = {} /\ todo = {}
  BY DEF CloseStack, heap, counted, history
<1>2. KnownInv'
  BY <1>1, CollectorFrame DEF KnownInv
<1>3. CASE bag = {} /\ Close
  <2>1. marked = snapshot
    BY <1>1, <1>3, MarkingIsComplete DEF MarksAreSnapshot
  <2>2. PhaseInv'
    BY <1>1, <1>3, <2>1 DEF PhaseInv, Close
  <2>3. SnapshotInv'
    BY <1>1, <1>3 DEF SnapshotInv, Close, PhaseInv
  <2> QED
    BY <1>2, <2>2, <2>3
<1>4. ASSUME NEW batch \in SUBSET bag, TakeBatch(batch) PROVE Safe'
  <2>1. PhaseInv'
    BY <1>1, <1>4 DEF PhaseInv, TakeBatch
  <2>2. SnapshotInv'
    <3> PICK first \in [Objects -> [Fields -> Pointers]] :
               IsSnapshotOf(first) /\ Covered(first)
      BY <1>1 DEF SnapshotInv
    <3>1. \A v : Logged(v) => Logged(v)'
      BY <1>1, <1>4 DEF Logged, TakeBatch
    <3>2. Covered(first)'
      BY <1>1, <3>1 DEF Covered, At, mutator
    <3> QED
      BY <1>1, <3>2, SnapshotSame DEF SnapshotInv
  <2> QED
    BY <1>2, <2>1, <2>2
<1> QED
  BY <1>3, <1>4 DEF CloseStack, CloseOrTake

(* Unmarking does not touch the chunks.                                     *)
LEMMA UnmarkRootKeeps ==
  ASSUME IInv, NEW o \in Objects, UnmarkRoot(o)
  PROVE  Safe'
<1> USE DEF IInv, Safe, UnmarkRoot, heap, counted, history
<1>1. KnownInv'
  BY CollectorFrame DEF KnownInv
<1> QED
  BY <1>1 DEF PhaseInv, SnapshotInv

(* Unmarking does not touch the chunks.                                     *)
LEMMA UnmarkFieldKeeps ==
  ASSUME IInv, NEW o \in Objects, NEW k \in Fields, UnmarkField(o, k)
  PROVE  Safe'
<1> USE DEF IInv, Safe, UnmarkField, heap, counted, history
<1>1. KnownInv'
  BY CollectorFrame DEF KnownInv
<1> QED
  BY <1>1 DEF PhaseInv, SnapshotInv

(* Unmarking goes on with the entries of the bag.                           *)
LEMMA UnmarkRemovedKeeps ==
  ASSUME IInv, UnmarkRemoved
  PROVE  Safe'
<1> USE DEF IInv, Safe, UnmarkRemoved, heap, counted, history
<1>1. KnownInv'
  BY CollectorFrame DEF KnownInv
<1> QED
  BY <1>1 DEF PhaseInv, SnapshotInv

(* The chunks that are freed hold nothing of the snapshot.                  *)
LEMMA FreeChunksKeeps ==
  ASSUME IInv, FreeChunks
  PROVE  Safe'
<1> USE DEF IInv, Safe, FreeChunks, counted, history
<1>1. \A o \in snapshot : ChunkOf[o] \in Chunks /\ space[ChunkOf[o]] = "to"
  BY Constants DEF PhaseInv, TypeInv, Types
<1>2. \A o \in snapshot : space'[ChunkOf[o]] = "to"
  BY <1>1
<1>3. KnownInv'
  BY <1>2, CollectorFrame
<1>4. PhaseInv'
  BY <1>2 DEF PhaseInv
<1> QED
  BY <1>3, <1>4 DEF SnapshotInv, PhaseInv

(* The collection ends with all marks and lists of its own done.            *)
LEMMA FinishKeeps ==
  ASSUME IInv, Finish
  PROVE  Safe'
<1> USE DEF IInv, Safe, Finish, heap, counted, history
<1>1. KnownInv'
  BY CollectorFrame DEF KnownInv
<1> QED
  BY <1>1 DEF PhaseInv, SnapshotInv

(* Every step of the collector keeps the invariant.                         *)
LEMMA CollectKeeps ==
  ASSUME IInv, Collect
  PROVE  Safe'
BY ClaimKeeps, LeaveAloneKeeps, CloseStackKeeps, UnmarkRemovedKeeps, FreeChunksKeeps,
   FinishKeeps, MarkRootKeeps, UnmarkRootKeeps, MarkFieldKeeps, UnmarkFieldKeeps
   DEF Collect

-----------------------------------------------------------------------------
(* The theorems *)

(* At first everything is known and nothing is registered.                  *)
LEMMA IInvInit == Init => IInv
<1> SUFFICES ASSUME Init PROVE IInv
  OBVIOUS
<1>1. TypeInv
  BY TypeInit
<1>2. Known = Old
  BY Constants DEF Init, Known, Unregistered
<1>3. KnownInv
  <2>1. allocated = Known /\ snapshot = {}
    BY <1>2 DEF Init
  <2>2. \A m \in Mutators : regs[m] = Held
    BY DEF Init
  <2>3. \A m \in Mutators : write[m] = NoWrite
    BY DEF Init
  <2>4. \A m \in Mutators : write[m].pc = "none"
    <3>1. NoWrite.pc = "none"
      BY DEF NoWrite
    <3> QED
      BY <2>3, <3>1
  <2>5. Held \subseteq Known
    BY <1>2, Constants
  <2> QED
    BY <1>1, <2>1, <2>2, <2>4, <2>5 DEF KnownInv, TypeInv, PointersInv, At
<1>4. PhaseInv /\ SnapshotInv
  BY DEF Init, PhaseInv, SnapshotInv
<1> QED
  BY <1>1, <1>3, <1>4 DEF IInv, Safe

(* A collection that starts with no mark left keeps the invariant.          *)
LEMMA IInvNext == IInv /\ [Next]_vars /\ StartsClean' => IInv'
<1> SUFFICES ASSUME IInv, [Next]_vars, StartsClean' PROVE Safe'
  BY TypeNext DEF IInv
<1>1. CASE UNCHANGED vars
  BY <1>1, CoverageSame, PhaseSame
     DEF IInv, Safe, KnownInv, Known, Unregistered, At, vars, heap, mutator, collector,
         history, counted
<1> QED
  BY <1>1, MutateKeeps, CollectKeeps, RegisterKeeps DEF Next, Stop

(* The invariant implies that nothing in use is freed.                      *)
LEMMA KnownIsKept == IInv => ReachableIsKept
<1> SUFFICES ASSUME IInv PROVE ReachableIsKept
  OBVIOUS
<1>1. InUse \subseteq Known /\ Known \in SUBSET Objects
  BY DEF IInv, Safe, KnownInv, InUse, Known, Unregistered, TypeInv, Types
<1>2. Reachable(InUse) \subseteq Known
  BY <1>1, ReachableIsLeast DEF IInv, Safe, KnownInv
<1>3. \A o \in Known : space[ChunkOf[o]] # "freed"
  BY DEF IInv, Safe, KnownInv, Known, Unregistered
<1> QED
  BY <1>2, <1>3 DEF ReachableIsKept

(* Every variable keeps its type, for any number of collections, clean or   *)
(* not: no mutator, root, bag or worklist gets a pointer to an object that  *)
(* was never allocated.                                                     *)
THEOREM TypesKept == Spec => []TypeOK
<1>1. TypeInv => TypeOK
  BY DEF TypeInv, Types, Writes, TypeOK
<1> QED
  BY <1>1, TypeInit, TypeNext, PTL DEF Spec

(* As long as every collection starts without marks, no chunk is freed that *)
(* holds an object a mutator can reach, through whatever the mutators       *)
(* loaded, stored and allocated meanwhile.                                  *)
THEOREM CleanCollectionsKeepReachable == Spec /\ []StartsClean => []ReachableIsKept
BY IInvInit, IInvNext, KnownIsKept, PTL DEF Spec

(* As long as every collection starts without marks, marking ends with all  *)
(* that was reachable at registration, in spite of the writes, and nothing  *)
(* else.                                                                    *)
THEOREM CleanCollectionsMarkSnapshot == Spec /\ []StartsClean => []MarksAreSnapshot
<1>1. IInv => MarksAreSnapshot
  BY MarkingIsComplete
<1> QED
  BY <1>1, IInvInit, IInvNext, PTL DEF Spec

(* The first collection finds no mark.                                      *)
FirstInv ==
  /\ collections = 0 => ccstate = "UNREG"
  /\ ccstate \in {"UNREG", "REG"} => phase = "idle"
  /\ ccstate = "UNREG" => marked = {}
  /\ ccstate = "REG" /\ collections = 1 => marked = {}

FirstIInv == FirstInv /\ TypeInv /\ (collections <= 1 => IInv)

(* Marks appear only in a collection.                                       *)
LEMMA FirstNext == FirstInv /\ TypeInv /\ [Next]_vars => FirstInv'
<1> SUFFICES ASSUME FirstInv, TypeInv, [Next]_vars PROVE FirstInv'
  OBVIOUS
<1> USE DEF FirstInv, heap, mutator, collector, history, counted
<1>1. CASE UNCHANGED vars
  BY <1>1 DEF vars
<1>2. ASSUME NEW m \in Mutators, Mutate(m) PROVE FirstInv'
  BY <1>2 DEF Mutate, Load, Allocate, StartWrite, Barrier, Push, Store
<1>3. CASE RegisterCont
  BY <1>3 DEF RegisterCont, TypeInv, Types
<1>4. CASE Collect
  BY <1>4 DEF Collect, ClaimHeap, LeaveAlone, CloseStack, CloseOrTake, Close, TakeBatch,
              UnmarkRemoved, FreeChunks, Finish, MarkRoot, UnmarkRoot, MarkField,
              UnmarkField
<1> QED
  BY <1>1, <1>2, <1>3, <1>4 DEF Next, Stop

(* The number of collections does not shrink.                               *)
LEMMA CollectionsGrow ==
  ASSUME TypeInv, [Next]_vars, collections' <= 1
  PROVE  collections <= 1
<1> USE DEF heap, mutator, collector, history, counted, TypeInv, Types
<1>1. CASE UNCHANGED vars
  BY <1>1 DEF vars
<1>2. ASSUME NEW m \in Mutators, Mutate(m) PROVE collections <= 1
  BY <1>2 DEF Mutate, Load, Allocate, StartWrite, Barrier, Push, Store
<1>3. CASE RegisterCont
  BY <1>3 DEF RegisterCont
<1>4. CASE Collect
  BY <1>4 DEF Collect, ClaimHeap, LeaveAlone, CloseStack, CloseOrTake, Close, TakeBatch,
              UnmarkRemoved, FreeChunks, Finish, MarkRoot, UnmarkRoot, MarkField,
              UnmarkField
<1> QED
  BY <1>1, <1>2, <1>3, <1>4 DEF Next, Stop

(* The first collection of a heap needs no assumption: until the second     *)
(* registration nothing reachable is freed, and marking ends with the       *)
(* snapshot.                                                                *)
THEOREM FirstCollectionIsSafe ==
  Spec => [](collections <= 1 => ReachableIsKept /\ MarksAreSnapshot)
<1>1. Init => FirstIInv
  BY IInvInit, TypeInit DEF FirstIInv, FirstInv, Init
<1>2. FirstIInv /\ [Next]_vars => FirstIInv'
  <2> SUFFICES ASSUME FirstIInv, [Next]_vars PROVE FirstIInv'
    OBVIOUS
  <2>1. FirstInv' /\ TypeInv'
    BY FirstNext, TypeNext DEF FirstIInv
  <2>2. ASSUME collections' <= 1 PROVE IInv'
    <3>1. IInv
      BY <2>2, CollectionsGrow DEF FirstIInv
    <3>2. StartsClean'
      BY <2>1, <2>2 DEF FirstInv, StartsClean, TypeInv, Types
    <3> QED
      BY <3>1, <3>2, IInvNext
  <2> QED
    BY <2>1, <2>2 DEF FirstIInv
<1>3. FirstIInv => (collections <= 1 => ReachableIsKept /\ MarksAreSnapshot)
  BY KnownIsKept, MarkingIsComplete DEF FirstIInv
<1> QED
  BY <1>1, <1>2, <1>3, PTL DEF Spec

-------------------------------------------------------------------------------
(***************************************************************************)
(* The local collector, for any objects, fields, programs that are plain   *)
(* (IsPlain), and number of collections.                                   *)
(*                                                                         *)
(* The reader can hold only what the collector leaves in its place: it     *)
(* pins what it finds before it holds it.  What it may find next is what   *)
(* the shared object and the objects that it holds lead to.  In a plain    *)
(* program that starts with pinned objects that are remembered (RootInv,   *)
(* HeldInv), and what the entries lead to in the collected heaps is        *)
(* visited while the two still race for the headers (ScanInv).  When the   *)
(* entries are done a set of visited objects closed under fields holds all *)
(* that the reader can still find in these heaps (KnownTo).  So nobody     *)
(* pins a private object while it is copied with plain stores, nothing is  *)
(* freed that the owner or the reader has a pointer to, and the chunks     *)
(* that the reader may be on its way through are retired.                  *)
(*                                                                         *)
(* Without IsPlain it is not so: a chain of immutable objects is forwarded *)
(* behind the reader (the run reader_help), and a pointer into a deeper    *)
(* heap of the owner's is forgotten with its entry (entry_forgotten).      *)
(*                                                                         *)
(* The lemmas follow the steps: what a step of each kind leaves as it is   *)
(* (ReaderFrame, OwnerFrame, Quiet, Moves, Relocates, Frees), what follows *)
(* from that for each part of the invariant, and then each action.         *)
(***************************************************************************)

(* The versions of the owner's objects; the slots of fields and of the     *)
(* objects that remembered pointers are in; what a write, an entry, a chunk*)
(* and a call of make_entangled are in a plain program.                    *)
Own == LocalObjects \X (0 .. MaxLocalCollections)
SlotsOf == [at : Own \union {Root, Roots}, f : LocalFields \union {NULL}]
FieldSlots == [at : Own \union {Root}, f : LocalFields]
LocalWrites == [dst : Own \union {Root}, f : LocalFields, src : Own]
Entries == [object : Own, from : {NULL, Root}]
Spaces == {"none", "outside", "from", "pinned", "to", "retired", "freed"}
Chunk == [header : Header, field : [LocalFields -> Own \union {NULL}], space : Spaces, retire : BOOLEAN]
Marking == {"entries", "keep", "entangled", "scan", "copy", "forward", "store"}
Copying == {"roots", "install"}
GcPcs == Marking \union Copying \union {"idle", "free", "unmark"}
Frames == [slot : {NULL}, ptr : Own, pc : {"enter", "pin", "fields", "remember", "finish"},
           todo : SUBSET LocalFields, add : BOOLEAN, new : Own \union {NULL}]
ReaderPcs == {"idle", "check", "check again", "read", "manage", "entangle"}

spaceOf(p) == mem[p].space
fld(p, f) == mem[p].field[f]
InGc == gc.pc # "idle"

(* The types, by who changes what.                                         *)
GcTypes ==
  gc \in [pc : GcPcs, minDepth : 2 .. MaxDepth, level : 2 .. MaxDepth, work : SUBSET SlotsOf,
          entry : Entries \union {NULL}, slot : SlotsOf \union {NULL}, op : Own \union {NULL},
          copy : Own \union Chunk \union {NULL}]
ReaderTypes ==
  /\ reader \in [pc : ReaderPcs, slot : FieldSlots \union {NULL}, ptr : Own \union {NULL},
                 firstCall : BOOLEAN, frames : Seq(Frames)]
  /\ held \subseteq Own
OwnerTypes ==
  /\ localWrite \in LocalWrites \union {NULL}
  /\ counts \in [collections : 0 .. MaxLocalCollections, writes : Nat]
  /\ remSet \subseteq Entries /\ toRemSet \subseteq Entries /\ suspects = {}
MemTypes == mem \in [Addr -> Chunk]

(* The mutable objects are in the deepest heap, so every collection        *)
(* collects them.                                                          *)
DepthInv ==
  /\ shape \in Programs
  /\ IsPlain(shape)
  /\ depth \in [LocalObjects \union {Shared, Stack} -> 1 .. MaxDepth]
  /\ depth[Shared] = SharedDepth /\ depth[Stack] = SharedDepth
  /\ \A o \in LocalObjects : depth[o] > SharedDepth
  /\ \A o \in LocalObjects \intersect Mutable :
       /\ \A x \in LocalObjects : depth[x] <= depth[o]
       /\ InGc => depth[o] >= gc.minDepth

(* Headers: every pin is for the shared heap; a mark is on what the reader *)
(* has pinned in its chunk and will be taken off; a forwarding pointer is  *)
(* on what is not kept.                                                    *)
HeadInv ==
  /\ \A p \in Addr :
       /\ mem[p].header.unpinDepth = IF mem[p].header.pin = "none" THEN 0 ELSE SharedDepth
       /\ mem[p].header.fwd => mem[p].header = FwdHeader
  /\ \A p \in {Root, Roots} :
       /\ mem[p].header.pin = "none" /\ ~mem[p].header.fwd /\ ~mem[p].header.mark
       /\ mem[p].space = "outside"
  /\ \A p \in Own :
       /\ mem[p].space # "outside"
       /\ mem[p].header.pin # "none" => mem[p].space \in {"from", "pinned", "to"}
       /\ mem[p].space = "pinned" => mem[p].header.pin # "none"
       /\ mem[p].header.mark => /\ mem[p].space = "pinned" /\ mem[p].header.pin = "any"
                                /\ Remembered(p, NULL) \in toRemSet
       /\ mem[p].header.fwd => mem[p].space \in {"from", "retired"}
       /\ mem[p].space \in {"none", "freed"} => mem[p].header = Plain
       /\ mem[p].space \in {"pinned", "to"} => gc.pc # "idle" /\ depth[p[1]] >= gc.minDepth

(* A forwarding pointer in from space leads to a copy that is in to space, *)
(* and while there may be pinned objects its chunk is retired, not freed.  *)
FwdInv ==
  \A p \in Own : mem[p].space = "from" /\ mem[p].header.fwd =>
    /\ gc.pc \in Marking \union Copying \union {"free"} /\ depth[p[1]] >= gc.minDepth
    /\ mem[getFwdPtr(p)].space = "to"
    /\ gc.pc \in Marking => mem[p].retire

(* Every collection makes at most one version, and the earlier ones are    *)
(* forwarded or freed.                                                     *)
VersInv ==
  \A p \in Own : mem[p].space # "none" =>
    /\ p[2] <= counts.collections
    /\ mem[p].space \in {"from", "pinned"} /\ gc.pc \in Marking \union Copying => p[2] < counts.collections
    /\ mem[p].header.fwd => p[2] < counts.collections
    /\ \A q \in Own : q[1] = p[1] /\ q[2] < p[2] => mem[q].header.fwd \/ mem[q].space = "freed"

(* An object is live if it is there and was not moved.  A pointer in a live*)
(* object leads to one, or to one that the collection has moved and will   *)
(* update.                                                                 *)
Live(p) == mem[p].space \in {"outside", "from", "pinned", "to"} /\ ~mem[p].header.fwd
Good(t) == Live(t) \/ (mem[t].space = "from" /\ mem[t].header.fwd)
FieldInv ==
  \A p \in Addr, f \in LocalFields, t \in Own : mem[p].field[f] = t =>
    /\ f \in FieldNames[p[1]] /\ p[1] \in Mutable \union {Stack}
    /\ Live(p) => Good(t)

(* What the collector has not to look at: it is in no collected heap, stays*)
(* or was moved, or the remembered set will lead to it.                    *)
Scoped(p) == depth[p[1]] >= gc.minDepth
Visited(p) == mem[p].space \in {"pinned", "to"}
RootTarget(t) == \E f \in LocalFields : mem[Root].field[f] = t
WriteTarget(t) == localWrite # NULL /\ localWrite.dst = Root /\ localWrite.src = t
Done(t) == ~Scoped(t) \/ Visited(t) \/ (gc.pc \in Marking /\ RootTarget(t))
Scans(x) == IF x = Roots THEN gc.pc \notin Marking ELSE Visited(x) /\ ~(gc.pc = "store" /\ gc.copy = x)
Slot(x, f) == [at |-> x, f |-> f]

(* The fields of what is visited are in the work list, at hand, or lead to *)
(* what is done.                                                           *)
ScanInv ==
  gc.pc \in Marking \union Copying \union {"free"} =>
     \A x \in Own \union {Roots}, f \in LocalFields, t \in Own :
       Scans(x) /\ mem[x].field[f] = t => Slot(x, f) \in gc.work \/ Slot(x, f) = gc.slot \/ Done(t)
(* The work list: fields of visited objects, and at the end also those of  *)
(* the stack and the objects of remembered pointers.                       *)
WorkInv ==
  /\ gc.pc \in {"idle", "entries", "keep", "free", "unmark"} => gc.work = {}
  /\ gc.pc \in {"idle", "entries", "keep", "scan", "roots", "free", "unmark"} => gc.slot = NULL
  /\ \A x \in Own \union {Root, Roots}, f \in LocalFields \union {NULL} : Slot(x, f) \in gc.work =>
       \/ x \in Own /\ Visited(x) /\ f \in LocalFields
       \/ x = Roots /\ f \in LocalFields /\ gc.pc \in Copying
       \/ x = Root /\ f = NULL /\ gc.pc \in Copying
  /\ \A x \in Own \union {Root, Roots}, f \in LocalFields \union {NULL} : gc.slot = Slot(x, f) =>
       /\ f \in LocalFields /\ gc.op # NULL
       /\ (x \in Own /\ Visited(x)) \/ (x = Roots /\ gc.pc \in Copying)
       /\ mem[x].field[f] = gc.op

(* The object at hand, by the step the collector is at; a private copy is  *)
(* still what was copied unless a pin came in between.                     *)
OpInv ==
  /\ gc.pc = "keep" => gc.entry # NULL
  /\ \A e \in Entries : gc.pc = "keep" /\ gc.entry = e =>
       Scoped(e.object) /\ isPinned(e.object) /\ mem[e.object].space \in {"from", "pinned"}
  /\ gc.pc \in {"entangled", "copy", "forward", "install"} => gc.op # NULL
  /\ gc.pc \in {"copy", "forward", "store", "install"} => gc.slot # NULL
  /\ \A o \in Own : gc.op = o =>
       /\ gc.pc \in {"entangled", "copy", "forward", "install"} =>
            Scoped(o) /\ mem[o].space \in {"from", "pinned"} /\ ~mem[o].header.fwd
       /\ gc.pc = "entangled" => isPinned(o) /\ (gc.slot # NULL => mem[o].header.pin = "any")
       /\ gc.pc = "copy" => mem[o].header.pin # "down" /\ ~mem[o].header.mark
       /\ gc.pc \in {"forward", "install"} =>
            /\ mem[o].header.pin # "down" /\ ~mem[o].header.mark
            /\ mem[o].space = "from" /\ gc.copy \in Chunk
            /\ gc.copy.field = mem[o].field
            /\ gc.copy.header.pin = "none" /\ ~gc.copy.header.fwd /\ ~gc.copy.header.mark
            /\ gc.copy.header.unpinDepth = 0
            /\ isPinned(o) \/ mem[o].header = gc.copy.header
       /\ gc.pc = "install" => mem[o].header = gc.copy.header
  /\ gc.pc = "store" => gc.copy \in Own
  /\ \A c \in Own : gc.pc = "store" /\ gc.copy = c =>
       /\ mem[c].space = "to"
       /\ \A o \in Own : gc.op = o => c[1] = o[1]
  /\ gc.pc \in Marking => gc.minDepth <= gc.level

(* A write under way: what it needs is live, and its field was empty.      *)
WriteInv ==
  /\ gc.pc # "idle" => localWrite = NULL
  /\ \A w \in LocalWrites : localWrite = w =>
       /\ Live(w.dst) /\ Live(w.src) /\ w.f \in FieldNames[w.dst[1]] /\ w.dst[1] \in Mutable
       /\ mem[w.dst].field[w.f] = NULL

(* The entries of the remembered sets lead to pinned objects, and what the *)
(* shared object leads to, or a write will make it lead to, has an entry   *)
(* that the collector has yet to take or has taken.                        *)
RootInv ==
  /\ gc.pc = "idle" => toRemSet = {}
  /\ \A e \in remSet \union toRemSet : isPinned(e.object)
  /\ gc.pc \in Marking => \A e \in remSet : e.from = Root /\ Scoped(e.object) => opDepth(e.object) <= gc.level
  /\ \A t \in Own : RootTarget(t) \/ WriteTarget(t) =>
       /\ mem[Root].header.suspect
       /\ isPinned(t) /\ mem[t].space \in {"from", "pinned"}
       /\ \/ Remembered(t, Root) \in remSet \/ Remembered(t, Root) \in toRemSet
          \/ gc.pc = "keep" /\ gc.entry = Remembered(t, Root)
       /\ gc.pc \in Marking /\ Scoped(t) =>
            \/ Remembered(t, Root) \in remSet \/ (gc.pc = "keep" /\ gc.entry = Remembered(t, Root))
            \/ Visited(t) \/ (gc.pc = "entangled" /\ gc.op = t)

(* A pin has a reason: the shared object leads there, the reader holds the *)
(* object, or is about to.                                                 *)
Ending(p) ==
  /\ reader.pc = "entangle" /\ Top.pc \in {"remember", "finish"} /\ Top.new = p
PinInv ==
  \A p \in Own :
    /\ isPinned(p) => RootTarget(p) \/ WriteTarget(p) \/ p \in held \/ Ending(p)
    /\ mem[p].header.pin = "down" => RootTarget(p) \/ WriteTarget(p)

(* The forwarding pointers from p end at q.                                *)
LeadsTo(p, q) ==
  /\ q[1] = p[1] /\ p[2] <= q[2] /\ Live(q)
  /\ \A m \in p[2] .. q[2] - 1 : mem[<<p[1], m>>].header.fwd
Names(x, f, q) == mem[x].field[f] # NULL /\ mem[x].field[f][1] = q[1]

(* What the reader holds is pinned, and each set of it is pointed to, by   *)
(* whatever version, from the shared object or from the rest.              *)
HeldInv ==
  /\ \A p \in held : isPinned(p) /\ (isMutable(p) => mem[p].header.suspect)
  /\ \A S \in SUBSET held : S # {} =>
       \E q \in S, x \in (held \ S) \union {Root}, f \in LocalFields : Names(x, f, q)
(* The pointer that the reader works on was read from what it holds or the *)
(* shared object, which still names its object, and leads to a live version*)
(* of it.                                                                  *)
BarrierInv ==
  /\ reader.pc = "idle" <=> reader.ptr = NULL
  /\ reader.pc # "entangle" => reader.frames = <<>>
  /\ reader.pc = "entangle" => reader.frames = <<Top>> /\ Top \in Frames /\ Top.ptr = reader.ptr
  /\ \A p \in Own : reader.ptr = p =>
       /\ \E x \in held \union {Root}, f \in LocalFields :
            reader.slot = Slot(x, f) /\ x[1] \in Mutable /\ Names(x, f, p)
       /\ \E q \in Own : LeadsTo(p, q)
       /\ reader.pc = "entangle" =>
            /\ Top.pc = "fields" => p[1] \notin Mutable
            /\ Top.pc \in {"remember", "finish"} =>
                 \E q \in Own : Top.new = q /\ LeadsTo(p, q) /\ isPinned(q)

(* When the remembered entries are done there is a set of visited objects  *)
(* that holds the pinned ones, what these and the shared object lead to,   *)
(* and where the reader's pointer ends; a version of theirs that was moved *)
(* is retired.  The reader cannot come by any other object of the collected*)
(* heaps.                                                                  *)
KnownTo(Z) ==
  /\ \A x \in Z : Visited(x)
  /\ \A q \in Own : isPinned(q) /\ Scoped(q) => q \in Z
  /\ \A x \in Z \union {Root}, f \in LocalFields, t \in Own :
       mem[x].field[f] = t /\ Scoped(t) => t \in Z
  /\ \A p, q \in Own : reader.ptr = p /\ LeadsTo(p, q) /\ Scoped(q) => q \in Z
  /\ \A p \in Own : mem[p].space = "from" /\ mem[p].header.fwd /\ getFwdPtr(p) \in Z => mem[p].retire
VisitedInv == gc.pc \in Copying \union {"free"} => \E Z \in SUBSET Own : KnownTo(Z)

(* What is to be shown of a step of the owner or the collector, and        *)
(* besides, of one of the reader.                                          *)
GcInv ==
  /\ GcTypes /\ OwnerTypes /\ MemTypes /\ DepthInv /\ HeadInv /\ FwdInv /\ VersInv /\ FieldInv
  /\ ScanInv /\ WorkInv /\ OpInv /\ WriteInv /\ RootInv
ReaderInv == ReaderTypes /\ PinInv /\ HeldInv /\ BarrierInv /\ VisitedInv
LocalInv == GcInv /\ ReaderInv

-------------------------------------------------------------------------------

\* The constants, as the proofs use them.
LEMMA AddrFacts ==
  /\ Own \subseteq Addr /\ Root \in Addr /\ Roots \in Addr /\ Addr = Own \union {Root, Roots}
  /\ Root \notin Own /\ Roots \notin Own /\ Root # Roots /\ NULL \notin Addr
  /\ Root[1] = Shared /\ Roots[1] = Stack /\ Shared # Stack
  /\ Shared \notin LocalObjects /\ Stack \notin LocalObjects /\ Stack \notin Mutable /\ Shared \in Mutable
  /\ MaxLocalCollections \in Nat /\ Mutable \subseteq LocalObjects \union {Shared}
  /\ NULL \notin LocalFields /\ NULL \notin SlotsOf /\ NULL \notin FieldSlots /\ NULL \notin LocalWrites
BY LocalAssumption DEF Addr, Own, Root, Roots, SlotsOf, FieldSlots, LocalWrites

\* A version of an object is its name and its number.
LEMMA OwnFacts ==
  ASSUME NEW p \in Own
  PROVE  /\ p[1] \in LocalObjects /\ p[2] \in 0 .. MaxLocalCollections /\ p[2] \in Nat
         /\ p = <<p[1], p[2]>> /\ p \in Addr /\ p # NULL /\ p # Root /\ p # Roots
BY AddrFacts DEF Own

\* ... and is given by these.
LEMMA SameOwn ==
  ASSUME NEW p \in Own, NEW q \in Own, p[1] = q[1], p[2] = q[2]
  PROVE  p = q
BY OwnFacts

\* The next version of an object, when there is one.
LEMMA NextFacts ==
  ASSUME NEW p \in Own, p[2] < MaxLocalCollections
  PROVE  /\ getFwdPtr(p) \in Own /\ getFwdPtr(p)[1] = p[1] /\ getFwdPtr(p)[2] = p[2] + 1
         /\ getFwdPtr(p) # p /\ getFwdPtr(p) \in Addr
BY OwnFacts, AddrFacts DEF Own, getFwdPtr

\* ... is the one with the next number.
LEMMA NextOf ==
  ASSUME NEW p \in Own, NEW q \in Own, q[1] = p[1], q[2] = p[2] + 1
  PROVE  q = getFwdPtr(p)
BY OwnFacts DEF getFwdPtr

\* The versions between two of an object.
LEMMA VersionIsOwn ==
  ASSUME NEW p \in Own, NEW q \in Own, NEW m \in p[2] .. q[2]
  PROVE  <<p[1], m>> \in Own /\ <<p[1], m>>[1] = p[1] /\ <<p[1], m>>[2] = m
BY OwnFacts, AddrFacts DEF Own

\* The names of fields are fields.
LEMMA FieldNamesFacts ==
  /\ FieldNames \in [LocalObjects \union {Shared, Stack} -> SUBSET LocalFields]
  /\ \A p \in Addr : p[1] \in LocalObjects \union {Shared, Stack}
                     /\ FieldNames[p[1]] \subseteq LocalFields
BY LocalAssumption, AddrFacts, OwnFacts

\* The lesser of two numbers.
LEMMA MinOfTwo ==
  ASSUME NEW a \in Nat, NEW b \in Nat
  PROVE  Min({a, b}) = IF a <= b THEN a ELSE b
<1> DEFINE m == IF a <= b THEN a ELSE b
<1>1. m \in {a, b} /\ \A y \in {a, b} : m <= y
  OBVIOUS
<1>2. \A x \in {a, b} : (\A y \in {a, b} : x <= y) => x = m
  OBVIOUS
<1> HIDE DEF m
<1>3. Min({a, b}) = m
  BY <1>1, <1>2 DEF Min
<1> QED
  BY <1>3 DEF m

(* Pins are for the shared heap, always.                                   *)
PinnedHeader(h) == h \in Header /\ h.unpinDepth = IF h.pin = "none" THEN 0 ELSE SharedDepth

\* A pin for the shared heap changes the pin and its depth only.
LEMMA PinnedFacts ==
  ASSUME NEW h, PinnedHeader(h), NEW pt \in {"down", "any"}
  PROVE  LET new == Pinned(h, SharedDepth, pt) IN
         /\ new \in Header /\ PinnedHeader(new)
         /\ new.pin = IF h.pin = "any" THEN "any" ELSE pt
         /\ new.pin # "none" /\ new.unpinDepth = SharedDepth
         /\ new.fwd = h.fwd /\ new.mark = h.mark /\ new.suspect = h.suspect
<1> DEFINE ud == IF h.pin = "none" THEN SharedDepth ELSE Min({h.unpinDepth, SharedDepth})
<1>1. ud = SharedDepth
  BY MinOfTwo DEF PinnedHeader, SharedDepth, Header
<1>2. Pinned(h, SharedDepth, pt) =
        [h EXCEPT !.unpinDepth = ud, !.pin = IF ud < h.unpinDepth THEN pt ELSE maxPT(pt, @)]
  BY DEF Pinned
<1> HIDE DEF ud
<1>3. ~(ud < h.unpinDepth)
  BY <1>1 DEF PinnedHeader, SharedDepth, Header
<1>4. Pinned(h, SharedDepth, pt) = [h EXCEPT !.unpinDepth = SharedDepth, !.pin = maxPT(pt, h.pin)]
  BY <1>1, <1>2, <1>3
<1>5. h.pin \in {"none", "down", "any"} /\ h \in Header
  BY DEF PinnedHeader, Header
<1>6. maxPT(pt, h.pin) = IF h.pin = "any" THEN "any" ELSE pt
  BY <1>5 DEF maxPT
<1>7. maxPT(pt, h.pin) \in {"down", "any"}
  BY <1>5, <1>6
<1>8. PICK v \in {"down", "any"} :
        Pinned(h, SharedDepth, pt) = [h EXCEPT !.unpinDepth = 1, !.pin = v]
        /\ v = IF h.pin = "any" THEN "any" ELSE pt
  BY <1>4, <1>6, <1>7 DEF SharedDepth
<1>9. Pinned(h, SharedDepth, pt) \in Header
  <2>1. 1 \in 0 .. MaxDepth /\ v \in {"none", "down", "any"}
    BY DEF MaxDepth
  <2>2. [h EXCEPT !.unpinDepth = 1, !.pin = v] \in Header
    BY <2>1, <1>5 DEF Header
  <2> QED
    BY <1>8, <2>2
<1>10. Pinned(h, SharedDepth, pt).unpinDepth = 1 /\ Pinned(h, SharedDepth, pt).pin = v
       /\ Pinned(h, SharedDepth, pt).fwd = h.fwd /\ Pinned(h, SharedDepth, pt).mark = h.mark
       /\ Pinned(h, SharedDepth, pt).suspect = h.suspect
  BY <1>8, <1>5 DEF Header
<1> QED
  BY <1>8, <1>9, <1>10 DEF PinnedHeader, SharedDepth

\* Unpinning what is not pinned changes nothing.
LEMMA UnpinnedFacts ==
  ASSUME NEW h, PinnedHeader(h), h.pin = "none"
  PROVE  Unpinned(h) = h
BY DEF PinnedHeader, Header, Unpinned

\* The header of a new object, and that of one which was moved.
LEMMA HeaderTypes ==
  /\ Plain \in Header /\ FwdHeader \in Header
  /\ FwdHeader.fwd /\ FwdHeader.pin = "none" /\ FwdHeader.unpinDepth = 0 /\ ~FwdHeader.mark /\ ~FwdHeader.suspect
  /\ ~Plain.fwd /\ Plain.pin = "none" /\ Plain.unpinDepth = 0 /\ ~Plain.mark /\ ~Plain.suspect
<1>1. Plain \in Header /\ ~Plain.fwd /\ Plain.pin = "none" /\ Plain.unpinDepth = 0
      /\ ~Plain.mark /\ ~Plain.suspect
  BY DEF Plain, Header, MaxDepth
<1>2. FwdHeader = [Plain EXCEPT !.fwd = TRUE]
  BY DEF FwdHeader
<1>3. FwdHeader \in Header
  BY <1>1, <1>2 DEF Header
<1>4. FwdHeader.fwd /\ FwdHeader.pin = Plain.pin /\ FwdHeader.unpinDepth = Plain.unpinDepth
      /\ FwdHeader.mark = Plain.mark /\ FwdHeader.suspect = Plain.suspect
  BY <1>1, <1>2 DEF Header
<1> QED
  BY <1>1, <1>3, <1>4

\* What a chunk of the heap is.
LEMMA MemFacts ==
  ASSUME MemTypes, NEW p \in Addr
  PROVE  /\ mem[p] \in Chunk /\ mem[p].header \in Header /\ mem[p].space \in Spaces
         /\ mem[p].retire \in BOOLEAN
         /\ \A f \in LocalFields : mem[p].field[f] \in Own \union {NULL}
BY DEF MemTypes, Chunk

\* The owner's objects are below the shared heap.
LEMMA DepthFacts ==
  ASSUME DepthInv
  PROVE  /\ \A p \in Own : opDepth(p) \in 2 .. MaxDepth
         /\ opDepth(Root) = SharedDepth /\ opDepth(Roots) = SharedDepth
BY OwnFacts, AddrFacts DEF DepthInv, opDepth, SharedDepth, MaxDepth

\* All pins are for the shared heap, so what is pinned is truly pinned.
LEMMA NeverUnpins ==
  ASSUME DepthInv, HeadInv, MemTypes, NEW p \in Own
  PROVE  /\ ~MayUnpin(p) /\ ~hasFwdPtr(p) => PinnedHeader(header(p))
         /\ IsTrulyPinned(p) <=> isPinned(p)
         /\ isPinned(p) => mem[p].header.unpinDepth = SharedDepth
BY DepthFacts, MemFacts, OwnFacts DEF HeadInv, MayUnpin, isPinned, IsTrulyPinned, PinnedHeader,
  header, SharedDepth, MaxDepth, Header

Below == {p \in Nat \X Nat : p[1] < p[2]}

\* The order of the numbers is well-founded.
LEMMA BelowIsWellFounded == IsWellFoundedOn(Below, Nat)
<1>1. Below = OpToRel(<, Nat)
  BY DEF Below, OpToRel
<1> QED
  BY <1>1, NatLessThanWellFounded, Zenon

\* A nonempty set of numbers has a least member.
LEMMA LeastOf ==
  ASSUME NEW S \in SUBSET Nat, S # {}
  PROVE  \E x \in S : \A y \in S : x <= y
<1>1. PICK x \in S : \A y \in S : <<y, x>> \notin Below
  BY BelowIsWellFounded, WFMin
<1>2. ASSUME NEW y \in S, ~(x <= y) PROVE FALSE
  <2>1. y \in Nat /\ x \in Nat /\ y < x
    BY <1>2
  <2>2. <<y, x>> \in Below
    BY <2>1 DEF Below
  <2> QED
    BY <1>1, <2>2
<1> QED
  BY <1>2

\* Of the versions of an object one is live.
LEMMA LiveIsOne ==
  ASSUME MemTypes, HeadInv, VersInv, NEW p \in Own, NEW q \in Own, Live(p), Live(q), p[1] = q[1]
  PROVE  p = q
<1>1. ASSUME NEW x \in Own, NEW y \in Own, x[1] = y[1], Live(x), Live(y), x[2] < y[2] PROVE FALSE
  <2>1. mem[y].space # "none"
    BY <1>1 DEF Live
  <2>2. mem[x].header.fwd \/ mem[x].space = "freed"
    BY <1>1, <2>1 DEF VersInv
  <2> QED
    BY <1>1, <2>2 DEF Live
<1> QED
  BY <1>1, OwnFacts, SameOwn

\* A pointer leads to one object.
LEMMA LeadsToOne ==
  ASSUME MemTypes, HeadInv, VersInv, NEW p \in Own, NEW q \in Own, NEW r \in Own,
         LeadsTo(p, q), LeadsTo(p, r)
  PROVE  q = r
BY LiveIsOne DEF LeadsTo

\* What is live leads to itself, and only that.
LEMMA LiveLeadsToItself ==
  ASSUME MemTypes, HeadInv, VersInv, NEW p \in Own, Live(p)
  PROVE  LeadsTo(p, p) /\ \A q \in Own : LeadsTo(p, q) => q = p
<1>1. LeadsTo(p, p)
  BY OwnFacts DEF LeadsTo
<1> QED
  BY <1>1, LeadsToOne

\* Only the owner's objects are forwarded, and there is room for the copy.
LEMMA FwdRange ==
  ASSUME MemTypes, OwnerTypes, HeadInv, VersInv, NEW p \in Addr, mem[p].header.fwd
  PROVE  p \in Own /\ p[2] < MaxLocalCollections /\ p[2] < counts.collections
<1>1. p \in Own
  BY AddrFacts DEF HeadInv
<1>2. p[2] < counts.collections
  BY <1>1 DEF HeadInv, VersInv
<1>3. counts.collections \in 0 .. MaxLocalCollections
  BY DEF OwnerTypes
<1> QED
  BY <1>1, <1>2, <1>3, OwnFacts, AddrFacts

(* Where the forwarding pointers from an address end.                      *)
Ends(p, q) ==
  /\ q[1] = p[1] /\ p[2] <= q[2] /\ ~mem[q].header.fwd
  /\ \A m \in p[2] .. q[2] - 1 : mem[<<p[1], m>>].header.fwd

\* Every version leads to one that was not moved.
LEMMA SomeEnd ==
  ASSUME MemTypes, OwnerTypes, HeadInv, VersInv, NEW p \in Own
  PROVE  \E q \in Own : Ends(p, q)
<1>1. PICK S : S = {m \in p[2] .. MaxLocalCollections : ~mem[<<p[1], m>>].header.fwd}
  OBVIOUS
<1>2. PICK top : top = <<p[1], MaxLocalCollections>>
  OBVIOUS
<1>3. top \in Own /\ top[2] = MaxLocalCollections
  BY <1>2, OwnFacts, AddrFacts DEF Own
<1>4. ~mem[top].header.fwd
  BY <1>3, FwdRange, OwnFacts
<1>5. MaxLocalCollections \in S
  BY <1>1, <1>2, <1>4, OwnFacts, AddrFacts
<1>6. S \in SUBSET Nat
  BY <1>1, OwnFacts, AddrFacts
<1>7. PICK n \in S : \A m \in S : n <= m
  BY <1>5, <1>6, LeastOf
<1>8. PICK q : q = <<p[1], n>>
  OBVIOUS
<1>9. n \in p[2] .. MaxLocalCollections /\ n \in Nat /\ q \in Own /\ q[1] = p[1] /\ q[2] = n
  BY <1>1, <1>7, <1>8, OwnFacts, AddrFacts DEF Own
<1>10. ~mem[q].header.fwd
  BY <1>1, <1>7, <1>8
<1>11. ASSUME NEW m \in p[2] .. n - 1 PROVE mem[<<p[1], m>>].header.fwd
  <2>1. m \in p[2] .. MaxLocalCollections /\ ~(n <= m)
    BY <1>9, OwnFacts, AddrFacts
  <2>2. m \notin S
    BY <1>7, <2>1
  <2> QED
    BY <1>1, <2>1, <2>2
<1> QED
  BY <1>9, <1>10, <1>11 DEF Ends

\* ... and to one only.
LEMMA EndIsOne ==
  ASSUME NEW p \in Own, NEW q \in Own, NEW r \in Own, Ends(p, q), Ends(p, r)
  PROVE  q = r
<1>1. ASSUME NEW x \in Own, NEW y \in Own, Ends(p, x), Ends(p, y), x[2] < y[2] PROVE FALSE
  <2>1. x[2] \in p[2] .. y[2] - 1
    BY <1>1, OwnFacts DEF Ends
  <2>2. mem[<<p[1], x[2]>>].header.fwd
    BY <1>1, <2>1 DEF Ends
  <2>3. x = <<p[1], x[2]>>
    BY <1>1, OwnFacts DEF Ends
  <2> QED
    BY <1>1, <2>2, <2>3 DEF Ends
<1>2. q[1] = r[1]
  BY DEF Ends
<1> QED
  BY <1>1, <1>2, OwnFacts, SameOwn

RacyStep(F, p) == IF hasFwdPtr(p) THEN F[getFwdPtr(p)] ELSE p
IsRacy(F) == F = [p \in Addr |-> RacyStep(F, p)]

\* getRacyFwdPtr solves its equation.
LEMMA RacyChosen == getRacyFwdPtr = CHOOSE F : IsRacy(F)
BY DEF getRacyFwdPtr, IsRacy, RacyStep

\* getRacyFwdPtr ends, because a copy has a later version.
LEMMA RacySolves ==
  ASSUME MemTypes, OwnerTypes, HeadInv, VersInv
  PROVE  IsRacy(getRacyFwdPtr)
<1> DEFINE End(p) == IF p \in Own THEN CHOOSE q \in Own : Ends(p, q) ELSE p
<1>1. PICK F : F = [p \in Addr |-> End(p)]
  OBVIOUS
<1>2. ASSUME NEW p \in Addr PROVE End(p) = RacyStep(F, p)
  <2>1. CASE ~hasFwdPtr(p) /\ p \in Own
    <3>1. Ends(p, p)
      BY <2>1, OwnFacts DEF Ends, hasFwdPtr, header
    <3>2. End(p) \in Own /\ Ends(p, End(p))
      BY <2>1, <3>1
    <3> HIDE DEF End
    <3>3. End(p) = p
      BY <2>1, <3>1, <3>2, EndIsOne
    <3> QED
      BY <2>1, <3>3 DEF RacyStep
  <2>2. CASE ~hasFwdPtr(p) /\ p \notin Own
    BY <2>2 DEF RacyStep
  <2>3. CASE hasFwdPtr(p)
    <3>1. p \in Own /\ p[2] < MaxLocalCollections /\ mem[p].header.fwd
      BY <2>3, FwdRange DEF hasFwdPtr, header
    <3>2. PICK n \in Own : n = getFwdPtr(p) /\ n[1] = p[1] /\ n[2] = p[2] + 1
      BY <3>1, NextFacts
    <3>3. PICK q \in Own : Ends(n, q)
      BY SomeEnd
    <3>4. Ends(p, q)
      <4>1. ASSUME NEW m \in p[2] .. q[2] - 1 PROVE mem[<<p[1], m>>].header.fwd
        <5>1. CASE m = p[2]
          BY <5>1, <3>1, OwnFacts
        <5>2. CASE m # p[2]
          <6>1. m \in n[2] .. q[2] - 1
            BY <5>2, <3>1, <3>2, OwnFacts
          <6> QED
            BY <6>1, <3>2, <3>3 DEF Ends
        <5> QED
          BY <5>1, <5>2
      <4> QED
        BY <4>1, <3>1, <3>2, <3>3, OwnFacts DEF Ends
    <3>5. End(p) \in Own /\ Ends(p, End(p)) /\ End(n) \in Own /\ Ends(n, End(n))
      BY <3>1, <3>3, <3>4
    <3>6. F[n] = End(n)
      BY <1>1, OwnFacts
    <3> HIDE DEF End
    <3>7. End(p) = q /\ End(n) = q
      BY <3>1, <3>3, <3>4, <3>5, EndIsOne
    <3> QED
      BY <2>3, <3>2, <3>6, <3>7 DEF RacyStep
  <2> QED
    BY <2>1, <2>2, <2>3
<1> HIDE DEF End
<1>3. IsRacy(F)
  BY <1>1, <1>2 DEF IsRacy
<1> QED
  BY <1>3, RacyChosen

\* getRacyFwdPtr follows one pointer and goes on.
LEMMA RacyEquation ==
  ASSUME MemTypes, OwnerTypes, HeadInv, VersInv, NEW p \in Addr
  PROVE  getRacyFwdPtr[p] = RacyStep(getRacyFwdPtr, p)
<1>1. PICK H : H = [q \in Addr |-> RacyStep(getRacyFwdPtr, q)]
  OBVIOUS
<1>2. getRacyFwdPtr = H
  BY <1>1, RacySolves DEF IsRacy
<1>3. H[p] = RacyStep(getRacyFwdPtr, p)
  BY <1>1
<1> QED
  BY <1>2, <1>3

\* getRacyFwdPtr returns what the pointer leads to; the shared object is not moved.
LEMMA RacyFacts ==
  ASSUME MemTypes, OwnerTypes, HeadInv, VersInv
  PROVE  /\ getRacyFwdPtr[Root] = Root
         /\ \A p, q \in Own : LeadsTo(p, q) => getRacyFwdPtr[p] = q
<1>1. getRacyFwdPtr[Root] = Root
  BY RacyEquation, AddrFacts DEF RacyStep, hasFwdPtr, header, HeadInv
<1>2. ASSUME NEW p \in Own, NEW q \in Own, LeadsTo(p, q), getRacyFwdPtr[p] # q PROVE FALSE
  <2>1. PICK S : S = {k \in 0 .. q[2] - p[2] : \E x \in Own :
                        x[1] = p[1] /\ x[2] = q[2] - k /\ getRacyFwdPtr[x] # q}
    OBVIOUS
  <2>2. p[2] \in Nat /\ q[2] \in Nat /\ p[2] <= q[2] /\ q[1] = p[1] /\ ~mem[q].header.fwd
    BY <1>2, OwnFacts DEF LeadsTo, Live
  <2>3. S \in SUBSET Nat /\ q[2] - p[2] \in S
    BY <2>1, <2>2, <1>2
  <2>4. PICK k \in S : \A j \in S : k <= j
    BY <2>3, LeastOf
  <2>5. PICK x \in Own : x[1] = p[1] /\ x[2] = q[2] - k /\ getRacyFwdPtr[x] # q
    BY <2>1, <2>4
  <2>6. k \in 0 .. q[2] - p[2]
    BY <2>1, <2>4
  <2>7. getRacyFwdPtr[x] = RacyStep(getRacyFwdPtr, x)
    BY RacyEquation, OwnFacts
  <2>8. CASE k = 0
    <3>1. x = q
      BY <2>2, <2>5, <2>8, SameOwn
    <3> QED
      BY <2>2, <2>5, <2>7, <3>1 DEF RacyStep, hasFwdPtr, header
  <2>9. CASE k # 0
    <3>1. x[2] \in p[2] .. q[2] - 1 /\ x = <<p[1], x[2]>>
      BY <2>2, <2>5, <2>6, <2>9, OwnFacts
    <3>2. mem[x].header.fwd
      BY <1>2, <3>1 DEF LeadsTo
    <3>3. PICK n \in Own : n = getFwdPtr(x) /\ n[1] = x[1] /\ n[2] = x[2] + 1
      BY <3>2, FwdRange, NextFacts, OwnFacts
    <3>4. getRacyFwdPtr[n] # q
      BY <2>5, <2>7, <3>2, <3>3 DEF RacyStep, hasFwdPtr, header
    <3>5. k - 1 \in S
      BY <2>1, <2>2, <2>5, <2>6, <2>9, <3>3, <3>4
    <3> QED
      BY <2>4, <3>5, <2>6
  <2> QED
    BY <2>8, <2>9
<1> QED
  BY <1>1, <1>2

(* What the steps of the reader may do to the headers, and nothing else.   *)
SameButPins(p) ==
  /\ mem'[p].space = mem[p].space /\ mem'[p].field = mem[p].field /\ mem'[p].retire = mem[p].retire
  /\ mem'[p].header.fwd = mem[p].header.fwd /\ mem'[p].header.mark = mem[p].header.mark
  /\ mem[p].header.suspect => mem'[p].header.suspect
  /\ mem'[p].header.pin = mem[p].header.pin \/ mem'[p].header.pin = "any"
  /\ mem'[p].header.unpinDepth = IF mem'[p].header.pin = "none" THEN 0 ELSE SharedDepth
  /\ mem'[p].header = mem[p].header \/ (mem'[p].header.pin # "none" /\ p \in Own /\ Live(p))
ReaderMem ==
  /\ MemTypes'
  /\ \A p \in Addr : SameButPins(p)
  /\ gc.pc = "install" => mem'[gc.op] = mem[gc.op]
ReaderSets ==
  /\ remSet \subseteq remSet' /\ toRemSet \subseteq toRemSet'
  /\ remSet' \subseteq Entries /\ toRemSet' \subseteq Entries
  /\ \A e \in remSet' \ remSet : e.from = NULL /\ isPinned(e.object)
  /\ \A e \in toRemSet' \ toRemSet : e.from = NULL /\ isPinned(e.object)
  /\ gc.pc = "idle" => toRemSet' = toRemSet
ReaderRest == UNCHANGED <<depth, shape, suspects, gc, localWrite, counts>>
ReaderFrame == ReaderMem /\ ReaderSets /\ ReaderRest

\* What the reader's steps leave as it is.
LEMMA ReaderSame ==
  ASSUME ReaderFrame, MemTypes, HeadInv
  PROVE  /\ \A p \in Addr : Live(p)' <=> Live(p)
         /\ \A p \in Addr : Good(p)' <=> Good(p)
         /\ \A p \in Addr : isPinned(p) => isPinned(p)'
         /\ \A p \in Addr : Visited(p)' <=> Visited(p)
         /\ \A p \in Addr : Scoped(p)' <=> Scoped(p)
         /\ \A p \in Own : RootTarget(p)' <=> RootTarget(p)
         /\ \A p \in Own : WriteTarget(p)' <=> WriteTarget(p)
<1>1. \A p \in Addr : SameButPins(p)
  BY DEF ReaderFrame, ReaderMem
<1>2. \A p \in Addr : Live(p)' <=> Live(p)
  BY <1>1 DEF SameButPins, Live
<1>3. \A p \in Addr : Good(p)' <=> Good(p)
  BY <1>1, <1>2 DEF SameButPins, Good
<1>4. \A p \in Addr : isPinned(p) => isPinned(p)'
  BY <1>1 DEF SameButPins, isPinned, header
<1>5. \A p \in Addr : Visited(p)' <=> Visited(p)
  BY <1>1 DEF SameButPins, Visited
<1>6. \A p \in Addr : Scoped(p)' <=> Scoped(p)
  BY DEF ReaderFrame, ReaderRest, Scoped
<1>7. \A p \in Own : RootTarget(p)' <=> RootTarget(p)
  BY <1>1, AddrFacts DEF SameButPins, RootTarget
<1>8. \A p \in Own : WriteTarget(p)' <=> WriteTarget(p)
  BY DEF ReaderFrame, ReaderRest, WriteTarget
<1> QED
  BY <1>2, <1>3, <1>4, <1>5, <1>6, <1>7, <1>8

\* A step of the reader keeps the types,
LEMMA ReaderKeepsTypes ==
  ASSUME ReaderFrame, MemTypes, OwnerTypes, GcTypes
  PROVE  MemTypes' /\ OwnerTypes' /\ GcTypes'
BY DEF ReaderFrame, ReaderMem, ReaderSets, ReaderRest, OwnerTypes, GcTypes

\* ... the depths,
LEMMA ReaderKeepsDepth ==
  ASSUME ReaderFrame, DepthInv
  PROVE  DepthInv'
BY DEF ReaderFrame, ReaderRest, DepthInv, InGc

\* ... what headers say,
LEMMA ReaderKeepsHead ==
  ASSUME ReaderFrame, MemTypes, HeadInv
  PROVE  HeadInv'
<1>1. \A p \in Addr : SameButPins(p)
  BY DEF ReaderFrame, ReaderMem
<1>2. ASSUME NEW p \in Addr
      PROVE  /\ mem'[p].header.unpinDepth = IF mem'[p].header.pin = "none" THEN 0 ELSE SharedDepth
             /\ mem'[p].header.fwd => mem'[p].header = FwdHeader
  <2>1. mem[p].header.fwd => mem[p].header = FwdHeader
    BY DEF HeadInv
  <2> QED
    BY <1>1, <2>1 DEF SameButPins, Live
<1>3. ASSUME NEW p \in {Root, Roots}
      PROVE  /\ mem'[p].header.pin = "none" /\ ~mem'[p].header.fwd /\ ~mem'[p].header.mark
             /\ mem'[p].space = "outside"
  <2>1. p \in Addr /\ p \notin Own
    BY AddrFacts
  <2> QED
    BY <1>1, <2>1 DEF SameButPins, HeadInv
<1>4. ASSUME NEW p \in Own
      PROVE  /\ mem'[p].space # "outside"
             /\ mem'[p].header.pin # "none" => mem'[p].space \in {"from", "pinned", "to"}
             /\ mem'[p].space = "pinned" => mem'[p].header.pin # "none"
             /\ mem'[p].header.mark => /\ mem'[p].space = "pinned" /\ mem'[p].header.pin = "any"
                                      /\ Remembered(p, NULL) \in toRemSet'
             /\ mem'[p].header.fwd => mem'[p].space \in {"from", "retired"}
             /\ mem'[p].space \in {"none", "freed"} => mem'[p].header = Plain
             /\ mem'[p].space \in {"pinned", "to"} => gc'.pc # "idle" /\ depth'[p[1]] >= gc'.minDepth
  <2>1. p \in Addr /\ SameButPins(p)
    BY <1>1, OwnFacts
  <2>2. /\ mem[p].space # "outside"
        /\ mem[p].header.pin # "none" => mem[p].space \in {"from", "pinned", "to"}
        /\ mem[p].space = "pinned" => mem[p].header.pin # "none"
        /\ mem[p].header.mark => /\ mem[p].space = "pinned" /\ mem[p].header.pin = "any"
                                 /\ Remembered(p, NULL) \in toRemSet
        /\ mem[p].header.fwd => mem[p].space \in {"from", "retired"}
        /\ mem[p].space \in {"none", "freed"} => mem[p].header = Plain
        /\ mem[p].space \in {"pinned", "to"} => gc.pc # "idle" /\ depth[p[1]] >= gc.minDepth
    BY DEF HeadInv
  <2>3. toRemSet \subseteq toRemSet' /\ gc' = gc /\ depth' = depth
    BY DEF ReaderFrame, ReaderSets, ReaderRest
  <2> QED
    BY <2>1, <2>2, <2>3 DEF SameButPins, Live
<1> QED
  BY <1>2, <1>3, <1>4 DEF HeadInv

\* ... what was moved, and where to,
LEMMA ReaderKeepsVersions ==
  ASSUME ReaderFrame, MemTypes, OwnerTypes, HeadInv, FwdInv, VersInv
  PROVE  FwdInv' /\ VersInv'
<1>1. \A p \in Addr : SameButPins(p)
  BY DEF ReaderFrame, ReaderMem
<1>2. gc' = gc /\ depth' = depth /\ counts' = counts
  BY DEF ReaderFrame, ReaderRest
<1>3. FwdInv'
  <2> SUFFICES ASSUME NEW p \in Own, mem'[p].space = "from" /\ mem'[p].header.fwd
               PROVE  /\ gc'.pc \in Marking \union Copying \union {"free"} /\ depth'[p[1]] >= gc'.minDepth
                      /\ mem'[getFwdPtr(p)].space = "to"
                      /\ gc'.pc \in Marking => mem'[p].retire
    BY DEF FwdInv, getFwdPtr
  <2>1. p \in Addr /\ mem[p].space = "from" /\ mem[p].header.fwd
    BY <1>1, OwnFacts DEF SameButPins
  <2>2. getFwdPtr(p) \in Addr
    BY <2>1, FwdRange, NextFacts
  <2> QED
    BY <1>1, <1>2, <2>1, <2>2 DEF FwdInv, SameButPins
<1>4. VersInv'
  <2>1. \A p \in Own : mem'[p].space = mem[p].space /\ mem'[p].header.fwd = mem[p].header.fwd
    BY <1>1, OwnFacts DEF SameButPins
  <2> QED
    BY <1>2, <2>1 DEF VersInv
<1> QED
  BY <1>3, <1>4

\* ... that fields lead to what is there,
LEMMA ReaderKeepsFields ==
  ASSUME ReaderFrame, MemTypes, HeadInv, FieldInv
  PROVE  FieldInv'
<1>1. \A p \in Addr : SameButPins(p)
  BY DEF ReaderFrame, ReaderMem
<1> SUFFICES ASSUME NEW p \in Addr, NEW f \in LocalFields, NEW t \in Own, mem'[p].field[f] = t
             PROVE  /\ f \in FieldNames[p[1]] /\ p[1] \in Mutable \union {Stack}
                    /\ Live(p)' => Good(t)'
  BY DEF FieldInv
<1>2. mem[p].field[f] = t
  BY <1>1 DEF SameButPins
<1> QED
  BY <1>2, ReaderSame, OwnFacts DEF FieldInv

\* ... what the collector has scanned and will scan,
LEMMA ReaderKeepsScan ==
  ASSUME ReaderFrame, MemTypes, GcTypes, HeadInv, ScanInv, WorkInv
  PROVE  ScanInv' /\ WorkInv'
<1>1. \A p \in Addr : SameButPins(p)
  BY DEF ReaderFrame, ReaderMem
<1>2. gc' = gc
  BY DEF ReaderFrame, ReaderRest
<1>3. ScanInv'
  <2> SUFFICES ASSUME gc.pc \in Marking \union Copying \union {"free"},
                      NEW x \in Own \union {Roots}, NEW f \in LocalFields, NEW t \in Own,
                      Scans(x)', mem'[x].field[f] = t
               PROVE  Slot(x, f) \in gc.work \/ Slot(x, f) = gc.slot \/ Done(t)'
    BY <1>2 DEF ScanInv, Slot
  <2>1. x \in Addr
    BY AddrFacts
  <2>2. Scans(x) /\ mem[x].field[f] = t
    BY <1>1, <1>2, <2>1, ReaderSame DEF Scans, SameButPins
  <2>3. Done(t) => Done(t)'
    BY <1>2, ReaderSame, OwnFacts DEF Done
  <2> QED
    BY <2>2, <2>3 DEF ScanInv
<1>4. WorkInv'
  <2>1. \A x \in Own \union {Root, Roots}, f \in LocalFields \union {NULL} :
          mem'[x].field[f] = mem[x].field[f] /\ (Visited(x)' <=> Visited(x))
    BY <1>1, AddrFacts, ReaderSame DEF SameButPins
  <2> QED
    BY <1>2, <2>1 DEF WorkInv, Slot
<1> QED
  BY <1>3, <1>4

\* ... what it is working on,
LEMMA ReaderKeepsOp ==
  ASSUME ReaderFrame, MemTypes, GcTypes, HeadInv, OpInv
  PROVE  OpInv'
<1>1. \A p \in Own : SameButPins(p)
  BY OwnFacts DEF ReaderFrame, ReaderMem
<1>2. gc' = gc
  BY DEF ReaderFrame, ReaderRest
<1>3. ASSUME NEW e \in Entries, gc.pc = "keep", gc.entry = e
      PROVE  Scoped(e.object)' /\ isPinned(e.object)' /\ mem'[e.object].space \in {"from", "pinned"}
  <2>1. e.object \in Own /\ e.object \in Addr
    BY OwnFacts DEF Entries
  <2> QED
    BY <1>1, <1>3, <2>1, ReaderSame DEF OpInv, SameButPins
<1>4. ASSUME NEW o \in Own, gc.op = o
      PROVE  /\ gc.pc \in {"entangled", "copy", "forward", "install"} =>
                  Scoped(o)' /\ mem'[o].space \in {"from", "pinned"} /\ ~mem'[o].header.fwd
             /\ gc.pc = "entangled" => isPinned(o)' /\ (gc.slot # NULL => mem'[o].header.pin = "any")
             /\ gc.pc = "copy" => mem'[o].header.pin # "down" /\ ~mem'[o].header.mark
             /\ gc.pc \in {"forward", "install"} =>
                  /\ mem'[o].header.pin # "down" /\ ~mem'[o].header.mark
                  /\ mem'[o].space = "from" /\ gc.copy.field = mem'[o].field
                  /\ isPinned(o)' \/ mem'[o].header = gc.copy.header
             /\ gc.pc = "install" => mem'[o].header = gc.copy.header
  <2>1. SameButPins(o) /\ (Scoped(o)' <=> Scoped(o)) /\ (isPinned(o) => isPinned(o)')
    BY <1>1, OwnFacts, ReaderSame
  <2>2. gc.pc = "install" => mem'[o] = mem[o]
    BY <1>4 DEF ReaderFrame, ReaderMem
  <2>3. mem'[o].header # mem[o].header => isPinned(o)'
    BY <2>1 DEF SameButPins, isPinned, header
  <2> QED
    BY <1>4, <2>1, <2>2, <2>3 DEF OpInv, SameButPins
<1>5. \A c \in Own : gc.pc = "store" /\ gc.copy = c => mem'[c].space = "to"
  BY <1>1 DEF OpInv, SameButPins
<1> QED
  BY <1>2, <1>3, <1>4, <1>5 DEF OpInv

\* ... the owner's write,
LEMMA ReaderKeepsWrite ==
  ASSUME ReaderFrame, MemTypes, HeadInv, WriteInv
  PROVE  WriteInv'
<1>1. \A p \in Addr : SameButPins(p)
  BY DEF ReaderFrame, ReaderMem
<1>2. gc' = gc /\ localWrite' = localWrite
  BY DEF ReaderFrame, ReaderRest
<1>3. \A w \in LocalWrites : w.dst \in Addr /\ w.src \in Addr
  BY AddrFacts DEF LocalWrites
<1> QED
  BY <1>1, <1>2, <1>3, ReaderSame DEF WriteInv, SameButPins

\* ... and that what the shared object leads to is remembered.
LEMMA ReaderKeepsRoot ==
  ASSUME ReaderFrame, MemTypes, OwnerTypes, GcTypes, HeadInv, RootInv
  PROVE  RootInv'
<1>1. \A p \in Addr : SameButPins(p)
  BY DEF ReaderFrame, ReaderMem
<1>2. gc' = gc /\ localWrite' = localWrite /\ depth' = depth
  BY DEF ReaderFrame, ReaderRest
<1>3. gc.pc = "idle" => toRemSet' = {}
  BY DEF RootInv, ReaderFrame, ReaderSets
<1>4. ASSUME NEW e \in remSet' \union toRemSet' PROVE isPinned(e.object)'
  <2>1. isPinned(e.object)
    BY <1>4 DEF RootInv, ReaderFrame, ReaderSets
  <2>2. e.object \in Addr
    BY <1>4, AddrFacts DEF ReaderFrame, ReaderSets, Entries
  <2> QED
    BY <2>1, <2>2, ReaderSame
<1>5. ASSUME gc.pc \in Marking, NEW e \in remSet', e.from = Root, Scoped(e.object)'
      PROVE  opDepth(e.object)' <= gc.level
  <2>1. e \in remSet
    BY <1>5, AddrFacts DEF ReaderFrame, ReaderSets
  <2>2. Scoped(e.object) /\ opDepth(e.object)' = opDepth(e.object)
    BY <1>2, <1>5 DEF Scoped, opDepth
  <2> QED
    BY <1>5, <2>1, <2>2 DEF RootInv
<1>6. ASSUME NEW t \in Own, RootTarget(t)' \/ WriteTarget(t)'
      PROVE  /\ mem'[Root].header.suspect
             /\ isPinned(t)' /\ mem'[t].space \in {"from", "pinned"}
             /\ \/ Remembered(t, Root) \in remSet' \/ Remembered(t, Root) \in toRemSet'
                \/ gc.pc = "keep" /\ gc.entry = Remembered(t, Root)
             /\ gc.pc \in Marking /\ Scoped(t)' =>
                  \/ Remembered(t, Root) \in remSet' \/ (gc.pc = "keep" /\ gc.entry = Remembered(t, Root))
                  \/ Visited(t)' \/ (gc.pc = "entangled" /\ gc.op = t)
  <2>1. RootTarget(t) \/ WriteTarget(t)
    BY <1>6, ReaderSame
  <2>2. t \in Addr /\ Root \in Addr
    BY OwnFacts, AddrFacts
  <2>3. remSet \subseteq remSet' /\ toRemSet \subseteq toRemSet'
    BY DEF ReaderFrame, ReaderSets
  <2>4. /\ mem[Root].header.suspect
        /\ isPinned(t) /\ mem[t].space \in {"from", "pinned"}
        /\ \/ Remembered(t, Root) \in remSet \/ Remembered(t, Root) \in toRemSet
           \/ gc.pc = "keep" /\ gc.entry = Remembered(t, Root)
        /\ gc.pc \in Marking /\ Scoped(t) =>
             \/ Remembered(t, Root) \in remSet \/ (gc.pc = "keep" /\ gc.entry = Remembered(t, Root))
             \/ Visited(t) \/ (gc.pc = "entangled" /\ gc.op = t)
    BY <2>1 DEF RootInv
  <2> QED
    BY <1>1, <2>2, <2>3, <2>4, ReaderSame DEF SameButPins
<1> QED
  BY <1>2, <1>3, <1>4, <1>5, <1>6 DEF RootInv, Remembered

\* The steps of the reader leave the pointers as they are.
LEMMA ReaderPointers ==
  ASSUME ReaderFrame, MemTypes, HeadInv
  PROVE  /\ \A p, q \in Own : LeadsTo(p, q)' <=> LeadsTo(p, q)
         /\ \A x \in Addr, f \in LocalFields, q \in Own : Names(x, f, q)' <=> Names(x, f, q)
<1>1. \A p \in Addr : SameButPins(p)
  BY DEF ReaderFrame, ReaderMem
<1>2. ASSUME NEW p \in Own, NEW q \in Own PROVE LeadsTo(p, q)' <=> LeadsTo(p, q)
  <2>1. \A m \in p[2] .. q[2] - 1 : mem'[<<p[1], m>>].header.fwd = mem[<<p[1], m>>].header.fwd
    <3>1. ASSUME NEW m \in p[2] .. q[2] - 1 PROVE <<p[1], m>> \in Addr
      BY OwnFacts, VersionIsOwn
    <3> QED
      BY <1>1, <3>1 DEF SameButPins
  <2>2. Live(q)' <=> Live(q)
    BY OwnFacts, ReaderSame
  <2> QED
    BY <2>1, <2>2 DEF LeadsTo
<1>3. \A x \in Addr, f \in LocalFields, q \in Own : Names(x, f, q)' <=> Names(x, f, q)
  BY <1>1 DEF SameButPins, Names
<1> QED
  BY <1>2, <1>3

\* What is held, and the shared object, are live.
LEMMA HeldIsLive ==
  ASSUME MemTypes, HeadInv, ReaderTypes, HeldInv, NEW x \in held \union {Root}
  PROVE  /\ x \in Addr /\ Live(x) /\ (x # Root => x \in Own /\ isPinned(x))
<1>1. CASE x = Root
  BY <1>1, AddrFacts DEF Live, HeadInv
<1>2. CASE x \in held
  <2>1. x \in Own /\ isPinned(x)
    BY <1>2 DEF ReaderTypes, HeldInv
  <2>2. ~mem[x].header.fwd
    BY <2>1, OwnFacts, HeaderTypes DEF HeadInv, isPinned, header
  <2> QED
    BY <2>1, <2>2, OwnFacts DEF HeadInv, Live, isPinned, header
<1> QED
  BY <1>1, <1>2

\* What is pinned is live.
LEMMA PinnedIsLive ==
  ASSUME MemTypes, HeadInv, NEW x \in Own, isPinned(x)
  PROVE  Live(x) /\ mem[x].space \in {"from", "pinned", "to"} /\ ~mem[x].header.fwd
<1>1. ~mem[x].header.fwd
  BY OwnFacts, HeaderTypes DEF HeadInv, isPinned, header
<1> QED
  BY <1>1, OwnFacts DEF HeadInv, Live, isPinned, header

\* What a live object points to leads to a live object.
LEMMA GoodLeads ==
  ASSUME MemTypes, OwnerTypes, HeadInv, FwdInv, VersInv, NEW t \in Own, Good(t)
  PROVE  \E q \in Own : LeadsTo(t, q)
<1>1. CASE Live(t)
  BY <1>1, LiveLeadsToItself
<1>2. CASE mem[t].space = "from" /\ mem[t].header.fwd
  <2>1. PICK n \in Own : n = getFwdPtr(t) /\ n[1] = t[1] /\ n[2] = t[2] + 1
    BY <1>2, FwdRange, NextFacts, OwnFacts
  <2>2. mem[n].space = "to"
    BY <1>2, <2>1 DEF FwdInv
  <2>3. Live(n)
    BY <2>2 DEF HeadInv, Live
  <2>4. ASSUME NEW m \in t[2] .. n[2] - 1 PROVE mem[<<t[1], m>>].header.fwd
    <3>1. m = t[2] /\ t = <<t[1], m>>
      BY <2>1, OwnFacts
    <3> QED
      BY <1>2, <3>1
  <2> QED
    BY <2>1, <2>3, <2>4, OwnFacts DEF LeadsTo
<1> QED
  BY <1>1, <1>2 DEF Good

\* What is visited is live.
LEMMA VisitedIsLive ==
  ASSUME MemTypes, HeadInv, NEW x \in Own, Visited(x)
  PROVE  Live(x) /\ Scoped(x) /\ InGc
BY DEF HeadInv, Visited, Live, Scoped, InGc

\* A mutable object that the reader holds is known to the collector.
LEMMA HeldIsKnown ==
  ASSUME MemTypes, HeadInv, DepthInv, ReaderTypes, HeldInv, gc.pc # "idle",
         NEW Z \in SUBSET Own, KnownTo(Z), NEW x \in held, x[1] \in Mutable
  PROVE  x \in Z
<1>1. x \in Own /\ isPinned(x)
  BY DEF ReaderTypes, HeldInv
<1>2. Scoped(x)
  BY <1>1, OwnFacts DEF DepthInv, Scoped, InGc
<1> QED
  BY <1>1, <1>2 DEF KnownTo

\* What the reader finds in a field leads to a live object, and when the
\* collector has come to the private ones, to one that it knows.
LEMMA FieldLeads ==
  ASSUME MemTypes, OwnerTypes, ReaderTypes, HeadInv, FwdInv, VersInv, DepthInv, FieldInv, HeldInv,
         NEW x \in held \union {Root}, x[1] \in Mutable, NEW f \in LocalFields,
         NEW t \in Own, mem[x].field[f] = t
  PROVE  /\ \E q \in Own : LeadsTo(t, q)
         /\ \A Z \in SUBSET Own : gc.pc # "idle" /\ KnownTo(Z) =>
              \A q \in Own : LeadsTo(t, q) /\ Scoped(q) => q \in Z
<1>1. x \in Addr /\ Live(x)
  BY HeldIsLive
<1>2. Good(t)
  BY <1>1 DEF FieldInv
<1>3. \E q \in Own : LeadsTo(t, q)
  BY <1>2, GoodLeads
<1>4. ASSUME NEW Z \in SUBSET Own, gc.pc # "idle", KnownTo(Z), NEW q \in Own, LeadsTo(t, q), Scoped(q)
      PROVE  q \in Z
  <2>1. Scoped(t)
    BY <1>4 DEF Scoped, LeadsTo
  <2>2. x \in Z \union {Root}
    BY <1>4, HeldIsKnown
  <2>3. t \in Z
    BY <1>4, <2>1, <2>2 DEF KnownTo
  <2>4. Live(t)
    BY <1>4, <2>3, VisitedIsLive DEF KnownTo
  <2>5. q = t
    BY <1>4, <2>4, LiveLeadsToItself
  <2> QED
    BY <2>3, <2>5
<1> QED
  BY <1>3, <1>4

\* If the memory does not change
LEMMA SameMemFrame ==
  ASSUME MemTypes, OwnerTypes, HeadInv, UNCHANGED <<mem, remSet, toRemSet>>, ReaderRest
  PROVE  ReaderFrame
<1>1. \A p \in Addr : SameButPins(p)
  BY DEF SameButPins, HeadInv
<1>2. MemTypes'
  BY DEF MemTypes
<1> QED
  BY <1>1, <1>2 DEF ReaderFrame, ReaderMem, ReaderSets, OwnerTypes

\* So the collector does not notice it.
LEMMA ReaderKeepsGc ==
  ASSUME ReaderFrame, GcInv
  PROVE  GcInv'
BY ReaderKeepsTypes, ReaderKeepsDepth, ReaderKeepsHead, ReaderKeepsVersions, ReaderKeepsFields,
   ReaderKeepsScan, ReaderKeepsOp, ReaderKeepsWrite, ReaderKeepsRoot DEF GcInv

\* The pins, when the reader has added to them only for what it goes on with.
LEMMA PinsKept ==
  ASSUME ReaderFrame, MemTypes, HeadInv, PinInv, held \subseteq held',
         \A p \in Own : Ending(p) => Ending(p)' \/ p \in held',
         \A p \in Own : isPinned(p)' /\ ~isPinned(p) => Ending(p)' \/ p \in held'
  PROVE  PinInv'
<1>1. \A p \in Own : SameButPins(p)
  BY OwnFacts DEF ReaderFrame, ReaderMem
<1> SUFFICES ASSUME NEW p \in Own
             PROVE  /\ isPinned(p)' => RootTarget(p)' \/ WriteTarget(p)' \/ p \in held' \/ Ending(p)'
                    /\ mem'[p].header.pin = "down" => RootTarget(p)' \/ WriteTarget(p)'
  BY DEF PinInv
<1>2. mem'[p].header.pin = "down" => mem[p].header.pin = "down"
  BY <1>1 DEF SameButPins
<1> QED
  BY <1>2, ReaderSame DEF PinInv

\* What is held stays pinned and named.
LEMMA HeldKept ==
  ASSUME ReaderFrame, MemTypes, HeadInv, ReaderTypes, HeldInv, held' = held
  PROVE  HeldInv'
<1>1. ASSUME NEW p \in held PROVE isPinned(p)' /\ (isMutable(p)' => mem'[p].header.suspect)
  <2>1. p \in Addr /\ isPinned(p) /\ (isMutable(p) => mem[p].header.suspect)
    BY OwnFacts DEF ReaderTypes, HeldInv
  <2> QED
    BY <2>1, ReaderSame DEF ReaderFrame, ReaderMem, SameButPins, isMutable
<1>2. ASSUME NEW S \in SUBSET held, S # {}
      PROVE  \E q \in S, x \in (held \ S) \union {Root}, f \in LocalFields : Names(x, f, q)'
  <2>1. PICK q \in S, x \in (held \ S) \union {Root}, f \in LocalFields : Names(x, f, q)
    BY <1>2 DEF HeldInv
  <2>2. q \in Own /\ x \in Addr
    BY AddrFacts DEF ReaderTypes
  <2> QED
    BY <2>1, <2>2, ReaderPointers
<1> QED
  BY <1>1, <1>2 DEF HeldInv

\* The reader gets a pinned object that it had found in a field of another.
LEMMA HeldGrows ==
  ASSUME ReaderFrame, MemTypes, HeadInv, ReaderTypes, HeldInv, NEW n \in Own, held' = held \union {n},
         isPinned(n)', isMutable(n) => mem'[n].header.suspect,
         NEW y \in held \union {Root}, NEW g \in LocalFields, Names(y, g, n)
  PROVE  HeldInv'
<1>1. ASSUME NEW p \in held' PROVE isPinned(p)' /\ (isMutable(p)' => mem'[p].header.suspect)
  <2>1. CASE p = n
    BY <2>1 DEF isMutable
  <2>2. CASE p \in held
    <3>1. p \in Addr /\ isPinned(p) /\ (isMutable(p) => mem[p].header.suspect)
      BY <2>2, OwnFacts DEF ReaderTypes, HeldInv
    <3> QED
      BY <3>1, ReaderSame DEF ReaderFrame, ReaderMem, SameButPins, isMutable
  <2> QED
    BY <2>1, <2>2
<1>2. ASSUME NEW S \in SUBSET held', S # {}
      PROVE  \E q \in S, x \in (held' \ S) \union {Root}, f \in LocalFields : Names(x, f, q)'
  <2>1. \E q \in S, x \in (held' \ S) \union {Root}, f \in LocalFields : Names(x, f, q)
    <3>1. CASE S \ {n} = {}
      <4>1. S = {n}
        BY <1>2, <3>1
      <4>2. CASE n \in held
        BY <4>1, <4>2 DEF HeldInv
      <4>3. CASE n \notin held
        BY <4>1, <4>3
      <4> QED
        BY <4>2, <4>3
    <3>2. CASE n \notin held /\ S \ {n} # {}
      <4>1. S \ {n} \in SUBSET held
        BY <3>2
      <4>2. PICK q \in S \ {n}, x \in (held \ (S \ {n})) \union {Root}, f \in LocalFields : Names(x, f, q)
        BY <3>2, <4>1 DEF HeldInv
      <4>3. x \in (held' \ S) \union {Root}
        BY <3>2, <4>2
      <4> QED
        BY <4>2, <4>3
    <3>3. CASE n \in held
      <4>1. S \in SUBSET held /\ held' = held
        BY <3>3
      <4> QED
        BY <1>2, <4>1 DEF HeldInv
    <3> QED
      BY <3>1, <3>2, <3>3
  <2>2. PICK q \in S, x \in (held' \ S) \union {Root}, f \in LocalFields : Names(x, f, q)
    BY <2>1
  <2>3. q \in Own /\ x \in Addr
    BY <2>2, AddrFacts DEF ReaderTypes
  <2> QED
    BY <2>2, <2>3, ReaderPointers
<1> QED
  BY <1>1, <1>2 DEF HeldInv

\* The knowledge of the collector, when what the reader pins, or finds, is known.
LEMMA PhaseKept ==
  ASSUME ReaderFrame, MemTypes, HeadInv, VisitedInv, OwnerTypes, VersInv,
         \A Z \in SUBSET Own : gc.pc # "idle" /\ KnownTo(Z) =>
           /\ \A q \in Own : isPinned(q)' /\ ~isPinned(q) /\ Scoped(q) => q \in Z
           /\ \A p, q \in Own : reader'.ptr = p /\ LeadsTo(p, q) /\ Scoped(q) => q \in Z
  PROVE  VisitedInv'
<1>1. \A p \in Addr : SameButPins(p)
  BY DEF ReaderFrame, ReaderMem
<1> SUFFICES ASSUME gc.pc \in Copying \union {"free"} PROVE \E Z \in SUBSET Own : KnownTo(Z)'
  BY DEF VisitedInv, ReaderFrame, ReaderRest
<1>2. PICK Z \in SUBSET Own : KnownTo(Z)
  BY DEF VisitedInv
<1>0. gc.pc # "idle"
  BY DEF Copying
<1>3. \A x \in Z : Visited(x)'
  BY <1>2, ReaderSame, OwnFacts DEF KnownTo
<1>4. ASSUME NEW q \in Own, isPinned(q)', Scoped(q)' PROVE q \in Z
  <2>1. Scoped(q)
    BY <1>4, ReaderSame, OwnFacts
  <2> QED
    BY <1>0, <1>2, <1>4, <2>1 DEF KnownTo
<1>5. ASSUME NEW x \in Z \union {Root}, NEW f \in LocalFields, NEW t \in Own, mem'[x].field[f] = t, Scoped(t)'
      PROVE  t \in Z
  <2>1. x \in Addr
    BY AddrFacts
  <2>2. mem[x].field[f] = t /\ Scoped(t)
    BY <1>1, <1>5, <2>1, ReaderSame, OwnFacts DEF SameButPins
  <2> QED
    BY <1>2, <2>2 DEF KnownTo
<1>6. ASSUME NEW p \in Own, NEW q \in Own, reader'.ptr = p, LeadsTo(p, q)', Scoped(q)'
      PROVE  q \in Z
  <2>1. LeadsTo(p, q) /\ Scoped(q)
    BY <1>6, ReaderPointers, ReaderSame, OwnFacts
  <2> QED
    BY <1>0, <1>2, <1>6, <2>1
<1>7. ASSUME NEW p \in Own, mem'[p].space = "from" /\ mem'[p].header.fwd, getFwdPtr(p) \in Z
      PROVE  mem'[p].retire
  BY <1>1, <1>2, <1>7, OwnFacts DEF KnownTo, SameButPins
<1> QED
  BY <1>3, <1>4, <1>5, <1>6, <1>7 DEF KnownTo, getFwdPtr

\* One call of make_entangled at a time.
LEMMA TopFacts ==
  ASSUME ReaderTypes, BarrierInv, reader.pc = "entangle"
  PROVE  /\ reader.frames = <<Top>> /\ Top \in Frames /\ Len(reader.frames) = 1
         /\ reader.ptr \in Own /\ Top.ptr = reader.ptr
         /\ Front(reader.frames) = <<>>
         /\ \A fr : Replace(fr) = [reader EXCEPT !.frames = <<fr>>]
<1>1. reader.frames = <<Top>> /\ Top \in Frames /\ Top.ptr = reader.ptr
  BY DEF BarrierInv
<1>2. Len(reader.frames) = 1
  BY <1>1
<1>3. Front(reader.frames) = <<>>
  BY <1>1, <1>2 DEF Front
<1>4. \A fr : Append(<<>>, fr) = <<fr>>
  OBVIOUS
<1>5. \A fr : Replace(fr) = [reader EXCEPT !.frames = <<fr>>]
  BY <1>3, <1>4 DEF Replace
<1>6. reader.ptr \in Own
  BY <1>1 DEF Frames
<1> QED
  BY <1>1, <1>2, <1>3, <1>5, <1>6

\* A frame that takes the place of another.
LEMMA FrameSet ==
  ASSUME ReaderTypes, NEW fr \in Frames, NEW b \in BOOLEAN,
         reader' = [[reader EXCEPT !.frames = <<fr>>] EXCEPT !.firstCall = b]
  PROVE  /\ Top' = fr /\ reader'.frames = <<fr>>
         /\ reader'.pc = reader.pc /\ reader'.ptr = reader.ptr /\ reader'.slot = reader.slot
         /\ (held \subseteq Own)' => ReaderTypes'
<1>1. <<fr>> \in Seq(Frames)
  OBVIOUS
<1>2. reader' = [reader EXCEPT !.frames = <<fr>>, !.firstCall = b]
  BY DEF ReaderTypes
<1>3. /\ reader'.frames = <<fr>>
      /\ reader'.pc = reader.pc /\ reader'.ptr = reader.ptr /\ reader'.slot = reader.slot
  BY <1>2 DEF ReaderTypes
<1>4. (held \subseteq Own)' => ReaderTypes'
  BY <1>1, <1>2 DEF ReaderTypes
<1>5. Top' = fr
  BY <1>3 DEF Top, Last
<1> QED
  BY <1>3, <1>4, <1>5

\* The call of make_entangled goes on.
LEMMA FrameReplaced ==
  ASSUME ReaderTypes, NEW fr \in Frames, reader' = [reader EXCEPT !.frames = <<fr>>]
  PROVE  /\ Top' = fr /\ reader'.frames = <<fr>>
         /\ reader'.pc = reader.pc /\ reader'.ptr = reader.ptr /\ reader'.slot = reader.slot
         /\ (held \subseteq Own)' => ReaderTypes'
<1>1. PICK b \in BOOLEAN : b = reader.firstCall
  BY DEF ReaderTypes
<1>2. reader' = [[reader EXCEPT !.frames = <<fr>>] EXCEPT !.firstCall = b]
  BY <1>1 DEF ReaderTypes
<1> QED
  BY <1>2, FrameSet

\* The reader's barrier ends, or was not under way.
LEMMA IdleBarrier ==
  ASSUME reader' = IdleReader
  PROVE  /\ BarrierInv' /\ \A p \in Own : ~Ending(p)' /\ reader'.ptr # p
         /\ (held \subseteq Own)' => ReaderTypes'
<1>1. reader'.pc = "idle" /\ reader'.ptr = NULL /\ reader'.frames = <<>> /\ reader'.slot = NULL
      /\ reader'.firstCall = TRUE
  BY DEF IdleReader
<1>2. \A p \in Own : reader'.ptr # p
  BY <1>1, OwnFacts
<1>3. BarrierInv'
  BY <1>1, <1>2 DEF BarrierInv
<1>4. (held \subseteq Own)' => ReaderTypes'
  BY DEF ReaderTypes, IdleReader, ReaderPcs
<1> QED
  BY <1>1, <1>2, <1>3, <1>4 DEF Ending

\* The pointer that the reader is working on stays what it was.
LEMMA BarrierKept ==
  ASSUME ReaderFrame, MemTypes, HeadInv, ReaderTypes, BarrierInv, held \subseteq held',
         NEW p \in Own, reader.ptr = p, reader'.ptr = p, reader'.slot = reader.slot
  PROVE  /\ \E x \in held' \union {Root}, f \in LocalFields :
              reader'.slot = Slot(x, f) /\ x[1] \in Mutable /\ Names(x, f, p)'
         /\ \E q \in Own : LeadsTo(p, q)'
<1>1. PICK x \in held \union {Root}, f \in LocalFields :
        reader.slot = Slot(x, f) /\ x[1] \in Mutable /\ Names(x, f, p)
  BY DEF BarrierInv
<1>2. x \in Addr /\ x \in held' \union {Root}
  BY AddrFacts DEF ReaderTypes
<1>3. PICK q \in Own : LeadsTo(p, q)
  BY DEF BarrierInv
<1> QED
  BY <1>1, <1>2, <1>3, ReaderPointers

\* A step between the reads of the barrier, before make_entangled.
LEMMA BarrierMoves ==
  ASSUME LocalInv, ReaderFrame, mem' = mem, held' = held, NEW p \in Own,
         reader.pc \in {"idle", "check", "check again", "read", "manage"},
         reader'.pc \in {"check", "check again", "read", "manage"},
         reader' \in [pc : ReaderPcs, slot : FieldSlots \union {NULL}, ptr : Own \union {NULL},
                      firstCall : BOOLEAN, frames : Seq(Frames)],
         reader'.ptr = p, reader'.frames = <<>>,
         NEW x \in held \union {Root}, NEW f \in LocalFields,
         reader'.slot = Slot(x, f), x[1] \in Mutable, Names(x, f, p),
         mem[x].field[f] = p \/ reader.ptr = p
  PROVE  LocalInv'
<1>g. GcInv /\ ReaderInv /\ ReaderTypes /\ PinInv /\ HeldInv /\ BarrierInv /\ VisitedInv
      /\ MemTypes /\ OwnerTypes /\ HeadInv /\ FwdInv /\ VersInv /\ DepthInv /\ FieldInv
  BY DEF LocalInv, GcInv, ReaderInv
<1>1. GcInv'
  BY <1>g, ReaderKeepsGc
<1>2. \E q \in Own : LeadsTo(p, q)
  <2>1. CASE mem[x].field[f] = p
    BY <1>g, <2>1, FieldLeads
  <2>2. CASE reader.ptr = p
    BY <1>g, <2>2 DEF BarrierInv
  <2> QED
    BY <2>1, <2>2
<1>3. ReaderTypes'
  BY <1>g DEF ReaderTypes
<1>4. \A q \in Own : ~Ending(q)
  BY <1>g DEF Ending
<1>5. PinInv'
  BY <1>g, <1>4, PinsKept DEF isPinned, header
<1>6. HeldInv'
  BY <1>g, HeldKept
<1>7. BarrierInv'
  <2>1. x \in Addr
    BY <1>g, AddrFacts DEF ReaderTypes
  <2>2. Names(x, f, p)' /\ \E q \in Own : LeadsTo(p, q)'
    BY <1>g, <1>2, <2>1, ReaderPointers
  <2>3. p # NULL
    BY OwnFacts
  <2> QED
    BY <2>2, <2>3 DEF BarrierInv, Slot
<1>8. VisitedInv'
  <2> SUFFICES ASSUME NEW Z \in SUBSET Own, gc.pc # "idle", KnownTo(Z),
                      NEW r \in Own, NEW q \in Own, reader'.ptr = r, LeadsTo(r, q), Scoped(q)
               PROVE  q \in Z
    BY <1>g, PhaseKept DEF isPinned, header
  <2>1. CASE mem[x].field[f] = p
    BY <1>g, <2>1, FieldLeads
  <2>2. CASE reader.ptr = p
    BY <2>2 DEF KnownTo
  <2> QED
    BY <2>1, <2>2
<1> QED
  BY <1>1, <1>3, <1>5, <1>6, <1>7, <1>8 DEF LocalInv, ReaderInv

\* ReadField preserves the invariant.
LEMMA ReadFieldKeeps ==
  ASSUME LocalInv, NEW x \in held \union {Root}, NEW f \in LocalFields, ReadField(x, f)
  PROVE  LocalInv'
<1>g. MemTypes /\ OwnerTypes /\ HeadInv /\ ReaderTypes /\ BarrierInv
  BY DEF LocalInv, GcInv, ReaderInv
<1>1. ReaderFrame
  BY <1>g, SameMemFrame DEF ReadField, ReaderRest
<1>2. x \in Addr
  BY <1>g, AddrFacts DEF ReaderTypes
<1>3. PICK t \in Own : mem[x].field[f] = t
  BY <1>g, <1>2, MemFacts DEF ReadField
<1>4. x[1] \in Mutable
  BY DEF ReadField, isMutable
<1>5. reader' = [pc |-> "check", slot |-> Slot(x, f), ptr |-> t, firstCall |-> TRUE, frames |-> <<>>]
  BY <1>3 DEF ReadField, IdleReader, Slot
<1>6. Slot(x, f) \in FieldSlots
  BY <1>g DEF Slot, FieldSlots, ReaderTypes
<1>7. reader' \in [pc : ReaderPcs, slot : FieldSlots \union {NULL}, ptr : Own \union {NULL},
                      firstCall : BOOLEAN, frames : Seq(Frames)]
  BY <1>5, <1>6 DEF ReaderPcs
<1>8. Names(x, f, t)
  BY <1>3, OwnFacts DEF Names
<1>9. mem' = mem /\ held' = held /\ reader.pc = "idle"
  BY DEF ReadField
<1>10. reader'.pc = "check" /\ reader'.slot = Slot(x, f) /\ reader'.ptr = t /\ reader'.frames = <<>>
  BY <1>5
<1> QED
  BY <1>1, <1>3, <1>4, <1>7, <1>8, <1>9, <1>10, BarrierMoves

\* The reader's slot, while the barrier is under way.
LEMMA SlotFacts ==
  ASSUME ReaderTypes, BarrierInv, reader.pc # "idle"
  PROVE  /\ reader.ptr \in Own
         /\ \E x \in held \union {Root}, f \in LocalFields :
              reader.slot = Slot(x, f) /\ x[1] \in Mutable /\ Names(x, f, reader.ptr)
<1>1. PICK p \in Own : reader.ptr = p
  BY DEF ReaderTypes, BarrierInv
<1> QED
  BY <1>1 DEF BarrierInv

\* CheckSuspect preserves the invariant.
LEMMA CheckSuspectKeeps ==
  ASSUME LocalInv, CheckSuspect
  PROVE  LocalInv'
<1>g. MemTypes /\ OwnerTypes /\ HeadInv /\ ReaderTypes /\ BarrierInv /\ HeldInv /\ RootInv
  BY DEF LocalInv, GcInv, ReaderInv
<1>1. PICK p \in Own : reader.ptr = p
  BY <1>g, SlotFacts DEF CheckSuspect
<1>2. PICK x \in held \union {Root}, f \in LocalFields :
        reader.slot = Slot(x, f) /\ x[1] \in Mutable /\ Names(x, f, p)
  BY <1>g, <1>1, SlotFacts DEF CheckSuspect
<1>3. x \in Addr
  BY <1>g, AddrFacts DEF ReaderTypes
<1>4. reader.slot.at = x
  BY <1>2 DEF Slot
<1>5. header(x).suspect
  <2>1. CASE x = Root
    <3>1. mem[Root].field[f] \in Own
      BY <1>g, <1>2, <2>1, AddrFacts, MemFacts DEF Names
    <3>2. RootTarget(mem[Root].field[f])
      BY DEF RootTarget
    <3> QED
      BY <1>g, <2>1, <3>1, <3>2 DEF RootInv, header
  <2>2. CASE x \in held
    BY <1>g, <1>2, <2>2 DEF HeldInv, isMutable, header
  <2> QED
    BY <2>1, <2>2
<1>6. /\ reader' = [reader EXCEPT !.pc = IF @ = "check" THEN "read" ELSE "manage"] /\ held' = held
  BY <1>4, <1>5 DEF CheckSuspect
<1>7. ReaderFrame
  BY <1>g, SameMemFrame DEF CheckSuspect, ReaderRest
<1>8. PICK n \in {"read", "manage"} : reader' = [reader EXCEPT !.pc = n]
  BY <1>6
<1>9. reader' \in [pc : ReaderPcs, slot : FieldSlots \union {NULL}, ptr : Own \union {NULL},
                      firstCall : BOOLEAN, frames : Seq(Frames)]
  BY <1>g, <1>8 DEF ReaderPcs, ReaderTypes
<1>10. reader'.pc = n /\ reader'.slot = Slot(x, f) /\ reader'.ptr = p /\ reader'.frames = reader.frames
  BY <1>g, <1>1, <1>2, <1>8 DEF ReaderTypes
<1>11. reader.frames = <<>> /\ reader.pc \in {"check", "check again"} /\ mem' = mem
  BY <1>g DEF BarrierInv, CheckSuspect
<1> QED
  BY <1>1, <1>2, <1>6, <1>7, <1>8, <1>9, <1>10, <1>11, BarrierMoves

\* readBarrier preserves the invariant.
LEMMA readBarrierKeeps ==
  ASSUME LocalInv, readBarrier
  PROVE  LocalInv'
<1>g. MemTypes /\ OwnerTypes /\ HeadInv /\ ReaderTypes /\ BarrierInv /\ HeldInv /\ RootInv
  BY DEF LocalInv, GcInv, ReaderInv
<1>1. PICK p \in Own : reader.ptr = p
  BY <1>g, SlotFacts DEF readBarrier
<1>2. PICK x \in held \union {Root}, f \in LocalFields :
        reader.slot = Slot(x, f) /\ x[1] \in Mutable /\ Names(x, f, p)
  BY <1>g, <1>1, SlotFacts DEF readBarrier
<1>3. x \in Addr /\ f # NULL
  BY <1>g, AddrFacts DEF ReaderTypes
<1>4. reader.slot.at = x /\ reader.slot.f = f
  BY <1>2 DEF Slot
<1>5. PICK t \in Own : mem[x].field[f] = t
  BY <1>g, <1>2, <1>3, MemFacts DEF Names
<1>6. Target(reader.slot) = t /\ t # NULL
  BY <1>3, <1>4, <1>5, OwnFacts DEF Target
<1>7. ReaderFrame
  BY <1>g, SameMemFrame DEF readBarrier, ReaderRest
<1>8. reader' = [reader EXCEPT !.pc = "check again", !.ptr = t]
  BY <1>6 DEF readBarrier
<1>9. reader' \in [pc : ReaderPcs, slot : FieldSlots \union {NULL}, ptr : Own \union {NULL},
                      firstCall : BOOLEAN, frames : Seq(Frames)]
  BY <1>g, <1>8 DEF ReaderPcs, ReaderTypes
<1>10. reader'.pc = "check again" /\ reader'.slot = Slot(x, f) /\ reader'.ptr = t /\ reader'.frames = reader.frames
  BY <1>g, <1>2, <1>8 DEF ReaderTypes
<1>11. reader.frames = <<>> /\ reader.pc = "read" /\ mem' = mem /\ held' = held
  BY <1>g DEF BarrierInv, readBarrier
<1>12. Names(x, f, t)
  BY <1>5, <1>6 DEF Names
<1> QED
  BY <1>2, <1>5, <1>7, <1>9, <1>10, <1>11, <1>12, BarrierMoves

SetHeader(q, h) == [mem EXCEPT ![q].header = h]

\* A header is written, and nothing else.
LEMMA HeaderSet ==
  ASSUME MemTypes, NEW q \in Addr, NEW h \in Header, mem' = SetHeader(q, h)
  PROVE  /\ MemTypes'
         /\ \A p \in Addr : p # q => mem'[p] = mem[p]
         /\ mem'[q].header = h /\ mem'[q].space = mem[q].space /\ mem'[q].field = mem[q].field
         /\ mem'[q].retire = mem[q].retire
BY DEF SetHeader, MemTypes, Chunk

\* A header that the reader has pinned, or made a suspect.
LEMMA SetHeaderMem ==
  ASSUME MemTypes, HeadInv, GcTypes, OpInv, NEW q \in Own, Live(q), NEW h \in Header, mem' = SetHeader(q, h),
         h.fwd = mem[q].header.fwd, h.mark = mem[q].header.mark,
         mem[q].header.suspect => h.suspect, h.pin = mem[q].header.pin \/ h.pin = "any",
         h.pin # "none", h.unpinDepth = SharedDepth,
         gc.pc = "install" => gc.op # q
  PROVE  ReaderMem
<1>0. q \in Addr
  BY OwnFacts
<1>1. /\ MemTypes' /\ \A p \in Addr : p # q => mem'[p] = mem[p]
      /\ mem'[q].header = h /\ mem'[q].space = mem[q].space /\ mem'[q].field = mem[q].field
      /\ mem'[q].retire = mem[q].retire
  BY <1>0, HeaderSet
<1>2. \A p \in Addr : SameButPins(p)
  <2>1. SameButPins(q)
    BY <1>1 DEF SameButPins
  <2>2. ASSUME NEW p \in Addr, p # q PROVE SameButPins(p)
    <3>1. mem'[p] = mem[p]
      BY <1>1, <2>2
    <3> QED
      BY <3>1 DEF SameButPins, HeadInv
  <2> QED
    BY <2>1, <2>2
<1>3. gc.pc = "install" => mem'[gc.op] = mem[gc.op]
  BY <1>1, OwnFacts DEF OpInv, GcTypes
<1> QED
  BY <1>1, <1>2, <1>3 DEF ReaderMem

\* What the private objects' collector is about to forward is not what the reader has.
LEMMA NotOp ==
  ASSUME LocalInv, NEW q \in Own,
         \A Z \in SUBSET Own : gc.pc # "idle" /\ KnownTo(Z) /\ Scoped(q) => q \in Z
  PROVE  gc.pc = "install" => gc.op # q
<1> SUFFICES ASSUME gc.pc = "install", gc.op = q PROVE FALSE
  OBVIOUS
<1>1. mem[q].space = "from" /\ Scoped(q)
  BY DEF LocalInv, GcInv, OpInv
<1>2. PICK Z \in SUBSET Own : KnownTo(Z)
  BY DEF LocalInv, ReaderInv, VisitedInv, Copying
<1>3. q \in Z
  BY <1>1, <1>2
<1>4. Visited(q)
  BY <1>2, <1>3 DEF KnownTo
<1> QED
  BY <1>1, <1>4 DEF Visited

\* What the reader's pointer leads to is known, when the collector has come
\* to the private objects, and so is what is pinned.
LEMMA ReaderKnown ==
  ASSUME LocalInv, NEW p \in Own, NEW q \in Own, (reader.ptr = p /\ LeadsTo(p, q)) \/ isPinned(q)
  PROVE  /\ \A Z \in SUBSET Own : gc.pc # "idle" /\ KnownTo(Z) /\ Scoped(q) => q \in Z
         /\ gc.pc = "install" => gc.op # q
<1>1. \A Z \in SUBSET Own : gc.pc # "idle" /\ KnownTo(Z) /\ Scoped(q) => q \in Z
  BY DEF KnownTo
<1> QED
  BY <1>1, NotOp

\* A step of make_entangled.
LEMMA EntangleStep ==
  ASSUME LocalInv, ReaderFrame, ReaderTypes', held' = held, NEW p \in Own, reader.ptr = p,
         reader.pc \in {"manage", "entangle"}, reader'.pc = "entangle",
         reader'.ptr = p, reader'.slot = reader.slot,
         NEW fr \in Frames, reader'.frames = <<fr>>, Top' = fr, fr.ptr = p,
         fr.pc = "fields" => p[1] \notin Mutable,
         fr.pc \in {"remember", "finish"} =>
           \E q \in Own : fr.new = q /\ LeadsTo(p, q) /\ isPinned(q)',
         \A q \in Own : isPinned(q)' /\ ~isPinned(q) => fr.pc \in {"remember", "finish"} /\ fr.new = q,
         \A q \in Own : Ending(q) => fr.pc \in {"remember", "finish"} /\ fr.new = q
  PROVE  LocalInv'
<1>g. GcInv /\ ReaderInv /\ ReaderTypes /\ PinInv /\ HeldInv /\ BarrierInv /\ VisitedInv
      /\ MemTypes /\ OwnerTypes /\ HeadInv /\ FwdInv /\ VersInv /\ DepthInv /\ FieldInv
  BY DEF LocalInv, GcInv, ReaderInv
<1>1. GcInv'
  BY <1>g, ReaderKeepsGc
<1>2. \A q \in Own : Ending(q)' <=> fr.pc \in {"remember", "finish"} /\ fr.new = q
  BY DEF Ending
<1>3. PinInv'
  BY <1>g, <1>2, PinsKept
<1>4. HeldInv'
  BY <1>g, HeldKept
<1>5. BarrierInv'
  <2>1. /\ \E x \in held' \union {Root}, f \in LocalFields :
              reader'.slot = Slot(x, f) /\ x[1] \in Mutable /\ Names(x, f, p)'
        /\ \E q \in Own : LeadsTo(p, q)'
    BY <1>g, BarrierKept
  <2>2. fr.pc \in {"remember", "finish"} =>
           \E q \in Own : fr.new = q /\ LeadsTo(p, q)' /\ isPinned(q)'
    BY <1>g, ReaderPointers
  <2>3. p # NULL
    BY OwnFacts
  <2> QED
    BY <2>1, <2>2, <2>3 DEF BarrierInv, Slot
<1>6. VisitedInv'
  <2> SUFFICES ASSUME NEW Z \in SUBSET Own, gc.pc # "idle", KnownTo(Z)
               PROVE  /\ \A q \in Own : isPinned(q)' /\ ~isPinned(q) /\ Scoped(q) => q \in Z
                      /\ \A r, q \in Own : reader'.ptr = r /\ LeadsTo(r, q) /\ Scoped(q) => q \in Z
    BY <1>g, PhaseKept
  <2>1. \A r, q \in Own : reader'.ptr = r /\ LeadsTo(r, q) /\ Scoped(q) => q \in Z
    BY DEF KnownTo
  <2> QED
    BY <2>1
<1> QED
  BY <1>1, <1>3, <1>4, <1>5, <1>6 DEF LocalInv, ReaderInv

\* The barrier ends, and the reader has a pinned object.
LEMMA GotKeeps ==
  ASSUME LocalInv, ReaderFrame, NEW n \in Own, Got(n), reader.pc # "idle",
         isPinned(n), isMutable(n) => mem'[n].header.suspect,
         LeadsTo(reader.ptr, n), \A q \in Own : isPinned(q)' => isPinned(q),
         \A q \in Own : Ending(q) => q = n
  PROVE  LocalInv'
<1>g. GcInv /\ ReaderInv /\ ReaderTypes /\ PinInv /\ HeldInv /\ BarrierInv /\ VisitedInv
      /\ MemTypes /\ OwnerTypes /\ HeadInv /\ FwdInv /\ VersInv /\ DepthInv /\ FieldInv
  BY DEF LocalInv, GcInv, ReaderInv
<1>0. held' = held \union {n} /\ reader' = IdleReader
  BY DEF Got
<1>1. GcInv'
  BY <1>g, ReaderKeepsGc
<1>2. ReaderTypes' /\ BarrierInv' /\ \A p \in Own : ~Ending(p)' /\ reader'.ptr # p
  BY <1>g, <1>0, IdleBarrier DEF ReaderTypes
<1>3. PinInv'
  BY <1>g, <1>0, PinsKept
<1>4. PICK x \in held \union {Root}, f \in LocalFields : Names(x, f, reader.ptr)
  BY <1>g, SlotFacts
<1>5. Names(x, f, n)
  BY <1>4 DEF Names, LeadsTo
<1>6. isPinned(n)'
  BY <1>g, OwnFacts, ReaderSame
<1>7. HeldInv'
  BY <1>g, <1>0, <1>5, <1>6, HeldGrows
<1>8. VisitedInv'
  BY <1>g, <1>2, PhaseKept
<1> QED
  BY <1>1, <1>2, <1>3, <1>7, <1>8 DEF LocalInv, ReaderInv

\* What NeedsPin says when it says no.
LEMMA NeedsNoPin ==
  ASSUME MemTypes, HeadInv, NEW p \in Own, ~NeedsPin(header(p))
  PROVE  isPinned(p) /\ mem[p].header.pin = "any" /\ mem[p].header.unpinDepth = SharedDepth
BY OwnFacts DEF NeedsPin, HeadInv, isPinned, header

\* ManageEntangled preserves the invariant.
LEMMA ManageEntangledKeeps ==
  ASSUME LocalInv, ManageEntangled
  PROVE  LocalInv'
<1>g. MemTypes /\ OwnerTypes /\ GcTypes /\ OpInv /\ HeadInv /\ VersInv /\ ReaderTypes /\ BarrierInv
  BY DEF LocalInv, GcInv, ReaderInv
<1>1. PICK p \in Own : reader.ptr = p
  BY <1>g, SlotFacts DEF ManageEntangled
<1>2. reader.pc = "manage" /\ reader.frames = <<>> /\ p \in Addr /\ \A q \in Own : ~Ending(q)
  BY <1>g, OwnFacts DEF ManageEntangled, BarrierInv, Ending
<1>3. CASE NeedsPin(header(p))
  <2>1. PICK fr : fr = Frame(NULL, p)
    OBVIOUS
  <2>2. fr \in Frames /\ fr.pc = "enter" /\ fr.ptr = p
    BY <2>1 DEF Frame, Frames
  <2>3. PICK b \in BOOLEAN : b = ~(header(p).pin = "down" /\ header(p).unpinDepth = SharedDepth)
    OBVIOUS
  <2>4. /\ reader' = [reader EXCEPT !.pc = "entangle", !.firstCall = b, !.frames = <<fr>>]
        /\ UNCHANGED <<mem, held, remSet, toRemSet>> /\ ReaderRest
    BY <1>1, <1>3, <2>1, <2>3 DEF ManageEntangled, ReaderRest
  <2>5. /\ reader'.pc = "entangle" /\ reader'.ptr = p /\ reader'.slot = reader.slot
        /\ reader'.frames = <<fr>>
    BY <1>g, <1>1, <2>4 DEF ReaderTypes
  <2>6. <<fr>> \in Seq(Frames)
    BY <2>2
  <2>7. ReaderTypes'
    BY <1>g, <2>4, <2>6 DEF ReaderTypes, ReaderPcs
  <2>8. Top' = fr
    BY <2>5 DEF Top, Last
  <2>9. ReaderFrame
    BY <1>g, <2>4, SameMemFrame
  <2>10. \A q \in Own : isPinned(q)' <=> isPinned(q)
    BY <2>4 DEF isPinned, header
  <2> QED
    BY <1>1, <1>2, <2>2, <2>4, <2>5, <2>7, <2>8, <2>9, <2>10, EntangleStep
<1>4. CASE ~NeedsPin(header(p))
  <2>1. isPinned(p) /\ mem[p].header.pin = "any" /\ mem[p].header.unpinDepth = SharedDepth
    BY <1>g, <1>4, NeedsNoPin
  <2>2. PICK b \in BOOLEAN : b <=> (mem[p].header.suspect \/ isMutable(p))
    OBVIOUS
  <2>3. mem[p].header \in Header
    BY <1>g, <1>2, MemFacts
  <2>4. PICK h : h = [mem[p].header EXCEPT !.suspect = b]
    OBVIOUS
  <2>5. /\ h \in Header /\ h.fwd = mem[p].header.fwd /\ h.mark = mem[p].header.mark
        /\ h.suspect = b /\ h.pin = mem[p].header.pin /\ h.unpinDepth = mem[p].header.unpinDepth
    BY <2>3, <2>4 DEF Header
  <2>6. mem' = [mem EXCEPT ![p].header.suspect = @ \/ isMutable(p)] /\ Got(p)
        /\ UNCHANGED <<remSet, toRemSet>> /\ ReaderRest
    BY <1>1, <1>4 DEF ManageEntangled, ReaderRest
  <2>7. mem' = SetHeader(p, h)
    BY <1>g, <1>2, <2>2, <2>3, <2>4, <2>6 DEF SetHeader, MemTypes, Chunk, Header
  <2>8. Live(p)
    BY <1>g, <2>1, PinnedIsLive
  <2>9. gc.pc = "install" => gc.op # p
    BY <2>1, ReaderKnown
  <2>10. ReaderMem
    BY <1>g, <2>1, <2>2, <2>5, <2>7, <2>8, <2>9, SetHeaderMem
  <2>11. ReaderFrame
    BY <1>g, <2>6, <2>10 DEF ReaderFrame, ReaderSets, OwnerTypes
  <2>12. /\ \A q \in Addr : q # p => mem'[q] = mem[q]
         /\ mem'[p].header = h
    BY <1>g, <1>2, <2>5, <2>7, HeaderSet
  <2>13. isMutable(p) => mem'[p].header.suspect
    BY <2>2, <2>5, <2>12
  <2>14. \A q \in Own : isPinned(q)' => isPinned(q)
    BY <2>1, <2>12, OwnFacts DEF isPinned, header
  <2>15. LeadsTo(reader.ptr, p)
    BY <1>1, <1>g, <2>8, LiveLeadsToItself
  <2>16. reader.pc # "idle"
    BY <1>2
  <2> QED
    BY <1>2, <2>1, <2>6, <2>11, <2>13, <2>14, <2>15, <2>16, GotKeeps
<1> QED
  BY <1>3, <1>4

\* EnterCall preserves the invariant.
LEMMA EnterCallKeeps ==
  ASSUME LocalInv, EnterCall
  PROVE  LocalInv'
<1>g. MemTypes /\ OwnerTypes /\ GcTypes /\ OpInv /\ HeadInv /\ VersInv /\ ReaderTypes /\ BarrierInv
  BY DEF LocalInv, GcInv, ReaderInv
<1>1. reader.pc = "entangle" /\ Top.pc = "enter"
  BY DEF EnterCall, Entangling
<1>2. PICK p \in Own : reader.ptr = p /\ Top.ptr = p
  BY <1>g, <1>1, TopFacts
<1>3. PICK q \in Own : LeadsTo(p, q)
  BY <1>g, <1>2 DEF BarrierInv
<1>4. getRacyFwdPtr[p] = q
  BY <1>g, <1>3, RacyFacts
<1>5. Top \in Frames /\ \A fr : Replace(fr) = [reader EXCEPT !.frames = <<fr>>]
  BY <1>g, <1>1, TopFacts
<1>6. ReaderFrame
  BY <1>g, SameMemFrame DEF EnterCall, ReaderRest
<1>7. \A n \in Own : (isPinned(n)' <=> isPinned(n)) /\ ~Ending(n)
  BY <1>1 DEF EnterCall, isPinned, header, Ending
<1>8. held' = held /\ reader.firstCall \in BOOLEAN
  BY <1>g DEF EnterCall, ReaderTypes
<1>9. \E fr \in Frames, b \in BOOLEAN :
        /\ reader' = [[reader EXCEPT !.frames = <<fr>>] EXCEPT !.firstCall = b]
        /\ fr.ptr = p
        /\ fr.pc = "fields" => p[1] \notin Mutable
        /\ fr.pc \in {"remember", "finish"} => fr.new = q /\ isPinned(q)
  <2>1. CASE ~NeedsPin(header(q))
    <3>1. reader' = Replace([Top EXCEPT !.pc = "finish", !.new = q])
      BY <1>2, <1>4, <2>1 DEF EnterCall
    <3>2. PICK fr : fr = [Top EXCEPT !.pc = "finish", !.new = q]
      OBVIOUS
    <3>3. fr \in Frames /\ fr.ptr = p /\ fr.pc = "finish" /\ fr.new = q
      BY <1>2, <1>5, <3>2 DEF Frames
    <3>4. reader' = [[reader EXCEPT !.frames = <<fr>>] EXCEPT !.firstCall = reader.firstCall]
      BY <1>g, <1>5, <3>1, <3>2 DEF ReaderTypes
    <3>5. isPinned(q)
      BY <1>g, <2>1, NeedsNoPin
    <3> QED
      BY <1>8, <3>3, <3>4, <3>5
  <2>2. CASE NeedsPin(header(q)) /\ isMutable(q)
    <3>1. reader' = Replace([Top EXCEPT !.pc = "pin", !.add = reader.firstCall])
      BY <1>2, <1>4, <2>2 DEF EnterCall
    <3>2. PICK fr : fr = [Top EXCEPT !.pc = "pin", !.add = reader.firstCall]
      OBVIOUS
    <3>3. fr \in Frames /\ fr.ptr = p /\ fr.pc = "pin"
      BY <1>2, <1>5, <1>8, <3>2 DEF Frames
    <3>4. reader' = [[reader EXCEPT !.frames = <<fr>>] EXCEPT !.firstCall = reader.firstCall]
      BY <1>g, <1>5, <3>1, <3>2 DEF ReaderTypes
    <3> QED
      BY <1>8, <3>3, <3>4
  <2>3. CASE NeedsPin(header(q)) /\ ~isMutable(q)
    <3>1. reader' = [Replace([Top EXCEPT !.pc = "fields", !.add = reader.firstCall, !.todo = FieldNames[q[1]]])
                       EXCEPT !.firstCall = FALSE]
      BY <1>2, <1>4, <2>3 DEF EnterCall
    <3>2. PICK fr : fr = [Top EXCEPT !.pc = "fields", !.add = reader.firstCall, !.todo = FieldNames[q[1]]]
      OBVIOUS
    <3>3. FieldNames[q[1]] \in SUBSET LocalFields
      BY FieldNamesFacts, OwnFacts
    <3>4. fr \in Frames /\ fr.ptr = p /\ fr.pc = "fields"
      BY <1>2, <1>5, <1>8, <3>2, <3>3 DEF Frames
    <3>5. reader' = [[reader EXCEPT !.frames = <<fr>>] EXCEPT !.firstCall = FALSE]
      BY <1>5, <3>1, <3>2
    <3>6. p[1] \notin Mutable
      BY <1>3, <2>3 DEF isMutable, LeadsTo
    <3> QED
      BY <3>4, <3>5, <3>6
  <2> QED
    BY <2>1, <2>2, <2>3
<1>10. PICK fr \in Frames, b \in BOOLEAN :
        /\ reader' = [[reader EXCEPT !.frames = <<fr>>] EXCEPT !.firstCall = b]
        /\ fr.ptr = p
        /\ fr.pc = "fields" => p[1] \notin Mutable
        /\ fr.pc \in {"remember", "finish"} => fr.new = q /\ isPinned(q)
  BY <1>9
<1>11. /\ Top' = fr /\ reader'.frames = <<fr>>
       /\ reader'.pc = reader.pc /\ reader'.ptr = reader.ptr /\ reader'.slot = reader.slot
       /\ ReaderTypes'
  BY <1>g, <1>8, <1>10, FrameSet DEF ReaderTypes
<1> QED
  BY <1>1, <1>2, <1>3, <1>6, <1>7, <1>8, <1>10, <1>11, EntangleStep

\* The fields of what is not mutable hold no pointers, so that there is no second call.
LEMMA EntangleFieldKeeps ==
  ASSUME LocalInv, NEW f \in LocalFields, EntangleField(f)
  PROVE  LocalInv'
<1>g. MemTypes /\ OwnerTypes /\ GcTypes /\ OpInv /\ HeadInv /\ VersInv /\ FieldInv /\ ReaderTypes /\ BarrierInv
  BY DEF LocalInv, GcInv, ReaderInv
<1>1. reader.pc = "entangle" /\ Top.pc = "fields"
  BY DEF EntangleField, Entangling
<1>2. PICK p \in Own : reader.ptr = p /\ Top.ptr = p
  BY <1>g, <1>1, TopFacts
<1>3. Top \in Frames /\ \A fr : Replace(fr) = [reader EXCEPT !.frames = <<fr>>]
  BY <1>g, <1>1, TopFacts
<1>4. p[1] \notin Mutable
  BY <1>g, <1>1, <1>2 DEF BarrierInv
<1>5. mem[p].field[f] = NULL
  <2>1. p[1] # Stack
    BY OwnFacts, AddrFacts
  <2> QED
    BY <1>g, <1>4, <2>1, MemFacts, OwnFacts DEF FieldInv
<1>6. PICK fr : fr = [Top EXCEPT !.todo = @ \ {f}]
  OBVIOUS
<1>7. reader' = [reader EXCEPT !.frames = <<fr>>]
  BY <1>2, <1>3, <1>5, <1>6 DEF EntangleField
<1>8. fr \in Frames /\ fr.ptr = p /\ fr.pc = "fields"
  BY <1>1, <1>2, <1>3, <1>6 DEF Frames
<1>9. ReaderFrame
  BY <1>g, SameMemFrame DEF EntangleField, ReaderRest
<1>10. \A n \in Own : (isPinned(n)' <=> isPinned(n)) /\ ~Ending(n)
  BY <1>1 DEF EntangleField, isPinned, header, Ending
<1>11. held' = held
  BY DEF EntangleField
<1>12. /\ Top' = fr /\ reader'.frames = <<fr>>
       /\ reader'.pc = reader.pc /\ reader'.ptr = reader.ptr /\ reader'.slot = reader.slot
       /\ ReaderTypes'
  BY <1>g, <1>7, <1>8, <1>11, FrameReplaced DEF ReaderTypes
<1> QED
  BY <1>1, <1>2, <1>4, <1>8, <1>9, <1>10, <1>11, <1>12, EntangleStep

\* Pin preserves the invariant.
LEMMA PinKeeps ==
  ASSUME LocalInv, Pin
  PROVE  LocalInv'
<1>g. MemTypes /\ OwnerTypes /\ GcTypes /\ OpInv /\ HeadInv /\ VersInv /\ ReaderTypes /\ BarrierInv
  BY DEF LocalInv, GcInv, ReaderInv
<1>1. reader.pc = "entangle" /\ Top.pc \in {"pin", "fields"}
  BY DEF Pin, Entangling
<1>2. PICK p \in Own : reader.ptr = p /\ Top.ptr = p
  BY <1>g, <1>1, TopFacts
<1>3. Top \in Frames /\ \A fr : Replace(fr) = [reader EXCEPT !.frames = <<fr>>]
  BY <1>g, <1>1, TopFacts
<1>4. PICK q \in Own : LeadsTo(p, q)
  BY <1>g, <1>2 DEF BarrierInv
<1>5. getRacyFwdPtr[p] = q
  BY <1>g, <1>4, RacyFacts
<1>6. q \in Addr /\ Live(q) /\ PinnedHeader(mem[q].header)
  BY <1>g, <1>4, OwnFacts, MemFacts DEF LeadsTo, HeadInv, PinnedHeader
<1>7. PICK h : h = Pinned(mem[q].header, SharedDepth, "any")
  OBVIOUS
<1>8. /\ h \in Header /\ h.pin = "any" /\ h.unpinDepth = SharedDepth
      /\ h.fwd = mem[q].header.fwd /\ h.mark = mem[q].header.mark /\ h.suspect = mem[q].header.suspect
  BY <1>6, <1>7, PinnedFacts
<1>9. mem' = [mem EXCEPT ![q].header = Pinned(@, SharedDepth, "any")]
  BY <1>2, <1>5 DEF Pin
<1>10. mem' = SetHeader(q, h)
  BY <1>g, <1>6, <1>7, <1>9 DEF SetHeader, MemTypes, Chunk
<1>11. gc.pc = "install" => gc.op # q
  BY <1>2, <1>4, ReaderKnown
<1>12. ReaderMem
  BY <1>g, <1>6, <1>8, <1>10, <1>11, SetHeaderMem
<1>13. ReaderFrame /\ held' = held
  BY <1>g, <1>12 DEF ReaderFrame, ReaderSets, ReaderRest, Pin, OwnerTypes
<1>14. PICK n \in {"remember", "finish"} :
         n = IF Top.add /\ mem'[q].header.pin # mem[q].header.pin THEN "remember" ELSE "finish"
  OBVIOUS
<1>15. PICK fr : fr = [Top EXCEPT !.new = q, !.pc = n]
  OBVIOUS
<1>16. reader' = [reader EXCEPT !.frames = <<fr>>]
  BY <1>2, <1>3, <1>5, <1>14, <1>15 DEF Pin
<1>17. fr \in Frames /\ fr.ptr = p /\ fr.pc = n /\ fr.new = q
  BY <1>2, <1>3, <1>15 DEF Frames
<1>18. /\ Top' = fr /\ reader'.frames = <<fr>>
       /\ reader'.pc = reader.pc /\ reader'.ptr = reader.ptr /\ reader'.slot = reader.slot
       /\ ReaderTypes'
  BY <1>g, <1>13, <1>16, <1>17, FrameReplaced DEF ReaderTypes
<1>19. /\ \A x \in Addr : x # q => mem'[x] = mem[x]
       /\ mem'[q].header = h
  BY <1>g, <1>6, <1>8, <1>10, HeaderSet
<1>20. isPinned(q)' /\ \A x \in Own : isPinned(x)' /\ ~isPinned(x) => x = q
  BY <1>8, <1>19, OwnFacts DEF isPinned, header
<1>21. \A x \in Own : ~Ending(x)
  BY <1>1 DEF Ending
<1> QED
  BY <1>1, <1>2, <1>4, <1>13, <1>17, <1>18, <1>20, <1>21, EntangleStep

\* Remember preserves the invariant.
LEMMA RememberKeeps ==
  ASSUME LocalInv, Remember
  PROVE  LocalInv'
<1>g. MemTypes /\ OwnerTypes /\ GcTypes /\ OpInv /\ HeadInv /\ VersInv /\ ReaderTypes /\ BarrierInv
  BY DEF LocalInv, GcInv, ReaderInv
<1>1. reader.pc = "entangle" /\ Top.pc = "remember"
  BY DEF Remember, Entangling
<1>2. PICK p \in Own : reader.ptr = p /\ Top.ptr = p
  BY <1>g, <1>1, TopFacts
<1>3. Top \in Frames /\ \A fr : Replace(fr) = [reader EXCEPT !.frames = <<fr>>]
  BY <1>g, <1>1, TopFacts
<1>4. PICK q \in Own : Top.new = q /\ LeadsTo(p, q) /\ isPinned(q)
  BY <1>g, <1>1, <1>2 DEF BarrierInv
<1>5. PICK fr : fr = [Top EXCEPT !.pc = "finish"]
  OBVIOUS
<1>6. reader' = [reader EXCEPT !.frames = <<fr>>]
  BY <1>3, <1>5 DEF Remember
<1>7. fr \in Frames /\ fr.ptr = p /\ fr.pc = "finish" /\ fr.new = q
  BY <1>2, <1>3, <1>4, <1>5 DEF Frames
<1>8. PICK e : e = Remembered(q, NULL)
  OBVIOUS
<1>9. e \in Entries /\ e.from = NULL /\ e.object = q
  BY <1>8 DEF Remembered, Entries
<1>10. InToSpace(p) => gc.pc # "idle"
  BY <1>g DEF InToSpace, HeadInv
<1>11. /\ \/ InToSpace(p) /\ toRemSet' = toRemSet \union {e} /\ remSet' = remSet
          \/ ~InToSpace(p) /\ remSet' = remSet \union {e} /\ toRemSet' = toRemSet
       /\ mem' = mem /\ held' = held /\ ReaderRest
  BY <1>2, <1>4, <1>8 DEF Remember, ReaderRest
<1>12. ReaderSets
  BY <1>g, <1>4, <1>9, <1>10, <1>11 DEF ReaderSets, OwnerTypes
<1>13. ReaderMem
  <2>1. MemTypes' /\ \A x \in Addr : SameButPins(x)
    BY <1>g, <1>11 DEF SameButPins, HeadInv, MemTypes
  <2> QED
    BY <1>11, <2>1 DEF ReaderMem
<1>14. ReaderFrame
  BY <1>11, <1>12, <1>13 DEF ReaderFrame
<1>15. /\ Top' = fr /\ reader'.frames = <<fr>>
       /\ reader'.pc = reader.pc /\ reader'.ptr = reader.ptr /\ reader'.slot = reader.slot
       /\ ReaderTypes'
  BY <1>g, <1>6, <1>7, <1>11, FrameReplaced DEF ReaderTypes
<1>16. \A x \in Own : (isPinned(x)' <=> isPinned(x)) /\ (Ending(x) => x = q)
  BY <1>4, <1>11 DEF isPinned, header, Ending
<1> QED
  BY <1>1, <1>2, <1>4, <1>7, <1>11, <1>14, <1>15, <1>16, EntangleStep

\* FinishCall preserves the invariant.
LEMMA FinishCallKeeps ==
  ASSUME LocalInv, FinishCall
  PROVE  LocalInv'
<1>g. MemTypes /\ OwnerTypes /\ GcTypes /\ OpInv /\ HeadInv /\ VersInv /\ ReaderTypes /\ BarrierInv
  BY DEF LocalInv, GcInv, ReaderInv
<1>1. reader.pc = "entangle" /\ Top.pc = "finish"
  BY DEF FinishCall, Entangling
<1>2. PICK p \in Own : reader.ptr = p /\ Top.ptr = p
  BY <1>g, <1>1, TopFacts
<1>3. Top \in Frames /\ Len(reader.frames) = 1
  BY <1>g, <1>1, TopFacts
<1>4. PICK q \in Own : Top.new = q /\ LeadsTo(p, q) /\ isPinned(q)
  BY <1>g, <1>1, <1>2 DEF BarrierInv
<1>5. Top.slot = NULL
  BY <1>3 DEF Frames
<1>6. mem' = [mem EXCEPT ![q].header.suspect = @ \/ isMutable(q)] /\ Got(q)
      /\ UNCHANGED <<remSet, toRemSet>> /\ ReaderRest
  BY <1>3, <1>4, <1>5 DEF FinishCall, ReaderRest
<1>7. PICK b \in BOOLEAN : b <=> (mem[q].header.suspect \/ isMutable(q))
  OBVIOUS
<1>8. mem[q].header \in Header /\ q \in Addr
  BY <1>g, OwnFacts, MemFacts
<1>9. PICK h : h = [mem[q].header EXCEPT !.suspect = b]
  OBVIOUS
<1>10. /\ h \in Header /\ h.fwd = mem[q].header.fwd /\ h.mark = mem[q].header.mark
       /\ h.suspect = b /\ h.pin = mem[q].header.pin /\ h.unpinDepth = mem[q].header.unpinDepth
  BY <1>8, <1>9 DEF Header
<1>11. mem' = SetHeader(q, h)
  BY <1>g, <1>6, <1>7, <1>8, <1>9 DEF SetHeader, MemTypes, Chunk, Header
<1>12. Live(q) /\ mem[q].header.pin # "none" /\ mem[q].header.unpinDepth = SharedDepth
  BY <1>g, <1>4, <1>8 DEF LeadsTo, HeadInv, isPinned, header
<1>13. gc.pc = "install" => gc.op # q
  BY <1>4, ReaderKnown
<1>14. ReaderMem
  BY <1>g, <1>7, <1>10, <1>11, <1>12, <1>13, SetHeaderMem
<1>15. ReaderFrame
  BY <1>g, <1>6, <1>14 DEF ReaderFrame, ReaderSets, OwnerTypes
<1>16. /\ \A x \in Addr : x # q => mem'[x] = mem[x]
       /\ mem'[q].header = h
  BY <1>g, <1>8, <1>10, <1>11, HeaderSet
<1>17. isMutable(q) => mem'[q].header.suspect
  BY <1>7, <1>10, <1>16
<1>18. \A x \in Own : (isPinned(x)' => isPinned(x)) /\ (Ending(x) => x = q)
  BY <1>4, <1>16, OwnFacts DEF isPinned, header, Ending
<1> QED
  BY <1>1, <1>2, <1>4, <1>6, <1>15, <1>17, <1>18, GotKeeps

\* What the reader reads without a barrier has no pointers to read.
LEMMA NoImmutableField ==
  ASSUME LocalInv, NEW x \in held, NEW f \in LocalFields
  PROVE  ~ReadImmutable(x, f)
<1>1. x \in Own /\ x[1] # Stack
  BY OwnFacts, AddrFacts DEF LocalInv, ReaderInv, ReaderTypes
<1>2. mem[x].field[f] \in Own => x[1] \in Mutable
  BY <1>1, OwnFacts DEF LocalInv, GcInv, FieldInv
<1>3. mem[x].field[f] \in Own \union {NULL}
  BY <1>1, OwnFacts, MemFacts DEF LocalInv, GcInv
<1> QED
  BY <1>2, <1>3 DEF ReadImmutable, isMutable

\* The reader preserves the invariant.
LEMMA ReaderStepKeeps ==
  ASSUME LocalInv, Reader
  PROVE  LocalInv'
<1>1. ASSUME NEW x \in held \union {Root}, NEW f \in LocalFields, ReadField(x, f) \/ ReadImmutable(x, f)
      PROVE  LocalInv'
  <2>1. ~ReadImmutable(x, f)
    BY NoImmutableField DEF ReadImmutable
  <2> QED
    BY <1>1, <2>1, ReadFieldKeeps
<1>2. CASE CheckSuspect
  BY <1>2, CheckSuspectKeeps
<1>3. CASE readBarrier
  BY <1>3, readBarrierKeeps
<1>4. CASE ManageEntangled
  BY <1>4, ManageEntangledKeeps
<1>5. CASE EnterCall
  BY <1>5, EnterCallKeeps
<1>6. ASSUME NEW f \in LocalFields, EntangleField(f) PROVE LocalInv'
  BY <1>6, EntangleFieldKeeps
<1>7. CASE Pin
  BY <1>7, PinKeeps
<1>8. CASE Remember
  BY <1>8, RememberKeeps
<1>9. CASE FinishCall
  BY <1>9, FinishCallKeeps
<1> QED
  BY <1>1, <1>2, <1>3, <1>4, <1>5, <1>6, <1>7, <1>8, <1>9 DEF Reader

(* The owner's program runs between collections.                           *)
OwnerHeader(p) ==
  /\ mem'[p].space = mem[p].space /\ mem'[p].retire = mem[p].retire
  /\ mem'[p].header.fwd = mem[p].header.fwd /\ mem'[p].header.mark = mem[p].header.mark
  /\ mem[p].header.suspect => mem'[p].header.suspect
  /\ mem'[p].header.pin = mem[p].header.pin \/ mem[p].header.pin = "none"
  /\ mem'[p].header.unpinDepth = IF mem'[p].header.pin = "none" THEN 0 ELSE SharedDepth
  /\ \/ mem'[p].header = mem[p].header
     \/ p = Root /\ mem'[p].header.pin = mem[p].header.pin
     \/ p \in Own /\ Live(p) /\ mem'[p].header.pin # "none"
OwnerField(p, f) ==
  \/ mem'[p].field[f] = mem[p].field[f]
  \/ p = Roots
  \/ mem[p].field[f] = NULL
OwnerFrame ==
  /\ MemTypes' /\ gc.pc = "idle"
  /\ \A p \in Addr : OwnerHeader(p)
  /\ \A p \in Addr, f \in LocalFields : OwnerField(p, f)
  /\ UNCHANGED <<gc, reader, held, toRemSet, suspects>>
  /\ counts'.collections = counts.collections

\* Between collections nothing is forwarded, and all that is live is there to stay.
LEMMA IdleFacts ==
  ASSUME LocalInv, gc.pc = "idle"
  PROVE  /\ \A p \in Own : ~Visited(p) /\ (Live(p) => mem[p].space = "from") /\ (Good(p) => Live(p))
         /\ toRemSet = {} /\ gc.work = {} /\ gc.slot = NULL
<1>1. \A p \in Own : ~Visited(p)
  BY DEF LocalInv, GcInv, HeadInv, Visited
<1>2. \A p \in Own : Live(p) => mem[p].space = "from"
  BY <1>1 DEF LocalInv, GcInv, HeadInv, Visited, Live
<1>3. \A p \in Own : Good(p) => Live(p)
  BY DEF LocalInv, GcInv, FwdInv, Good, Marking, Copying
<1> QED
  BY <1>1, <1>2, <1>3 DEF LocalInv, GcInv, RootInv, WorkInv

\* What the owner's steps leave as it is.
LEMMA OwnerSame ==
  ASSUME OwnerFrame, MemTypes, HeadInv
  PROVE  /\ \A p \in Addr : Live(p)' <=> Live(p)
         /\ \A p \in Addr : Good(p)' <=> Good(p)
         /\ \A p \in Addr : isPinned(p) => isPinned(p)'
         /\ \A t \in Own : RootTarget(t) => RootTarget(t)'
         /\ \A p, q \in Own : LeadsTo(p, q)' <=> LeadsTo(p, q)
         /\ \A x \in Addr, f \in LocalFields, q \in Own : x # Roots /\ Names(x, f, q) => Names(x, f, q)'
<1>1. \A p \in Addr : OwnerHeader(p)
  BY DEF OwnerFrame
<1>2. \A p \in Addr : Live(p)' <=> Live(p)
  BY <1>1 DEF OwnerHeader, Live
<1>3. \A p \in Addr : Good(p)' <=> Good(p)
  BY <1>1, <1>2 DEF OwnerHeader, Good
<1>4. \A p \in Addr : isPinned(p) => isPinned(p)'
  BY <1>1 DEF OwnerHeader, isPinned, header
<1>5. \A t \in Own : RootTarget(t) => RootTarget(t)'
  BY AddrFacts, OwnFacts DEF OwnerFrame, OwnerField, RootTarget
<1>6. ASSUME NEW p \in Own, NEW q \in Own PROVE LeadsTo(p, q)' <=> LeadsTo(p, q)
  <2>1. \A m \in p[2] .. q[2] - 1 : mem'[<<p[1], m>>].header.fwd = mem[<<p[1], m>>].header.fwd
    <3>1. ASSUME NEW m \in p[2] .. q[2] - 1 PROVE <<p[1], m>> \in Addr
      BY OwnFacts, VersionIsOwn
    <3> QED
      BY <1>1, <3>1 DEF OwnerHeader
  <2> QED
    BY <1>2, <2>1, OwnFacts DEF LeadsTo
<1>7. \A x \in Addr, f \in LocalFields, q \in Own : x # Roots /\ Names(x, f, q) => Names(x, f, q)'
  BY DEF OwnerFrame, OwnerField, Names
<1> QED
  BY <1>2, <1>3, <1>4, <1>5, <1>6, <1>7

\* The part of the invariant that the owner cannot disturb.
LEMMA OwnerKeeps ==
  ASSUME LocalInv, OwnerFrame, OwnerTypes', DepthInv', FieldInv', WriteInv', RootInv', PinInv'
  PROVE  LocalInv'
<1>g. /\ GcTypes /\ OwnerTypes /\ MemTypes /\ DepthInv /\ HeadInv /\ FwdInv /\ VersInv /\ FieldInv
      /\ ScanInv /\ WorkInv /\ OpInv /\ WriteInv /\ RootInv
      /\ ReaderTypes /\ PinInv /\ HeldInv /\ BarrierInv /\ VisitedInv
  BY DEF LocalInv, GcInv, ReaderInv
<1>1. \A p \in Addr : OwnerHeader(p)
  BY DEF OwnerFrame
<1>2. gc' = gc /\ gc.pc = "idle" /\ reader' = reader /\ held' = held /\ toRemSet' = toRemSet /\ MemTypes'
      /\ counts'.collections = counts.collections
  BY DEF OwnerFrame
<1>3. GcTypes' /\ ReaderTypes'
  BY <1>g, <1>2 DEF GcTypes, ReaderTypes
<1>4. HeadInv'
  <2>1. ASSUME NEW p \in Addr
        PROVE  /\ mem'[p].header.unpinDepth = IF mem'[p].header.pin = "none" THEN 0 ELSE SharedDepth
               /\ mem'[p].header.fwd => mem'[p].header = FwdHeader
    <3>1. mem[p].header.fwd => mem[p].header = FwdHeader
      BY <1>g DEF HeadInv
    <3>2. p = Root => ~mem[p].header.fwd
      BY <1>g DEF HeadInv
    <3> QED
      BY <1>1, <3>1, <3>2 DEF OwnerHeader, Live
  <2>2. ASSUME NEW p \in {Root, Roots}
        PROVE  /\ mem'[p].header.pin = "none" /\ ~mem'[p].header.fwd /\ ~mem'[p].header.mark
               /\ mem'[p].space = "outside"
    <3>1. p \in Addr /\ p \notin Own
      BY AddrFacts
    <3>2. mem[p].header.pin = "none" /\ ~mem[p].header.fwd /\ ~mem[p].header.mark /\ mem[p].space = "outside"
      BY <1>g DEF HeadInv
    <3>3. OwnerHeader(p)
      BY <1>1, <3>1
    <3>4. mem'[p].header.pin = mem[p].header.pin
      BY <3>1, <3>3 DEF OwnerHeader
    <3> QED
      BY <3>2, <3>3, <3>4 DEF OwnerHeader
  <2>3. ASSUME NEW p \in Own
        PROVE  /\ mem'[p].space # "outside"
               /\ mem'[p].header.pin # "none" => mem'[p].space \in {"from", "pinned", "to"}
               /\ mem'[p].space = "pinned" => mem'[p].header.pin # "none"
               /\ mem'[p].header.mark => /\ mem'[p].space = "pinned" /\ mem'[p].header.pin = "any"
                                        /\ Remembered(p, NULL) \in toRemSet'
               /\ mem'[p].header.fwd => mem'[p].space \in {"from", "retired"}
               /\ mem'[p].space \in {"none", "freed"} => mem'[p].header = Plain
               /\ ~(mem'[p].space \in {"pinned", "to"})
    <3>1. p \in Addr /\ OwnerHeader(p) /\ p # Root
      BY <1>1, OwnFacts
    <3>2. /\ mem[p].space # "outside"
          /\ mem[p].header.pin # "none" => mem[p].space \in {"from", "pinned", "to"}
          /\ ~mem[p].header.mark
          /\ mem[p].header.fwd => mem[p].space \in {"from", "retired"}
          /\ mem[p].space \in {"none", "freed"} => mem[p].header = Plain
          /\ ~(mem[p].space \in {"pinned", "to"})
      BY <1>g, <1>2 DEF HeadInv
    <3> QED
      BY <3>1, <3>2 DEF OwnerHeader, Live
  <2> QED
    BY <2>1, <2>2, <2>3 DEF HeadInv
<1>5. FwdInv'
  <2>1. \A p \in Own : mem'[p].space = mem[p].space /\ mem'[p].header.fwd = mem[p].header.fwd
    BY <1>1, OwnFacts DEF OwnerHeader
  <2>2. \A p \in Own : ~(mem[p].space = "from" /\ mem[p].header.fwd)
    BY <1>g, <1>2 DEF FwdInv, Marking, Copying
  <2> QED
    BY <2>1, <2>2 DEF FwdInv
<1>6. VersInv'
  <2>1. \A p \in Own : mem'[p].space = mem[p].space /\ mem'[p].header.fwd = mem[p].header.fwd
    BY <1>1, OwnFacts DEF OwnerHeader
  <2> QED
    BY <1>g, <1>2, <2>1 DEF VersInv
<1>7. ScanInv' /\ VisitedInv'
  BY <1>2 DEF ScanInv, VisitedInv, Marking, Copying
<1>8. WorkInv'
  <2>1. gc.work = {} /\ gc.slot = NULL
    BY <1>g, <1>2 DEF WorkInv
  <2>2. \A x \in Own \union {Root, Roots}, f \in LocalFields \union {NULL} : Slot(x, f) # NULL
    BY AddrFacts DEF Slot, SlotsOf
  <2> QED
    BY <1>2, <2>1, <2>2 DEF WorkInv, Slot
<1>9. OpInv'
  BY <1>2 DEF OpInv, Marking
<1>10. HeldInv'
  <2>1. ASSUME NEW p \in held PROVE isPinned(p)' /\ (isMutable(p)' => mem'[p].header.suspect)
    <3>1. p \in Addr /\ isPinned(p) /\ (isMutable(p) => mem[p].header.suspect)
      BY <1>g, OwnFacts DEF ReaderTypes, HeldInv
    <3> QED
      BY <1>1, <1>g, <3>1, OwnerSame DEF OwnerHeader, isMutable
  <2>2. ASSUME NEW S \in SUBSET held, S # {}
        PROVE  \E q \in S, x \in (held \ S) \union {Root}, f \in LocalFields : Names(x, f, q)'
    <3>1. PICK q \in S, x \in (held \ S) \union {Root}, f \in LocalFields : Names(x, f, q)
      BY <1>g, <2>2 DEF HeldInv
    <3>2. q \in Own /\ x \in Addr /\ x # Roots
      BY <1>g, AddrFacts DEF ReaderTypes
    <3> QED
      BY <1>g, <3>1, <3>2, OwnerSame
  <2> QED
    BY <1>2, <2>1, <2>2 DEF HeldInv
<1>11. BarrierInv'
  <2>1. ASSUME NEW p \in Own, reader.ptr = p
        PROVE  /\ \E x \in held \union {Root}, f \in LocalFields :
                    reader.slot = Slot(x, f) /\ x[1] \in Mutable /\ Names(x, f, p)'
               /\ \E q \in Own : LeadsTo(p, q)'
               /\ reader.pc = "entangle" =>
                    /\ Top.pc = "fields" => p[1] \notin Mutable
                    /\ Top.pc \in {"remember", "finish"} =>
                         \E q \in Own : Top.new = q /\ LeadsTo(p, q)' /\ isPinned(q)'
    <3>1. PICK x \in held \union {Root}, f \in LocalFields :
            reader.slot = Slot(x, f) /\ x[1] \in Mutable /\ Names(x, f, p)
      BY <1>g, <2>1 DEF BarrierInv
    <3>2. x \in Addr /\ x # Roots
      BY <1>g, AddrFacts DEF ReaderTypes
    <3>3. Names(x, f, p)'
      BY <1>g, <3>1, <3>2, OwnerSame
    <3>4. /\ \E q \in Own : LeadsTo(p, q)
          /\ reader.pc = "entangle" =>
               /\ Top.pc = "fields" => p[1] \notin Mutable
               /\ Top.pc \in {"remember", "finish"} =>
                    \E q \in Own : Top.new = q /\ LeadsTo(p, q) /\ isPinned(q)
      BY <1>g, <2>1 DEF BarrierInv
    <3>5. \A q \in Own : (LeadsTo(p, q)' <=> LeadsTo(p, q)) /\ (isPinned(q) => isPinned(q)')
      BY <1>g, OwnerSame, OwnFacts
    <3> QED
      BY <3>1, <3>3, <3>4, <3>5
  <2>2. Top' = Top
    BY <1>2 DEF Top
  <2> QED
    BY <1>g, <1>2, <2>1, <2>2 DEF BarrierInv, Slot
<1> QED
  BY <1>2, <1>3, <1>4, <1>5, <1>6, <1>7, <1>8, <1>9, <1>10, <1>11 DEF LocalInv, GcInv, ReaderInv

SetField(x, f, v) == [mem EXCEPT ![x].field[f] = v]

\* A field is written, and nothing else.
LEMMA FieldSet ==
  ASSUME MemTypes, NEW x \in Addr, NEW f \in LocalFields, NEW v \in Own \union {NULL}, mem' = SetField(x, f, v)
  PROVE  /\ MemTypes'
         /\ \A p \in Addr : /\ mem'[p].header = mem[p].header /\ mem'[p].space = mem[p].space
                            /\ mem'[p].retire = mem[p].retire
         /\ \A p \in Addr, g \in LocalFields :
              mem'[p].field[g] = IF p = x /\ g = f THEN v ELSE mem[p].field[g]
         /\ \A p \in Addr : p # x => mem'[p] = mem[p]
BY DEF SetField, MemTypes, Chunk

\* A field that the owner's program sets.
LEMMA SetFieldFrame ==
  ASSUME LocalInv, NEW x \in Addr, NEW f \in LocalFields, NEW v \in Own \union {NULL}, mem' = SetField(x, f, v),
         x = Roots \/ mem[x].field[f] = NULL, gc.pc = "idle",
         UNCHANGED <<gc, reader, held, toRemSet, suspects, counts>>
  PROVE  OwnerFrame
<1>1. /\ MemTypes'
      /\ \A p \in Addr : /\ mem'[p].header = mem[p].header /\ mem'[p].space = mem[p].space
                         /\ mem'[p].retire = mem[p].retire
      /\ \A p \in Addr, g \in LocalFields :
           mem'[p].field[g] = IF p = x /\ g = f THEN v ELSE mem[p].field[g]
  BY FieldSet DEF LocalInv, GcInv
<1>2. \A p \in Addr : OwnerHeader(p)
  BY <1>1 DEF OwnerHeader, LocalInv, GcInv, HeadInv
<1>3. \A p \in Addr, g \in LocalFields : OwnerField(p, g)
  BY <1>1 DEF OwnerField
<1> QED
  BY <1>1, <1>2, <1>3 DEF OwnerFrame

\* What the owner has on its stack
LEMMA StackFacts ==
  ASSUME LocalInv, gc.pc = "idle", NEW x \in OnStack
  PROVE  x \in Own /\ x \in Addr /\ Live(x) /\ mem[x].space = "from"
<1>1. PICK f \in LocalFields : mem[Roots].field[f] = x /\ x # NULL
  BY DEF OnStack
<1>2. x \in Own
  BY <1>1, AddrFacts, MemFacts DEF LocalInv, GcInv
<1>3. Live(Roots)
  BY AddrFacts DEF LocalInv, GcInv, HeadInv, Live
<1>4. Good(x)
  BY <1>1, <1>2, <1>3, AddrFacts DEF LocalInv, GcInv, FieldInv
<1> QED
  BY <1>2, <1>4, IdleFacts, OwnFacts

\* The stack of the owner changes.
LEMMA StackSet ==
  ASSUME LocalInv, OwnerRuns, NEW f \in LocalFields, NEW v \in Own \union {NULL}, mem' = SetField(Roots, f, v),
         v # NULL => f \in FieldNames[Stack] /\ Live(v),
         UNCHANGED <<depth, shape, remSet, toRemSet, suspects, gc, localWrite, reader, held, counts>>
  PROVE  LocalInv'
<1>g. /\ GcTypes /\ OwnerTypes /\ MemTypes /\ DepthInv /\ HeadInv /\ FieldInv /\ WriteInv /\ RootInv
      /\ ReaderTypes /\ PinInv
  BY DEF LocalInv, GcInv, ReaderInv
<1>1. OwnerFrame /\ gc.pc = "idle" /\ localWrite = NULL
  BY SetFieldFrame, AddrFacts DEF OwnerRuns
<1>2. /\ \A p \in Addr : /\ mem'[p].header = mem[p].header /\ mem'[p].space = mem[p].space
                         /\ mem'[p].retire = mem[p].retire
      /\ \A p \in Addr, g \in LocalFields :
           mem'[p].field[g] = IF p = Roots /\ g = f THEN v ELSE mem[p].field[g]
  BY <1>g, FieldSet, AddrFacts
<1>3. OwnerTypes' /\ DepthInv'
  BY <1>g DEF OwnerTypes, DepthInv, InGc
<1>4. FieldInv'
  <2> SUFFICES ASSUME NEW p \in Addr, NEW g \in LocalFields, NEW t \in Own, mem'[p].field[g] = t
               PROVE  /\ g \in FieldNames[p[1]] /\ p[1] \in Mutable \union {Stack}
                      /\ Live(p)' => Good(t)'
    BY DEF FieldInv
  <2>1. CASE p = Roots /\ g = f
    <3>1. t = v
      BY <1>2, <2>1
    <3> QED
      BY <2>1, <3>1, <1>g, <1>1, OwnerSame, OwnFacts, AddrFacts DEF Good
  <2>2. CASE ~(p = Roots /\ g = f)
    <3>1. mem[p].field[g] = t
      BY <1>2, <2>2
    <3> QED
      BY <3>1, <1>g, <1>1, OwnerSame, OwnFacts DEF FieldInv
  <2> QED
    BY <2>1, <2>2
<1>5. WriteInv'
  <2>1. \A w \in LocalWrites : localWrite # w
    BY <1>1, AddrFacts
  <2> QED
    BY <1>1, <2>1 DEF WriteInv
<1>6. \A t \in Own : /\ RootTarget(t)' <=> RootTarget(t)
                     /\ WriteTarget(t)' <=> WriteTarget(t)
                     /\ isPinned(t)' <=> isPinned(t)
                     /\ Ending(t)' <=> Ending(t)
                     /\ mem'[t].header = mem[t].header /\ mem'[t].space = mem[t].space
  <2>1. \A g \in LocalFields : mem'[Root].field[g] = mem[Root].field[g]
    BY <1>2, AddrFacts
  <2>2. \A t \in Own : mem'[t].header = mem[t].header /\ mem'[t].space = mem[t].space
    BY <1>2, OwnFacts
  <2> QED
    BY <2>1, <2>2 DEF RootTarget, WriteTarget, isPinned, header, Ending, Top
<1>7. RootInv'
  <2>1. \A e \in remSet \union toRemSet : e.object \in Own
    BY <1>g DEF OwnerTypes, Entries
  <2>2. mem'[Root].header = mem[Root].header
    BY <1>2, AddrFacts
  <2> QED
    BY <1>g, <1>1, <1>6, <2>1, <2>2 DEF RootInv, Remembered, Marking
<1>8. PinInv'
  BY <1>g, <1>6 DEF PinInv
<1> QED
  BY <1>1, <1>3, <1>4, <1>5, <1>7, <1>8, OwnerKeeps

\* LoadField preserves the invariant.
LEMMA LoadFieldKeeps ==
  ASSUME LocalInv, NEW i \in LocalFields, NEW x \in OnStack, NEW f \in LocalFields, LoadField(i, x, f)
  PROVE  LocalInv'
<1>1. OwnerRuns /\ gc.pc = "idle"
  BY DEF LoadField, OwnerRuns
<1>2. x \in Own /\ x \in Addr /\ Live(x)
  BY <1>1, StackFacts
<1>3. PICK t \in Own : mem[x].field[f] = t
  BY <1>2, MemFacts DEF LocalInv, GcInv, LoadField
<1>4. Live(t)
  BY <1>1, <1>2, <1>3, IdleFacts DEF LocalInv, GcInv, FieldInv
<1>5. mem' = SetField(Roots, i, t) /\ i \in FieldNames[Stack]
  BY <1>3 DEF LoadField, SetField
<1> QED
  BY <1>1, <1>4, <1>5, StackSet DEF LoadField

\* Forget preserves the invariant.
LEMMA ForgetKeeps ==
  ASSUME LocalInv, NEW i \in LocalFields, Forget(i)
  PROVE  LocalInv'
<1>1. OwnerRuns /\ mem' = SetField(Roots, i, NULL)
  BY DEF Forget, SetField
<1> QED
  BY <1>1, StackSet DEF Forget

(* A header is pinned, and the shared object is made a suspect.            *)
SetPinAndSuspect(q, h) == [mem EXCEPT ![q].header = h, ![Root].header.suspect = TRUE]

\* The target of a down-pointer is pinned, and the object becomes a suspect.
LEMMA PinAndSuspectSet ==
  ASSUME MemTypes, NEW q \in Own, NEW h \in Header, mem' = SetPinAndSuspect(q, h)
  PROVE  /\ MemTypes'
         /\ \A p \in Addr : p # q /\ p # Root => mem'[p] = mem[p]
         /\ \A p \in Addr : /\ mem'[p].space = mem[p].space /\ mem'[p].field = mem[p].field
                            /\ mem'[p].retire = mem[p].retire
         /\ mem'[q].header = h
         /\ mem'[Root].header.suspect
         /\ mem'[Root].header.fwd = mem[Root].header.fwd /\ mem'[Root].header.mark = mem[Root].header.mark
         /\ mem'[Root].header.pin = mem[Root].header.pin
         /\ mem'[Root].header.unpinDepth = mem[Root].header.unpinDepth
<1>0. q \in Addr /\ Root \in Addr /\ q # Root
  BY OwnFacts, AddrFacts
<1>1. PICK c \in Chunk : c = [mem[q] EXCEPT !.header = h]
  BY <1>0 DEF MemTypes, Chunk
<1>2. mem[Root] \in Chunk /\ mem[Root].header \in Header
  BY <1>0, MemFacts
<1>3. PICK k \in Header : k = [mem[Root].header EXCEPT !.suspect = TRUE]
  BY <1>2 DEF Header
<1>4. PICK r \in Chunk : r = [mem[Root] EXCEPT !.header = k]
  BY <1>2 DEF Chunk
<1>5. r = [mem[Root] EXCEPT !.header.suspect = TRUE]
  BY <1>3, <1>4
<1>6. mem' = [mem EXCEPT ![q] = c, ![Root] = r]
  BY <1>0, <1>1, <1>5 DEF SetPinAndSuspect, MemTypes
<1>7. MemTypes' /\ mem'[q] = c /\ mem'[Root] = r /\ \A p \in Addr : p # q /\ p # Root => mem'[p] = mem[p]
  BY <1>0, <1>6 DEF MemTypes
<1>8. c.header = h /\ c.space = mem[q].space /\ c.field = mem[q].field /\ c.retire = mem[q].retire
  BY <1>0, <1>1 DEF MemTypes, Chunk
<1>9. r.header = k /\ r.space = mem[Root].space /\ r.field = mem[Root].field /\ r.retire = mem[Root].retire
  BY <1>2, <1>4 DEF Chunk
<1>10. k.suspect /\ k.fwd = mem[Root].header.fwd /\ k.mark = mem[Root].header.mark
       /\ k.pin = mem[Root].header.pin /\ k.unpinDepth = mem[Root].header.unpinDepth
  BY <1>2, <1>3 DEF Header
<1> QED
  BY <1>7, <1>8, <1>9, <1>10

\* WriteBarrier preserves the invariant.
LEMMA WriteBarrierKeeps ==
  ASSUME LocalInv, NEW dst \in OnStack \union {Root}, NEW src \in OnStack \union {NULL}, NEW f \in LocalFields,
         WriteBarrier(dst, f, src)
  PROVE  LocalInv'
<1>g. /\ GcTypes /\ OwnerTypes /\ MemTypes /\ DepthInv /\ HeadInv /\ FieldInv /\ WriteInv /\ RootInv
      /\ ReaderTypes /\ PinInv
  BY DEF LocalInv, GcInv, ReaderInv
<1>1. OwnerRuns /\ gc.pc = "idle" /\ localWrite = NULL
  BY DEF WriteBarrier, OwnerRuns
<1>2. mem[dst].field[f] = NULL /\ src # NULL
  BY <1>g DEF WriteBarrier, DepthInv, IsPlain
<1>3. src \in Own /\ src \in Addr /\ Live(src) /\ mem[src].space = "from"
  BY <1>1, <1>2, StackFacts
<1>4. dst \in Own \union {Root} /\ dst \in Addr /\ Live(dst) /\ dst[1] \in Mutable /\ f \in FieldNames[dst[1]]
  <2>1. CASE dst = Root
    BY <1>g, <2>1, AddrFacts DEF HeadInv, Live, WriteBarrier
  <2>2. CASE dst \in OnStack
    BY <1>1, <2>2, StackFacts DEF WriteBarrier, isMutable
  <2> QED
    BY <2>1, <2>2
<1>5. PICK w \in LocalWrites : localWrite' = w /\ w = [dst |-> dst, f |-> f, src |-> src]
  BY <1>3, <1>4 DEF WriteBarrier, LocalWrites
<1>6. w.dst = dst /\ w.f = f /\ w.src = src /\ w # NULL
  BY <1>5, AddrFacts
<1>7. /\ UNCHANGED <<depth, shape, toRemSet, gc, reader, held>>
      /\ counts' = [counts EXCEPT !.writes = @ + 1]
  BY DEF WriteBarrier
<1>8. counts' \in [collections : 0 .. MaxLocalCollections, writes : Nat]
      /\ counts'.collections = counts.collections
  BY <1>g, <1>7 DEF OwnerTypes
<1>9. DepthInv'
  BY <1>g, <1>7 DEF DepthInv, InGc
<1>10. \A t \in Own : ~WriteTarget(t) /\ (WriteTarget(t)' <=> dst = Root /\ t = src)
  BY <1>1, <1>5, <1>6 DEF WriteTarget
<1>11. toRemSet = {}
  BY <1>g, <1>1 DEF RootInv
<1>12. CASE dst = Root
  <2>1. opDepth(dst) = SharedDepth /\ IsDownPointer(src, dst)
    BY <1>g, <1>2, <1>3, <1>12, DepthFacts DEF IsDownPointer, SharedDepth, MaxDepth
  <2>2. PICK h : h = Pinned(mem[src].header, SharedDepth, "down")
    OBVIOUS
  <2>3. PinnedHeader(mem[src].header)
    BY <1>g, <1>3, MemFacts DEF PinnedHeader, HeadInv
  <2>4. /\ h \in Header
        /\ h.pin = IF mem[src].header.pin = "any" THEN "any" ELSE "down"
        /\ h.pin # "none" /\ h.unpinDepth = SharedDepth
        /\ h.fwd = mem[src].header.fwd /\ h.mark = mem[src].header.mark /\ h.suspect = mem[src].header.suspect
    BY <2>2, <2>3, PinnedFacts
  <2>5. PICK e : e = Remembered(src, Root)
    OBVIOUS
  <2>6. e \in Entries /\ e.object = src /\ e.from = Root
    BY <1>3, <2>5 DEF Remembered, Entries
  <2>7. /\ mem' = SetPinAndSuspect(src, h) /\ remSet' = remSet \union {e} /\ suspects' = suspects
    BY <1>12, <2>1, <2>2, <2>4, <2>5 DEF WriteBarrier, SetPinAndSuspect, header, SharedDepth
  <2>8. /\ MemTypes'
        /\ \A p \in Addr : p # src /\ p # Root => mem'[p] = mem[p]
        /\ \A p \in Addr : /\ mem'[p].space = mem[p].space /\ mem'[p].field = mem[p].field
                           /\ mem'[p].retire = mem[p].retire
        /\ mem'[src].header = h
        /\ mem'[Root].header.suspect
        /\ mem'[Root].header.fwd = mem[Root].header.fwd /\ mem'[Root].header.mark = mem[Root].header.mark
        /\ mem'[Root].header.pin = mem[Root].header.pin
        /\ mem'[Root].header.unpinDepth = mem[Root].header.unpinDepth
    BY <1>g, <1>3, <2>4, <2>7, PinAndSuspectSet
  <2>9. \A p \in Addr : OwnerHeader(p)
    <3>1. OwnerHeader(src)
      BY <1>3, <2>4, <2>8, <2>3 DEF OwnerHeader, PinnedHeader, Header
    <3>2. OwnerHeader(Root)
      BY <1>g, AddrFacts, <2>8 DEF OwnerHeader, HeadInv
    <3>3. ASSUME NEW p \in Addr, p # src, p # Root PROVE OwnerHeader(p)
      <4>1. mem'[p] = mem[p]
        BY <2>8, <3>3
      <4> QED
        BY <1>g, <4>1 DEF OwnerHeader, HeadInv
    <3> QED
      BY <3>1, <3>2, <3>3
  <2>10. OwnerFrame
    BY <1>1, <1>7, <1>8, <2>7, <2>8, <2>9 DEF OwnerFrame, OwnerField
  <2>11. OwnerTypes'
    BY <1>g, <1>5, <1>7, <1>8, <2>6, <2>7 DEF OwnerTypes
  <2>12. FieldInv'
    <3> SUFFICES ASSUME NEW p \in Addr, NEW g \in LocalFields, NEW t \in Own, mem'[p].field[g] = t
                 PROVE  /\ g \in FieldNames[p[1]] /\ p[1] \in Mutable \union {Stack}
                        /\ Live(p)' => Good(t)'
      BY DEF FieldInv
    <3>1. mem[p].field[g] = t
      BY <2>8
    <3> QED
      BY <3>1, <1>g, <2>10, OwnerSame, OwnFacts DEF FieldInv
  <2>13. WriteInv'
    <3>1. Live(dst)' /\ Live(src)' /\ mem'[dst].field[f] = NULL
      BY <1>g, <1>2, <1>3, <1>4, <2>8, <2>10, OwnerSame
    <3> QED
      BY <1>1, <1>4, <1>5, <1>6, <1>7, <3>1 DEF WriteInv
  <2>14. \A t \in Own : RootTarget(t)' <=> RootTarget(t)
    BY <2>8, AddrFacts DEF RootTarget
  <2>15. RootInv'
    <3>1. ASSUME NEW d \in remSet' PROVE isPinned(d.object)'
      <4>1. CASE d = e
        BY <4>1, <2>4, <2>6, <2>8 DEF isPinned, header
      <4>2. CASE d \in remSet
        <5>1. isPinned(d.object) /\ d.object \in Addr
          BY <1>g, <4>2, OwnFacts DEF RootInv, OwnerTypes, Entries
        <5> QED
          BY <1>g, <2>10, <5>1, OwnerSame
      <4> QED
        BY <2>7, <3>1, <4>1, <4>2
    <3>2. ASSUME NEW t \in Own, RootTarget(t)' \/ WriteTarget(t)'
          PROVE  /\ mem'[Root].header.suspect
                 /\ isPinned(t)' /\ mem'[t].space \in {"from", "pinned"}
                 /\ Remembered(t, Root) \in remSet'
      <4>1. CASE t = src
        BY <4>1, <2>4, <2>5, <2>7, <2>8, <1>3 DEF isPinned, header
      <4>2. CASE t # src
        <5>1. RootTarget(t)
          BY <1>10, <2>14, <3>2, <4>2
        <5>2. isPinned(t) /\ mem[t].space \in {"from", "pinned"} /\ Remembered(t, Root) \in remSet
          BY <1>g, <1>1, <1>11, <5>1 DEF RootInv
        <5> QED
          BY <1>g, <2>7, <2>8, <2>10, <5>2, OwnerSame, OwnFacts
      <4> QED
        BY <4>1, <4>2
    <3> QED
      BY <1>1, <1>7, <1>11, <3>1, <3>2 DEF RootInv, Remembered, Marking
  <2>16. PinInv'
    <3> SUFFICES ASSUME NEW p \in Own
                 PROVE  /\ isPinned(p)' => RootTarget(p)' \/ WriteTarget(p)' \/ p \in held' \/ Ending(p)'
                        /\ mem'[p].header.pin = "down" => RootTarget(p)' \/ WriteTarget(p)'
      BY DEF PinInv
    <3>1. CASE p = src
      BY <1>10, <1>12, <3>1
    <3>2. CASE p # src
      <4>1. mem'[p] = mem[p]
        BY <2>8, <3>2, OwnFacts
      <4>2. Ending(p)' <=> Ending(p)
        BY <1>7 DEF Ending, Top
      <4> QED
        BY <1>g, <1>7, <1>10, <2>14, <4>1, <4>2 DEF PinInv, isPinned, header
    <3> QED
      BY <3>1, <3>2
  <2> QED
    BY <1>9, <2>10, <2>11, <2>12, <2>13, <2>15, <2>16, OwnerKeeps
<1>13. CASE dst # Root
  <2>1. dst \in Own
    BY <1>4, <1>13
  <2>2. opDepth(src) <= opDepth(dst) /\ opDepth(src) \in Nat /\ opDepth(dst) \in Nat
    <3>1. dst[1] \in LocalObjects \intersect Mutable /\ src[1] \in LocalObjects
      BY <1>3, <1>4, <2>1, OwnFacts
    <3>2. depth[src[1]] <= depth[dst[1]]
      BY <1>g, <3>1 DEF DepthInv
    <3> QED
      BY <1>g, <1>3, <2>1, <3>2, DepthFacts DEF opDepth, MaxDepth
  <2>3. ~IsDownPointer(src, dst)
    BY <2>2 DEF IsDownPointer
  <2>4. UNCHANGED <<mem, remSet, suspects>>
    BY <2>3 DEF WriteBarrier
  <2>5. \A p \in Addr : OwnerHeader(p)
    BY <1>g, <2>4 DEF OwnerHeader, HeadInv
  <2>6. OwnerFrame
    BY <1>g, <1>1, <1>7, <1>8, <2>4, <2>5 DEF OwnerFrame, OwnerField, MemTypes
  <2>7. OwnerTypes'
    BY <1>g, <1>5, <1>7, <1>8, <2>4 DEF OwnerTypes
  <2>8. FieldInv'
    BY <1>g, <2>4 DEF FieldInv, Live, Good
  <2>9. WriteInv'
    <3>1. Live(dst)' /\ Live(src)' /\ mem'[dst].field[f] = NULL
      BY <1>2, <1>3, <1>4, <2>4 DEF Live
    <3> QED
      BY <1>1, <1>4, <1>5, <1>6, <1>7, <3>1 DEF WriteInv
  <2>10. \A t \in Own : (RootTarget(t)' <=> RootTarget(t)) /\ ~WriteTarget(t)' /\ (isPinned(t)' <=> isPinned(t))
                        /\ (Ending(t)' <=> Ending(t))
    BY <1>7, <1>10, <1>13, <2>4 DEF RootTarget, isPinned, header, Ending, Top
  <2>11. RootInv'
    <3>1. \A d \in remSet : d.object \in Own
      BY <1>g DEF OwnerTypes, Entries
    <3> QED
      BY <1>g, <1>1, <1>7, <1>11, <2>4, <2>10, <3>1 DEF RootInv, Remembered, Marking
  <2>12. PinInv'
    BY <1>g, <1>7, <1>10, <2>4, <2>10 DEF PinInv
  <2> QED
    BY <1>9, <2>6, <2>7, <2>8, <2>9, <2>11, <2>12, OwnerKeeps
<1> QED
  BY <1>12, <1>13

\* StoreField preserves the invariant.
LEMMA StoreFieldKeeps ==
  ASSUME LocalInv, StoreField
  PROVE  LocalInv'
<1>g. /\ GcTypes /\ OwnerTypes /\ MemTypes /\ DepthInv /\ HeadInv /\ FieldInv /\ WriteInv /\ RootInv
      /\ ReaderTypes /\ PinInv
  BY DEF LocalInv, GcInv, ReaderInv
<1>1. PICK w \in LocalWrites : localWrite = w
  BY <1>g DEF OwnerTypes, StoreField
<1>2. /\ Live(w.dst) /\ Live(w.src) /\ w.f \in FieldNames[w.dst[1]] /\ w.dst[1] \in Mutable
      /\ mem[w.dst].field[w.f] = NULL /\ gc.pc = "idle" /\ w # NULL
  BY <1>g, <1>1, AddrFacts DEF WriteInv
<1>3. PICK x, f, v : x = w.dst /\ f = w.f /\ v = w.src
  OBVIOUS
<1>4. x \in Own \union {Root} /\ x \in Addr /\ f \in LocalFields /\ v \in Own /\ v \in Addr
  BY <1>3, AddrFacts, OwnFacts DEF LocalWrites
<1>5. mem' = SetField(x, f, v) /\ localWrite' = NULL
      /\ UNCHANGED <<depth, shape, remSet, toRemSet, suspects, gc, reader, held, counts>>
  BY <1>1, <1>3 DEF StoreField, SetField
<1>6. OwnerFrame
  BY <1>2, <1>3, <1>4, <1>5, SetFieldFrame
<1>7. /\ \A p \in Addr : /\ mem'[p].header = mem[p].header /\ mem'[p].space = mem[p].space
                         /\ mem'[p].retire = mem[p].retire
      /\ \A p \in Addr, g \in LocalFields :
           mem'[p].field[g] = IF p = x /\ g = f THEN v ELSE mem[p].field[g]
  BY <1>g, <1>4, <1>5, FieldSet
<1>8. OwnerTypes' /\ DepthInv'
  BY <1>g, <1>5 DEF OwnerTypes, DepthInv, InGc
<1>9. FieldInv'
  <2> SUFFICES ASSUME NEW p \in Addr, NEW g \in LocalFields, NEW t \in Own, mem'[p].field[g] = t
               PROVE  /\ g \in FieldNames[p[1]] /\ p[1] \in Mutable \union {Stack}
                      /\ Live(p)' => Good(t)'
    BY DEF FieldInv
  <2>1. CASE p = x /\ g = f
    <3>1. t = v
      BY <1>7, <2>1
    <3> QED
      BY <1>2, <1>3, <1>4, <2>1, <3>1, <1>g, <1>6, OwnerSame DEF Good
  <2>2. CASE ~(p = x /\ g = f)
    <3>1. mem[p].field[g] = t
      BY <1>7, <2>2
    <3> QED
      BY <3>1, <1>g, <1>6, OwnerSame, OwnFacts DEF FieldInv
  <2> QED
    BY <2>1, <2>2
<1>10. WriteInv'
  <2>1. \A u \in LocalWrites : localWrite' # u
    BY <1>5, AddrFacts
  <2> QED
    BY <1>5, <2>1 DEF WriteInv
<1>11. \A t \in Own : /\ RootTarget(t)' <=> RootTarget(t) \/ (x = Root /\ t = v)
                      /\ WriteTarget(t) <=> x = Root /\ t = v
                      /\ ~WriteTarget(t)'
                      /\ isPinned(t)' <=> isPinned(t)
                      /\ Ending(t)' <=> Ending(t)
                      /\ mem'[t].header = mem[t].header /\ mem'[t].space = mem[t].space
  <2>1. \A g \in LocalFields : mem'[Root].field[g] = IF Root = x /\ g = f THEN v ELSE mem[Root].field[g]
    BY <1>7, AddrFacts
  <2>2. \A t \in Own : mem'[t].header = mem[t].header /\ mem'[t].space = mem[t].space
    BY <1>7, OwnFacts
  <2>3. ASSUME NEW t \in Own PROVE RootTarget(t)' <=> RootTarget(t) \/ (x = Root /\ t = v)
    <3>1. RootTarget(t) => RootTarget(t)'
      BY <1>g, <1>6, OwnerSame
    <3>2. x = Root /\ t = v => RootTarget(t)'
      BY <1>4, <2>1 DEF RootTarget
    <3>3. RootTarget(t)' => RootTarget(t) \/ (x = Root /\ t = v)
      BY <2>1 DEF RootTarget
    <3> QED
      BY <3>1, <3>2, <3>3
  <2>4. \A t \in Own : WriteTarget(t) <=> x = Root /\ t = v
    BY <1>1, <1>2, <1>3 DEF WriteTarget
  <2>5. \A t \in Own : ~WriteTarget(t)'
    BY <1>5 DEF WriteTarget
  <2>6. \A t \in Own : (isPinned(t)' <=> isPinned(t)) /\ (Ending(t)' <=> Ending(t))
    BY <1>5, <2>2 DEF isPinned, header, Ending, Top
  <2> QED
    BY <2>2, <2>3, <2>4, <2>5, <2>6
<1>12. RootInv'
  <2>1. \A e \in remSet \union toRemSet : e.object \in Own
    BY <1>g DEF OwnerTypes, Entries
  <2>2. mem'[Root].header = mem[Root].header
    BY <1>7, AddrFacts
  <2>3. \A t \in Own : RootTarget(t)' \/ WriteTarget(t)' => RootTarget(t) \/ WriteTarget(t)
    BY <1>11
  <2> QED
    BY <1>g, <1>2, <1>5, <1>11, <2>1, <2>2, <2>3 DEF RootInv, Remembered, Marking
<1>13. PinInv'
  BY <1>g, <1>5, <1>11 DEF PinInv
<1> QED
  BY <1>6, <1>8, <1>9, <1>10, <1>12, <1>13, OwnerKeeps

\* JoinLevel preserves the invariant.
LEMMA JoinLevelKeeps ==
  ASSUME LocalInv, JoinLevel
  PROVE  LocalInv'
<1>g. /\ GcTypes /\ OwnerTypes /\ MemTypes /\ DepthInv /\ HeadInv /\ FieldInv /\ WriteInv /\ RootInv
      /\ ReaderTypes /\ PinInv
  BY DEF LocalInv, GcInv, ReaderInv
<1>1. gc.pc = "idle" /\ localWrite = NULL
  BY DEF JoinLevel, OwnerRuns
<1>2. /\ depth' = [o \in DOMAIN depth |-> Min({depth[o], MaxDepth - 1})]
      /\ UNCHANGED <<mem, shape, remSet, toRemSet, suspects, gc, localWrite, reader, held, counts>>
  BY DEF JoinLevel
<1>3. \A o \in LocalObjects \union {Shared, Stack} : depth[o] \in 1 .. MaxDepth
  BY <1>g DEF DepthInv
<1>4. DOMAIN depth = LocalObjects \union {Shared, Stack}
  BY <1>g DEF DepthInv
<1>5. \A o \in LocalObjects \union {Shared, Stack} :
        depth'[o] = IF depth[o] <= MaxDepth - 1 THEN depth[o] ELSE MaxDepth - 1
  BY <1>2, <1>3, <1>4, MinOfTwo DEF MaxDepth
<1>6. depth' \in [LocalObjects \union {Shared, Stack} -> 1 .. MaxDepth]
  BY <1>2, <1>3, <1>4, <1>5 DEF MaxDepth
<1>7. DepthInv'
  <2>1. \A o \in LocalObjects : depth'[o] > SharedDepth
    BY <1>g, <1>5, <1>3 DEF DepthInv, SharedDepth, MaxDepth
  <2>2. depth'[Shared] = SharedDepth /\ depth'[Stack] = SharedDepth
    BY <1>g, <1>5, <1>3 DEF DepthInv, SharedDepth, MaxDepth
  <2>3. \A o \in LocalObjects \intersect Mutable : \A x \in LocalObjects : depth'[x] <= depth'[o]
    BY <1>g, <1>5, <1>3 DEF DepthInv, MaxDepth
  <2> QED
    BY <1>g, <1>1, <1>2, <1>6, <2>1, <2>2, <2>3 DEF DepthInv, InGc
<1>8. \A p \in Addr : OwnerHeader(p)
  BY <1>g, <1>2 DEF OwnerHeader, HeadInv
<1>9. OwnerFrame
  BY <1>g, <1>1, <1>2, <1>8 DEF OwnerFrame, OwnerField, MemTypes
<1>10. OwnerTypes' /\ FieldInv' /\ WriteInv'
  BY <1>g, <1>2 DEF OwnerTypes, FieldInv, Live, Good, WriteInv
<1>11. \A t \in Own : (RootTarget(t)' <=> RootTarget(t)) /\ (WriteTarget(t)' <=> WriteTarget(t))
                      /\ (isPinned(t)' <=> isPinned(t)) /\ (Ending(t)' <=> Ending(t))
  BY <1>2 DEF RootTarget, WriteTarget, isPinned, header, Ending, Top
<1>12. RootInv'
  <2>1. \A d \in remSet : d.object \in Own
    BY <1>g DEF OwnerTypes, Entries
  <2> QED
    BY <1>g, <1>1, <1>2, <1>11, <2>1 DEF RootInv, Remembered, Marking
<1>13. PinInv'
  BY <1>g, <1>2, <1>11 DEF PinInv
<1> QED
  BY <1>7, <1>9, <1>10, <1>12, <1>13, OwnerKeeps

\* The owner preserves the invariant; it has no suspects to clear.
LEMMA OwnerStepKeeps ==
  ASSUME LocalInv, Owner
  PROVE  LocalInv'
<1>1. ASSUME NEW f \in LocalFields, Forget(f) PROVE LocalInv'
  BY <1>1, ForgetKeeps
<1>2. ASSUME NEW f \in LocalFields, NEW i \in LocalFields, NEW x \in OnStack, LoadField(i, x, f) PROVE LocalInv'
  BY <1>2, LoadFieldKeeps
<1>3. ASSUME NEW f \in LocalFields, NEW dst \in OnStack \union {Root}, NEW src \in OnStack \union {NULL},
             WriteBarrier(dst, f, src)
      PROVE  LocalInv'
  BY <1>3, WriteBarrierKeeps
<1>4. CASE StoreField
  BY <1>4, StoreFieldKeeps
<1>5. CASE JoinLevel
  BY <1>5, JoinLevelKeeps
<1>6. ~ \E p \in suspects : ClearSuspect(p)
  BY DEF LocalInv, GcInv, OwnerTypes
<1> QED
  BY <1>1, <1>2, <1>3, <1>4, <1>5, <1>6 DEF Owner

(* What the steps of the collector do to what the reader has: nothing but  *)
(* that pointers lead to the copies.                                       *)
CollectorRest == UNCHANGED <<depth, shape, suspects, reader, held, localWrite>>
SameName(v, w) == (v = NULL <=> w = NULL) /\ (w # NULL => v[1] = w[1])
CollectorPins ==
  /\ mem'[Root] = mem[Root]
  /\ \A p \in Own : isPinned(p)' <=> isPinned(p)
  /\ \A p \in Own : isPinned(p) => /\ mem'[p].header.pin = mem[p].header.pin
                                   /\ mem'[p].header.suspect = mem[p].header.suspect
  /\ \A p \in Own, f \in LocalFields : isPinned(p) => SameName(mem'[p].field[f], mem[p].field[f])
CollectorLeads ==
  \A p, q \in Own : reader.ptr = p /\ LeadsTo(p, q) =>
    /\ \E r \in Own : LeadsTo(p, r)'
    /\ isPinned(q) => LeadsTo(p, q)'

\* What named a held object does so after a step of the collector.
LEMMA CollectorNames ==
  ASSUME CollectorPins, HeldInv, ReaderTypes, MemTypes,
         NEW x \in held \union {Root}, NEW f \in LocalFields, NEW q \in Own, Names(x, f, q)
  PROVE  Names(x, f, q)'
<1>1. CASE x = Root
  BY <1>1 DEF CollectorPins, Names
<1>2. CASE x \in held
  <2>1. x \in Own /\ isPinned(x)
    BY <1>2 DEF HeldInv, ReaderTypes
  <2>2. SameName(mem'[x].field[f], mem[x].field[f])
    BY <2>1 DEF CollectorPins
  <2> QED
    BY <2>2 DEF SameName, Names
<1> QED
  BY <1>1, <1>2

\* The reader's part of the invariant, under a step of the collector.
LEMMA CollectorKeepsReader ==
  ASSUME CollectorRest, CollectorPins, CollectorLeads,
         MemTypes, ReaderTypes, PinInv, HeldInv, BarrierInv
  PROVE  ReaderTypes' /\ PinInv' /\ HeldInv' /\ BarrierInv'
<1>1. UNCHANGED <<reader, held, localWrite>> /\ Top' = Top
  BY DEF CollectorRest, Top
<1>2. ReaderTypes'
  BY <1>1 DEF ReaderTypes
<1>3. PinInv'
  <2>1. \A p \in Own : /\ RootTarget(p)' <=> RootTarget(p)
                       /\ WriteTarget(p)' <=> WriteTarget(p)
                       /\ Ending(p)' <=> Ending(p)
    BY <1>1 DEF RootTarget, WriteTarget, Ending, CollectorPins
  <2>2. \A p \in Own : /\ isPinned(p)' <=> isPinned(p)
                       /\ mem'[p].header.pin = "down" => mem[p].header.pin = "down"
    BY DEF CollectorPins, isPinned, header
  <2> QED
    BY <1>1, <2>1, <2>2 DEF PinInv
<1>4. HeldInv'
  <2>1. \A p \in held : isPinned(p)' /\ (isMutable(p)' => mem'[p].header.suspect)
    BY DEF HeldInv, CollectorPins, ReaderTypes, isMutable
  <2>2. ASSUME NEW S \in SUBSET held, S # {}
        PROVE  \E q \in S, x \in (held \ S) \union {Root}, f \in LocalFields : Names(x, f, q)'
    <3>1. PICK q \in S, x \in (held \ S) \union {Root}, f \in LocalFields : Names(x, f, q)
      BY <2>2 DEF HeldInv
    <3>2. q \in Own /\ x \in held \union {Root}
      BY DEF ReaderTypes
    <3> QED
      BY <3>1, <3>2, CollectorNames
  <2> QED
    BY <1>1, <2>1, <2>2 DEF HeldInv
<1>5. BarrierInv'
  <2>1. ASSUME NEW p \in Own, reader.ptr = p
        PROVE  /\ \E x \in held \union {Root}, f \in LocalFields :
                    reader.slot = Slot(x, f) /\ x[1] \in Mutable /\ Names(x, f, p)'
               /\ \E q \in Own : LeadsTo(p, q)'
               /\ reader.pc = "entangle" =>
                    /\ Top.pc = "fields" => p[1] \notin Mutable
                    /\ Top.pc \in {"remember", "finish"} =>
                         \E q \in Own : Top.new = q /\ LeadsTo(p, q)' /\ isPinned(q)'
    <3>1. PICK x \in held \union {Root}, f \in LocalFields :
            reader.slot = Slot(x, f) /\ x[1] \in Mutable /\ Names(x, f, p)
      BY <2>1 DEF BarrierInv
    <3>2. Names(x, f, p)'
      BY <3>1, CollectorNames
    <3>3. /\ \E q \in Own : LeadsTo(p, q)
          /\ reader.pc = "entangle" =>
               /\ Top.pc = "fields" => p[1] \notin Mutable
               /\ Top.pc \in {"remember", "finish"} =>
                    \E q \in Own : Top.new = q /\ LeadsTo(p, q) /\ isPinned(q)
      BY <2>1 DEF BarrierInv
    <3>4. \A q \in Own : LeadsTo(p, q) =>
            (\E r \in Own : LeadsTo(p, r)') /\ (isPinned(q) => LeadsTo(p, q)' /\ isPinned(q)')
      BY <2>1 DEF CollectorLeads, CollectorPins
    <3> QED
      BY <3>1, <3>2, <3>3, <3>4
  <2> QED
    BY <1>1, <2>1 DEF BarrierInv, Slot
<1> QED
  BY <1>2, <1>3, <1>4, <1>5

(* A step in a collection that moves nothing.                              *)
Quiet ==
  /\ CollectorRest /\ UNCHANGED counts
  /\ gc.pc # "idle" /\ gc'.pc # "idle" /\ gc'.minDepth = gc.minDepth
  /\ gc'.pc \in Marking \union Copying \union {"free"}
  /\ gc'.pc \in Marking => gc.pc \in Marking
  /\ gc'.pc \in Copying => gc.pc \in Marking \union Copying
  /\ toRemSet \subseteq toRemSet'

\* What such a step keeps.
LEMMA QuietKeeps ==
  ASSUME LocalInv, Quiet, mem' = mem
  PROVE  /\ MemTypes' /\ DepthInv' /\ HeadInv' /\ FwdInv' /\ VersInv' /\ FieldInv' /\ WriteInv'
         /\ ReaderTypes' /\ PinInv' /\ HeldInv' /\ BarrierInv'
         /\ \A p \in Addr : (Live(p)' <=> Live(p)) /\ (Visited(p)' <=> Visited(p)) /\ (Scoped(p)' <=> Scoped(p))
         /\ \A p \in Own : (RootTarget(p)' <=> RootTarget(p)) /\ (WriteTarget(p)' <=> WriteTarget(p))
         /\ \A p, q \in Own : LeadsTo(p, q)' <=> LeadsTo(p, q)
         /\ \A Z \in SUBSET Own : KnownTo(Z)' <=> KnownTo(Z)
<1>g. /\ MemTypes /\ DepthInv /\ HeadInv /\ FwdInv /\ VersInv /\ FieldInv /\ WriteInv
      /\ ReaderTypes /\ PinInv /\ HeldInv /\ BarrierInv
  BY DEF LocalInv, GcInv, ReaderInv
<1>1. /\ UNCHANGED <<depth, shape, reader, held, localWrite, counts>> /\ mem' = mem
      /\ gc'.minDepth = gc.minDepth
  BY DEF Quiet, CollectorRest
<1>2. MemTypes' /\ FieldInv'
  BY <1>g, <1>1 DEF MemTypes, FieldInv, Good, Live
<1>3. DepthInv'
  BY <1>g, <1>1 DEF DepthInv, InGc, Quiet
<1>4. HeadInv'
  BY <1>g, <1>1 DEF HeadInv, Quiet
<1>5. FwdInv' /\ VersInv'
  <2>1. FwdInv'
    BY <1>g, <1>1 DEF FwdInv, Quiet, getFwdPtr
  <2>2. VersInv'
    BY <1>g, <1>1 DEF VersInv, Quiet
  <2> QED
    BY <2>1, <2>2
<1>6. WriteInv'
  <2>1. localWrite = NULL
    BY <1>g DEF WriteInv, Quiet
  <2>2. \A w \in LocalWrites : w # NULL
    BY AddrFacts
  <2> QED
    BY <1>1, <2>1, <2>2 DEF WriteInv
<1>7. /\ \A p \in Addr : (Live(p)' <=> Live(p)) /\ (Visited(p)' <=> Visited(p)) /\ (Scoped(p)' <=> Scoped(p))
      /\ \A p \in Own : (RootTarget(p)' <=> RootTarget(p)) /\ (WriteTarget(p)' <=> WriteTarget(p))
      /\ \A p, q \in Own : LeadsTo(p, q)' <=> LeadsTo(p, q)
  BY <1>1 DEF Live, Visited, Scoped, RootTarget, WriteTarget, LeadsTo
<1>8. CollectorPins
  BY <1>1 DEF CollectorPins, SameName, isPinned, header
<1>9. CollectorLeads
  BY <1>7 DEF CollectorLeads
<1>10. ReaderTypes' /\ PinInv' /\ HeldInv' /\ BarrierInv'
  BY <1>g, <1>8, <1>9, CollectorKeepsReader DEF Quiet
<1>11. ASSUME NEW Z \in SUBSET Own PROVE KnownTo(Z)' <=> KnownTo(Z)
  BY <1>1, <1>7, OwnFacts DEF KnownTo, isPinned, header, Visited, Scoped, LeadsTo, Live, getFwdPtr
<1> QED
  BY <1>2, <1>3, <1>4, <1>5, <1>6, <1>7, <1>10, <1>11

\* The two phases of a collection.
LEMMA PcFacts ==
  /\ \A pc \in Marking : pc \notin Copying /\ pc \notin {"idle", "free", "unmark"}
  /\ \A pc \in Copying : pc \notin Marking /\ pc \notin {"idle", "free", "unmark"}
BY DEF Marking, Copying

\* What is left to show of a step that moves nothing.
LEMMA QuietStep ==
  ASSUME LocalInv, Quiet, mem' = mem, GcTypes', OwnerTypes', ScanInv', WorkInv', OpInv', RootInv',
         gc'.pc \in Marking \/ gc.pc \in Copying \union {"free"}
  PROVE  LocalInv'
<1>1. VisitedInv'
  <2>1. CASE gc'.pc \in Marking
    BY <2>1, PcFacts DEF VisitedInv
  <2>2. CASE gc.pc \in Copying \union {"free"}
    <3>1. PICK Z \in SUBSET Own : KnownTo(Z)
      BY <2>2 DEF LocalInv, ReaderInv, VisitedInv
    <3>2. KnownTo(Z)'
      BY <3>1, QuietKeeps
    <3> QED
      BY <3>2 DEF VisitedInv
  <2> QED
    BY <2>1, <2>2
<1> QED
  BY <1>1, QuietKeeps DEF LocalInv, GcInv, ReaderInv

\* Of a scanned object that has been, every pointer is still to come, or done.
LEMMA QuietScan ==
  ASSUME LocalInv, Quiet, mem' = mem, gc.pc \in Marking <=> gc'.pc \in Marking,
         gc.pc \in Marking \union Copying \union {"free"}, gc.pc # "store",
         \A x \in Own \union {Roots}, f \in LocalFields, t \in Own :
           Scans(x) /\ mem[x].field[f] = t /\ (Slot(x, f) \in gc.work \/ Slot(x, f) = gc.slot) =>
             Slot(x, f) \in gc'.work \/ Slot(x, f) = gc'.slot \/ Done(t)
  PROVE  ScanInv'
<1>1. \A x \in Own \union {Roots} : Scans(x)' => Scans(x)
  BY QuietKeeps, OwnFacts, AddrFacts DEF Scans
<1>2. \A t \in Own : Done(t) => Done(t)'
  BY QuietKeeps, OwnFacts DEF Done
<1>3. \A x \in Own \union {Roots}, f \in LocalFields, t \in Own :
        Scans(x) /\ mem[x].field[f] = t => Slot(x, f) \in gc.work \/ Slot(x, f) = gc.slot \/ Done(t)
  BY DEF LocalInv, GcInv, ScanInv
<1> QED
  BY <1>1, <1>2, <1>3 DEF ScanInv, Slot

\* The parts of the collector's state.
LEMMA GcFields ==
  ASSUME GcTypes
  PROVE  /\ gc.pc \in GcPcs /\ gc.minDepth \in 2 .. MaxDepth /\ gc.level \in 2 .. MaxDepth
         /\ gc.work \subseteq SlotsOf /\ gc.entry \in Entries \union {NULL}
         /\ gc.slot \in SlotsOf \union {NULL} /\ gc.op \in Own \union {NULL}
         /\ gc.copy \in Own \union Chunk \union {NULL}
BY DEF GcTypes

\* The remembered entries.
LEMMA EntryFacts ==
  /\ \A e \in Entries : e.object \in Own /\ e.from \in {NULL, Root} /\ e # NULL
  /\ \A e \in Entries : e = Remembered(e.object, e.from)
  /\ \A p \in Own, x \in {NULL, Root} : Remembered(p, x) \in Entries
BY AddrFacts, LocalAssumption DEF Entries, Remembered

\* An entry is dropped when what it remembers has been moved, and else its
\* object is pinned for the shared heap: it is kept.
LEMMA TakeEntryKeeps ==
  ASSUME LocalInv, NEW e \in remSet, TakeEntry(e)
  PROVE  LocalInv'
<1>g. /\ GcTypes /\ OwnerTypes /\ MemTypes /\ DepthInv /\ HeadInv /\ ScanInv /\ WorkInv /\ OpInv /\ RootInv
  BY DEF LocalInv, GcInv, ReaderInv
<1>1. /\ gc.pc = "entries" /\ opDepth(e.object) = gc.level /\ remSet' = remSet \ {e}
      /\ UNCHANGED <<depth, shape, toRemSet, suspects, localWrite, reader, held, counts>>
  BY DEF TakeEntry
<1>2. e \in Entries /\ e.object \in Own /\ e.from \in {NULL, Root} /\ e # NULL /\ e = Remembered(e.object, e.from)
  BY <1>g, EntryFacts DEF OwnerTypes
<1>3. isPinned(e.object) /\ ~MayUnpin(e.object)
  <2>1. isPinned(e.object)
    BY <1>g DEF RootInv
  <2>2. mem[e.object].header.unpinDepth = SharedDepth
    BY <2>1, <1>g, <1>2, NeverUnpins
  <2> QED
    BY <2>1, <2>2, <1>g, <1>2, DepthFacts DEF MayUnpin, header, SharedDepth, MaxDepth
<1>4. /\ mem' = mem
      /\ \/ InToSpace(e.object) /\ gc' = gc
         \/ ~InToSpace(e.object) /\ gc' = [gc EXCEPT !.pc = "keep", !.entry = e]
  BY <1>3 DEF TakeEntry
<1>5. /\ gc'.pc \in {"entries", "keep"} /\ gc'.minDepth = gc.minDepth /\ gc'.level = gc.level
      /\ gc'.work = gc.work /\ gc'.slot = gc.slot /\ gc'.op = gc.op /\ gc'.copy = gc.copy
      /\ GcTypes'
  BY <1>g, <1>1, <1>2, <1>4 DEF GcTypes, GcPcs, Marking
<1>6. Quiet
  BY <1>1, <1>5 DEF Quiet, CollectorRest, Marking, Copying
<1>7. OwnerTypes'
  BY <1>g, <1>1 DEF OwnerTypes
<1>8. ScanInv'
  BY <1>1, <1>4, <1>5, <1>6, QuietScan DEF Marking
<1>9. WorkInv'
  <2>1. gc.work = {} /\ gc.slot = NULL
    BY <1>g, <1>1 DEF WorkInv
  <2>2. \A x \in Own \union {Root, Roots}, f \in LocalFields \union {NULL} : Slot(x, f) # NULL
    BY AddrFacts DEF Slot, SlotsOf
  <2> QED
    BY <1>5, <2>1, <2>2 DEF WorkInv, Slot
<1>10. OpInv'
  <2>1. gc'.pc = "keep" => gc'.entry = e
    BY <1>g, <1>1, <1>4 DEF GcTypes
  <2>2. gc'.pc = "keep" => ~InToSpace(e.object)
    BY <1>1, <1>4
  <2>3. mem[e.object].space \in {"from", "pinned", "to"} /\ Scoped(e.object)
    <3>1. mem[e.object].space \in {"from", "pinned", "to"}
      BY <1>g, <1>2, <1>3, PinnedIsLive
    <3>2. gc.minDepth <= gc.level
      BY <1>g, <1>1 DEF OpInv, Marking
    <3> QED
      BY <3>1, <3>2, <1>1 DEF Scoped, opDepth
  <2>4. ASSUME NEW u \in Entries, gc'.pc = "keep", gc'.entry = u
        PROVE  Scoped(u.object)' /\ isPinned(u.object)' /\ mem'[u.object].space \in {"from", "pinned"}
    <3>1. u = e
      BY <2>1, <2>4
    <3> QED
      BY <3>1, <2>2, <2>3, <2>4, <1>1, <1>2, <1>3, <1>4, <1>5 DEF Scoped, isPinned, header,
        InToSpace
  <2>5. gc.pc \in Marking => gc.minDepth <= gc.level
    BY <1>g DEF OpInv
  <2>6. ASSUME NEW o \in Own, gc'.op = o
        PROVE  gc'.pc \notin {"entangled", "copy", "forward", "install"}
    BY <1>5
  <2> QED
    BY <1>1, <1>2, <1>5, <2>1, <2>4, <2>5 DEF OpInv, Marking
<1>11. RootInv'
  <2>1. \A u \in remSet' \union toRemSet' : isPinned(u.object)'
    BY <1>g, <1>1, <1>4 DEF RootInv, isPinned, header
  <2>2. \A u \in remSet' : u.from = Root /\ Scoped(u.object)' => opDepth(u.object)' <= gc'.level
    BY <1>g, <1>1, <1>4, <1>5 DEF RootInv, Scoped, opDepth, Marking
  <2>3. ASSUME NEW t \in Own, RootTarget(t) \/ WriteTarget(t)
        PROVE  /\ mem[Root].header.suspect
               /\ isPinned(t) /\ mem[t].space \in {"from", "pinned"}
               /\ Remembered(t, Root) = e => gc'.pc = "keep" /\ gc'.entry = e
               /\ Remembered(t, Root) \in remSet \/ Remembered(t, Root) \in toRemSet
               /\ Scoped(t) => Remembered(t, Root) \in remSet \/ Visited(t)
    <3>1. /\ mem[Root].header.suspect
          /\ isPinned(t) /\ mem[t].space \in {"from", "pinned"}
          /\ Remembered(t, Root) \in remSet \/ Remembered(t, Root) \in toRemSet
          /\ Scoped(t) => Remembered(t, Root) \in remSet \/ Visited(t)
      BY <1>g, <1>1, <2>3 DEF RootInv, Marking
    <3>2. Remembered(t, Root) = e => e.object = t
      BY DEF Remembered
    <3>3. Remembered(t, Root) = e => ~InToSpace(e.object)
      BY <3>1, <3>2 DEF InToSpace
    <3>4. Remembered(t, Root) = e => gc' = [gc EXCEPT !.pc = "keep", !.entry = e]
      BY <3>3, <1>4
    <3>5. Remembered(t, Root) = e => gc'.pc = "keep" /\ gc'.entry = e
      BY <3>4, <1>g DEF GcTypes
    <3> QED
      BY <3>1, <3>5
  <2>4. \A t \in Own : /\ RootTarget(t)' <=> RootTarget(t)
                       /\ WriteTarget(t)' <=> WriteTarget(t)
                       /\ Scoped(t)' <=> Scoped(t)
                       /\ Visited(t)' <=> Visited(t)
                       /\ isPinned(t)' <=> isPinned(t)
    BY <1>1, <1>4, <1>5, OwnFacts DEF RootTarget, WriteTarget, Scoped, Visited, isPinned, header
  <2>5. ASSUME NEW t \in Own, RootTarget(t)' \/ WriteTarget(t)'
        PROVE  /\ mem'[Root].header.suspect
               /\ isPinned(t)' /\ mem'[t].space \in {"from", "pinned"}
               /\ \/ Remembered(t, Root) \in remSet' \/ Remembered(t, Root) \in toRemSet'
                  \/ gc'.pc = "keep" /\ gc'.entry = Remembered(t, Root)
               /\ Scoped(t)' =>
                    \/ Remembered(t, Root) \in remSet' \/ (gc'.pc = "keep" /\ gc'.entry = Remembered(t, Root))
                    \/ Visited(t)'
    BY <2>3, <2>4, <2>5, <1>1, <1>4
  <2> QED
    BY <1>5, <2>1, <2>2, <2>5 DEF RootInv, Remembered
<1> QED
  BY <1>4, <1>5, <1>6, <1>7, <1>8, <1>9, <1>10, <1>11, QuietStep DEF Marking

\* An entry from the shared object is not from deeper than its object's pin.
LEMMA KeepEntryKeeps ==
  ASSUME LocalInv, KeepEntry
  PROVE  LocalInv'
<1>g. /\ GcTypes /\ OwnerTypes /\ MemTypes /\ DepthInv /\ HeadInv /\ ScanInv /\ WorkInv /\ OpInv /\ RootInv
  BY DEF LocalInv, GcInv, ReaderInv
<1>1. /\ gc.pc = "keep" /\ mem' = mem
      /\ UNCHANGED <<depth, shape, remSet, suspects, localWrite, reader, held, counts>>
  BY DEF KeepEntry
<1>2. PICK e \in Entries : gc.entry = e
  BY <1>g, <1>1 DEF GcTypes, OpInv
<1>3. /\ e.object \in Own /\ e.from \in {NULL, Root} /\ e = Remembered(e.object, e.from)
      /\ Scoped(e.object) /\ isPinned(e.object) /\ mem[e.object].space \in {"from", "pinned"}
  BY <1>g, <1>1, <1>2, EntryFacts DEF OpInv
<1>4. ~IsFromDeeper(e)
  <2>1. mem[e.object].header.unpinDepth = SharedDepth
    BY <1>g, <1>3, NeverUnpins
  <2> QED
    BY <2>1, <1>g, <1>3, DepthFacts DEF IsFromDeeper, header, SharedDepth
<1>5. /\ gc' = [gc EXCEPT !.pc = "entangled", !.op = e.object, !.entry = NULL]
      /\ toRemSet' = IF e.from = NULL THEN toRemSet ELSE toRemSet \union {e}
  BY <1>2, <1>4 DEF KeepEntry
<1>6. /\ gc'.pc = "entangled" /\ gc'.minDepth = gc.minDepth /\ gc'.level = gc.level
      /\ gc'.work = gc.work /\ gc'.slot = gc.slot /\ gc'.op = e.object /\ gc'.copy = gc.copy
      /\ GcTypes'
  BY <1>g, <1>3, <1>5 DEF GcTypes, GcPcs, Marking
<1>7. Quiet
  BY <1>1, <1>5, <1>6 DEF Quiet, CollectorRest, Marking, Copying
<1>8. OwnerTypes'
  BY <1>g, <1>1, <1>5 DEF OwnerTypes
<1>w. gc.work = {} /\ gc.slot = NULL /\ gc'.work = {} /\ gc'.slot = NULL
  BY <1>g, <1>1, <1>6 DEF WorkInv
<1>9. ScanInv'
  BY <1>1, <1>6, <1>7, QuietScan DEF Marking
<1>10. WorkInv'
  <2>2. \A x \in Own \union {Root, Roots}, f \in LocalFields \union {NULL} : Slot(x, f) # NULL
    BY AddrFacts DEF Slot, SlotsOf
  <2> QED
    BY <1>w, <2>2 DEF WorkInv, Slot
<1>11. OpInv'
  <2>1. ~mem[e.object].header.fwd
    BY <1>g, <1>3, PinnedIsLive
  <2>2. gc.minDepth <= gc.level
    BY <1>g, <1>1 DEF OpInv, Marking
  <2>3. ASSUME NEW o \in Own, gc'.op = o
        PROVE  Scoped(o)' /\ mem'[o].space \in {"from", "pinned"} /\ ~mem'[o].header.fwd /\ isPinned(o)'
    <3>1. o = e.object
      BY <1>6, <2>3
    <3> QED
      BY <3>1, <2>1, <1>1, <1>3, <1>6 DEF Scoped, isPinned, header
  <2>4. gc'.op # NULL
    BY <1>3, <1>6, OwnFacts
  <2> QED
    BY <1>6, <1>w, <2>2, <2>3, <2>4 DEF OpInv, Marking
<1>12. RootInv'
  <2>1. \A u \in remSet' \union toRemSet' : isPinned(u.object)'
    BY <1>g, <1>1, <1>3, <1>5 DEF RootInv, isPinned, header
  <2>2. \A u \in remSet' : u.from = Root /\ Scoped(u.object)' => opDepth(u.object)' <= gc'.level
    BY <1>g, <1>1, <1>6 DEF RootInv, Scoped, opDepth, Marking
  <2>3. \A t \in Own : /\ RootTarget(t)' <=> RootTarget(t)
                       /\ WriteTarget(t)' <=> WriteTarget(t)
                       /\ Scoped(t)' <=> Scoped(t)
                       /\ Visited(t)' <=> Visited(t)
                       /\ isPinned(t)' <=> isPinned(t)
    BY <1>1, <1>6, OwnFacts DEF RootTarget, WriteTarget, Scoped, Visited, isPinned, header
  <2>4. ASSUME NEW t \in Own, RootTarget(t) \/ WriteTarget(t)
        PROVE  /\ mem[Root].header.suspect
               /\ isPinned(t) /\ mem[t].space \in {"from", "pinned"}
               /\ Remembered(t, Root) \in remSet' \/ Remembered(t, Root) \in toRemSet'
               /\ Scoped(t) => Remembered(t, Root) \in remSet' \/ Visited(t) \/ gc'.op = t
    <3>1. /\ mem[Root].header.suspect
          /\ isPinned(t) /\ mem[t].space \in {"from", "pinned"}
          /\ Remembered(t, Root) \in remSet \/ Remembered(t, Root) \in toRemSet \/ e = Remembered(t, Root)
          /\ Scoped(t) => Remembered(t, Root) \in remSet \/ e = Remembered(t, Root) \/ Visited(t)
      BY <1>g, <1>1, <1>2, <2>4 DEF RootInv, Marking
    <3>2. e = Remembered(t, Root) => e.object = t /\ e.from = Root
      BY DEF Remembered
    <3>3. Root # NULL
      BY AddrFacts
    <3> QED
      BY <3>1, <3>2, <3>3, <1>1, <1>5, <1>6
  <2> QED
    BY <1>1, <1>6, <2>1, <2>2, <2>3, <2>4 DEF RootInv, Remembered
<1> QED
  BY <1>1, <1>6, <1>7, <1>8, <1>9, <1>10, <1>11, <1>12, QuietStep DEF Marking

\* What is remembered for the shared object, when the sets stay what they are.
LEMMA QuietRoot ==
  ASSUME LocalInv, Quiet, mem' = mem, UNCHANGED <<remSet, toRemSet>>, gc.pc \notin {"keep", "entangled"},
         gc'.pc \in Marking =>
           \A e \in remSet : e.from = Root /\ Scoped(e.object) => opDepth(e.object) <= gc'.level
  PROVE  RootInv' /\ OwnerTypes'
<1>g. GcTypes /\ OwnerTypes /\ MemTypes /\ RootInv
  BY DEF LocalInv, GcInv, ReaderInv
<1>1. /\ UNCHANGED <<depth, localWrite, suspects, counts>> /\ gc'.minDepth = gc.minDepth
      /\ gc'.pc # "idle" /\ (gc'.pc \in Marking => gc.pc \in Marking)
  BY DEF Quiet, CollectorRest
<1>2. \A t \in Own : /\ RootTarget(t)' <=> RootTarget(t)
                     /\ WriteTarget(t)' <=> WriteTarget(t)
                     /\ Scoped(t)' <=> Scoped(t)
                     /\ Visited(t)' <=> Visited(t)
                     /\ isPinned(t)' <=> isPinned(t)
  BY <1>1, OwnFacts DEF RootTarget, WriteTarget, Scoped, Visited, isPinned, header
<1>3. \A u \in remSet' \union toRemSet' : isPinned(u.object)'
  BY <1>g DEF RootInv, isPinned, header
<1>4. gc'.pc \in Marking => \A u \in remSet' : u.from = Root /\ Scoped(u.object)' => opDepth(u.object)' <= gc'.level
  BY <1>1 DEF Scoped, opDepth
<1>5. ASSUME NEW t \in Own, RootTarget(t) \/ WriteTarget(t)
      PROVE  /\ mem[Root].header.suspect
             /\ isPinned(t) /\ mem[t].space \in {"from", "pinned"}
             /\ Remembered(t, Root) \in remSet \/ Remembered(t, Root) \in toRemSet
             /\ gc'.pc \in Marking /\ Scoped(t) => Remembered(t, Root) \in remSet \/ Visited(t)
  BY <1>g, <1>1, <1>5 DEF RootInv
<1>6. RootInv'
  BY <1>1, <1>2, <1>3, <1>4, <1>5 DEF RootInv, Remembered
<1> QED
  BY <1>g, <1>1, <1>6 DEF OwnerTypes

\* A slot is an object and a field.
LEMMA SlotIsNotNull ==
  \A x \in Own \union {Root, Roots}, f \in LocalFields \union {NULL} :
    /\ Slot(x, f) # NULL /\ Slot(x, f) \in SlotsOf /\ Slot(x, f).at = x /\ Slot(x, f).f = f
BY AddrFacts DEF Slot, SlotsOf

\* ... and is given by these.
LEMMA SameSlot ==
  ASSUME NEW x, NEW f, NEW y, NEW g, Slot(x, f) = Slot(y, g)
  PROVE  x = y /\ f = g
<1>1. Slot(x, f).at = x /\ Slot(x, f).f = f /\ Slot(y, g).at = y /\ Slot(y, g).f = g
  BY DEF Slot
<1> QED
  BY <1>1

\* The slots that the collector still has to look at.
LEMMA WorkSlot ==
  ASSUME GcTypes, WorkInv, NEW slot \in gc.work
  PROVE  \E x \in Own \union {Root, Roots}, f \in LocalFields \union {NULL} :
           /\ slot = Slot(x, f) /\ slot.at = x /\ slot.f = f
           /\ \/ x \in Own /\ Visited(x) /\ f \in LocalFields
              \/ x = Roots /\ f \in LocalFields /\ gc.pc \in Copying
              \/ x = Root /\ f = NULL /\ gc.pc \in Copying
<1>1. slot \in SlotsOf
  BY DEF GcTypes
<1>2. PICK x \in Own \union {Root, Roots}, f \in LocalFields \union {NULL} :
        slot = Slot(x, f) /\ slot.at = x /\ slot.f = f
  BY <1>1 DEF SlotsOf, Slot
<1> QED
  BY <1>2 DEF WorkInv

\* Scanned preserves the invariant.
LEMMA ScannedKeeps ==
  ASSUME LocalInv, Scanned
  PROVE  LocalInv'
<1>g. /\ GcTypes /\ OwnerTypes /\ MemTypes /\ ScanInv /\ WorkInv /\ OpInv /\ RootInv
  BY DEF LocalInv, GcInv, ReaderInv
<1>1. /\ gc.pc = "scan" /\ gc.work = {} /\ mem' = mem
      /\ gc' = [gc EXCEPT !.pc = "entries"]
      /\ UNCHANGED <<depth, shape, remSet, toRemSet, suspects, localWrite, reader, held, counts>>
  BY DEF Scanned, Continue
<1>2. /\ gc'.pc = "entries" /\ gc'.minDepth = gc.minDepth /\ gc'.level = gc.level
      /\ gc'.work = {} /\ gc'.slot = gc.slot /\ gc'.op = gc.op /\ gc.slot = NULL
      /\ GcTypes'
  BY <1>g, <1>1 DEF GcTypes, GcPcs, Marking, WorkInv
<1>3. Quiet
  BY <1>1, <1>2 DEF Quiet, CollectorRest, Marking, Copying
<1>4. ScanInv'
  BY <1>1, <1>2, <1>3, QuietScan DEF Marking
<1>5. WorkInv'
  BY <1>2, SlotIsNotNull DEF WorkInv, Slot
<1>6. OpInv'
  BY <1>g, <1>1, <1>2 DEF OpInv, Marking
<1>7. RootInv' /\ OwnerTypes'
  BY <1>g, <1>1, <1>2, <1>3, QuietRoot DEF RootInv, Marking
<1> QED
  BY <1>1, <1>2, <1>3, <1>4, <1>5, <1>6, <1>7, QuietStep DEF Marking

\* NextLevel preserves it while there are entries of other levels.
LEMMA NextLevelUp ==
  ASSUME LocalInv, NextLevel, gc.level > gc.minDepth
  PROVE  LocalInv'
<1>g. /\ GcTypes /\ OwnerTypes /\ MemTypes /\ DepthInv /\ ScanInv /\ WorkInv /\ OpInv /\ RootInv
  BY DEF LocalInv, GcInv, ReaderInv
<1>1. /\ gc.pc = "entries" /\ mem' = mem
      /\ \A e \in remSet : opDepth(e.object) # gc.level
      /\ gc' = [gc EXCEPT !.level = @ - 1]
      /\ UNCHANGED <<depth, shape, remSet, toRemSet, suspects, localWrite, reader, held, counts>>
  BY DEF NextLevel
<1>2. /\ gc'.pc = "entries" /\ gc'.minDepth = gc.minDepth /\ gc'.level = gc.level - 1
      /\ gc'.work = gc.work /\ gc'.slot = gc.slot /\ gc'.op = gc.op
      /\ gc.level \in 2 .. MaxDepth /\ gc.minDepth \in 2 .. MaxDepth
  BY <1>g, <1>1 DEF GcTypes
<1>3. GcTypes'
  BY <1>g, <1>1, <1>2 DEF GcTypes, MaxDepth
<1>4. Quiet
  BY <1>1, <1>2 DEF Quiet, CollectorRest, Marking, Copying
<1>5. ScanInv'
  BY <1>1, <1>2, <1>4, QuietScan DEF Marking
<1>6. gc.work = {} /\ gc.slot = NULL
  BY <1>g, <1>1 DEF WorkInv
<1>7. WorkInv'
  BY <1>2, <1>6, SlotIsNotNull DEF WorkInv, Slot
<1>8. OpInv'
  BY <1>g, <1>1, <1>2 DEF OpInv, Marking, MaxDepth
<1>9. RootInv' /\ OwnerTypes'
  <2>1. ASSUME NEW e \in remSet, e.from = Root, Scoped(e.object)
        PROVE  opDepth(e.object) <= gc'.level
    <3>1. opDepth(e.object) <= gc.level /\ opDepth(e.object) # gc.level
      BY <1>g, <1>1, <2>1 DEF RootInv, Marking
    <3>2. opDepth(e.object) \in 2 .. MaxDepth
      BY <1>g, DepthFacts DEF OwnerTypes, Entries
    <3> QED
      BY <1>2, <3>1, <3>2 DEF MaxDepth
  <2> QED
    BY <1>1, <1>4, <2>1, QuietRoot
<1> QED
  BY <1>1, <1>2, <1>3, <1>4, <1>5, <1>7, <1>8, <1>9, QuietStep DEF Marking

\* An object that could not be forwarded is entangled.
LEMMA CopyFails ==
  ASSUME LocalInv, mem' = mem, isPinned(gc.op), gc.pc \in {"copy", "forward"}, NEW c \in {gc.copy, NULL},
         gc' = [gc EXCEPT !.pc = "entangled", !.copy = c],
         UNCHANGED <<depth, shape, remSet, toRemSet, suspects, localWrite, reader, held, counts>>
  PROVE  LocalInv'
<1>g. /\ GcTypes /\ OwnerTypes /\ MemTypes /\ DepthInv /\ ScanInv /\ WorkInv /\ OpInv /\ RootInv
  BY DEF LocalInv, GcInv, ReaderInv
<1>2. /\ gc'.pc = "entangled" /\ gc'.minDepth = gc.minDepth /\ gc'.level = gc.level
      /\ gc'.work = gc.work /\ gc'.slot = gc.slot /\ gc'.op = gc.op
      /\ GcTypes'
  BY <1>g DEF GcTypes, GcPcs, Marking
<1>3. PICK o \in Own : gc.op = o
  BY <1>g DEF OpInv, GcTypes
<1>4. /\ mem[o].header.pin = "any" /\ isPinned(o) /\ Scoped(o) /\ mem[o].space \in {"from", "pinned"}
      /\ ~mem[o].header.fwd
  <2>1. mem[o].header.pin # "down" /\ Scoped(o) /\ mem[o].space \in {"from", "pinned"} /\ ~mem[o].header.fwd
    BY <1>g, <1>3 DEF OpInv
  <2>2. mem[o].header.pin \in {"none", "down", "any"}
    BY <1>g, MemFacts, OwnFacts DEF Header
  <2> QED
    BY <1>3, <2>1, <2>2 DEF isPinned, header
<1>5. Quiet
  BY <1>2 DEF Quiet, CollectorRest, Marking, Copying
<1>6. ScanInv'
  BY <1>2, <1>5, QuietScan DEF Marking
<1>7. WorkInv'
  <2>1. ASSUME NEW x \in Own \union {Root, Roots}, NEW f \in LocalFields \union {NULL}, Slot(x, f) \in gc.work
        PROVE  x \in Own /\ Visited(x)' /\ f \in LocalFields
    <3>1. x \in Own /\ Visited(x) /\ f \in LocalFields
      BY <1>g, <2>1 DEF WorkInv, Copying
    <3> QED
      BY <3>1 DEF Visited
  <2>2. ASSUME NEW x \in Own \union {Root, Roots}, NEW f \in LocalFields \union {NULL}, gc.slot = Slot(x, f)
        PROVE  /\ f \in LocalFields /\ gc.op # NULL
               /\ x \in Own /\ Visited(x)'
               /\ mem'[x].field[f] = gc.op
    <3>1. /\ f \in LocalFields /\ gc.op # NULL
          /\ x \in Own /\ Visited(x)
          /\ mem[x].field[f] = gc.op
      BY <1>g, <2>2 DEF WorkInv, Copying
    <3> QED
      BY <3>1 DEF Visited
  <2> QED
    BY <1>2, <2>1, <2>2 DEF WorkInv, Slot
<1>8. OpInv'
  <2>1. gc.minDepth <= gc.level
    BY <1>g DEF OpInv, Marking
  <2>2. Scoped(o)' /\ isPinned(o)'
    BY <1>2, <1>4 DEF Scoped, isPinned, header
  <2>3. gc.op # NULL
    BY <1>3, OwnFacts
  <2> QED
    BY <1>2, <1>3, <1>4, <2>1, <2>2, <2>3 DEF OpInv, Marking
<1>9. RootInv' /\ OwnerTypes'
  BY <1>g, <1>2, <1>5, QuietRoot DEF RootInv, Marking
<1> QED
  BY <1>2, <1>5, <1>6, <1>7, <1>8, <1>9, QuietStep DEF Marking

CollectorSets == UNCHANGED <<depth, shape, remSet, toRemSet, suspects, localWrite, reader, held, counts>>

\* A pointer that needs no work.
LEMMA SlotIsDone ==
  ASSUME LocalInv, gc.pc \in {"scan", "roots"}, NEW slot \in gc.work, mem' = mem, CollectorSets,
         gc' = [gc EXCEPT !.work = @ \ {slot}],
         \A x \in Own \union {Roots}, f \in LocalFields, t \in Own :
           slot = Slot(x, f) /\ mem[x].field[f] = t => Done(t)
  PROVE  LocalInv'
<1>g. /\ GcTypes /\ OwnerTypes /\ MemTypes /\ ScanInv /\ WorkInv /\ OpInv /\ RootInv
  BY DEF LocalInv, GcInv, ReaderInv
<1>1. UNCHANGED <<depth, shape, remSet, toRemSet, suspects, localWrite, reader, held, counts>>
  BY DEF CollectorSets
<1>2. /\ gc'.pc = gc.pc /\ gc'.minDepth = gc.minDepth /\ gc'.level = gc.level
      /\ gc'.work = gc.work \ {slot} /\ gc'.slot = gc.slot /\ gc'.op = gc.op /\ gc.slot = NULL
      /\ GcTypes'
  BY <1>g DEF GcTypes, WorkInv
<1>3. Quiet
  BY <1>1, <1>2 DEF Quiet, CollectorRest, Marking, Copying
<1>4. ScanInv'
  BY <1>2, <1>3, QuietScan, SlotIsNotNull DEF Marking, Copying
<1>5. WorkInv'
  <2>1. ASSUME NEW x \in Own \union {Root, Roots}, NEW f \in LocalFields \union {NULL}, Slot(x, f) \in gc.work
        PROVE  \/ x \in Own /\ Visited(x)' /\ f \in LocalFields
               \/ x = Roots /\ f \in LocalFields /\ gc'.pc \in Copying
               \/ x = Root /\ f = NULL /\ gc'.pc \in Copying
    <3>1. \/ x \in Own /\ Visited(x) /\ f \in LocalFields
          \/ x = Roots /\ f \in LocalFields /\ gc.pc \in Copying
          \/ x = Root /\ f = NULL /\ gc.pc \in Copying
      BY <1>g, <2>1 DEF WorkInv
    <3>2. Visited(x) => Visited(x)'
      BY DEF Visited
    <3> QED
      BY <1>2, <3>1, <3>2
  <2> QED
    BY <1>2, <2>1, SlotIsNotNull DEF WorkInv, Slot
<1>6. OpInv'
  BY <1>g, <1>2 DEF OpInv, Marking
<1>7. RootInv' /\ OwnerTypes'
  BY <1>g, <1>1, <1>2, <1>3, QuietRoot DEF RootInv
<1> QED
  BY <1>2, <1>3, <1>4, <1>5, <1>6, <1>7, QuietStep DEF Marking, Copying

\* A pointer to an object that is about to be copied.
LEMMA SlotIsTaken ==
  ASSUME LocalInv, gc.pc \in {"scan", "roots"}, NEW slot \in gc.work, mem' = mem, CollectorSets,
         NEW p \in Own, p = Target(slot), Scoped(p), mem[p].space \in {"from", "pinned"}, ~mem[p].header.fwd,
         mem[p].header.pin # "down", ~mem[p].header.mark, NEW c \in Chunk,
         \/ gc.pc = "scan" /\ gc' = [gc EXCEPT !.work = @ \ {slot}, !.pc = "copy", !.slot = slot, !.op = p]
         \/ /\ gc.pc = "roots" /\ ~isPinned(p) /\ c = mem[p]
            /\ gc' = [gc EXCEPT !.work = @ \ {slot}, !.pc = "install", !.slot = slot, !.op = p, !.copy = c]
  PROVE  LocalInv'
<1>g. /\ GcTypes /\ OwnerTypes /\ MemTypes /\ DepthInv /\ HeadInv /\ ScanInv /\ WorkInv /\ OpInv /\ RootInv
  BY DEF LocalInv, GcInv, ReaderInv
<1>1. UNCHANGED <<depth, shape, remSet, toRemSet, suspects, localWrite, reader, held, counts>>
  BY DEF CollectorSets
<1>2. PICK x \in Own \union {Root, Roots}, f \in LocalFields \union {NULL} :
        /\ slot = Slot(x, f) /\ slot.at = x /\ slot.f = f
        /\ \/ x \in Own /\ Visited(x) /\ f \in LocalFields
           \/ x = Roots /\ f \in LocalFields /\ gc.pc \in Copying
           \/ x = Root /\ f = NULL /\ gc.pc \in Copying
  BY <1>g, WorkSlot
<1>3. f \in LocalFields /\ x \in Own \union {Roots} /\ mem[x].field[f] = p /\ slot \in SlotsOf
  BY <1>2, <1>g, OwnFacts, AddrFacts DEF Target, GcTypes
<1>4. gc'.pc \in GcPcs /\ c \in Own \union Chunk \union {NULL} /\ slot \in SlotsOf \union {NULL}
      /\ p \in Own \union {NULL}
  BY <1>3, <1>g DEF GcTypes, GcPcs, Marking, Copying
<1>5. GcTypes'
  <2>0. PICK w \in SUBSET SlotsOf : w = gc.work \ {slot}
    BY <1>g DEF GcTypes
  <2>3. "copy" \in GcPcs /\ "install" \in GcPcs
    BY DEF GcPcs, Marking, Copying
  <2>1. CASE gc.pc = "scan"
    <3>1. gc' = [gc EXCEPT !.work = w, !.pc = "copy", !.slot = slot, !.op = p]
      BY <2>0, <2>1
    <3> QED
      BY <3>1, <2>3, <1>4, <1>g DEF GcTypes
  <2>2. CASE gc.pc = "roots"
    <3>1. gc' = [gc EXCEPT !.work = w, !.pc = "install", !.slot = slot, !.op = p, !.copy = c]
      BY <2>0, <2>2
    <3> QED
      BY <3>1, <2>3, <1>4, <1>g DEF GcTypes
  <2> QED
    BY <2>1, <2>2
<1>6. /\ gc.pc = "scan" => gc'.pc = "copy"
      /\ gc.pc = "roots" => gc'.pc = "install" /\ ~isPinned(p) /\ gc'.copy = mem[p]
      /\ gc'.minDepth = gc.minDepth /\ gc'.level = gc.level /\ gc.slot = NULL
      /\ gc'.work = gc.work \ {slot} /\ gc'.slot = slot /\ gc'.op = p
  BY <1>g DEF GcTypes, WorkInv
<1>7. Quiet
  BY <1>1, <1>6 DEF Quiet, CollectorRest, Marking, Copying
<1>8. ScanInv'
  BY <1>6, <1>7, QuietScan, SlotIsNotNull DEF Marking, Copying
<1>9. WorkInv'
  <2>1. ASSUME NEW y \in Own \union {Root, Roots}, NEW g \in LocalFields \union {NULL}, Slot(y, g) \in gc.work
        PROVE  \/ y \in Own /\ Visited(y)' /\ g \in LocalFields
               \/ y = Roots /\ g \in LocalFields /\ gc'.pc \in Copying
               \/ y = Root /\ g = NULL /\ gc'.pc \in Copying
    <3>1. \/ y \in Own /\ Visited(y) /\ g \in LocalFields
          \/ y = Roots /\ g \in LocalFields /\ gc.pc \in Copying
          \/ y = Root /\ g = NULL /\ gc.pc \in Copying
      BY <1>g, <2>1 DEF WorkInv
    <3>2. Visited(y) => Visited(y)'
      BY DEF Visited
    <3> QED
      BY <1>6, <3>1, <3>2 DEF Copying
  <2>2. ASSUME NEW y \in Own \union {Root, Roots}, NEW g \in LocalFields \union {NULL}, slot = Slot(y, g)
        PROVE  /\ g \in LocalFields /\ p # NULL
               /\ (y \in Own /\ Visited(y)') \/ (y = Roots /\ gc'.pc \in Copying)
               /\ mem'[y].field[g] = p
    <3>1. y = x /\ g = f
      BY <1>2, <2>2, SlotIsNotNull
    <3> QED
      BY <3>1, <1>2, <1>3, <1>6, OwnFacts, AddrFacts DEF Visited, Copying
  <2> QED
    BY <1>6, <2>1, <2>2 DEF WorkInv, Slot
<1>10. OpInv'
  <2>1. gc.pc = "scan" => gc.minDepth <= gc.level
    BY <1>g DEF OpInv, Marking
  <2>2. Scoped(p)' /\ (isPinned(p)' <=> isPinned(p)) /\ p # NULL /\ slot # NULL
    BY <1>1, <1>2, <1>6, OwnFacts, SlotIsNotNull DEF Scoped, isPinned, header
  <2>3. ~isPinned(p) => /\ mem[p].space = "from" /\ mem[p].header.pin = "none"
                        /\ mem[p].header.unpinDepth = 0
    BY <1>g, OwnFacts DEF HeadInv, isPinned, header
  <2>4. gc'.pc = "install" =>
          /\ mem[p].space = "from" /\ gc'.copy \in Chunk
          /\ gc'.copy.field = mem[p].field
          /\ gc'.copy.header.pin = "none" /\ ~gc'.copy.header.fwd /\ ~gc'.copy.header.mark
          /\ gc'.copy.header.unpinDepth = 0
          /\ mem[p].header = gc'.copy.header
    BY <1>6, <2>3
  <2> QED
    BY <1>6, <2>1, <2>2, <2>4 DEF OpInv, Marking
<1>11. RootInv' /\ OwnerTypes'
  <2>1. gc'.pc \in Marking => gc.pc \in Marking
    BY <1>6 DEF Marking, Copying
  <2> QED
    BY <1>g, <1>1, <1>6, <1>7, <2>1, QuietRoot DEF RootInv
<1> QED
  BY <1>5, <1>6, <1>7, <1>8, <1>9, <1>10, <1>11, QuietStep DEF Marking, Copying

\* The copy is made, and then the compare-and-swap.
LEMMA CopyIsMade ==
  ASSUME LocalInv, gc.pc = "copy", NEW p \in Own, gc.op = p, ~isPinned(p), mem' = mem, CollectorSets,
         gc' = [gc EXCEPT !.pc = "forward", !.copy = mem[p]]
  PROVE  LocalInv'
<1>g. /\ GcTypes /\ OwnerTypes /\ MemTypes /\ DepthInv /\ HeadInv /\ ScanInv /\ WorkInv /\ OpInv /\ RootInv
  BY DEF LocalInv, GcInv, ReaderInv
<1>1. UNCHANGED <<depth, shape, remSet, toRemSet, suspects, localWrite, reader, held, counts>>
  BY DEF CollectorSets
<1>2. mem[p] \in Chunk
  BY <1>g, MemFacts, OwnFacts
<1>3. /\ gc'.pc = "forward" /\ gc'.minDepth = gc.minDepth /\ gc'.level = gc.level
      /\ gc'.work = gc.work /\ gc'.slot = gc.slot /\ gc'.op = p /\ gc'.copy = mem[p]
  BY <1>g DEF GcTypes
<1>4. GcTypes'
  <2>1. "forward" \in GcPcs
    BY DEF GcPcs, Marking
  <2>2. PICK c \in Chunk : c = mem[p]
    BY <1>2
  <2> QED
    BY <1>g, <2>1, <2>2 DEF GcTypes
<1>5. Quiet
  BY <1>1, <1>3 DEF Quiet, CollectorRest, Marking, Copying
<1>6. ScanInv'
  BY <1>3, <1>5, QuietScan DEF Marking
<1>7. WorkInv'
  <2>1. ASSUME NEW x \in Own \union {Root, Roots}, NEW f \in LocalFields \union {NULL}, Slot(x, f) \in gc.work
        PROVE  x \in Own /\ Visited(x)' /\ f \in LocalFields
    <3>1. x \in Own /\ Visited(x) /\ f \in LocalFields
      BY <1>g, <2>1 DEF WorkInv, Copying
    <3> QED
      BY <3>1 DEF Visited
  <2>2. ASSUME NEW x \in Own \union {Root, Roots}, NEW f \in LocalFields \union {NULL}, gc.slot = Slot(x, f)
        PROVE  /\ f \in LocalFields /\ gc.op # NULL
               /\ x \in Own /\ Visited(x)'
               /\ mem'[x].field[f] = gc.op
    <3>1. /\ f \in LocalFields /\ gc.op # NULL
          /\ x \in Own /\ Visited(x)
          /\ mem[x].field[f] = gc.op
      BY <1>g, <2>2 DEF WorkInv, Copying
    <3> QED
      BY <3>1 DEF Visited
  <2> QED
    BY <1>3, <2>1, <2>2 DEF WorkInv, Slot
<1>8. OpInv'
  <2>1. /\ gc.minDepth <= gc.level /\ gc.slot # NULL
        /\ Scoped(p) /\ mem[p].space \in {"from", "pinned"} /\ ~mem[p].header.fwd
        /\ mem[p].header.pin # "down" /\ ~mem[p].header.mark
    BY <1>g DEF OpInv, Marking
  <2>2. Scoped(p)' /\ p # NULL
    BY <1>1, <1>3, <2>1, OwnFacts DEF Scoped
  <2>3. /\ mem[p].space = "from" /\ mem[p].header.pin = "none"
        /\ mem[p].header.unpinDepth = 0
    BY <1>g, <2>1, OwnFacts DEF HeadInv, isPinned, header
  <2> QED
    BY <1>2, <1>3, <2>1, <2>2, <2>3 DEF OpInv, Marking
<1>9. RootInv' /\ OwnerTypes'
  BY <1>g, <1>1, <1>3, <1>5, QuietRoot DEF RootInv, Marking
<1> QED
  BY <1>3, <1>4, <1>5, <1>6, <1>7, <1>8, <1>9, QuietStep DEF Marking

\* CopySuspects preserves the invariant.
LEMMA CopySuspectsKeeps ==
  ASSUME LocalInv, CopySuspects
  PROVE  LocalInv'
<1>g. /\ GcTypes /\ OwnerTypes /\ MemTypes /\ ScanInv /\ WorkInv /\ OpInv /\ RootInv
  BY DEF LocalInv, GcInv, ReaderInv
<1>0. suspects = {}
  BY <1>g DEF OwnerTypes
<1>1. /\ gc.pc = "roots" /\ gc.work = {} /\ mem' = mem
      /\ gc' = [gc EXCEPT !.pc = "free"]
      /\ UNCHANGED <<depth, shape, remSet, toRemSet, localWrite, reader, held, counts>>
      /\ suspects' = suspects
  BY <1>0 DEF CopySuspects, Continue
<1>2. /\ gc'.pc = "free" /\ gc'.minDepth = gc.minDepth /\ gc'.level = gc.level
      /\ gc'.work = {} /\ gc'.slot = gc.slot /\ gc'.op = gc.op /\ gc.slot = NULL
      /\ GcTypes'
  BY <1>g, <1>1 DEF GcTypes, GcPcs, WorkInv
<1>3. Quiet
  BY <1>1, <1>2 DEF Quiet, CollectorRest, Marking, Copying
<1>4. ScanInv'
  BY <1>1, <1>2, <1>3, QuietScan, SlotIsNotNull DEF Marking, Copying
<1>5. WorkInv'
  BY <1>2, SlotIsNotNull DEF WorkInv, Slot
<1>6. OpInv'
  BY <1>g, <1>1, <1>2 DEF OpInv, Marking
<1>7. RootInv' /\ OwnerTypes'
  BY <1>g, <1>1, <1>2, <1>3, QuietRoot DEF RootInv, Marking
<1> QED
  BY <1>1, <1>2, <1>3, <1>4, <1>5, <1>6, <1>7, QuietStep DEF Marking, Copying

\* A collection starts with the levels that all the mutable objects are in.
LEMMA StartCollectionKeeps ==
  ASSUME LocalInv, NEW d \in 2 .. MaxDepth, StartCollection(d)
  PROVE  LocalInv'
<1>g. /\ GcTypes /\ OwnerTypes /\ MemTypes /\ DepthInv /\ HeadInv /\ FwdInv /\ VersInv /\ FieldInv
      /\ WorkInv /\ OpInv /\ WriteInv /\ RootInv
      /\ ReaderTypes /\ PinInv /\ HeldInv /\ BarrierInv
  BY DEF LocalInv, GcInv, ReaderInv
<1>1. /\ gc.pc = "idle" /\ localWrite = NULL /\ counts.collections < MaxLocalCollections /\ mem' = mem
      /\ \E o \in LocalObjects : depth[o] >= d
      /\ gc' = [IdleGC EXCEPT !.pc = "entries", !.minDepth = d]
      /\ counts' = [counts EXCEPT !.collections = @ + 1]
      /\ UNCHANGED <<depth, shape, remSet, toRemSet, suspects, localWrite, reader, held>>
  BY DEF StartCollection, OwnerRuns
<1>2. /\ gc'.pc = "entries" /\ gc'.minDepth = d /\ gc'.level = MaxDepth /\ gc'.work = {}
      /\ gc'.entry = NULL /\ gc'.slot = NULL /\ gc'.op = NULL /\ gc'.copy = NULL
      /\ gc' = [pc |-> "entries", minDepth |-> d, level |-> MaxDepth, work |-> {},
                entry |-> NULL, slot |-> NULL, op |-> NULL, copy |-> NULL]
  BY <1>1 DEF IdleGC
<1>3. GcTypes'
  BY <1>2 DEF GcTypes, GcPcs, Marking, MaxDepth
<1>4. /\ OwnerTypes' /\ counts.collections \in Nat /\ counts'.collections = counts.collections + 1
  BY <1>g, <1>1, AddrFacts DEF OwnerTypes
<1>5. MemTypes' /\ FieldInv'
  BY <1>g, <1>1 DEF MemTypes, FieldInv, Good, Live
<1>6. DepthInv'
  <2>1. ASSUME NEW o \in LocalObjects \intersect Mutable PROVE depth[o] >= d
    <3>1. PICK x \in LocalObjects : depth[x] >= d
      BY <1>1
    <3>2. depth[x] <= depth[o] /\ depth[x] \in 1 .. MaxDepth /\ depth[o] \in 1 .. MaxDepth
      BY <1>g DEF DepthInv
    <3> QED
      BY <3>1, <3>2 DEF MaxDepth
  <2> QED
    BY <1>g, <1>1, <1>2, <2>1 DEF DepthInv, InGc
<1>7. HeadInv'
  BY <1>g, <1>1 DEF HeadInv
<1>8. FwdInv'
  BY <1>g, <1>1 DEF FwdInv, Marking, Copying
<1>9. VersInv'
  <2>1. ASSUME NEW p \in Own, mem[p].space # "none"
        PROVE  p[2] < counts'.collections
    BY <1>g, <1>4, <2>1, OwnFacts DEF VersInv
  <2>2. \A p \in Own : p[2] < counts'.collections => p[2] <= counts'.collections
    BY <1>4, OwnFacts
  <2> QED
    BY <1>g, <1>1, <2>1, <2>2 DEF VersInv
<1>10. \A x \in Own : ~Visited(x)'
  BY <1>g, <1>1 DEF HeadInv, Visited
<1>11. ScanInv'
  BY <1>2, <1>10 DEF ScanInv, Scans, Marking
<1>12. WorkInv'
  BY <1>2, SlotIsNotNull DEF WorkInv, Slot
<1>13. OpInv'
  BY <1>2, OwnFacts DEF OpInv, Marking, MaxDepth
<1>14. WriteInv'
  BY <1>1, AddrFacts DEF WriteInv
<1>15. RootInv'
  <2>1. \A e \in remSet : opDepth(e.object) <= MaxDepth
    BY <1>g, DepthFacts DEF OwnerTypes, Entries, MaxDepth
  <2>2. ASSUME NEW t \in Own, RootTarget(t)' \/ WriteTarget(t)'
        PROVE  /\ mem[Root].header.suspect
               /\ isPinned(t) /\ mem[t].space \in {"from", "pinned"}
               /\ Remembered(t, Root) \in remSet
    <3>1. RootTarget(t) \/ WriteTarget(t)
      BY <1>1, <2>2 DEF RootTarget, WriteTarget
    <3> QED
      BY <1>g, <1>1, <3>1 DEF RootInv
  <2>3. \A p \in Own : isPinned(p)' <=> isPinned(p)
    BY <1>1 DEF isPinned, header
  <2>4. \A e \in remSet' \union toRemSet' : isPinned(e.object)'
    BY <1>g, <1>1 DEF RootInv, isPinned, header
  <2>5. \A e \in remSet' : opDepth(e.object)' <= gc'.level
    BY <1>1, <1>2, <2>1 DEF opDepth
  <2>6. ASSUME NEW t \in Own, RootTarget(t)' \/ WriteTarget(t)'
        PROVE  /\ mem'[Root].header.suspect
               /\ isPinned(t)' /\ mem'[t].space \in {"from", "pinned"}
               /\ Remembered(t, Root)' \in remSet'
    BY <1>1, <2>2, <2>3, <2>6 DEF Remembered
  <2> QED
    BY <1>2, <2>4, <2>5, <2>6 DEF RootInv
<1>16. CollectorRest /\ CollectorPins /\ CollectorLeads
  <2>1. CollectorRest
    BY <1>1 DEF CollectorRest
  <2>2. CollectorPins
    BY <1>1 DEF CollectorPins, SameName, isPinned, header
  <2>3. CollectorLeads
    BY <1>1 DEF CollectorLeads, LeadsTo, Live
  <2> QED
    BY <2>1, <2>2, <2>3
<1>17. ReaderTypes' /\ PinInv' /\ HeldInv' /\ BarrierInv'
  BY <1>g, <1>16, CollectorKeepsReader
<1>18. VisitedInv'
  BY <1>2 DEF VisitedInv, Copying
<1> QED
  BY <1>3, <1>4, <1>5, <1>6, <1>7, <1>8, <1>9, <1>11, <1>12, <1>13, <1>14, <1>15, <1>17, <1>18
     DEF LocalInv, GcInv, ReaderInv

\* When no level has an entry left, what the shared object points to was visited.
LEMMA RootsAreVisited ==
  ASSUME LocalInv, gc.pc = "entries", \A e \in remSet : opDepth(e.object) # gc.level, ~(gc.level > gc.minDepth),
         NEW t \in Own, RootTarget(t), Scoped(t)
  PROVE  Visited(t)
<1>g. GcTypes /\ OwnerTypes /\ DepthInv /\ OpInv /\ RootInv
  BY DEF LocalInv, GcInv
<1>1. SUFFICES ASSUME ~Visited(t) PROVE FALSE
  OBVIOUS
<1>2. Remembered(t, Root) \in remSet
  BY <1>g, <1>1 DEF RootInv, Marking
<1>3. Remembered(t, Root).from = Root /\ Remembered(t, Root).object = t
  BY DEF Remembered
<1>4. opDepth(t) <= gc.level /\ opDepth(t) # gc.level
  BY <1>g, <1>2, <1>3 DEF RootInv, Marking
<1>5. opDepth(t) >= gc.minDepth /\ opDepth(t) \in 2 .. MaxDepth
  BY <1>g, DepthFacts DEF Scoped, opDepth
<1>6. gc.level \in 2 .. MaxDepth /\ gc.minDepth \in 2 .. MaxDepth
  BY <1>g DEF GcTypes
<1> QED
  BY <1>4, <1>5, <1>6 DEF MaxDepth

\* And so was everything that they lead to, in the heaps that are collected.
LEMMA ScannedFieldIsVisited ==
  ASSUME LocalInv, gc.pc = "entries", \A e \in remSet : opDepth(e.object) # gc.level, ~(gc.level > gc.minDepth),
         NEW x \in Own, Visited(x), NEW f \in LocalFields, NEW t \in Own, mem[x].field[f] = t, Scoped(t)
  PROVE  Visited(t)
<1>g. WorkInv /\ ScanInv
  BY DEF LocalInv, GcInv
<1>1. gc.work = {} /\ gc.slot = NULL
  BY <1>g DEF WorkInv
<1>2. Scans(x)
  BY OwnFacts DEF Scans
<1>3. Done(t)
  BY <1>g, <1>1, <1>2, SlotIsNotNull DEF ScanInv, Marking
<1> QED
  BY <1>3, RootsAreVisited DEF Done

\* Two live versions are the same: what is in scope of the name, and visited.
LEMMA VisitedName ==
  ASSUME LocalInv, NEW t \in Own, NEW q \in Own, Visited(t), Live(q), t[1] = q[1]
  PROVE  t = q /\ Visited(q)
<1>1. Live(t)
  BY VisitedIsLive DEF LocalInv, GcInv
<1> QED
  BY <1>1, LiveIsOne DEF LocalInv, GcInv

\* What names an object is a pointer to one of its versions.
LEMMA NameIsOwn ==
  ASSUME LocalInv, NEW x \in Addr, NEW f \in LocalFields, NEW q \in Own, Names(x, f, q)
  PROVE  \E t \in Own : /\ mem[x].field[f] = t /\ t[1] = q[1]
                        /\ Scoped(t) <=> Scoped(q)
                        /\ x[1] \in Mutable \union {Stack}
<1>1. PICK t \in Own : mem[x].field[f] = t /\ t[1] = q[1]
  BY MemFacts DEF Names, LocalInv, GcInv
<1> QED
  BY <1>1 DEF LocalInv, GcInv, FieldInv, Scoped

\* So the remembered entries lead to all that is held and collected.
LEMMA HeldIsVisited ==
  ASSUME LocalInv, gc.pc = "entries", \A e \in remSet : opDepth(e.object) # gc.level, ~(gc.level > gc.minDepth),
         NEW h \in held, Scoped(h)
  PROVE  Visited(h)
<1>g. /\ MemTypes /\ DepthInv /\ HeadInv /\ ReaderTypes /\ HeldInv
  BY DEF LocalInv, GcInv, ReaderInv
<1> DEFINE S == {y \in held : Scoped(y) /\ ~Visited(y)}
<1>1. SUFFICES ASSUME S # {} PROVE FALSE
  OBVIOUS
<1>2. PICK q \in S, x \in (held \ S) \union {Root}, f \in LocalFields : Names(x, f, q)
  <2>1. S \in SUBSET held
    OBVIOUS
  <2> QED
    BY <1>1, <1>g, <2>1 DEF HeldInv
<1>3. q \in Own /\ q \in held /\ Scoped(q) /\ ~Visited(q) /\ Live(q)
  BY <1>g, HeldIsLive DEF ReaderTypes
<1>4. x \in Addr /\ (x = Root \/ (x \in held /\ x \in Own /\ (Scoped(x) => Visited(x))))
  BY <1>g, AddrFacts DEF ReaderTypes
<1>5. PICK t \in Own : /\ mem[x].field[f] = t /\ t[1] = q[1] /\ Scoped(t)
                       /\ x[1] \in Mutable \union {Stack}
  BY <1>2, <1>3, <1>4, NameIsOwn
<1>6. Visited(t)
  <2>1. CASE x = Root
    <3>1. RootTarget(t)
      BY <1>5, <2>1 DEF RootTarget
    <3> QED
      BY <3>1, <1>5, RootsAreVisited
  <2>2. CASE x \in held /\ x \in Own /\ (Scoped(x) => Visited(x))
    <3>1. x[1] \in LocalObjects \intersect Mutable
      BY <2>2, <1>5, OwnFacts, AddrFacts
    <3>2. Scoped(x)
      BY <3>1, <1>g DEF DepthInv, InGc, Scoped
    <3> QED
      BY <2>2, <3>2, <1>5, ScannedFieldIsVisited
  <2> QED
    BY <1>4, <2>1, <2>2
<1> QED
  BY <1>3, <1>5, <1>6, VisitedName

\* What the reader's pointer leads to
LEMMA PointerIsVisited ==
  ASSUME LocalInv, gc.pc = "entries", \A e \in remSet : opDepth(e.object) # gc.level, ~(gc.level > gc.minDepth),
         NEW p \in Own, NEW q \in Own, reader.ptr = p, LeadsTo(p, q), Scoped(q)
  PROVE  Visited(q)
<1>g. /\ MemTypes /\ DepthInv /\ HeadInv /\ ReaderTypes /\ BarrierInv
  BY DEF LocalInv, GcInv, ReaderInv
<1>1. PICK x \in held \union {Root}, f \in LocalFields : x[1] \in Mutable /\ Names(x, f, p)
  BY <1>g DEF BarrierInv
<1>2. q[1] = p[1] /\ Live(q)
  BY DEF LeadsTo
<1>3. Names(x, f, q) /\ x \in Addr /\ (x = Root \/ (x \in held /\ x \in Own))
  BY <1>1, <1>2, <1>g, AddrFacts DEF Names, ReaderTypes
<1>4. PICK t \in Own : mem[x].field[f] = t /\ t[1] = q[1] /\ Scoped(t)
  BY <1>3, NameIsOwn
<1>5. Visited(t)
  <2>1. CASE x = Root
    <3>1. RootTarget(t)
      BY <1>4, <2>1 DEF RootTarget
    <3> QED
      BY <3>1, <1>4, RootsAreVisited
  <2>2. CASE x \in held /\ x \in Own
    <3>1. x[1] \in LocalObjects \intersect Mutable
      BY <2>2, <1>1, OwnFacts, AddrFacts
    <3>2. Scoped(x)
      BY <3>1, <1>g DEF DepthInv, InGc, Scoped
    <3>3. Visited(x)
      BY <2>2, <3>2, HeldIsVisited
    <3> QED
      BY <2>2, <3>3, <1>4, ScannedFieldIsVisited
  <2> QED
    BY <1>3, <2>1, <2>2
<1> QED
  BY <1>2, <1>4, <1>5, VisitedName

\* What the collector knows when it comes to the private objects.
LEMMA VisitedIsKnown ==
  ASSUME LocalInv, gc.pc = "entries", \A e \in remSet : opDepth(e.object) # gc.level, ~(gc.level > gc.minDepth)
  PROVE  \E Z \in SUBSET Own : KnownTo(Z)
<1>g. /\ MemTypes /\ DepthInv /\ HeadInv /\ FwdInv /\ WriteInv /\ ReaderTypes /\ BarrierInv /\ PinInv
  BY DEF LocalInv, GcInv, ReaderInv
<1> DEFINE Z == {x \in Own : Visited(x)}
<1>1. ASSUME NEW q \in Own, isPinned(q), Scoped(q) PROVE Visited(q)
  <2>1. localWrite = NULL
    BY <1>g DEF WriteInv
  <2>2. RootTarget(q) \/ q \in held \/ Ending(q)
    BY <2>1, <1>1, <1>g DEF PinInv, WriteTarget
  <2>3. CASE RootTarget(q)
    BY <2>3, <1>1, RootsAreVisited
  <2>4. CASE q \in held
    BY <2>4, <1>1, HeldIsVisited
  <2>5. CASE Ending(q)
    <3>1. reader.pc = "entangle" /\ Top.pc \in {"remember", "finish"} /\ Top.new = q
      BY <2>5 DEF Ending
    <3>2. PICK p \in Own : reader.ptr = p
      BY <3>1, <1>g, TopFacts
    <3>3. LeadsTo(p, q)
      BY <3>1, <3>2, <1>g DEF BarrierInv
    <3> QED
      BY <3>2, <3>3, <1>1, PointerIsVisited
  <2> QED
    BY <2>2, <2>3, <2>4, <2>5
<1>2. ASSUME NEW x \in Z \union {Root}, NEW f \in LocalFields, NEW t \in Own, mem[x].field[f] = t, Scoped(t)
      PROVE  Visited(t)
  <2>1. CASE x = Root
    <3>1. RootTarget(t)
      BY <1>2, <2>1 DEF RootTarget
    <3> QED
      BY <3>1, <1>2, RootsAreVisited
  <2>2. CASE x \in Z
    BY <2>2, <1>2, ScannedFieldIsVisited
  <2> QED
    BY <2>1, <2>2
<1>3. ASSUME NEW p \in Own, NEW q \in Own, reader.ptr = p, LeadsTo(p, q), Scoped(q) PROVE Visited(q)
  BY <1>3, PointerIsVisited
<1>4. \A p \in Own : mem[p].space = "from" /\ mem[p].header.fwd => mem[p].retire
  BY <1>g DEF FwdInv, Marking
<1>5. KnownTo(Z)
  BY <1>1, <1>2, <1>3, <1>4 DEF KnownTo
<1>6. Z \in SUBSET Own
  OBVIOUS
<1> QED
  BY <1>5, <1>6

\* From the entangled objects to the private ones.
LEMMA NextLevelToRoots ==
  ASSUME LocalInv, NextLevel, ~(gc.level > gc.minDepth)
  PROVE  LocalInv'
<1>g. /\ GcTypes /\ OwnerTypes /\ MemTypes /\ DepthInv /\ HeadInv /\ FieldInv /\ ScanInv /\ WorkInv /\ OpInv /\ RootInv
  BY DEF LocalInv, GcInv, ReaderInv
<1> DEFINE W == Slots(Roots) \union {[at |-> e.from, f |-> NULL] : e \in {e \in toRemSet : e.from # NULL}}
<1>1. /\ gc.pc = "entries" /\ mem' = mem
      /\ \A e \in remSet : opDepth(e.object) # gc.level
      /\ gc' = [gc EXCEPT !.pc = "roots", !.work = W]
      /\ UNCHANGED <<depth, shape, remSet, toRemSet, suspects, localWrite, reader, held, counts>>
  BY DEF NextLevel
<1>2. \A s \in W : \/ \E f \in LocalFields : s = Slot(Roots, f)
                   \/ s = Slot(Root, NULL)
  <2>1. ASSUME NEW s \in Slots(Roots) PROVE \E f \in LocalFields : s = Slot(Roots, f)
    BY FieldNamesFacts, AddrFacts DEF Slots, Slot
  <2>2. ASSUME NEW e \in toRemSet, e.from # NULL PROVE e.from = Root
    BY <1>g, <2>2 DEF OwnerTypes, Entries
  <2> QED
    BY <2>1, <2>2 DEF Slot
<1>3. W \subseteq SlotsOf
  BY <1>2, SlotIsNotNull
<1>4. \A f \in LocalFields, t \in Own : mem[Roots].field[f] = t => Slot(Roots, f) \in W
  <2> SUFFICES ASSUME NEW f \in LocalFields, NEW t \in Own, mem[Roots].field[f] = t
               PROVE  Slot(Roots, f) \in Slots(Roots)
    OBVIOUS
  <2>1. f \in FieldNames[Roots[1]]
    BY <1>g, AddrFacts DEF FieldInv
  <2> QED
    BY <2>1 DEF Slots, Slot
<1> HIDE DEF W
<1>5. /\ gc'.pc = "roots" /\ gc'.minDepth = gc.minDepth /\ gc'.level = gc.level
      /\ gc'.work = W /\ gc'.slot = NULL /\ gc'.op = gc.op /\ gc.work = {} /\ gc.slot = NULL
  BY <1>g, <1>1 DEF GcTypes, WorkInv
<1>6. GcTypes'
  <2>1. "roots" \in GcPcs /\ W \in SUBSET SlotsOf
    BY <1>3 DEF GcPcs, Copying
  <2> QED
    BY <1>g, <1>1, <2>1 DEF GcTypes
<1>7. Quiet
  BY <1>1, <1>5 DEF Quiet, CollectorRest, Marking, Copying
<1>8. ScanInv'
  <2> SUFFICES ASSUME NEW x \in Own \union {Roots}, NEW f \in LocalFields, NEW t \in Own,
                      Scans(x)', mem'[x].field[f] = t
               PROVE  Slot(x, f) \in gc'.work \/ Done(t)'
    BY DEF ScanInv, Slot
  <2>1. CASE x = Roots
    BY <2>1, <1>1, <1>4, <1>5
  <2>2. CASE x \in Own
    <3>1. Visited(x)
      BY <2>2, <1>1, OwnFacts DEF Scans, Visited
    <3>2. Scoped(t) => Visited(t)
      BY <2>2, <3>1, <1>1, ScannedFieldIsVisited
    <3>3. (Visited(t)' <=> Visited(t)) /\ (Scoped(t)' <=> Scoped(t))
      BY <1>1, <1>5 DEF Visited, Scoped
    <3> QED
      BY <3>2, <3>3 DEF Done
  <2> QED
    BY <2>1, <2>2
<1>9. WorkInv'
  <2>1. ASSUME NEW x \in Own \union {Root, Roots}, NEW f \in LocalFields \union {NULL}, Slot(x, f) \in W
        PROVE  (x = Roots /\ f \in LocalFields) \/ (x = Root /\ f = NULL)
    <3>1. CASE \E g \in LocalFields : Slot(x, f) = Slot(Roots, g)
      <4>1. PICK g \in LocalFields : Slot(x, f) = Slot(Roots, g)
        BY <3>1
      <4>2. x = Roots /\ f = g
        BY <4>1, SlotIsNotNull
      <4> QED
        BY <4>2
    <3>2. CASE Slot(x, f) = Slot(Root, NULL)
      <4>1. x = Root /\ f = NULL
        BY <3>2, SlotIsNotNull
      <4> QED
        BY <4>1
    <3> QED
      BY <2>1, <1>2, <3>1, <3>2
  <2> QED
    BY <1>5, <2>1, SlotIsNotNull DEF WorkInv, Slot, Copying
<1>10. OpInv'
  BY <1>5 DEF OpInv, Marking
<1>11. RootInv' /\ OwnerTypes'
  BY <1>1, <1>5, <1>7, QuietRoot DEF Marking
<1>12. VisitedInv'
  <2>1. PICK Z \in SUBSET Own : KnownTo(Z)
    BY <1>1, VisitedIsKnown
  <2>2. KnownTo(Z)'
    BY <1>1, <1>7, <2>1, QuietKeeps
  <2> QED
    BY <2>2 DEF VisitedInv
<1> QED
  BY <1>1, <1>6, <1>7, <1>8, <1>9, <1>10, <1>11, <1>12, QuietKeeps DEF LocalInv, GcInv, ReaderInv

(* What the collector does to an object that it leaves in its place, or    *)
(* moves with its chunk, and to a field that it updates.                   *)
MovesHeader(p) ==
  /\ mem'[p].header.fwd = mem[p].header.fwd /\ mem'[p].header.pin = mem[p].header.pin
  /\ mem'[p].header.unpinDepth = mem[p].header.unpinDepth
  /\ mem'[p].header.suspect = mem[p].header.suspect
  /\ mem[p].header.mark => mem'[p].header.mark
  /\ mem'[p].header = mem[p].header \/ ~mem[p].header.fwd
MovesSpace(p) ==
  /\ mem[p].retire => mem'[p].retire
  /\ \/ mem'[p].space = mem[p].space
     \/ /\ mem[p].space = "from" /\ ~mem[p].header.fwd /\ Scoped(p)
        /\ mem'[p].space = IF mem[p].header.pin = "none" THEN "to" ELSE "pinned"
MovesMark(p) ==
  mem'[p].header.mark =>
    mem[p].header.mark \/ (mem'[p].space = "pinned" /\ mem[p].header.pin = "any" /\ Remembered(p, NULL) \in toRemSet')
Updated(p, t, n) ==
  /\ t[1] = n[1] /\ mem[n].space = "to"
  /\ gc.pc \in Copying => Scoped(t) /\ mem[t].space = "from" /\ p # Root
MovesField(p, f) ==
  \/ mem'[p].field[f] = mem[p].field[f]
  \/ \E t, n \in Own : mem[p].field[f] = t /\ mem'[p].field[f] = n /\ Updated(p, t, n)
MovesGc ==
  /\ CollectorRest /\ UNCHANGED counts /\ remSet' = remSet /\ toRemSet \subseteq toRemSet'
  /\ gc.pc \in Marking \union Copying /\ gc'.pc \in Marking \union Copying
  /\ gc.pc \in Marking <=> gc'.pc \in Marking
  /\ gc'.minDepth = gc.minDepth /\ gc'.level = gc.level
Moves ==
  /\ MovesGc /\ MemTypes'
  /\ mem'[Root] = mem[Root]
  /\ mem'[Roots].header = mem[Roots].header /\ mem'[Roots].space = mem[Roots].space
  /\ \A p \in Own : MovesHeader(p)
  /\ \A p \in Own : MovesSpace(p)
  /\ \A p \in Own : MovesMark(p)
  /\ \A p \in Own \union {Roots}, f \in LocalFields : MovesField(p, f)

\* A step that moves keeps what is live, and what the pointers lead to.
LEMMA MovesSame ==
  ASSUME Moves, MemTypes, HeadInv
  PROVE  /\ \A p \in Addr : Live(p)' <=> Live(p)
         /\ \A p \in Addr : Good(p) => Good(p)'
         /\ \A p \in Addr : isPinned(p)' <=> isPinned(p)
         /\ \A p \in Addr : Visited(p) => Visited(p)'
         /\ \A p \in Addr : Scoped(p)' <=> Scoped(p)
         /\ \A p \in Own : RootTarget(p)' <=> RootTarget(p)
         /\ \A p \in Own : WriteTarget(p)' <=> WriteTarget(p)
         /\ \A p, q \in Own : LeadsTo(p, q)' <=> LeadsTo(p, q)
         /\ \A p \in Own : Done(p) => Done(p)'
<1>1. /\ UNCHANGED <<depth, localWrite>> /\ gc'.minDepth = gc.minDepth /\ (gc.pc \in Marking <=> gc'.pc \in Marking)
      /\ mem'[Root] = mem[Root]
      /\ mem'[Roots].header = mem[Roots].header /\ mem'[Roots].space = mem[Roots].space
  BY DEF Moves, MovesGc, CollectorRest
<1>2. ASSUME NEW p \in Own
      PROVE  /\ mem'[p].header.fwd = mem[p].header.fwd /\ mem'[p].header.pin = mem[p].header.pin
             /\ \/ mem'[p].space = mem[p].space
                \/ mem[p].space = "from" /\ mem'[p].space \in {"pinned", "to"} /\ ~mem[p].header.fwd
  BY DEF Moves, MovesHeader, MovesSpace
<1>3. \A p \in Addr : Live(p)' <=> Live(p)
  BY <1>1, <1>2, AddrFacts DEF Live
<1>4. \A p \in Addr : Good(p) => Good(p)'
  BY <1>1, <1>2, <1>3, AddrFacts DEF Good
<1>5. \A p \in Addr : isPinned(p)' <=> isPinned(p)
  BY <1>1, <1>2, AddrFacts DEF isPinned, header
<1>6. \A p \in Addr : (Visited(p) => Visited(p)') /\ (Scoped(p)' <=> Scoped(p))
  BY <1>1, <1>2, AddrFacts DEF Visited, Scoped
<1>7. \A p \in Own : (RootTarget(p)' <=> RootTarget(p)) /\ (WriteTarget(p)' <=> WriteTarget(p))
  BY <1>1 DEF RootTarget, WriteTarget
<1>8. ASSUME NEW p \in Own, NEW q \in Own PROVE LeadsTo(p, q)' <=> LeadsTo(p, q)
  <2>1. Live(q)' <=> Live(q)
    BY <1>3, OwnFacts
  <2>2. \A m \in p[2] .. q[2] - 1 : <<p[1], m>> \in Own
    <3>1. \A m \in p[2] .. q[2] - 1 : m \in p[2] .. q[2]
      BY OwnFacts
    <3> QED
      BY <3>1, VersionIsOwn
  <2>3. \A m \in p[2] .. q[2] - 1 : mem'[<<p[1], m>>].header.fwd = mem[<<p[1], m>>].header.fwd
    BY <2>2, <1>2
  <2> QED
    BY <2>1, <2>3 DEF LeadsTo
<1>9. \A p \in Own : Done(p) => Done(p)'
  BY <1>1, <1>6, <1>7, OwnFacts DEF Done
<1> QED
  BY <1>3, <1>4, <1>5, <1>6, <1>7, <1>8, <1>9

\* Headers, and what was moved, under such a step,
LEMMA MovesHead ==
  ASSUME LocalInv, Moves
  PROVE  HeadInv' /\ DepthInv' /\ FwdInv' /\ VersInv' /\ WriteInv'
<1>g. MemTypes /\ DepthInv /\ HeadInv /\ FwdInv /\ VersInv /\ WriteInv /\ OwnerTypes
  BY DEF LocalInv, GcInv
<1>1. /\ UNCHANGED <<depth, shape, localWrite, counts>> /\ gc'.minDepth = gc.minDepth
      /\ (gc.pc \in Marking <=> gc'.pc \in Marking) /\ toRemSet \subseteq toRemSet'
      /\ mem'[Root] = mem[Root]
      /\ mem'[Roots].header = mem[Roots].header /\ mem'[Roots].space = mem[Roots].space
      /\ gc.pc \in Marking \union Copying /\ gc'.pc \in Marking \union Copying
      /\ gc.pc # "idle" /\ gc'.pc # "idle"
  BY PcFacts DEF Moves, MovesGc, CollectorRest
<1>m. \A p \in Own : MovesHeader(p) /\ MovesSpace(p) /\ MovesMark(p)
  BY DEF Moves
<1>2. HeadInv'
  <2>1. ASSUME NEW p \in Addr
        PROVE  /\ mem'[p].header.unpinDepth = IF mem'[p].header.pin = "none" THEN 0 ELSE SharedDepth
               /\ mem'[p].header.fwd => mem'[p].header = FwdHeader
    <3>1. /\ mem[p].header.unpinDepth = IF mem[p].header.pin = "none" THEN 0 ELSE SharedDepth
          /\ mem[p].header.fwd => mem[p].header = FwdHeader
      BY <1>g DEF HeadInv
    <3> QED
      BY <1>1, <1>m, <3>1, AddrFacts DEF MovesHeader
  <2>2. \A p \in {Root, Roots} :
          /\ mem'[p].header.pin = "none" /\ ~mem'[p].header.fwd /\ ~mem'[p].header.mark
          /\ mem'[p].space = "outside"
    BY <1>g, <1>1 DEF HeadInv
  <2>3. ASSUME NEW p \in Own
        PROVE  /\ mem'[p].space # "outside"
               /\ mem'[p].header.pin # "none" => mem'[p].space \in {"from", "pinned", "to"}
               /\ mem'[p].space = "pinned" => mem'[p].header.pin # "none"
               /\ mem'[p].header.mark => /\ mem'[p].space = "pinned" /\ mem'[p].header.pin = "any"
                                        /\ Remembered(p, NULL) \in toRemSet'
               /\ mem'[p].header.fwd => mem'[p].space \in {"from", "retired"}
               /\ mem'[p].space \in {"none", "freed"} => mem'[p].header = Plain
               /\ mem'[p].space \in {"pinned", "to"} => gc'.pc # "idle" /\ depth'[p[1]] >= gc'.minDepth
    <3>1. /\ mem[p].space # "outside"
          /\ mem[p].header.pin # "none" => mem[p].space \in {"from", "pinned", "to"}
          /\ mem[p].space = "pinned" => mem[p].header.pin # "none"
          /\ mem[p].header.mark => /\ mem[p].space = "pinned" /\ mem[p].header.pin = "any"
                                   /\ Remembered(p, NULL) \in toRemSet
          /\ mem[p].header.fwd => mem[p].space \in {"from", "retired"}
          /\ mem[p].space \in {"none", "freed"} => mem[p].header = Plain
          /\ mem[p].space \in {"pinned", "to"} => gc.pc # "idle" /\ depth[p[1]] >= gc.minDepth
      BY <1>g DEF HeadInv
    <3>2. mem'[p].space \in {"none", "freed"} => mem'[p].header = mem[p].header
      <4>1. mem'[p].space \in {"none", "freed"} => mem[p].space \in {"none", "freed"}
        BY <1>m DEF MovesSpace
      <4>2. mem'[p].header \in Header /\ mem[p].header \in Header
        BY <1>g, MemFacts, OwnFacts DEF Moves, MemTypes, Chunk
      <4>3. ASSUME mem'[p].space \in {"none", "freed"} PROVE mem'[p].header.mark = mem[p].header.mark
        <5>1. ~mem[p].header.mark
          BY <4>1, <4>3, <3>1
        <5>2. ~mem'[p].header.mark
          BY <5>1, <4>3, <1>m DEF MovesMark
        <5> QED
          BY <5>1, <5>2, <4>2 DEF Header
      <4> QED
        BY <4>2, <4>3, <1>m DEF Header, MovesHeader
    <3> QED
      BY <3>1, <3>2, <1>1, <1>m DEF MovesHeader, MovesSpace, MovesMark, Scoped
  <2> QED
    BY <2>1, <2>2, <2>3 DEF HeadInv
<1>3. DepthInv'
  BY <1>g, <1>1 DEF DepthInv, InGc
<1>4. FwdInv'
  <2> SUFFICES ASSUME NEW p \in Own, mem'[p].space = "from", mem'[p].header.fwd
               PROVE  /\ gc'.pc \in Marking \union Copying \union {"free"} /\ depth'[p[1]] >= gc'.minDepth
                      /\ mem'[getFwdPtr(p)].space = "to"
                      /\ gc'.pc \in Marking => mem'[p].retire
    BY DEF FwdInv, getFwdPtr
  <2>1. mem[p].space = "from" /\ mem[p].header.fwd
    BY <1>m DEF MovesHeader, MovesSpace
  <2>2. /\ depth[p[1]] >= gc.minDepth
        /\ mem[getFwdPtr(p)].space = "to"
        /\ gc.pc \in Marking => mem[p].retire
    BY <2>1, <1>g DEF FwdInv
  <2>3. getFwdPtr(p) \in Own
    BY <2>1, <1>g, FwdRange, NextFacts, OwnFacts
  <2>4. mem'[getFwdPtr(p)].space = "to"
    BY <2>2, <2>3, <1>m DEF MovesSpace
  <2> QED
    BY <2>2, <2>4, <1>1, <1>m DEF MovesSpace
<1>5. VersInv'
  <2>1. \A p \in Own : /\ mem'[p].space # "none" => mem[p].space # "none"
                       /\ mem'[p].space \in {"from", "pinned"} => mem[p].space \in {"from", "pinned"}
                       /\ mem'[p].header.fwd = mem[p].header.fwd
                       /\ mem[p].space = "freed" => mem'[p].space = "freed"
    BY <1>m DEF MovesHeader, MovesSpace
  <2> QED
    BY <1>g, <1>1, <2>1 DEF VersInv
<1>6. WriteInv'
  <2>1. localWrite = NULL
    BY <1>g, <1>1 DEF WriteInv
  <2> QED
    BY <1>1, <2>1, AddrFacts DEF WriteInv
<1> QED
  BY <1>2, <1>3, <1>4, <1>5, <1>6

\* ... and all that it keeps.
LEMMA MovesKeeps ==
  ASSUME LocalInv, Moves
  PROVE  /\ MemTypes' /\ DepthInv' /\ HeadInv' /\ FwdInv' /\ VersInv' /\ FieldInv' /\ WriteInv'
         /\ ReaderTypes' /\ PinInv' /\ HeldInv' /\ BarrierInv' /\ VisitedInv'
<1>g. /\ MemTypes /\ DepthInv /\ HeadInv /\ FwdInv /\ VersInv /\ FieldInv /\ WriteInv /\ OwnerTypes
      /\ ReaderTypes /\ PinInv /\ HeldInv /\ BarrierInv /\ VisitedInv
  BY DEF LocalInv, GcInv, ReaderInv
<1>1. /\ CollectorRest /\ gc'.minDepth = gc.minDepth /\ (gc.pc \in Marking <=> gc'.pc \in Marking)
      /\ gc.pc \in Marking \union Copying /\ gc'.pc \in Marking \union Copying
      /\ mem'[Root] = mem[Root]
  BY DEF Moves, MovesGc
<1>2. FieldInv'
  <2> SUFFICES ASSUME NEW p \in Addr, NEW f \in LocalFields, NEW s \in Own, mem'[p].field[f] = s
               PROVE  /\ f \in FieldNames[p[1]] /\ p[1] \in Mutable \union {Stack}
                      /\ Live(p)' => Good(s)'
    BY DEF FieldInv
  <2>1. CASE mem'[p].field[f] = mem[p].field[f]
    BY <2>1, <1>g, MovesSame, OwnFacts DEF FieldInv
  <2>2. CASE mem'[p].field[f] # mem[p].field[f]
    <3>1. p \in Own \union {Roots}
      BY <2>2, <1>1, AddrFacts
    <3>2. PICK t \in Own, n \in Own : mem[p].field[f] = t /\ mem'[p].field[f] = n /\ Updated(p, t, n)
      BY <2>2, <3>1 DEF Moves, MovesField
    <3>3. n = s /\ mem[s].space = "to"
      BY <3>2 DEF Updated
    <3>4. Good(s)
      BY <3>3, <1>g DEF HeadInv, Good, Live
    <3> QED
      BY <3>2, <3>4, <1>g, MovesSame, OwnFacts DEF FieldInv
  <2> QED
    BY <2>1, <2>2
<1>3. CollectorPins
  <2>1. ASSUME NEW p \in Own, NEW f \in LocalFields PROVE SameName(mem'[p].field[f], mem[p].field[f])
    <3>1. CASE mem'[p].field[f] = mem[p].field[f]
      BY <3>1 DEF SameName
    <3>2. CASE \E t, n \in Own : mem[p].field[f] = t /\ mem'[p].field[f] = n /\ Updated(p, t, n)
      BY <3>2, OwnFacts DEF SameName, Updated
    <3> QED
      BY <3>1, <3>2 DEF Moves, MovesField
  <2>2. \A p \in Own : /\ mem'[p].header.pin = mem[p].header.pin
                       /\ mem'[p].header.suspect = mem[p].header.suspect
    BY DEF Moves, MovesHeader
  <2> QED
    BY <1>1, <2>1, <2>2 DEF CollectorPins, isPinned, header
<1>4. CollectorLeads
  BY <1>g, MovesSame DEF CollectorLeads
<1>5. ReaderTypes' /\ PinInv' /\ HeldInv' /\ BarrierInv'
  BY <1>g, <1>1, <1>3, <1>4, CollectorKeepsReader
<1>6. VisitedInv'
  <2>1. CASE gc'.pc \in Marking
    BY <2>1, PcFacts DEF VisitedInv
  <2>2. CASE gc'.pc \in Copying
    <3>1. gc.pc \in Copying
      BY <2>2, <1>1, PcFacts
    <3>2. PICK Z \in SUBSET Own : KnownTo(Z)
      BY <3>1, <1>g DEF VisitedInv
    <3>3. KnownTo(Z)'
      <4>1. \A x \in Z : Visited(x)'
        BY <3>2, <1>g, MovesSame, OwnFacts DEF KnownTo
      <4>2. \A q \in Own : isPinned(q)' /\ Scoped(q)' => q \in Z
        BY <3>2, <1>g, MovesSame, OwnFacts DEF KnownTo
      <4>3. ASSUME NEW x \in Z \union {Root}, NEW f \in LocalFields, NEW s \in Own, mem'[x].field[f] = s, Scoped(s)'
            PROVE  s \in Z
        <5>1. CASE mem'[x].field[f] = mem[x].field[f]
          BY <5>1, <4>3, <3>2, <1>g, MovesSame, OwnFacts DEF KnownTo
        <5>2. CASE mem'[x].field[f] # mem[x].field[f]
          <6>1. x \in Own \union {Roots} /\ x \in Z
            BY <5>2, <1>1
          <6>2. PICK t \in Own, n \in Own : mem[x].field[f] = t /\ mem'[x].field[f] = n /\ Updated(x, t, n)
            BY <5>2, <6>1 DEF Moves, MovesField
          <6>3. Scoped(t) /\ mem[t].space = "from"
            BY <6>2, <3>1 DEF Updated
          <6>4. Visited(t)
            BY <6>1, <6>2, <6>3, <3>2 DEF KnownTo
          <6> QED
            BY <6>3, <6>4 DEF Visited
        <5> QED
          BY <5>1, <5>2
      <4>4. \A p, q \in Own : reader'.ptr = p /\ LeadsTo(p, q)' /\ Scoped(q)' => q \in Z
        BY <3>2, <1>1, <1>g, MovesSame, OwnFacts DEF KnownTo, CollectorRest
      <4>5. ASSUME NEW p \in Own, mem'[p].space = "from", mem'[p].header.fwd, getFwdPtr(p) \in Z
            PROVE  mem'[p].retire
        <5>1. mem[p].space = "from" /\ mem[p].header.fwd
          BY <4>5 DEF Moves, MovesHeader, MovesSpace
        <5>2. mem[p].retire
          BY <5>1, <4>5, <3>2 DEF KnownTo
        <5> QED
          BY <5>2 DEF Moves, MovesSpace
      <4> QED
        BY <4>1, <4>2, <4>3, <4>4, <4>5 DEF KnownTo, getFwdPtr
    <3> QED
      BY <3>3 DEF VisitedInv
  <2> QED
    BY <1>1, <2>1, <2>2
<1> QED
  BY <1>2, <1>5, <1>6, MovesHead DEF Moves

\* What the shared object points to is remembered still.
LEMMA MovesRoot ==
  ASSUME LocalInv, Moves, gc.pc # "keep", toRemSet' \subseteq Entries,
         \A e \in toRemSet' \ toRemSet : isPinned(e.object),
         \A t \in Own : gc.pc = "entangled" /\ gc.op = t => Visited(t)'
  PROVE  RootInv' /\ OwnerTypes'
<1>g. GcTypes /\ OwnerTypes /\ MemTypes /\ HeadInv /\ RootInv
  BY DEF LocalInv, GcInv, ReaderInv
<1>1. /\ UNCHANGED <<depth, localWrite, suspects, counts, remSet>> /\ gc'.level = gc.level
      /\ gc'.pc # "idle" /\ gc.pc # "idle" /\ (gc'.pc \in Marking <=> gc.pc \in Marking) /\ toRemSet \subseteq toRemSet'
      /\ mem'[Root] = mem[Root]
  BY PcFacts DEF Moves, MovesGc, CollectorRest
<1>2. \A u \in remSet' \union toRemSet' : isPinned(u.object)'
  <2>1. \A u \in Entries : u.object \in Addr
    BY EntryFacts, OwnFacts
  <2> QED
    BY <1>g, <1>1, <2>1, MovesSame DEF RootInv, OwnerTypes
<1>3. gc'.pc \in Marking => \A u \in remSet' : u.from = Root /\ Scoped(u.object)' => opDepth(u.object)' <= gc'.level
  <2>1. gc'.minDepth = gc.minDepth
    BY DEF Moves, MovesGc
  <2> QED
    BY <1>g, <1>1, <2>1 DEF RootInv, Scoped, opDepth
<1>5. ASSUME NEW t \in Own, RootTarget(t)' \/ WriteTarget(t)'
      PROVE  /\ mem'[Root].header.suspect
             /\ isPinned(t)' /\ mem'[t].space \in {"from", "pinned"}
             /\ Remembered(t, Root) \in remSet' \/ Remembered(t, Root) \in toRemSet'
             /\ gc'.pc \in Marking /\ Scoped(t)' => Remembered(t, Root) \in remSet' \/ Visited(t)'
  <2>0. RootTarget(t) \/ WriteTarget(t)
    BY <1>g, <1>5, MovesSame
  <2>1. /\ mem[Root].header.suspect
        /\ isPinned(t) /\ mem[t].space \in {"from", "pinned"}
        /\ Remembered(t, Root) \in remSet \/ Remembered(t, Root) \in toRemSet
        /\ gc.pc \in Marking /\ Scoped(t) =>
             Remembered(t, Root) \in remSet \/ Visited(t) \/ (gc.pc = "entangled" /\ gc.op = t)
    BY <1>g, <1>1, <2>0 DEF RootInv
  <2>2. mem'[t].space \in {"from", "pinned"}
    BY <2>1 DEF Moves, MovesSpace, isPinned, header
  <2> QED
    BY <1>g, <1>1, <2>1, <2>2, MovesSame, OwnFacts
<1>6. RootInv'
  BY <1>1, <1>2, <1>3, <1>5 DEF RootInv, Remembered
<1> QED
  BY <1>g, <1>1, <1>6 DEF OwnerTypes

\* Every pointer of what has been scanned is still to come, or done.
LEMMA MovesScan ==
  ASSUME LocalInv, Moves,
         \A x \in Own \union {Roots}, f \in LocalFields, t \in Own :
           Scans(x)' /\ mem'[x].field[f] = t =>
             \/ Slot(x, f) \in gc'.work \/ Slot(x, f) = gc'.slot \/ Done(t)'
             \/ Scans(x) /\ mem[x].field[f] = t /\ Slot(x, f) \notin gc.work /\ Slot(x, f) # gc.slot
  PROVE  ScanInv'
<1>1. \A t \in Own : Done(t) => Done(t)'
  BY MovesSame DEF LocalInv, GcInv
<1>2. \A x \in Own \union {Roots}, f \in LocalFields, t \in Own :
        Scans(x) /\ mem[x].field[f] = t => Slot(x, f) \in gc.work \/ Slot(x, f) = gc.slot \/ Done(t)
  BY DEF LocalInv, GcInv, ScanInv, Moves, MovesGc
<1> QED
  BY <1>1, <1>2 DEF ScanInv, Slot

\* The slots of an object are all the fields that may hold a pointer.
LEMMA SlotsFacts ==
  ASSUME LocalInv, NEW p \in Own
  PROVE  /\ \A s \in Slots(p) : \E f \in LocalFields : s = Slot(p, f)
         /\ \A f \in LocalFields, t \in Own : mem[p].field[f] = t => Slot(p, f) \in Slots(p)
         /\ Slots(p) \subseteq SlotsOf
<1>1. FieldNames[p[1]] \subseteq LocalFields
  BY FieldNamesFacts, OwnFacts
<1>2. \A s \in Slots(p) : \E f \in LocalFields : s = Slot(p, f)
  BY <1>1 DEF Slots, Slot
<1>3. \A f \in LocalFields, t \in Own : mem[p].field[f] = t => f \in FieldNames[p[1]]
  BY OwnFacts DEF LocalInv, GcInv, FieldInv
<1>4. Slots(p) \subseteq SlotsOf
  BY <1>2, SlotIsNotNull
<1> QED
  BY <1>2, <1>3, <1>4 DEF Slots, Slot

\* MarkInPlace preserves the invariant.
LEMMA MarkInPlaceKeeps ==
  ASSUME LocalInv, MarkInPlace
  PROVE  LocalInv'
<1>g. /\ GcTypes /\ OwnerTypes /\ MemTypes /\ DepthInv /\ HeadInv /\ WorkInv /\ OpInv /\ RootInv
  BY DEF LocalInv, GcInv, ReaderInv
<1>0. gc.pc = "entangled"
  BY DEF MarkInPlace
<1>1. PICK o \in Own : gc.op = o
  BY <1>g, <1>0 DEF OpInv, GcTypes
<1>2. /\ isPinned(o) /\ Scoped(o) /\ mem[o].space \in {"from", "pinned"} /\ ~mem[o].header.fwd
      /\ gc.minDepth <= gc.level
  BY <1>g, <1>0, <1>1 DEF OpInv, Marking
<1> DEFINE new == mem[o].header.pin = "any" /\ ~mem[o].header.mark
<1>3. /\ mem' = [mem EXCEPT ![o].header.mark = @ \/ new, ![o].space = IF @ = "from" THEN "pinned" ELSE @]
      /\ toRemSet' = IF new THEN toRemSet \union {Remembered(o, NULL)} ELSE toRemSet
      /\ gc' = [gc EXCEPT !.pc = "scan", !.work = @ \union Slots(o), !.op = NULL, !.slot = NULL]
      /\ UNCHANGED <<depth, shape, remSet, suspects, localWrite, reader, held, counts>>
  BY <1>1 DEF MarkInPlace, header
<1>4. mem[o] \in Chunk /\ mem[o].header \in Header /\ new \in BOOLEAN
  BY <1>g, MemFacts, OwnFacts
<1>5. PICK m \in BOOLEAN : m = (mem[o].header.mark \/ new)
  BY <1>4 DEF Header
<1>6. mem' = [mem EXCEPT ![o].header.mark = m, ![o].space = "pinned"]
  BY <1>2, <1>3, <1>5
<1>7. /\ MemTypes'
      /\ \A p \in Addr : p # o => mem'[p] = mem[p]
      /\ mem'[o].space = "pinned" /\ mem'[o].field = mem[o].field /\ mem'[o].retire = mem[o].retire
      /\ mem'[o].header.mark = m
      /\ mem'[o].header.fwd = mem[o].header.fwd /\ mem'[o].header.pin = mem[o].header.pin
      /\ mem'[o].header.unpinDepth = mem[o].header.unpinDepth /\ mem'[o].header.suspect = mem[o].header.suspect
  <2>1. mem'[o] = [header |-> [mem[o].header EXCEPT !.mark = m], field |-> mem[o].field,
                   space |-> "pinned", retire |-> mem[o].retire]
    BY <1>4, <1>6, <1>g, OwnFacts DEF MemTypes, Chunk
  <2>2. [mem[o].header EXCEPT !.mark = m] \in Header
    BY <1>4 DEF Header
  <2>3. mem'[o] \in Chunk
    BY <2>1, <2>2, <1>4 DEF Chunk, Spaces
  <2>4. \A p \in Addr : p # o => mem'[p] = mem[p]
    BY <1>6, <1>g DEF MemTypes
  <2>5. DOMAIN mem' = Addr /\ mem' = [p \in Addr |-> mem'[p]]
    BY <1>6, <1>g DEF MemTypes
  <2>6. MemTypes'
    BY <2>3, <2>4, <2>5, <1>g DEF MemTypes
  <2> QED
    BY <2>1, <2>4, <2>6, <1>4 DEF Header
<1>8. /\ gc'.pc = "scan" /\ gc'.minDepth = gc.minDepth /\ gc'.level = gc.level
      /\ gc'.work = gc.work \union Slots(o) /\ gc'.slot = NULL /\ gc'.op = NULL
  BY <1>g, <1>3 DEF GcTypes
<1>9. GcTypes'
  <2>1. PICK w \in SUBSET SlotsOf : w = gc.work \union Slots(o)
    BY <1>g, SlotsFacts DEF GcTypes
  <2>2. "scan" \in GcPcs
    BY DEF GcPcs, Marking
  <2>3. gc' = [gc EXCEPT !.pc = "scan", !.work = w, !.op = NULL, !.slot = NULL]
    BY <1>3, <2>1
  <2> QED
    BY <1>g, <2>2, <2>3 DEF GcTypes
<1>10. Moves
  <2>1. MovesGc
    BY <1>0, <1>3, <1>8 DEF MovesGc, CollectorRest, Marking, Copying
  <2>2. ASSUME NEW p \in Own PROVE MovesHeader(p) /\ MovesSpace(p) /\ MovesMark(p)
    <3>1. CASE p = o
      <4>1. MovesHeader(p)
        BY <3>1, <1>2, <1>5, <1>7 DEF MovesHeader
      <4>2. MovesSpace(p)
        BY <3>1, <1>2, <1>7 DEF MovesSpace, isPinned, header
      <4>3. MovesMark(p)
        BY <3>1, <1>3, <1>5, <1>7 DEF MovesMark
      <4> QED
        BY <4>1, <4>2, <4>3
    <3>2. CASE p # o
      BY <3>2, <1>7, OwnFacts DEF MovesHeader, MovesSpace, MovesMark
    <3> QED
      BY <3>1, <3>2
  <2>3. \A p \in Own \union {Roots}, f \in LocalFields : MovesField(p, f)
    BY <1>7, AddrFacts DEF MovesField
  <2>4. o # Root /\ o # Roots /\ Root \in Addr /\ Roots \in Addr
    BY OwnFacts, AddrFacts
  <2> QED
    BY <1>7, <2>1, <2>2, <2>3, <2>4 DEF Moves
<1>11. Visited(o)'
  BY <1>7 DEF Visited
<1>12. ScanInv'
  <2> SUFFICES ASSUME NEW x \in Own \union {Roots}, NEW f \in LocalFields, NEW t \in Own,
                      Scans(x)', mem'[x].field[f] = t
               PROVE  \/ Slot(x, f) \in gc'.work \/ Slot(x, f) = gc'.slot \/ Done(t)'
                      \/ Scans(x) /\ mem[x].field[f] = t /\ Slot(x, f) \notin gc.work /\ Slot(x, f) # gc.slot
    BY <1>10, MovesScan
  <2>1. mem[x].field[f] = t /\ x \in Addr
    BY <1>7, AddrFacts
  <2>2. CASE x = o
    BY <2>1, <2>2, <1>8, SlotsFacts
  <2>3. CASE x # o
    <3>1. Scans(x)
      BY <2>1, <2>3, <1>0, <1>7, <1>8 DEF Scans, Visited, Marking
    <3>2. Slot(x, f) = gc.slot => t = o
      <4>1. \A g \in LocalFields \union {NULL} : gc.slot = Slot(x, g) => mem[x].field[g] = gc.op
        BY <1>g DEF WorkInv
      <4> QED
        BY <4>1, <1>1, <2>1
    <3>3. Done(o)'
      BY <1>11 DEF Done
    <3> QED
      BY <2>1, <3>1, <3>2, <3>3, <1>8
  <2> QED
    BY <2>2, <2>3
<1>13. WorkInv'
  <2>1. ASSUME NEW x \in Own \union {Root, Roots}, NEW f \in LocalFields \union {NULL}, Slot(x, f) \in gc'.work
        PROVE  x \in Own /\ Visited(x)' /\ f \in LocalFields
    <3>1. CASE Slot(x, f) \in gc.work
      <4>1. x \in Own /\ Visited(x) /\ f \in LocalFields
        BY <1>g, <1>0, <3>1 DEF WorkInv, Copying
      <4> QED
        BY <4>1, <1>g, <1>10, MovesSame, OwnFacts
    <3>2. CASE Slot(x, f) \in Slots(o)
      <4>1. PICK g \in LocalFields : Slot(x, f) = Slot(o, g)
        BY <3>2, SlotsFacts
      <4>2. x = o /\ f = g
        BY <4>1, SlotIsNotNull
      <4> QED
        BY <4>2, <1>11
    <3> QED
      BY <2>1, <3>1, <3>2, <1>8
  <2> QED
    BY <1>8, <2>1, SlotIsNotNull DEF WorkInv, Slot
<1>14. OpInv'
  BY <1>2, <1>8, OwnFacts DEF OpInv, Marking
<1>15. RootInv' /\ OwnerTypes'
  <2>1. toRemSet' \subseteq Entries /\ \A e \in toRemSet' \ toRemSet : isPinned(e.object)
    BY <1>2, <1>3, <1>g, EntryFacts DEF OwnerTypes, Remembered
  <2> QED
    BY <1>0, <1>1, <1>10, <1>11, <2>1, MovesRoot
<1> QED
  BY <1>9, <1>10, <1>12, <1>13, <1>14, <1>15, MovesKeeps DEF LocalInv, GcInv, ReaderInv

\* A field is updated, and nothing else.
LEMMA FieldMoves ==
  ASSUME LocalInv, MovesGc, NEW x \in Own \union {Roots}, NEW f \in LocalFields, NEW t \in Own, NEW n \in Own,
         mem[x].field[f] = t, Updated(x, t, n), mem' = SetField(x, f, n)
  PROVE  /\ Moves
         /\ \A p \in Addr : mem'[p].header = mem[p].header /\ mem'[p].space = mem[p].space
         /\ \A p \in Addr, g \in LocalFields :
              mem'[p].field[g] = IF p = x /\ g = f THEN n ELSE mem[p].field[g]
<1>1. /\ MemTypes'
      /\ \A p \in Addr : /\ mem'[p].header = mem[p].header /\ mem'[p].space = mem[p].space
                         /\ mem'[p].retire = mem[p].retire
      /\ \A p \in Addr, g \in LocalFields :
           mem'[p].field[g] = IF p = x /\ g = f THEN n ELSE mem[p].field[g]
      /\ \A p \in Addr : p # x => mem'[p] = mem[p]
  BY FieldSet, AddrFacts DEF LocalInv, GcInv
<1>2. \A p \in Own : MovesHeader(p) /\ MovesSpace(p) /\ MovesMark(p)
  BY <1>1, OwnFacts DEF MovesHeader, MovesSpace, MovesMark
<1>3. \A p \in Own \union {Roots}, g \in LocalFields : MovesField(p, g)
  BY <1>1, AddrFacts DEF MovesField
<1>4. x # Root /\ Root \in Addr /\ Roots \in Addr
  BY AddrFacts
<1> QED
  BY <1>1, <1>2, <1>3, <1>4 DEF Moves

\* A pointer to what has been copied is updated.
LEMMA StoreForwarded ==
  ASSUME LocalInv, gc.pc \in {"scan", "roots"}, NEW slot \in gc.work, CollectorSets,
         NEW p \in Own, p = Target(slot), Scoped(p), mem[p].space \in {"from", "pinned"}, mem[p].header.fwd,
         mem' = Stored(mem, slot, getFwdPtr(p)), gc' = [gc EXCEPT !.work = @ \ {slot}]
  PROVE  LocalInv'
<1>g. /\ GcTypes /\ OwnerTypes /\ MemTypes /\ HeadInv /\ FwdInv /\ VersInv /\ WorkInv /\ OpInv /\ RootInv
  BY DEF LocalInv, GcInv, ReaderInv
<1>1. UNCHANGED <<depth, shape, remSet, toRemSet, suspects, localWrite, reader, held, counts>>
  BY DEF CollectorSets
<1>2. PICK x \in Own \union {Root, Roots}, f \in LocalFields \union {NULL} :
        /\ slot = Slot(x, f) /\ slot.at = x /\ slot.f = f
        /\ \/ x \in Own /\ Visited(x) /\ f \in LocalFields
           \/ x = Roots /\ f \in LocalFields /\ gc.pc \in Copying
           \/ x = Root /\ f = NULL /\ gc.pc \in Copying
  BY <1>g, WorkSlot
<1>3. f \in LocalFields /\ x \in Own \union {Roots} /\ mem[x].field[f] = p
  BY <1>2, OwnFacts, AddrFacts DEF Target
<1>4. /\ gc'.pc = gc.pc /\ gc'.minDepth = gc.minDepth /\ gc'.level = gc.level
      /\ gc'.work = gc.work \ {slot} /\ gc'.slot = gc.slot /\ gc'.op = gc.op /\ gc.slot = NULL
      /\ GcTypes'
  BY <1>g DEF GcTypes, WorkInv
<1> DEFINE n == getFwdPtr(p)
<1>5. n \in Own /\ n[1] = p[1] /\ mem[p].space = "from" /\ mem[n].space = "to"
  <2>1. mem[p].space = "from"
    BY <1>g DEF HeadInv
  <2>2. mem[n].space = "to"
    BY <2>1, <1>g DEF FwdInv
  <2> QED
    BY <2>1, <2>2, <1>g, FwdRange, NextFacts, OwnFacts
<1>6. Updated(x, p, n)
  BY <1>3, <1>5, AddrFacts DEF Updated
<1>7. mem' = SetField(x, f, n)
  BY <1>2, <1>3, AddrFacts DEF Stored, SetField
<1> HIDE DEF n
<1>8. MovesGc
  BY <1>1, <1>4 DEF MovesGc, CollectorRest, Marking, Copying
<1>9. /\ Moves
      /\ \A q \in Addr : mem'[q].header = mem[q].header /\ mem'[q].space = mem[q].space
      /\ \A q \in Addr, g \in LocalFields :
           mem'[q].field[g] = IF q = x /\ g = f THEN n ELSE mem[q].field[g]
  BY <1>3, <1>5, <1>6, <1>7, <1>8, FieldMoves
<1>10. ScanInv'
  <2> SUFFICES ASSUME NEW y \in Own \union {Roots}, NEW g \in LocalFields, NEW t \in Own,
                      Scans(y)', mem'[y].field[g] = t
               PROVE  \/ Slot(y, g) \in gc'.work \/ Slot(y, g) = gc'.slot \/ Done(t)'
                      \/ Scans(y) /\ mem[y].field[g] = t /\ Slot(y, g) \notin gc.work /\ Slot(y, g) # gc.slot
    BY <1>9, MovesScan
  <2>0. y \in Addr
    BY AddrFacts
  <2>1. CASE y = x /\ g = f
    <3>1. t = n
      BY <2>0, <2>1, <1>9
    <3>2. Visited(n)'
      BY <1>5, <1>9, OwnFacts DEF Visited
    <3> QED
      BY <3>1, <3>2 DEF Done
  <2>2. CASE ~(y = x /\ g = f)
    <3>1. mem[y].field[g] = t
      BY <2>0, <2>2, <1>9
    <3>2. Scans(y)
      BY <2>0, <1>4, <1>9 DEF Scans, Visited
    <3>3. Slot(y, g) # slot
      BY <2>2, <1>2, SlotIsNotNull
    <3> QED
      BY <3>1, <3>2, <3>3, <1>4, SlotIsNotNull
  <2> QED
    BY <2>1, <2>2
<1>11. WorkInv'
  <2>1. ASSUME NEW y \in Own \union {Root, Roots}, NEW g \in LocalFields \union {NULL}, Slot(y, g) \in gc.work
        PROVE  \/ y \in Own /\ Visited(y)' /\ g \in LocalFields
               \/ y = Roots /\ g \in LocalFields /\ gc'.pc \in Copying
               \/ y = Root /\ g = NULL /\ gc'.pc \in Copying
    <3>1. \/ y \in Own /\ Visited(y) /\ g \in LocalFields
          \/ y = Roots /\ g \in LocalFields /\ gc.pc \in Copying
          \/ y = Root /\ g = NULL /\ gc.pc \in Copying
      BY <1>g, <2>1 DEF WorkInv
    <3> QED
      BY <1>4, <3>1, <1>g, <1>9, MovesSame, OwnFacts
  <2> QED
    BY <1>4, <2>1, SlotIsNotNull DEF WorkInv, Slot
<1>12. OpInv'
  <2>1. gc.pc \in Marking => gc.minDepth <= gc.level
    BY <1>g DEF OpInv
  <2> QED
    BY <1>4, <2>1 DEF OpInv
<1>13. RootInv' /\ OwnerTypes'
  BY <1>1, <1>9, <1>g, MovesRoot DEF OwnerTypes
<1> QED
  BY <1>4, <1>9, <1>10, <1>11, <1>12, <1>13, MovesKeeps DEF LocalInv, GcInv, ReaderInv

\* StoreNew preserves the invariant.
LEMMA StoreNewKeeps ==
  ASSUME LocalInv, StoreNew
  PROVE  LocalInv'
<1>g. /\ GcTypes /\ OwnerTypes /\ MemTypes /\ HeadInv /\ WorkInv /\ OpInv /\ RootInv
  BY DEF LocalInv, GcInv, ReaderInv
<1>1. /\ gc.pc = "store"
      /\ mem' = Stored(mem, gc.slot, gc.copy)
      /\ gc' = [gc EXCEPT !.pc = "scan", !.work = @ \union Slots(gc.copy), !.op = NULL, !.slot = NULL, !.copy = NULL]
      /\ UNCHANGED <<depth, shape, remSet, toRemSet, suspects, localWrite, reader, held, counts>>
  BY DEF StoreNew
<1>2. PICK c \in Own : gc.copy = c
  BY <1>g, <1>1 DEF OpInv
<1>3. PICK x \in Own \union {Root, Roots}, f \in LocalFields \union {NULL} : gc.slot = Slot(x, f)
  <2>1. gc.slot \in SlotsOf
    BY <1>g, <1>1 DEF OpInv, GcTypes
  <2> QED
    BY <2>1 DEF SlotsOf, Slot
<1>4. f \in LocalFields /\ x \in Own /\ Visited(x) /\ gc.op # NULL /\ mem[x].field[f] = gc.op
  BY <1>g, <1>1, <1>3 DEF WorkInv, Copying
<1>5. PICK o \in Own : gc.op = o
  BY <1>4, <1>g DEF GcTypes
<1>6. mem[c].space = "to" /\ c[1] = o[1] /\ gc.minDepth <= gc.level
  BY <1>g, <1>1, <1>2, <1>5 DEF OpInv, Marking
<1>7. Updated(x, o, c) /\ mem[x].field[f] = o
  BY <1>1, <1>4, <1>5, <1>6, OwnFacts DEF Updated, Copying
<1>8. mem' = SetField(x, f, c)
  <2>1. gc.slot.at = x /\ gc.slot.f = f /\ f # NULL
    BY <1>3, <1>4, SlotIsNotNull, AddrFacts
  <2> QED
    BY <2>1, <1>1, <1>2 DEF Stored, SetField
<1>9. /\ gc'.pc = "scan" /\ gc'.minDepth = gc.minDepth /\ gc'.level = gc.level
      /\ gc'.work = gc.work \union Slots(c) /\ gc'.slot = NULL /\ gc'.op = NULL
  BY <1>g, <1>1, <1>2 DEF GcTypes
<1>10. GcTypes'
  <2>1. PICK w \in SUBSET SlotsOf : w = gc.work \union Slots(c)
    BY <1>g, SlotsFacts DEF GcTypes
  <2>2. "scan" \in GcPcs
    BY DEF GcPcs, Marking
  <2>3. gc' = [gc EXCEPT !.pc = "scan", !.work = w, !.op = NULL, !.slot = NULL, !.copy = NULL]
    BY <1>1, <1>2, <2>1
  <2> QED
    BY <1>g, <2>2, <2>3 DEF GcTypes
<1>11. MovesGc
  BY <1>1, <1>9 DEF MovesGc, CollectorRest, Marking, Copying
<1>12. /\ Moves
       /\ \A q \in Addr : mem'[q].header = mem[q].header /\ mem'[q].space = mem[q].space
       /\ \A q \in Addr, g \in LocalFields :
            mem'[q].field[g] = IF q = x /\ g = f THEN c ELSE mem[q].field[g]
  BY <1>4, <1>7, <1>8, <1>11, FieldMoves
<1>13. Visited(c)'
  BY <1>6, <1>12, OwnFacts DEF Visited
<1>14. ScanInv'
  <2> SUFFICES ASSUME NEW y \in Own \union {Roots}, NEW g \in LocalFields, NEW t \in Own,
                      Scans(y)', mem'[y].field[g] = t
               PROVE  \/ Slot(y, g) \in gc'.work \/ Slot(y, g) = gc'.slot \/ Done(t)'
                      \/ Scans(y) /\ mem[y].field[g] = t /\ Slot(y, g) \notin gc.work /\ Slot(y, g) # gc.slot
    BY <1>12, MovesScan
  <2>0. y \in Addr
    BY AddrFacts
  <2>1. CASE y = x /\ g = f
    <3>1. t = c
      BY <2>0, <2>1, <1>12
    <3> QED
      BY <3>1, <1>13 DEF Done
  <2>2. CASE ~(y = x /\ g = f)
    <3>1. mem[y].field[g] = t
      BY <2>0, <2>2, <1>12
    <3>2. CASE y = c
      BY <3>1, <3>2, <1>9, SlotsFacts
    <3>3. CASE y # c
      <4>1. Scans(y)
        BY <2>0, <3>3, <1>1, <1>2, <1>9, <1>12 DEF Scans, Visited, Marking
      <4>2. Slot(y, g) # gc.slot
        BY <2>2, <1>3, SlotIsNotNull
      <4> QED
        BY <3>1, <4>1, <4>2, <1>9
    <3> QED
      BY <3>2, <3>3
  <2> QED
    BY <2>1, <2>2
<1>15. WorkInv'
  <2>1. ASSUME NEW y \in Own \union {Root, Roots}, NEW g \in LocalFields \union {NULL}, Slot(y, g) \in gc'.work
        PROVE  y \in Own /\ Visited(y)' /\ g \in LocalFields
    <3>1. CASE Slot(y, g) \in gc.work
      <4>1. y \in Own /\ Visited(y) /\ g \in LocalFields
        BY <1>g, <1>1, <3>1 DEF WorkInv, Copying
      <4> QED
        BY <4>1, <1>g, <1>12, MovesSame, OwnFacts
    <3>2. CASE Slot(y, g) \in Slots(c)
      <4>1. PICK h \in LocalFields : Slot(y, g) = Slot(c, h)
        BY <3>2, SlotsFacts
      <4>2. y = c /\ g = h
        BY <4>1 DEF Slot
      <4> QED
        BY <4>2, <1>13
    <3> QED
      BY <2>1, <3>1, <3>2, <1>9
  <2> QED
    BY <1>9, <2>1, SlotIsNotNull DEF WorkInv, Slot
<1>16. OpInv'
  BY <1>6, <1>9, OwnFacts DEF OpInv, Marking
<1>17. RootInv' /\ OwnerTypes'
  BY <1>1, <1>12, <1>g, MovesRoot DEF OwnerTypes
<1> QED
  BY <1>10, <1>12, <1>14, <1>15, <1>16, <1>17, MovesKeeps DEF LocalInv, GcInv, ReaderInv

(* A chunk is moved with the only object in it.                            *)
MovedChunk(p, r) == [mem EXCEPT ![p].space = "to", ![p].retire = r]

\* A chunk changes hands with the object in it.
LEMMA ChunkMoves ==
  ASSUME LocalInv, MovesGc, NEW p \in Own, NEW r \in BOOLEAN, mem' = MovedChunk(p, r), mem[p].retire => r,
         Scoped(p), mem[p].space = "from", ~mem[p].header.fwd, mem[p].header.pin = "none"
  PROVE  /\ Moves
         /\ \A q \in Addr : q # p => mem'[q] = mem[q]
         /\ mem'[p].header = mem[p].header /\ mem'[p].field = mem[p].field /\ mem'[p].space = "to"
<1>g. MemTypes
  BY DEF LocalInv, GcInv
<1>0. mem[p] \in Chunk /\ p \in Addr
  BY <1>g, MemFacts, OwnFacts
<1>1. /\ MemTypes'
      /\ \A q \in Addr : q # p => mem'[q] = mem[q]
      /\ mem'[p].header = mem[p].header /\ mem'[p].field = mem[p].field /\ mem'[p].space = "to"
      /\ mem'[p].retire = r
  BY <1>g, <1>0 DEF MovedChunk, MemTypes, Chunk, Spaces
<1>2. \A q \in Own : MovesHeader(q) /\ MovesSpace(q) /\ MovesMark(q)
  <2>1. MovesHeader(p) /\ MovesSpace(p) /\ MovesMark(p)
    BY <1>1 DEF MovesHeader, MovesSpace, MovesMark
  <2>2. \A q \in Own : q # p => MovesHeader(q) /\ MovesSpace(q) /\ MovesMark(q)
    BY <1>1, OwnFacts DEF MovesHeader, MovesSpace, MovesMark
  <2> QED
    BY <2>1, <2>2
<1>3. \A q \in Own \union {Roots}, g \in LocalFields : MovesField(q, g)
  BY <1>1, AddrFacts DEF MovesField
<1>4. p # Root /\ p # Roots /\ Root \in Addr /\ Roots \in Addr
  BY AddrFacts
<1> QED
  BY <1>1, <1>2, <1>3, <1>4 DEF Moves

\* Copy, when it takes the chunk,
LEMMA CopyLarge ==
  ASSUME LocalInv, gc.pc = "copy", NEW o \in Own, gc.op = o, ~isPinned(o),
         mem' = [mem EXCEPT ![o].space = "to", ![o].retire = TRUE], CollectorSets,
         gc' = [gc EXCEPT !.pc = "store", !.copy = o]
  PROVE  LocalInv'
<1>g. /\ GcTypes /\ OwnerTypes /\ MemTypes /\ HeadInv /\ WorkInv /\ OpInv /\ RootInv
  BY DEF LocalInv, GcInv, ReaderInv
<1>1. UNCHANGED <<depth, shape, remSet, toRemSet, suspects, localWrite, reader, held, counts>>
  BY DEF CollectorSets
<1>2. /\ gc'.pc = "store" /\ gc'.minDepth = gc.minDepth /\ gc'.level = gc.level
      /\ gc'.work = gc.work /\ gc'.slot = gc.slot /\ gc'.op = o /\ gc'.copy = o
  BY <1>g DEF GcTypes
<1>3. GcTypes'
  <2>1. "store" \in GcPcs
    BY DEF GcPcs, Marking
  <2> QED
    BY <1>g, <2>1 DEF GcTypes
<1>4. /\ Scoped(o) /\ mem[o].space = "from" /\ ~mem[o].header.fwd /\ mem[o].header.pin = "none"
      /\ gc.minDepth <= gc.level /\ gc.slot # NULL
  <2>1. Scoped(o) /\ mem[o].space \in {"from", "pinned"} /\ ~mem[o].header.fwd /\ gc.minDepth <= gc.level
        /\ gc.slot # NULL
    BY <1>g DEF OpInv, Marking
  <2>2. mem[o].header.pin = "none"
    BY DEF isPinned, header
  <2> QED
    BY <2>1, <2>2, <1>g DEF HeadInv
<1>5. MovesGc
  BY <1>1, <1>2 DEF MovesGc, CollectorRest, Marking, Copying
<1>6. mem' = MovedChunk(o, TRUE)
  BY DEF MovedChunk
<1>7. /\ Moves
      /\ \A q \in Addr : q # o => mem'[q] = mem[q]
      /\ mem'[o].header = mem[o].header /\ mem'[o].field = mem[o].field /\ mem'[o].space = "to"
  BY <1>4, <1>5, <1>6, ChunkMoves
<1>8. ScanInv'
  <2> SUFFICES ASSUME NEW y \in Own \union {Roots}, NEW g \in LocalFields, NEW t \in Own,
                      Scans(y)', mem'[y].field[g] = t
               PROVE  \/ Slot(y, g) \in gc'.work \/ Slot(y, g) = gc'.slot \/ Done(t)'
                      \/ Scans(y) /\ mem[y].field[g] = t /\ Slot(y, g) \notin gc.work /\ Slot(y, g) # gc.slot
    BY <1>7, MovesScan
  <2>0. y \in Addr
    BY AddrFacts
  <2>1. y # o /\ Scans(y)
    BY <2>0, <1>2, <1>7, OwnFacts DEF Scans, Visited, Marking
  <2> QED
    BY <2>0, <2>1, <1>2, <1>7
<1>9. WorkInv'
  <2>0. \A y \in Addr : (Visited(y) => Visited(y)') /\ mem'[y].field = mem[y].field
    BY <1>g, <1>7, MovesSame
  <2>1. ASSUME NEW x \in Own \union {Root, Roots}, NEW f \in LocalFields \union {NULL}, Slot(x, f) \in gc.work
        PROVE  x \in Own /\ Visited(x)' /\ f \in LocalFields
    <3>1. x \in Own /\ Visited(x) /\ f \in LocalFields
      BY <1>g, <2>1 DEF WorkInv, Copying
    <3> QED
      BY <3>1, <2>0, OwnFacts
  <2>2. ASSUME NEW x \in Own \union {Root, Roots}, NEW f \in LocalFields \union {NULL}, gc.slot = Slot(x, f)
        PROVE  /\ f \in LocalFields /\ gc.op # NULL
               /\ x \in Own /\ Visited(x)'
               /\ mem'[x].field[f] = gc.op
    <3>1. /\ f \in LocalFields /\ gc.op # NULL
          /\ x \in Own /\ Visited(x)
          /\ mem[x].field[f] = gc.op
      BY <1>g, <2>2 DEF WorkInv, Copying
    <3> QED
      BY <3>1, <2>0, OwnFacts
  <2> QED
    BY <1>2, <2>1, <2>2 DEF WorkInv, Slot
<1>10. OpInv'
  BY <1>2, <1>4, <1>7, OwnFacts DEF OpInv, Marking
<1>11. RootInv' /\ OwnerTypes'
  BY <1>1, <1>7, <1>g, MovesRoot DEF OwnerTypes
<1> QED
  BY <1>3, <1>7, <1>8, <1>9, <1>10, <1>11, MovesKeeps DEF LocalInv, GcInv, ReaderInv

\* ... and ForwardHHObjptr, when it does.
LEMMA ForwardLarge ==
  ASSUME LocalInv, gc.pc = "roots", NEW slot \in gc.work, CollectorSets,
         NEW p \in Own, p = Target(slot), Scoped(p), mem[p].space = "from", ~mem[p].header.fwd,
         mem[p].header.pin = "none",
         mem' = [mem EXCEPT ![p].header = Unpinned(@), ![p].space = "to"],
         gc' = [gc EXCEPT !.work = (@ \ {slot}) \union Slots(p)]
  PROVE  LocalInv'
<1>g. /\ GcTypes /\ OwnerTypes /\ MemTypes /\ HeadInv /\ WorkInv /\ OpInv /\ RootInv
  BY DEF LocalInv, GcInv, ReaderInv
<1>1. UNCHANGED <<depth, shape, remSet, toRemSet, suspects, localWrite, reader, held, counts>>
  BY DEF CollectorSets
<1>2. /\ gc'.pc = "roots" /\ gc'.minDepth = gc.minDepth /\ gc'.level = gc.level
      /\ gc'.work = (gc.work \ {slot}) \union Slots(p) /\ gc'.slot = gc.slot /\ gc'.op = gc.op /\ gc.slot = NULL
  BY <1>g DEF GcTypes, WorkInv
<1>3. GcTypes'
  <2>1. PICK w \in SUBSET SlotsOf : w = (gc.work \ {slot}) \union Slots(p)
    BY <1>g, SlotsFacts DEF GcTypes
  <2> QED
    BY <1>g, <2>1 DEF GcTypes
<1>4. PICK x \in Own \union {Root, Roots}, f \in LocalFields \union {NULL} :
        /\ slot = Slot(x, f) /\ slot.at = x /\ slot.f = f
        /\ \/ x \in Own /\ Visited(x) /\ f \in LocalFields
           \/ x = Roots /\ f \in LocalFields /\ gc.pc \in Copying
           \/ x = Root /\ f = NULL /\ gc.pc \in Copying
  BY <1>g, WorkSlot
<1>5. f \in LocalFields /\ x \in Own \union {Roots} /\ mem[x].field[f] = p
  BY <1>4, OwnFacts, AddrFacts DEF Target
<1>6. MovesGc
  BY <1>1, <1>2 DEF MovesGc, CollectorRest, Marking, Copying
<1>7. mem' = MovedChunk(p, mem[p].retire) /\ mem[p].retire \in BOOLEAN
  <2>1. mem[p] \in Chunk /\ p \in Addr
    BY <1>g, MemFacts, OwnFacts
  <2>2. Unpinned(mem[p].header) = mem[p].header
    <3>1. PinnedHeader(mem[p].header)
      BY <2>1, <1>g DEF PinnedHeader, HeadInv, Chunk
    <3> QED
      BY <3>1, UnpinnedFacts
  <2> QED
    BY <2>1, <2>2, <1>g DEF MovedChunk, MemTypes, Chunk
<1>8. /\ Moves
      /\ \A q \in Addr : q # p => mem'[q] = mem[q]
      /\ mem'[p].header = mem[p].header /\ mem'[p].field = mem[p].field /\ mem'[p].space = "to"
  BY <1>6, <1>7, ChunkMoves
<1>9. Visited(p)' /\ Done(p)'
  BY <1>8 DEF Visited, Done
<1>10. ScanInv'
  <2> SUFFICES ASSUME NEW y \in Own \union {Roots}, NEW g \in LocalFields, NEW t \in Own,
                      Scans(y)', mem'[y].field[g] = t
               PROVE  \/ Slot(y, g) \in gc'.work \/ Slot(y, g) = gc'.slot \/ Done(t)'
                      \/ Scans(y) /\ mem[y].field[g] = t /\ Slot(y, g) \notin gc.work /\ Slot(y, g) # gc.slot
    BY <1>8, MovesScan
  <2>0. y \in Addr /\ mem[y].field[g] = t
    BY <1>8, AddrFacts
  <2>1. CASE y = p
    BY <2>0, <2>1, <1>2, SlotsFacts
  <2>2. CASE y # p
    <3>1. Scans(y)
      BY <2>0, <2>2, <1>2, <1>8 DEF Scans, Visited
    <3>2. CASE Slot(y, g) = slot
      <4>1. y = x /\ g = f
        BY <3>2, <1>4 DEF Slot
      <4>2. t = p
        BY <4>1, <2>0, <1>5
      <4> QED
        BY <4>2, <1>9
    <3>3. CASE Slot(y, g) # slot
      BY <3>1, <3>3, <2>0, <1>2, SlotIsNotNull
    <3> QED
      BY <3>2, <3>3
  <2> QED
    BY <2>1, <2>2
<1>11. WorkInv'
  <2>1. ASSUME NEW y \in Own \union {Root, Roots}, NEW g \in LocalFields \union {NULL}, Slot(y, g) \in gc'.work
        PROVE  \/ y \in Own /\ Visited(y)' /\ g \in LocalFields
               \/ y = Roots /\ g \in LocalFields
               \/ y = Root /\ g = NULL
    <3>1. CASE Slot(y, g) \in gc.work
      <4>1. \/ y \in Own /\ Visited(y) /\ g \in LocalFields
            \/ y = Roots /\ g \in LocalFields
            \/ y = Root /\ g = NULL
        BY <1>g, <3>1 DEF WorkInv
      <4> QED
        BY <4>1, <1>g, <1>8, MovesSame, OwnFacts
    <3>2. CASE Slot(y, g) \in Slots(p)
      <4>1. PICK h \in LocalFields : Slot(y, g) = Slot(p, h)
        BY <3>2, SlotsFacts
      <4>2. y = p /\ g = h
        BY <4>1 DEF Slot
      <4> QED
        BY <4>2, <1>9
    <3> QED
      BY <2>1, <3>1, <3>2, <1>2
  <2> QED
    BY <1>2, <2>1, SlotIsNotNull DEF WorkInv, Slot, Copying
<1>12. OpInv'
  BY <1>2 DEF OpInv, Marking
<1>13. RootInv' /\ OwnerTypes'
  BY <1>1, <1>8, <1>g, MovesRoot DEF OwnerTypes
<1> QED
  BY <1>3, <1>8, <1>10, <1>11, <1>12, <1>13, MovesKeeps DEF LocalInv, GcInv, ReaderInv

(* An object is copied: its header is the forwarding pointer, and one      *)
(* field that pointed to it may have been updated.                         *)
CanRelocate(p, c) ==
  /\ p \in Own /\ c = getFwdPtr(p)
  /\ Scoped(p) /\ mem[p].space = "from" /\ ~mem[p].header.fwd /\ mem[p].header.pin = "none"
  /\ ~mem[p].header.mark
RelocatedField(q, f, p, c) ==
  \/ mem'[q].field[f] = mem[q].field[f]
  \/ q # Root /\ mem[q].field[f] = p /\ mem'[q].field[f] = c
Relocates(p, c) ==
  /\ MovesGc /\ MemTypes' /\ toRemSet' = toRemSet
  /\ mem'[p].header = FwdHeader /\ mem'[p].space = "from" /\ mem'[p].field = mem[p].field
  /\ gc.pc \in Marking => mem'[p].retire
  /\ mem'[c].header = mem[p].header /\ mem'[c].space = "to" /\ mem'[c].field = mem[p].field
  /\ \A q \in Addr : q # p /\ q # c =>
       mem'[q].header = mem[q].header /\ mem'[q].space = mem[q].space /\ mem'[q].retire = mem[q].retire
  /\ \A q \in Addr, f \in LocalFields : q # p /\ q # c => RelocatedField(q, f, p, c)

\* There is room for the copy, and nothing there.
LEMMA CopyFacts ==
  ASSUME LocalInv, NEW p \in Own, NEW c, CanRelocate(p, c), gc.pc \in Marking \union Copying
  PROVE  /\ c \in Own /\ c[1] = p[1] /\ c[2] = p[2] + 1 /\ c # p /\ c \in Addr /\ p \in Addr /\ c # Root /\ p # Root
         /\ p[2] < counts.collections /\ Live(p)
         /\ mem[c].space = "none" /\ mem[c].header = Plain /\ ~Live(c) /\ ~isPinned(c) /\ ~isPinned(p)
         /\ \A q \in Own : q[1] = p[1] /\ q[2] > p[2] => mem[q].space = "none"
         /\ \A q \in Own : q[1] = p[1] /\ q[2] < p[2] => mem[q].header.fwd \/ mem[q].space = "freed"
<1>g. MemTypes /\ OwnerTypes /\ HeadInv /\ VersInv
  BY DEF LocalInv, GcInv
<1>1. mem[p].space = "from" /\ ~mem[p].header.fwd /\ c = getFwdPtr(p) /\ mem[p].header.pin = "none"
  BY DEF CanRelocate
<1>2. p[2] < counts.collections /\ (\A q \in Own : q[1] = p[1] /\ q[2] < p[2] => mem[q].header.fwd \/ mem[q].space = "freed")
  BY <1>1, <1>g DEF VersInv
<1>3. p[2] < MaxLocalCollections
  BY <1>2, <1>g, OwnFacts, AddrFacts DEF OwnerTypes
<1>4. c \in Own /\ c[1] = p[1] /\ c[2] = p[2] + 1 /\ c # p /\ c \in Addr
  BY <1>1, <1>3, NextFacts
<1>5. \A q \in Own : q[1] = p[1] /\ q[2] > p[2] => mem[q].space = "none"
  BY <1>1, <1>g, OwnFacts DEF VersInv
<1>6. mem[c].space = "none" /\ mem[c].header = Plain
  BY <1>4, <1>5, <1>g, OwnFacts DEF HeadInv
<1> QED
  BY <1>1, <1>2, <1>4, <1>5, <1>6, OwnFacts, HeaderTypes DEF Live, isPinned, header

\* What a copy changes.
LEMMA RelocateSame ==
  ASSUME LocalInv, NEW p \in Own, NEW c, CanRelocate(p, c), Relocates(p, c)
  PROVE  /\ \A q \in Addr : Live(q)' <=> (Live(q) /\ q # p) \/ q = c
         /\ \A q \in Addr : Good(q) => Good(q)'
         /\ \A q \in Addr : isPinned(q)' <=> isPinned(q)
         /\ \A q \in Addr : Visited(q)' <=> Visited(q) \/ q = c
         /\ \A q \in Addr : Scoped(q)' <=> Scoped(q)
         /\ \A q \in Own : RootTarget(q)' <=> RootTarget(q)
         /\ \A q \in Own : WriteTarget(q)' <=> WriteTarget(q)
         /\ \A q \in Own : Done(q) => Done(q)'
<1>0. /\ c \in Own /\ c # p /\ c \in Addr /\ p \in Addr /\ c # Root /\ p # Root
      /\ Live(p) /\ ~Live(c) /\ ~isPinned(c) /\ ~isPinned(p) /\ mem[c].space = "none"
  BY CopyFacts DEF Relocates, MovesGc
<1>1. /\ UNCHANGED <<depth, localWrite>> /\ gc'.minDepth = gc.minDepth /\ (gc.pc \in Marking <=> gc'.pc \in Marking)
  BY DEF Relocates, MovesGc, CollectorRest
<1>2. /\ mem'[p].header.fwd /\ mem'[p].header.pin = "none" /\ mem'[p].space = "from"
      /\ mem'[c].header = mem[p].header /\ mem'[c].space = "to"
      /\ \A q \in Addr : q # p /\ q # c => mem'[q].header = mem[q].header /\ mem'[q].space = mem[q].space
  BY HeaderTypes DEF Relocates
<1>3. /\ mem[p].space = "from" /\ ~mem[p].header.fwd /\ mem[p].header.pin = "none"
  BY DEF CanRelocate
<1>4. \A q \in Addr : Live(q)' <=> (Live(q) /\ q # p) \/ q = c
  <2>1. \A q \in Addr : q # p /\ q # c => (Live(q)' <=> Live(q))
    BY <1>2 DEF Live
  <2>2. ~Live(p)' /\ Live(c)'
    BY <1>2, <1>3 DEF Live
  <2> QED
    BY <1>0, <2>1, <2>2
<1>5. \A q \in Addr : Good(q) => Good(q)'
  <2>1. \A q \in Addr : q # p /\ q # c => (Good(q) => Good(q)')
    BY <1>2, <1>4 DEF Good
  <2>2. Good(p)' /\ Good(c)'
    BY <1>0, <1>2, <1>4 DEF Good
  <2> QED
    BY <2>1, <2>2
<1>6. \A q \in Addr : isPinned(q)' <=> isPinned(q)
  BY <1>0, <1>2, <1>3 DEF isPinned, header
<1>7. \A q \in Addr : Visited(q)' <=> Visited(q) \/ q = c
  BY <1>0, <1>2, <1>3 DEF Visited
<1>8. \A q \in Addr : Scoped(q)' <=> Scoped(q)
  BY <1>1 DEF Scoped
<1>9. \A q \in Own : (RootTarget(q)' <=> RootTarget(q)) /\ (WriteTarget(q)' <=> WriteTarget(q))
  <2>1. \A f \in LocalFields : mem'[Root].field[f] = mem[Root].field[f]
    BY <1>0, AddrFacts DEF Relocates, RelocatedField
  <2> QED
    BY <1>1, <2>1 DEF RootTarget, WriteTarget
<1>10. \A q \in Own : Done(q) => Done(q)'
  BY <1>1, <1>7, <1>8, <1>9, OwnFacts DEF Done
<1> QED
  BY <1>4, <1>5, <1>6, <1>7, <1>8, <1>9, <1>10

\* What led to the object leads to the copy, and nothing else has changed.
LEMMA RelocateLeads ==
  ASSUME LocalInv, NEW p \in Own, NEW c, CanRelocate(p, c), Relocates(p, c)
  PROVE  /\ \A s, q \in Own : LeadsTo(s, q) /\ q # p => LeadsTo(s, q)'
         /\ \A s \in Own : LeadsTo(s, p) => LeadsTo(s, c)'
         /\ \A s, q \in Own : LeadsTo(s, q)' /\ q # c => LeadsTo(s, q)
         /\ \A s \in Own : LeadsTo(s, c)' /\ s # c => LeadsTo(s, p)
<1>0. /\ c \in Own /\ c # p /\ c \in Addr /\ p \in Addr /\ c[1] = p[1] /\ c[2] = p[2] + 1 /\ p[2] \in Nat /\ c[2] \in Nat
      /\ Live(p) /\ ~Live(c) /\ mem[c].header = Plain
      /\ \A q \in Own : q[1] = p[1] /\ q[2] > p[2] => mem[q].space = "none"
  BY CopyFacts, OwnFacts DEF Relocates, MovesGc
<1>1. /\ mem'[p].header.fwd /\ ~mem'[c].header.fwd /\ ~mem[c].header.fwd /\ ~mem[p].header.fwd
      /\ \A q \in Own : q # p /\ q # c => mem'[q].header.fwd = mem[q].header.fwd
  BY <1>0, HeaderTypes, OwnFacts DEF Relocates, CanRelocate
<1>2. \A q \in Own : Live(q)' <=> (Live(q) /\ q # p) \/ q = c
  BY RelocateSame, OwnFacts
<1>3. ASSUME NEW s \in Own, NEW q \in Own, NEW m \in s[2] .. q[2] - 1
      PROVE  <<s[1], m>> \in Own /\ <<s[1], m>>[1] = s[1] /\ <<s[1], m>>[2] = m
  <2>1. m \in s[2] .. q[2]
    BY OwnFacts
  <2> QED
    BY <2>1, VersionIsOwn
<1>4. ASSUME NEW s \in Own, NEW q \in Own, LeadsTo(s, q), q # p PROVE LeadsTo(s, q)'
  <2>1. \A m \in s[2] .. q[2] - 1 : mem'[<<s[1], m>>].header.fwd
    BY <1>1, <1>3, <1>4 DEF LeadsTo
  <2>2. Live(q)'
    BY <1>2, <1>4 DEF LeadsTo
  <2> QED
    BY <2>1, <2>2, <1>4 DEF LeadsTo
<1>5. ASSUME NEW s \in Own, LeadsTo(s, p) PROVE LeadsTo(s, c)'
  <2>1. s[1] = c[1] /\ s[2] <= p[2] /\ s[2] \in Nat
    BY <1>0, <1>5, OwnFacts DEF LeadsTo
  <2>2. ASSUME NEW m \in s[2] .. c[2] - 1 PROVE mem'[<<s[1], m>>].header.fwd
    <3>1. <<s[1], m>> \in Own /\ <<s[1], m>>[1] = s[1] /\ <<s[1], m>>[2] = m
      BY <1>0, <1>3
    <3>2. CASE m = p[2]
      <4>1. <<s[1], m>> = p
        BY <3>1, <3>2, <2>1, <1>0, SameOwn
      <4> QED
        BY <4>1, <1>1
    <3>3. CASE m # p[2]
      <4>1. m \in s[2] .. p[2] - 1
        BY <3>3, <2>1, <1>0
      <4>2. mem[<<s[1], m>>].header.fwd
        BY <4>1, <1>5 DEF LeadsTo
      <4> QED
        BY <4>2, <3>1, <1>1
    <3> QED
      BY <3>2, <3>3
  <2>3. Live(c)'
    BY <1>0, <1>2
  <2> QED
    BY <1>0, <2>1, <2>2, <2>3 DEF LeadsTo
<1>6. ASSUME NEW s \in Own, NEW q \in Own, LeadsTo(s, q)', q # c PROVE LeadsTo(s, q)
  <2>1. Live(q) /\ q # p /\ s[1] = q[1] /\ s[2] <= q[2]
    BY <1>2, <1>6 DEF LeadsTo
  <2>2. ~(q[1] = p[1])
    <3>1. ASSUME q[1] = p[1] PROVE FALSE
      BY <3>1, <2>1, <1>0, LiveIsOne DEF LocalInv, GcInv
    <3> QED
      BY <3>1
  <2>3. ASSUME NEW m \in s[2] .. q[2] - 1 PROVE mem[<<s[1], m>>].header.fwd
    <3>1. <<s[1], m>> \in Own /\ <<s[1], m>>[1] = s[1]
      BY <1>3
    <3>2. mem'[<<s[1], m>>].header.fwd
      BY <1>6 DEF LeadsTo
    <3> QED
      BY <3>1, <3>2, <2>1, <2>2, <1>0, <1>1
  <2> QED
    BY <2>1, <2>3 DEF LeadsTo
<1>7. ASSUME NEW s \in Own, LeadsTo(s, c)', s # c PROVE LeadsTo(s, p)
  <2>1. s[1] = p[1] /\ s[2] <= c[2] /\ s[2] \in Nat
    BY <1>0, <1>7, OwnFacts DEF LeadsTo
  <2>2. s[2] # c[2]
    BY <2>1, <1>0, <1>7, SameOwn
  <2>3. s[2] <= p[2]
    BY <2>1, <2>2, <1>0
  <2>4. ASSUME NEW m \in s[2] .. p[2] - 1 PROVE mem[<<s[1], m>>].header.fwd
    <3>1. m \in s[2] .. c[2] - 1 /\ m # p[2] /\ m # c[2]
      BY <2>1, <1>0
    <3>2. mem'[<<s[1], m>>].header.fwd
      BY <3>1, <1>7 DEF LeadsTo
    <3>3. <<s[1], m>> \in Own /\ <<s[1], m>>[2] = m
      BY <1>3
    <3> QED
      BY <3>1, <3>2, <3>3, <1>1
  <2> QED
    BY <2>1, <2>3, <2>4, <1>0 DEF LeadsTo
<1> QED
  BY <1>4, <1>5, <1>6, <1>7

\* Headers, and what was moved, after a copy,
LEMMA RelocateHead ==
  ASSUME LocalInv, NEW p \in Own, NEW c, CanRelocate(p, c), Relocates(p, c)
  PROVE  HeadInv' /\ DepthInv' /\ FwdInv' /\ VersInv' /\ WriteInv'
<1>g. MemTypes /\ DepthInv /\ HeadInv /\ FwdInv /\ VersInv /\ WriteInv /\ OwnerTypes
  BY DEF LocalInv, GcInv
<1>0. /\ c \in Own /\ c # p /\ c \in Addr /\ p \in Addr /\ c[1] = p[1] /\ c[2] = p[2] + 1 /\ p[2] \in Nat /\ c[2] \in Nat
      /\ c # Root /\ p # Root /\ c # Roots /\ p # Roots /\ c = getFwdPtr(p)
      /\ p[2] < counts.collections
      /\ mem[c].space = "none"
      /\ \A q \in Own : q[1] = p[1] /\ q[2] > p[2] => mem[q].space = "none"
      /\ \A q \in Own : q[1] = p[1] /\ q[2] < p[2] => mem[q].header.fwd \/ mem[q].space = "freed"
  BY CopyFacts, OwnFacts DEF Relocates, MovesGc, CanRelocate
<1>1. /\ UNCHANGED <<depth, shape, localWrite, counts>> /\ gc'.minDepth = gc.minDepth
      /\ (gc.pc \in Marking <=> gc'.pc \in Marking) /\ toRemSet' = toRemSet
      /\ gc.pc \in Marking \union Copying /\ gc'.pc \in Marking \union Copying
      /\ gc.pc # "idle" /\ gc'.pc # "idle"
  BY PcFacts DEF Relocates, MovesGc, CollectorRest
<1>2. /\ Scoped(p) /\ mem[p].space = "from" /\ ~mem[p].header.fwd /\ mem[p].header.pin = "none" /\ ~mem[p].header.mark
      /\ mem[p].header.unpinDepth = 0
  BY <1>0, <1>g DEF CanRelocate, HeadInv
<1>3. /\ mem'[p].header = FwdHeader /\ mem'[p].space = "from"
      /\ gc.pc \in Marking => mem'[p].retire
      /\ mem'[c].header = mem[p].header /\ mem'[c].space = "to"
      /\ \A q \in Addr : q # p /\ q # c =>
           mem'[q].header = mem[q].header /\ mem'[q].space = mem[q].space /\ mem'[q].retire = mem[q].retire
  BY DEF Relocates
<1>4. HeadInv'
  <2>1. ASSUME NEW q \in Addr
        PROVE  /\ mem'[q].header.unpinDepth = IF mem'[q].header.pin = "none" THEN 0 ELSE SharedDepth
               /\ mem'[q].header.fwd => mem'[q].header = FwdHeader
    <3>1. CASE q = p
      BY <3>1, <1>3, HeaderTypes
    <3>2. CASE q = c
      BY <3>2, <1>2, <1>3
    <3>3. CASE q # p /\ q # c
      BY <3>3, <1>3, <1>g DEF HeadInv
    <3> QED
      BY <3>1, <3>2, <3>3
  <2>2. \A q \in {Root, Roots} :
          /\ mem'[q].header.pin = "none" /\ ~mem'[q].header.fwd /\ ~mem'[q].header.mark
          /\ mem'[q].space = "outside"
    BY <1>g, <1>0, <1>3, AddrFacts DEF HeadInv
  <2>3. ASSUME NEW q \in Own
        PROVE  /\ mem'[q].space # "outside"
               /\ mem'[q].header.pin # "none" => mem'[q].space \in {"from", "pinned", "to"}
               /\ mem'[q].space = "pinned" => mem'[q].header.pin # "none"
               /\ mem'[q].header.mark => /\ mem'[q].space = "pinned" /\ mem'[q].header.pin = "any"
                                        /\ Remembered(q, NULL) \in toRemSet'
               /\ mem'[q].header.fwd => mem'[q].space \in {"from", "retired"}
               /\ mem'[q].space \in {"none", "freed"} => mem'[q].header = Plain
               /\ mem'[q].space \in {"pinned", "to"} => gc'.pc # "idle" /\ depth'[q[1]] >= gc'.minDepth
    <3>1. CASE q = p
      BY <3>1, <1>3, HeaderTypes
    <3>2. CASE q = c
      BY <3>2, <1>0, <1>1, <1>2, <1>3 DEF Scoped
    <3>3. CASE q # p /\ q # c
      BY <3>3, <1>1, <1>3, <1>g, OwnFacts DEF HeadInv
    <3> QED
      BY <3>1, <3>2, <3>3
  <2> QED
    BY <2>1, <2>2, <2>3 DEF HeadInv
<1>5. DepthInv'
  BY <1>g, <1>1 DEF DepthInv, InGc
<1>6. FwdInv'
  <2> SUFFICES ASSUME NEW q \in Own, mem'[q].space = "from", mem'[q].header.fwd
               PROVE  /\ gc'.pc \in Marking \union Copying \union {"free"} /\ depth'[q[1]] >= gc'.minDepth
                      /\ mem'[getFwdPtr(q)].space = "to"
                      /\ gc'.pc \in Marking => mem'[q].retire
    BY DEF FwdInv, getFwdPtr
  <2>1. CASE q = p
    BY <2>1, <1>0, <1>1, <1>2, <1>3 DEF Scoped
  <2>2. CASE q # p
    <3>1. q # c
      BY <1>3
    <3>2. mem[q].space = "from" /\ mem[q].header.fwd /\ mem'[q].retire = mem[q].retire
      BY <2>2, <3>1, <1>3, OwnFacts
    <3>3. depth[q[1]] >= gc.minDepth /\ mem[getFwdPtr(q)].space = "to" /\ (gc.pc \in Marking => mem[q].retire)
      BY <3>2, <1>g DEF FwdInv
    <3>4. getFwdPtr(q) \in Addr
      BY <3>2, <1>g, FwdRange, NextFacts, OwnFacts
    <3>5. mem'[getFwdPtr(q)].space = "to"
      BY <3>3, <3>4, <1>0, <1>2, <1>3
    <3> QED
      BY <3>2, <3>3, <3>5, <1>1
  <2> QED
    BY <2>1, <2>2
<1>7. VersInv'
  <2> SUFFICES ASSUME NEW q \in Own, mem'[q].space # "none"
               PROVE  /\ q[2] <= counts.collections
                      /\ mem'[q].space \in {"from", "pinned"} /\ gc'.pc \in Marking \union Copying => q[2] < counts.collections
                      /\ mem'[q].header.fwd => q[2] < counts.collections
                      /\ \A r \in Own : r[1] = q[1] /\ r[2] < q[2] => mem'[r].header.fwd \/ mem'[r].space = "freed"
    BY <1>1 DEF VersInv
  <2>0. counts.collections \in Nat
    BY <1>g DEF OwnerTypes
  <2>1. CASE q = p
    <3>1. ASSUME NEW r \in Own, r[1] = p[1], r[2] < p[2] PROVE mem'[r].header.fwd \/ mem'[r].space = "freed"
      <4>1. r # p /\ r # c /\ r \in Addr
        BY <3>1, <1>0, OwnFacts
      <4> QED
        BY <3>1, <4>1, <1>0, <1>3
    <3> QED
      BY <2>0, <2>1, <3>1, <1>0
  <2>2. CASE q = c
    <3>1. ASSUME NEW r \in Own, r[1] = c[1], r[2] < c[2] PROVE mem'[r].header.fwd \/ mem'[r].space = "freed"
      <4>1. CASE r[2] = p[2]
        <5>1. r = p
          BY <4>1, <3>1, <1>0, SameOwn
        <5> QED
          BY <5>1, <1>3, HeaderTypes
      <4>2. CASE r[2] # p[2]
        <5>1. r[2] < p[2] /\ r # p /\ r # c /\ r \in Addr
          BY <4>2, <3>1, <1>0, OwnFacts
        <5> QED
          BY <3>1, <5>1, <1>0, <1>3
      <4> QED
        BY <4>1, <4>2
    <3>2. ~mem'[c].header.fwd /\ mem'[c].space = "to"
      BY <1>2, <1>3
    <3> QED
      BY <2>0, <2>2, <3>1, <3>2, <1>0
  <2>3. CASE q # p /\ q # c
    <3>1. mem[q].space # "none" /\ mem'[q].space = mem[q].space /\ mem'[q].header = mem[q].header
      BY <2>3, <1>3, OwnFacts
    <3>2. /\ q[2] <= counts.collections
          /\ mem[q].space \in {"from", "pinned"} /\ gc.pc \in Marking \union Copying => q[2] < counts.collections
          /\ mem[q].header.fwd => q[2] < counts.collections
          /\ \A r \in Own : r[1] = q[1] /\ r[2] < q[2] => mem[r].header.fwd \/ mem[r].space = "freed"
      BY <3>1, <1>g DEF VersInv
    <3>3. ASSUME NEW r \in Own, r[1] = q[1], r[2] < q[2] PROVE mem'[r].header.fwd \/ mem'[r].space = "freed"
      <4>1. r # c
        BY <3>2, <3>3, <1>0, HeaderTypes, <1>g DEF HeadInv
      <4>2. r = p => mem'[r].header.fwd
        BY <1>3, HeaderTypes
      <4> QED
        BY <3>2, <3>3, <4>1, <4>2, <1>3, OwnFacts
    <3> QED
      BY <3>1, <3>2, <3>3, <1>1
  <2> QED
    BY <2>1, <2>2, <2>3
<1>8. WriteInv'
  <2>1. localWrite = NULL
    BY <1>g, <1>1 DEF WriteInv
  <2> QED
    BY <1>1, <2>1, AddrFacts DEF WriteInv
<1> QED
  BY <1>4, <1>5, <1>6, <1>7, <1>8

\* ... and all that it keeps.
LEMMA RelocateKeeps ==
  ASSUME LocalInv, NEW p \in Own, NEW c, CanRelocate(p, c), Relocates(p, c)
  PROVE  /\ MemTypes' /\ DepthInv' /\ HeadInv' /\ FwdInv' /\ VersInv' /\ FieldInv' /\ WriteInv'
         /\ ReaderTypes' /\ PinInv' /\ HeldInv' /\ BarrierInv' /\ VisitedInv'
<1>g. /\ MemTypes /\ DepthInv /\ HeadInv /\ FwdInv /\ VersInv /\ FieldInv /\ WriteInv /\ OwnerTypes
      /\ ReaderTypes /\ PinInv /\ HeldInv /\ BarrierInv /\ VisitedInv
  BY DEF LocalInv, GcInv, ReaderInv
<1>0. /\ c \in Own /\ c # p /\ c \in Addr /\ p \in Addr /\ c[1] = p[1] /\ c[2] = p[2] + 1 /\ p[2] \in Nat /\ c[2] \in Nat
      /\ c # Root /\ p # Root /\ c # Roots /\ p # Roots /\ c = getFwdPtr(p)
      /\ mem[c].space = "none" /\ ~isPinned(p) /\ ~isPinned(c) /\ Live(p) /\ ~Live(c)
  BY CopyFacts, OwnFacts DEF Relocates, MovesGc, CanRelocate
<1>1. /\ CollectorRest /\ gc'.minDepth = gc.minDepth /\ (gc.pc \in Marking <=> gc'.pc \in Marking)
      /\ gc.pc \in Marking \union Copying /\ gc'.pc \in Marking \union Copying /\ MemTypes'
  BY DEF Relocates, MovesGc
<1>2. /\ Scoped(p) /\ mem[p].space = "from" /\ ~mem[p].header.fwd /\ mem[p].header.pin = "none" /\ ~mem[p].header.mark
  BY DEF CanRelocate
<1>3. /\ mem'[p].header = FwdHeader /\ mem'[p].space = "from" /\ mem'[p].field = mem[p].field
      /\ mem'[c].header = mem[p].header /\ mem'[c].space = "to" /\ mem'[c].field = mem[p].field
      /\ \A q \in Addr : q # p /\ q # c =>
           mem'[q].header = mem[q].header /\ mem'[q].space = mem[q].space /\ mem'[q].retire = mem[q].retire
      /\ \A q \in Addr, f \in LocalFields : q # p /\ q # c => RelocatedField(q, f, p, c)
  BY DEF Relocates
<1>4. FieldInv'
  <2> SUFFICES ASSUME NEW q \in Addr, NEW f \in LocalFields, NEW s \in Own, mem'[q].field[f] = s
               PROVE  /\ f \in FieldNames[q[1]] /\ q[1] \in Mutable \union {Stack}
                      /\ Live(q)' => Good(s)'
    BY DEF FieldInv
  <2>1. CASE q = p
    <3>1. ~Live(p)'
      BY <1>0, RelocateSame
    <3> QED
      BY <2>1, <3>1, <1>g, <1>3 DEF FieldInv
  <2>2. CASE q = c
    <3>1. mem[p].field[f] = s
      BY <2>2, <1>3
    <3>2. Good(s) /\ f \in FieldNames[p[1]] /\ p[1] \in Mutable \union {Stack}
      BY <3>1, <1>0, <1>g DEF FieldInv
    <3> QED
      BY <2>2, <3>2, <1>0, RelocateSame, OwnFacts
  <2>3. CASE q # p /\ q # c /\ mem'[q].field[f] = mem[q].field[f]
    <3>1. /\ f \in FieldNames[q[1]] /\ q[1] \in Mutable \union {Stack}
          /\ Live(q) => Good(s)
      BY <2>3, <1>g DEF FieldInv
    <3>2. Live(q)' => Live(q)
      BY <2>3, RelocateSame
    <3> QED
      BY <3>1, <3>2, RelocateSame, OwnFacts
  <2>4. CASE q # p /\ q # c /\ mem[q].field[f] = p /\ s = c
    <3>1. f \in FieldNames[q[1]] /\ q[1] \in Mutable \union {Stack}
      BY <2>4, <1>g DEF FieldInv
    <3>2. Good(c)'
      BY <1>0, RelocateSame DEF Good
    <3> QED
      BY <2>4, <3>1, <3>2
  <2> QED
    BY <1>3, <2>1, <2>2, <2>3, <2>4 DEF RelocatedField
<1>5. mem'[Root] = mem[Root]
  <2>1. Root \in Addr /\ mem[Root] \in Chunk /\ mem'[Root] \in Chunk
    BY <1>g, <1>1, AddrFacts DEF MemTypes
  <2>2. \A f \in LocalFields : mem'[Root].field[f] = mem[Root].field[f]
    BY <1>0, <1>3, <2>1 DEF RelocatedField
  <2>3. mem'[Root].field = mem[Root].field
    BY <2>1, <2>2 DEF Chunk
  <2> QED
    BY <1>0, <1>3, <2>1, <2>3 DEF Chunk
<1>6. CollectorPins
  <2>1. ASSUME NEW q \in Own, isPinned(q)
        PROVE  /\ mem'[q].header.pin = mem[q].header.pin
               /\ mem'[q].header.suspect = mem[q].header.suspect
               /\ \A f \in LocalFields : SameName(mem'[q].field[f], mem[q].field[f])
    <3>1. q # p /\ q # c /\ q \in Addr
      BY <1>0, <2>1, OwnFacts
    <3>2. ASSUME NEW f \in LocalFields PROVE SameName(mem'[q].field[f], mem[q].field[f])
      BY <3>1, <1>0, <1>3, OwnFacts DEF RelocatedField, SameName
    <3> QED
      BY <3>1, <3>2, <1>3
  <2> QED
    BY <1>5, <2>1, RelocateSame, OwnFacts DEF CollectorPins
<1>7. CollectorLeads
  <2> SUFFICES ASSUME NEW s \in Own, NEW q \in Own, LeadsTo(s, q)
               PROVE  (\E r \in Own : LeadsTo(s, r)') /\ (isPinned(q) => LeadsTo(s, q)')
    BY DEF CollectorLeads
  <2>1. CASE q = p
    BY <2>1, <1>0, RelocateLeads
  <2>2. CASE q # p
    BY <2>2, RelocateLeads
  <2> QED
    BY <2>1, <2>2
<1>8. ReaderTypes' /\ PinInv' /\ HeldInv' /\ BarrierInv'
  BY <1>g, <1>1, <1>6, <1>7, CollectorKeepsReader
<1>9. VisitedInv'
  <2>1. CASE gc'.pc \in Marking
    BY <2>1, PcFacts DEF VisitedInv
  <2>2. CASE gc'.pc \in Copying
    <3>1. gc.pc \in Copying
      BY <2>2, <1>1, PcFacts
    <3>2. PICK Z \in SUBSET Own : KnownTo(Z)
      BY <3>1, <1>g DEF VisitedInv
    <3>z. p \notin Z /\ c \notin Z
      BY <3>2, <1>0, <1>2 DEF KnownTo, Visited
    <3>3. KnownTo(Z)'
      <4>1. \A x \in Z : Visited(x)'
        BY <3>2, RelocateSame, OwnFacts DEF KnownTo
      <4>2. \A q \in Own : isPinned(q)' /\ Scoped(q)' => q \in Z
        BY <3>2, RelocateSame, OwnFacts DEF KnownTo
      <4>3. ASSUME NEW x \in Z \union {Root}, NEW f \in LocalFields, NEW s \in Own, mem'[x].field[f] = s, Scoped(s)'
            PROVE  s \in Z
        <5>0. x \in Addr /\ x # p /\ x # c
          BY <3>z, <1>0, AddrFacts
        <5>1. CASE mem'[x].field[f] = mem[x].field[f]
          BY <5>1, <4>3, <3>2, RelocateSame, OwnFacts DEF KnownTo
        <5>2. CASE x # Root /\ mem[x].field[f] = p
          <6>1. p \in Z
            BY <5>2, <1>2, <3>2 DEF KnownTo
          <6> QED
            BY <6>1, <3>z
        <5> QED
          BY <5>0, <5>1, <5>2, <1>3 DEF RelocatedField
      <4>4. ASSUME NEW s \in Own, NEW q \in Own, reader'.ptr = s, LeadsTo(s, q)', Scoped(q)'
            PROVE  q \in Z
        <5>0. reader.ptr = s /\ Scoped(q)
          BY <4>4, <1>1, RelocateSame, OwnFacts DEF CollectorRest
        <5>1. CASE q # c
          BY <5>0, <5>1, <4>4, <3>2, RelocateLeads DEF KnownTo
        <5>2. CASE q = c /\ s # c
          <6>1. LeadsTo(s, p)
            BY <5>2, <4>4, RelocateLeads
          <6>2. p \in Z
            BY <6>1, <5>0, <1>2, <3>2 DEF KnownTo
          <6> QED
            BY <6>2, <3>z
        <5>3. CASE s = c
          <6>1. PICK r \in Own : LeadsTo(c, r)
            BY <5>0, <5>3, <1>g DEF BarrierInv
          <6>2. Live(r) /\ r[1] = p[1] /\ r[2] >= c[2]
            BY <6>1, <1>0, OwnFacts DEF LeadsTo
          <6>3. r = p
            BY <6>2, <1>0, <1>g, LiveIsOne
          <6> QED
            BY <6>2, <6>3, <1>0
        <5> QED
          BY <5>1, <5>2, <5>3
      <4>5. ASSUME NEW q \in Own, mem'[q].space = "from", mem'[q].header.fwd, getFwdPtr(q) \in Z
            PROVE  mem'[q].retire
        <5>1. q # c /\ q # p
          BY <4>5, <3>z, <1>0, <1>3
        <5>2. mem[q].space = "from" /\ mem[q].header.fwd /\ mem'[q].retire = mem[q].retire
          BY <4>5, <5>1, <1>3, OwnFacts
        <5> QED
          BY <5>2, <4>5, <3>2 DEF KnownTo
      <4> QED
        BY <4>1, <4>2, <4>3, <4>4, <4>5 DEF KnownTo, getFwdPtr
    <3> QED
      BY <3>3 DEF VisitedInv
  <2> QED
    BY <1>1, <2>1, <2>2
<1> QED
  BY <1>1, <1>4, <1>8, <1>9, RelocateHead

\* What the shared object points to is remembered still.
LEMMA RelocateRoot ==
  ASSUME LocalInv, NEW p \in Own, NEW c, CanRelocate(p, c), Relocates(p, c), gc.pc \notin {"keep", "entangled"}
  PROVE  RootInv' /\ OwnerTypes'
<1>g. GcTypes /\ OwnerTypes /\ MemTypes /\ HeadInv /\ RootInv
  BY DEF LocalInv, GcInv, ReaderInv
<1>0. c \in Own /\ c # p /\ c # Root /\ p # Root /\ ~isPinned(p) /\ ~isPinned(c)
  BY CopyFacts DEF Relocates, MovesGc
<1>1. /\ UNCHANGED <<depth, localWrite, suspects, counts, remSet, toRemSet>> /\ gc'.level = gc.level
      /\ gc'.minDepth = gc.minDepth
      /\ gc'.pc # "idle" /\ gc.pc # "idle" /\ (gc'.pc \in Marking <=> gc.pc \in Marking)
      /\ \A q \in Addr : q # p /\ q # c => mem'[q].header = mem[q].header /\ mem'[q].space = mem[q].space
  BY PcFacts DEF Relocates, MovesGc, CollectorRest
<1>2. \A u \in remSet' \union toRemSet' : isPinned(u.object)'
  <2>1. \A u \in Entries : u.object \in Addr
    BY EntryFacts, OwnFacts
  <2> QED
    BY <1>g, <1>1, <2>1, RelocateSame DEF RootInv, OwnerTypes
<1>3. gc'.pc \in Marking => \A u \in remSet' : u.from = Root /\ Scoped(u.object)' => opDepth(u.object)' <= gc'.level
  BY <1>g, <1>1 DEF RootInv, Scoped, opDepth
<1>5. ASSUME NEW t \in Own, RootTarget(t)' \/ WriteTarget(t)'
      PROVE  /\ mem'[Root].header.suspect
             /\ isPinned(t)' /\ mem'[t].space \in {"from", "pinned"}
             /\ Remembered(t, Root) \in remSet' \/ Remembered(t, Root) \in toRemSet'
             /\ gc'.pc \in Marking /\ Scoped(t)' => Remembered(t, Root) \in remSet' \/ Visited(t)'
  <2>0. RootTarget(t) \/ WriteTarget(t)
    BY <1>5, RelocateSame
  <2>1. /\ mem[Root].header.suspect
        /\ isPinned(t) /\ mem[t].space \in {"from", "pinned"}
        /\ Remembered(t, Root) \in remSet \/ Remembered(t, Root) \in toRemSet
        /\ gc.pc \in Marking /\ Scoped(t) => Remembered(t, Root) \in remSet \/ Visited(t)
    BY <1>g, <1>1, <2>0 DEF RootInv
  <2>2. t # p /\ t # c /\ t \in Addr
    BY <1>0, <2>1, OwnFacts
  <2>3. mem'[t].space = mem[t].space /\ mem'[Root].header = mem[Root].header
    BY <1>0, <1>1, <2>2, AddrFacts
  <2> QED
    BY <1>1, <2>1, <2>2, <2>3, RelocateSame
<1>6. RootInv'
  BY <1>1, <1>2, <1>3, <1>5 DEF RootInv, Remembered
<1> QED
  BY <1>g, <1>1, <1>6 DEF OwnerTypes

MemIn(m) == m \in [Addr -> Chunk]

\* The memory with an object and its copy.
LEMMA RelocatedMem ==
  ASSUME MemTypes, NEW p \in Own, NEW c \in Own, c = getFwdPtr(p), c # p, NEW k \in Chunk,
         NEW m, m = Relocated(p, k)
  PROVE  /\ MemIn(m)
         /\ m[p].header = FwdHeader /\ m[p].space = mem[p].space /\ m[p].field = mem[p].field
         /\ m[p].retire = mem[p].retire
         /\ m[c].header = k.header /\ m[c].space = "to" /\ m[c].field = k.field
         /\ \A q \in Addr : q # p /\ q # c => m[q] = mem[q]
<1> DEFINE k2 == [k EXCEPT !.space = "to", !.retire = FALSE]
<1>1. k2 \in Chunk /\ k2.header = k.header /\ k2.space = "to" /\ k2.field = k.field
  BY DEF Chunk, Spaces
<1> HIDE DEF k2
<1>2. m = [[mem EXCEPT ![p].header = FwdHeader] EXCEPT ![c] = k2]
  BY DEF Relocated, k2
<1>3. PICK m1 \in [Addr -> Chunk] : m1 = [mem EXCEPT ![p].header = FwdHeader]
  BY HeaderTypes DEF MemTypes, Chunk
<1>4. /\ m1[p].header = FwdHeader /\ m1[p].space = mem[p].space /\ m1[p].field = mem[p].field
      /\ m1[p].retire = mem[p].retire
      /\ \A q \in Addr : q # p => m1[q] = mem[q]
  BY <1>3, OwnFacts, HeaderTypes DEF MemTypes, Chunk
<1>5. m = [m1 EXCEPT ![c] = k2]
  BY <1>2, <1>3
<1>6. MemIn(m) /\ m[c] = k2 /\ \A q \in Addr : q # c => m[q] = m1[q]
  BY <1>1, <1>3, <1>5, OwnFacts DEF MemIn
<1> QED
  BY <1>1, <1>4, <1>6, OwnFacts

\* A compare-and-swap that wins: the object was not pinned meanwhile.
LEMMA CompareAndSwapWins ==
  ASSUME LocalInv, gc.pc = "forward", NEW o \in Own, gc.op = o, Wins(o), CollectorSets,
         mem' = [Relocated(o, gc.copy) EXCEPT ![o].retire = TRUE],
         gc' = [gc EXCEPT !.pc = "store", !.copy = getFwdPtr(o)]
  PROVE  LocalInv'
<1>g. /\ GcTypes /\ OwnerTypes /\ MemTypes /\ HeadInv /\ WorkInv /\ OpInv /\ RootInv
  BY DEF LocalInv, GcInv, ReaderInv
<1>1. UNCHANGED <<depth, shape, remSet, toRemSet, suspects, localWrite, reader, held, counts>>
  BY DEF CollectorSets
<1>2. /\ Scoped(o) /\ mem[o].space = "from" /\ ~mem[o].header.fwd /\ ~mem[o].header.mark
      /\ gc.copy \in Chunk /\ gc.copy.field = mem[o].field /\ gc.copy.header.pin = "none"
      /\ gc.minDepth <= gc.level /\ gc.slot # NULL
  BY <1>g DEF OpInv, Marking
<1>3. mem[o].header = gc.copy.header /\ mem[o].header.pin = "none"
  BY <1>2 DEF Wins, header
<1>4. PICK c : CanRelocate(o, c) /\ c = getFwdPtr(o)
  BY <1>2, <1>3 DEF CanRelocate
<1>5. c \in Own /\ c # o /\ c[1] = o[1] /\ c \in Addr /\ o \in Addr /\ mem[c].space = "none"
  BY <1>4, CopyFacts DEF Marking
<1>6. PICK k \in Chunk : k = gc.copy
  BY <1>2
<1>7. PICK m : m = Relocated(o, k)
  OBVIOUS
<1>8. /\ MemIn(m)
      /\ m[o].header = FwdHeader /\ m[o].space = mem[o].space /\ m[o].field = mem[o].field
      /\ m[c].header = k.header /\ m[c].space = "to" /\ m[c].field = k.field
      /\ \A q \in Addr : q # o /\ q # c => m[q] = mem[q]
  BY <1>g, <1>4, <1>5, <1>7, RelocatedMem
<1>9. mem' = [m EXCEPT ![o].retire = TRUE]
  BY <1>6, <1>7
<1>10. /\ MemTypes'
       /\ mem'[o].header = m[o].header /\ mem'[o].space = m[o].space /\ mem'[o].field = m[o].field
       /\ mem'[o].retire
       /\ \A q \in Addr : q # o => mem'[q] = m[q]
  <2>1. PICK m0 \in [Addr -> Chunk] : m0 = m
    BY <1>8 DEF MemIn
  <2>2. PICK k0 \in Chunk : k0 = m0[o]
    BY <1>5, <2>1
  <2>3. /\ [k0 EXCEPT !.retire = TRUE] \in Chunk
        /\ [k0 EXCEPT !.retire = TRUE].header = k0.header
        /\ [k0 EXCEPT !.retire = TRUE].space = k0.space
        /\ [k0 EXCEPT !.retire = TRUE].field = k0.field
        /\ [k0 EXCEPT !.retire = TRUE].retire = TRUE
    BY DEF Chunk
  <2>4. PICK k1 \in Chunk : k1 = [k0 EXCEPT !.retire = TRUE]
    BY <2>3
  <2>5. mem' = [m0 EXCEPT ![o] = k1]
    BY <1>9, <2>1, <2>2, <2>4
  <2>6. mem' \in [Addr -> Chunk] /\ mem'[o] = k1 /\ \A q \in Addr : q # o => mem'[q] = m0[q]
    BY <1>5, <2>5
  <2> QED
    BY <2>1, <2>2, <2>3, <2>4, <2>6 DEF MemTypes
<1>11. /\ gc'.pc = "store" /\ gc'.minDepth = gc.minDepth /\ gc'.level = gc.level
       /\ gc'.work = gc.work /\ gc'.slot = gc.slot /\ gc'.op = o /\ gc'.copy = c
  BY <1>g, <1>4 DEF GcTypes
<1>12. GcTypes'
  <2>1. "store" \in GcPcs
    BY DEF GcPcs, Marking
  <2> QED
    BY <1>g, <1>4, <1>5, <2>1 DEF GcTypes
<1>13. Relocates(o, c)
  <2>1. MovesGc
    BY <1>1, <1>11 DEF MovesGc, CollectorRest, Marking, Copying
  <2>2. \A q \in Addr, f \in LocalFields : q # o /\ q # c => RelocatedField(q, f, o, c)
    BY <1>8, <1>10 DEF RelocatedField
  <2> QED
    BY <1>1, <1>2, <1>3, <1>5, <1>6, <1>8, <1>10, <2>1, <2>2 DEF Relocates
<1>14. ScanInv'
  <2> SUFFICES ASSUME NEW y \in Own \union {Roots}, NEW g \in LocalFields, NEW t \in Own,
                      Scans(y)', mem'[y].field[g] = t
               PROVE  Slot(y, g) \in gc'.work \/ Slot(y, g) = gc'.slot \/ Done(t)'
    BY DEF ScanInv, Slot
  <2>0. y \in Addr
    BY AddrFacts
  <2>1. y # o /\ y # c
    BY <1>2, <1>5, <1>8, <1>10, <1>11, AddrFacts DEF Scans, Visited, Marking
  <2>2. Scans(y) /\ mem[y].field[g] = t
    BY <2>0, <2>1, <1>4, <1>8, <1>10, <1>11, <1>13, RelocateSame DEF Scans, Marking
  <2>3. Slot(y, g) \in gc.work \/ Slot(y, g) = gc.slot \/ Done(t)
    BY <2>2 DEF LocalInv, GcInv, ScanInv, Marking
  <2> QED
    BY <2>3, <1>4, <1>11, <1>13, RelocateSame
<1>15. WorkInv'
  <2>0. \A y \in Addr : Visited(y) => Visited(y)' /\ mem'[y].field = mem[y].field
    <3>1. ASSUME NEW y \in Addr, Visited(y) PROVE Visited(y)' /\ mem'[y].field = mem[y].field
      <4>1. y # o /\ y # c
        BY <3>1, <1>2, <1>5 DEF Visited
      <4> QED
        BY <3>1, <4>1, <1>8, <1>10 DEF Visited
    <3> QED
      BY <3>1
  <2>1. ASSUME NEW x \in Own \union {Root, Roots}, NEW f \in LocalFields \union {NULL}, Slot(x, f) \in gc.work
        PROVE  x \in Own /\ Visited(x)' /\ f \in LocalFields
    <3>1. x \in Own /\ Visited(x) /\ f \in LocalFields
      BY <1>g, <2>1 DEF WorkInv, Copying
    <3> QED
      BY <3>1, <2>0, OwnFacts
  <2>2. ASSUME NEW x \in Own \union {Root, Roots}, NEW f \in LocalFields \union {NULL}, gc.slot = Slot(x, f)
        PROVE  /\ f \in LocalFields /\ gc.op # NULL
               /\ x \in Own /\ Visited(x)'
               /\ mem'[x].field[f] = gc.op
    <3>1. /\ f \in LocalFields /\ gc.op # NULL
          /\ x \in Own /\ Visited(x)
          /\ mem[x].field[f] = gc.op
      BY <1>g, <2>2 DEF WorkInv, Copying
    <3> QED
      BY <3>1, <2>0, OwnFacts
  <2> QED
    BY <1>11, <2>1, <2>2 DEF WorkInv, Slot
<1>16. OpInv'
  <2>1. mem'[c].space = "to"
    BY <1>5, <1>8, <1>10
  <2> QED
    BY <1>2, <1>5, <1>11, <2>1 DEF OpInv, Marking
<1>17. RootInv' /\ OwnerTypes'
  BY <1>4, <1>13, RelocateRoot
<1> QED
  BY <1>4, <1>12, <1>13, <1>14, <1>15, <1>16, <1>17, RelocateKeeps DEF LocalInv, GcInv, ReaderInv

\* A private object is copied: nobody has pinned it meanwhile.
LEMMA InstallKeeps ==
  ASSUME LocalInv, Install
  PROVE  LocalInv'
<1>g. /\ GcTypes /\ OwnerTypes /\ MemTypes /\ HeadInv /\ WorkInv /\ OpInv /\ RootInv
  BY DEF LocalInv, GcInv, ReaderInv
<1>0. gc.pc = "install"
  BY DEF Install
<1>1. PICK o \in Own : gc.op = o
  BY <1>g, <1>0 DEF OpInv, GcTypes
<1>2. /\ Scoped(o) /\ mem[o].space = "from" /\ ~mem[o].header.fwd /\ ~mem[o].header.mark
      /\ gc.copy \in Chunk /\ gc.copy.field = mem[o].field /\ gc.copy.header.pin = "none"
      /\ mem[o].header = gc.copy.header /\ gc.slot # NULL
  BY <1>g, <1>0, <1>1 DEF OpInv
<1>3. PICK c : CanRelocate(o, c) /\ c = getFwdPtr(o)
  BY <1>2 DEF CanRelocate
<1>4. c \in Own /\ c # o /\ c[1] = o[1] /\ c \in Addr /\ o \in Addr /\ mem[c].space = "none"
  BY <1>0, <1>3, CopyFacts DEF Copying
<1>5. PICK x \in Own \union {Root, Roots}, f \in LocalFields \union {NULL} : gc.slot = Slot(x, f)
  <2>1. gc.slot \in SlotsOf
    BY <1>g, <1>2 DEF GcTypes
  <2> QED
    BY <2>1 DEF SlotsOf, Slot
<1>6. /\ f \in LocalFields /\ mem[x].field[f] = o
      /\ (x \in Own /\ Visited(x)) \/ x = Roots
  BY <1>g, <1>1, <1>5 DEF WorkInv
<1>7. x # o /\ x # c /\ x # Root /\ x \in Addr
  BY <1>2, <1>4, <1>6, OwnFacts, AddrFacts DEF Visited
<1>8. PICK k \in Chunk : k = gc.copy
  BY <1>2
<1>9. PICK m : m = Relocated(o, k)
  OBVIOUS
<1>10. /\ MemIn(m)
       /\ m[o].header = FwdHeader /\ m[o].space = mem[o].space /\ m[o].field = mem[o].field
       /\ m[c].header = k.header /\ m[c].space = "to" /\ m[c].field = k.field
       /\ \A q \in Addr : q # o /\ q # c => m[q] = mem[q]
  BY <1>g, <1>3, <1>4, <1>9, RelocatedMem
<1>11. mem' = [m EXCEPT ![x].field[f] = c]
  <2>1. gc.slot.at = x /\ gc.slot.f = f /\ f # NULL
    BY <1>5, <1>6, SlotIsNotNull, AddrFacts
  <2> QED
    BY <2>1, <1>1, <1>3, <1>8, <1>9 DEF Stored, Install
<1>12. /\ MemTypes'
       /\ \A q \in Addr : q # x => mem'[q] = m[q]
       /\ mem'[x].header = m[x].header /\ mem'[x].space = m[x].space /\ mem'[x].retire = m[x].retire
       /\ \A g \in LocalFields : mem'[x].field[g] = IF g = f THEN c ELSE m[x].field[g]
  <2>1. PICK m0 \in [Addr -> Chunk] : m0 = m
    BY <1>10 DEF MemIn
  <2>2. PICK k0 \in Chunk : k0 = m0[x]
    BY <1>7, <2>1
  <2>3. /\ [k0 EXCEPT !.field[f] = c] \in Chunk
        /\ [k0 EXCEPT !.field[f] = c].header = k0.header
        /\ [k0 EXCEPT !.field[f] = c].space = k0.space
        /\ [k0 EXCEPT !.field[f] = c].retire = k0.retire
        /\ \A g \in LocalFields : [k0 EXCEPT !.field[f] = c].field[g] = IF g = f THEN c ELSE k0.field[g]
    BY <1>4, <1>6 DEF Chunk
  <2>4. PICK k1 \in Chunk : k1 = [k0 EXCEPT !.field[f] = c]
    BY <2>3
  <2>5. mem' = [m0 EXCEPT ![x] = k1]
    BY <1>11, <2>1, <2>2, <2>4
  <2>6. mem' \in [Addr -> Chunk] /\ mem'[x] = k1 /\ \A q \in Addr : q # x => mem'[q] = m0[q]
    BY <1>7, <2>5
  <2> QED
    BY <2>1, <2>2, <2>3, <2>4, <2>6 DEF MemTypes
<1>13. gc' = [gc EXCEPT !.pc = "roots", !.work = @ \union Slots(c), !.op = NULL, !.slot = NULL, !.copy = NULL]
  BY <1>1, <1>3 DEF Install
<1>14. UNCHANGED <<depth, shape, remSet, toRemSet, suspects, localWrite, reader, held, counts>>
  BY DEF Install
<1>15. /\ gc'.pc = "roots" /\ gc'.minDepth = gc.minDepth /\ gc'.level = gc.level
       /\ gc'.work = gc.work \union Slots(c) /\ gc'.slot = NULL /\ gc'.op = NULL
  BY <1>g, <1>13 DEF GcTypes
<1>16. GcTypes'
  <2>1. PICK w \in SUBSET SlotsOf : w = gc.work \union Slots(c)
    BY <1>g, <1>4, SlotsFacts DEF GcTypes
  <2>2. "roots" \in GcPcs
    BY DEF GcPcs, Copying
  <2>3. gc' = [gc EXCEPT !.pc = "roots", !.work = w, !.op = NULL, !.slot = NULL, !.copy = NULL]
    BY <1>13, <2>1
  <2> QED
    BY <1>g, <2>2, <2>3 DEF GcTypes
<1>17. Relocates(o, c)
  <2>1. MovesGc
    BY <1>0, <1>14, <1>15 DEF MovesGc, CollectorRest, Marking, Copying
  <2>2. ASSUME NEW q \in Addr, NEW g \in LocalFields, q # o, q # c
        PROVE  RelocatedField(q, g, o, c)
    BY <2>2, <1>6, <1>7, <1>10, <1>12 DEF RelocatedField
  <2>3. gc.pc \notin Marking
    BY <1>0 DEF Marking
  <2>4. \A q \in Addr : q # o /\ q # c =>
          mem'[q].header = mem[q].header /\ mem'[q].space = mem[q].space /\ mem'[q].retire = mem[q].retire
    BY <1>7, <1>10, <1>12
  <2>5. mem'[o] = m[o] /\ mem'[c] = m[c]
    BY <1>4, <1>7, <1>12
  <2> QED
    BY <1>2, <1>8, <1>10, <1>12, <1>14, <2>1, <2>2, <2>3, <2>4, <2>5 DEF Relocates
<1>18. Visited(c)'
  BY <1>4, <1>7, <1>10, <1>12 DEF Visited
<1>19. ScanInv'
  <2> SUFFICES ASSUME NEW y \in Own \union {Roots}, NEW g \in LocalFields, NEW t \in Own,
                      Scans(y)', mem'[y].field[g] = t
               PROVE  Slot(y, g) \in gc'.work \/ Slot(y, g) = gc'.slot \/ Done(t)'
    BY DEF ScanInv, Slot
  <2>0. y \in Addr /\ c \in Own
    BY <1>4, AddrFacts
  <2>1. y # o
    BY <1>2, <1>4, <1>7, <1>10, <1>12, <1>15, AddrFacts DEF Scans, Visited
  <2>2. CASE y = c
    <3>1. mem[o].field[g] = t
      BY <2>2, <1>2, <1>4, <1>7, <1>8, <1>10, <1>12
    <3>2. g \in FieldNames[o[1]]
      BY <3>1, <1>4 DEF LocalInv, GcInv, FieldInv
    <3>3. Slot(c, g) \in Slots(c)
      BY <3>2, <1>4 DEF Slots, Slot
    <3> QED
      BY <2>2, <3>3, <1>15
  <2>3. CASE y = x /\ g = f
    <3>1. t = c
      BY <2>3, <1>12
    <3> QED
      BY <3>1, <1>18 DEF Done
  <2>4. CASE y # c /\ ~(y = x /\ g = f)
    <3>1. mem[y].field[g] = t
      BY <2>0, <2>1, <2>4, <1>10, <1>12
    <3>2. Scans(y)
      BY <2>0, <2>1, <2>4, <1>0, <1>3, <1>17, RelocateSame DEF Scans, Marking
    <3>3. Slot(y, g) \in gc.work \/ Slot(y, g) = gc.slot \/ Done(t)
      BY <3>1, <3>2, <1>0 DEF LocalInv, GcInv, ScanInv, Copying
    <3>4. Slot(y, g) # gc.slot
      BY <2>4, <1>5 DEF Slot
    <3> QED
      BY <3>3, <3>4, <1>3, <1>15, <1>17, RelocateSame
  <2> QED
    BY <2>2, <2>3, <2>4
<1>20. WorkInv'
  <2>1. ASSUME NEW y \in Own \union {Root, Roots}, NEW g \in LocalFields \union {NULL}, Slot(y, g) \in gc'.work
        PROVE  \/ y \in Own /\ Visited(y)' /\ g \in LocalFields
               \/ y = Roots /\ g \in LocalFields
               \/ y = Root /\ g = NULL
    <3>1. CASE Slot(y, g) \in gc.work
      <4>1. \/ y \in Own /\ Visited(y) /\ g \in LocalFields
            \/ y = Roots /\ g \in LocalFields
            \/ y = Root /\ g = NULL
        BY <1>g, <3>1 DEF WorkInv
      <4> QED
        BY <4>1, <1>3, <1>17, RelocateSame, OwnFacts
    <3>2. CASE Slot(y, g) \in Slots(c)
      <4>1. PICK h \in LocalFields : Slot(y, g) = Slot(c, h)
        BY <3>2, <1>4, SlotsFacts
      <4>2. y = c /\ g = h
        BY <4>1 DEF Slot
      <4> QED
        BY <4>2, <1>4, <1>18
    <3> QED
      BY <2>1, <3>1, <3>2, <1>15
  <2> QED
    BY <1>15, <2>1, SlotIsNotNull DEF WorkInv, Slot, Copying
<1>21. OpInv'
  BY <1>15, OwnFacts DEF OpInv, Marking
<1>22. RootInv' /\ OwnerTypes'
  BY <1>0, <1>3, <1>17, RelocateRoot
<1> QED
  BY <1>3, <1>16, <1>17, <1>19, <1>20, <1>21, <1>22, RelocateKeeps DEF LocalInv, GcInv, ReaderInv

\* CompareAndSwap preserves the invariant.
LEMMA CompareAndSwapKeeps ==
  ASSUME LocalInv, CompareAndSwap
  PROVE  LocalInv'
<1>g. GcTypes /\ MemTypes /\ OpInv /\ WorkInv
  BY DEF LocalInv, GcInv
<1>1. gc.pc = "forward" /\ CollectorSets
  BY DEF CompareAndSwap, CollectorSets
<1>2. PICK o \in Own : gc.op = o
  BY <1>g, <1>1 DEF OpInv, GcTypes
<1>3. CASE Wins(o)
  BY <1>1, <1>2, <1>3, CompareAndSwapWins DEF CompareAndSwap
<1>4. CASE ~Wins(o)
  <2>1. isPinned(o)
    BY <1>g, <1>1, <1>2, <1>4 DEF OpInv, Wins, header
  <2>2. mem' = mem /\ gc' = [gc EXCEPT !.pc = "entangled", !.copy = NULL]
    BY <1>2, <1>4 DEF CompareAndSwap
  <2>3. NULL \in {gc.copy, NULL}
    OBVIOUS
  <2> QED
    BY <1>1, <1>2, <2>1, <2>2, <2>3, CopyFails DEF CollectorSets
<1> QED
  BY <1>3, <1>4

\* Copy preserves the invariant.
LEMMA CopyKeeps ==
  ASSUME LocalInv, Copy
  PROVE  LocalInv'
<1>g. GcTypes /\ MemTypes /\ OpInv /\ WorkInv
  BY DEF LocalInv, GcInv
<1>1. gc.pc = "copy" /\ CollectorSets
  BY DEF Copy, CollectorSets
<1>2. PICK o \in Own : gc.op = o
  BY <1>g, <1>1 DEF OpInv, GcTypes
<1>3. CASE isPinned(o)
  <2>1. mem' = mem /\ gc' = [gc EXCEPT !.pc = "entangled"]
    BY <1>2, <1>3 DEF Copy, Continue
  <2>2. gc' = [gc EXCEPT !.pc = "entangled", !.copy = gc.copy]
    BY <2>1, <1>g DEF GcTypes
  <2>3. gc.copy \in {gc.copy, NULL}
    OBVIOUS
  <2> QED
    BY <1>1, <1>2, <1>3, <2>1, <2>2, <2>3, CopyFails DEF CollectorSets
<1>4. CASE ~isPinned(o) /\ o[1] \in Large
  <2>1. /\ mem' = [mem EXCEPT ![o].space = "to", ![o].retire = TRUE]
        /\ gc' = [gc EXCEPT !.pc = "store", !.copy = o]
    BY <1>2, <1>4 DEF Copy
  <2> QED
    BY <1>1, <1>2, <1>4, <2>1, CopyLarge
<1>5. CASE ~isPinned(o) /\ o[1] \notin Large
  <2>1. mem' = mem /\ gc' = [gc EXCEPT !.pc = "forward", !.copy = mem[o]]
    BY <1>2, <1>5 DEF Copy
  <2> QED
    BY <1>1, <1>2, <1>5, <2>1, CopyIsMade
<1> QED
  BY <1>3, <1>4, <1>5

\* No pin of a plain program may be taken back by a collection.
LEMMA MayNotUnpin ==
  ASSUME MemTypes, DepthInv, HeadInv, NEW p \in Own
  PROVE  ~MayUnpin(p)
<1>1. isPinned(p) => mem[p].header.unpinDepth = SharedDepth
  BY NeverUnpins
<1> QED
  BY <1>1, DepthFacts DEF MayUnpin, header, SharedDepth, MaxDepth

\* Writing what is there changes nothing.
LEMMA SameMem ==
  ASSUME MemTypes, NEW p \in Own
  PROVE  [mem EXCEPT ![p].header = mem[p].header] = mem
<1>1. mem[p] \in Chunk
  BY MemFacts, OwnFacts
<1>2. [mem[p] EXCEPT !.header = mem[p].header] = mem[p]
  BY <1>1 DEF Chunk
<1> QED
  BY <1>2 DEF MemTypes

\* What the pointers to be scanned point to.
LEMMA TargetFacts ==
  ASSUME LocalInv, gc.pc \in {"scan", "roots"}, NEW slot \in gc.work
  PROVE  /\ Target(slot) \in Own \union {NULL, Root}
         /\ Target(slot) = Root => gc.pc = "roots" /\ slot = Slot(Root, NULL)
         /\ Target(slot) \in Own => Good(Target(slot))
         /\ \A x \in Own \union {Roots}, f \in LocalFields : slot = Slot(x, f) => mem[x].field[f] = Target(slot)
<1>g. GcTypes /\ MemTypes /\ HeadInv /\ FieldInv /\ WorkInv
  BY DEF LocalInv, GcInv
<1>1. PICK x \in Own \union {Root, Roots}, f \in LocalFields \union {NULL} :
        /\ slot = Slot(x, f) /\ slot.at = x /\ slot.f = f
        /\ \/ x \in Own /\ Visited(x) /\ f \in LocalFields
           \/ x = Roots /\ f \in LocalFields /\ gc.pc \in Copying
           \/ x = Root /\ f = NULL /\ gc.pc \in Copying
  BY <1>g, WorkSlot
<1>2. \A y \in Own \union {Roots}, h \in LocalFields : slot = Slot(y, h) => y = x /\ h = f
  BY <1>1 DEF Slot
<1>3. CASE f = NULL
  <2>1. Target(slot) = Root /\ gc.pc = "roots"
    BY <1>1, <1>3, AddrFacts DEF Target, Copying
  <2> QED
    BY <1>1, <1>2, <1>3, <2>1, AddrFacts
<1>4. CASE f \in LocalFields
  <2>1. Target(slot) = mem[x].field[f] /\ x \in Addr
    BY <1>1, <1>4, AddrFacts DEF Target
  <2>2. Target(slot) \in Own \union {NULL}
    BY <2>1, <1>4, <1>g, MemFacts
  <2>3. Live(x)
    BY <1>1, <1>4, <1>g, VisitedIsLive, AddrFacts DEF HeadInv, Live
  <2>4. Target(slot) \in Own => Good(Target(slot))
    BY <2>1, <2>3, <1>4, <1>g DEF FieldInv
  <2> QED
    BY <1>2, <2>1, <2>2, <2>4, AddrFacts
<1> QED
  BY <1>3, <1>4

\* A pointer out of the scope, or to what has been moved, needs no work.
LEMMA OutOfFromSpace ==
  ASSUME LocalInv, gc.pc \in {"scan", "roots"}, NEW slot \in gc.work, mem' = mem, CollectorSets,
         gc' = [gc EXCEPT !.work = @ \ {slot}],
         Target(slot) = NULL \/ ~IsInScope(Target(slot)) \/ ~InFromSpace(Target(slot))
  PROVE  LocalInv'
<1>g. HeadInv
  BY DEF LocalInv, GcInv
<1>1. ASSUME NEW x \in Own \union {Roots}, NEW f \in LocalFields, NEW t \in Own,
             slot = Slot(x, f), mem[x].field[f] = t
      PROVE  Done(t)
  <2>1. Target(slot) = t /\ Good(t) /\ t # NULL
    BY <1>1, TargetFacts, OwnFacts
  <2>2. CASE ~IsInScope(t)
    BY <2>2 DEF IsInScope, opDepth, Done, Scoped
  <2>3. CASE ~InFromSpace(t)
    <3>1. mem[t].space = "to"
      BY <2>1, <2>3, <1>g DEF InFromSpace, Good, Live, HeadInv
    <3> QED
      BY <3>1 DEF Done, Visited
  <2> QED
    BY <2>1, <2>2, <2>3
<1> QED
  BY <1>1, SlotIsDone

\* MarkAndAdd preserves the invariant.
LEMMA MarkAndAddKeeps ==
  ASSUME LocalInv, NEW slot \in gc.work, MarkAndAdd(slot)
  PROVE  LocalInv'
<1>g. /\ GcTypes /\ OwnerTypes /\ MemTypes /\ DepthInv /\ HeadInv /\ WorkInv /\ WriteInv /\ PinInv /\ ReaderTypes
  BY DEF LocalInv, GcInv, ReaderInv
<1>1. gc.pc = "scan" /\ gc.pc \in {"scan", "roots"} /\ CollectorSets
  BY DEF MarkAndAdd, CollectorSets
<1> DEFINE p == Target(slot)
<1>2. CASE p = NULL \/ ~IsInScope(p) \/ ~InFromSpace(p)
  <2>1. gc' = [gc EXCEPT !.work = @ \ {slot}] /\ mem' = mem
    BY <1>2 DEF MarkAndAdd
  <2> QED
    BY <1>1, <1>2, <2>1, OutOfFromSpace
<1>3. CASE ~(p = NULL \/ ~IsInScope(p) \/ ~InFromSpace(p))
  <2>1. p \in Own /\ Scoped(p) /\ mem[p].space \in {"from", "pinned"}
    <3>1. p \in Own
      BY <1>1, <1>3, TargetFacts
    <3> QED
      BY <3>1, <1>3 DEF IsInScope, opDepth, Scoped, InFromSpace
  <2>2. ~MayUnpin(p)
    BY <2>1, <1>g, MayNotUnpin
  <2> HIDE DEF p
  <2>3. CASE hasFwdPtr(p)
    <3>1. gc' = [gc EXCEPT !.work = @ \ {slot}] /\ mem' = Stored(mem, slot, getFwdPtr(p))
      BY <1>3, <2>3 DEF MarkAndAdd, p
    <3>2. mem[p].header.fwd /\ p = Target(slot)
      BY <2>3 DEF hasFwdPtr, header, p
    <3> QED
      BY <1>1, <2>1, <3>1, <3>2, StoreForwarded
  <2>4. CASE ~hasFwdPtr(p) /\ (header(p).mark \/ header(p).pin = "down")
    <3>1. gc' = [gc EXCEPT !.work = @ \ {slot}] /\ mem' = mem
      BY <1>3, <2>2, <2>4 DEF MarkAndAdd, p
    <3>2. Done(p)
      <4>1. CASE header(p).mark
        BY <4>1, <2>1, <1>g DEF HeadInv, header, Done, Visited
      <4>2. CASE header(p).pin = "down"
        <5>1. RootTarget(p) \/ WriteTarget(p)
          BY <4>2, <2>1, <1>g DEF PinInv, header
        <5>2. localWrite = NULL
          BY <1>1, <1>g DEF WriteInv
        <5> QED
          BY <5>1, <5>2, <1>1 DEF WriteTarget, Done, Marking
      <4> QED
        BY <2>4, <4>1, <4>2
    <3>3. \A x \in Own \union {Roots}, f \in LocalFields, t \in Own :
            slot = Slot(x, f) /\ mem[x].field[f] = t => Done(t)
      BY <1>1, <3>2, TargetFacts DEF p
    <3> QED
      BY <1>1, <3>1, <3>3, SlotIsDone
  <2>5. CASE ~hasFwdPtr(p) /\ ~header(p).mark /\ header(p).pin # "down"
    <3>1. /\ gc' = [[gc EXCEPT !.work = @ \ {slot}] EXCEPT !.pc = "copy", !.slot = slot, !.op = p]
          /\ mem' = [mem EXCEPT ![p].header = @]
      BY <1>3, <2>2, <2>5 DEF MarkAndAdd, p
    <3>2. gc' = [gc EXCEPT !.work = @ \ {slot}, !.pc = "copy", !.slot = slot, !.op = p]
      BY <3>1
    <3>3. mem' = mem
      BY <3>1, <2>1, <1>g, SameMem
    <3>4. ~mem[p].header.fwd /\ mem[p].header.pin # "down" /\ ~mem[p].header.mark /\ p = Target(slot)
      BY <2>5 DEF hasFwdPtr, header, p
    <3>5. mem[p] \in Chunk
      BY <2>1, <1>g, MemFacts, OwnFacts
    <3> QED
      BY <1>1, <2>1, <3>2, <3>3, <3>4, <3>5, SlotIsTaken
  <2> QED
    BY <2>3, <2>4, <2>5
<1> QED
  BY <1>2, <1>3

\* ForwardHHObjptr preserves the invariant.
LEMMA ForwardHHObjptrKeeps ==
  ASSUME LocalInv, NEW slot \in gc.work, ForwardHHObjptr(slot)
  PROVE  LocalInv'
<1>g. /\ GcTypes /\ OwnerTypes /\ MemTypes /\ DepthInv /\ HeadInv /\ WorkInv /\ VisitedInv
  BY DEF LocalInv, GcInv, ReaderInv
<1>1. gc.pc = "roots" /\ gc.pc \in {"scan", "roots"} /\ CollectorSets
  BY DEF ForwardHHObjptr, CollectorSets
<1> DEFINE p == Target(slot)
<1>2. CASE p = NULL \/ ~IsInScope(p) \/ ~InFromSpace(p)
  <2>1. gc' = [gc EXCEPT !.work = @ \ {slot}] /\ mem' = mem
    BY <1>2 DEF ForwardHHObjptr
  <2> QED
    BY <1>1, <1>2, <2>1, OutOfFromSpace
<1>3. CASE ~(p = NULL \/ ~IsInScope(p) \/ ~InFromSpace(p))
  <2>1. p \in Own /\ Scoped(p) /\ mem[p].space \in {"from", "pinned"}
    <3>1. p \in Own \union {Root}
      BY <1>1, <1>3, TargetFacts
    <3>2. p # Root
      <4>1. opDepth(Root) = SharedDepth /\ gc.minDepth \in 2 .. MaxDepth
        BY <1>g, DepthFacts DEF GcTypes
      <4> QED
        BY <4>1, <1>3 DEF IsInScope, SharedDepth, MaxDepth
    <3> QED
      BY <3>1, <3>2, <1>3 DEF IsInScope, opDepth, Scoped, InFromSpace
  <2>2. IsTrulyPinned(p) <=> isPinned(p)
    BY <2>1, <1>g, NeverUnpins
  <2>t. p = Target(slot)
    OBVIOUS
  <2> HIDE DEF p
  <2>3. CASE hasFwdPtr(p)
    <3>1. gc' = [gc EXCEPT !.work = @ \ {slot}] /\ mem' = Stored(mem, slot, getFwdPtr(p))
      BY <1>3, <2>3 DEF ForwardHHObjptr, p
    <3>2. mem[p].header.fwd
      BY <2>3 DEF hasFwdPtr, header
    <3> QED
      BY <1>1, <2>1, <2>t, <3>1, <3>2, StoreForwarded
  <2>4. CASE ~hasFwdPtr(p) /\ (header(p).mark \/ isPinned(p))
    <3>1. gc' = [gc EXCEPT !.work = @ \ {slot}] /\ mem' = mem
      BY <1>3, <2>2, <2>4 DEF ForwardHHObjptr, p
    <3>2. Done(p)
      <4>1. CASE header(p).mark
        BY <4>1, <2>1, <1>g DEF HeadInv, header, Done, Visited
      <4>2. CASE isPinned(p)
        <5>1. PICK Z \in SUBSET Own : KnownTo(Z)
          BY <1>1, <1>g DEF VisitedInv, Copying
        <5> QED
          BY <5>1, <4>2, <2>1 DEF KnownTo, Done
      <4> QED
        BY <2>4, <4>1, <4>2
    <3>3. \A x \in Own \union {Roots}, f \in LocalFields, t \in Own :
            slot = Slot(x, f) /\ mem[x].field[f] = t => Done(t)
      BY <1>1, <3>2, <2>t, TargetFacts
    <3> QED
      BY <1>1, <3>1, <3>3, SlotIsDone
  <2>5. CASE ~hasFwdPtr(p) /\ ~header(p).mark /\ ~isPinned(p)
    <3>1. /\ ~mem[p].header.fwd /\ mem[p].header.pin = "none" /\ ~mem[p].header.mark
          /\ mem[p].space = "from"
      BY <2>1, <2>5, <1>g DEF hasFwdPtr, header, isPinned, HeadInv
    <3>2. Unpinned(mem[p].header) = mem[p].header /\ mem[p] \in Chunk
      <4>1. mem[p] \in Chunk /\ mem[p].header \in Header
        BY <2>1, <1>g, MemFacts, OwnFacts
      <4>2. PinnedHeader(mem[p].header)
        BY <4>1, <2>1, <1>g, OwnFacts DEF PinnedHeader, HeadInv
      <4> QED
        BY <4>1, <4>2, <3>1, UnpinnedFacts
    <3>3. CASE p[1] \in Large
      <4>1. /\ mem' = [mem EXCEPT ![p].header = Unpinned(@), ![p].space = "to"]
            /\ gc' = [[gc EXCEPT !.work = @ \ {slot}] EXCEPT !.work = @ \union Slots(p)]
        BY <1>3, <2>2, <2>5, <3>3 DEF ForwardHHObjptr, p
      <4>2. gc' = [gc EXCEPT !.work = (@ \ {slot}) \union Slots(p)]
        BY <4>1, <1>g DEF GcTypes
      <4> QED
        BY <1>1, <2>1, <2>t, <3>1, <4>1, <4>2, ForwardLarge
    <3>4. CASE p[1] \notin Large
      <4>1. /\ mem' = [mem EXCEPT ![p].header = Unpinned(@)]
            /\ gc' = [[gc EXCEPT !.work = @ \ {slot}] EXCEPT !.pc = "install", !.slot = slot, !.op = p,
                        !.copy = [mem[p] EXCEPT !.header = Unpinned(@)]]
        BY <1>3, <2>2, <2>5, <3>4 DEF ForwardHHObjptr, p
      <4>2. [mem[p] EXCEPT !.header = Unpinned(@)] = mem[p]
        BY <3>2 DEF Chunk
      <4>3. gc' = [gc EXCEPT !.work = @ \ {slot}, !.pc = "install", !.slot = slot, !.op = p, !.copy = mem[p]]
        BY <4>1, <4>2
      <4>4. mem' = mem
        BY <4>1, <3>2, <2>1, <1>g, SameMem
      <4>5. PICK c \in Chunk : c = mem[p]
        BY <3>2
      <4>6. gc' = [gc EXCEPT !.work = @ \ {slot}, !.pc = "install", !.slot = slot, !.op = p, !.copy = c]
        BY <4>3, <4>5
      <4>7. mem[p].header.pin # "down" /\ ~isPinned(p)
        BY <2>5, <3>1
      <4> QED
        BY <1>1, <2>1, <2>t, <3>1, <4>4, <4>5, <4>6, <4>7, SlotIsTaken
    <3> QED
      BY <3>3, <3>4
  <2> QED
    BY <2>3, <2>4, <2>5
<1> QED
  BY <1>2, <1>3

FreedChunk == [NoChunk EXCEPT !.space = "freed"]

\* What a freed chunk holds.
LEMMA FreedFacts ==
  /\ FreedChunk \in Chunk /\ FreedChunk.header = Plain /\ FreedChunk.space = "freed"
  /\ ~FreedChunk.retire /\ \A f \in LocalFields : FreedChunk.field[f] = NULL
<1>1. NoChunk \in Chunk
  BY HeaderTypes DEF NoChunk, Chunk, Spaces
<1>2. FreedChunk \in Chunk
  BY <1>1 DEF FreedChunk, Chunk, Spaces
<1>3. FreedChunk.header = NoChunk.header /\ FreedChunk.space = "freed" /\ FreedChunk.retire = NoChunk.retire
      /\ FreedChunk.field = NoChunk.field
  BY <1>1 DEF FreedChunk, Chunk
<1>4. NoChunk.header = Plain /\ NoChunk.retire = FALSE /\ \A f \in LocalFields : NoChunk.field[f] = NULL
  BY DEF NoChunk
<1> QED
  BY <1>2, <1>3, <1>4

\* A chunk that is given up is retired, and then freed.
Dropped(p) ==
  /\ mem[p].space \in {"from", "retired"} /\ ~isPinned(p)
  /\ \/ mem'[p] = FreedChunk
     \/ mem[p].space = "from" /\ mem'[p].space = "retired" /\ mem'[p].header = mem[p].header
        /\ mem'[p].field = mem[p].field
Frees ==
  /\ CollectorRest /\ UNCHANGED <<remSet, toRemSet, counts>>
  /\ gc'.pc = gc.pc \/ (gc.pc = "free" /\ gc'.pc = "unmark")
  /\ gc'.minDepth = gc.minDepth /\ gc'.level = gc.level /\ gc'.entry = gc.entry /\ gc'.op = gc.op
  /\ MemTypes'
  /\ \A p \in Addr : mem'[p] = mem[p] \/ Dropped(p)

\* What is given up was neither pinned nor visited.
LEMMA DroppedFacts ==
  ASSUME MemTypes, MemTypes', HeadInv, NEW p \in Addr, Dropped(p)
  PROVE  /\ p \in Own /\ ~Visited(p) /\ mem[p].header.pin = "none"
         /\ mem'[p].header.pin = "none" /\ ~mem'[p].header.mark
         /\ mem'[p].space \in {"retired", "freed"} /\ ~Live(p)'
         /\ mem'[p].space = "freed" => mem'[p].header = Plain
         /\ mem'[p].space = "retired" => mem'[p].header = mem[p].header /\ mem'[p].field = mem[p].field
         /\ mem'[p].space = "freed" => \A f \in LocalFields : mem'[p].field[f] = NULL
         /\ \A f \in LocalFields, t \in Own : mem'[p].field[f] = t => mem[p].field[f] = t
<1>1. p \in Own
  BY AddrFacts DEF Dropped, HeadInv
<1>2. mem[p].header.pin = "none" /\ ~mem[p].header.mark
  BY <1>1 DEF Dropped, HeadInv, isPinned, header
<1> QED
  BY <1>1, <1>2, FreedFacts, HeaderTypes, OwnFacts DEF Dropped, Visited, Live

\* So the pinned and the visited objects stay,
LEMMA FreesSame ==
  ASSUME LocalInv, Frees
  PROVE  /\ \A p \in Addr : isPinned(p)' <=> isPinned(p)
         /\ \A p \in Addr : isPinned(p) => mem'[p] = mem[p]
         /\ \A p \in Addr : Visited(p)' <=> Visited(p)
         /\ \A p \in Addr : Visited(p) => mem'[p] = mem[p]
         /\ \A p \in Addr : Scoped(p)' <=> Scoped(p)
         /\ mem'[Root] = mem[Root] /\ mem'[Roots] = mem[Roots]
         /\ \A p \in Own : RootTarget(p)' <=> RootTarget(p)
         /\ \A p \in Own : WriteTarget(p)' <=> WriteTarget(p)
<1>g. MemTypes /\ HeadInv /\ MemTypes'
  BY DEF LocalInv, GcInv, Frees
<1>1. \A p \in Addr : mem'[p] = mem[p] \/ Dropped(p)
  BY DEF Frees
<1>2. \A p \in Addr : Dropped(p) => p \in Own /\ ~Visited(p) /\ ~isPinned(p) /\ ~isPinned(p)' /\ ~Visited(p)'
  BY <1>g, DroppedFacts DEF isPinned, header, Visited
<1>3. mem'[Root] = mem[Root] /\ mem'[Roots] = mem[Roots]
  BY <1>1, <1>2, AddrFacts
<1>4. \A p \in Addr : isPinned(p)' <=> isPinned(p)
  BY <1>1, <1>2 DEF isPinned, header
<1>5. \A p \in Addr : Visited(p)' <=> Visited(p)
  BY <1>1, <1>2 DEF Visited
<1>6. \A p \in Addr : Scoped(p)' <=> Scoped(p)
  BY DEF Frees, CollectorRest, Scoped
<1>7. \A p \in Own : (RootTarget(p)' <=> RootTarget(p)) /\ (WriteTarget(p)' <=> WriteTarget(p))
  BY <1>3 DEF Frees, CollectorRest, RootTarget, WriteTarget
<1> QED
  BY <1>1, <1>2, <1>3, <1>4, <1>5, <1>6, <1>7

\* ... and what rests on them.
LEMMA FreesKeeps ==
  ASSUME LocalInv, Frees
  PROVE  DepthInv' /\ HeadInv' /\ VersInv' /\ RootInv' /\ OwnerTypes' /\ CollectorPins
<1>g. MemTypes /\ DepthInv /\ HeadInv /\ VersInv /\ RootInv /\ OwnerTypes /\ GcTypes /\ MemTypes'
  BY DEF LocalInv, GcInv, Frees
<1>1. /\ UNCHANGED <<depth, shape, suspects, localWrite, remSet, toRemSet, counts>>
      /\ gc'.minDepth = gc.minDepth /\ gc'.level = gc.level /\ gc'.entry = gc.entry /\ gc'.op = gc.op
      /\ gc'.pc = gc.pc \/ (gc.pc = "free" /\ gc'.pc = "unmark")
      /\ (gc'.pc = "idle" <=> gc.pc = "idle") /\ (gc'.pc \in Marking => gc.pc = gc'.pc)
  BY DEF Frees, CollectorRest, Marking
<1>2. \A p \in Addr : mem'[p] = mem[p] \/ Dropped(p)
  BY DEF Frees
<1>3. DepthInv'
  BY <1>g, <1>1 DEF DepthInv, InGc
<1>4. HeadInv'
  <2>1. \A p \in Addr : /\ mem'[p].header.unpinDepth = IF mem'[p].header.pin = "none" THEN 0 ELSE SharedDepth
                        /\ mem'[p].header.fwd => mem'[p].header = FwdHeader
    <3> SUFFICES ASSUME NEW p \in Addr
                 PROVE  /\ mem'[p].header.unpinDepth = IF mem'[p].header.pin = "none" THEN 0 ELSE SharedDepth
                        /\ mem'[p].header.fwd => mem'[p].header = FwdHeader
      OBVIOUS
    <3>1. CASE mem'[p] = mem[p]
      BY <3>1, <1>g DEF HeadInv
    <3>2. CASE Dropped(p)
      BY <3>2, <1>g, DroppedFacts, HeaderTypes DEF HeadInv
    <3> QED
      BY <3>1, <3>2, <1>2
  <2>2. \A p \in {Root, Roots} :
          /\ mem'[p].header.pin = "none" /\ ~mem'[p].header.fwd /\ ~mem'[p].header.mark
          /\ mem'[p].space = "outside"
    BY <1>g, FreesSame DEF HeadInv
  <2>3. \A p \in Own :
         /\ mem'[p].space # "outside"
         /\ mem'[p].header.pin # "none" => mem'[p].space \in {"from", "pinned", "to"}
         /\ mem'[p].space = "pinned" => mem'[p].header.pin # "none"
         /\ mem'[p].header.mark => /\ mem'[p].space = "pinned" /\ mem'[p].header.pin = "any"
                                  /\ Remembered(p, NULL) \in toRemSet'
         /\ mem'[p].header.fwd => mem'[p].space \in {"from", "retired"}
         /\ mem'[p].space \in {"none", "freed"} => mem'[p].header = Plain
         /\ mem'[p].space \in {"pinned", "to"} => gc'.pc # "idle" /\ depth'[p[1]] >= gc'.minDepth
    <3> SUFFICES ASSUME NEW p \in Own
                 PROVE
         /\ mem'[p].space # "outside"
         /\ mem'[p].header.pin # "none" => mem'[p].space \in {"from", "pinned", "to"}
         /\ mem'[p].space = "pinned" => mem'[p].header.pin # "none"
         /\ mem'[p].header.mark => /\ mem'[p].space = "pinned" /\ mem'[p].header.pin = "any"
                                  /\ Remembered(p, NULL) \in toRemSet'
         /\ mem'[p].header.fwd => mem'[p].space \in {"from", "retired"}
         /\ mem'[p].space \in {"none", "freed"} => mem'[p].header = Plain
         /\ mem'[p].space \in {"pinned", "to"} => gc'.pc # "idle" /\ depth'[p[1]] >= gc'.minDepth
      OBVIOUS
    <3>1. CASE mem'[p] = mem[p]
      BY <3>1, <1>g, <1>1 DEF HeadInv
    <3>2. CASE Dropped(p)
      <4>1. /\ mem'[p].header.pin = "none" /\ ~mem'[p].header.mark
            /\ mem'[p].space \in {"retired", "freed"}
            /\ mem'[p].space = "freed" => mem'[p].header = Plain
        BY <3>2, <1>g, DroppedFacts, OwnFacts
      <4> QED
        BY <4>1, HeaderTypes
    <3> QED
      BY <3>1, <3>2, <1>2, OwnFacts
  <2> QED
    BY <2>1, <2>2, <2>3 DEF HeadInv
<1>5. VersInv'
  <2> SUFFICES ASSUME NEW p \in Own, mem'[p].space # "none"
               PROVE  /\ p[2] <= counts'.collections
                      /\ mem'[p].space \in {"from", "pinned"} /\ gc'.pc \in Marking \union Copying => p[2] < counts'.collections
                      /\ mem'[p].header.fwd => p[2] < counts'.collections
                      /\ \A q \in Own : q[1] = p[1] /\ q[2] < p[2] => mem'[q].header.fwd \/ mem'[q].space = "freed"
    BY DEF VersInv
  <2>1. /\ mem[p].space # "none"
        /\ mem'[p].space \in {"from", "pinned"} => mem[p].space = mem'[p].space
        /\ mem'[p].header.fwd => mem[p].header.fwd
    <3>1. CASE mem'[p] = mem[p]
      BY <3>1
    <3>2. CASE Dropped(p)
      BY <3>2, <1>g, DroppedFacts, HeaderTypes, OwnFacts DEF Dropped
    <3> QED
      BY <3>1, <3>2, <1>2, OwnFacts
  <2>2. \A q \in Own : mem[q].header.fwd \/ mem[q].space = "freed" => mem'[q].header.fwd \/ mem'[q].space = "freed"
    <3> SUFFICES ASSUME NEW q \in Own, mem[q].header.fwd \/ mem[q].space = "freed"
                 PROVE  mem'[q].header.fwd \/ mem'[q].space = "freed"
      OBVIOUS
    <3>1. CASE mem'[q] = mem[q]
      BY <3>1
    <3>2. CASE Dropped(q)
      BY <3>2, <1>g, DroppedFacts, OwnFacts DEF Dropped
    <3> QED
      BY <3>1, <3>2, <1>2, OwnFacts
  <2>3. gc'.pc \in Marking \union Copying => gc.pc = gc'.pc
    BY <1>1 DEF Marking, Copying
  <2> QED
    BY <2>1, <2>2, <2>3, <1>g, <1>1 DEF VersInv
<1>6. RootInv'
  <2>1. \A u \in remSet' \union toRemSet' : isPinned(u.object)'
    <3>1. \A u \in Entries : u.object \in Addr
      BY EntryFacts, OwnFacts
    <3> QED
      BY <1>g, <1>1, <3>1, FreesSame DEF RootInv, OwnerTypes
  <2>2. gc'.pc \in Marking => \A u \in remSet' : u.from = Root /\ Scoped(u.object)' => opDepth(u.object)' <= gc'.level
    BY <1>g, <1>1 DEF RootInv, Scoped, opDepth
  <2>3. gc'.pc = "idle" => toRemSet' = {}
    BY <1>g, <1>1 DEF RootInv
  <2>4. ASSUME NEW t \in Own, RootTarget(t)' \/ WriteTarget(t)'
        PROVE  /\ mem'[Root].header.suspect
               /\ isPinned(t)' /\ mem'[t].space \in {"from", "pinned"}
               /\ \/ Remembered(t, Root) \in remSet' \/ Remembered(t, Root) \in toRemSet'
                  \/ gc'.pc = "keep" /\ gc'.entry = Remembered(t, Root)
               /\ gc'.pc \in Marking /\ Scoped(t)' =>
                    \/ Remembered(t, Root) \in remSet' \/ (gc'.pc = "keep" /\ gc'.entry = Remembered(t, Root))
                    \/ Visited(t)' \/ (gc'.pc = "entangled" /\ gc'.op = t)
    <3>1. RootTarget(t) \/ WriteTarget(t)
      BY <2>4, FreesSame
    <3>2. /\ mem[Root].header.suspect
          /\ isPinned(t) /\ mem[t].space \in {"from", "pinned"}
          /\ \/ Remembered(t, Root) \in remSet \/ Remembered(t, Root) \in toRemSet
             \/ gc.pc = "keep" /\ gc.entry = Remembered(t, Root)
          /\ gc.pc \in Marking /\ Scoped(t) =>
               \/ Remembered(t, Root) \in remSet \/ (gc.pc = "keep" /\ gc.entry = Remembered(t, Root))
               \/ Visited(t) \/ (gc.pc = "entangled" /\ gc.op = t)
      BY <3>1, <1>g DEF RootInv
    <3>3. gc.pc = "keep" => gc'.pc = "keep"
      BY <1>1
    <3> QED
      BY <3>2, <3>3, <1>1, FreesSame, OwnFacts
  <2> QED
    BY <2>1, <2>2, <2>3, <2>4 DEF RootInv, Remembered
<1>7. OwnerTypes'
  BY <1>g, <1>1 DEF OwnerTypes
<1>8. CollectorPins
  <2>1. \A p \in Own : isPinned(p) => mem'[p] = mem[p]
    BY FreesSame, OwnFacts
  <2>2. \A p \in Own : isPinned(p)' <=> isPinned(p)
    BY FreesSame, OwnFacts
  <2> QED
    BY <2>1, <2>2, FreesSame DEF CollectorPins, SameName
<1> QED
  BY <1>3, <1>4, <1>5, <1>6, <1>7, <1>8

\* Reclaim preserves the invariant.
LEMMA ReclaimKeeps ==
  ASSUME LocalInv, Reclaim
  PROVE  LocalInv'
<1>g. /\ GcTypes /\ ReaderTypes /\ OwnerTypes /\ MemTypes /\ DepthInv /\ HeadInv /\ FwdInv /\ VersInv
      /\ FieldInv /\ ScanInv /\ WorkInv /\ OpInv /\ WriteInv /\ RootInv /\ PinInv /\ HeldInv /\ BarrierInv
      /\ VisitedInv
  BY DEF LocalInv, GcInv, ReaderInv
<1>1. /\ UNCHANGED <<depth, shape, remSet, toRemSet, suspects, gc, localWrite, reader, held, counts>>
      /\ reader.pc = "idle"
      /\ mem' = [p \in Addr |-> IF mem[p].space = "retired" THEN FreedChunk ELSE mem[p]]
  BY DEF Reclaim, FreedChunk
<1>2. \A p \in Addr : /\ mem'[p] = mem[p] \/ Dropped(p)
                      /\ mem[p].space # "retired" => mem'[p] = mem[p]
                      /\ mem[p].space = "retired" => mem'[p] = FreedChunk
  <2> SUFFICES ASSUME NEW p \in Addr
               PROVE  /\ mem'[p] = mem[p] \/ Dropped(p)
                      /\ mem[p].space # "retired" => mem'[p] = mem[p]
                      /\ mem[p].space = "retired" => mem'[p] = FreedChunk
    OBVIOUS
  <2>1. mem'[p] = IF mem[p].space = "retired" THEN FreedChunk ELSE mem[p]
    BY <1>1
  <2>2. mem[p].space = "retired" => p \in Own /\ mem[p].header.pin = "none"
    BY <1>g, AddrFacts DEF HeadInv
  <2> QED
    BY <2>1, <2>2 DEF Dropped, isPinned, header
<1>3. MemTypes'
  <2>1. \A p \in Addr : (IF mem[p].space = "retired" THEN FreedChunk ELSE mem[p]) \in Chunk
    BY <1>g, MemFacts, FreedFacts
  <2> QED
    BY <1>1, <2>1 DEF MemTypes
<1>f. Frees
  BY <1>1, <1>2, <1>3 DEF Frees, CollectorRest
<1>4. DepthInv' /\ HeadInv' /\ VersInv' /\ RootInv' /\ OwnerTypes' /\ CollectorPins
  BY <1>f, FreesKeeps
<1>5. \A p \in Addr : /\ Live(p)' <=> Live(p)
                      /\ Live(p) => mem'[p] = mem[p]
                      /\ Good(p)' <=> Good(p)
                      /\ (mem'[p].space = "from" <=> mem[p].space = "from")
  BY <1>2, FreedFacts DEF Live, Good
<1>6. FwdInv'
  <2> SUFFICES ASSUME NEW p \in Own, mem'[p].space = "from", mem'[p].header.fwd
               PROVE  /\ gc'.pc \in Marking \union Copying \union {"free"} /\ depth'[p[1]] >= gc'.minDepth
                      /\ mem'[getFwdPtr(p)].space = "to"
                      /\ gc'.pc \in Marking => mem'[p].retire
    BY DEF FwdInv, getFwdPtr
  <2>1. mem'[p] = mem[p]
    BY <1>2, FreedFacts, OwnFacts
  <2>2. mem[getFwdPtr(p)].space = "to"
    BY <2>1, <1>g DEF FwdInv
  <2>3. getFwdPtr(p) \in Addr
    BY <2>1, <1>g, FwdRange, NextFacts, OwnFacts
  <2>4. mem'[getFwdPtr(p)].space = "to"
    BY <2>2, <2>3, <1>2
  <2> QED
    BY <2>1, <2>4, <1>1, <1>g DEF FwdInv
<1>7. FieldInv'
  <2> SUFFICES ASSUME NEW p \in Addr, NEW f \in LocalFields, NEW t \in Own, mem'[p].field[f] = t
               PROVE  /\ f \in FieldNames[p[1]] /\ p[1] \in Mutable \union {Stack}
                      /\ Live(p)' => Good(t)'
    BY DEF FieldInv
  <2>1. mem'[p] = mem[p]
    BY <1>2, FreedFacts, OwnFacts
  <2> QED
    BY <2>1, <1>5, <1>g, OwnFacts DEF FieldInv
<1>8. WriteInv'
  <2> SUFFICES ASSUME NEW w \in LocalWrites, localWrite' = w
               PROVE  /\ Live(w.dst)' /\ Live(w.src)' /\ w.f \in FieldNames[w.dst[1]] /\ w.dst[1] \in Mutable
                      /\ mem'[w.dst].field[w.f] = NULL
    BY <1>g, <1>1 DEF WriteInv
  <2>1. w.dst \in Addr /\ w.src \in Addr
    BY AddrFacts DEF LocalWrites
  <2>2. /\ Live(w.dst) /\ Live(w.src) /\ w.f \in FieldNames[w.dst[1]] /\ w.dst[1] \in Mutable
        /\ mem[w.dst].field[w.f] = NULL
    BY <1>g, <1>1 DEF WriteInv
  <2> QED
    BY <2>1, <2>2, <1>5
<1>9. GcTypes'
  BY <1>g, <1>1 DEF GcTypes
<1>10. \A p \in Own : Done(p) => Done(p)'
  BY <1>1, <1>f, FreesSame, OwnFacts DEF Done
<1>11. ScanInv'
  <2> SUFFICES ASSUME gc'.pc \in Marking \union Copying \union {"free"},
                      NEW x \in Own \union {Roots}, NEW f \in LocalFields, NEW t \in Own,
                      Scans(x)', mem'[x].field[f] = t
               PROVE  Slot(x, f) \in gc'.work \/ Slot(x, f) = gc'.slot \/ Done(t)'
    BY DEF ScanInv, Slot
  <2>1. mem'[x] = mem[x] /\ Scans(x)
    <3>1. CASE x = Roots
      BY <3>1, <1>1, <1>f, FreesSame DEF Scans
    <3>2. CASE x # Roots
      <4>1. Visited(x)' /\ ~(gc.pc = "store" /\ gc.copy = x)
        BY <3>2, <1>1 DEF Scans
      <4>2. x \in Addr /\ Visited(x)
        BY <4>1, <1>f, <3>2, FreesSame, OwnFacts
      <4> QED
        BY <4>1, <4>2, <3>2, <1>f, FreesSame DEF Scans
    <3> QED
      BY <3>1, <3>2
  <2> QED
    BY <2>1, <1>1, <1>10, <1>g DEF ScanInv
<1>12. WorkInv'
  <2>1. gc'.pc \in {"idle", "entries", "keep", "free", "unmark"} => gc'.work = {}
    BY <1>g, <1>1 DEF WorkInv
  <2>2. gc'.pc \in {"idle", "entries", "keep", "scan", "roots", "free", "unmark"} => gc'.slot = NULL
    BY <1>g, <1>1 DEF WorkInv
  <2>3. \A p \in Own : Visited(p) => Visited(p)' /\ mem'[p] = mem[p]
    BY <1>f, FreesSame, OwnFacts
  <2>4. mem'[Roots] = mem[Roots]
    BY <1>f, FreesSame
  <2>5. \A x \in Own \union {Root, Roots}, f \in LocalFields \union {NULL} : Slot(x, f) \in gc'.work =>
       \/ x \in Own /\ Visited(x)' /\ f \in LocalFields
       \/ x = Roots /\ f \in LocalFields /\ gc'.pc \in Copying
       \/ x = Root /\ f = NULL /\ gc'.pc \in Copying
    BY <1>g, <1>1, <2>3 DEF WorkInv
  <2>6. \A x \in Own \union {Root, Roots}, f \in LocalFields \union {NULL} : gc'.slot = Slot(x, f) =>
       /\ f \in LocalFields /\ gc'.op # NULL
       /\ (x \in Own /\ Visited(x)') \/ (x = Roots /\ gc'.pc \in Copying)
       /\ mem'[x].field[f] = gc'.op
    BY <1>g, <1>1, <2>3, <2>4 DEF WorkInv
  <2> QED
    BY <2>1, <2>2, <2>5, <2>6 DEF WorkInv, Slot
<1>13. OpInv'
  <2>1. \A p \in Own : mem[p].space \in {"from", "pinned", "to"} => mem'[p] = mem[p]
    BY <1>2, OwnFacts
  <2>2. \A p \in Own : isPinned(p)' <=> isPinned(p)
    BY <1>f, FreesSame, OwnFacts
  <2>3. \A p \in Own : Scoped(p)' <=> Scoped(p)
    BY <1>f, FreesSame, OwnFacts
  <2>4. gc'.pc = "keep" => gc'.entry # NULL
    BY <1>g, <1>1 DEF OpInv
  <2>5. \A e \in Entries : gc'.pc = "keep" /\ gc'.entry = e =>
       Scoped(e.object)' /\ isPinned(e.object)' /\ mem'[e.object].space \in {"from", "pinned"}
    <3>1. \A e \in Entries : gc.pc = "keep" /\ gc.entry = e =>
       Scoped(e.object) /\ isPinned(e.object) /\ mem[e.object].space \in {"from", "pinned"}
      BY <1>g DEF OpInv
    <3> QED
      BY <3>1, <2>1, <2>2, <2>3, <1>1, EntryFacts
  <2>6. /\ gc'.pc \in {"entangled", "copy", "forward", "install"} => gc'.op # NULL
        /\ gc'.pc \in {"copy", "forward", "store", "install"} => gc'.slot # NULL
        /\ gc'.pc = "store" => gc'.copy \in Own
        /\ gc'.pc \in Marking => gc'.minDepth <= gc'.level
    BY <1>g, <1>1 DEF OpInv
  <2>7. \A c \in Own : gc'.pc = "store" /\ gc'.copy = c =>
          /\ mem'[c].space = "to"
          /\ \A o \in Own : gc'.op = o => c[1] = o[1]
    BY <1>g, <1>1, <2>1 DEF OpInv
  <2>8. ASSUME NEW o \in Own, gc'.op = o
        PROVE
       /\ gc'.pc \in {"entangled", "copy", "forward", "install"} =>
            Scoped(o)' /\ mem'[o].space \in {"from", "pinned"} /\ ~mem'[o].header.fwd
       /\ gc'.pc = "entangled" => isPinned(o)' /\ (gc'.slot # NULL => mem'[o].header.pin = "any")
       /\ gc'.pc = "copy" => mem'[o].header.pin # "down" /\ ~mem'[o].header.mark
       /\ gc'.pc \in {"forward", "install"} =>
            /\ mem'[o].header.pin # "down" /\ ~mem'[o].header.mark
            /\ mem'[o].space = "from" /\ gc'.copy \in Chunk
            /\ gc'.copy.field = mem'[o].field
            /\ gc'.copy.header.pin = "none" /\ ~gc'.copy.header.fwd /\ ~gc'.copy.header.mark
            /\ gc'.copy.header.unpinDepth = 0
            /\ isPinned(o)' \/ mem'[o].header = gc'.copy.header
       /\ gc'.pc = "install" => mem'[o].header = gc'.copy.header
    <3>1. CASE gc.pc \in {"entangled", "copy", "forward", "install"}
      <4>1. mem[o].space \in {"from", "pinned"}
        BY <3>1, <2>8, <1>1, <1>g DEF OpInv
      <4>2. mem'[o] = mem[o]
        BY <4>1, <2>1
      <4> QED
        BY <4>2, <2>2, <2>3, <2>8, <1>1, <1>g DEF OpInv
    <3>2. CASE gc.pc \notin {"entangled", "copy", "forward", "install"}
      BY <3>2, <1>1
    <3> QED
      BY <3>1, <3>2
  <2> QED
    BY <2>4, <2>5, <2>6, <2>7, <2>8 DEF OpInv
<1>14. ReaderTypes' /\ PinInv' /\ HeldInv' /\ BarrierInv'
  <2>1. CollectorLeads
    BY <1>1, <1>g, OwnFacts DEF CollectorLeads, BarrierInv
  <2>2. CollectorRest
    BY <1>f DEF Frees
  <2> QED
    BY <2>1, <2>2, <1>4, <1>g, CollectorKeepsReader
<1>15. VisitedInv'
  <2> SUFFICES ASSUME gc'.pc \in Copying \union {"free"}
               PROVE  (\E Z \in SUBSET Own : KnownTo(Z))'
    BY DEF VisitedInv
  <2>1. PICK Z \in SUBSET Own : KnownTo(Z)
    BY <1>g, <1>1 DEF VisitedInv
  <2>2. KnownTo(Z)'
    <3>1. \A x \in Z : Visited(x)' /\ mem'[x] = mem[x]
      BY <2>1, <1>f, FreesSame, OwnFacts DEF KnownTo
    <3>2. \A q \in Own : isPinned(q)' /\ Scoped(q)' => q \in Z
      BY <2>1, <1>f, FreesSame, OwnFacts DEF KnownTo
    <3>3. \A x \in Z \union {Root}, f \in LocalFields, t \in Own :
            mem'[x].field[f] = t /\ Scoped(t)' => t \in Z
      BY <2>1, <3>1, <1>f, FreesSame, OwnFacts DEF KnownTo
    <3>4. \A p, q \in Own : reader'.ptr = p /\ LeadsTo(p, q)' /\ Scoped(q)' => q \in Z
      BY <1>1, <1>g, OwnFacts DEF BarrierInv
    <3>5. ASSUME NEW p \in Own, mem'[p].space = "from", mem'[p].header.fwd, getFwdPtr(p) \in Z
          PROVE  mem'[p].retire
      <4>1. mem'[p] = mem[p]
        BY <3>5, <1>2, FreedFacts, OwnFacts
      <4> QED
        BY <4>1, <3>5, <2>1 DEF KnownTo
    <3> QED
      BY <3>1, <3>2, <3>3, <3>4, <3>5 DEF KnownTo, getFwdPtr
  <2> QED
    BY <2>2
<1> QED
  BY <1>3, <1>4, <1>6, <1>7, <1>8, <1>9, <1>11, <1>12, <1>13, <1>14, <1>15 DEF LocalInv, GcInv,
    ReaderInv

\* FreeFromSpace preserves the invariant: by the known objects (VisitedInv), what
\* is freed is neither pinned nor what the reader's pointer leads to, and a
\* header that the reader may still follow is retired with its chunk.
LEMMA FreeFromSpaceKeeps ==
  ASSUME LocalInv, FreeFromSpace
  PROVE  LocalInv'
<1>g. /\ GcTypes /\ ReaderTypes /\ OwnerTypes /\ MemTypes /\ DepthInv /\ HeadInv /\ FwdInv /\ VersInv
      /\ FieldInv /\ ScanInv /\ WorkInv /\ OpInv /\ WriteInv /\ RootInv /\ PinInv /\ HeldInv /\ BarrierInv
      /\ VisitedInv
  BY DEF LocalInv, GcInv, ReaderInv
<1>1. /\ UNCHANGED <<depth, shape, remSet, toRemSet, suspects, localWrite, reader, held, counts>>
      /\ gc.pc = "free" /\ gc' = [gc EXCEPT !.pc = "unmark"]
      /\ mem' = [p \in Addr |->
           IF p \notin Garbage THEN mem[p]
           ELSE IF MustRetire(p) THEN [mem[p] EXCEPT !.space = "retired", !.retire = FALSE]
           ELSE FreedChunk]
  BY DEF FreeFromSpace, FreedChunk, Continue
<1>2. gc'.pc = "unmark" /\ gc'.minDepth = gc.minDepth /\ gc'.level = gc.level /\ gc'.work = gc.work
      /\ gc'.entry = gc.entry /\ gc'.slot = gc.slot /\ gc'.op = gc.op /\ gc'.copy = gc.copy
  BY <1>1, <1>g DEF GcTypes
<1>z. PICK Z \in SUBSET Own : KnownTo(Z)
  BY <1>1, <1>g DEF VisitedInv
<1>3. \A p \in Addr : p \in Garbage <=> mem[p].space = "from" /\ Scoped(p)
  BY DEF Garbage, IsInScope, Scoped, opDepth
<1>4. \A p \in Garbage : p \in Own /\ ~isPinned(p)
  <2> SUFFICES ASSUME NEW p \in Garbage PROVE p \in Own /\ ~isPinned(p)
    OBVIOUS
  <2>1. p \in Addr /\ mem[p].space = "from" /\ Scoped(p)
    BY <1>3 DEF Garbage
  <2>2. p \in Own
    BY <2>1, <1>g, AddrFacts DEF HeadInv
  <2>3. isPinned(p) => Visited(p)
    BY <2>1, <2>2, <1>z DEF KnownTo
  <2> QED
    BY <2>1, <2>2, <2>3 DEF Visited
<1>5. ASSUME NEW p \in Addr
      PROVE  /\ p \notin Garbage => mem'[p] = mem[p]
             /\ p \in Garbage /\ mem[p].retire =>
                  /\ mem'[p] \in Chunk /\ mem'[p].header = mem[p].header /\ mem'[p].field = mem[p].field
                  /\ mem'[p].space = "retired"
             /\ p \in Garbage /\ ~mem[p].retire => mem'[p] = FreedChunk
             /\ mem'[p] \in Chunk
  <2>1. mem'[p] = IF p \notin Garbage THEN mem[p]
           ELSE IF mem[p].retire THEN [mem[p] EXCEPT !.space = "retired", !.retire = FALSE]
           ELSE FreedChunk
    BY <1>1 DEF MustRetire
  <2>2. PICK k \in Chunk : k = mem[p]
    BY <1>g, MemFacts
  <2>3. /\ [k EXCEPT !.space = "retired", !.retire = FALSE] \in Chunk
        /\ [k EXCEPT !.space = "retired", !.retire = FALSE].header = k.header
        /\ [k EXCEPT !.space = "retired", !.retire = FALSE].field = k.field
        /\ [k EXCEPT !.space = "retired", !.retire = FALSE].space = "retired"
    BY DEF Chunk, Spaces
  <2> QED
    BY <2>1, <2>2, <2>3, FreedFacts
<1>6. MemTypes'
  <2>1. DOMAIN mem' = Addr
    BY <1>1
  <2>2. mem' = [p \in Addr |-> mem'[p]]
    BY <1>1
  <2> QED
    BY <2>2, <1>5 DEF MemTypes
<1>7. \A p \in Addr : mem'[p] = mem[p] \/ Dropped(p)
  BY <1>3, <1>4, <1>5 DEF Dropped
<1>f. Frees
  BY <1>1, <1>2, <1>6, <1>7 DEF Frees, CollectorRest
<1>8. DepthInv' /\ HeadInv' /\ VersInv' /\ RootInv' /\ OwnerTypes' /\ CollectorPins
  BY <1>f, FreesKeeps
<1>9. FwdInv'
  <2> SUFFICES ASSUME NEW p \in Own, mem'[p].space = "from", mem'[p].header.fwd
               PROVE  FALSE
    BY DEF FwdInv
  <2>1. p \notin Garbage
    BY <1>5, FreedFacts, OwnFacts
  <2>2. mem[p].space = "from" /\ mem[p].header.fwd
    BY <2>1, <1>5, OwnFacts
  <2>3. Scoped(p)
    BY <2>2, <1>g DEF FwdInv, Scoped
  <2> QED
    BY <2>1, <2>2, <2>3, <1>3, OwnFacts
<1>10. FieldInv'
  <2> SUFFICES ASSUME NEW p \in Addr, NEW f \in LocalFields, NEW t \in Own, mem'[p].field[f] = t
               PROVE  /\ f \in FieldNames[p[1]] /\ p[1] \in Mutable \union {Stack}
                      /\ Live(p)' => Good(t)'
    BY DEF FieldInv
  <2>1. mem[p].field[f] = t
    BY <1>7, <1>g, <1>6, DroppedFacts
  <2>2. /\ f \in FieldNames[p[1]] /\ p[1] \in Mutable \union {Stack}
        /\ Live(p) => Good(t)
    BY <2>1, <1>g DEF FieldInv
  <2>3. ASSUME Live(p)' PROVE Good(t)'
    <3>1. p \notin Garbage
      BY <2>3, <1>5, FreedFacts DEF Live
    <3>2. mem'[p] = mem[p] /\ Live(p)
      BY <3>1, <2>3, <1>5 DEF Live
    <3>3. t \notin Garbage
      <4>1. CASE p = Root
        <5>1. isPinned(t)
          BY <4>1, <2>1, <1>g DEF RootInv, RootTarget
        <5> QED
          BY <5>1, <1>4
      <4>2. CASE p # Root
        <5>1. p = Roots \/ (p \in Own /\ Visited(p))
          <6>1. CASE p = Roots
            BY <6>1
          <6>2. CASE p \in Own
            <7>1. p[1] \in LocalObjects \intersect Mutable
              BY <6>2, <2>2, OwnFacts, AddrFacts
            <7>2. Scoped(p)
              BY <7>1, <1>1, <1>g DEF DepthInv, InGc, Scoped
            <7>3. mem[p].space # "from"
              BY <7>2, <3>1, <1>3
            <7> QED
              BY <6>2, <7>3, <3>2, <1>g DEF Live, HeadInv, Visited
          <6> QED
            BY <6>1, <6>2, <4>2, AddrFacts
        <5>2. Scans(p) /\ p \in Own \union {Roots}
          BY <5>1, <1>1, PcFacts, AddrFacts DEF Scans
        <5>3. Slot(p, f) \in gc.work \/ Slot(p, f) = gc.slot \/ Done(t)
          BY <5>2, <2>1, <1>1, <1>g DEF ScanInv
        <5>w. gc.work = {} /\ gc.slot = NULL
          BY <1>1, <1>g DEF WorkInv
        <5>n. Slot(p, f) # NULL
          BY <5>2, SlotIsNotNull
        <5>4. Done(t)
          BY <5>3, <5>w, <5>n
        <5>5. ~Scoped(t) \/ Visited(t)
          BY <5>4, <1>1, PcFacts DEF Done
        <5> QED
          BY <5>5, <1>3, OwnFacts DEF Visited
      <4> QED
        BY <4>1, <4>2
    <3>4. mem'[t] = mem[t] /\ Good(t)
      BY <3>3, <3>2, <2>2, <1>5, OwnFacts
    <3> QED
      BY <3>4 DEF Good, Live
  <2> QED
    BY <2>2, <2>3
<1>11. WriteInv'
  <2>1. localWrite = NULL
    BY <1>g, <1>1 DEF WriteInv
  <2> QED
    BY <1>1, <2>1, AddrFacts DEF WriteInv
<1>12. GcTypes'
  <2>1. "unmark" \in GcPcs
    BY DEF GcPcs
  <2> QED
    BY <2>1, <1>g, <1>1 DEF GcTypes
<1>13. ScanInv' /\ VisitedInv'
  BY <1>2, PcFacts DEF ScanInv, VisitedInv
<1>14. WorkInv'
  <2>1. gc'.work = {} /\ gc'.slot = NULL
    BY <1>1, <1>2, <1>g DEF WorkInv
  <2> QED
    BY <2>1, SlotIsNotNull DEF WorkInv, Slot
<1>15. OpInv'
  BY <1>2, PcFacts DEF OpInv
<1>16. CollectorLeads
  <2> SUFFICES ASSUME NEW p \in Own, NEW q \in Own, reader.ptr = p, LeadsTo(p, q)
               PROVE  LeadsTo(p, q)'
    BY DEF CollectorLeads
  <2>1. q \notin Garbage /\ (Scoped(q) => q \in Z)
    BY <1>3, <1>z, OwnFacts DEF KnownTo, Visited
  <2>2. Live(q)'
    <3>1. Live(q)
      BY DEF LeadsTo
    <3> QED
      BY <3>1, <2>1, <1>5, OwnFacts DEF Live
  <2>3. ASSUME NEW m \in p[2] .. q[2] - 1 PROVE mem'[<<p[1], m>>].header.fwd
    <3>1. p[2] \in Nat /\ q[2] \in Nat /\ q[1] = p[1] /\ p[2] <= q[2]
      BY OwnFacts DEF LeadsTo
    <3>2. m \in p[2] .. q[2]
      BY <3>1
    <3>3. PICK v \in Own : v = <<p[1], m>> /\ v[1] = p[1] /\ v[2] = m
      BY <3>2, VersionIsOwn
    <3>4. mem[v].header.fwd
      BY <3>3 DEF LeadsTo
    <3>5. CASE v \notin Garbage
      BY <3>5, <3>3, <3>4, <1>5, OwnFacts
    <3>6. CASE v \in Garbage
      <4>1. mem[v].space = "from" /\ Scoped(v)
        BY <3>6, <1>3, OwnFacts
      <4>2. mem[getFwdPtr(v)].space = "to"
        BY <4>1, <3>4, <1>g DEF FwdInv
      <4>3. CASE m + 1 = q[2]
        <5>1. q = getFwdPtr(v)
          BY <4>3, <3>1, <3>3, NextOf
        <5>2. Scoped(q)
          BY <4>1, <3>1, <3>3 DEF Scoped
        <5>3. mem[v].retire
          BY <5>1, <5>2, <2>1, <4>1, <3>4, <1>z DEF KnownTo
        <5> QED
          BY <5>3, <3>6, <3>3, <3>4, <1>5, OwnFacts
      <4>4. CASE m + 1 # q[2]
        <5>1. m + 1 \in p[2] .. q[2] - 1 /\ m + 1 \in p[2] .. q[2]
          BY <4>4, <3>1, <3>2
        <5>2. <<p[1], m + 1>> = getFwdPtr(v) /\ getFwdPtr(v) \in Own
          BY <5>1, <3>3, VersionIsOwn DEF getFwdPtr
        <5>3. mem[getFwdPtr(v)].header.fwd
          BY <5>1, <5>2 DEF LeadsTo
        <5>4. mem[getFwdPtr(v)].space \in {"from", "retired"}
          BY <5>2, <5>3, <1>g DEF HeadInv
        <5> QED
          BY <4>2, <5>4
      <4> QED
        BY <4>3, <4>4
    <3> QED
      BY <3>5, <3>6
  <2> QED
    BY <2>2, <2>3 DEF LeadsTo
<1>17. ReaderTypes' /\ PinInv' /\ HeldInv' /\ BarrierInv'
  <2>1. CollectorRest
    BY <1>f DEF Frees
  <2> QED
    BY <2>1, <1>16, <1>8, <1>g, CollectorKeepsReader
<1> QED
  BY <1>6, <1>8, <1>9, <1>10, <1>11, <1>12, <1>13, <1>14, <1>15, <1>17 DEF LocalInv, GcInv,
    ReaderInv

Unmarks(p, k) ==
  [k EXCEPT !.header.mark = @ /\ ~IsUnmarked(p),
            !.retire = @ /\ k.space # "pinned",
            !.space = IF @ \in {"pinned", "to"} THEN "from" ELSE @]

\* What Unmark does to one object,
LEMMA UnmarksFacts ==
  ASSUME NEW p, NEW k \in Chunk
  PROVE  /\ Unmarks(p, k) \in Chunk
         /\ Unmarks(p, k).field = k.field
         /\ Unmarks(p, k).space = IF k.space \in {"pinned", "to"} THEN "from" ELSE k.space
         /\ Unmarks(p, k).retire = (k.retire /\ k.space # "pinned")
         /\ Unmarks(p, k).header.fwd = k.header.fwd /\ Unmarks(p, k).header.pin = k.header.pin
         /\ Unmarks(p, k).header.unpinDepth = k.header.unpinDepth
         /\ Unmarks(p, k).header.suspect = k.header.suspect
         /\ Unmarks(p, k).header.mark = (k.header.mark /\ ~IsUnmarked(p))
         /\ ~k.header.mark => Unmarks(p, k).header = k.header
<1>1. PICK h \in Header : h = k.header
  BY DEF Chunk
<1>2. PICK m \in BOOLEAN : m = (h.mark /\ ~IsUnmarked(p)) /\ (~h.mark => m = h.mark)
  BY DEF Header
<1>3. PICK r \in BOOLEAN : r = (k.retire /\ k.space # "pinned")
  OBVIOUS
<1>4. PICK s \in Spaces : s = IF k.space \in {"pinned", "to"} THEN "from" ELSE k.space
  BY DEF Chunk, Spaces
<1>5. PICK g \in Header : g = [h EXCEPT !.mark = m]
  BY <1>2 DEF Header
<1>6. Unmarks(p, k) = [k EXCEPT !.header = g, !.retire = r, !.space = s]
  BY <1>1, <1>2, <1>3, <1>4, <1>5 DEF Unmarks
<1>7. /\ g.fwd = h.fwd /\ g.pin = h.pin /\ g.unpinDepth = h.unpinDepth /\ g.suspect = h.suspect /\ g.mark = m
      /\ (m = h.mark => g = h)
  BY <1>5 DEF Header
<1>8. /\ [k EXCEPT !.header = g, !.retire = r, !.space = s] \in Chunk
      /\ [k EXCEPT !.header = g, !.retire = r, !.space = s].header = g
      /\ [k EXCEPT !.header = g, !.retire = r, !.space = s].retire = r
      /\ [k EXCEPT !.header = g, !.retire = r, !.space = s].space = s
      /\ [k EXCEPT !.header = g, !.retire = r, !.space = s].field = k.field
  BY DEF Chunk
<1> QED
  BY <1>1, <1>2, <1>3, <1>4, <1>6, <1>7, <1>8

\* ... to all of them: no mark is left,
LEMMA UnmarkedMem ==
  ASSUME LocalInv, Unmark, NEW p \in Addr
  PROVE  /\ mem'[p] \in Chunk /\ mem'[p].field = mem[p].field
         /\ mem'[p].space = IF mem[p].space \in {"pinned", "to"} THEN "from" ELSE mem[p].space
         /\ mem'[p].header.fwd = mem[p].header.fwd /\ mem'[p].header.pin = mem[p].header.pin
         /\ mem'[p].header.unpinDepth = mem[p].header.unpinDepth
         /\ mem'[p].header.suspect = mem[p].header.suspect
         /\ ~mem'[p].header.mark
         /\ ~mem[p].header.mark => mem'[p].header = mem[p].header
         /\ mem[p].header.fwd => mem[p].space # "from"
         /\ p \in {Root, Roots} => mem'[p] = mem[p]
<1>g. MemTypes /\ HeadInv /\ FwdInv
  BY DEF LocalInv, GcInv
<1>1. mem[p] \in Chunk
  BY <1>g, MemFacts
<1>2. mem' = [q \in Addr |-> Unmarks(q, mem[q])]
  BY DEF Unmark, Unmarks
<1>3. mem'[p] = Unmarks(p, mem[p])
  BY <1>2
<1>4. mem[p].header.mark => IsUnmarked(p)
  BY <1>g, AddrFacts DEF HeadInv, IsUnmarked
<1>5. mem[p].header.fwd => mem[p].space # "from"
  <2>1. gc.pc = "unmark"
    BY DEF Unmark
  <2>2. gc.pc \notin Marking \union Copying \union {"free"}
    BY <2>1, PcFacts
  <2>3. CASE p \in Own
    BY <2>2, <2>3, <1>g DEF FwdInv
  <2>4. CASE p \notin Own
    BY <2>4, <1>g, AddrFacts DEF HeadInv
  <2> QED
    BY <2>3, <2>4
<1>6. ASSUME p \in {Root, Roots} PROVE mem'[p] = mem[p]
  <2>1. mem[p].space = "outside" /\ ~mem[p].header.mark
    BY <1>6, <1>g DEF HeadInv
  <2>2. PICK k \in Chunk, k2 \in Chunk : k = mem[p] /\ k2 = Unmarks(p, k)
    BY <1>1, UnmarksFacts
  <2>3. k2.header = k.header /\ k2.space = k.space /\ k2.field = k.field /\ k2.retire = k.retire
    <3>1. k2.retire = (k.retire /\ k.space # "pinned") /\ k.retire \in BOOLEAN
      BY <2>2, UnmarksFacts DEF Chunk
    <3>2. k2.retire = k.retire
      BY <3>1, <2>1, <2>2
    <3> QED
      BY <2>1, <2>2, <3>2, UnmarksFacts
  <2>4. k2 = k
    BY <2>3 DEF Chunk
  <2> QED
    BY <2>2, <2>4, <1>3
<1>7. PICK k \in Chunk : k = mem[p]
  BY <1>1
<1>8. k.header.mark \in BOOLEAN
  BY DEF Chunk, Header
<1>9. mem'[p] = Unmarks(p, k)
  BY <1>3, <1>7
<1>10. ~Unmarks(p, k).header.mark
  BY <1>4, <1>7, <1>8, UnmarksFacts
<1> QED
  BY <1>5, <1>6, <1>7, <1>9, <1>10, UnmarksFacts

\* ... and to the entries, whose objects were not moved.
LEMMA UnmarkedEntries ==
  ASSUME LocalInv, Unmark
  PROVE  remSet' = remSet \union toRemSet
<1>g. MemTypes /\ OwnerTypes /\ HeadInv /\ VersInv
  BY DEF LocalInv, GcInv
<1> DEFINE New(e) == [e EXCEPT !.from = IF @ = NULL THEN @ ELSE getRacyFwdPtr[@]]
<1>1. remSet' = remSet \union {New(e) : e \in toRemSet}
  BY DEF Unmark
<1>2. \A e \in toRemSet : New(e) = e
  <2> SUFFICES ASSUME NEW e \in toRemSet PROVE New(e) = e
    OBVIOUS
  <2>1. e \in Entries
    BY <1>g DEF OwnerTypes
  <2>2. (IF e.from = NULL THEN e.from ELSE getRacyFwdPtr[e.from]) = e.from
    <3>1. e.from \in {NULL, Root}
      BY <2>1, EntryFacts
    <3>2. getRacyFwdPtr[Root] = Root
      BY <1>g, RacyFacts
    <3> QED
      BY <3>1, <3>2
  <2>3. New(e) = [e EXCEPT !.from = e.from]
    BY <2>2
  <2> QED
    BY <2>1, <2>3 DEF Entries
<1> HIDE DEF New
<1>3. {New(e) : e \in toRemSet} = toRemSet
  BY <1>2
<1> QED
  BY <1>1, <1>3

\* Unmark preserves the invariant.
LEMMA UnmarkKeeps ==
  ASSUME LocalInv, Unmark
  PROVE  LocalInv'
<1>g. /\ GcTypes /\ ReaderTypes /\ OwnerTypes /\ MemTypes /\ DepthInv /\ HeadInv /\ FwdInv /\ VersInv
      /\ FieldInv /\ ScanInv /\ WorkInv /\ OpInv /\ WriteInv /\ RootInv /\ PinInv /\ HeldInv /\ BarrierInv
      /\ VisitedInv
  BY DEF LocalInv, GcInv, ReaderInv
<1>1. /\ UNCHANGED <<depth, shape, suspects, localWrite, reader, held, counts>>
      /\ gc.pc = "unmark" /\ gc' = IdleGC /\ toRemSet' = {}
      /\ DOMAIN mem' = Addr
  BY DEF Unmark
<1>2. gc'.pc = "idle" /\ gc'.work = {} /\ gc'.slot = NULL /\ gc'.op = NULL
  BY <1>1 DEF IdleGC
<1>3. remSet' = remSet \union toRemSet
  BY UnmarkedEntries
<1>4. \A p \in Addr :
         /\ mem'[p] \in Chunk /\ mem'[p].field = mem[p].field
         /\ mem'[p].space = IF mem[p].space \in {"pinned", "to"} THEN "from" ELSE mem[p].space
         /\ mem'[p].header.fwd = mem[p].header.fwd /\ mem'[p].header.pin = mem[p].header.pin
         /\ mem'[p].header.unpinDepth = mem[p].header.unpinDepth
         /\ mem'[p].header.suspect = mem[p].header.suspect
         /\ ~mem'[p].header.mark
         /\ ~mem[p].header.mark => mem'[p].header = mem[p].header
         /\ mem[p].header.fwd => mem[p].space # "from"
         /\ p \in {Root, Roots} => mem'[p] = mem[p]
  BY UnmarkedMem
<1>5. MemTypes'
  <2>1. mem' = [p \in Addr |-> mem'[p]]
    BY DEF Unmark
  <2> QED
    BY <2>1, <1>4 DEF MemTypes
<1>6. \A p \in Addr : /\ (Live(p)' <=> Live(p)) /\ (Good(p)' <=> Good(p)) /\ (isPinned(p)' <=> isPinned(p))
  <2> SUFFICES ASSUME NEW p \in Addr
               PROVE  /\ (Live(p)' <=> Live(p)) /\ (Good(p)' <=> Good(p)) /\ (isPinned(p)' <=> isPinned(p))
    OBVIOUS
  <2>1. isPinned(p)' <=> isPinned(p)
    BY <1>4 DEF isPinned, header
  <2>2. Live(p)' <=> Live(p)
    BY <1>4 DEF Live
  <2>3. Good(p) => Live(p)
    BY <1>4 DEF Good
  <2>4. mem'[p].header.fwd => mem'[p].space # "from"
    BY <1>4, <1>g, AddrFacts DEF HeadInv
  <2> QED
    BY <2>1, <2>2, <2>3, <2>4 DEF Good
<1>7. DepthInv'
  BY <1>g, <1>1, <1>2 DEF DepthInv, InGc
<1>8. HeadInv'
  <2>1. \A p \in Addr : /\ mem'[p].header.unpinDepth = IF mem'[p].header.pin = "none" THEN 0 ELSE SharedDepth
                        /\ mem'[p].header.fwd => mem'[p].header = FwdHeader
    BY <1>g, <1>4, HeaderTypes DEF HeadInv
  <2>2. \A p \in {Root, Roots} :
          /\ mem'[p].header.pin = "none" /\ ~mem'[p].header.fwd /\ ~mem'[p].header.mark
          /\ mem'[p].space = "outside"
    BY <1>g, <1>4, AddrFacts DEF HeadInv
  <2>3. \A p \in Own :
         /\ mem'[p].space # "outside"
         /\ mem'[p].header.pin # "none" => mem'[p].space \in {"from", "pinned", "to"}
         /\ mem'[p].space = "pinned" => mem'[p].header.pin # "none"
         /\ mem'[p].header.mark => /\ mem'[p].space = "pinned" /\ mem'[p].header.pin = "any"
                                  /\ Remembered(p, NULL) \in toRemSet'
         /\ mem'[p].header.fwd => mem'[p].space \in {"from", "retired"}
         /\ mem'[p].space \in {"none", "freed"} => mem'[p].header = Plain
         /\ mem'[p].space \in {"pinned", "to"} => gc'.pc # "idle" /\ depth'[p[1]] >= gc'.minDepth
    <3> SUFFICES ASSUME NEW p \in Own
                 PROVE
         /\ mem'[p].space # "outside"
         /\ mem'[p].header.pin # "none" => mem'[p].space \in {"from", "pinned", "to"}
         /\ mem'[p].space = "pinned" => mem'[p].header.pin # "none"
         /\ mem'[p].header.mark => /\ mem'[p].space = "pinned" /\ mem'[p].header.pin = "any"
                                  /\ Remembered(p, NULL) \in toRemSet'
         /\ mem'[p].header.fwd => mem'[p].space \in {"from", "retired"}
         /\ mem'[p].space \in {"none", "freed"} => mem'[p].header = Plain
         /\ mem'[p].space \in {"pinned", "to"} => gc'.pc # "idle" /\ depth'[p[1]] >= gc'.minDepth
      OBVIOUS
    <3>1. p \in Addr
      BY OwnFacts
    <3>2. mem'[p].space \notin {"pinned", "to", "outside"}
      BY <3>1, <1>4, <1>g DEF HeadInv
    <3>3. /\ mem'[p].header.pin # "none" => mem'[p].space \in {"from", "pinned", "to"}
          /\ mem'[p].header.fwd => mem'[p].space \in {"from", "retired"}
          /\ ~mem'[p].header.mark
      BY <3>1, <1>4, <1>g DEF HeadInv
    <3>4. mem'[p].space \in {"none", "freed"} => mem'[p].header = Plain
      BY <3>1, <1>4, <1>g, HeaderTypes DEF HeadInv
    <3> QED
      BY <3>2, <3>3, <3>4
  <2> QED
    BY <2>1, <2>2, <2>3 DEF HeadInv
<1>9. FwdInv'
  <2>1. \A p \in Own : mem'[p].header.fwd => mem'[p].space # "from"
    BY <1>4, <1>g, OwnFacts DEF HeadInv
  <2> QED
    BY <2>1 DEF FwdInv
<1>10. VersInv'
  <2>1. \A p \in Own : /\ mem'[p].space # "none" => mem[p].space # "none"
                       /\ mem'[p].header.fwd = mem[p].header.fwd
                       /\ mem[p].space = "freed" => mem'[p].space = "freed"
    BY <1>4, OwnFacts
  <2>2. gc'.pc \notin Marking \union Copying
    BY <1>2, PcFacts
  <2> QED
    BY <2>1, <2>2, <1>1, <1>g DEF VersInv
<1>11. FieldInv'
  <2>1. \A p \in Addr, f \in LocalFields : mem'[p].field[f] = mem[p].field[f]
    BY <1>4
  <2>2. \A t \in Own : Good(t)' <=> Good(t)
    BY <1>6, OwnFacts
  <2> QED
    BY <2>1, <2>2, <1>6, <1>g DEF FieldInv
<1>12. WriteInv'
  <2>1. localWrite = NULL
    BY <1>g, <1>1 DEF WriteInv
  <2> QED
    BY <1>1, <2>1, AddrFacts DEF WriteInv
<1>13. GcTypes'
  <2>1. IdleGC.pc \in GcPcs /\ MaxDepth \in 2 .. MaxDepth
    BY DEF GcPcs, IdleGC, MaxDepth
  <2> QED
    BY <2>1, <1>1 DEF GcTypes, IdleGC
<1>14. OwnerTypes'
  BY <1>g, <1>1, <1>3 DEF OwnerTypes
<1>15. RootInv'
  <2>1. \A u \in remSet' \union toRemSet' : isPinned(u.object)'
    <3>1. \A u \in Entries : u.object \in Addr
      BY EntryFacts, OwnFacts
    <3> QED
      BY <1>g, <1>1, <1>3, <3>1, <1>6 DEF RootInv, OwnerTypes
  <2>2. gc'.pc \notin Marking
    BY <1>2, PcFacts
  <2>3. mem'[Root] = mem[Root]
    BY <1>4, AddrFacts
  <2>4. ASSUME NEW t \in Own, RootTarget(t)' \/ WriteTarget(t)'
        PROVE  /\ mem'[Root].header.suspect
               /\ isPinned(t)' /\ mem'[t].space \in {"from", "pinned"}
               /\ Remembered(t, Root) \in remSet'
    <3>1. RootTarget(t) \/ WriteTarget(t)
      BY <2>4, <2>3, <1>1 DEF RootTarget, WriteTarget
    <3>2. /\ mem[Root].header.suspect
          /\ isPinned(t) /\ mem[t].space \in {"from", "pinned"}
          /\ Remembered(t, Root) \in remSet \/ Remembered(t, Root) \in toRemSet
      BY <3>1, <1>1, <1>g DEF RootInv
    <3> QED
      BY <3>2, <2>3, <1>3, <1>4, <1>6, OwnFacts
  <2> QED
    BY <2>1, <2>2, <2>4, <1>1 DEF RootInv, Remembered
<1>16. ScanInv' /\ VisitedInv'
  BY <1>2, PcFacts DEF ScanInv, VisitedInv
<1>17. WorkInv'
  BY <1>2, SlotIsNotNull DEF WorkInv, Slot
<1>18. OpInv'
  BY <1>2, PcFacts DEF OpInv
<1>19. CollectorPins
  <2>1. \A p \in Own : /\ (isPinned(p)' <=> isPinned(p)) /\ mem'[p].field = mem[p].field
                       /\ mem'[p].header.pin = mem[p].header.pin /\ mem'[p].header.suspect = mem[p].header.suspect
    BY <1>4, <1>6, OwnFacts
  <2> QED
    BY <2>1, <1>4, AddrFacts DEF CollectorPins, SameName
<1>20. CollectorLeads
  <2> SUFFICES ASSUME NEW p \in Own, NEW q \in Own, LeadsTo(p, q)
               PROVE  LeadsTo(p, q)'
    BY DEF CollectorLeads
  <2>1. Live(q)'
    BY <1>6, OwnFacts DEF LeadsTo
  <2>2. ASSUME NEW m \in p[2] .. q[2] - 1 PROVE mem'[<<p[1], m>>].header.fwd
    <3>1. m \in p[2] .. q[2]
      BY OwnFacts
    <3>2. PICK v \in Own : v = <<p[1], m>>
      BY <3>1, VersionIsOwn
    <3> QED
      BY <3>2, <1>4, OwnFacts DEF LeadsTo
  <2> QED
    BY <2>1, <2>2 DEF LeadsTo
<1>21. ReaderTypes' /\ PinInv' /\ HeldInv' /\ BarrierInv'
  BY <1>1, <1>19, <1>20, <1>g, CollectorKeepsReader DEF CollectorRest
<1> QED
  BY <1>5, <1>7, <1>8, <1>9, <1>10, <1>11, <1>12, <1>13, <1>14, <1>15, <1>16, <1>17, <1>18, <1>21
     DEF LocalInv, GcInv, ReaderInv

\* The collector preserves the invariant.
LEMMA CollectorStepKeeps ==
  ASSUME LocalInv, Collector
  PROVE  LocalInv'
<1>1. ASSUME NEW d \in 2 .. MaxDepth, StartCollection(d) PROVE LocalInv'
  BY <1>1, StartCollectionKeeps
<1>2. ASSUME NEW e \in remSet, TakeEntry(e) PROVE LocalInv'
  BY <1>2, TakeEntryKeeps
<1>3. ASSUME NEW slot \in gc.work, MarkAndAdd(slot) PROVE LocalInv'
  BY <1>3, MarkAndAddKeeps
<1>4. ASSUME NEW slot \in gc.work, ForwardHHObjptr(slot) PROVE LocalInv'
  BY <1>4, ForwardHHObjptrKeeps
<1>5. ASSUME NextLevel PROVE LocalInv'
  BY <1>5, NextLevelUp, NextLevelToRoots
<1> QED
  BY <1>1, <1>2, <1>3, <1>4, <1>5, KeepEntryKeeps, MarkInPlaceKeeps, CopyKeeps,
    CompareAndSwapKeeps,
     StoreNewKeeps, ScannedKeeps, InstallKeeps, CopySuspectsKeeps, FreeFromSpaceKeeps, UnmarkKeeps
     DEF Collector

\* ... and so does what changes nothing.
LEMMA StutterKeeps ==
  ASSUME LocalInv, UNCHANGED localVars
  PROVE  LocalInv'
<1>1. UNCHANGED <<mem, depth, shape, remSet, toRemSet, suspects, gc, localWrite, reader, held, counts>>
  BY DEF localVars
<1>2. /\ GcTypes /\ ReaderTypes /\ OwnerTypes /\ MemTypes /\ DepthInv /\ HeadInv /\ FwdInv /\ VersInv
      /\ FieldInv /\ ScanInv /\ WorkInv /\ OpInv /\ WriteInv /\ RootInv /\ PinInv /\ HeldInv /\ BarrierInv
      /\ VisitedInv
  BY DEF LocalInv, GcInv, ReaderInv
<1>3. GcTypes' /\ ReaderTypes' /\ OwnerTypes' /\ MemTypes' /\ DepthInv'
  BY <1>1, <1>2 DEF GcTypes, ReaderTypes, OwnerTypes, MemTypes, DepthInv, InGc
<1>4. HeadInv' /\ FwdInv' /\ VersInv'
  BY <1>1, <1>2 DEF HeadInv, FwdInv, VersInv, getFwdPtr
<1>5. FieldInv' /\ ScanInv' /\ WorkInv'
  <2>1. FieldInv'
    BY <1>1, <1>2 DEF FieldInv, Good, Live
  <2>2. ScanInv'
    BY <1>1, <1>2 DEF ScanInv, Scans, Visited, Done, Scoped, RootTarget, Slot
  <2>3. WorkInv'
    BY <1>1, <1>2 DEF WorkInv, Slot, Visited
  <2> QED
    BY <2>1, <2>2, <2>3
<1>6. OpInv' /\ WriteInv'
  <2>1. OpInv'
    BY <1>1, <1>2 DEF OpInv, Scoped, isPinned, header
  <2>2. WriteInv'
    BY <1>1, <1>2 DEF WriteInv, Live
  <2> QED
    BY <2>1, <2>2
<1>7. RootInv' /\ PinInv' /\ HeldInv'
  <2>1. RootInv'
    BY <1>1, <1>2 DEF RootInv, isPinned, header, Scoped, opDepth, RootTarget, WriteTarget,
      Visited, Remembered
  <2>2. PinInv'
    BY <1>1, <1>2 DEF PinInv, isPinned, header, RootTarget, WriteTarget, Ending, Top
  <2>3. HeldInv'
    BY <1>1, <1>2 DEF HeldInv, isPinned, header, isMutable, Names
  <2> QED
    BY <2>1, <2>2, <2>3
<1>8. BarrierInv' /\ VisitedInv'
  <2>1. BarrierInv'
    <3>1. Top' = Top
      BY <1>1 DEF Top
    <3>2. \A p, q \in Own : LeadsTo(p, q)' <=> LeadsTo(p, q)
      BY <1>1 DEF LeadsTo, Live
    <3>3. \A p \in Own : isPinned(p)' <=> isPinned(p)
      BY <1>1 DEF isPinned, header
    <3>4. \A x \in Addr, f \in LocalFields, p \in Own : Names(x, f, p)' <=> Names(x, f, p)
      BY <1>1 DEF Names
    <3>5. held \union {Root} \subseteq Addr
      BY <1>2, AddrFacts DEF ReaderTypes
    <3>6. reader.frames = <<Top>> => reader'.frames = <<Top'>>
      BY <1>1, <3>1
    <3>7. ASSUME NEW p \in Own, reader'.ptr = p
          PROVE  /\ \E x \in held' \union {Root}, f \in LocalFields :
                      reader'.slot = Slot(x, f) /\ x[1] \in Mutable /\ Names(x, f, p)'
                 /\ \E q \in Own : LeadsTo(p, q)'
                 /\ reader'.pc = "entangle" =>
                      /\ Top'.pc = "fields" => p[1] \notin Mutable
                      /\ Top'.pc \in {"remember", "finish"} =>
                           \E q \in Own : Top'.new = q /\ LeadsTo(p, q)' /\ isPinned(q)'
      <4>1. /\ \E x \in held \union {Root}, f \in LocalFields :
                      reader.slot = Slot(x, f) /\ x[1] \in Mutable /\ Names(x, f, p)
            /\ \E q \in Own : LeadsTo(p, q)
            /\ reader.pc = "entangle" =>
                      /\ Top.pc = "fields" => p[1] \notin Mutable
                      /\ Top.pc \in {"remember", "finish"} =>
                           \E q \in Own : Top.new = q /\ LeadsTo(p, q) /\ isPinned(q)
        BY <3>7, <1>1, <1>2 DEF BarrierInv
      <4> QED
        BY <4>1, <3>1, <3>2, <3>3, <3>4, <3>5, <1>1
    <3> QED
      BY <1>1, <1>2, <3>1, <3>6, <3>7 DEF BarrierInv, Slot
  <2>2. VisitedInv'
    BY <1>1, <1>2 DEF VisitedInv, KnownTo, Visited, isPinned, header, Scoped, LeadsTo, Live,
      getFwdPtr
  <2> QED
    BY <2>1, <2>2
<1> QED
  BY <1>3, <1>4, <1>5, <1>6, <1>7, <1>8 DEF LocalInv, GcInv, ReaderInv

\* Every step preserves the invariant.
LEMMA LocalStepKeeps ==
  ASSUME LocalInv, [LocalNext]_localVars
  PROVE  LocalInv'
<1>1. CASE AtEnd
  BY <1>1, StutterKeeps DEF AtEnd
<1> QED
  BY <1>1, OwnerStepKeeps, CollectorStepKeeps, ReaderStepKeeps, ReclaimKeeps, StutterKeeps
    DEF LocalNext

\* The program is chosen once.
LEMMA ShapeStays ==
  ASSUME [LocalNext]_localVars
  PROVE  shape' = shape
<1>1. CASE Owner
  BY <1>1 DEF Owner, Forget, LoadField, WriteBarrier, StoreField, JoinLevel, ClearSuspect
<1>2. CASE Collector
  BY <1>2 DEF Collector, StartCollection, TakeEntry, MarkAndAdd, ForwardHHObjptr, KeepEntry,
    MarkInPlace, Copy,
     CompareAndSwap, StoreNew, Scanned, NextLevel, Install, CopySuspects, FreeFromSpace, Unmark
<1>3. CASE Reader
  BY <1>3 DEF Reader, ReadField, ReadImmutable, CheckSuspect, readBarrier, ManageEntangled,
    EnterCall,
     EntangleField, Pin, Remember, FinishCall
<1> QED
  BY <1>1, <1>2, <1>3 DEF LocalNext, Reclaim, AtEnd, localVars

\* The heap that the program has built.
LEMMA InitialMem ==
  ASSUME LocalInit, NEW p \in Addr
  PROVE  /\ mem[p] \in Chunk /\ mem[p].header = Plain
         /\ mem[p].space = IF p[2] # 0 THEN "none" ELSE IF p \in {Root, Roots} THEN "outside" ELSE "from"
         /\ \A f \in LocalFields, t \in Own : mem[p].field[f] = t =>
              p # Root /\ t[2] = 0 /\ p[1] \in LocalObjects \union {Stack} /\ shape.field[p[1]][f] = t[1]
<1>1. NoChunk \in Chunk /\ NoChunk.header = Plain /\ NoChunk.space = "none"
      /\ \A f \in LocalFields : NoChunk.field[f] = NULL
  BY HeaderTypes DEF NoChunk, Chunk, Spaces
<1>2. shape \in ShapeType
  BY LocalAssumption DEF LocalInit
<1>0. Root[2] = 0 /\ Roots[2] = 0
  BY DEF Root, Roots
<1>3. mem[p] = IF p[2] # 0 THEN NoChunk
               ELSE IF p = Root THEN [NoChunk EXCEPT !.space = "outside"]
               ELSE [NoChunk EXCEPT !.space = IF p = Roots THEN "outside" ELSE "from",
                       !.field = [f \in LocalFields |-> Pointer(shape.field[p[1]][f])]]
  BY DEF LocalInit
<1>4. CASE p[2] # 0
  BY <1>1, <1>3, <1>4, OwnFacts
<1>5. CASE p = Root
  <2>1. mem[p] = [NoChunk EXCEPT !.space = "outside"]
    BY <1>0, <1>3, <1>5
  <2>2. mem[p] \in Chunk /\ mem[p].header = NoChunk.header /\ mem[p].space = "outside" /\ mem[p].field = NoChunk.field
    BY <2>1, <1>1 DEF Chunk, Spaces
  <2> QED
    BY <2>2, <1>0, <1>1, <1>5, OwnFacts
<1>6. CASE p[2] = 0 /\ p # Root
  <2>1. p[1] \in LocalObjects \union {Stack}
    BY <1>6, OwnFacts, AddrFacts
  <2>2. PICK s \in Spaces : s = (IF p = Roots THEN "outside" ELSE "from")
    BY DEF Spaces
  <2>3. \A f \in LocalFields : shape.field[p[1]][f] \in LocalObjects \union {NULL}
    BY <2>1, <1>2 DEF ShapeType
  <2>4. \A o \in LocalObjects \union {NULL} :
          /\ Pointer(o) \in Own \union {NULL}
          /\ Pointer(o) \in Own => Pointer(o)[1] = o /\ Pointer(o)[2] = 0
    <3>1. NULL \notin Own
      BY AddrFacts
    <3>2. \A o \in LocalObjects : <<o, 0>> \in Own
      BY AddrFacts DEF Own
    <3> QED
      BY <3>1, <3>2 DEF Pointer
  <2>5. PICK g \in [LocalFields -> Own \union {NULL}] :
          g = [f \in LocalFields |-> Pointer(shape.field[p[1]][f])]
    <3>1. ASSUME NEW f \in LocalFields PROVE Pointer(shape.field[p[1]][f]) \in Own \union {NULL}
      <4>1. PICK o \in LocalObjects \union {NULL} : o = shape.field[p[1]][f]
        BY <2>3
      <4>2. Pointer(o) \in Own \union {NULL}
        BY <2>4
      <4> QED
        BY <4>1, <4>2
    <3>2. [f \in LocalFields |-> Pointer(shape.field[p[1]][f])] \in [LocalFields -> Own \union {NULL}]
      BY <3>1
    <3> QED
      BY <3>2
  <2>6. mem[p] = [NoChunk EXCEPT !.space = s, !.field = g]
    BY <1>3, <1>6, <2>2, <2>5
  <2>7. mem[p] \in Chunk /\ mem[p].header = NoChunk.header /\ mem[p].space = s /\ mem[p].field = g
    BY <2>6, <1>1 DEF Chunk
  <2>8. \A f \in LocalFields, t \in Own : g[f] = t => t[2] = 0 /\ shape.field[p[1]][f] = t[1]
    BY <2>3, <2>4, <2>5
  <2> QED
    BY <1>1, <1>6, <2>1, <2>2, <2>7, <2>8
<1> QED
  BY <1>4, <1>5, <1>6, <1>0

\* A plain program starts with the invariant.
LEMMA LocalInitHolds ==
  ASSUME LocalInit, IsPlain(shape)
  PROVE  LocalInv
<1>1. \A p \in Addr :
         /\ mem[p] \in Chunk /\ mem[p].header = Plain
         /\ mem[p].space = IF p[2] # 0 THEN "none" ELSE IF p \in {Root, Roots} THEN "outside" ELSE "from"
         /\ \A f \in LocalFields, t \in Own : mem[p].field[f] = t =>
              p # Root /\ t[2] = 0 /\ p[1] \in LocalObjects \union {Stack} /\ shape.field[p[1]][f] = t[1]
  BY InitialMem
<1>2. /\ shape \in Programs /\ remSet = {} /\ toRemSet = {} /\ suspects = {} /\ held = {}
      /\ gc = IdleGC /\ localWrite = NULL /\ reader = IdleReader
      /\ counts = [collections |-> 0, writes |-> 0]
      /\ mem = [p \in Addr |-> mem[p]]
      /\ depth = [o \in LocalObjects \union {Shared, Stack} |->
                    IF o \in LocalObjects THEN shape.depth[o] ELSE SharedDepth]
  BY DEF LocalInit
<1>3. shape \in ShapeType
  BY <1>2, LocalAssumption
<1>4. gc.pc = "idle" /\ gc.work = {} /\ gc.slot = NULL /\ gc.op = NULL
  BY <1>2 DEF IdleGC
<1>5. reader.pc = "idle" /\ reader.ptr = NULL /\ reader.frames = <<>>
  BY <1>2 DEF IdleReader
<1>6. GcTypes
  <2>1. IdleGC.pc \in GcPcs /\ MaxDepth \in 2 .. MaxDepth
    BY DEF GcPcs, IdleGC, MaxDepth
  <2> QED
    BY <2>1, <1>2 DEF GcTypes, IdleGC
<1>7. ReaderTypes
  BY <1>2 DEF ReaderTypes, IdleReader, ReaderPcs
<1>8. OwnerTypes
  BY <1>2, AddrFacts DEF OwnerTypes
<1>9. MemTypes
  BY <1>1, <1>2 DEF MemTypes
<1>10. DepthInv
  <2>1. \A o \in LocalObjects : depth[o] = shape.depth[o] /\ shape.depth[o] \in 2 .. MaxDepth
    BY <1>2, <1>3 DEF ShapeType
  <2>2. depth[Shared] = SharedDepth /\ depth[Stack] = SharedDepth
    BY <1>2, AddrFacts
  <2>3. depth \in [LocalObjects \union {Shared, Stack} -> 1 .. MaxDepth]
    <3>1. \A o \in LocalObjects \union {Shared, Stack} : depth[o] \in 1 .. MaxDepth
      BY <2>1, <2>2 DEF SharedDepth, MaxDepth
    <3> QED
      BY <3>1, <1>2
  <2> QED
    BY <2>1, <2>2, <2>3, <1>2, <1>4 DEF DepthInv, IsPlain, InGc, SharedDepth, MaxDepth
<1>11. HeadInv
  <2>1. \A p \in {Root, Roots} : mem[p].space = "outside" /\ mem[p].header = Plain
    BY <1>1, AddrFacts DEF Root, Roots
  <2>2. \A p \in Own : mem[p].space \in {"none", "from"} /\ mem[p].header = Plain
    BY <1>1, OwnFacts
  <2> QED
    BY <1>1, <2>1, <2>2, HeaderTypes DEF HeadInv
<1>12. FwdInv
  BY <1>1, HeaderTypes, OwnFacts DEF FwdInv
<1>13. VersInv
  <2>1. \A p \in Own : mem[p].space # "none" => p[2] = 0 /\ ~mem[p].header.fwd
    BY <1>1, HeaderTypes, OwnFacts
  <2>2. \A p \in Own : p[2] \in Nat
    BY OwnFacts
  <2>3. gc.pc \notin Marking \union Copying
    BY <1>4, PcFacts
  <2> QED
    BY <2>1, <2>2, <2>3, <1>2 DEF VersInv
<1>14. FieldInv
  <2> SUFFICES ASSUME NEW p \in Addr, NEW f \in LocalFields, NEW t \in Own, mem[p].field[f] = t
               PROVE  /\ f \in FieldNames[p[1]] /\ p[1] \in Mutable \union {Stack}
                      /\ Live(p) => Good(t)
    BY DEF FieldInv
  <2>1. t[2] = 0 /\ p[1] \in LocalObjects \union {Stack} /\ shape.field[p[1]][f] = t[1]
    BY <1>1
  <2>2. t[1] # NULL
    BY OwnFacts, LocalAssumption
  <2>3. f \in FieldNames[p[1]] /\ p[1] \in Mutable \union {Stack}
    BY <2>1, <2>2 DEF IsPlain
  <2>4. mem[t].space = "from" /\ mem[t].header = Plain
    BY <2>1, <1>1, OwnFacts
  <2> QED
    BY <2>3, <2>4, HeaderTypes DEF Good, Live
<1>15. ScanInv /\ VisitedInv
  BY <1>4, PcFacts DEF ScanInv, VisitedInv
<1>16. WorkInv
  BY <1>4, SlotIsNotNull DEF WorkInv
<1>17. OpInv
  BY <1>4, PcFacts DEF OpInv
<1>18. WriteInv
  BY <1>2, AddrFacts DEF WriteInv
<1>19. \A t \in Own : ~RootTarget(t) /\ ~WriteTarget(t)
  BY <1>1, <1>2, AddrFacts DEF RootTarget, WriteTarget
<1>20. RootInv
  BY <1>2, <1>4, <1>19 DEF RootInv
<1>21. PinInv
  BY <1>1, HeaderTypes, OwnFacts DEF PinInv, isPinned, header
<1>22. HeldInv
  BY <1>2 DEF HeldInv
<1>23. BarrierInv
  BY <1>5, OwnFacts DEF BarrierInv
<1> QED
  BY <1>6, <1>7, <1>8, <1>9, <1>10, <1>11, <1>12, <1>13, <1>14, <1>15, <1>16, <1>17, <1>18,
    <1>20, <1>21,
     <1>22, <1>23 DEF LocalInv, GcInv, ReaderInv

\* The inductive invariant holds for every plain program.
THEOREM LocalInvHolds == LocalSpec => [](IsPlain(shape) => LocalInv)
<1>1. LocalInit => (IsPlain(shape) => LocalInv)
  BY LocalInitHolds
<1>2. (IsPlain(shape) => LocalInv) /\ [LocalNext]_localVars => (IsPlain(shape) => LocalInv)'
  BY LocalStepKeeps, ShapeStays DEF IsPlain
<1> QED
  BY <1>1, <1>2, PTL DEF LocalSpec

\* The invariant has the types,
LEMMA LocalTypeOKFollows ==
  ASSUME LocalInv
  PROVE  LocalTypeOK
<1>g. GcTypes /\ ReaderTypes /\ OwnerTypes /\ MemTypes /\ DepthInv
  BY DEF LocalInv, GcInv, ReaderInv
<1>1. Chunk \subseteq [header : Header, field : [LocalFields -> Addr \union {NULL}],
         space : {"none", "outside", "from", "pinned", "to", "retired", "freed"}, retire : BOOLEAN]
  BY AddrFacts DEF Chunk, Spaces
<1>2. mem \in [Addr -> [header : Header, field : [LocalFields -> Addr \union {NULL}],
         space : {"none", "outside", "from", "pinned", "to", "retired", "freed"}, retire : BOOLEAN]]
  BY <1>1, <1>g DEF MemTypes
<1>3. Entries \subseteq [object : Addr, from : Addr \union {NULL}]
  BY AddrFacts DEF Entries
<1>4. \A e \in remSet \union toRemSet : e \in [object : Addr, from : Addr \union {NULL}]
  BY <1>3, <1>g DEF OwnerTypes
<1>5. suspects \subseteq Addr /\ held \subseteq Addr
  BY <1>g, AddrFacts DEF OwnerTypes, ReaderTypes
<1>6. gc.level \in 2 .. MaxDepth /\ gc.minDepth \in 2 .. MaxDepth
  BY <1>g DEF GcTypes
<1> QED
  BY <1>2, <1>4, <1>5, <1>6, <1>g DEF LocalTypeOK, DepthInv

\* ... the assertions of the collector,
LEMMA LocalNeverDiesFollows ==
  ASSUME LocalInv
  PROVE  LocalNeverDies
<1>g. GcTypes /\ MemTypes /\ DepthInv /\ HeadInv /\ OpInv /\ WorkInv /\ VisitedInv
  BY DEF LocalInv, GcInv, ReaderInv
<1>1. gc.op \in Own \union {NULL}
  BY <1>g, GcFields
<1>2. gc.pc = "install" => header(gc.op) = gc.copy.header
  BY <1>1, <1>g DEF OpInv, header
<1>3. gc.pc = "entangled" /\ gc.slot # NULL => header(gc.op).pin = "any"
  BY <1>1, <1>g DEF OpInv, header
<1>4. \A p \in Addr : mem[p].space = "from" => ~header(p).mark
  BY <1>g, AddrFacts DEF HeadInv, header
<1>5. PinnedIsInPlace
  <2> SUFFICES ASSUME gc.pc = "roots", NEW slot \in gc.work, Target(slot) # NULL, IsInScope(Target(slot)),
                      InFromSpace(Target(slot)), IsTrulyPinned(Target(slot))
               PROVE  mem[Target(slot)].space = "pinned"
    BY DEF PinnedIsInPlace
  <2>1. PICK t \in Own \union {NULL, Root} : t = Target(slot)
    BY TargetFacts DEF LocalInv
  <2>2. t # Root
    <3>1. gc.minDepth \in 2 .. MaxDepth /\ opDepth(Root) = SharedDepth
      BY <1>g, DepthFacts DEF GcTypes
    <3> QED
      BY <2>1, <3>1 DEF IsInScope, SharedDepth, MaxDepth
  <2>3. t \in Own /\ isPinned(t) /\ Scoped(t)
    BY <2>1, <2>2 DEF IsTrulyPinned, IsInScope, Scoped, opDepth
  <2>4. PICK Z \in SUBSET Own : KnownTo(Z)
    BY <1>g DEF VisitedInv, Copying
  <2>5. Visited(t)
    BY <2>3, <2>4 DEF KnownTo
  <2> QED
    BY <2>1, <2>5 DEF Visited, InFromSpace
<1> QED
  BY <1>2, <1>3, <1>4, <1>5 DEF LocalNeverDies

\* ... and that what the reader holds is live.
LEMMA HeldIsKeptFollows ==
  ASSUME LocalInv
  PROVE  HeldIsKept
<1>g. ReaderTypes /\ MemTypes /\ HeadInv /\ HeldInv /\ BarrierInv
  BY DEF LocalInv, GcInv, ReaderInv
<1>1. \A p \in held : IsLive(p)
  <2>1. \A p \in held : p \in Own /\ isPinned(p)
    BY <1>g DEF HeldInv, ReaderTypes
  <2>2. \A p \in held : Live(p)
    BY <2>1, <1>g, PinnedIsLive
  <2> QED
    BY <2>2 DEF IsLive, Live, hasFwdPtr, header
<1>2. reader.ptr # NULL => mem[reader.ptr].space # "freed"
  <2> SUFFICES ASSUME reader.ptr # NULL PROVE mem[reader.ptr].space # "freed"
    OBVIOUS
  <2>1. PICK p \in Own : p = reader.ptr
    BY <1>g DEF ReaderTypes
  <2>2. PICK q \in Own : LeadsTo(p, q)
    BY <1>g, <2>1 DEF BarrierInv
  <2>3. CASE p[2] = q[2]
    BY <2>1, <2>2, <2>3, SameOwn DEF LeadsTo, Live
  <2>4. CASE p[2] # q[2]
    <3>1. p[2] \in p[2] .. q[2] - 1
      BY <2>2, <2>4, OwnFacts DEF LeadsTo
    <3>2. mem[p].header.fwd
      BY <3>1, <2>2, OwnFacts DEF LeadsTo
    <3> QED
      BY <2>1, <3>2, <1>g DEF HeadInv
  <2> QED
    BY <2>3, <2>4
<1>3. \A i \in 1 .. Len(reader.frames) : mem[reader.frames[i].ptr].space # "freed"
  <2>1. CASE reader.pc = "entangle"
    <3>1. reader.frames = <<Top>> /\ Len(reader.frames) = 1 /\ reader.ptr \in Own /\ Top.ptr = reader.ptr
      BY <2>1, <1>g, TopFacts
    <3>2. mem[Top.ptr].space # "freed"
      BY <3>1, <1>2, OwnFacts
    <3>3. \A i \in 1 .. 1 : reader.frames[i] = Top
      BY <3>1
    <3> QED
      BY <3>1, <3>2, <3>3
  <2>2. CASE reader.pc # "entangle"
    BY <2>2, <1>g DEF BarrierInv
  <2> QED
    BY <2>1, <2>2
<1> QED
  BY <1>1, <1>2, <1>3 DEF HeldIsKept

-------------------------------------------------------------------------------
Rounds == Cardinality(LocalObjects) + 1
ReachStep(ps, g, n) == IF n = 0 THEN ps ELSE Successors(g[n - 1])
IsReach(ps, g, m) == g = [n \in 0 .. m |-> ReachStep(ps, g, n)]

\* The number of rounds.
LEMMA RoundsFacts == Cardinality(LocalObjects) \in Nat /\ Rounds \in Nat /\ Rounds > 0
BY LocalAssumption, FS_CardinalityType DEF Rounds

\* The rounds of ReachableFrom exist: none,
LEMMA ReachOne ==
  ASSUME NEW ps
  PROVE  \E g : IsReach(ps, g, 0)
<1>1. PICK g : g = [n \in 0 .. 0 |-> ps]
  OBVIOUS
<1>2. [n \in 0 .. 0 |-> ReachStep(ps, g, n)] = [n \in 0 .. 0 |-> ps]
  BY DEF ReachStep
<1> QED
  BY <1>1, <1>2 DEF IsReach

\* ... one more,
LEMMA ReachNext ==
  ASSUME NEW ps, NEW m \in Nat, NEW g, IsReach(ps, g, m)
  PROVE  \E h : IsReach(ps, h, m + 1)
<1>1. PICK h : h = [n \in 0 .. m + 1 |-> ReachStep(ps, g, n)]
  OBVIOUS
<1>2. \A n \in 0 .. m : h[n] = g[n]
  <2>1. \A n \in 0 .. m : g[n] = ReachStep(ps, g, n)
    BY DEF IsReach
  <2>2. \A n \in 0 .. m : h[n] = ReachStep(ps, g, n)
    BY <1>1
  <2> QED
    BY <2>1, <2>2
<1>3. \A n \in 0 .. m + 1 : ReachStep(ps, g, n) = ReachStep(ps, h, n)
  <2> SUFFICES ASSUME NEW n \in 0 .. m + 1 PROVE ReachStep(ps, g, n) = ReachStep(ps, h, n)
    OBVIOUS
  <2>1. n # 0 => g[n - 1] = h[n - 1]
    <3>1. n # 0 => n - 1 \in 0 .. m
      OBVIOUS
    <3> QED
      BY <3>1, <1>2
  <2> QED
    BY <2>1 DEF ReachStep
<1>4. h = [n \in 0 .. m + 1 |-> ReachStep(ps, h, n)]
  BY <1>1, <1>3
<1> QED
  BY <1>4 DEF IsReach

\* ... and any number.
LEMMA SomeReach ==
  ASSUME NEW ps, NEW k \in Nat
  PROVE  \E g : IsReach(ps, g, k)
<1>1. PICK S : S = {m \in Nat : ~\E g : IsReach(ps, g, m)}
  OBVIOUS
<1>2. CASE S = {}
  BY <1>1, <1>2
<1>3. CASE S # {}
  <2>1. PICK m \in S : \A y \in S : m <= y
    BY <1>1, <1>3, LeastOf
  <2>2. m \in Nat /\ ~\E g : IsReach(ps, g, m)
    BY <1>1
  <2>3. m # 0
    BY <2>2, ReachOne
  <2>4. PICK l \in Nat : m = l + 1
    BY <2>2, <2>3
  <2>5. l \notin S
    BY <2>1, <2>4
  <2>6. PICK g : IsReach(ps, g, l)
    BY <2>5, <1>1
  <2> QED
    BY <2>2, <2>4, <2>6, ReachNext
<1> QED
  BY <1>2, <1>3

\* ReachableFrom is the end of the rounds.
LEMMA ReachIsEnd ==
  ASSUME NEW ps
  PROVE  \E g : /\ ReachableFrom(ps) = g[Rounds]
                /\ g[0] = ps
                /\ \A n \in 0 .. Rounds : n > 0 => g[n] = Successors(g[n - 1])
<1> DEFINE R == CHOOSE r : r = [n \in 0 .. Cardinality(LocalObjects) + 1 |->
                                  IF n = 0 THEN ps ELSE Successors(r[n - 1])]
<1>1. ReachableFrom(ps) = R[Cardinality(LocalObjects) + 1]
  BY DEF ReachableFrom
<1>2. \E r : r = [n \in 0 .. Cardinality(LocalObjects) + 1 |-> IF n = 0 THEN ps ELSE Successors(r[n - 1])]
  <2>1. PICK g : IsReach(ps, g, Rounds)
    BY RoundsFacts, SomeReach
  <2> QED
    BY <2>1 DEF IsReach, ReachStep, Rounds
<1>3. R = [n \in 0 .. Cardinality(LocalObjects) + 1 |-> IF n = 0 THEN ps ELSE Successors(R[n - 1])]
  BY <1>2
<1> HIDE DEF R
<1>4. PICK g : g = R
  OBVIOUS
<1>5. g = [n \in 0 .. Rounds |-> IF n = 0 THEN ps ELSE Successors(g[n - 1])]
  BY <1>3, <1>4 DEF Rounds
<1>6. 0 \in 0 .. Rounds
  BY RoundsFacts
<1>7. \A n \in 0 .. Rounds : g[n] = IF n = 0 THEN ps ELSE Successors(g[n - 1])
  BY <1>5
<1>8. g[0] = ps
  BY <1>6, <1>7
<1>9. \A n \in 0 .. Rounds : n > 0 => g[n] = Successors(g[n - 1])
  BY <1>7
<1> QED
  BY <1>1, <1>4, <1>8, <1>9 DEF Rounds

\* What is reached from a closed set stays in it.
LEMMA ReachIsClosed ==
  ASSUME NEW C, NEW ps \in SUBSET C, Successors(C) \subseteq C
  PROVE  ReachableFrom(ps) \subseteq C
<1>1. PICK g : /\ ReachableFrom(ps) = g[Rounds]
               /\ g[0] = ps
               /\ \A n \in 0 .. Rounds : n > 0 => g[n] = Successors(g[n - 1])
  BY ReachIsEnd
<1>2. PICK S : S = {n \in 0 .. Rounds : ~(g[n] \subseteq C)}
  OBVIOUS
<1>3. CASE S = {}
  BY <1>1, <1>2, <1>3, RoundsFacts
<1>4. CASE S # {}
  <2>1. S \in SUBSET Nat
    BY <1>2
  <2>2. PICK m \in S : \A y \in S : m <= y
    BY <2>1, <1>4, LeastOf
  <2>3. m \in 0 .. Rounds /\ ~(g[m] \subseteq C)
    BY <1>2
  <2>4. m > 0
    BY <2>3, <1>1
  <2>5. m - 1 \in 0 .. Rounds /\ m - 1 \notin S
    BY <2>2, <2>3, <2>4, RoundsFacts
  <2>6. PICK G : G = g[m - 1]
    OBVIOUS
  <2>7. G \subseteq C
    BY <2>5, <2>6, <1>2
  <2>8. Successors(G) \subseteq Successors(C)
    BY <2>7 DEF Successors
  <2>9. g[m] = Successors(G)
    BY <1>1, <2>3, <2>4, <2>6
  <2> QED
    BY <2>3, <2>8, <2>9
<1> QED
  BY <1>3, <1>4

\* Between collections the live objects are closed under their fields, and
\* unmarked.
LEMMA HeapIsWholeFollows ==
  ASSUME LocalInv
  PROVE  HeapIsWhole
<1>g. /\ MemTypes /\ HeadInv /\ FwdInv /\ FieldInv
  BY DEF LocalInv, GcInv
<1> SUFFICES ASSUME gc.pc = "idle"
             PROVE  /\ \A p \in ReachableFrom({Roots, Root}) : IsLive(p)
                    /\ \A p \in Addr : IsLive(p) => ~header(p).mark
  BY DEF HeapIsWhole
<1>1. PICK C : C = {p \in Addr : Live(p)}
  OBVIOUS
<1>2. Root \in C /\ Roots \in C
  BY <1>1, <1>g, AddrFacts DEF HeadInv, Live
<1>3. Successors(C) \subseteq C
  <2> SUFFICES ASSUME NEW p \in C, NEW f \in LocalFields, mem[p].field[f] # NULL
               PROVE  mem[p].field[f] \in C
    BY DEF Successors
  <2>1. p \in Addr /\ Live(p)
    BY <1>1
  <2>2. PICK t \in Own : t = mem[p].field[f]
    BY <2>1, <1>g, MemFacts
  <2>3. Good(t)
    BY <2>1, <2>2, <1>g DEF FieldInv
  <2>4. ~(mem[t].space = "from" /\ mem[t].header.fwd)
    BY <1>g, PcFacts DEF FwdInv
  <2>5. Live(t)
    BY <2>3, <2>4 DEF Good
  <2> QED
    BY <2>2, <2>5, <1>1, OwnFacts
<1>4. ReachableFrom({Roots, Root}) \subseteq C
  BY <1>2, <1>3, ReachIsClosed
<1>5. \A p \in Addr : ~header(p).mark
  BY <1>g, AddrFacts DEF HeadInv, header
<1> QED
  BY <1>1, <1>4, <1>5 DEF IsLive, Live, hasFwdPtr, header

\* No more is held than there are objects.
LEMMA HeldIsFinite ==
  ASSUME LocalInv
  PROVE  IsFiniteSet(held) /\ Cardinality(held) <= Cardinality(LocalObjects) /\ Cardinality(held) \in Nat
<1>g. /\ MemTypes /\ HeadInv /\ VersInv /\ HeldInv /\ ReaderTypes
  BY DEF LocalInv, GcInv, ReaderInv
<1>1. PICK F : F = [p \in held |-> p[1]]
  OBVIOUS
<1>2. \A p \in held : p \in Own /\ p[1] \in LocalObjects
  BY <1>g, OwnFacts DEF ReaderTypes
<1>3. \A p \in held : Live(p)
  BY <1>2, <1>g, PinnedIsLive DEF HeldInv
<1>4. \A p, q \in held : p[1] = q[1] => p = q
  BY <1>2, <1>3, <1>g, LiveIsOne
<1>5. F \in [held -> LocalObjects]
  BY <1>1, <1>2
<1>6. \A p, q \in held : F[p] = F[q] => p = q
  BY <1>1, <1>4
<1>7. F \in Injection(held, LocalObjects)
  BY <1>5, <1>6 DEF Injection, IsInjective
<1>8. IsFiniteSet(held) /\ Cardinality(held) <= Cardinality(LocalObjects)
  BY <1>7, FS_Injection, LocalAssumption
<1> QED
  BY <1>8, FS_CardinalityType

\* Of what is held and not in the set, the remembered entries or a held
\* object of the set leads to something.
LEMMA HeldIsNext ==
  ASSUME LocalInv, gc.pc = "idle", NEW S, ~(held \subseteq S), {e.object : e \in remSet} \subseteq S
  PROVE  \E q \in held \ S : q \in Successors(S)
<1>g. /\ OwnerTypes /\ MemTypes /\ HeadInv /\ FwdInv /\ VersInv /\ FieldInv /\ RootInv /\ HeldInv /\ ReaderTypes
  BY DEF LocalInv, GcInv, ReaderInv
<1>1. PICK T \in SUBSET held : T = held \ S /\ T # {}
  OBVIOUS
<1>2. PICK q \in T, x \in (held \ T) \union {Root}, f \in LocalFields : Names(x, f, q)
  BY <1>1, <1>g DEF HeldInv
<1>3. q \in held /\ q \notin S /\ q \in Own /\ isPinned(q)
  BY <1>1, <1>2, <1>g DEF HeldInv, ReaderTypes
<1>4. Live(q)
  BY <1>3, <1>g, PinnedIsLive
<1>5. x \in Addr /\ Live(x)
  <2>1. CASE x = Root
    BY <2>1, <1>g, AddrFacts DEF HeadInv, Live
  <2>2. CASE x \in held
    <3>1. x \in Own /\ isPinned(x)
      BY <2>2, <1>g DEF HeldInv, ReaderTypes
    <3> QED
      BY <3>1, <1>g, PinnedIsLive, OwnFacts
  <2> QED
    BY <2>1, <2>2
<1>6. PICK t \in Own : mem[x].field[f] = t /\ t[1] = q[1]
  <2>1. mem[x].field[f] \in Own \union {NULL}
    BY <1>5, <1>g, MemFacts
  <2> QED
    BY <2>1, <1>2 DEF Names
<1>7. Live(t)
  <2>1. Good(t)
    BY <1>5, <1>6, <1>g DEF FieldInv
  <2>2. ~(mem[t].space = "from" /\ mem[t].header.fwd)
    BY <1>g, PcFacts DEF FwdInv
  <2> QED
    BY <2>1, <2>2 DEF Good
<1>8. t = q
  BY <1>3, <1>4, <1>6, <1>7, <1>g, LiveIsOne
<1>9. x # Root
  <2> SUFFICES ASSUME x = Root PROVE FALSE
    OBVIOUS
  <2>1. RootTarget(q)
    BY <1>6, <1>8 DEF RootTarget
  <2>2. Remembered(q, Root) \in remSet
    BY <2>1, <1>3, <1>g DEF RootInv
  <2>3. Remembered(q, Root).object = q
    BY DEF Remembered
  <2> QED
    BY <2>2, <2>3, <1>3
<1>10. x \in S
  BY <1>1, <1>9
<1>11. q # NULL
  BY <1>3, OwnFacts
<1>12. q \in Successors(S)
  BY <1>6, <1>8, <1>10, <1>11 DEF Successors
<1> QED
  BY <1>3, <1>12

\* Every round reaches another held object, so all of them are reached.
LEMMA HeldIsReached ==
  ASSUME LocalInv, gc.pc = "idle"
  PROVE  held \subseteq ReachableFrom({e.object : e \in remSet})
<1> DEFINE ps == {e.object : e \in remSet}
<1>1. PICK g : /\ ReachableFrom(ps) = g[Rounds]
               /\ g[0] = ps
               /\ \A n \in 0 .. Rounds : n > 0 => g[n] = Successors(g[n - 1])
  BY ReachIsEnd
<1>2. PICK S : S = {n \in 0 .. Rounds : ~(ps \subseteq g[n] /\ (held \subseteq g[n] \/ Cardinality(held \intersect g[n]) >= n))}
  OBVIOUS
<1>f. IsFiniteSet(held) /\ Cardinality(held) \in Nat
  BY HeldIsFinite
<1>3. \A n \in 0 .. Rounds : IsFiniteSet(held \intersect g[n]) /\ Cardinality(held \intersect g[n]) \in Nat
                             /\ Cardinality(held \intersect g[n]) <= Cardinality(held)
  <2> SUFFICES ASSUME NEW n \in 0 .. Rounds
               PROVE  IsFiniteSet(held \intersect g[n]) /\ Cardinality(held \intersect g[n]) \in Nat
                      /\ Cardinality(held \intersect g[n]) <= Cardinality(held)
    OBVIOUS
  <2>1. PICK T \in SUBSET held : T = held \intersect g[n]
    OBVIOUS
  <2> QED
    BY <2>1, <1>f, FS_Subset, FS_CardinalityType
<1>4. CASE S = {}
  <2>1. Rounds \in 0 .. Rounds
    BY RoundsFacts
  <2>2. held \subseteq g[Rounds] \/ Cardinality(held \intersect g[Rounds]) >= Rounds
    BY <2>1, <1>2, <1>4
  <2>3. Cardinality(held \intersect g[Rounds]) <= Cardinality(held) /\ Cardinality(held \intersect g[Rounds]) \in Nat
    BY <2>1, <1>3
  <2>4. Cardinality(held) <= Cardinality(LocalObjects)
    BY HeldIsFinite
  <2>5. Cardinality(held) < Rounds
    BY <2>4, <1>f, RoundsFacts DEF Rounds
  <2>6. PICK k, h \in Nat : k = Cardinality(held \intersect g[Rounds]) /\ h = Cardinality(held)
    BY <2>3, <1>f
  <2>7. Rounds \in Nat /\ k <= h /\ h < Rounds
    BY <2>3, <2>5, <2>6, RoundsFacts
  <2>8. ~(k >= Rounds)
    BY <2>6, <2>7
  <2> QED
    BY <2>2, <2>6, <2>8, <1>1
<1>5. CASE S # {}
  <2>1. S \in SUBSET Nat
    BY <1>2
  <2>2. PICK m \in S : \A y \in S : m <= y
    BY <2>1, <1>5, LeastOf
  <2>3. m \in 0 .. Rounds /\ m \in Nat
        /\ ~(ps \subseteq g[m] /\ (held \subseteq g[m] \/ Cardinality(held \intersect g[m]) >= m))
    BY <1>2
  <2>4. m > 0
    <3> SUFFICES ASSUME m = 0 PROVE FALSE
      BY <2>3
    <3>1. ps \subseteq g[m] /\ Cardinality(held \intersect g[m]) \in Nat
      BY <1>1, <1>3, <2>3
    <3> QED
      BY <3>1, <2>3
  <2>5. PICK l \in Nat : m = l + 1 /\ l \in 0 .. Rounds
    <3>1. m \in Nat /\ m > 0 /\ Rounds \in Nat /\ m <= Rounds
      BY <2>3, <2>4, RoundsFacts
    <3>2. m - 1 \in Nat /\ m = (m - 1) + 1 /\ m - 1 <= Rounds
      BY <3>1
    <3>3. m - 1 \in 0 .. Rounds
      BY <3>1, <3>2
    <3> QED
      BY <3>2, <3>3
  <2>6. l \notin S
    BY <2>2, <2>5
  <2>7. ps \subseteq g[l] /\ (held \subseteq g[l] \/ Cardinality(held \intersect g[l]) >= l)
    BY <2>5, <2>6, <1>2
  <2>8. g[m] = Successors(g[l])
    BY <2>3, <2>4, <2>5, <1>1
  <2>9. g[l] \subseteq g[m]
    BY <2>8 DEF Successors
  <2>10. CASE held \subseteq g[l]
    BY <2>3, <2>7, <2>9, <2>10
  <2>11. CASE ~(held \subseteq g[l])
    <3>1. PICK q \in held \ g[l] : q \in g[m]
      <4>1. PICK G : G = g[l]
        OBVIOUS
      <4>2. \E q \in held \ G : q \in Successors(G)
        BY <4>1, <2>7, <2>11, HeldIsNext
      <4> QED
        BY <4>1, <4>2, <2>8
    <3>2. PICK A, B : A = held \intersect g[l] /\ B = held \intersect g[m]
      OBVIOUS
    <3>3. IsFiniteSet(A) /\ Cardinality(A) \in Nat /\ IsFiniteSet(B) /\ Cardinality(B) \in Nat
      BY <3>2, <1>3, <2>3, <2>5
    <3>4. q \notin A /\ A \union {q} \in SUBSET B
      BY <3>1, <3>2, <2>9
    <3>5. Cardinality(A \union {q}) = Cardinality(A) + 1
      BY <3>3, <3>4, FS_AddElement
    <3>6. Cardinality(A \union {q}) <= Cardinality(B)
      BY <3>3, <3>4, FS_Subset
    <3>7. Cardinality(A) >= l
      BY <2>7, <2>11, <3>2
    <3>8. Cardinality(B) >= m
      BY <3>3, <3>5, <3>6, <3>7, <2>5
    <3> QED
      BY <3>2, <3>8, <2>3, <2>7, <2>9
  <2> QED
    BY <2>10, <2>11
<1> QED
  BY <1>4, <1>5

\* What is held is remembered.
LEMMA HeldIsRememberedFollows ==
  ASSUME LocalInv
  PROVE  HeldIsRemembered
<1>g. /\ MemTypes /\ HeadInv /\ HeldInv /\ ReaderTypes
  BY DEF LocalInv, GcInv, ReaderInv
<1>1. \A p \in held \ {Root} : isMutable(p) => header(p).suspect
  BY <1>g DEF HeldInv, header
<1>2. ASSUME gc.pc = "idle", NEW p \in held \ {Root}
      PROVE  /\ header(p).pin # "none" /\ header(p).unpinDepth = SharedDepth
             /\ p \in ReachableFrom({e.object : e \in remSet})
  <2>1. p \in Own /\ isPinned(p)
    BY <1>g DEF HeldInv, ReaderTypes
  <2>2. header(p).pin # "none"
    BY <2>1 DEF isPinned
  <2>3. header(p).unpinDepth = SharedDepth
    BY <2>1, <2>2, <1>g, OwnFacts DEF HeadInv, header
  <2> QED
    BY <1>2, <2>2, <2>3, HeldIsReached
<1> QED
  BY <1>1, <1>2 DEF HeldIsRemembered

\* LocalTypeOK: the states of the local collector, its owner and its reader are
\* well typed, and no copy is made for which there is no room.
THEOREM LocalTypeOKHolds == LocalSpec => [](IsPlain(shape) => LocalTypeOK)
<1>1. (IsPlain(shape) => LocalInv) => (IsPlain(shape) => LocalTypeOK)
  BY LocalTypeOKFollows
<1> QED
  BY <1>1, LocalInvHolds, PTL

\* LocalNeverDies: the assertions of hierarchical-heap-collection.c hold for any
\* plain program, objects, fields and number of collections: nobody pins a
\* private object while it is copied with plain stores, an object that could not
\* be copied is entangled, and what is truly pinned or marked was found with the
\* remembered entries (forwardHHObjptr, tryUnpinOrKeepPinned).
THEOREM LocalNeverDiesHolds == LocalSpec => [](IsPlain(shape) => LocalNeverDies)
<1>1. (IsPlain(shape) => LocalInv) => (IsPlain(shape) => LocalNeverDies)
  BY LocalNeverDiesFollows
<1> QED
  BY <1>1, LocalInvHolds, PTL

\* HeldIsKept: what the reader's barrier gave it is neither moved nor freed, and
\* its barrier looks into no header that is gone, whatever the collector, the
\* owner and the barrier do between each other's steps.
THEOREM HeldIsKeptHolds == LocalSpec => [](IsPlain(shape) => HeldIsKept)
<1>1. (IsPlain(shape) => LocalInv) => (IsPlain(shape) => HeldIsKept)
  BY HeldIsKeptFollows
<1> QED
  BY <1>1, LocalInvHolds, PTL

\* HeapIsWhole: between collections all that the owner and the reader can reach
\* is live and has no mark.
THEOREM HeapIsWholeHolds == LocalSpec => [](IsPlain(shape) => HeapIsWhole)
<1>1. (IsPlain(shape) => LocalInv) => (IsPlain(shape) => HeapIsWhole)
  BY HeapIsWholeFollows
<1> QED
  BY <1>1, LocalInvHolds, PTL

\* HeldIsRemembered: what the reader holds is pinned for the shared heap, is a
\* suspect when it is mutable, and is led to by a remembered entry.
THEOREM HeldIsRememberedHolds == LocalSpec => [](IsPlain(shape) => HeldIsRemembered)
<1>1. (IsPlain(shape) => LocalInv) => (IsPlain(shape) => HeldIsRemembered)
  BY HeldIsRememberedFollows
<1> QED
  BY <1>1, LocalInvHolds, PTL
===============================================================================
