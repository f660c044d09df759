--------------------------- MODULE LocalCollection ---------------------------
(***************************************************************************)
(* Local collection under entanglement.  A processor, the owner, copies    *)
(* what is live in the deepest levels of its heap (runtime/gc/             *)
(* hierarchical-heap-collection.c), while a concurrent thread, the reader, *)
(* has found a pointer to one of its objects in a mutable object that both *)
(* see.  The reader's barrier (assign.c, decheck.c) pins what it finds,    *)
(* and the collector leaves in place what is pinned: the two race for the  *)
(* header of each object (pin.c), which holds the pin, or the forwarding   *)
(* pointer to the copy.                                                    *)
(*                                                                         *)
(* A step is one access to memory that both use.  An object has a name,    *)
(* and an address for every copy.  The heap that both see has depth 1, the *)
(* owner's own are deeper; the stack and the shared object are not moved.  *)
(***************************************************************************)
EXTENDS Integers, FiniteSetsExt, SequencesExt

CONSTANTS
  LocalObjects,    \* the owner's objects
  Shared,          \* a mutable object of the common ancestor
  Stack,           \* the owner's stack
  Mutable, Large,  \* objects that are mutable, that have their own chunk
  LocalFields, FieldNames,  \* the fields, those of each of them
  Programs,        \* the programs: see ShapeType
  MaxLocalCollections,      \* bound
  NULL

SharedDepth == 1
MaxDepth == 3
Root == <<Shared, 0>>
Roots == <<Stack, 0>>
Addr == (LocalObjects \X (0 .. MaxLocalCollections)) \union {Root, Roots}

(* The heap that a program has built, and what it does then: whether       *)
(* barriers overlap with collections, and whether fields are overwritten.  *)
ShapeType == [field : [LocalObjects \union {Stack} -> [LocalFields -> LocalObjects \union {NULL}]],
              depth : [LocalObjects -> 2 .. MaxDepth], writes : Nat,
              overlap : BOOLEAN, overwrites : BOOLEAN]

(* The programs of LocalCollectionProofs' theorems: no field is            *)
(* overwritten, of the owner's objects only mutable ones lead to others at *)
(* first, and these are in its deepest heap.                               *)
IsPlain(s) ==
  /\ ~s.overwrites
  /\ \A o \in LocalObjects \union {Stack}, f \in LocalFields :
       s.field[o][f] # NULL => f \in FieldNames[o] /\ (o = Stack \/ o \in Mutable)
  /\ \A o \in LocalObjects \intersect Mutable, x \in LocalObjects : s.depth[x] <= s.depth[o]

ASSUME LocalAssumption ==
  /\ IsFiniteSet(LocalObjects)
  /\ Mutable \subseteq LocalObjects \union {Shared} /\ Shared \in Mutable
  /\ Large \subseteq LocalObjects
  /\ FieldNames \in [LocalObjects \union {Shared, Stack} -> SUBSET LocalFields]
  /\ {Shared, Stack} \intersect LocalObjects = {} /\ Shared # Stack
  /\ MaxLocalCollections \in Nat \ {0}
  /\ Programs \subseteq ShapeType
  /\ NULL \notin LocalObjects \union LocalFields \union Addr
  /\ NULL \notin [dst : Addr, f : LocalFields, src : Addr \union {NULL}]
  /\ NULL \notin [at : Addr, f : LocalFields \union {NULL}]
  /\ NULL \notin [object : Addr, from : Addr \union {NULL}]

VARIABLES
  mem,       \* headers, fields and chunks
  depth,     \* the depth of the heap each object is in
  shape,     \* the program
  remSet,    \* the remembered sets of the owner's heaps (fromSpace)
  toRemSet,  \* and of the heaps being built (toSpace)
  suspects,  \* the suspects of the owner's heaps
  gc,        \* the collector
  localWrite,  \* the owner's write that is under way
  reader,    \* the reader's barrier
  held,      \* the pointers it has
  counts     \* collections and writes, for the bounds

localVars ==
  <<mem, depth, shape, remSet, toRemSet, suspects, gc, localWrite, reader, held, counts>>

-------------------------------------------------------------------------------
(* Headers *)

Header == [fwd : BOOLEAN, pin : {"none", "down", "any"}, unpinDepth : 0 .. MaxDepth,
           mark : BOOLEAN, suspect : BOOLEAN]
Plain == [fwd |-> FALSE, pin |-> "none", unpinDepth |-> 0, mark |-> FALSE, suspect |-> FALSE]
FwdHeader == [Plain EXCEPT !.fwd = TRUE]

header(p) == mem[p].header
hasFwdPtr(p) == header(p).fwd
getFwdPtr(p) == <<p[1], p[2] + 1>>
isPinned(p) == header(p).pin # "none"
isMutable(p) == p[1] \in Mutable
opDepth(p) == depth[p[1]]

getRacyFwdPtr[p \in Addr] == IF hasFwdPtr(p) THEN getRacyFwdPtr[getFwdPtr(p)] ELSE p

maxPT(pt1, pt2) ==
  IF pt1 = "none" THEN pt2
  ELSE IF pt1 = "any" \/ pt2 = "any" THEN "any" ELSE "down"

(* pinObjectInfo, whose compare-and-swap is repeated until it succeeds.    *)
Pinned(h, unpinDepth, pt) ==
  LET ud == IF h.pin = "none" THEN unpinDepth ELSE Min({h.unpinDepth, unpinDepth}) IN
  [h EXCEPT !.unpinDepth = ud, !.pin = IF ud < h.unpinDepth THEN pt ELSE maxPT(pt, @)]

(* tryUnpinWithDepth: only a pin of the reader can make its                *)
(* compare-and-swap fail, and then the depth forbids it too.               *)
Unpinned(h) == [h EXCEPT !.unpinDepth = 0, !.pin = "none"]
BugUnpinShallower(p) == isPinned(p) /\ header(p).unpinDepth > opDepth(p)
MayUnpin(p) == isPinned(p) /\ header(p).unpinDepth >= opDepth(p)

-------------------------------------------------------------------------------

Remembered(p, from) == [object |-> p, from |-> from]
Pointer(o) == IF o = NULL THEN NULL ELSE <<o, 0>>
NoChunk == [header |-> Plain, field |-> [f \in LocalFields |-> NULL], space |-> "none", retire |-> FALSE]
IdleGC == [pc |-> "idle", minDepth |-> MaxDepth, level |-> MaxDepth, work |-> {},
           entry |-> NULL, slot |-> NULL, op |-> NULL, copy |-> NULL]
IdleReader == [pc |-> "idle", slot |-> NULL, ptr |-> NULL, firstCall |-> TRUE, frames |-> <<>>]

LocalInit ==
  /\ shape \in Programs
  /\ mem = [p \in Addr |->
       IF p[2] # 0 THEN NoChunk
       ELSE IF p = Root THEN [NoChunk EXCEPT !.space = "outside"]
       ELSE [NoChunk EXCEPT !.space = IF p = Roots THEN "outside" ELSE "from",
                            !.field = [f \in LocalFields |-> Pointer(shape.field[p[1]][f])]]]
  /\ depth = [o \in LocalObjects \union {Shared, Stack} |->
       IF o \in LocalObjects THEN shape.depth[o] ELSE SharedDepth]
  /\ remSet = {} /\ toRemSet = {} /\ suspects = {}
  /\ gc = IdleGC /\ localWrite = NULL
  /\ reader = IdleReader /\ held = {}
  /\ counts = [collections |-> 0, writes |-> 0]

-------------------------------------------------------------------------------
(* The owner's program *)

OwnerRuns == gc.pc = "idle" /\ localWrite = NULL
OnStack == {mem[Roots].field[f] : f \in LocalFields} \ {NULL}

LoadField(i, x, f) ==
  /\ OwnerRuns
  /\ i \in FieldNames[Stack]
  /\ x \in OnStack
  /\ mem[x].field[f] # NULL
  /\ mem' = [mem EXCEPT ![Roots].field[i] = mem[x].field[f]]
  /\ UNCHANGED <<depth, shape, remSet, toRemSet, suspects, gc, localWrite, reader, held, counts>>

Forget(i) ==
  /\ OwnerRuns
  /\ mem[Roots].field[i] # NULL
  /\ mem' = [mem EXCEPT ![Roots].field[i] = NULL]
  /\ UNCHANGED <<depth, shape, remSet, toRemSet, suspects, gc, localWrite, reader, held, counts>>

(* Assignable_writeBarrier: a pointer to a deeper heap pins its target and *)
(* makes the written object a suspect.                                     *)
IsDownPointer(src, dst) == src # NULL /\ opDepth(dst) < opDepth(src)

WriteBarrier(dst, f, src) ==
  LET dd == opDepth(dst)
      h == Pinned(header(src), dd, "down")
  IN
  /\ OwnerRuns
  /\ counts.writes < shape.writes
  /\ isMutable(dst) /\ f \in FieldNames[dst[1]]
  /\ mem[dst].field[f] # src
  /\ mem[dst].field[f] = NULL \/ shape.overwrites
  /\ localWrite' = [dst |-> dst, f |-> f, src |-> src]
  /\ IF IsDownPointer(src, dst)
     THEN /\ mem' = [mem EXCEPT ![src].header = h, ![dst].header.suspect = TRUE]
          /\ remSet' = IF h # header(src) \/ h.unpinDepth = dd
                       THEN remSet \union {Remembered(src, dst)} ELSE remSet
          /\ suspects' = IF dd > SharedDepth /\ ~header(dst).suspect
                         THEN suspects \union {dst} ELSE suspects
     ELSE UNCHANGED <<mem, remSet, suspects>>
  /\ counts' = [counts EXCEPT !.writes = @ + 1]
  /\ UNCHANGED <<depth, shape, toRemSet, gc, reader, held>>

StoreField ==
  /\ localWrite # NULL
  /\ localWrite' = NULL
  /\ mem' = [mem EXCEPT ![localWrite.dst].field[localWrite.f] = localWrite.src]
  /\ UNCHANGED <<depth, shape, remSet, toRemSet, suspects, gc, reader, held, counts>>

(* The level below is joined: its heap becomes part of the parent's.       *)
JoinLevel ==
  /\ OwnerRuns
  /\ \E o \in LocalObjects : depth[o] = MaxDepth
  /\ depth' = [o \in DOMAIN depth |-> Min({depth[o], MaxDepth - 1})]
  /\ UNCHANGED <<mem, shape, remSet, toRemSet, suspects, gc, localWrite, reader, held, counts>>

(* clear_suspect, after a join: what is pinned for an ancestor moves to    *)
(* the suspects of that heap.  It fails if a pin comes in between, and the *)
(* suspect stays in the list.                                              *)
BugIgnoreReaders(p) == FALSE

StaysSuspect(p) == header(p).pin = "any" /\ header(p).unpinDepth < opDepth(p)

ClearSuspect(p) ==
  /\ OwnerRuns
  /\ p \in suspects
  /\ \A o \in LocalObjects : depth[o] < MaxDepth
  /\ suspects' = suspects \ {p}
  /\ mem' = IF StaysSuspect(p) THEN mem
            ELSE [mem EXCEPT ![p].header.suspect = FALSE]
  /\ UNCHANGED <<depth, shape, remSet, toRemSet, gc, localWrite, reader, held, counts>>

-------------------------------------------------------------------------------
(* The collector: the remembered entries *)

Continue(pc) == gc' = [gc EXCEPT !.pc = pc]
IsInScope(p) == opDepth(p) >= gc.minDepth
InToSpace(p) == mem[p].space = "to"
InFromSpace(p) == mem[p].space \in {"from", "pinned"}
Slots(p) == {[at |-> p, f |-> f] : f \in FieldNames[p[1]]}
Target(slot) == IF slot.f = NULL THEN slot.at ELSE mem[slot.at].field[slot.f]
Stored(m, slot, p) == IF slot.f = NULL THEN m ELSE [m EXCEPT ![slot.at].field[slot.f] = p]

StartCollection(minDepth) ==
  /\ OwnerRuns
  /\ counts.collections < MaxLocalCollections
  /\ shape.overlap \/ reader.pc = "idle"
  /\ \E o \in LocalObjects : depth[o] >= minDepth
  /\ gc' = [IdleGC EXCEPT !.pc = "entries", !.minDepth = minDepth]
  /\ counts' = [counts EXCEPT !.collections = @ + 1]
  /\ UNCHANGED <<mem, depth, shape, remSet, toRemSet, suspects, localWrite, reader, held>>

(* tryUnpinOrKeepPinned, until the unpinning                               *)
TakeEntry(e) ==
  LET p == e.object IN
  /\ gc.pc = "entries"
  /\ e \in remSet /\ opDepth(p) = gc.level
  /\ remSet' = remSet \ {e}
  /\ IF ~isPinned(p) \/ InToSpace(p) THEN UNCHANGED <<mem, gc>>
     ELSE IF MayUnpin(p)
     THEN mem' = [mem EXCEPT ![p].header = Unpinned(@)] /\ UNCHANGED gc
     ELSE gc' = [gc EXCEPT !.pc = "keep", !.entry = e] /\ UNCHANGED mem
  /\ UNCHANGED <<depth, shape, toRemSet, suspects, localWrite, reader, held, counts>>

(* An entry from deeper than another one is forgotten.                     *)
BugFromAsDeep(e) == e.from # NULL /\ opDepth(e.from) >= header(e.object).unpinDepth

IsFromDeeper(e) == e.from # NULL /\ opDepth(e.from) > header(e.object).unpinDepth

KeepEntry ==
  LET e == gc.entry IN
  /\ gc.pc = "keep"
  /\ IF IsFromDeeper(e)
     THEN gc' = [gc EXCEPT !.pc = "entries", !.entry = NULL] /\ UNCHANGED toRemSet
     ELSE /\ gc' = [gc EXCEPT !.pc = "entangled", !.op = e.object, !.entry = NULL]
          /\ toRemSet' = IF e.from = NULL THEN toRemSet ELSE toRemSet \union {e}
  /\ UNCHANGED <<mem, depth, shape, remSet, suspects, localWrite, reader, held, counts>>

(* LGC_markAndScan, and markAndAdd when the object stays in its place: it  *)
(* is marked and remembered for the unmarking, and its chunk is kept.      *)
MarkInPlace ==
  LET p == gc.op
      new == header(p).pin = "any" /\ ~header(p).mark
  IN
  /\ gc.pc = "entangled"
  /\ mem' = [mem EXCEPT ![p].header.mark = @ \/ new,
                        ![p].space = IF @ = "from" THEN "pinned" ELSE @]
  /\ toRemSet' = IF new THEN toRemSet \union {Remembered(p, NULL)} ELSE toRemSet
  /\ gc' = [gc EXCEPT !.pc = "scan", !.work = @ \union Slots(p), !.op = NULL, !.slot = NULL]
  /\ UNCHANGED <<depth, shape, remSet, suspects, localWrite, reader, held, counts>>

(* markAndAdd, until the relocation                                        *)
MarkAndAdd(slot) ==
  LET p == Target(slot)
      rest == [gc EXCEPT !.work = @ \ {slot}]
  IN
  /\ gc.pc = "scan"
  /\ slot \in gc.work
  /\ IF p = NULL \/ ~IsInScope(p) \/ ~InFromSpace(p) THEN gc' = rest /\ UNCHANGED mem
     ELSE IF hasFwdPtr(p) THEN gc' = rest /\ mem' = Stored(mem, slot, getFwdPtr(p))
     ELSE IF header(p).mark \/ (header(p).pin = "down" /\ ~MayUnpin(p))
     THEN gc' = rest /\ UNCHANGED mem
     ELSE /\ gc' = [rest EXCEPT !.pc = "copy", !.slot = slot, !.op = p]
          /\ mem' = [mem EXCEPT ![p].header = IF MayUnpin(p) THEN Unpinned(@) ELSE @]
  /\ UNCHANGED <<depth, shape, remSet, toRemSet, suspects, localWrite, reader, held, counts>>

(* relocateObject: the only object of a chunk is moved with its chunk.     *)
Copy ==
  LET p == gc.op IN
  /\ gc.pc = "copy"
  /\ IF isPinned(p) THEN Continue("entangled") /\ UNCHANGED mem
     ELSE IF p[1] \in Large
     THEN /\ mem' = [mem EXCEPT ![p].space = "to", ![p].retire = TRUE]
          /\ gc' = [gc EXCEPT !.pc = "store", !.copy = p]
     ELSE /\ gc' = [gc EXCEPT !.pc = "forward", !.copy = mem[p]]
          /\ UNCHANGED mem
  /\ UNCHANGED <<depth, shape, remSet, toRemSet, suspects, localWrite, reader, held, counts>>

Relocated(p, copy) ==
  [mem EXCEPT ![p].header = FwdHeader,
              ![getFwdPtr(p)] = [copy EXCEPT !.space = "to", !.retire = FALSE]]

BugPlainStore(p) == TRUE

Wins(p) == header(p) = gc.copy.header

CompareAndSwap ==
  LET p == gc.op IN
  /\ gc.pc = "forward"
  /\ IF Wins(p)
     THEN /\ mem' = [Relocated(p, gc.copy) EXCEPT ![p].retire = TRUE]
          /\ gc' = [gc EXCEPT !.pc = "store", !.copy = getFwdPtr(p)]
     ELSE /\ gc' = [gc EXCEPT !.pc = "entangled", !.copy = NULL]
          /\ UNCHANGED mem
  /\ UNCHANGED <<depth, shape, remSet, toRemSet, suspects, localWrite, reader, held, counts>>

StoreNew ==
  /\ gc.pc = "store"
  /\ mem' = Stored(mem, gc.slot, gc.copy)
  /\ gc' = [gc EXCEPT !.pc = "scan", !.work = @ \union Slots(gc.copy),
                      !.op = NULL, !.slot = NULL, !.copy = NULL]
  /\ UNCHANGED <<depth, shape, remSet, toRemSet, suspects, localWrite, reader, held, counts>>

Scanned ==
  /\ gc.pc = "scan" /\ gc.work = {}
  /\ Continue("entries")
  /\ UNCHANGED <<mem, depth, shape, remSet, toRemSet, suspects, localWrite, reader, held, counts>>

(* The levels are passed from the deepest; then the stack is forwarded,    *)
(* and the objects of the scope that remembered pointers are in.           *)
NextLevel ==
  /\ gc.pc = "entries"
  /\ \A e \in remSet : opDepth(e.object) # gc.level
  /\ gc' = IF gc.level > gc.minDepth THEN [gc EXCEPT !.level = @ - 1]
           ELSE [gc EXCEPT !.pc = "roots", !.work = Slots(Roots) \union
                   {[at |-> e.from, f |-> NULL] : e \in {e \in toRemSet : e.from # NULL}}]
  /\ UNCHANGED <<mem, depth, shape, remSet, toRemSet, suspects, localWrite, reader, held, counts>>

-------------------------------------------------------------------------------
(* The collector: the private objects, and the end *)

IsTrulyPinned(p) == isPinned(p) /\ header(p).unpinDepth < opDepth(p)

(* forwardHHObjptr                                                         *)
ForwardHHObjptr(slot) ==
  LET p == Target(slot)
      rest == [gc EXCEPT !.work = @ \ {slot}]
  IN
  /\ gc.pc = "roots"
  /\ slot \in gc.work
  /\ IF p = NULL \/ ~IsInScope(p) \/ ~InFromSpace(p) THEN gc' = rest /\ UNCHANGED mem
     ELSE IF hasFwdPtr(p) THEN gc' = rest /\ mem' = Stored(mem, slot, getFwdPtr(p))
     ELSE IF header(p).mark \/ IsTrulyPinned(p) THEN gc' = rest /\ UNCHANGED mem
     ELSE IF p[1] \in Large
     THEN /\ mem' = [mem EXCEPT ![p].header = Unpinned(@), ![p].space = "to"]
          /\ gc' = [rest EXCEPT !.work = @ \union Slots(p)]
     ELSE /\ mem' = [mem EXCEPT ![p].header = Unpinned(@)]
          /\ gc' = [rest EXCEPT !.pc = "install", !.slot = slot, !.op = p,
                                !.copy = [mem[p] EXCEPT !.header = Unpinned(@)]]
  /\ UNCHANGED <<depth, shape, remSet, toRemSet, suspects, localWrite, reader, held, counts>>

(* Here the forwarding pointer is a plain store.                           *)
Install ==
  LET p == gc.op IN
  /\ gc.pc = "install"
  /\ mem' = Stored(Relocated(p, gc.copy), gc.slot, getFwdPtr(p))
  /\ gc' = [gc EXCEPT !.pc = "roots", !.work = @ \union Slots(getFwdPtr(p)),
                      !.op = NULL, !.slot = NULL, !.copy = NULL]
  /\ UNCHANGED <<depth, shape, remSet, toRemSet, suspects, localWrite, reader, held, counts>>

(* copySuspect: what was neither copied nor pinned is garbage.             *)
CopySuspects ==
  /\ gc.pc = "roots" /\ gc.work = {}
  /\ suspects' = {p \in suspects : ~IsInScope(p)} \union
       {IF hasFwdPtr(p) THEN getFwdPtr(p) ELSE p :
          p \in {p \in suspects : IsInScope(p) /\ (hasFwdPtr(p) \/ isPinned(p))}}
  /\ Continue("free")
  /\ UNCHANGED <<mem, depth, shape, remSet, toRemSet, localWrite, reader, held, counts>>

(* A chunk from which an object was copied while others could read it is   *)
(* retired: it is freed when no barrier is under way that saw it.          *)
Garbage == {p \in Addr : mem[p].space = "from" /\ IsInScope(p)}
MustRetire(p) == mem[p].retire

FreeFromSpace ==
  /\ gc.pc = "free"
  /\ mem' = [p \in Addr |->
       IF p \notin Garbage THEN mem[p]
       ELSE IF MustRetire(p) THEN [mem[p] EXCEPT !.space = "retired", !.retire = FALSE]
       ELSE [NoChunk EXCEPT !.space = "freed"]]
  /\ Continue("unmark")
  /\ UNCHANGED <<depth, shape, remSet, toRemSet, suspects, localWrite, reader, held, counts>>

Reclaim ==
  /\ reader.pc = "idle"
  /\ \E p \in Addr : mem[p].space = "retired"
  /\ mem' = [p \in Addr |->
       IF mem[p].space = "retired" THEN [NoChunk EXCEPT !.space = "freed"] ELSE mem[p]]
  /\ UNCHANGED <<depth, shape, remSet, toRemSet, suspects, gc, localWrite, reader, held, counts>>

(* unmarkWrapper, and HM_HH_zip of the old heaps and the new               *)
IsUnmarked(p) == Remembered(p, NULL) \in toRemSet

Unmark ==
  /\ gc.pc = "unmark"
  /\ mem' = [p \in Addr |->
       [mem[p] EXCEPT !.header.mark = @ /\ ~IsUnmarked(p),
                      !.retire = @ /\ mem[p].space # "pinned",
                      !.space = IF @ \in {"pinned", "to"} THEN "from" ELSE @]]
  /\ remSet' = remSet \union {[e EXCEPT !.from = IF @ = NULL THEN @ ELSE getRacyFwdPtr[@]] :
                                e \in toRemSet}
  /\ toRemSet' = {}
  /\ gc' = IdleGC
  /\ UNCHANGED <<depth, shape, suspects, localWrite, reader, held, counts>>

-------------------------------------------------------------------------------
(* The reader *)

Got(p) == held' = held \union {p} /\ reader' = IdleReader

(* The fields of an immutable object are read without a barrier.           *)
ReadImmutable(x, f) ==
  /\ reader.pc = "idle"
  /\ x \in held /\ ~isMutable(x)
  /\ mem[x].field[f] # NULL
  /\ Got(mem[x].field[f])
  /\ UNCHANGED <<mem, depth, shape, remSet, toRemSet, suspects, gc, localWrite, counts>>

(* A read of a mutable field: the field, then the suspect bit of the       *)
(* object, and if that is set Assignable_readBarrier does both once more.  *)
ReadField(x, f) ==
  /\ reader.pc = "idle"
  /\ shape.overlap \/ gc.pc = "idle"
  /\ x \in held \union {Root} /\ isMutable(x)
  /\ mem[x].field[f] # NULL
  /\ reader' = [IdleReader EXCEPT !.pc = "check", !.slot = [at |-> x, f |-> f],
                                  !.ptr = mem[x].field[f]]
  /\ UNCHANGED <<mem, depth, shape, remSet, toRemSet, suspects, gc, localWrite, held, counts>>

CheckSuspect ==
  /\ reader.pc \in {"check", "check again"}
  /\ IF ~header(reader.slot.at).suspect THEN Got(reader.ptr)
     ELSE /\ reader' = [reader EXCEPT !.pc = IF @ = "check" THEN "read" ELSE "manage"]
          /\ UNCHANGED held
  /\ UNCHANGED <<mem, depth, shape, remSet, toRemSet, suspects, gc, localWrite, counts>>

readBarrier ==
  LET p == Target(reader.slot) IN
  /\ reader.pc = "read"
  /\ reader' = IF p = NULL THEN IdleReader
               ELSE [reader EXCEPT !.pc = "check again", !.ptr = p]
  /\ UNCHANGED <<mem, depth, shape, remSet, toRemSet, suspects, gc, localWrite, held, counts>>

Frame(slot, p) == [slot |-> slot, ptr |-> p, pc |-> "enter", todo |-> {}, add |-> FALSE, new |-> NULL]
NeedsPin(h) == h.pin # "any" \/ h.unpinDepth > SharedDepth

(* manage_entangled: what a pointer from the shared heap has pinned is     *)
(* remembered already.                                                     *)
ManageEntangled ==
  LET p == reader.ptr
      h == header(p)
  IN
  /\ reader.pc = "manage"
  /\ IF NeedsPin(h)
     THEN /\ reader' = [reader EXCEPT !.pc = "entangle",
                !.firstCall = ~(h.pin = "down" /\ h.unpinDepth = SharedDepth),
                !.frames = <<Frame(NULL, p)>>]
          /\ UNCHANGED <<mem, held>>
     ELSE /\ mem' = [mem EXCEPT ![p].header.suspect = @ \/ isMutable(p)]
          /\ Got(p)
  /\ UNCHANGED <<depth, shape, remSet, toRemSet, suspects, gc, localWrite, counts>>

(* make_entangled, one frame for each call                                 *)
Top == Last(reader.frames)
Replace(frame) == [reader EXCEPT !.frames = Append(Front(@), frame)]
Entangling(pc) == reader.pc = "entangle" /\ Top.pc = pc

EnterCall ==
  LET new == getRacyFwdPtr[Top.ptr] IN
  /\ Entangling("enter")
  /\ reader' =
       IF ~NeedsPin(header(new)) THEN Replace([Top EXCEPT !.pc = "finish", !.new = new])
       ELSE IF isMutable(new) THEN Replace([Top EXCEPT !.pc = "pin", !.add = reader.firstCall])
       ELSE [Replace([Top EXCEPT !.pc = "fields", !.add = reader.firstCall, !.todo = FieldNames[new[1]]])
               EXCEPT !.firstCall = FALSE]
  /\ UNCHANGED <<mem, depth, shape, remSet, toRemSet, suspects, gc, localWrite, held, counts>>

(* What an immutable object leads to is pinned first.                      *)
EntangleField(f) ==
  LET p == mem[Top.ptr].field[f]
      rest == [Top EXCEPT !.todo = @ \ {f}]
  IN
  /\ Entangling("fields")
  /\ f \in Top.todo
  /\ reader' = IF p = NULL THEN Replace(rest)
               ELSE [reader EXCEPT !.frames =
                       Append(Append(Front(@), rest), Frame([at |-> Top.ptr, f |-> f], p))]
  /\ UNCHANGED <<mem, depth, shape, remSet, toRemSet, suspects, gc, localWrite, held, counts>>

Pin ==
  LET new == getRacyFwdPtr[Top.ptr] IN
  /\ Entangling("pin") \/ (Entangling("fields") /\ Top.todo = {})
  /\ mem' = [mem EXCEPT ![new].header = Pinned(@, SharedDepth, "any")]
  /\ reader' = Replace([Top EXCEPT !.new = new,
       !.pc = IF Top.add /\ mem'[new].header.pin # mem[new].header.pin
              THEN "remember" ELSE "finish"])
  /\ UNCHANGED <<depth, shape, remSet, toRemSet, suspects, gc, localWrite, held, counts>>

(* In the remembered set of the heap that the object was found in.         *)
Remember ==
  LET e == Remembered(Top.new, NULL) IN
  /\ Entangling("remember")
  /\ IF InToSpace(Top.ptr)
     THEN toRemSet' = toRemSet \union {e} /\ UNCHANGED remSet
     ELSE remSet' = remSet \union {e} /\ UNCHANGED toRemSet
  /\ reader' = Replace([Top EXCEPT !.pc = "finish"])
  /\ UNCHANGED <<mem, depth, shape, suspects, gc, localWrite, held, counts>>

FinishCall ==
  LET new == Top.new
      moved == IF Top.slot # NULL /\ Top.ptr # new THEN Stored(mem, Top.slot, new) ELSE mem
  IN
  /\ Entangling("finish")
  /\ mem' = [moved EXCEPT ![new].header.suspect = @ \/ isMutable(new)]
  /\ IF Len(reader.frames) = 1 THEN Got(new)
     ELSE reader' = [reader EXCEPT !.frames = Front(@)] /\ UNCHANGED held
  /\ UNCHANGED <<depth, shape, remSet, toRemSet, suspects, gc, localWrite, counts>>

-------------------------------------------------------------------------------

Owner ==
  \/ \E f \in LocalFields :
       \/ Forget(f)
       \/ \E i \in LocalFields, x \in OnStack : LoadField(i, x, f)
       \/ \E dst \in OnStack \union {Root}, src \in OnStack \union {NULL} :
            WriteBarrier(dst, f, src)
  \/ StoreField \/ JoinLevel
  \/ \E p \in suspects : ClearSuspect(p)

Collector ==
  \/ \E d \in 2 .. MaxDepth : StartCollection(d)
  \/ \E e \in remSet : TakeEntry(e)
  \/ \E slot \in gc.work : MarkAndAdd(slot) \/ ForwardHHObjptr(slot)
  \/ KeepEntry \/ MarkInPlace \/ Copy \/ CompareAndSwap \/ StoreNew \/ Scanned
  \/ NextLevel \/ Install \/ CopySuspects \/ FreeFromSpace \/ Unmark

Reader ==
  \/ \E x \in held \union {Root}, f \in LocalFields : ReadField(x, f) \/ ReadImmutable(x, f)
  \/ CheckSuspect \/ readBarrier \/ ManageEntangled
  \/ EnterCall \/ (\E f \in LocalFields : EntangleField(f)) \/ Pin \/ Remember \/ FinishCall

(* The program may have ended.                                             *)
AtEnd == OwnerRuns /\ UNCHANGED localVars

LocalNext == Owner \/ Collector \/ Reader \/ Reclaim \/ AtEnd

LocalSpec == LocalInit /\ [][LocalNext]_localVars

-------------------------------------------------------------------------------
(* Properties *)

LocalTypeOK ==
  /\ mem \in [Addr -> [header : Header, field : [LocalFields -> Addr \union {NULL}],
       space : {"none", "outside", "from", "pinned", "to", "retired", "freed"}, retire : BOOLEAN]]
  /\ depth \in [LocalObjects \union {Shared, Stack} -> 1 .. MaxDepth]
  /\ \A e \in remSet \union toRemSet : e \in [object : Addr, from : Addr \union {NULL}]
  /\ suspects \subseteq Addr
  /\ held \subseteq Addr
  /\ gc.level \in 2 .. MaxDepth /\ gc.minDepth \in 2 .. MaxDepth

IsLive(p) == mem[p].space \in {"outside", "from", "pinned", "to"} /\ ~hasFwdPtr(p)

(* The reader may go on with what its barrier gave it, for as long as it   *)
(* likes: it is neither moved nor freed, and while the barrier is under    *)
(* way it looks into no header that is gone.                               *)
HeldIsKept ==
  /\ \A p \in held : IsLive(p)
  /\ reader.ptr # NULL => mem[reader.ptr].space # "freed"
  /\ \A i \in 1 .. Len(reader.frames) : mem[reader.frames[i].ptr].space # "freed"

(* Everything that the objects of the set lead to.                         *)
Successors(S) == S \union ({mem[p].field[f] : p \in S, f \in LocalFields} \ {NULL})
ReachableFrom(ps) ==
  LET reach[n \in 0 .. Cardinality(LocalObjects) + 1] ==
        IF n = 0 THEN ps ELSE Successors(reach[n - 1])
  IN reach[Cardinality(LocalObjects) + 1]

(* After a collection the owner finds all that it could reach, and never a *)
(* forwarding pointer; and no mark is left, which the next collection      *)
(* would take for an object that it has scanned.                           *)
HeapIsWhole ==
  gc.pc = "idle" =>
    /\ \A p \in ReachableFrom({Roots, Root}) : IsLive(p)
    /\ \A p \in Addr : IsLive(p) => ~header(p).mark

(* What the reader holds is known to the next collection: it is pinned and *)
(* a remembered entry leads to it; and it is a suspect if it is mutable,   *)
(* so that reads from it have their barrier.                               *)
HeldIsRemembered ==
  /\ \A p \in held \ {Root} : isMutable(p) => header(p).suspect
  /\ gc.pc = "idle" /\ reader.pc = "idle" =>
       \A p \in held \ {Root} :
         /\ header(p).pin # "none" /\ header(p).unpinDepth = SharedDepth
         /\ p \in ReachableFrom({e.object : e \in remSet})

(* The assertion of forwardHHObjptr: what is truly pinned was found with   *)
(* the remembered entries and stays in its chunk; tryUnpinOrKeepPinned     *)
(* says of an entry that it forgets that there will be another one.        *)
PinnedIsInPlace ==
  gc.pc = "roots" => \A slot \in gc.work :
    LET p == Target(slot) IN
    p # NULL /\ IsInScope(p) /\ InFromSpace(p) /\ IsTrulyPinned(p) => mem[p].space = "pinned"

(* The assertions of the collector: the private objects that it copies     *)
(* with plain stores are not pinned by anybody meanwhile, an object that   *)
(* could not be copied is entangled, and one that is pinned for an         *)
(* ancestor, or marked, was found with the remembered entries.             *)
LocalNeverDies ==
  /\ gc.pc = "install" => header(gc.op) = gc.copy.header
  /\ gc.pc = "entangled" /\ gc.slot # NULL => header(gc.op).pin = "any"
  /\ gc.pc = "roots" => \A p \in Addr :
       mem[p].space = "from" /\ IsInScope(p) => ~header(p).mark
  /\ PinnedIsInPlace

(* What decheck.c says of its help for the collector: the reader might     *)
(* traverse this pointer and shouldn't see the forwarded one.              *)
SeesNoForwarded == \A p \in held : ~hasFwdPtr(p)

===============================================================================
