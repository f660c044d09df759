------------------------------- MODULE Decheck -------------------------------
(***************************************************************************)
(* The entanglement check (runtime/gc/decheck.c): from two small words, a  *)
(* thread decides whether an object that it reads was allocated before, or *)
(* concurrently.  A tid is the path of a strand in the tree of forks, as a *)
(* word of bits, and its depths in the tree and in the dag; a chunk has    *)
(* the tid of the strand that allocated it, and a thread has the dag depth *)
(* of every fork above it.                                                 *)
(*                                                                         *)
(* The tree of forks is that of the scheduler (Scheduler.sml): the left    *)
(* side goes on in the thread that forks, the right side waits in its      *)
(* deque and gets a thread of its own when it is stolen.                   *)
(***************************************************************************)
EXTENDS Integers, Sequences, FiniteSetsExt

CONSTANTS
  Threads,     \* GC_thread
  RootThread,  \* the thread of the program
  Items,       \* objects
  TreeDepth,   \* bound: forks nest this deep (MAX_FORK_DEPTH in the code)
  DagDepth,    \* bound: the longest path of forks and joins
  Bogus

VARIABLES
  thread,       \* decheckState and decheckSyncDepths of the threads
  join,         \* the forks each thread has not joined yet, the oldest first
  object,       \* the tid of the object's chunk and the heap it is in
  before,       \* history: the objects allocated before each thread's strand
  synch_depths  \* the dag depth of every strand, which the assertions keep

decheckVars == <<thread, join, object, before, synch_depths>>

-------------------------------------------------------------------------------
(* Tids.  A word is the set of its bits that are set.                      *)

Words == SUBSET (0 .. TreeDepth)
Tid(path, tree, dag) == [path |-> path, tree |-> tree, dag |-> dag]
Tids == [path : Words, tree : 0 .. TreeDepth, dag : 0 .. DagDepth]

(* Where an object is: the owner and the depth of its heap, and the tid of *)
(* its chunk.                                                              *)
Places == [owner : Threads, depth : 1 .. TreeDepth + 1, tid : Tids]

ASSUME DecheckAssumption ==
  /\ RootThread \in Threads
  /\ TreeDepth \in Nat \ {0}
  /\ DagDepth \in Nat
  /\ Bogus \notin Threads \union Places

norm_path(tid) == {b \in tid.path : b <= tid.tree}

LeftTid(tid) ==
  Tid((tid.path \ {tid.tree}) \union {tid.tree + 1}, tid.tree + 1, tid.dag + 1)

RightTid(tid) ==
  Tid(tid.path \union {tid.tree, tid.tree + 1}, tid.tree + 1, tid.dag + 1)

BugJoinLeftOnly(t1, t2) == Tid(t1.path \union {t1.tree - 1}, t1.tree - 1, t1.dag + 1)
JoinTid(t1, t2) ==
  Tid(t1.path \union {t1.tree - 1}, t1.tree - 1, Max({t1.dag, t2.dag}) + 1)

(* The length of the common prefix of two paths: the lowest bit in which   *)
(* they differ among those that both have.                                 *)
CommonLength(t1, t2) ==
  LET both == Min({t1.tree, t2.tree}) IN
  Min({b \in norm_path(t1) \ norm_path(t2) : b < both} \union
      {b \in norm_path(t2) \ norm_path(t1) : b < both} \union {both})

BugNotOffByOne(t1, t2) ==
  IF norm_path(t1) = norm_path(t2) THEN t1.tree + 1 ELSE CommonLength(t1, t2)
lcaHeapDepth(t1, t2) ==
  IF norm_path(t1) = norm_path(t2) THEN t1.tree + 1 ELSE CommonLength(t1, t2) + 1

LcaPath(t1, llen) == {b \in norm_path(t1) : b < llen} \union {llen}

decheckIsOrdered(t, t1) ==
  LET tid == thread[t].tid
      llen == CommonLength(t1, tid)
  IN \/ norm_path(t1) = norm_path(tid)
     \/ norm_path(t1) = LcaPath(t1, llen)
     \/ t1.dag <= thread[t].sync[llen]

-------------------------------------------------------------------------------

(* "spork" or "function": how the right side of the thread was forked.     *)
Unused == [state |-> "unused", tid |-> Tid({}, 0, 0), sync |-> [d \in 0 .. TreeDepth |-> 0],
           parent |-> Bogus, kind |-> "none"]

FirstTid == Tid({0}, 0, 0)

DecheckInit ==
  /\ thread = [t \in Threads |->
       IF t = RootThread THEN [Unused EXCEPT !.state = "running", !.tid = FirstTid] ELSE Unused]
  /\ join = [t \in Threads |-> <<>>]
  /\ object = [o \in Items |-> Bogus]
  /\ before = [t \in Threads |-> {}]
  /\ synch_depths = [w \in Words |-> 0]

Running(t) == thread[t].state = "running"

(* GC_HH_decheckSetTid and the end of GC_HH_decheckJoin                    *)
SetTid(record, tid) == [record EXCEPT !.tid = tid, !.sync[tid.tree] = tid.dag]

(* The fork of a frame copies the forking thread's depths at once          *)
(* (GC_HH_forkThread), that of a function when it starts.                  *)
Fork(t, r, kind) ==
  LET tid == thread[t].tid IN
  /\ Running(t)
  /\ thread[r].state = "unused"
  /\ tid.tree < TreeDepth
  /\ tid.dag + tid.tree + 2 <= DagDepth
  /\ thread' = [thread EXCEPT
       ![t] = SetTid(@, LeftTid(tid)),
       ![r] = [@ EXCEPT !.state = "ready", !.parent = t, !.kind = kind,
                        !.sync = IF kind = "spork" THEN thread[t].sync ELSE thread[r].sync]]
  /\ join' = [join EXCEPT ![t] = Append(@, [thread |-> r, tidRight |-> RightTid(tid)])]
  /\ before' = [before EXCEPT ![r] = before[t]]
  /\ synch_depths' = [synch_depths EXCEPT
       ![norm_path(LeftTid(tid))] = tid.dag + 1, ![norm_path(RightTid(tid))] = tid.dag + 1]
  /\ UNCHANGED object

(* A thief takes the oldest: it converts the thread or makes one.          *)
BugNoCopy(r) == thread[r].sync
StartDepths(r) ==
  IF thread[r].kind = "spork" THEN thread[r].sync ELSE thread[thread[r].parent].sync

Steal(t, i) ==
  LET r == join[t][i].thread IN
  /\ \A j \in 1 .. i : thread[join[t][j].thread].state = "ready" <=> j = i
  /\ thread' = [thread EXCEPT ![r] =
       SetTid([@ EXCEPT !.state = "running", !.sync = StartDepths(r)], join[t][i].tidRight)]
  /\ UNCHANGED <<join, object, before, synch_depths>>

(* The right side has ended, with all its own forks joined.                *)
FinishRight(r) ==
  /\ Running(r)
  /\ r # RootThread
  /\ join[r] = <<>>
  /\ thread' = [thread EXCEPT ![r].state = "done"]
  /\ UNCHANGED <<join, object, before, synch_depths>>

(* The heaps of the children at their depth become the parent's.           *)
Promoted(t, r, depth) ==
  [o \in Items |->
     IF object[o] # Bogus /\ object[o].owner \in {t, r} /\ object[o].depth = depth
     THEN [owner |-> t, depth |-> depth - 1, tid |-> object[o].tid]
     ELSE object[o]]

JoinWith(t, tidRight) ==
  LET last == join[t][Len(join[t])]
      tid == JoinTid(thread[t].tid, tidRight)
  IN /\ thread' = [thread EXCEPT ![t] = SetTid(@, tid), ![last.thread] = Unused]
     /\ join' = [join EXCEPT ![t] = SubSeq(@, 1, Len(@) - 1)]
     /\ object' = Promoted(t, last.thread, thread[t].tid.tree + 1)
     /\ before' = [before EXCEPT ![t] = @ \union before[last.thread], ![last.thread] = {}]
     /\ synch_depths' = [synch_depths EXCEPT ![norm_path(tid)] = tid.dag]

(* GC_HH_joinIntoParentBeforeFastClone: the right side was not stolen.     *)
FastJoin(t) ==
  /\ Running(t)
  /\ join[t] # <<>>
  /\ LET last == join[t][Len(join[t])] IN
     /\ thread[last.thread].state = "ready"
     /\ JoinWith(t, last.tidRight)

(* GC_HH_joinIntoParent                                                    *)
SlowJoin(t) ==
  /\ Running(t)
  /\ join[t] # <<>>
  /\ LET last == join[t][Len(join[t])] IN
     /\ thread[last.thread].state = "done"
     /\ JoinWith(t, thread[last.thread].tid)

SameHeap(o1, o2) ==
  object[o1] # Bogus /\ object[o2] # Bogus
    /\ object[o1].owner = object[o2].owner /\ object[o1].depth = object[o2].depth

(* In a new chunk, or in one that an object of this heap is in.            *)
AllocateObject(t, o) ==
  LET heap == [owner |-> t, depth |-> thread[t].tid.tree + 1, tid |-> thread[t].tid] IN
  /\ Running(t)
  /\ object[o] = Bogus
  /\ \/ object' = [object EXCEPT ![o] = heap]
     \/ \E other \in Items :
          /\ object[other] # Bogus
          /\ object[other].owner = heap.owner /\ object[other].depth = heap.depth
          /\ object' = [object EXCEPT ![o] = object[other]]
  /\ before' = [before EXCEPT ![t] = @ \union {o}]
  /\ UNCHANGED <<thread, join, synch_depths>>

(* A local collection copies an object into a chunk of its heap that may   *)
(* have the tid of another object; it leaves heaps that thieves share.     *)
IsPrivate(t, depth) ==
  \A i \in 1 .. Len(join[t]) :
    join[t][i].tidRight.tree >= depth => thread[join[t][i].thread].state = "ready"

CollectObject(t, o) ==
  /\ Running(t)
  /\ object[o] # Bogus /\ object[o].owner = t
  /\ IsPrivate(t, object[o].depth)
  /\ \E other \in Items :
       /\ SameHeap(o, other)
       /\ object' = [object EXCEPT ![o].tid = object[other].tid]
  /\ UNCHANGED <<thread, join, before, synch_depths>>

(* The program ends at the bound on its length.                            *)
AtBound == UNCHANGED decheckVars

DecheckNext ==
  \/ AtBound
  \/ \E t \in Threads :
       \/ \E r \in Threads, kind \in {"spork", "function"} : Fork(t, r, kind)
       \/ \E i \in 1 .. Len(join[t]) : Steal(t, i)
       \/ FinishRight(t) \/ FastJoin(t) \/ SlowJoin(t)
       \/ \E o \in Items : AllocateObject(t, o) \/ CollectObject(t, o)

DecheckSpec == DecheckInit /\ [][DecheckNext]_decheckVars

-------------------------------------------------------------------------------
(* Properties *)

Strands ==
  [state : {"unused", "ready", "running", "done"}, tid : Tids,
   sync : [0 .. TreeDepth -> 0 .. DagDepth], parent : Threads \union {Bogus},
   kind : {"none", "spork", "function"}]
Forks == [thread : Threads, tidRight : Tids]

DecheckTypeOK ==
  /\ thread \in [Threads -> Strands]
  /\ join \in [Threads -> Seq(Forks)]
  /\ object \in [Items -> {Bogus} \union Places]
  /\ before \in [Threads -> SUBSET Items]
  /\ synch_depths \in [Words -> 0 .. DagDepth]

Allocated == {o \in Items : object[o] # Bogus}

(* The check is exact: an object is ordered for a thread precisely when    *)
(* the allocation precedes what the thread runs now, whatever was forked,  *)
(* stolen, joined and collected since, and although a chunk has one tid    *)
(* for the objects of several strands.                                     *)
OrderedExactly ==
  \A t \in Threads : Running(t) =>
    \A o \in Allocated : decheckIsOrdered(t, object[o].tid) <=> o \in before[t]

(* The assertion of decheckIsOrdered: where it compares dag depths, the    *)
(* thread's own table agrees with the depths of all strands.               *)
SyncDepthsAgree ==
  \A t \in Threads : Running(t) => \A o \in Allocated :
    LET tid == object[o].tid
        llen == CommonLength(tid, thread[t].tid)
    IN norm_path(tid) # norm_path(thread[t].tid) =>
         thread[t].sync[llen] = synch_depths[LcaPath(tid, llen)]

(* The check is exact, and its assertion holds.                           *)
OrderedIsBefore == OrderedExactly /\ SyncDepthsAgree

(* The heaps of depth d that t sees are its own when it was forked above d, *)
(* and otherwise those of the thread it was forked from.                    *)
IsOwn(t, depth) ==
  LET parent == thread[t].parent
      fork == CHOOSE i \in 1 .. Len(join[parent]) : join[parent][i].thread = t
  IN parent = Bogus \/ join[parent][fork].tidRight.tree < depth
HeapAt[t \in Threads] ==
  [depth \in 0 .. TreeDepth + 2 |->
     IF IsOwn(t, depth) THEN t ELSE HeapAt[thread[t].parent][depth]]

(* An entangled object is pinned for the heap of the least common ancestor *)
(* of its owner and the reader: deeper, a collection would move it under   *)
(* the reader, and shallower it would stay pinned after the join.          *)
LcaIsShared ==
  \A t \in Threads : Running(t) => \A o \in Allocated \ before[t] :
    LET depth == lcaHeapDepth(thread[t].tid, object[o].tid) IN
    /\ HeapAt[t][depth] = HeapAt[object[o].owner][depth]
    /\ HeapAt[t][depth + 1] # HeapAt[object[o].owner][depth + 1]

===============================================================================
