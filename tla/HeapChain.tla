------------------------------ MODULE HeapChain ------------------------------
(***************************************************************************)
(* The hierarchical heap of a thread (runtime/gc/hierarchical-heap.c): a   *)
(* list of heaps by depth, each with the heaps of its depth that were      *)
(* split off for a concurrent collection and the ones whose collection is  *)
(* over, and the union-find forest through which everyone finds the heap   *)
(* of a chunk (chunk.c).                                                   *)
(*                                                                         *)
(* A call of the thread that owns a list is one step: of the state it      *)
(* works on, others change only ccstate.  What runs beside it is step by   *)
(* step: a collector claims a registered heap, resets the heads of its     *)
(* chunks one by one, retires the nodes below it and ends; and a thread    *)
(* looks up the head of a chunk one load or store at a time.               *)
(***************************************************************************)
EXTENDS Integers, FiniteSetsExt, SequencesExt

CONSTANTS
  Threads, Root,                   \* GC_thread, and the program's own
  HeapsPerThread, ChunksPerThread, \* what a thread can allocate
  MaxDepth, Budgets,               \* bounds: of depth, and of how often
  Entangled,    \* whether a thread may look at a chunk that it cannot know
  Nil

HeapChainAssumption ==
  /\ Root \in Threads
  /\ {HeapsPerThread, ChunksPerThread, MaxDepth} \subseteq Nat
  /\ Budgets \subseteq [{"depth", "spawns", "regs", "lookups", "locals", "missing"} -> Nat]
  /\ \A b \in Budgets : b.depth <= MaxDepth
  /\ Entangled \in BOOLEAN

VARIABLES
  heap,       \* the heaps, each with its union-find node
  levelHead,  \* of every chunk, the node it is in; Nil if it is not allocated
  thread,     \* the threads: their list of heaps, their open forks, their look-up
  grace,      \* of a retired node, who may still be looking at it
  older,      \* history: of every chunk, those its objects may point to
  budget      \* how deep this run may go, how many steps of a kind are left

chainVars == <<heap, levelHead, thread, grace, older, budget>>

HeapIds == Threads \X (1..HeapsPerThread)
Chunks == Threads \X (1..ChunksPerThread)
CCStates == {"unreg", "reg", "collecting", "done"}

-------------------------------------------------------------------------------
(* Heaps *)

NoHeap == [depth |-> 0, nextAncestor |-> Nil, subHeapForCC |-> Nil, subHeapCompletedCC |-> Nil,
           ccstate |-> "unused", chunks |-> {}, todo |-> {},
           representative |-> Nil, dependant1 |-> Nil, dependant2 |-> Nil, numDependants |-> 0]

(* The next heap and the next chunk that a thread allocates.               *)
FreshHeaps(H, t, n) ==
  Cardinality({i \in 1..HeapsPerThread : H[<<t, i>>].ccstate = "unused"}) >= n
FreshHeap(H, t) == <<t, Min({i \in 1..HeapsPerThread : H[<<t, i>>].ccstate = "unused"})>>
FreshChunks(L, t, n) == Cardinality({i \in 1..ChunksPerThread : L[<<t, i>>] = Nil}) >= n
FreshChunk(L, t) == <<t, Min({i \in 1..ChunksPerThread : L[<<t, i>>] = Nil})>>

HM_HH_new(H, h, depth) == [H EXCEPT ![h] = [NoHeap EXCEPT !.depth = depth, !.ccstate = "unreg"]]

Follow(next, h) ==
  LET ListFrom[x \in HeapIds \union {Nil}] ==
        IF x = Nil THEN <<>> ELSE <<x>> \o ListFrom[next[x]]
  IN ListFrom[h]
Spine(H, h) == Follow([x \in HeapIds |-> H[x].nextAncestor], h)
ForCC(H, h) == Follow([x \in HeapIds |-> H[x].subHeapForCC], H[h].subHeapForCC)
CompletedCC(H, h) == Follow([x \in HeapIds |-> H[x].subHeapCompletedCC], H[h].subHeapCompletedCC)

SetCCChainDepth(H, h, depth) ==
  LET chained == ToSet(ForCC(H, h) \o CompletedCC(H, h))
  IN [x \in HeapIds |-> IF x \in chained THEN [H[x] EXCEPT !.depth = depth] ELSE H[x]]

(* linkInto, and HM_appendChunkList, which always comes with it.           *)
linkInto(H, left, right) ==
  [H EXCEPT ![right].representative = left,
            ![right].dependant2 = H[left].dependant1,
            ![left].dependant1 = right,
            ![left].numDependants = @ + 1 + H[right].numDependants,
            ![left].chunks = @ \union H[right].chunks,
            ![right].chunks = {}]

(* The chains of hh2 before those of hh1.  They have the depth of hh1 now. *)
linkCCChains(H, hh1, hh2) ==
  LET D == SetCCChainDepth(H, hh2, H[hh1].depth)
      Ends == [D EXCEPT ![Last(ForCC(H, hh2))].subHeapForCC = H[hh1].subHeapForCC]
      Both == [Ends EXCEPT ![Last(CompletedCC(H, hh2))].subHeapCompletedCC =
                             H[hh1].subHeapCompletedCC]
      Moved(G) == [G EXCEPT ![hh1].subHeapForCC = H[hh2].subHeapForCC,
                            ![hh1].subHeapCompletedCC = H[hh2].subHeapCompletedCC,
                            ![hh2].subHeapForCC = Nil,
                            ![hh2].subHeapCompletedCC = Nil]
  IN IF H[hh1].subHeapForCC = Nil THEN Moved(D)
     ELSE IF H[hh2].subHeapForCC = Nil THEN D
     ELSE Moved(Both)

(* Collections of the chain that have ended go to the front of the         *)
(* completed list, one after the other; the list is merged into the heap   *)
(* when no collection is left.                                             *)
Complete(H, h) ==
  LET chain == ForCC(H, h)
      running == SelectSeq(chain, LAMBDA x : H[x].ccstate # "done")
      completed == Reverse(SelectSeq(chain, LAMBDA x : H[x].ccstate = "done"))
                     \o CompletedCC(H, h)
      After(list, x) == LET i == CHOOSE j \in DOMAIN list : list[j] = x
                        IN IF i < Len(list) THEN list[i + 1] ELSE Nil
      First(list) == IF list = <<>> THEN Nil ELSE list[1]
  IN [x \in HeapIds |->
        CASE x = h -> [H[x] EXCEPT !.subHeapForCC = First(running),
                                   !.subHeapCompletedCC = First(completed)]
          [] x \in ToSet(running) -> [H[x] EXCEPT !.subHeapForCC = After(running, x)]
          [] x \in ToSet(completed) -> [H[x] EXCEPT !.subHeapForCC = Nil,
                                          !.subHeapCompletedCC = After(completed, x)]
          [] OTHER -> H[x]]
NoneRuns(H, h) == H[h].subHeapForCC = Nil
mergeCompletedCCs(H, h) ==
  LET C == Complete(H, h)
      Link(G, x) == linkInto(G, h, x)
  IN IF NoneRuns(C, h)
     THEN [FoldLeft(Link, C, CompletedCC(C, h)) EXCEPT ![h].subHeapCompletedCC = Nil]
     ELSE C

(* HM_HH_zip: two lists become one; heaps of one depth are linked.         *)
HM_HH_zip(H, hh1, hh2) ==
  LET Zipped[n \in 0..MaxDepth + 1] ==
        (* the heaps of the depths below n, and the deepest of them        *)
        IF n = 0 THEN [heaps |-> H, top |-> Nil]
        ELSE LET up == Zipped[n - 1]
                 At(hh) == {x \in ToSet(Spine(H, hh)) : H[x].depth = n - 1}
                 Keep(G, x) == [G EXCEPT ![x].nextAncestor = up.top]
                 x1 == CHOOSE x \in At(hh1) : TRUE
                 x2 == CHOOSE x \in At(hh2) : TRUE
             IN IF At(hh1) # {} /\ At(hh2) # {}
                THEN [heaps |-> Keep(linkInto(linkCCChains(up.heaps, x1, x2), x1, x2), x1),
                      top |-> x1]
                ELSE IF At(hh1) # {} THEN [heaps |-> Keep(up.heaps, x1), top |-> x1]
                ELSE IF At(hh2) # {} THEN [heaps |-> Keep(up.heaps, x2), top |-> x2]
                ELSE up
  IN Zipped[MaxDepth + 1]

(* HM_HH_promoteChunks: the heap of the depth that a join leaves goes one  *)
(* up.  While a collection of it runs, no collection may start above: the  *)
(* heap that is there becomes a completed one of the chain.                *)
Above(H, hh) == H[hh].nextAncestor
(* Mutant: its chain keeps the depth. *)
BugLifted(H, hh) == [H EXCEPT ![hh].depth = @ - 1]
Lifted(H, hh) == [SetCCChainDepth(H, hh, H[hh].depth - 1) EXCEPT ![hh].depth = @ - 1]
IntoParent(H, parent, hh) ==
  [heaps |-> linkInto(linkCCChains(H, parent, hh), parent, hh), top |-> parent]
(* Mutant: the heap above goes into the collection that still runs. *)
BugOverParent(H, parent, hh) == IntoParent(H, parent, hh)
OverParent(H, parent, hh) ==
  LET L == linkCCChains(H, parent, hh)
  IN [heaps |-> [L EXCEPT ![hh].nextAncestor = L[parent].nextAncestor,
                          ![hh].subHeapForCC = L[parent].subHeapForCC,
                          ![hh].subHeapCompletedCC = parent,
                          ![hh].depth = @ - 1,
                          ![parent].nextAncestor = Nil,
                          ![parent].ccstate = "done",
                          ![parent].subHeapForCC = Nil],
      top |-> hh]
HM_HH_promoteChunks(H, hh, currentDepth) ==
  LET parent == Above(H, hh)
      M == mergeCompletedCCs(H, hh)
  IN IF H[hh].depth < currentDepth THEN [heaps |-> H, top |-> hh]
     ELSE IF parent = Nil \/ (parent # Nil /\ H[parent].depth < currentDepth - 1)
          THEN [heaps |-> Lifted(H, hh), top |-> hh]
     ELSE IF M[hh].subHeapForCC = Nil THEN IntoParent(M, parent, hh)
     ELSE OverParent(M, parent, hh)

(* splitHeapForCC: the registered heap leaves the list; the thread goes on *)
(* in a new one of the same depth.                                         *)
splitHeapForCC(H, t, hh) ==
  LET N1 == IF H[hh].subHeapCompletedCC # Nil THEN H
            ELSE [HM_HH_new(H, FreshHeap(H, t), H[hh].depth)
                    EXCEPT ![FreshHeap(H, t)].ccstate = "done",
                           ![hh].subHeapCompletedCC = FreshHeap(H, t)]
      newHH == FreshHeap(N1, t)
  IN [heaps |-> [HM_HH_new(N1, newHH, H[hh].depth)
                   EXCEPT ![newHH].subHeapForCC = hh,
                          ![newHH].subHeapCompletedCC = N1[hh].subHeapCompletedCC,
                          ![newHH].nextAncestor = N1[hh].nextAncestor,
                          ![hh].nextAncestor = Nil,
                          ![hh].ccstate = "reg"],
      top |-> newHH]

-------------------------------------------------------------------------------
(* Threads.  A thread allocates chunks; a later chunk may point to those   *)
(* that the thread knew by then.                                           *)

NoWalk == [pc |-> "none", chunk |-> Nil, cursor |-> Nil, top |-> Nil, compress |-> FALSE]
NoThread == [pc |-> "none", hh |-> Nil, depth |-> 0, base |-> 0, open |-> <<>>,
             known |-> {}, walk |-> NoWalk]

Init ==
  /\ heap = [HM_HH_new([h \in HeapIds |-> NoHeap], <<Root, 1>>, 0)
               EXCEPT ![<<Root, 1>>].chunks = {<<Root, 1>>}]
  /\ levelHead = [c \in Chunks |-> IF c = <<Root, 1>> THEN <<Root, 1>> ELSE Nil]
  /\ thread = [t \in Threads |->
                 IF t = Root THEN [NoThread EXCEPT !.pc = "run", !.hh = <<Root, 1>>,
                                     !.depth = 1, !.known = {<<Root, 1>>}]
                 ELSE NoThread]
  /\ grace = [h \in HeapIds |-> Nil]
  /\ older = [c \in Chunks |-> {}]
  /\ budget \in Budgets

Runs(t) == thread[t].pc = "run" /\ thread[t].walk.pc = "none"

(* What the calls of a thread work on: heaps, heads of chunks, its record, *)
(* what was known before a chunk.                                          *)
State(t) == [H |-> heap, L |-> levelHead, me |-> thread[t], O |-> older]
Allocated(S, t, h) ==
  LET c == FreshChunk(S.L, t)
  IN [H |-> [S.H EXCEPT ![h].chunks = @ \union {c}],
      L |-> [S.L EXCEPT ![c] = h],
      me |-> [S.me EXCEPT !.known = @ \union {c}],
      O |-> [S.O EXCEPT ![c] = S.me.known]]
Extended(S, t) ==
  LET newhh == FreshHeap(S.H, t)
  IN IF S.H[S.me.hh].depth = S.me.depth THEN Allocated(S, t, S.me.hh)
     ELSE Allocated([S EXCEPT !.H = [HM_HH_new(S.H, newhh, S.me.depth)
                                       EXCEPT ![newhh].nextAncestor = S.me.hh],
                              !.me = [S.me EXCEPT !.hh = newhh]], t, newhh)
HasRoom(t, heaps, chunks) ==
  FreshHeaps(heap, t, heaps) /\ FreshChunks(levelHead, t, chunks)

(* HM_HH_extend, when the thread allocates at a depth it has no heap for.  *)
HM_HH_extend(t) ==
  /\ Runs(t) /\ heap[thread[t].hh].depth < thread[t].depth
  /\ HasRoom(t, 1, 1)
  /\ LET S == Extended(State(t), t)
     IN /\ heap' = S.H /\ levelHead' = S.L /\ older' = S.O
        /\ thread' = [thread EXCEPT ![t] = S.me]
  /\ UNCHANGED <<grace, budget>>

(* HM_HH_getHeapAtDepth, when the level is missing: the new heap goes       *)
(* between the last deeper one and the rest, or, without a deeper one,      *)
(* becomes the thread's leaf.                                               *)
HM_HH_getHeapAtDepth(t, depth) ==
  LET deeper == {x \in ToSet(Spine(heap, thread[t].hh)) : heap[x].depth > depth}
      below == CHOOSE x \in deeper : \A y \in deeper : heap[x].depth <= heap[y].depth
      newhh == FreshHeap(heap, t)
      Fresh(rest) == [HM_HH_new(heap, newhh, depth) EXCEPT ![newhh].nextAncestor = rest]
  IN /\ Runs(t) /\ depth \in 1..thread[t].depth
     /\ budget.missing > 0 /\ HasRoom(t, 1, 0)
     /\ \A x \in ToSet(Spine(heap, thread[t].hh)) : heap[x].depth # depth
     /\ \/ /\ deeper # {}
           /\ heap' = [Fresh(heap[below].nextAncestor) EXCEPT ![below].nextAncestor = newhh]
           /\ UNCHANGED thread
        \/ /\ deeper = {}
           /\ heap' = Fresh(thread[t].hh)
           /\ thread' = [thread EXCEPT ![t].hh = newhh]
     /\ budget' = [budget EXCEPT !.missing = @ - 1]
     /\ UNCHANGED <<levelHead, grace, older>>

(* A spork is promoted to a fork (doSpawn), after an attempt to have the   *)
(* heap of the current depth collected (spawnGC, HM_HH_registerCont),      *)
(* which takes a depth of its own.                                         *)
Merged(S) == [S EXCEPT !.H = mergeCompletedCCs(S.H, S.me.hh)]
Registered(S, t) ==
  LET split == splitHeapForCC(S.H, t, S.me.hh)
      inNew == Allocated([S EXCEPT !.H = split.heaps, !.me.hh = split.top], t, split.top)
  IN Extended([inNew EXCEPT !.me.depth = @ + 1, !.me.open = Append(@, [right |-> Nil])], t)
(* The new thread starts with a heap of the depth of the fork.             *)
Forked(S, r) ==
  LET NoMe == [NoThread EXCEPT !.pc = "run", !.hh = <<r, 1>>, !.depth = S.me.depth + 1,
                               !.base = S.me.depth, !.known = S.me.known \union {<<r, 1>>}]
      left == [S.me EXCEPT !.depth = @ + 1, !.open = Append(@, [right |-> r]),
                           !.known = IF r = Nil THEN @ ELSE @ \union {<<r, 1>>}]
  IN IF r = Nil THEN [S EXCEPT !.me = left] @@ [child |-> NoThread]
     ELSE [H |-> [HM_HH_new(S.H, <<r, 1>>, S.me.depth) EXCEPT ![<<r, 1>>].chunks = {<<r, 1>>}],
           L |-> [S.L EXCEPT ![<<r, 1>>] = <<r, 1>>],
           O |-> [S.O EXCEPT ![<<r, 1>>] = S.me.known],
           me |-> left, child |-> NoMe]

doSpawn(t, r, gc) ==
  LET S == CASE gc = "none" -> State(t)
             [] gc = "skipped" -> Merged(State(t))
             [] gc = "registered" -> Registered(Merged(State(t)), t)
      F == Forked(S, r)
  IN /\ Runs(t) /\ budget.spawns > 0
     /\ thread[t].depth + (IF gc = "registered" THEN 2 ELSE 1) <= budget.depth
     /\ gc # "none" => heap[thread[t].hh].depth = thread[t].depth
     /\ gc = "registered" => budget.regs > 0 /\ HasRoom(t, 3, 2)
     /\ r # Nil => thread[r].pc = "none"
     /\ heap' = F.H /\ levelHead' = F.L /\ older' = F.O
     /\ thread' = [u \in Threads |-> IF u = t THEN F.me ELSE IF u = r THEN F.child ELSE thread[u]]
     /\ budget' = [budget EXCEPT !.spawns = @ - 1,
                                 !.regs = @ - (IF gc = "registered" THEN 1 ELSE 0)]
     /\ UNCHANGED grace

(* The end of the innermost fork, or of the collection before it: the heap *)
(* list of the right side, if there is one, is merged, and the depth that  *)
(* is left is emptied (GC_HH_joinIntoParent and ..BeforeFastClone).        *)
joinIntoParent(t) ==
  LET me == thread[t]
      r == Last(me.open).right
      joined == IF r = Nil THEN [heaps |-> heap, top |-> me.hh]
                ELSE HM_HH_zip(heap, me.hh, thread[r].hh)
      promoted == HM_HH_promoteChunks(joined.heaps, joined.top, me.depth)
  IN /\ Runs(t) /\ me.open # <<>>
     /\ r # Nil => thread[r].pc = "done"
     /\ heap' = promoted.heaps
     /\ thread' = [u \in Threads |->
          IF u = t THEN [me EXCEPT !.hh = promoted.top, !.depth = @ - 1, !.open = Front(@),
                           !.known = IF r = Nil THEN @ ELSE @ \union thread[r].known]
          ELSE IF u = r THEN [NoThread EXCEPT !.pc = "joined"]
          ELSE thread[u]]
     /\ UNCHANGED <<levelHead, grace, older, budget>>

rightSideDone(t) ==
  /\ t # Root /\ Runs(t) /\ thread[t].open = <<>>
  /\ thread' = [thread EXCEPT ![t].pc = "done"]
  /\ UNCHANGED <<heap, levelHead, grace, older, budget>>

-------------------------------------------------------------------------------
(* Nodes below a head are retired once no chunk leads to them.             *)

(* HM_HH_freeAllDependants: the tree is traversed with its first links     *)
(* inverted on the way down.                                               *)
RECURSIVE Dismantle(_, _, _, _)
Dismantle(H, parent, child, freed) ==
  IF parent = Nil THEN [heaps |-> H, freed |-> freed]
  ELSE IF child # Nil /\ H[child].dependant1 = Nil
       THEN Dismantle(H, parent, H[child].dependant2, freed \union {child})
  ELSE IF child # Nil
       THEN Dismantle([H EXCEPT ![child].dependant1 = parent], child, H[child].dependant1, freed)
  ELSE IF H[parent].dependant2 = Nil
       THEN Dismantle([H EXCEPT ![parent].dependant1 = Nil], H[parent].dependant1, parent, freed)
  ELSE Dismantle([H EXCEPT ![parent].dependant2 = Nil], parent, H[parent].dependant2, freed)
HM_HH_freeAllDependants(H, h) ==
  LET all == Dismantle([H EXCEPT ![h].dependant1 = Nil], h, H[h].dependant1, {})
  IN [all EXCEPT !.heaps = [@ EXCEPT ![h].numDependants = 0]]

(* Epoch-based reclamation frees a node when those who were looking at the *)
(* time it was retired no longer do.                                       *)
Looking == {t \in Threads : thread[t].walk.pc # "none"}
(* Mutant: nodes are freed at once. *)
BugRetired(nodes) == [h \in HeapIds |-> IF h \in nodes THEN {} ELSE grace[h]]
Retired(nodes) == [h \in HeapIds |-> IF h \in nodes THEN Looking ELSE grace[h]]

(* CC_collectAtRoot: claimHeap, the loop over the chunks, and the end.     *)
claimHeap(h) ==
  /\ heap[h].ccstate = "reg"
  /\ heap' = [heap EXCEPT ![h].ccstate = "collecting", ![h].todo = heap[h].chunks]
  /\ UNCHANGED <<levelHead, thread, grace, older, budget>>
(* Mutant: heads are left as they are. *)
BugToReset(h) == {}
ToReset(h) == heap[h].todo
resetLevelHead(h) ==
  LET c == CHOOSE x \in ToReset(h) : TRUE
  IN /\ heap[h].ccstate = "collecting" /\ ToReset(h) # {}
     /\ levelHead' = [levelHead EXCEPT ![c] = h]
     /\ heap' = [heap EXCEPT ![h].todo = @ \ {c}]
     /\ UNCHANGED <<thread, grace, older, budget>>
endCollection(h) ==
  LET all == HM_HH_freeAllDependants(heap, h)
  IN /\ heap[h].ccstate = "collecting" /\ ToReset(h) = {}
     /\ heap' = [all.heaps EXCEPT ![h].ccstate = "done"]
     /\ grace' = Retired(all.freed)
     /\ UNCHANGED <<levelHead, thread, older, budget>>

(* HM_HHC_collectLocal: the heaps that are not shared and have no chain.   *)
(* A chunk with a pinned object is kept and goes directly to the head of   *)
(* its heap; the others give way to one chunk for what survives at their   *)
(* depth.                                                                  *)
minDepthWithoutCC(t) ==
  LET spine == Spine(heap, thread[t].hh)
      chained == {heap[h].depth : h \in {x \in ToSet(spine) : heap[x].subHeapForCC # Nil}}
  IN IF heap[thread[t].hh].subHeapForCC # Nil THEN thread[t].depth + 1
     ELSE IF chained = {} THEN heap[Last(spine)].depth
     ELSE Min({heap[h].depth : h \in {x \in ToSet(spine) : heap[x].depth > Max(chained)}})
Stolen(t) == LET forks == thread[t].open
  IN {thread[forks[i].right].base : i \in {j \in DOMAIN forks : forks[j].right # Nil}}
(* Mutant: a chunk that stays keeps its node. *)
BugKeptHead(h, c) == levelHead[c]
KeptHead(h, c) == h
collectLocal(t, minDepth, kept, survives) ==
  LET from == Reverse(SelectSeq(Spine(heap, thread[t].hh), LAMBDA h : heap[h].depth >= minDepth))
      Dead(h) == heap[h].chunks \ kept
      dead == UNION {Dead(h) : h \in ToSet(from)}
      Copy(S, h) ==
        LET to == FreshHeap(S.H, t)
            new == FreshChunk(S.L, t)
        IN IF ~survives \/ Dead(h) = {} THEN S
           ELSE [H |-> [HM_HH_new(S.H, to, heap[h].depth)
                          EXCEPT ![to].chunks = {new}, ![to].nextAncestor = S.top],
                 L |-> [S.L EXCEPT ![new] = to],
                 top |-> to,
                 copy |-> S.copy @@ [c \in Dead(h) |-> new]]
      C == FoldLeft(Copy, [H |-> heap, L |-> levelHead, top |-> Nil, copy |-> <<>>], from)
      Free(F, h) == LET all == HM_HH_freeAllDependants(F.heaps, h)
                    IN [heaps |-> [all.heaps EXCEPT ![h].chunks = @ \ dead],
                        freed |-> F.freed \union all.freed]
      F == FoldLeft(Free, [heaps |-> C.H, freed |-> {}], from)
      zipped == HM_HH_zip(F.heaps, thread[t].hh, C.top)
      (* history: what pointed to an object points to its copy             *)
      Moved(chunks) == (chunks \ dead) \union {C.copy[c] : c \in chunks \intersect DOMAIN C.copy}
      HeapOf(c) == CHOOSE h \in ToSet(from) : c \in heap[h].chunks
  IN /\ Runs(t) /\ budget.locals > 0
     /\ minDepth \in minDepthWithoutCC(t)..thread[t].depth
     /\ \A d \in Stolen(t) : d < minDepth
     /\ minDepth > thread[t].base
     /\ from # <<>> /\ HasRoom(t, Len(from), Len(from))
     /\ kept \subseteq UNION {heap[h].chunks : h \in ToSet(from)}
     /\ \A u \in Looking : thread[u].walk.chunk \notin dead
     /\ heap' = zipped.heaps
     /\ levelHead' = [c \in Chunks |-> IF c \in kept THEN KeptHead(HeapOf(c), c)
                                       ELSE IF c \in dead THEN Nil ELSE C.L[c]]
     /\ thread' = [u \in Threads |->
                     [thread[u] EXCEPT !.known = Moved(@),
                                       !.hh = IF u = t THEN zipped.top ELSE @]]
     /\ older' = [c \in Chunks |->
          IF c \in dead THEN {}
          ELSE Moved(UNION {older[x] : x \in {c} \union
                                {y \in DOMAIN C.copy : C.copy[y] = c}})]
     /\ grace' = Retired(F.freed)
     /\ budget' = [budget EXCEPT !.locals = @ - 1]

-------------------------------------------------------------------------------
(* Look-ups: HM_getLevelHead and HM_getLevelHeadPathCompress (chunk.c).    *)
(* Whoever is not entangled looks at chunks it can know.                   *)

Walk(t, W) == thread' = [thread EXCEPT ![t].walk = W]
startLookup(t, chunk, compress) ==
  /\ Runs(t) /\ budget.lookups > 0
  /\ levelHead[chunk] # Nil /\ (~Entangled => chunk \in thread[t].known)
  /\ Walk(t, [pc |-> "up", chunk |-> chunk, cursor |-> levelHead[chunk], top |-> Nil,
              compress |-> compress])
  /\ budget' = [budget EXCEPT !.lookups = @ - 1]
  /\ UNCHANGED <<heap, levelHead, grace, older>>

up(t) ==
  LET W == thread[t].walk
      above == heap[W.cursor].representative
  IN /\ W.pc = "up"
     /\ Walk(t, IF above # Nil THEN [W EXCEPT !.cursor = above]
                ELSE [W EXCEPT !.top = W.cursor,
                               !.pc = IF W.compress THEN "shortcut" ELSE "found"])
     /\ UNCHANGED <<heap, levelHead, grace, older, budget>>

(* chunk->levelHead is loaded for the fast path and once more.             *)
shortcut(t) ==
  LET W == thread[t].walk IN
  /\ W.pc = "shortcut"
  /\ IF levelHead[W.chunk] = W.top
     THEN Walk(t, [W EXCEPT !.pc = "found"]) /\ UNCHANGED levelHead
     ELSE /\ Walk(t, [W EXCEPT !.pc = "compress", !.cursor = levelHead[W.chunk]])
          /\ levelHead' = [levelHead EXCEPT ![W.chunk] = W.top]
  /\ UNCHANGED <<heap, grace, older, budget>>

compress(t) ==
  LET W == thread[t].walk IN
  /\ W.pc = "compress" /\ W.cursor # Nil
  /\ IF W.cursor = W.top
     THEN Walk(t, [W EXCEPT !.pc = "found"]) /\ UNCHANGED heap
     ELSE /\ Walk(t, [W EXCEPT !.cursor = heap[W.cursor].representative])
          /\ heap' = [heap EXCEPT ![W.cursor].representative = W.top]
  /\ UNCHANGED <<levelHead, grace, older, budget>>

endLookup(t) ==
  /\ thread[t].walk.pc = "found"
  /\ Walk(t, NoWalk)
  /\ grace' = [h \in HeapIds |-> IF grace[h] = Nil THEN Nil ELSE grace[h] \ {t}]
  /\ UNCHANGED <<heap, levelHead, older, budget>>

Next ==
  \/ \E t \in Threads :
       \/ HM_HH_extend(t) \/ joinIntoParent(t) \/ rightSideDone(t)
       \/ \E depth \in 1..MaxDepth : HM_HH_getHeapAtDepth(t, depth)
       \/ \E r \in (Threads \ {t}) \union {Nil}, gc \in {"none", "skipped", "registered"} :
            doSpawn(t, r, gc)
       \/ \E minDepth \in 1..MaxDepth, survives \in BOOLEAN,
             kept \in {{}} \union {{c} : c \in UNION {heap[h].chunks : h \in HeapIds}} :
            collectLocal(t, minDepth, kept, survives)
       \/ \E c \in Chunks, short \in BOOLEAN : startLookup(t, c, short)
       \/ up(t) \/ shortcut(t) \/ compress(t) \/ endLookup(t)
  \/ \E h \in HeapIds : claimHeap(h) \/ resetLevelHead(h) \/ endCollection(h)

Spec == Init /\ [][Next]_chainVars

-------------------------------------------------------------------------------
(* Properties *)

RunningWalk(W) ==
  /\ W.pc \in {"none", "up", "shortcut", "compress", "found"}
  /\ W.chunk \in Chunks \union {Nil} /\ {W.cursor, W.top} \subseteq HeapIds \union {Nil}
ChainTypeOK ==
  /\ \A h \in HeapIds :
       /\ heap[h].ccstate \in CCStates \union {"unused"} /\ heap[h].depth \in 0..MaxDepth
       /\ heap[h].chunks \subseteq Chunks /\ heap[h].todo \subseteq heap[h].chunks
       /\ grace[h] = Nil \/ grace[h] \subseteq Threads
  /\ levelHead \in [Chunks -> HeapIds \union {Nil}]
  /\ \A t \in Threads : /\ thread[t].pc \in {"none", "run", "done", "joined"}
                        /\ thread[t].depth \in 0..MaxDepth
                        /\ RunningWalk(thread[t].walk)

Owners == {t \in Threads : thread[t].pc \in {"run", "done"}}
InSpine(t) == ToSet(Spine(heap, thread[t].hh))
Chained(h) == ToSet(ForCC(heap, h))
Completed(h) == ToSet(CompletedCC(heap, h))
IsLevelHead(h) == heap[h].ccstate # "unused" /\ heap[h].representative = Nil

(* What assertInvariants and assertCCChainInvariants say of a list of      *)
(* heaps: it is sorted by depth; the heaps of a chain have the depth of    *)
(* the one they belong to, a collection in the chain started with a        *)
(* completed heap that is still there, and completed heaps are at rest.    *)
ChainIsRight(h) ==
  /\ IsLevelHead(h) /\ heap[h].ccstate = "unreg"
  /\ (Chained(h) = {}) = (Completed(h) = {})
  /\ \A x \in Chained(h) : /\ heap[x].ccstate # "unreg"
                           /\ heap[x].subHeapCompletedCC \in Completed(h)
  /\ \A x \in Completed(h) : heap[x].ccstate = "done" /\ heap[x].subHeapForCC = Nil
  /\ \A x \in Chained(h) \union Completed(h) :
       IsLevelHead(x) /\ heap[x].nextAncestor = Nil /\ heap[x].depth = heap[h].depth
ListsAreSorted ==
  \A t \in Owners : LET spine == Spine(heap, thread[t].hh) IN
    /\ heap[thread[t].hh].depth <= thread[t].depth
    /\ \A i, j \in DOMAIN spine : i < j => heap[spine[i]].depth > heap[spine[j]].depth
(* Besides, no heap is lost or in two places.                              *)
EachInOnePlace ==
  LET places == [t \in Owners |->
                   UNION {{x} \union Chained(x) \union Completed(x) : x \in InSpine(t)}]
  IN \A h \in HeapIds : IsLevelHead(h) => Cardinality({t \in Owners : h \in places[t]}) = 1
ChainsAreRight ==
  /\ ListsAreSorted
  /\ \A t \in Owners : \A h \in InSpine(t) : ChainIsRight(h)
  /\ EachInOnePlace

(* The nodes from a node to its head.                                      *)
Path(n) == Follow([x \in HeapIds |-> heap[x].representative], n)
IsFreed(n) == grace[n] = {}
RECURSIVE Dependants(_)
Dependants(n) == IF n = Nil THEN {}
                 ELSE {n} \union Dependants(heap[n].dependant1) \union Dependants(heap[n].dependant2)
Tree(h) == Dependants(heap[h].dependant1)

(* Whoever looks for the heap of a chunk finds the one whose list has it,  *)
(* through nodes that are not freed; a look-up that has ended found the    *)
(* heap that is still the right one; and the tree of dependants, by which  *)
(* nodes are freed, has the nodes that lead to the head, all of them.      *)
FindsItsHeap(c) ==
  LET path == Path(levelHead[c]) IN
  /\ c \in heap[Last(path)].chunks
  /\ \A n \in ToSet(path) : grace[n] = Nil
LookupIsRight(W) ==
  /\ W.pc \in {"up", "compress"} => W.cursor # Nil /\ ~IsFreed(W.cursor)
  /\ W.pc = "found" => W.chunk \in heap[W.top].chunks
LevelHeadsAreRight ==
  /\ \A c \in Chunks : levelHead[c] # Nil => FindsItsHeap(c)
  /\ \A t \in Threads : LookupIsRight(thread[t].walk)
  /\ LET inUse == {n \in HeapIds : grace[n] = Nil /\ heap[n].ccstate # "unused"}
         head == [n \in inUse |-> Last(Path(n))]
     IN \A h \in HeapIds : IsLevelHead(h) =>
          LET below == {n \in inUse : n # h /\ head[n] = h}
          IN Tree(h) = below /\ heap[h].numDependants = Cardinality(below)

(* A heap is registered for collection when no chunk outside it has        *)
(* pointers into it: the collector starts from the stack and from what is  *)
(* remembered, and would miss them (the comment in HM_HH_promoteChunks).   *)
RegisteredHeapsAreClosed ==
  \A h \in HeapIds : heap[h].ccstate # "reg" /\ heap'[h].ccstate = "reg" =>
    \A c \in Chunks : levelHead[c] # Nil /\ c \notin heap'[h].chunks
                        => older[c] \intersect heap'[h].chunks = {}
==============================================================================
