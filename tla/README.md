# Verification of the MPL runtime

MaPLe (MPL) compiles Standard ML with fork-join parallelism. This directory
holds TLA+ models of the concurrent core of its runtime (`src/runtime/gc`), of
its scheduler (`src/basis-library/schedulers/spork`) and of the code that the
compiler emits for sporks, the TLC runs that check them, and TLAPS proofs about
eleven of them. `PROJECT.json` maps every definition to the lines it stands for.

    tlc -workers 2 -config MCABPDeque.cfg MCABPDeque.tla     # model-check
    tlapm DecheckProofs.tla                                  # prove

Contents: [inventory](#inventory), [plan](#plan), [modules](#modules),
[runs](#runs), [bounds](#bounds), [fairness](#fairness), [proofs](#proofs),
[findings](#findings), [what is left out](#what-is-left-out).

## Inventory

A program is a tree of *sporks*: places where a body `f` runs and a right side
`g` may run in parallel. Every processor runs one pthread with a scheduler
thread of its own. A user thread has a stack and a *hierarchical heap*: a heap
for each depth of the fork tree. A spork becomes a task only when a heartbeat
pays for it; the task goes into the processor's deque, from which idle
processors steal. When both sides of a fork are done, the heaps and remembered
sets of the right side are merged into the left side's. Three kinds of
collection run: local ones of the deepest levels, concurrent ones of a level
that was split off at a fork, and the epoch-based reclamation of the runtime's
own records. A thread that reads an object which another strand allocated at
the same time is *entangled* with it: the read pins the object, so that no
collection moves it.

| component | module | state | operations | whom it meets | what must hold |
|---|---|---|---|---|---|
| deque, `abp-deque.c`, `local-scope.c` | `ABPDeque` | `top` (tag and index in one word), `bot`, array | push, pop at the bottom, pop at the top, set depth; claim and release of levels | owner, thieves, the owner's local collector; no locks | a task goes to one caller; a thief never takes a task that is being moved; the owner's pop is last in, a theft first in |
| scheduler, `Scheduler.sml` | `SporkJoin` | incounter and results of each joinpoint, `gcTask` box, thread being run | spawn, sync, end of the right side, scheduler loop | deque, thread switch, concurrent collector | nested fork-join; no stack on two processors; every program ends; each collection runs once |
| heartbeat, `Heartbeat.sml`, `thread.c`, `stack.c`, generated code | `Heartbeat` | tokens, promotion stack with its two pointers, spork slots in frames | beat, call, return, raise, promote, eager check, refund at joins | signal handler in the middle of anything | oldest spork first; tokens are spent at once and not made up; the promotion stack agrees with the stack |
| concurrent collector, `concurrent-collection.c`, `assign.c` | `ConcurrentCollection` | mark bits, chunk lists, `ccstate`, root bag | register, mark, close, unmark, free; write barrier | mutators of both sides of a fork | nothing reachable is freed |
| root bag, `concurrent-stack.c` | `CCStack` | a stack and a mutex per processor, close flags | push, take a batch, try to close | write barriers against one collector | no pointer pushed before the close is lost; no deadlock |
| hierarchical heaps, `hierarchical-heap.c`, `chunk.c` | `HeapChain` | list of heaps by depth, chains of heaps in and after collection, union-find of level heads | extend, fork, register, merge, promote, look up | joins, collectors, look-ups by anybody | lists stay sorted and whole; a heap in collection is not merged; a chunk's heap is found while it changes; nothing outside points into a registered heap |
| local collector, `hierarchical-heap-collection.c` | `LocalCollection`, with `ABPDeque` (claim) and `HeapChain` (lists) | from- and to-spaces of the claimed levels | claim, copy, keep what is pinned, release | thieves, entangled readers | what is reachable survives; what a reader holds is neither moved nor freed |
| object headers, `pin.c` | `LocalCollection` | pin type, unpin depth, mark, suspect bit or forwarding pointer in one word | pin, unpin, mark, forward | readers, local collector | the least unpin depth wins; a forwarded object is not pinned |
| entanglement, `decheck.c`, `entanglement-suspects.c`, `assign.c` | `Decheck`, `LocalCollection` | task ids, dag depths, suspect lists | order check, read barrier, clearing at joins | headers, remembered sets | "allocated before" is exact; what a reader got hold of stays pinned and remembered |
| remembered sets, `remembered-set.c`, `concurrent-list.c` | `RemSet` | chunk lists, frontiers, slots | remember, iterate, merge | readers that meet entangled objects, the owner that iterates or merges | no entry is lost or put over another; iteration ends and sees what was there |
| reclamation, `ebr.c` | `EBR` | global epoch, announcements, three bags per processor | enter and leave the quiescent state, retire | every processor; announcements are plain stores | nothing in use is freed; everything retired is freed in the end |
| block allocator, `block-allocator.c` | `BlockAllocator` | superblocks by fullness, lists of blocks freed by others, megablocks | allocate, free | every processor | a group of blocks has one holder, none is lost, the lists hold what they are for |
| fixed-size allocators, `fixed-size-allocator.c` | `FixedSizeAllocator` | private and shared free list, counters | allocate, free | other processors that free | an element has one holder; lists stay whole |
| termination, signals, relayer, `termination.c`, `handler.c` | `Termination` | leader, a status per processor, pending signals | request, exit, join, broadcast a heartbeat | all processors and the relayer | one leader; the program ends; no signal to a thread that has ended |
| locks for programs, `parallel.c` | none | a word; two flags and a turn | take, release | SML programs | mutual exclusion |

The rest is listed in `PROJECT.json` with the reason it is not modelled: the
compiler, the Basis Library, allocation and layout arithmetic, measurement,
start-up, operating system bindings, tests and build files.

Hard to test, and therefore what the properties are about: races at the two
ends of the deque, delayed stores, stale reads before a compare-and-swap, the
hand-over of a thread that is still running, tasks thrown away unseen, closing
a bag while others push, iterating over a list while others fill it, barriers
against a collector in each of its phases, a pin against a copy of the same
object, epochs observed late, a processor that exits while it is signalled, and
long sequences of calls, returns, exceptions and beats. `PROJECT.json` has them
line by line under "hazards", the two that no property covers included.

## Plan

In order of importance, and all done:

1. `WorkDeque`, `ABPDeque`, `ABPDequeProofs`: everything else rests on the
   deque.
2. `ForkJoin`, `SporkJoin`, `SporkJoinProofs`: the protocol that uses it, against
   what a program is promised.
3. `EBR` (proofs in `ProcessorsProofs`), `CCStack`, `RemSet`, `Pool` with
   `FixedSizeAllocator` (proofs of these in `StructuresProofs`): the shared
   structures of the collectors.
4. `Heartbeat`, `HeartbeatProofs`: what is forked when.
5. `ConcurrentCollection` (proofs in `CollectionProofs`): the collector and the
   write barrier on an abstract bag.
6. `HeapChain`: the lists of heaps, several collections of one thread, and the
   union-find of level heads.
7. `LocalCollection` (also in `CollectionProofs`): copying with pinned objects and
   remembered roots, against a reader. The header word under pins, unpins, marks and forwarding, once
   planned as a module of its own, is part of it: who wins a race for the word
   matters for what the collector does next.
8. `BlockAllocator`, `BlockAllocatorProofs`: allocation and remote frees.
9. `Termination`, also in `ProcessorsProofs`: the end of the program.
10. `Decheck`, `DecheckProofs`: the words that decide what is entangled.

Not worth a module: the Dekker lock of `parallel.c`, which neither the runtime
nor the scheduler takes (the spin lock appears in `Termination`, as a place that
polls).

How the modules are composed:

    ForkJoin  <=implements=  SporkJoin   (uses a deque as WorkDeque describes it)
    WorkDeque <=implements=  ABPDeque    (with the local collector's claim)
    Pool      <=implements=  FixedSizeAllocator
    ConcurrentCollection     (uses the bag that CCStack describes in detail)
    HeapChain                (the heaps that ConcurrentCollection takes one of,
                              freed in grace periods as EBR gives them)
    LocalCollection          (its remembered sets as RemSet describes them)
    Heartbeat                (decides when SporkJoin's spawn happens)
    BlockAllocator, Decheck, Termination

## Modules

**ABPDeque** has one action per access to shared memory of `abp-deque.c`. `top`
and `bot` are the two shared words, `data` the array, `sbuf` the owner's store
buffer (the only delayed store another processor can notice is the one to
`bot`). `own` and `thief` hold control points and locals. The local collector is
the third party: `CollectStart` to `CollectRelease` are the calls of
`tryClaimLocalScope`, the moving of the claimed tasks, and `releaseLocalScope`.
`fault` is the message of a `DIE`. A task in the array is a pair of a name and
the place where it lies in the heap, which moves change; a thief that returns
the old place has a dangling pointer. **WorkDeque** is the promise: a set of
tasks indexed by depth, `PopBot` takes the deepest, `PopTop` the shallowest.
`ImplementsWorkDeque` instantiates it with the live part of the array.

**SporkJoin** takes a step from one access that others can see to the next. A
thread has a control point, a depth and the forks it has open (`thread`), a fork
its joinpoint (`join`: left thread, incounter, how it was joined), a worker its
deque (`queue`), what it does (`worker`) and its `gcTask` box. Spawning is
`SpawnAlone` or `SpawnWithGC`; `syncEndAtomic` is `SyncPop`, `SyncDecrement`,
`SyncWait`, `SyncJoin` and the three `SyncGC` steps; the right side ends with
`RightDone` to `RightToLeft`; the scheduler loop is `BackInSched`, `Collect`,
`PopContinuation` and the `Steal` actions. The spin of `switchToThread` on
`currentProcNum` is the guard `IsFree`. **ForkJoin** is what a program may rely
on: a fork's right side runs once, elsewhere or in line, and the strand goes on
after it. `ImplementsForkJoin` is the refinement.

**EBR** has the announcements behind store buffers, since `setAnnouncement` is a
plain store. `LeaveQuiescent` of a processor is the sequence `LoadEpoch`,
`RotateAndReclaim`, `CheckOther`, `Advance`, `Announce`. `Unlink`, `Use` and
`EBR_retire` are what the rest of the runtime does between those calls:
a record is looked up only inside an operation and unlinked before it is
retired. The instance for union-find nodes, where a processor is quiescent
during a collection, is safe for a reason that is not in `ebr.c`: the
sequentially consistent store of `ccstate` (`concurrent-collection.c:683`)
drains the announcement before the processor uses records again. `Drained` is
that store, and without it `FreedIsNotHeld` fails.

**CCStack** has a mutex, a flag and a list of chunks per processor. A push is
`Call`, `PushLook` (the look at the flag without the mutex), `PushLock`, `PushStore`.
`try_close` is `Look`, then either `Confirm` of one stack after the other with
all mutexes kept, or a batch from every stack.

**RemSet** has the two remembered sets that a join merges. A storer claims a slot
by moving the frontier (`LoadLast`, `LoadFrontier`, `Claim`), fills it (`Copy`),
appends a chunk when there is no room (`Allocate`, `Publish`) and looks afterwards
whether the heap was linked into another (`Recheck`). The owner iterates
(`BeginPlain` or `BeginTracked` to `PopTracked`) or merges (`LinkInto`, `TakeChild`,
`GiveParent`). Others store into a heap they do not own only in builds with
`DETECT_ENTANGLEMENT`. The state "crashed" is the NULL chunk pointer that the
loop of `remembered-set.c:147` runs into when a chunk was appended after the
pass had walked to the end of the list (`Overtaken`); that this happens is finding 7. **Pool** and **FixedSizeAllocator**:
one action per compare-and-swap or store; lists are linked through the elements.

**BlockAllocator** has the superblocks of each processor in lists by fullness
and the stack of groups that others freed (`firstFreedByOther`). A processor that
allocates first takes that whole stack by a compare-and-swap (`TakeOtherFrees`)
and returns its groups to their superblocks, one in each step (`ReturnTaken`);
then it takes a group from a superblock of its size class, from an empty one
(`AllocateInOwn`) or from a new one (`MapNewSuperBlock`), in the order of the
fullness groups. `freeBlocks` of another's group is one push (`FreeOther`,
`PushFreed`). Megablocks come from one list per size under a lock (`ReuseMega`,
`MapMega`, `RunOutOfMega`). The history variables `held` and `heldMega` are what
is in use.

**Heartbeat** gives a thread its stack of frames, each frame the sporks it is
inside, its promotion stack with the bottom pointer, and its tokens. `Call`,
`Return`, `Raise` and `Spork` are what the generated code does, `Beat`,
`HandlerSpawns` and `HandlerEnds` the signal handler, `CheckEager` and
`TryPromoteNow` the eager fork, `JoinUnstolen`, `GiveBack`, `Join`, `Steal` and
`Finish` the ends of both sides.

**ConcurrentCollection** has objects with fields, chunks in one of the
collector's lists, and mutators in the middle of a write (`StartWrite`,
`Barrier`, `Push`, `Store`). `RegisterCont` splits the heap off and takes the
snapshot, `ClaimHeap` starts the collection (or `LeaveAlone`), `MarkRoot` and
`MarkField` mark, `CloseStack` closes the bag or takes a batch, the three
`Unmark` actions take the marks off, `FreeChunks` frees, `Finish` lets the next
registration merge. The safety argument is the snapshot's: a mutator only holds
what the snapshot reaches or what is newer, because every pointer it could lose
to a write goes into the bag first.

**HeapChain** has the heap structures of several threads. A call of the thread
that owns a list is one step, because of what it works on others change only
`ccstate`, and the code reads that once per heap; what runs beside it is step by
step: a collector claims a registered heap, resets the heads of its chunks one
by one, retires union-find nodes below it and ends, and a thread looks up the
head of a chunk one load or store at a time, with the path compression of
`chunk.c`. `grace` says of a retired node who may still be looking at it: that
is `EBR` seen from outside. `older` is history, which chunks' objects may point
into which; `RegisteredHeapsAreClosed` is about it.

**LocalCollection** is one owner and one reader. `mem` has the headers, fields and
chunks of every copy of every object. The owner's collection is the sequence of
`hierarchical-heap-collection.c`: entries of the remembered sets that can be
unpinned or dropped, what is marked as entangled, roots and remembered objects
forwarded, the copies scanned, suspects kept or dropped, chunks freed or
retired, marks taken off. Between collections the owner writes, through the
barrier of `assign.c`, and joins. The reader's barrier is `decheck.c`'s
(`manage_entangled`, `make_entangled`) down to the loads and compare-and-swaps
of `pin.c`; it ends with a pointer in `held`.

**Decheck** has the tids (path and depths) and the table of dag depths of every
thread over a tree of forks, steals and joins, with a history of what is really
before what.

**Termination** has a program counter for every processor, the leader, the
statuses, and each relayer's broadcast, which runs in a signal handler and
interrupts anything. `lock` stands for a lock of the program, whose waiter
polls (`GC_TryToTerminate`).

Four modules compose components for TLC. `MCStructures` (`FixedSizeAllocator`,
`CCStack`, `RemSet`, `BlockAllocator`), `MCProcessors` (`SporkJoin`, `EBR`, `Termination`),
`MCPromotion` (`HeapChain`, `Heartbeat`) and `MCCollectors` (`ConcurrentCollection`,
`LocalCollection`, `Decheck`) choose one of their parts in the initial state
(`which`) and let it run alone; their properties put those of the parts together,
each guarded by `which` or true of the initial state of the parts that stand
still. Where the names of the parts differ, a module extends them (`SporkJoin`
with `EBR` and `Termination`; `CCStack`, `RemSet` and `BlockAllocator` with `FixedSizeAllocator`;
`LocalCollection` and `Decheck` with `ConcurrentCollection`); otherwise it extends one
and instantiates the other (`HeapChain` beside `Heartbeat`). The other
`MC...` modules hold symmetry sets and constants that a `.cfg` cannot write.

## Runs

| run | instance | distinct states | what it shows |
|---|---|---|---|
| `deque` | owner, two thieves, local collector | 1.6 million (tasks and thieves symmetric) | every task goes to one caller (`ExactlyOnce`), a winning thief holds the current pointer (`WinnerIsCurrent`), no `DIE` (`NeverDies`), `ImplementsWorkDeque` |
| `processors` | `SporkJoin`, `EBR`, `Termination` | 726 thousand | `ImplementsForkJoin`, `NeverDies`; no stack on two processors and no collection twice (`RunsOnce`); a deque holds exactly the open forks (`DequeMatchesForks`); no collection is lost, and exit overtakes one only in the hand of a processor (`CollectionsAreKept`); programs end (`ProgramsEnd`). `FreedOnceAndUnused`, `Reclaimed` (reclamation). `SignalledIsAlive`, and the leader returns (`HaltReturns`) |
| `structures` | four shared structures | 731 thousand | `ListsAndCounts`, `ImplementsPool` (fixed-size elements); `NothingLost` (root bag); `StoredIsKept`, `QuietPassVisitsAll`, `PassEnds` (remembered sets); `BlocksAreWhole`, `MapsOnlyWhenFull` (blocks) |
| `promotion` | `HeapChain`, `Heartbeat` | 436 thousand | `ListsAreRight`, `FindsHeaps`, `NothingPointsInto` (heaps); `TokensAreKept`, `PromotesOldest` (beats) |
| `collectors` | `ConcurrentCollection`, `LocalCollection`, `Decheck` | 1.05 million | `ReachableIsKept`, `MarksAreSnapshot` (concurrent); `HeldIsKept`, `HeapIsWhole`, `HeldIsRemembered`, `LocalNeverDies` (local); `OrderedIsBefore`, `LcaIsShared` (detector) |
| `cc_stack_locks` | `CCStack`, three stacks | | violated, finding 1 |
| `remset_skip` | `RemSet`, three entries | | violated, finding 2 |
| `heartbeat_raise` | `Heartbeat`, two exceptions | | violated, finding 3 |
| `cc_twice` | `ConcurrentCollection`, two collections | | violated, finding 4 |
| `reader_help` | `LocalCollection`, an immutable list | | violated, finding 5 |
| `entry_forgotten` | `LocalCollection`, two depths | | violated, finding 6 |
| `remset_append` | `RemSet`, three entries | | violated, finding 7 |

`CHECK_DEADLOCK FALSE` is set for `deque`, where a run ends when every task was
used, and for `cc_stack_locks`, where the collector really hangs (finding 1).
Elsewhere the end of a bounded program is a step of its own that changes
nothing; in `structures` the bag alone may stop, for the reason of finding 1.

Every property is also run against a deliberately wrong version of a definition
(operators named `Bug...`, in `PROJECT.json` "mutants"), which must violate it.

## Bounds

- *deque*: three tasks, capacity 3, two resets, one move of a task. Two thieves
  and an owner are needed for a theft that races both a pop and another theft;
  three tasks and capacity 3 let a slot be reused while a thief still remembers
  it; two resets let a thief sleep through a whole refilling; one move changes a
  task between a thief's read and its swap.
- *processors*, fork and join: two workers, three forks, capacity 4. Three forks give nested and sequential ones in one program, with
  collections at depth up to 2; two workers make each the thief of the other. A
  third worker adds thefts, but no new pair of steps on one joinpoint, which only
  two sides ever touch.
  Reclamation: two processors, of which one collects, one record,
  epochs to 4, one delayed store each. Epochs up to 4 go once round the three
  bags, so a processor may sleep through a full cycle and meet the bag it left.
  The proofs take away all four bounds. Termination: three processors are the
  least for a leader, a sender and a target that are all different; one relays,
  one collects.
- *structures*. Elements: three processors, because two must free to one owner at
  the same time; four elements and three allocations let a head come back (ABA).
  Bag: three stacks are needed for a close that fails in the middle; chunks of
  two. Remembered sets: two storers, three entries, chunks of two, one pass or
  merge. One storer has two of the entries and the other has one, and a pass is over the
  parent's set (`Roles`; storers, entries and, until they are linked, heaps are
  interchangeable), so that a chunk fills up and the next is appended during a pass; five chunks let both lists grow. Blocks: two
  processors, of which one allocates, two superblocks of four blocks, requests
  of 1 and 2 blocks (every size class, and superblocks that go through every
  fullness) or of 3 to 9 (both size classes of megablocks, exact and rounded up,
  and one that goes back to the operating system when it is freed), five
  allocations of which four are held together.
- *promotion*, heaps: two threads, nine heaps and nine chunks for each, and three
  programs (`Some`): three forks and two collections down to depth 4, of which
  one may still run when its depth is joined; two forks, a collection and a
  look-up that moves through the union-find meanwhile; two forks with a
  concurrent and a local collection. Beats: three threads, three frames, two
  sporks, nesting 2, two beats of three tokens, one exception: the oldest spork
  can be below, at and above the bottom of the promotion stack.
- *collectors*, concurrent: two writes are the least that can hide a pointer (one
  copies it, one removes it), three old objects the least for a list that is cut
  in its middle; a new object; one collection, and what mutators do afterwards
  does not matter any more (`Stop`). Local: six small heaps, `Alternate` and
  `Overlap` in `MCCollectors`, two collections (the second meets what the first
  left pinned), one reader. Detector: three threads (a thread that is stolen
  from a stolen one), two objects, fork depth 2, dag depth 6.

The passing programs of the local collector are those without the two
behaviours of findings 5 and 6 and the ones named under
[what is left out](#what-is-left-out): where a collection runs during a
barrier (`Overlap`), the heap has no immutable object that leads to others and
no pointer from one of the owner's heaps into a deeper one, and no field is
overwritten (`IsPlain`, which TLC evaluates for them). Where they alternate
(`Alternate`), it may have all of these.

## Fairness

- `SporkJoin`: weak fairness of each worker's own steps. The operating system
  keeps running every pthread. Thefts are not promised: a thief draws victims
  at random, and programs end without them.
- `EBR`: each processor keeps entering the runtime unless it is in a concurrent
  collection, which may last for ever, and stores leave store buffers. Both
  instances call `EBR_leaveQuiescentState` at every entry of the runtime.
- `RemSet`: storers that are in a call and the owner keep running. Nobody is
  made to store once more. `PassEnds` needs that the storers stop in the end,
  which the bound on entries gives, and is about behaviours in which no chunk
  overtakes the pass (`Overtaken`); in the others it need not end, as finding 7 shows.
- `Termination`: weak fairness of a broadcast under way, of steps inside the
  runtime and of the leader; a processor in the program enters the runtime again
  or polls, and a collection ends. A program that only waits in a loop that
  checks the limit is not among them (`Loops` is empty): see the note below.
- The other modules state no liveness. `AllFairness` of `MCProcessors` and
  of `MCStructures` is the fairness of their parts, each where it is the one that runs.

## Proofs

TLAPS checks these for all values of the constants that satisfy the named
assumptions.

`ABPDequeProofs`, from the assumptions on the constants in `ABPDeque` and from
`TagsSuffice`: the deque gets fewer new tags than tags there are. The code
has 58 bits of tag, of which `set_depth` keeps 26, so this is an assumption
about the length of a thief's pause, not a fact. The properties are not
inductive: that a compare-and-swap succeeds says nothing unless the value read
earlier is tied to what happened since. `IInv` adds that tie: a top that a thief
remembers is never newer than `top`, and while the tag is still the same, what
it read is still there (`ThiefInv`); what the owner's locals say about the
shared words at each control point, store buffer included (`OwnerInv`); how
far a claim is (`ClaimInv`); that the slots between `top` and the logical bottom
hold tasks (`LiveInv`). A step that changes `top` without a theft takes a new
tag, so every remembered top becomes stale. There is one lemma per action, and
`NextInv` puts them together. The theorems: `TypeCorrect`, `ExactlyOnceHolds`,
`NeverDiesHolds`, `WinnerIsCurrentHolds`, `ClaimAgreesWithBotHolds`,
`SetDepthLooksEmptyHolds`.

From the same invariant it is shown that every step maps to a step
of `WorkDeque` or to a stutter: `ImplementsWorkDequeHolds`. Four steps matter:
the store of `bot` that ends a push (from there on the task is in the deque, even
while the store is in the buffer), the load of `top` or the compare-and-swap
that decides a pop, and a thief's compare-and-swap. The others leave the live
interval alone or work on an empty one.

`StructuresProofs` is about three structures. Of the fixed-size elements it shows
`TypeCorrect`, the invariant (`InvHolds`), `ListsAndCountsHolds` and
`ImplementsPoolHolds`: `Spec => ImplementsPool`. That no element is handed out twice needs no notion of what is reachable: links stay
inside a list, no two elements link to the same one, and none links to a head. So
removing a head leaves no link to it, and a stale head in a compare-and-swap does
no harm (the argument of the comment at `fixed-size-allocator.c:52`). That a list
is whole needs one. `Chain` is the least closed set with the head, so a closed set
has to contain the whole list: of the elements it lacks, one is closest to the
head, and what links to that one is in the set (`ClosedHasAll`). The invariant
provides for it that every element but the head is linked to (`Reached`) and that
the links form no cycle (`Ranked`); and that an owner looks at the shared list only
while its own is empty (`Emptied`), for otherwise `allocateFixedSize` would lose the
latter (line 68). The counts agree once the frees that are published but not
counted yet are added (`Counted`). Both sets of constants are finite
(`FiniteAssumption`).

Of the root bag it shows `NothingLostHolds` and `BagTypesKept` for any number of
stacks and data and chunks of any size. A push to a closed stack is dropped, so the
invariant (`BagInvariant`) says where a stack can be closed: in each phase of
`try_close`, which stacks are closed and that the collector holds all of them,
so that no push is in one of their critical sections. What was pushed is then
with the collector or in a stack (`AllKept`). After a failed attempt this ends,
because the mutexes of closed stacks are given back and the stacks stay closed.
That the marking still does not end without a pointer follows only from finding 1:
`Stuck` says that the collector holds the mutex of a stack that is not empty, and
is not past it, so it never closes the bag. Whoever mends the finding by giving
that mutex back, and no more, makes `NothingLost` false; the stacks closed by the
attempt have to be opened again.

Of the remembered sets it shows `StoredIsKeptHolds`, `QuietPassVisitsAllHolds`,
`ChunksInOnePlaceHolds` and `RemSetTypesKept` for any number of storers, entries, chunks
and operations of the owner, and chunks of any size. What is at stake is that
lists of chunks are popped, concatenated and moved to another heap while somebody
is between two steps of storing into one of their chunks. Three things make this
right, and the invariant (`RemSetInvariant`) is about them. Chunks only move (`ListsInv`):
each is in one place, and what an owner has taken from a heap stays accounted to
it (`Holding`). So the chunk a storer loaded is still in the heap it stores for,
unless that heap was linked into the parent meanwhile (`StorersInv`), which
`Recheck` notices: that is why a returned entry is at home (`KeptInv`), and why the
link has to come before the lists are moved. And a slot below the frontier
is filled or has exactly one claimant, who is about to fill it (`SlotsInv`). For the
pass, `Ahead` says of an entry that is due which chunk it is in, that the pass has
not left that chunk, and that no empty slot is before it. A pass that starts with
nobody between claiming and filling has all of them ahead; a slot, once filled,
stays filled, so they stay there until they are visited. Finding 2 is what becomes
of an entry when the pass does not start like that.

`BlockAllocatorProofs` shows `BlocksAreWholeHolds`, `MapsOnlyWhenFullHolds` and
`BlockTypesKept` for any number of processors, superblocks and megablocks, any
thresholds and any requests. The invariant (`Invariant`) says three things. Each
group of blocks that is away from its superblock is in one place: in use, in the
hand of the processor that is about to push it, among those that others freed, or
among those taken back and not returned yet (`InOnePlace`). The groups away and the
free list of a superblock tile it up to its frontier, and `numBlocksFree` counts the
rest (`SuperInv`); that is why returning a group, whoever freed it and however late,
fits into the superblock it came from. And every list has exactly the superblocks
of its owner whose size class and fullness it stands for (`Fit`), so that the four
lists an allocation searches are all that could have room; that is
`MapsOnlyWhenFull`. Megablocks are counted by size: what is free is in the list of
the largest class it can serve (`MegaBlocksAreWhole`). `PowersAssumption` names what
the provers do not know of `2 ^ c`: facts of arithmetic, which TLC evaluates for the
instance.

`ProcessorsProofs` is about `EBR` and `Termination`. It shows
`FreedOnceAndUnusedHolds` (nobody has a pointer to a freed record, no record is freed twice) for any number of processors and records and
buffers of any size, and `TypeCorrect`; `InvHolds` is the induction. That nobody
holds what is in the bag being freed is not inductive: it depends on how far
the epoch can still move. The invariant (`HeldInv`) counts for every bag the
rotations since its last record came in (`Rounds`), and says of a processor `q`
that holds one of its records: after one rotation the epoch has moved at most
once since, and if it has, `q` is `Blocked`, that is, its announcement (in
memory or still in its buffer) is of an earlier epoch, and nobody has counted it
as having passed; after two, the epoch stands where it was then and `q` blocks
it; three do not happen. The quiescent bit is why `AnnouncedInv` is needed:
a processor inside an operation has no quiescent announcement anywhere, which
after a collection is only true because `FinishCollection` drains the buffer.

Of the end of the program it shows `SignalledIsAliveHolds`, the other invariants
(`TerminationInvHolds`) and `TerminationTypeCorrect` for any number of processors. The status of a
processor is 1 plus the number of those who are signalling it (`StatusInv`), so
the compare-and-swap from 1 to 0 of an exit says that nobody is; a count that a
sender loaded before the exit is at least 1 (`RelayInv`), so its
compare-and-swap fails. `BothTypesHold` puts the two types together for
`MCProcessors`, which runs one part and leaves the others as they are.

`SporkJoinProofs` is about any number of workers and forks, any capacity of the
deques and any depth up to which there are collections: `TypesKept`,
`TakenUpOnce` (`RunsOnce`), `DequesMatch` (`DequeMatchesForks`), `NoMessage`
(`NeverDies`) and `ImplementsForkJoinHolds`, the refinement of `ForkJoin`. None
of the properties is inductive. A sync pops a task and throws it away without
looking at it, so that it is the right one depends on all spawns and thefts
since the fork. The invariant (`Invariant`) says it in three parts:

- The level of a thread, counted from the forks it has open, is its depth, and
  the depth at which its worker's deque ends (`DepthInv`, `DequeInv`). The slots
  below hold tasks of these forks at their depths (`Holds`), and every right side
  nobody took (`Covers`). What thieves took is therefore always the shallow part.
- The incounter of a joinpoint says which sides have come to it (`ForkInv`). The
  one that finds it at one goes on with the thread, and there is one such side.
- What can be taken up, be it a thread to switch to, a right side, a continuation
  or a collection, is in one place only (`SwitchInv`, `OnceInv`, `TaskInv`,
  `TokenInv`).

An action moves one worker and one thread; the rest of the invariant is about
others. The frame lemmas say what stays true of those, and `ThreadStep`,
`RunStep`, `LeaveStep` and `TakeStep` combine them by the kind of step. Only
`NoMessage` has a hypothesis: `RoomForBoth`, `MaxCCDepth + 1 < Capacity`. A spawn
with a collection pushes two tasks but compares the depth with the capacity
once (`Scheduler.sml:667`), before the first. That is enough because collections
stop far below the capacity (`Scheduler.sml:515`; 3 and 63 in the code).

`HeartbeatProofs` shows `TypeCorrect`, `TokensAreKeptHolds` (with its parts
`TokensAreSpentHolds`, `TokensAreBackedHolds` and `OldestFirstHolds`) and
`PromotesOldestHolds` (with `FindsOldestHolds` and `NeverDiesHolds`), for any number
of threads, frames and sporks, any depth, and beats of any number of tokens
(`ThreadsAssumption`, `TokensAssumption`, `BoundsAssumption`). The invariant
(`Invariant`) has a part for each thread and one for all of them.

- Of a thread's sporks the promoted ones are older than the others, and while it
  has a token and may fork, at most the youngest is not promoted; this is broken
  only between a step that brings a token and the promotion it leads to.
- The two pointers into the promotion stack stand for its history (`PromoInv`): the
  entries are the frames with sporks, in order; those up to the bottom have nothing
  to promote, and of those above the next one everything is. A promotion that looks
  at two entries at most therefore finds the oldest spork. This part holds until an
  exception, and finding 3 shows that it cannot be more.
- A thread is the right side of one fork at most, and its fork depth is that of the
  left side, the forks older than its own, and one (`Global`), so that both sides of
  a join are equally deep.
- What is promoted and what may still be are sums over threads: promotions and
  sporks not promoted are no more than the sporks entered, tokens held and spent no
  more than the beats gave (`Good`).

`CollectionProofs` is about both collectors. Of the concurrent one it considers any
heap, any number of mutators and any number of writes and collections. `CleanCollectionsKeepReachable` says that
nothing a mutator can reach is freed (`ReachableIsKept`), and
`CleanCollectionsMarkSnapshot` that marking ends with what was reachable at
registration, no more and no less (`MarksAreSnapshot`), in every behaviour in
which each collection starts without marks (`StartsClean`). Finding 4 is that the
code does not guarantee this from the second collection on, and the run `cc_twice`
shows that the property then fails; `FirstCollectionIsSafe` says for the first
collection both properties without a condition, and `TypesKept` has none either.
That what is in use is not freed is not inductive, for two reasons. What is
reachable changes with every write; so `KnownInv` bounds it by a set that writes
do not change, the snapshot with what is in no registered heap, and shows that
this set is closed. And that the collector finds all of the snapshot cannot be
seen from the fields it finds; so `SnapshotInv` follows the pointers of the moment
of registration (which the state no longer has, they are quantified): each is
still in its field or was logged, a write on its way included, and each marked
object's were looked at. This is where both reads of the barrier count: two
mutators that overwrite one field may log only one value each, but the first value
is among them. `Reachable` is the least closed set by definition, so that no
induction over paths is needed.

Of the local collector `CollectionProofs` shows `HeldIsKeptHolds`,
`HeapIsWholeHolds`, `HeldIsRememberedHolds`, `LocalNeverDiesHolds` and
`LocalTypeOKHolds`, each as `LocalSpec => [](IsPlain(shape) => ...)`, for any finite
set of objects, any fields, programs (`LocalAssumption`), and number of writes,
reads and collections, which may overlap with the reader's barrier. `IsPlain` says
of a program that it overwrites no field, that at first, among the owner's objects,
only mutable ones lead to others, and that these are in the deepest of the owner's
heaps; `shape`, the program, never changes. Without the second and the third
condition the collector's promises are broken (findings 5 and 6), and without the
first too (the note on stalled readers below them). In such a program every pin is
for the shared heap, so that a collection unpins nothing, and the owner's suspect
lists stay empty; unpinning, overwrites, chains of immutable objects and the
clearing of suspects are in the run only (`Alternate`). None of the properties is
inductive; the invariant (`LocalInv`, shown by `LocalInvHolds`) says:

- Every object has a line of versions, each forwarded to the next or freed, up to one
  live one (`FwdInv`, `VersInv`). A field of a live object leads to a live object or
  to one that this collection has moved (`FieldInv`), and in what the collector has
  visited, such a field is still in the work list (`ScanInv`).
- What the shared object leads to, or will when the write under way is done, is
  pinned and has an entry in a remembered set (`RootInv`). A pin has a reason
  (`PinInv`): the shared object leads to the object, or the reader has it.
- What the reader holds is pinned, and it came by it from the shared object over what
  it holds: no set of held objects is without a pointer into it from outside
  (`HeldInv`). Paths would take induction; the sets do not. The pointer its barrier
  works on leads, over forwarding pointers, to a live version (`BarrierInv`).
- While the remembered entries are processed, reader and collector race for headers,
  and the compare-and-swap decides. Afterwards the collector copies with plain stores.
  At that moment there is a set of visited objects, closed under fields, that has all
  that is pinned, all that the shared object leads to and where the reader's pointer
  ends (`KnownTo`), and it stays so: what is private then stays private.

The reader, the owner and the collector each keep the others' parts by frame lemmas:
what a barrier's step may do to headers (`ReaderFrame`), what the owner may do
between collections (`OwnerFrame`), and for the collector steps that move nothing
(`Quiet`), that mark or move a chunk with its object (`Moves`), copy an object
(`Relocates`) and free or reclaim chunks (`Frees`). That the walk over forwarding
pointers ends (`RacyFacts`) and that `ReachableFrom`, a recursive function, computes a
closed set (`ReachIsClosed`) and reaches every held object (`HeldIsReached`: each round
reaches one more) are shown from the equations that define them, whose solutions are
exhibited.

`DecheckProofs` shows `OrderedIsBeforeHolds`, `LcaIsSharedHolds` and `TypeCorrect`
for any number of threads and objects and any depth of forks. The check sees two tids and one
table, while what it decides, whether an allocation precedes what a thread runs,
is history (`before`). The link is a tree that the state no longer shows: forks
that were joined leave their bits in the words, and chunks keep the tids of
strands that are gone. The invariant (`Inv`, and `InvHolds`) is therefore about two
functions that are quantified: `pos`, the tid where each thread is, or will start
when it is stolen, and `base`, the depth at which it was forked.

- The words of two threads part at a bit that both have (`ApartInv`), so that a
  strand below a fork belongs to one of them. A fork or a join sets the dag depth
  of strands which only the thread that does it leads through; hence the tables
  of the others stay true (`ThreadInv`), including the one that a right side
  copies when it was forked as a frame or takes from its parent when it starts
  (`ForkInv`), although the parent may have gone on by then.
- The tid of an object's chunk may be that of any strand that allocated into its
  heap, or into one that was merged into it. Up to the heap's depth it has the bits
  of the owner, and its dag depth is more than that of the strand above and at most
  that of the heap's own (`Placed`): dag depths grow along a path (`StrandInv`), and
  a join gives the parent more than either side had.
- `before` is what the heaps say (`BeforeInv`): an object is before a thread if its
  heap is one on the thread's path.

The check takes the depth at which reader and object part. If the heap is on the
reader's path, they part at or below it, and the reader's table has there at least
the dag depth of the object; otherwise they part above, and it has less
(`OrderedIsAbove`). The length of the common prefix is a minimum, which exists
because the order of the numbers is well-founded (`MinFacts`, `CommonFacts`).

`LcaIsShared` says that the heap of that depth on the reader's side is one on the
allocating thread's side as well. It looks heaps up from parent to parent, a
recursion of which the provers know nothing but the equation it was defined by, if
it has a solution. The invariant for it (`LineInv`) follows the parents: every
thread that was forked has its entry in the thread that forked it, up to the one
the program started with, and two threads differ already below where one of them was
forked (`PartInv`). So of the threads whose path agrees to a depth one has the heap
(`SomeoneHas`, by a least counterexample) and only one (`NobodyElseHas`); what maps
every thread and depth to it solves the equation (`HeapAtSolves`), and so `HeapAt`
leads there (`HeapAtHas`). Two threads that agree up to a depth are led to the same.

Only model-checked:

- liveness, which is beyond TLAPS, as is ENABLED: `ProgramsEnd` (`Terminates`
  of `SporkJoin`), `Reclaimed` (`EBR`), `HaltReturns` (`Termination`), `PassEnds`
  (`RemSet`);
- `CollectionsAreKept` of `SporkJoin`;
- `HeapChain` (`ListsAreRight`, `FindsHeaps`, `NothingPointsInto`): the traversal of
  the tree of dependants and the tree itself are RECURSIVE operators, for which tlapm
  has no SMT backend, and the properties are about all that the lists, the chains
  behind them and the union-find reach, by definitions whose recursion ends only
  because the properties hold;
- `LocalCollection`'s programs that are not plain (`Alternate`): collections that
  alternate with barriers, with overwrites, unpinning, chains of immutable objects and
  suspects of the owner's own.

## Findings

1. `cc_stack_locks`: a push between `try_close`'s first look and its confirmation
   makes it leave the confirming loop with that stack's mutex taken
   (`concurrent-stack.c:202`), and lock it again at line 231. The collector
   waits for itself, the pusher for the collector.
2. `remset_skip`: an iteration of the public remembered set stops at a claimed
   slot that is still empty and comes back to it only in retired chunks and the
   last one; filled slots behind it in a full chunk are left out.
3. `heartbeat_raise`: a handler pops the call stack but not the promotion stack
   (`c-codegen.fun:1772`). The stale entry later leads to a frame that is not
   the oldest, against the assertion at `thread.c:405`.
4. `cc_twice`: the write barrier leaves out a pointer whose object is already
   marked (`assign.c:150`). If the write cut the last way to that object, the
   unmarking traversal misses it and its mark stays. The next collection takes
   it for one that was scanned (`concurrent-collection.c:325`) and frees what it
   points to. One collection alone is safe (`collectors`).
5. `reader_help`: before a reader pins an immutable object it makes the object's
   fields entangled and stores what it got into them (`decheck.c:443`). If the
   collector copied the object meanwhile, it mends the old copy: the new one,
   which it then returns, still leads to a forwarded object, against the comment
   at `decheck.c:440`.
6. `entry_forgotten`: the collector reads the unpin depth of an object again
   (`hierarchical-heap-collection.c:1563`) after its attempt to unpin it failed.
   A reader that lowers the depth in between makes it drop the only remembered
   entry of a pinned object, against the comment at line 1572 and the assertion
   at line 1779.
7. `remset_append`: a tracked pass over the public remembered set reads the last chunk
   again when it has swept the list. If one was appended meanwhile, it wants to go on
   with that one, but its cursor is NULL, where line 149 of `remembered-set.c` asserts
   `chunk->nextChunk != NULL`; line 150 reads through it.

Met on the way, and not runs of their own:

- An entry of the public remembered set whose object is already in the to-space is
  dropped (`hierarchical-heap-collection.c:1538`). `copySuspect` takes a suspect
  that is neither forwarded nor pinned for garbage (line 1171); a live one that
  fills a chunk and was moved with it is neither. A reader may stall between its
  load of a field and its pin while the owner overwrites the field and collects.
  These are why the passing programs are separated as described under
  [bounds](#bounds).
- A look-up of a chunk that the thread cannot know (`Entangled = TRUE` in
  `HeapChain`) can meet a union-find node that was unlinked and stand on NULL,
  against `assert(cursor != NULL)` (`chunk.c:534`; called from
  `hierarchical-heap-collection.c:1709`).
- The leader sets the limit of every other processor to zero, so that its next
  check enters the runtime. A processor that is just entering for another reason
  saw no request, and its `beginAtomic` puts the limit back. With `Loops = {1}` in
  `Termination`, a program that from then on only checks the limit never notices,
  and the leader waits for ever.
- `block-allocator.h:150` calls a superblock nearly full when most of it is in use.
  The code (`fullness`, `block-allocator.c:31`) compares the part that is free with
  the same numbers: what is mostly free is in the group "nearly full", what is
  mostly in use in "nearly empty". `BlockAllocator` follows the code; its
  properties do not depend on the names.

## What is left out

- Memory is x86-TSO where a delayed store matters (`ABPDeque`, `EBR`), otherwise
  sequentially consistent. The deque is not modelled for Arm.
- `ABPDeque`: the wrap of the tag (see Proofs), `size` and `clear`.
- `SporkJoin`: results and exceptions of the two sides, `NormalTask`, idle
  timers; beats are `Heartbeat`'s concern, heaps `HeapChain`'s.
- `RemSet`: the owner's own plain stores into the private half, what becomes of
  an entry, and the freeing of chunks, which can meet a processor that loaded
  one of them before.
- `Heartbeat`: delivery of the signal (in part in `Termination`), sizes of stacks,
  the compiler's choice of frames, which worker runs a thread.
- `ConcurrentCollection`: pinned entries and their filtering (roots here),
  closures and stack copies (also roots), the policy that decides whether to
  collect. More than one heap in collection is `HeapChain`'s.
- `HeapChain`: sizes and the policy, the heap of a continuation's stack, the sweep
  of chunks of dead stacks; a thread starts when it is spawned; a local
  collection keeps at most one chunk.
- `LocalCollection`: one object in a chunk, one reader, the common ancestor always
  at depth 1; `markObj` and the suspect mark are atomic; a retired chunk is
  reclaimed only when the reader is not in its barrier. Weak pointers, threads
  and stacks as objects, and layouts are left out, as is the parallel clearing of
  suspects in grains.
- `BlockAllocator`: statistics and tracing.
- `Termination`: timers, and delivery of other signals to programs.
- Whole components, with the reason for each, are in `PROJECT.json`: what they do
  is sequential, input and output, generated, or compilation. That is most of
  the repository by lines; the modules are about the part of it in which several
  processors meet.
