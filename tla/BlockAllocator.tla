--------------------------- MODULE BlockAllocator ---------------------------
(***************************************************************************)
(* The block allocator (runtime/gc/block-allocator.c): groups of           *)
(* contiguous blocks, of a power of two, are carved out of superblocks.    *)
(* Every processor owns superblocks and keeps them in lists by how full    *)
(* they are; whoever frees a group of another processor's superblock       *)
(* pushes it on a list that the owner empties when it allocates again.     *)
(* Larger groups, the megablocks, come from one allocator under a lock.    *)
(*                                                                         *)
(* Blocks of a superblock have numbers from 0; a group is the superblock   *)
(* and the number of its first block.  A linked list is a sequence.        *)
(* Statistics, tracing and debugKeepFreeBlocks are left out.               *)
(***************************************************************************)
EXTENDS Integers, Sequences, SequencesExt, FiniteSets

CONSTANTS BlockProcs,         \* processors, each with its local allocator
          SuperBlocks,        \* bound: the superblocks mmap can deliver
          MegaBlocks,         \* bound: the megablocks mmap can deliver
          RequestSets,        \* bound: numbers of blocks asked for in a behaviour
          MaxAllocations,     \* bound: calls of allocateBlocks
          MaxHeld,            \* bound: groups in use together
          Allocating,         \* bound: processors that allocate; all free
          superblockThreshold, megablockThreshold,
          emptinessPercent,   \* a hundred times emptinessFraction
          BlockNil            \* NULL

ASSUME BlockAssumption ==
  /\ superblockThreshold \in Nat \ {0} /\ megablockThreshold \in Nat
  /\ superblockThreshold <= megablockThreshold
  /\ emptinessPercent \in 1..49
  /\ UNION RequestSets \subseteq Nat \ {0}
  /\ BlockNil \notin BlockProcs /\ Allocating \subseteq BlockProcs

\* Facts of arithmetic, which the provers do not know of powers.
ASSUME PowersAssumption ==
  /\ 2 ^ superblockThreshold \in Nat
  /\ \A c \in 0 .. superblockThreshold : 2 ^ c \in 1 .. 2 ^ superblockThreshold
  /\ \A n \in UNION RequestSets : n <= 2 ^ n /\ \A c \in 0 .. n : 2 ^ c \in Nat

VARIABLES
  superBlock,        \* per superblock: owner, sizeClass, numBlocksFree, firstFree, frontier
  fullnessGroup,     \* per processor: the list of superblocks of each group
  firstFreedByOther, \* per processor: groups that others freed
  caller,            \* per processor: where it is in a call
  megaBlockList,     \* per size class: the megablocks that are free
  numBlocks,         \* per megablock: its size, 0 if it is not mapped
  requests,          \* the numbers of blocks that are asked for
  allocations,       \* calls of allocateBlocks so far
  held,              \* history: the groups in use
  heldMega,          \* history: the megablocks in use, and what was asked for
  outOfSpace         \* the program has died in DIE("ran out of space!")

blockVars == <<superBlock, fullnessGroup, firstFreedByOther, caller, megaBlockList,
               numBlocks, requests, allocations, held, heldMega, outOfSpace>>

program == <<requests, allocations>>
GroupSize(class) == 2 ^ class
SuperSize == GroupSize(superblockThreshold)
Starts == 0 .. SuperSize - 1
BlockGroups == [sb : SuperBlocks, start : Starts]

COMPLETELY_FULL == 0
NEARLY_FULL == 1
SOMEWHAT_FULL == 2
NEARLY_EMPTY == 3
COMPLETELY_EMPTY == 4

SizeClasses == 0 .. superblockThreshold - 1
MegaClasses == superblockThreshold .. megablockThreshold - 1

\* The completely empty superblocks are one group, whatever their class.
Groups == {<<c, fg>> : c \in SizeClasses, fg \in COMPLETELY_FULL .. NEARLY_EMPTY}
          \cup {<<0, COMPLETELY_EMPTY>>}
GroupOf(class, fg) == IF fg = COMPLETELY_EMPTY THEN <<0, fg>> ELSE <<class, fg>>

computeSizeClass(n) ==
  CHOOSE c \in 0 .. n : GroupSize(c) >= n /\ \A d \in 0 .. c - 1 : GroupSize(d) < n

\* The groups are told apart by the part that is free.
fullness(sb) ==
  IF sb.numBlocksFree < GroupSize(sb.sizeClass) THEN COMPLETELY_FULL
  ELSE IF sb.numBlocksFree = SuperSize THEN COMPLETELY_EMPTY
  ELSE IF sb.numBlocksFree * 100 >= (100 - emptinessPercent) * SuperSize THEN NEARLY_FULL
  ELSE IF sb.numBlocksFree * 100 < emptinessPercent * SuperSize THEN NEARLY_EMPTY
  ELSE SOMEWHAT_FULL

Unmapped == [owner |-> BlockNil, sizeClass |-> 0, numBlocksFree |-> SuperSize,
             firstFree |-> <<>>, frontier |-> 0]
IdleCaller == [pc |-> "idle", n |-> 0, topElem |-> BlockNil, taken |-> <<>>,
               elem |-> BlockNil, oldVal |-> BlockNil]

BlockInit ==
  /\ superBlock = [sb \in SuperBlocks |-> Unmapped]
  /\ fullnessGroup = [p \in BlockProcs |-> [g \in Groups |-> <<>>]]
  /\ firstFreedByOther = [p \in BlockProcs |-> <<>>]
  /\ caller = [p \in BlockProcs |-> IdleCaller]
  /\ megaBlockList = [c \in MegaClasses |-> <<>>]
  /\ numBlocks = [m \in MegaBlocks |-> 0]
  /\ requests \in RequestSets /\ allocations = 0
  /\ held = {} /\ heldMega = {}
  /\ outOfSpace = FALSE

CallerAt(p, label) == caller[p].pc = label /\ ~outOfSpace
MayAllocateBlocks(p) ==
  /\ CallerAt(p, "idle") /\ p \in Allocating
  /\ allocations < MaxAllocations
  /\ Cardinality(held) + Cardinality(heldMega) < MaxHeld
  /\ allocations' = allocations + 1 /\ UNCHANGED requests
HeadOf(list) == IF list = <<>> THEN BlockNil ELSE Head(list)

-----------------------------------------------------------------------------
(* Steps inside the superblocks of one processor, on a pair of the         *)
(* superblocks and the processor's groups: nobody else touches them.       *)

unlinkSuperBlock(list, sb) == RemoveAt(list, CHOOSE i \in 1 .. Len(list) : list[i] = sb)
prependSuperBlock(list, sb) == <<sb>> \o list
Relink(groups, sb, from, to) ==
  LET without == [groups EXCEPT ![from] = unlinkSuperBlock(@, sb)]
  IN  [without EXCEPT ![to] = prependSuperBlock(@, sb)]

deallocateInSuperBlock(sb, start) ==
  [sb EXCEPT !.firstFree = <<start>> \o @, !.numBlocksFree = @ + GroupSize(sb.sizeClass)]

localFreeBlocks(local, elem) ==
  LET old == local.super[elem.sb]
      new == deallocateInSuperBlock(old, elem.start)
  IN  [super |-> [local.super EXCEPT ![elem.sb] = new],
       groups |-> Relink(local.groups, elem.sb, GroupOf(old.sizeClass, fullness(old)),
                         GroupOf(new.sizeClass, fullness(new)))]

\* A completely empty superblock takes the size class it is needed for.
setSuperBlockSizeClass(sb, class) ==
  [sb EXCEPT !.sizeClass = class, !.firstFree = <<>>, !.frontier = 0]

ForClass(sb, class) ==
  IF sb.numBlocksFree = SuperSize THEN setSuperBlockSizeClass(sb, class) ELSE sb

\* The group that allocateInSuperBlock hands out, and what it leaves.
StartIn(sb) == IF sb.firstFree = <<>> THEN sb.frontier ELSE Head(sb.firstFree)
allocateInSuperBlock(sb) ==
  LET less == [sb EXCEPT !.numBlocksFree = @ - GroupSize(sb.sizeClass)]
  IN  IF sb.firstFree = <<>> THEN [less EXCEPT !.frontier = @ + GroupSize(sb.sizeClass)]
      ELSE [less EXCEPT !.firstFree = Tail(@)]

\* The groups that are searched for a class, in this order.
SearchOrder(class) == <<<<class, NEARLY_FULL>>, <<class, SOMEWHAT_FULL>>,
                        <<class, NEARLY_EMPTY>>, <<0, COMPLETELY_EMPTY>>>>
\* Mutant: the nearly empty superblocks are not searched.
BugUsable(groups, class) ==
  {i \in 1 .. 4 : groups[SearchOrder(class)[i]] # <<>> /\ SearchOrder(class)[i][2] # NEARLY_EMPTY}
Usable(groups, class) == {i \in 1 .. 4 : groups[SearchOrder(class)[i]] # <<>>}

\* The list that is used and its first superblock.
TargetList(groups, class) ==
  SearchOrder(class)[CHOOSE i \in Usable(groups, class) :
                       \A j \in Usable(groups, class) : i <= j]

tryAllocateAndAdjustSuperBlocks(local, class) ==
  LET list == TargetList(local.groups, class)
      id == Head(local.groups[list])
      old == local.super[id]
      ready == ForClass(old, class)
      new == allocateInSuperBlock(ready)
  IN  [super |-> [local.super EXCEPT ![id] = new],
       groups |-> IF fullness(old) = fullness(new) THEN local.groups
                  ELSE Relink(local.groups, id, list, GroupOf(class, fullness(new))),
       result |-> [sb |-> id, start |-> StartIn(ready)]]

Local(p) == [super |-> superBlock, groups |-> fullnessGroup[p]]
Store(p, local) ==
  /\ superBlock' = local.super
  /\ fullnessGroup' = [fullnessGroup EXCEPT ![p] = local.groups]

-----------------------------------------------------------------------------
(* allocateBlocksWithPurpose                                               *)

\* clearOutOtherFrees looks at the list that the others push on.
AllocateBlocks(p, n) ==
  /\ MayAllocateBlocks(p)
  /\ computeSizeClass(n) < superblockThreshold
  /\ caller' = [caller EXCEPT ![p] =
       [IdleCaller EXCEPT !.n = n, !.topElem = HeadOf(firstFreedByOther[p]),
          !.pc = IF firstFreedByOther[p] = <<>> THEN "local" ELSE "take"]]
  /\ UNCHANGED <<superBlock, fullnessGroup, firstFreedByOther, megaBlockList,
                 numBlocks, held, heldMega, outOfSpace>>

\* Mutant: NULL is stored instead of compared and swapped; the groups that
\* were pushed after the look at the top are lost.
BugTakeOtherFrees(p) ==
  LET list == firstFreedByOther[p]
      seen == CHOOSE i \in 1 .. Len(list) : list[i] = caller[p].topElem
  IN  /\ CallerAt(p, "take")
      /\ firstFreedByOther' = [firstFreedByOther EXCEPT ![p] = <<>>]
      /\ caller' = [caller EXCEPT ![p].pc = "return",
                                  ![p].taken = SubSeq(list, seen, Len(list))]
      /\ UNCHANGED <<program, superBlock, fullnessGroup, megaBlockList, numBlocks, held,
                     heldMega, outOfSpace>>

\* The compare-and-swap that takes the whole list, and the next look if it fails.
TakeOtherFrees(p) ==
  /\ CallerAt(p, "take")
  /\ \/ /\ HeadOf(firstFreedByOther[p]) = caller[p].topElem
        /\ firstFreedByOther' = [firstFreedByOther EXCEPT ![p] = <<>>]
        /\ caller' = [caller EXCEPT ![p].pc = "return", ![p].taken = firstFreedByOther[p]]
     \/ /\ HeadOf(firstFreedByOther[p]) # caller[p].topElem
        /\ caller' = [caller EXCEPT ![p].topElem = HeadOf(firstFreedByOther[p])]
        /\ UNCHANGED firstFreedByOther
  /\ UNCHANGED <<program, superBlock, fullnessGroup, megaBlockList, numBlocks, held, heldMega,
                 outOfSpace>>

\* One group after the other goes back to its superblock.
ReturnTaken(p) ==
  /\ CallerAt(p, "return") /\ caller[p].taken # <<>>
  /\ Store(p, localFreeBlocks(Local(p), Head(caller[p].taken)))
  /\ caller' = [caller EXCEPT ![p].taken = Tail(@)]
  /\ UNCHANGED <<program, firstFreedByOther, megaBlockList, numBlocks, held, heldMega,
                 outOfSpace>>

AllReturned(p) ==
  /\ CallerAt(p, "return") /\ caller[p].taken = <<>>
  /\ caller' = [caller EXCEPT ![p].pc = "local"]
  /\ UNCHANGED <<program, superBlock, fullnessGroup, firstFreedByOther, megaBlockList,
                 numBlocks, held, heldMega, outOfSpace>>

HandOutBlocks(p, local) ==
  LET after == tryAllocateAndAdjustSuperBlocks(local, computeSizeClass(caller[p].n))
  IN  /\ Store(p, after)
      /\ held' = held \cup {after.result}
      /\ caller' = [caller EXCEPT ![p] = IdleCaller]
      /\ UNCHANGED <<program, firstFreedByOther, megaBlockList, numBlocks, heldMega, outOfSpace>>

AllocateInOwn(p) ==
  /\ CallerAt(p, "local")
  /\ Usable(fullnessGroup[p], computeSizeClass(caller[p].n)) # {}
  /\ HandOutBlocks(p, Local(p))

\* mmapNewSuperBlocks, with one superblock.
WithNew(p, sb) ==
  [super |-> [superBlock EXCEPT ![sb].owner = p],
   groups |-> [fullnessGroup[p] EXCEPT ![<<0, COMPLETELY_EMPTY>>] = prependSuperBlock(@, sb)]]

\* The second attempt, after a superblock was mapped.
MapNewSuperBlock(p) ==
  /\ CallerAt(p, "local")
  /\ Usable(fullnessGroup[p], computeSizeClass(caller[p].n)) = {}
  /\ \E sb \in SuperBlocks :
       /\ superBlock[sb].owner = BlockNil
       /\ HandOutBlocks(p, WithNew(p, sb))

RunOutOfSpace(p) ==
  /\ CallerAt(p, "local")
  /\ Usable(fullnessGroup[p], computeSizeClass(caller[p].n)) = {}
  /\ \A sb \in SuperBlocks : superBlock[sb].owner # BlockNil
  /\ outOfSpace' = TRUE
  /\ UNCHANGED <<program, superBlock, fullnessGroup, firstFreedByOther, caller, megaBlockList,
                 numBlocks, held, heldMega>>

-----------------------------------------------------------------------------
(* freeBlocks, of a group in a superblock                                  *)

FreeOwn(p, b) ==
  /\ CallerAt(p, "idle")
  /\ superBlock[b.sb].owner = p
  /\ Store(p, localFreeBlocks(Local(p), b))
  /\ held' = held \ {b}
  /\ UNCHANGED <<program, firstFreedByOther, caller, megaBlockList, numBlocks, heldMega,
                 outOfSpace>>

\* The owner's list is looked at and the group linked to what was seen there.
FreeOther(p, b) ==
  /\ CallerAt(p, "idle")
  /\ superBlock[b.sb].owner # p
  /\ held' = held \ {b}
  /\ caller' = [caller EXCEPT ![p] =
       [IdleCaller EXCEPT !.pc = "push", !.elem = b,
          !.oldVal = HeadOf(firstFreedByOther[superBlock[b.sb].owner])]]
  /\ UNCHANGED <<program, superBlock, fullnessGroup, firstFreedByOther, megaBlockList,
                 numBlocks, heldMega, outOfSpace>>

\* The compare-and-swap, and the next look if it fails.
PushFreed(p) ==
  LET owner == superBlock[caller[p].elem.sb].owner
      head == HeadOf(firstFreedByOther[owner])
  IN  /\ CallerAt(p, "push")
      /\ \/ /\ head = caller[p].oldVal
            /\ firstFreedByOther' =
                 [firstFreedByOther EXCEPT ![owner] = <<caller[p].elem>> \o @]
            /\ caller' = [caller EXCEPT ![p] = IdleCaller]
         \/ /\ head # caller[p].oldVal
            /\ caller' = [caller EXCEPT ![p].oldVal = head]
            /\ UNCHANGED firstFreedByOther
      /\ UNCHANGED <<program, superBlock, fullnessGroup, megaBlockList, numBlocks, held,
                     heldMega, outOfSpace>>

-----------------------------------------------------------------------------
(* Megablocks                                                              *)

\* The megablock at place i of a class is large enough; two classes are searched.
LargeEnough(n, class, i) ==
  /\ class - computeSizeClass(n) \in {0, 1}
  /\ numBlocks[megaBlockList[class][i]] >= n

\* The first such place in the order of the search.
tryFindMegaBlock(n, class, i) ==
  /\ LargeEnough(n, class, i)
  /\ \A c \in MegaClasses : \A j \in 1 .. Len(megaBlockList[c]) :
       LargeEnough(n, c, j) => class < c \/ (class = c /\ i <= j)

NoMegaFits(n) ==
  \A class \in MegaClasses : \A i \in 1 .. Len(megaBlockList[class]) : ~LargeEnough(n, class, i)

MegaHeld(m, n) == [mega |-> m, asked |-> n]

ReuseMega(p, n) ==
  /\ MayAllocateBlocks(p)
  /\ computeSizeClass(n) >= superblockThreshold
  /\ \E class \in MegaClasses : \E i \in 1 .. Len(megaBlockList[class]) :
       /\ tryFindMegaBlock(n, class, i)
       /\ megaBlockList' = [megaBlockList EXCEPT ![class] = RemoveAt(@, i)]
       /\ heldMega' = heldMega \cup {MegaHeld(megaBlockList[class][i], n)}
  /\ UNCHANGED <<superBlock, fullnessGroup, firstFreedByOther, caller, numBlocks, held,
                 outOfSpace>>

\* mmapNewMegaBlock, when none can be used again.
MapMega(p, n) ==
  /\ MayAllocateBlocks(p)
  /\ computeSizeClass(n) >= superblockThreshold /\ NoMegaFits(n)
  /\ \E m \in MegaBlocks :
       /\ numBlocks[m] = 0
       /\ numBlocks' = [numBlocks EXCEPT ![m] = n]
       /\ heldMega' = heldMega \cup {MegaHeld(m, n)}
  /\ UNCHANGED <<superBlock, fullnessGroup, firstFreedByOther, caller, megaBlockList, held,
                 outOfSpace>>

RunOutOfMega(p, n) ==
  /\ MayAllocateBlocks(p)
  /\ computeSizeClass(n) >= superblockThreshold /\ NoMegaFits(n)
  /\ \A m \in MegaBlocks : numBlocks[m] # 0
  /\ outOfSpace' = TRUE
  /\ UNCHANGED <<superBlock, fullnessGroup, firstFreedByOther, caller, megaBlockList, numBlocks,
                 held, heldMega>>

\* freeMegaBlock: the largest ones go back to the operating system.
FreeMega(p, b) ==
  LET class == computeSizeClass(numBlocks[b.mega])
  IN  /\ CallerAt(p, "idle")
      /\ heldMega' = heldMega \ {b}
      /\ \/ /\ class >= megablockThreshold
            /\ numBlocks' = [numBlocks EXCEPT ![b.mega] = 0]
            /\ UNCHANGED megaBlockList
         \/ /\ class < megablockThreshold
            /\ megaBlockList' = [megaBlockList EXCEPT ![class] = <<b.mega>> \o @]
            /\ UNCHANGED numBlocks
      /\ UNCHANGED <<program, superBlock, fullnessGroup, firstFreedByOther, caller, held,
                     outOfSpace>>

-----------------------------------------------------------------------------

BlockStep(p) ==
  \/ \E n \in requests : AllocateBlocks(p, n)
  \/ TakeOtherFrees(p)
  \/ ReturnTaken(p)
  \/ AllReturned(p)
  \/ AllocateInOwn(p)
  \/ MapNewSuperBlock(p)
  \/ RunOutOfSpace(p)
  \/ \E b \in held : FreeOwn(p, b)
  \/ \E b \in held : FreeOther(p, b)
  \/ PushFreed(p)
  \/ \E n \in requests : ReuseMega(p, n)
  \/ \E n \in requests : MapMega(p, n)
  \/ \E n \in requests : RunOutOfMega(p, n)
  \/ \E b \in heldMega : FreeMega(p, b)

\* The program has died, or asks for nothing more.
BlockRest ==
  /\ \/ outOfSpace
     \/ held = {} /\ heldMega = {} /\ \A p \in BlockProcs : caller[p].pc = "idle"
  /\ UNCHANGED blockVars

BlockNext == (\E p \in BlockProcs : BlockStep(p)) \/ BlockRest

BlockSpec == BlockInit /\ [][BlockNext]_blockVars

-----------------------------------------------------------------------------

\* The state has the shape the code's types give it.
BlockTypeOK ==
  /\ superBlock \in [SuperBlocks ->
       [owner : BlockProcs \cup {BlockNil}, sizeClass : SizeClasses,
        numBlocksFree : 0 .. SuperSize, firstFree : Seq(Starts), frontier : 0 .. SuperSize]]
  /\ fullnessGroup \in [BlockProcs -> [Groups -> Seq(SuperBlocks)]]
  /\ firstFreedByOther \in [BlockProcs -> Seq(BlockGroups)]
  /\ caller \in [BlockProcs ->
       [pc : {"idle", "take", "return", "local", "push"}, n : {0} \cup requests,
        topElem : BlockGroups \cup {BlockNil}, taken : Seq(BlockGroups),
        elem : BlockGroups \cup {BlockNil}, oldVal : BlockGroups \cup {BlockNil}]]
  /\ megaBlockList \in [MegaClasses -> Seq(MegaBlocks)]
  /\ numBlocks \in [MegaBlocks -> {0} \cup requests]
  /\ requests \in RequestSets /\ allocations \in Nat
  /\ held \subseteq BlockGroups /\ heldMega \subseteq [mega : MegaBlocks, asked : requests]
  /\ outOfSpace \in BOOLEAN

Distinct(list) == \A i, j \in 1 .. Len(list) : list[i] = list[j] => i = j

\* The groups that are not free: in use, on their way to the owner's list, in
\* it, or taken from it.
Pushing == {p \in BlockProcs : caller[p].pc = "push"}
Returned(p) == ToSet(firstFreedByOther[p]) \cup ToSet(caller[p].taken)
IsAway(b) ==
  \/ b \in held
  \/ \E p \in Pushing : caller[p].elem = b
  \/ \E p \in BlockProcs : b \in Returned(p)
Away(sb) == {a \in Starts : IsAway([sb |-> sb, start |-> a])}

\* Each of them is in one of these places, once.
InOnePlace ==
  /\ \A p, q \in Pushing : caller[p].elem = caller[q].elem => p = q
  /\ \A p \in Pushing : caller[p].elem \notin held
  /\ \A p \in BlockProcs :
       /\ Distinct(firstFreedByOther[p]) /\ Distinct(caller[p].taken)
       /\ ToSet(firstFreedByOther[p]) \cap ToSet(caller[p].taken) = {}
       /\ \A b \in Returned(p) :
            /\ superBlock[b.sb].owner = p
            /\ b \notin held /\ \A q \in Pushing : caller[q].elem # b

\* The groups that are away and those in the free list tile what lies before
\* the frontier; numBlocksFree counts the free list and the rest.
IsTiled(s, away) ==
  LET size == GroupSize(s.sizeClass)
      groups == away \cup ToSet(s.firstFree)
  IN  /\ Distinct(s.firstFree) /\ away \cap ToSet(s.firstFree) = {}
      /\ \A a \in groups : a + size <= s.frontier
      /\ \A a, b \in groups : a < b => a + size <= b
      /\ \A i \in 0 .. s.frontier - 1 : \E a \in groups : a <= i /\ i < a + size
      /\ s.numBlocksFree + Cardinality(away) * size = SuperSize
      /\ s.frontier + s.numBlocksFree = SuperSize + Len(s.firstFree) * size
SuperBlocksAreTiled == \A sb \in SuperBlocks : IsTiled(superBlock[sb], Away(sb))

\* A megablock is in use once or in one list, that of its size, and is as
\* large as what was asked for.
MegaBlocksAreWhole ==
  /\ \A b, c \in heldMega : b.mega = c.mega => b = c
  /\ \A b \in heldMega : numBlocks[b.mega] >= b.asked
  /\ \A class \in MegaClasses :
       /\ Distinct(megaBlockList[class])
       /\ \A m \in ToSet(megaBlockList[class]) :
            /\ numBlocks[m] # 0 /\ computeSizeClass(numBlocks[m]) = class
            /\ \A b \in heldMega : b.mega # m
  /\ \A m \in MegaBlocks : numBlocks[m] # 0 =>
       /\ computeSizeClass(numBlocks[m]) >= superblockThreshold
       /\ \/ \E b \in heldMega : b.mega = m
          \/ \E class \in MegaClasses : m \in ToSet(megaBlockList[class])

\* A superblock is in one list, of its owner, once, and that list is the one
\* its class and its fullness call for (assertSuperBlockListOkay).
GroupsAreRight ==
  \A p \in BlockProcs : \A g \in Groups :
    /\ Distinct(fullnessGroup[p][g])
    /\ \A sb \in SuperBlocks : Contains(fullnessGroup[p][g], sb) <=>
         superBlock[sb].owner = p /\ g = GroupOf(superBlock[sb].sizeClass, fullness(superBlock[sb]))

\* No block is in two groups and none is lost, and the lists hold the
\* superblocks that belong there.  No change of a size class and no push or
\* take of another processor's frees breaks it.
BlocksAreWhole ==
  BlockTypeOK /\ InOnePlace /\ SuperBlocksAreTiled /\ MegaBlocksAreWhole /\ GroupsAreRight

\* Fresh superblocks are mapped only when none that the processor owns has
\* room: free groups of the class, or no group in use at all.
HasRoom(sb, class) ==
  \/ superBlock[sb].numBlocksFree = SuperSize
  \/ superBlock[sb].sizeClass = class /\ superBlock[sb].numBlocksFree >= GroupSize(class)
MapsOnlyWhenFull ==
  [][\A p \in BlockProcs : \A sb \in SuperBlocks :
       superBlock[sb].owner = BlockNil /\ superBlock'[sb].owner = p =>
         \A t \in SuperBlocks :
           superBlock[t].owner = p => ~HasRoom(t, computeSizeClass(caller[p].n))]_blockVars
=============================================================================
