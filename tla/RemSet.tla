------------------------------- MODULE RemSet -------------------------------
(***************************************************************************)
(* The remembered sets of two heaps of one depth, the parent and the child *)
(* that a join merges into it (runtime/gc/remembered-set.c on top of the   *)
(* concurrent list of runtime/gc/concurrent-list.c).                       *)
(*                                                                         *)
(* Processors that meet an entangled object remember it in the public half *)
(* of a heap they do not own: they claim a slot of the last chunk with a   *)
(* compare-and-swap of its frontier and fill the slot afterwards, and they *)
(* append a chunk when the last one is full.  The owner of the heaps goes  *)
(* through the entries of a heap in a collection, and merges the child     *)
(* into the parent at a join, with the others still storing.               *)
(*                                                                         *)
(* A chunk list is a sequence of chunks: firstChunk is its head, lastChunk *)
(* its last element and nextChunk the successor.  The sections under the   *)
(* list's mutex are one step each.  What is done with an entry, and the    *)
(* chunks a collection frees afterwards, are left out; so are the entries  *)
(* the owner adds to the private half itself.                              *)
(***************************************************************************)
EXTENDS Naturals, Sequences, FiniteSets

CONSTANTS Storers,      \* processors that remember entangled objects
          Entries,      \* what they remember; each is remembered once
          NumChunks,    \* bound: chunks the block allocator can hand out
          EntriesPerChunk, \* entries that fit into a chunk
          MaxPasses     \* bound: operations the owner starts

\* What is assumed of the constants; MCStructures checks it.
ASSUME RemSetAssumption ==
  /\ NumChunks \in Nat /\ EntriesPerChunk \in Nat \ {0} /\ MaxPasses \in Nat
  /\ IsFiniteSet(Storers) /\ IsFiniteSet(Entries) /\ 0 \notin Entries

Chunks == 1..NumChunks
None == 0                       \* no chunk, and the zero of an empty slot
Parent == "parent"
Child == "child"
Heaps == {Parent, Child}

VARIABLES
  pub,        \* per heap: the chunks of the public list
  priv,       \* per heap: the chunks of the private list
  linked,     \* the child's union-find node points to the parent's
  frontier,   \* per chunk: slots claimed
  slot,       \* per chunk: its slots, zero until the entry is copied in
  retire,     \* per chunk: retireChunk
  free,       \* chunks the allocator holds
  st,         \* per storer: where it is, and its locals
  ow,         \* the owner: where it is, and its locals
  passes,     \* operations the owner has started
  returned,   \* history: entries whose HM_HH_rememberAtLevel returned
  visited,    \* history: entries this pass handed to the closure
  due,        \* history: entries that had returned when this pass began
  quiet       \* history: nobody was storing when this pass began

remSetVars == <<pub, priv, linked, frontier, slot, retire, free, st, ow, passes,
          returned, visited, due, quiet>>

lists == <<pub, priv, linked>>
memory == <<frontier, slot, retire, free>>
history == <<returned, visited, due, quiet>>

-----------------------------------------------------------------------------

Members(s) == {s[i] : i \in 1..Len(s)}
FirstChunk(s) == IF s = <<>> THEN None ELSE s[1]
LastChunk(s) == IF s = <<>> THEN None ELSE s[Len(s)]
NextChunk(s, c) ==
  LET i == CHOOSE j \in 1..Len(s) : s[j] = c
  IN  IF i = Len(s) THEN None ELSE s[i + 1]

\* The while loop over representatives: the heap a union-find node stands for.
Root(h) == IF linked THEN Parent ELSE h

EntriesOf(c) == {slot[c][i] : i \in 1..EntriesPerChunk} \ {None}

\* HM_foreachPrivate stops in each chunk at the first empty slot.
FilledPrefix(c) ==
  {slot[c][i] : i \in {j \in 1..frontier[c] : \A k \in 1..j : slot[c][k] # None}}
\* Mutant: only the first chunk of a list is gone through.
BugForeachPrivate(chunks) == IF chunks = <<>> THEN {} ELSE FilledPrefix(chunks[1])

ForeachPrivate(chunks) == UNION {FilledPrefix(c) : c \in Members(chunks)}

IdleStorer == [pc |-> "idle", entry |-> None, heap |-> Child, chunk |-> None,
               at |-> 0, fresh |-> None]
IdleOwner == [pc |-> "idle", heap |-> Parent, taken |-> <<>>, cur |-> None,
              pos |-> 0, front |-> 0, fishy |-> <<>>, i |-> 0, changed |-> FALSE, tracked |-> FALSE]

RemSetInit ==
  /\ pub = [h \in Heaps |-> <<>>]
  /\ priv = [h \in Heaps |-> <<>>]
  /\ linked = FALSE
  /\ frontier = [c \in Chunks |-> 0]
  /\ slot = [c \in Chunks |-> [i \in 1..EntriesPerChunk |-> None]]
  /\ retire = [c \in Chunks |-> FALSE]
  /\ free = Chunks
  /\ st = [s \in Storers |-> IdleStorer]
  /\ ow = IdleOwner
  /\ passes = 0
  /\ returned = {} /\ visited = {} /\ due = {} /\ quiet = TRUE

-----------------------------------------------------------------------------
(* A processor remembers an entangled object: HM_HH_rememberAtLevel with   *)
(* conc set, CC_storeInConcListWithPurpose and allocateChunkInConcList.    *)

\* A program that crashed takes no step.
Running == ow.pc # "crashed"
StorerAt(s, label) == Running /\ st[s].pc = label
StorerGoto(s, label) == st' = [st EXCEPT ![s].pc = label]

\* The level head of the object's chunk is looked up, then its root.
Remember(s, e, h) ==
  /\ StorerAt(s, "idle")
  /\ e \notin returned
  /\ \A t \in Storers : st[t].entry # e
  /\ st' = [st EXCEPT ![s] = [IdleStorer EXCEPT !.pc = "load", !.entry = e,
                                                !.heap = Root(h)]]
  /\ UNCHANGED <<lists, memory, ow, passes, history>>

LoadLast(s) ==
  /\ StorerAt(s, "load")
  /\ LET c == LastChunk(pub[st[s].heap])
     IN  st' = [st EXCEPT ![s].chunk = c,
                          ![s].pc = IF c = None THEN "allocate" ELSE "frontier"]
  /\ UNCHANGED <<lists, memory, ow, passes, history>>

\* Mutant: the check for a full chunk is off by one.
BugLoadFrontier(s) ==
  /\ StorerAt(s, "frontier")
  /\ st' = [st EXCEPT ![s].at = frontier[st[s].chunk],
              ![s].pc = IF frontier[st[s].chunk] > EntriesPerChunk THEN "allocate" ELSE "claim"]
  /\ UNCHANGED <<lists, memory, ow, passes, history>>

LoadFrontier(s) ==
  /\ StorerAt(s, "frontier")
  /\ LET f == frontier[st[s].chunk]
     IN  st' = [st EXCEPT ![s].at = f,
                          ![s].pc = IF f = EntriesPerChunk THEN "allocate" ELSE "claim"]
  /\ UNCHANGED <<lists, memory, ow, passes, history>>

\* The compare-and-swap of the frontier.
Claim(s) ==
  LET c == st[s].chunk
      won == frontier[c] = st[s].at
  IN  /\ StorerAt(s, "claim")
      /\ frontier' = [frontier EXCEPT ![c] = IF won THEN @ + 1 ELSE @]
      /\ StorerGoto(s, IF won THEN "copy" ELSE "load")
      /\ UNCHANGED <<lists, slot, retire, free, ow, passes, history>>

Copy(s) ==
  /\ StorerAt(s, "copy")
  /\ slot' = [slot EXCEPT ![st[s].chunk][st[s].at + 1] = st[s].entry]
  /\ StorerGoto(s, "recheck")
  /\ UNCHANGED <<lists, frontier, retire, free, ow, passes, history>>

\* Mutant: the representative is not looked at again.
BugRecheck(s) ==
  /\ StorerAt(s, "recheck")
  /\ st' = [st EXCEPT ![s] = IdleStorer]
  /\ returned' = returned \cup {st[s].entry}
  /\ UNCHANGED <<lists, memory, ow, passes, visited, due, quiet>>

\* If the heap was merged meanwhile, the entry is stored once more.
Recheck(s) ==
  /\ StorerAt(s, "recheck")
  /\ IF Root(st[s].heap) = st[s].heap
       THEN /\ st' = [st EXCEPT ![s] = IdleStorer]
            /\ returned' = returned \cup {st[s].entry}
       ELSE /\ st' = [st EXCEPT ![s].heap = Root(@), ![s].pc = "load"]
            /\ UNCHANGED returned
  /\ UNCHANGED <<lists, memory, ow, passes, visited, due, quiet>>

\* The first look at lastChunk, and a fresh, zeroed chunk.
Allocate(s) ==
  /\ StorerAt(s, "allocate")
  /\ IF LastChunk(pub[st[s].heap]) # st[s].chunk
       THEN /\ StorerGoto(s, "load")
            /\ UNCHANGED memory
       ELSE \E c \in free :
              /\ \A d \in free : c <= d
              /\ free' = free \ {c}
              /\ frontier' = [frontier EXCEPT ![c] = 0]
              /\ slot' = [slot EXCEPT ![c] = [i \in 1..EntriesPerChunk |-> None]]
              /\ retire' = [retire EXCEPT ![c] = FALSE]
              /\ st' = [st EXCEPT ![s].fresh = c, ![s].pc = "publish"]
  /\ UNCHANGED <<lists, ow, passes, history>>

\* The look under the mutex; the chunk goes back if somebody was faster.
Publish(s) ==
  LET h == st[s].heap
  IN  /\ StorerAt(s, "publish")
      /\ IF LastChunk(pub[h]) = st[s].chunk
           THEN /\ pub' = [pub EXCEPT ![h] = Append(@, st[s].fresh)]
                /\ UNCHANGED free
           ELSE /\ free' = free \cup {st[s].fresh}
                /\ UNCHANGED pub
      /\ st' = [st EXCEPT ![s].fresh = None, ![s].pc = "load"]
      /\ UNCHANGED <<priv, linked, frontier, slot, retire, ow, passes, history>>

StorerStep(s) ==
  \/ \E e \in Entries, h \in Heaps : Remember(s, e, h)
  \/ LoadLast(s)
  \/ LoadFrontier(s)
  \/ Claim(s)
  \/ Copy(s)
  \/ Recheck(s)
  \/ Allocate(s)
  \/ Publish(s)

-----------------------------------------------------------------------------
(* The owner goes through a heap's entries: HM_foreachRemembered.          *)

BeginPass(h) ==
  /\ ow.pc = "idle" /\ passes < MaxPasses
  /\ Root(h) = h
  /\ passes' = passes + 1
  /\ due' = {e \in returned : \E c \in Members(pub[h] \o priv[h]) : e \in EntriesOf(c)}
  /\ quiet' = \A s \in Storers : st[s].pc \in {"idle", "load"}
  /\ visited' = ForeachPrivate(priv[h])
  /\ UNCHANGED <<lists, memory, st, returned>>

\* Local collection: the public list is scanned in place and popped at the end.
BeginTracked(h) ==
  /\ BeginPass(h)
  /\ ow' = [IdleOwner EXCEPT !.heap = h, !.tracked = TRUE, !.cur = FirstChunk(pub[h]),
              !.pc = IF pub[h] = <<>> THEN "end" ELSE "enter"]

\* Concurrent collection: the public list is popped, then scanned.
BeginPlain(h) ==
  /\ BeginPass(h)
  /\ ow' = [IdleOwner EXCEPT !.heap = h, !.pc = IF pub[h] = <<>> THEN "end" ELSE "pop"]

PopPlain ==
  /\ ow.pc = "pop"
  /\ ow' = [ow EXCEPT !.taken = pub[ow.heap], !.pc = "plain"]
  /\ pub' = [pub EXCEPT ![ow.heap] = <<>>]
  /\ UNCHANGED <<priv, linked, memory, st, passes, history>>

ScanPlain ==
  /\ ow.pc = "plain"
  /\ visited' = visited \cup ForeachPrivate(ow.taken)
  /\ priv' = [priv EXCEPT ![ow.heap] = @ \o ow.taken]
  /\ ow' = [ow EXCEPT !.taken = <<>>, !.pc = "end"]
  /\ UNCHANGED <<pub, linked, memory, st, passes, returned, due, quiet>>

\* Mutant: the scan of a chunk starts behind its first entry.
BugEnterChunk ==
  /\ ow.pc = "enter"
  /\ ow' = [ow EXCEPT !.pos = 1, !.front = frontier[ow.cur], !.pc = "scan"]
  /\ UNCHANGED <<lists, memory, st, passes, history>>

EnterChunk ==
  /\ ow.pc = "enter"
  /\ ow' = [ow EXCEPT !.pos = 0, !.front = frontier[ow.cur], !.pc = "scan"]
  /\ UNCHANGED <<lists, memory, st, passes, history>>

\* There is a filled slot before the frontier the owner has read.
CanVisit(c) == ow.pos < ow.front /\ slot[c][ow.pos + 1] # None

Visit(c) ==
  /\ CanVisit(c)
  /\ visited' = visited \cup {slot[c][ow.pos + 1]}
  /\ ow' = [ow EXCEPT !.pos = @ + 1]
  /\ UNCHANGED <<lists, memory, st, passes, returned, due, quiet>>

ScanChunk == ow.pc = "scan" /\ Visit(ow.cur)

\* A retired chunk and the last one can still receive entries: makeChunkFishy.
IsFishy(c) == retire[c] \/ NextChunk(pub[ow.heap], c) = None

LeaveChunk ==
  /\ ow.pc = "scan" /\ ~CanVisit(ow.cur)
  /\ ow' = [ow EXCEPT !.pc = "next",
              !.fishy = IF IsFishy(ow.cur)
                          THEN Append(@, [chunk |-> ow.cur, scanned |-> ow.pos])
                          ELSE @]
  /\ UNCHANGED <<lists, memory, st, passes, history>>

FollowNext ==
  /\ ow.pc = "next"
  /\ LET c == NextChunk(pub[ow.heap], ow.cur)
     IN  ow' = [ow EXCEPT !.cur = c,
                  !.pc = IF c = None THEN "sweep" ELSE "enter",
                  !.i = Len(ow.fishy), !.changed = FALSE]
  /\ UNCHANGED <<lists, memory, st, passes, history>>

\* checkFishyChunks, from the last one to the first, until nothing changes.
SweepFishy ==
  /\ ow.pc = "sweep"
  /\ ow' = IF ow.i > 0
             THEN [ow EXCEPT !.pos = ow.fishy[ow.i].scanned, !.pc = "fish",
                             !.front = frontier[ow.fishy[ow.i].chunk]]
             ELSE IF ow.changed
               THEN [ow EXCEPT !.i = Len(ow.fishy), !.changed = FALSE]
               ELSE [ow EXCEPT !.pc = "last"]
  /\ UNCHANGED <<lists, memory, st, passes, history>>

ScanFishy == ow.pc = "fish" /\ Visit(ow.fishy[ow.i].chunk)

\* Mutant: every visit of a fishy chunk counts as a change.
BugLeaveFishy ==
  LET c == ow.fishy[ow.i].chunk
  IN  /\ ow.pc = "fish" /\ ~CanVisit(c)
      /\ ow' = IF ow.pos = frontier[c]
                 THEN [ow EXCEPT !.changed = TRUE, !.fishy[ow.i].scanned = ow.pos,
                                 !.i = @ - 1, !.pc = "sweep"]
                 ELSE [ow EXCEPT !.front = frontier[c]]
      /\ UNCHANGED <<lists, memory, st, passes, history>>

\* Leaves the chunk at its frontier, and waits there for a slot to be filled.
LeaveFishy ==
  LET c == ow.fishy[ow.i].chunk
      atEnd == ow.pos = frontier[c]
  IN  /\ ow.pc = "fish" /\ ~CanVisit(c)
      /\ ow' = IF atEnd
                 THEN [ow EXCEPT !.changed = @ \/ ow.pos # ow.fishy[ow.i].scanned,
                                 !.fishy[ow.i].scanned = ow.pos,
                                 !.i = @ - 1, !.pc = "sweep"]
                 ELSE [ow EXCEPT !.front = frontier[c]]
      /\ UNCHANGED <<lists, memory, st, passes, history>>

\* A chunk appended meanwhile is looked for behind the chunk pointer, which
\* the loop above has run down to NULL: the program ends there.
CheckLast ==
  /\ ow.pc = "last"
  /\ ow' = [ow EXCEPT !.pc =
              IF LastChunk(pub[ow.heap]) = ow.fishy[Len(ow.fishy)].chunk
                THEN "popTracked" ELSE "crashed"]
  /\ UNCHANGED <<lists, memory, st, passes, history>>

PopTracked ==
  /\ ow.pc = "popTracked"
  /\ priv' = [priv EXCEPT ![ow.heap] = @ \o pub[ow.heap]]
  /\ pub' = [pub EXCEPT ![ow.heap] = <<>>]
  /\ ow' = [IdleOwner EXCEPT !.pc = "end", !.tracked = TRUE]
  /\ UNCHANGED <<linked, memory, st, passes, history>>

EndPass ==
  /\ ow.pc = "end"
  /\ ow' = IdleOwner
  /\ due' = {} /\ visited' = {} /\ quiet' = TRUE
  /\ UNCHANGED <<lists, memory, st, passes, returned>>

-----------------------------------------------------------------------------
(* A join: linkInto, then HM_appendRemSet of the child's set.              *)

LinkInto ==
  /\ ow.pc = "idle" /\ passes < MaxPasses /\ ~linked
  /\ passes' = passes + 1
  /\ linked' = TRUE
  /\ ow' = [ow EXCEPT !.pc = "take"]
  /\ UNCHANGED <<pub, priv, memory, st, history>>

\* Mutant: the child's list is not emptied when it is taken.
BugTakeChild ==
  /\ ow.pc = "take"
  /\ priv' = [priv EXCEPT ![Parent] = @ \o priv[Child], ![Child] = <<>>]
  /\ ow' = [ow EXCEPT !.taken = pub[Child],
                      !.pc = IF pub[Child] = <<>> THEN "idle" ELSE "give"]
  /\ UNCHANGED <<pub, linked, memory, st, passes, history>>

\* HM_appendChunkList of the private halves, and the first section of
\* CC_appendConcList.
TakeChild ==
  /\ ow.pc = "take"
  /\ priv' = [priv EXCEPT ![Parent] = @ \o priv[Child], ![Child] = <<>>]
  /\ pub' = [pub EXCEPT ![Child] = <<>>]
  /\ ow' = [ow EXCEPT !.taken = pub[Child],
                      !.pc = IF pub[Child] = <<>> THEN "idle" ELSE "give"]
  /\ UNCHANGED <<linked, memory, st, passes, history>>

\* Mutant: the taken chunks replace the parent's list.
BugGiveParent ==
  /\ ow.pc = "give"
  /\ pub' = [pub EXCEPT ![Parent] = ow.taken]
  /\ ow' = IdleOwner
  /\ UNCHANGED <<priv, linked, memory, st, passes, history>>

GiveParent ==
  /\ ow.pc = "give"
  /\ retire' = [c \in Chunks |-> retire[c] \/ c = LastChunk(pub[Parent])]
  /\ pub' = [pub EXCEPT ![Parent] = @ \o ow.taken]
  /\ ow' = IdleOwner
  /\ UNCHANGED <<priv, linked, frontier, slot, free, st, passes, history>>

OwnerStep ==
  \/ \E h \in Heaps : BeginTracked(h)
  \/ \E h \in Heaps : BeginPlain(h)
  \/ PopPlain
  \/ ScanPlain
  \/ EnterChunk
  \/ ScanChunk
  \/ LeaveChunk
  \/ FollowNext
  \/ SweepFishy
  \/ ScanFishy
  \/ LeaveFishy
  \/ CheckLast
  \/ PopTracked
  \/ EndPass
  \/ LinkInto
  \/ TakeChild
  \/ GiveParent

\* Nothing has to happen once every call has returned.
Done == UNCHANGED remSetVars /\ (~Running \/ \A s \in Storers : st[s].pc = "idle")

RemSetNext == OwnerStep \/ (\E s \in Storers : StorerStep(s)) \/ Done

RemSetSpec == RemSetInit /\ [][RemSetNext]_remSetVars

\* Each processor keeps running; nobody is made to store another entry.
Finish(s) == LoadLast(s) \/ LoadFrontier(s) \/ Claim(s) \/ Copy(s) \/ Recheck(s)
             \/ Allocate(s) \/ Publish(s)
RemSetFairness == WF_remSetVars(OwnerStep) /\ \A s \in Storers : WF_remSetVars(Finish(s))

-----------------------------------------------------------------------------

StorerPC == {"idle", "load", "frontier", "claim", "copy", "recheck", "allocate",
             "publish"}
OwnerPC == {"idle", "pop", "plain", "enter", "scan", "next", "sweep", "fish",
            "last", "popTracked", "crashed", "end", "take", "give"}

\* The state has the shape the code's types give it.
RemSetTypeOK ==
  /\ \A h \in Heaps : Members(pub[h]) \cup Members(priv[h]) \subseteq Chunks \ free
  /\ linked \in BOOLEAN
  /\ frontier \in [Chunks -> 0..EntriesPerChunk]
  /\ slot \in [Chunks -> [1..EntriesPerChunk -> Entries \cup {None}]]
  /\ retire \in [Chunks -> BOOLEAN]
  /\ free \subseteq Chunks
  /\ \A s \in Storers : st[s].pc \in StorerPC /\ st[s].chunk \in Chunks \cup {None}
  /\ ow.pc \in OwnerPC /\ ow.cur \in Chunks \cup {None}
  /\ passes \in 0..MaxPasses
  /\ returned \subseteq Entries /\ visited \subseteq Entries /\ due \subseteq Entries

\* The chunks an owner's step holds between the two sections of a move.
InHand == Members(ow.taken)
Kept(h) == Members(pub[h]) \cup Members(priv[h])

\* A call of HM_HH_rememberAtLevel that returned has left its entry in the
\* set of the heap that stands for the object now: a join that moves the
\* lists while the entry is being stored does not strand it in the child.
StoredIsKept ==
  LET home == Kept(Parent) \cup InHand
              \cup (IF linked /\ ow.pc # "take" THEN {} ELSE Kept(Child))
  IN  \A e \in returned : \E c \in home : e \in EntriesOf(c)

\* A chunk is in one place: no two lists share it, no list has it twice and
\* the allocator does not hand it out again (allocateChunkInConcList frees
\* only the chunk it failed to publish).
ChunksInOnePlace ==
  LET all == pub[Parent] \o pub[Child] \o priv[Parent] \o priv[Child] \o ow.taken
      fresh == {st[s].fresh : s \in Storers} \ {None}
  IN  /\ Cardinality(Members(all)) = Len(all)
      /\ Members(all) \cap (free \cup fresh) = {}

\* A pass that starts while nobody is between claiming a slot and filling it
\* hands every entry remembered so far to the closure, whoever stores or
\* appends chunks in the meantime.
QuietPassVisitsAll == ow.pc = "end" /\ quiet => due \subseteq visited

\* A chunk was appended after the owner had left the last one.
Overtaken ==
  /\ ow.pc \in {"sweep", "fish", "last"}
  /\ LastChunk(pub[ow.heap]) # ow.fishy[Len(ow.fishy)].chunk

\* What the owner starts it ends, as long as no chunk overtakes it: a tracked
\* pass waits only for slots that their storers fill.  A program that has
\* crashed in the middle of a pass has not ended it.
PassEnds == []~Overtaken => [](ow.pc # "idle" => <>(ow.pc = "idle"))

\* The assertion of remembered-set.c line 149: when lastChunk is not the chunk
\* that was gone through last, the one behind the chunk pointer comes next.
AppendedChunkIsNext ==
  ow.pc = "last" /\ Overtaken => ow.cur # None /\ NextChunk(pub[ow.heap], ow.cur) # None

\* What the local collection says of its pass (hierarchical-heap-collection.c
\* line 411): for each remembered entry, it is unpinned and discarded, or
\* copied to the remembered set of the to-space.  An entry behind a slot that
\* is claimed and still empty, in a chunk that is full, is skipped.
EachRememberedEntry == ow.pc = "end" /\ ow.tracked => due \subseteq visited

=============================================================================
