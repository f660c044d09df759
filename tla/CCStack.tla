------------------------------ MODULE CCStack ------------------------------
(***************************************************************************)
(* The bag through which write barriers hand overwritten pointers to a     *)
(* concurrent collector (runtime/gc/concurrent-stack.c): one stack and one *)
(* mutex per processor.  The collector takes batches out, and when all     *)
(* stacks are empty it closes the bag, which ends its marking.             *)
(***************************************************************************)
EXTENDS Integers, Sequences, SequencesExt, FiniteSets

CONSTANTS
  NumStacks,   \* the number of processors, one stack for each
  Data,        \* the pointers that are pushed
  ChunkSize,   \* how many of them a chunk of a stack holds
  Nil          \* "none"

Mutators == 0 .. NumStacks - 1
Collector == NumStacks   \* the processor that collects, as the owner of a mutex

\* What is assumed of the constants; MCStructures checks it.
ASSUME StacksAssumption ==
  /\ NumStacks \in Nat \ {0}
  /\ ChunkSize \in Nat \ {0}
  /\ Nil \notin 0 .. NumStacks

VARIABLES
  allClosed,  \* the flag of the bag
  isClosed,   \* the flag of each stack
  storage,    \* each stack's chunks
  mutex,      \* the owner of each stack's mutex
  pusher,     \* each processor's CC_stack_push: where it is and its datum
  closer,     \* the collector's CC_stack_try_close: where it is and its index
  removed,    \* history: what the collector got
  pushed      \* history: what the pushes that ended before the close brought

bagVars == <<allClosed, isClosed, storage, mutex, pusher, closer, removed, pushed>>

Idle == [pc |-> "idle", datum |-> Nil]
Fresh == Data \ (pushed \union {pusher[p].datum : p \in Mutators})

BagInit ==
  /\ allClosed = FALSE
  /\ isClosed = [i \in Mutators |-> FALSE]
  /\ storage = [i \in Mutators |-> <<>>]
  /\ mutex = [i \in Mutators |-> Nil]
  /\ pusher = [p \in Mutators |-> Idle]
  /\ closer = [pc |-> "look", i |-> 0]
  /\ removed = {}
  /\ pushed = {}

Lock(i, who) == mutex[i] = Nil /\ mutex' = [mutex EXCEPT ![i] = who]
Unlock(i) == mutex' = [mutex EXCEPT ![i] = Nil]

-------------------------------------------------------------------------------
(* CC_stack_push, by processor p on its own stack                          *)

Return(p) ==
  /\ pusher' = [pusher EXCEPT ![p] = Idle]
  /\ pushed' = IF allClosed THEN pushed ELSE pushed \union {pusher[p].datum}

Call(p, d) ==
  /\ pusher[p].pc = "idle"
  /\ d \in Fresh
  /\ pusher' = [pusher EXCEPT ![p] = [pc |-> "push", datum |-> d]]
  /\ UNCHANGED <<allClosed, isClosed, storage, mutex, closer, removed, pushed>>

(* The quick look at allClosed, without the mutex.                         *)
PushLook(p) ==
  /\ pusher[p].pc = "push"
  /\ IF allClosed THEN Return(p)
     ELSE pusher' = [pusher EXCEPT ![p].pc = "lock"] /\ UNCHANGED pushed
  /\ UNCHANGED <<allClosed, isClosed, storage, mutex, closer, removed>>

PushLock(p) ==
  /\ pusher[p].pc = "lock"
  /\ Lock(p, p)
  /\ pusher' = [pusher EXCEPT ![p].pc = "store"]
  /\ UNCHANGED <<allClosed, isClosed, storage, closer, removed, pushed>>

(* The last chunk takes the datum, or a new one.                           *)
StoreIn(chunks, d) ==
  IF chunks = <<>> \/ Cardinality(Last(chunks)) = ChunkSize
  THEN Append(chunks, {d})
  ELSE Front(chunks) \o <<Last(chunks) \union {d}>>

Accepts(p) == ~isClosed[p]

PushStore(p) ==
  /\ pusher[p].pc = "store"
  /\ storage' = IF Accepts(p) THEN [storage EXCEPT ![p] = StoreIn(@, pusher[p].datum)]
                ELSE storage
  /\ Unlock(p)
  /\ Return(p)
  /\ UNCHANGED <<allClosed, isClosed, closer, removed>>

-------------------------------------------------------------------------------
(* CC_stack_try_close, by the collector, which calls it until it succeeds  *)

Closing(pc) == closer.pc = pc
Current == closer.i
Goto(pc, i) == closer' = [pc |-> pc, i |-> i]

(* The first look takes no mutex.                                          *)
Look ==
  /\ Closing("look")
  /\ IF storage[Current] # <<>> THEN Goto("batch", 0)
     ELSE IF Current + 1 < NumStacks THEN Goto("look", Current + 1)
     ELSE Goto("confirm", 0)
  /\ UNCHANGED <<allClosed, isClosed, storage, mutex, pusher, removed, pushed>>

(* All mutexes are taken one after the other, and each stack is looked at  *)
(* again and closed.  The loop is left at a stack that is not empty, with  *)
(* its mutex taken.                                                        *)
BugNotConfirmed(i) == TRUE
StillEmpty(i) == storage[i] = <<>>

Confirm ==
  /\ Closing("confirm")
  /\ Lock(Current, Collector)
  /\ IF ~StillEmpty(Current)
     THEN Goto("release", 0) /\ UNCHANGED isClosed
     ELSE /\ isClosed' = [isClosed EXCEPT ![Current] = TRUE]
          /\ IF Current + 1 < NumStacks THEN Goto("confirm", Current + 1)
             ELSE Goto("succeed", 0)
  /\ UNCHANGED <<allClosed, storage, pusher, removed, pushed>>

Succeed ==
  /\ Closing("succeed")
  /\ allClosed' = TRUE
  /\ Goto("unlock", 0)
  /\ UNCHANGED <<isClosed, storage, mutex, pusher, removed, pushed>>

UnlockAll ==
  /\ Closing("unlock")
  /\ Unlock(Current)
  /\ IF Current + 1 < NumStacks THEN Goto("unlock", Current + 1) ELSE Goto("closed", 0)
  /\ UNCHANGED <<allClosed, isClosed, storage, pusher, removed, pushed>>

(* After a failure the mutexes before the one that the loop stopped at are *)
(* released.                                                               *)
StoppedAt == CHOOSE i \in Mutators : ~isClosed[i] /\ \A j \in 0 .. i - 1 : isClosed[j]

Release ==
  /\ Closing("release")
  /\ IF Current < StoppedAt THEN Unlock(Current) /\ Goto("release", Current + 1)
     ELSE Goto("batch", 0) /\ UNCHANGED mutex
  /\ UNCHANGED <<allClosed, isClosed, storage, pusher, removed, pushed>>

NextStack ==
  IF Current + 1 < NumStacks THEN Goto("batch", Current + 1) ELSE Goto("look", 0)

(* A batch is the first chunk of every stack that is not empty; this look  *)
(* is without the mutex, too.                                              *)
Batch ==
  /\ Closing("batch")
  /\ \/ /\ storage[Current] = <<>>
        /\ NextStack
        /\ UNCHANGED mutex
     \/ /\ storage[Current] # <<>>
        /\ Lock(Current, Collector)
        /\ Goto("take", Current)
  /\ UNCHANGED <<allClosed, isClosed, storage, pusher, removed, pushed>>

Unlinked(chunks) == Tail(chunks)

Take ==
  /\ Closing("take")
  /\ removed' = removed \union Head(storage[Current])
  /\ storage' = [storage EXCEPT ![Current] = Unlinked(@)]
  /\ Unlock(Current)
  /\ NextStack
  /\ UNCHANGED <<allClosed, isClosed, pusher, pushed>>

TryClose ==
  Look \/ Confirm \/ Succeed \/ UnlockAll \/ Release \/ Batch \/ Take

BagNext ==
  \/ TryClose
  \/ \E p \in Mutators :
       \/ \E d \in Data : Call(p, d)
       \/ PushLook(p) \/ PushLock(p) \/ PushStore(p)

BagSpec == BagInit /\ [][BagNext]_bagVars

-------------------------------------------------------------------------------
(* Properties *)

BagTypeOK ==
  /\ allClosed \in BOOLEAN
  /\ isClosed \in [Mutators -> BOOLEAN]
  /\ storage \in [Mutators -> Seq(SUBSET Data)]
  /\ mutex \in [Mutators -> Mutators \union {Collector, Nil}]
  /\ pusher \in [Mutators ->
       [pc : {"idle", "push", "lock", "store"}, datum : Data \union {Nil}]]
  /\ closer \in
       [pc : {"look", "confirm", "succeed", "unlock", "release", "batch", "take", "closed"},
        i : Mutators]
  /\ removed \subseteq Data
  /\ pushed \subseteq Data

(* The collector finishes its marking only with every pointer whose push   *)
(* ended before the close, whatever the pushes race with.                  *)
NothingLost == allClosed => pushed \subseteq removed

(* concurrent-stack.c:224 of the place where a batch is taken: "we're      *)
(* currently holding no locks".  The code stops at the non-empty stack     *)
(* with its mutex taken, and takes it again a few lines later.             *)
NoLocksAtBatch ==
  Closing("batch") => \A i \in Mutators : mutex[i] # Collector

===============================================================================
