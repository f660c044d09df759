-------------------------------- MODULE EBR --------------------------------
(***************************************************************************)
(* Epoch-based reclamation (runtime/gc/ebr.c): a record that was unlinked  *)
(* from the shared structures is retired into a limbo bag of its processor *)
(* and freed when no processor can still be using it.  The runtime has two *)
(* instances: for union-find nodes of heaps (hierarchical-heap-ebr.c),     *)
(* where a processor is quiescent during a concurrent collection, and for  *)
(* chunks (entangled-ebr.c), where it never is.                            *)
(*                                                                         *)
(* A step is one access to shared memory.  The announcements are plain     *)
(* loads and stores: stores go through the processor's store buffer, as on *)
(* x86.  (ebr.h spells the record quiescent bit of an announcement "qbit".)*)
(***************************************************************************)
EXTENDS Integers, Sequences, SequencesExt, FiniteSets

CONSTANTS
  N,           \* the number of processors
  Objects,     \* the records
  Collectors,  \* the processors that run concurrent collections
  MaxEpoch,    \* bound: a processor about to advance the epoch further stops
  BufferSize   \* bound: stores a buffer holds

Procs == 0 .. N - 1

\* What is assumed of the constants; MCProcessors checks it.
EBRAssumption ==
  /\ N \in Nat \ {0}
  /\ Collectors \subseteq Procs
  /\ MaxEpoch \in Nat
  /\ BufferSize \in Nat \ {0}

VARIABLES
  epoch,      \* the global epoch
  announce,   \* each processor's announcement, as memory holds it
  buffer,     \* each processor's stores that memory does not hold yet
  limboIdx,   \* the bag each processor retires into
  limboBags,  \* each processor's three bags
  checkNext,  \* the processor whose announcement is looked at next
  local,      \* where each processor is and the epoch it loaded
  held,       \* the records each processor has a pointer to
  removed,    \* the records each processor unlinked and has not retired yet
  record      \* "linked", "unlinked" or "freed"

ebrVars == <<epoch, announce, buffer, limboIdx, limboBags, checkNext, local, held, removed, record>>

Announcement(e, q) == [epoch |-> e, qbit |-> q]

EBRInit ==
  /\ epoch = 0
  /\ announce = [p \in Procs |-> Announcement(0, FALSE)]
  /\ buffer = [p \in Procs |-> <<>>]
  /\ limboIdx = [p \in Procs |-> 0]
  /\ limboBags = [p \in Procs |-> [i \in 0 .. 2 |-> {}]]
  /\ checkNext = [p \in Procs |-> 0]
  /\ local = [p \in Procs |-> [pc |-> "operation", epoch |-> 0, collected |-> FALSE]]
  /\ held = [p \in Procs |-> {}]
  /\ removed = [p \in Procs |-> {}]
  /\ record = [o \in Objects |-> "linked"]

-------------------------------------------------------------------------------
(* Memory *)

(* A processor reads its own announcement through its buffer.              *)
OwnAnnouncement(p) == IF buffer[p] = <<>> THEN announce[p] ELSE Last(buffer[p])

Seen(p, other) == IF other = p THEN OwnAnnouncement(p) ELSE announce[other]

SetAnnouncement(p, a) ==
  /\ Len(buffer[p]) < BufferSize
  /\ buffer' = [buffer EXCEPT ![p] = Append(@, a)]

(* The oldest store of p reaches memory.                                   *)
Drain(p) ==
  /\ buffer[p] # <<>>
  /\ announce' = [announce EXCEPT ![p] = Head(buffer[p])]
  /\ buffer' = [buffer EXCEPT ![p] = Tail(@)]
  /\ UNCHANGED <<epoch, limboIdx, limboBags, checkNext, local, held, removed, record>>

-------------------------------------------------------------------------------
(* What the processors do with records between two calls *)

AtStep(p, pc) == local[p].pc = pc
GotoStep(p, pc) == local' = [local EXCEPT ![p].pc = pc]

(* A pointer to a record is read from a shared structure.                  *)
Use(p, o) ==
  /\ AtStep(p, "operation")
  /\ record[o] = "linked"
  /\ held' = [held EXCEPT ![p] = @ \union {o}]
  /\ UNCHANGED <<epoch, announce, buffer, limboIdx, limboBags, checkNext, local, removed, record>>

(* A collection makes a record unreachable for who does not have it yet.   *)
(* It takes locks, which drain the buffer, before it retires the record.   *)
Unlink(p, o) ==
  /\ AtStep(p, "operation") \/ AtStep(p, "collecting")
  /\ record[o] = "linked"
  /\ record' = [record EXCEPT ![o] = "unlinked"]
  /\ removed' = [removed EXCEPT ![p] = @ \union {o}]
  /\ UNCHANGED <<epoch, announce, buffer, limboIdx, limboBags, checkNext, local, held>>

EBR_retire(p, o) ==
  /\ AtStep(p, "operation")
  /\ o \in removed[p]
  /\ removed' = [removed EXCEPT ![p] = @ \ {o}]
  /\ limboBags' = [limboBags EXCEPT ![p][limboIdx[p]] = @ \union {o}]
  /\ UNCHANGED <<epoch, announce, buffer, limboIdx, checkNext, local, held, record>>

(* A concurrent collection starts; no record is used until it ends.        *)
EBR_enterQuiescentState(p) ==
  /\ AtStep(p, "operation")
  /\ p \in Collectors
  /\ SetAnnouncement(p, Announcement(OwnAnnouncement(p).epoch, TRUE))
  /\ held' = [held EXCEPT ![p] = {}]
  /\ GotoStep(p, "collecting")
  /\ UNCHANGED <<epoch, announce, limboIdx, limboBags, checkNext, removed, record>>

-------------------------------------------------------------------------------
(* EBR_leaveQuiescentState, called on every entry to the runtime and at    *)
(* the end of a concurrent collection                                      *)

(* Pointers to records are not kept from one call to the next.             *)
LoadEpoch(p) ==
  /\ AtStep(p, "operation") \/ AtStep(p, "collecting")
  /\ held' = [held EXCEPT ![p] = {}]
  /\ local' = [local EXCEPT ![p] =
       [pc |-> IF OwnAnnouncement(p).epoch # epoch THEN "rotate" ELSE "check",
        epoch |-> epoch, collected |-> AtStep(p, "collecting")]]
  /\ UNCHANGED <<epoch, announce, buffer, limboIdx, limboBags, checkNext, removed, record>>

(* The bag that is moved into is freed first.                              *)
NextBag(i) == (i + 1) % 3

Free(bag) ==
  record' = [o \in Objects |-> IF o \in bag THEN "freed" ELSE record[o]]

ClearBag(bags, p, i) == [bags EXCEPT ![p][i] = {}]

RotateAndReclaim(p) ==
  LET idx == NextBag(limboIdx[p]) IN
  /\ AtStep(p, "rotate")
  /\ checkNext' = [checkNext EXCEPT ![p] = 0]
  /\ limboIdx' = [limboIdx EXCEPT ![p] = idx]
  /\ Free(limboBags[p][idx])
  /\ limboBags' = ClearBag(limboBags, p, idx)
  /\ GotoStep(p, "check")
  /\ UNCHANGED <<epoch, announce, buffer, held, removed>>

(* One other processor is looked at per call.  When all of them were seen  *)
(* in this epoch, or quiescent, the epoch is advanced.                     *)
BugIgnoreQbit(a, e) == a.epoch = e
HasPassed(a, e) == a.epoch = e \/ a.qbit

BugOneMore(c) == c > N
AllChecked(c) == c >= N

CheckOther(p) ==
  /\ AtStep(p, "check")
  /\ IF HasPassed(Seen(p, checkNext[p] % N), local[p].epoch)
     THEN /\ checkNext' = [checkNext EXCEPT ![p] = @ + 1]
          /\ GotoStep(p, IF AllChecked(checkNext[p] + 1) THEN "advance" ELSE "announce")
     ELSE /\ GotoStep(p, "announce")
          /\ UNCHANGED checkNext
  /\ UNCHANGED <<epoch, announce, buffer, limboIdx, limboBags, held, removed, record>>

(* The compare-and-swap drains the store buffer.                           *)
Advance(p) ==
  /\ AtStep(p, "advance")
  /\ buffer[p] = <<>>
  /\ epoch < MaxEpoch
  /\ epoch' = IF epoch = local[p].epoch THEN epoch + 1 ELSE epoch
  /\ GotoStep(p, "announce")
  /\ UNCHANGED <<announce, buffer, limboIdx, limboBags, checkNext, held, removed, record>>

AnnouncedEpoch(p) == local[p].epoch

Announce(p) ==
  /\ AtStep(p, "announce")
  /\ SetAnnouncement(p, Announcement(AnnouncedEpoch(p), FALSE))
  /\ GotoStep(p, IF local[p].collected THEN "finish" ELSE "operation")
  /\ UNCHANGED <<epoch, announce, limboIdx, limboBags, checkNext, held, removed, record>>

(* The end of a collection: its sequentially consistent store to ccstate   *)
(* drains the buffer before the processor does anything else.              *)
BugNoFence(p) == TRUE
Drained(p) == buffer[p] = <<>>

FinishCollection(p) ==
  /\ AtStep(p, "finish")
  /\ Drained(p)
  /\ GotoStep(p, "operation")
  /\ UNCHANGED <<epoch, announce, buffer, limboIdx, limboBags, checkNext, held, removed, record>>

-------------------------------------------------------------------------------

LeaveQuiescent(p) ==
  \/ LoadEpoch(p) \/ RotateAndReclaim(p) \/ CheckOther(p)
  \/ Advance(p) \/ Announce(p) \/ FinishCollection(p)

(* Where the bound on the epoch may leave nothing to do.                   *)
AtBound == epoch = MaxEpoch /\ UNCHANGED ebrVars

EBRNext ==
  \/ AtBound
  \/ \E p \in Procs :
       \/ Drain(p)
       \/ LeaveQuiescent(p)
       \/ EBR_enterQuiescentState(p)
       \/ \E o \in Objects : Use(p, o) \/ Unlink(p, o) \/ EBR_retire(p, o)

(* Every processor that is not in a collection, which may last, keeps      *)
(* entering the runtime, and stores reach memory.                          *)
EBRFairness == \A p \in Procs :
  /\ WF_ebrVars(~AtStep(p, "collecting") /\ LeaveQuiescent(p))
  /\ WF_ebrVars(Drain(p))

EBRSpec == EBRInit /\ [][EBRNext]_ebrVars /\ EBRFairness

-------------------------------------------------------------------------------
(* Properties *)

Announcements == [epoch : 0 .. MaxEpoch, qbit : BOOLEAN]

EBRTypeOK ==
  /\ epoch \in 0 .. MaxEpoch
  /\ announce \in [Procs -> Announcements]
  /\ buffer \in [Procs -> Seq(Announcements)]
  /\ limboIdx \in [Procs -> 0 .. 2]
  /\ limboBags \in [Procs -> [0 .. 2 -> SUBSET Objects]]
  /\ checkNext \in [Procs -> 0 .. N]
  /\ local \in [Procs ->
       [pc : {"operation", "collecting", "rotate", "check", "advance", "announce", "finish"},
        epoch : 0 .. MaxEpoch, collected : BOOLEAN]]
  /\ held \in [Procs -> SUBSET Objects]
  /\ removed \in [Procs -> SUBSET Objects]
  /\ record \in [Objects -> {"linked", "unlinked", "freed"}]

(* What reclamation is for: no processor has a pointer to a record that    *)
(* was freed, whichever calls it slept through.                            *)
FreedIsNotHeld ==
  \A p \in Procs : \A o \in held[p] : record[o] # "freed"

(* A record is in at most one bag, and not freed while it is in one: it    *)
(* cannot be freed twice.                                                  *)
InOneBag ==
  \A o \in Objects :
    LET places == {x \in Procs \X (0 .. 2) : o \in limboBags[x[1]][x[2]]} IN
    /\ Cardinality(places) <= 1
    /\ places # {} => record[o] # "freed"

(* Both: memory of a record is not freed twice nor while it is used.        *)
FreedOnceAndUnused == FreedIsNotHeld /\ InOneBag

(* What a processor retires is freed within four epochs.                   *)
Reclaimed ==
  \A p \in Procs \ Collectors, o \in Objects :
    (\E i \in 0 .. 2 : o \in limboBags[p][i]) /\ epoch <= MaxEpoch - 4
      ~> record[o] = "freed"

===============================================================================
