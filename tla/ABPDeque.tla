------------------------------- MODULE ABPDeque -------------------------------
(***************************************************************************)
(* The concurrent deque of runtime/gc/abp-deque.c, one action per access   *)
(* to shared memory.  Three parties use it:                                *)
(*                                                                         *)
(*   - the owner's scheduler: push_bot, try_pop_bot and set_depth;         *)
(*   - the thieves: try_pop_top;                                           *)
(*   - the owner's local collector (HM_HHC_collectLocal), which hides the  *)
(*     deepest tasks from the thieves with tryClaimLocalScope, moves them, *)
(*     and puts them back with releaseLocalScope.                          *)
(*                                                                         *)
(* Memory is that of x86-64: a plain or release store waits in the store   *)
(* buffer of its processor until a fence, a SEQ_CST store or a CAS of that *)
(* processor drains it.  The owner's stores to bot are the only ones whose *)
(* delay can be seen, so sbuf holds at most one of them; thieves write     *)
(* only by CAS.  Loads by the owner of what only the owner writes (bot and *)
(* data) share a step with the next access.                                *)
(***************************************************************************)
EXTENDS Integers

CONSTANTS
  Task,             \* the tasks that may be pushed, each at most once
  Owner,            \* the worker that owns the deque
  Thieves,          \* the workers that try to steal from it
  Capacity,         \* DequeABP.capacity, 63 in the code
  TagMod,           \* a tag has 58 bits: 2^58 in the code
  SetDepthTagMod,   \* what set_depth stores keeps 26 bits of it: 2^26
  MaxResets,        \* bound on the number of times top is given a new tag
  MaxMoves,         \* bound on the number of moves of a task by collections
  NONE,             \* the fail_value of the pops
  Nil               \* "no value", in the model's own bookkeeping

ASSUME ConstantsAssumption ==
  /\ Capacity \in Nat \ {0}
  /\ TagMod \in Nat \ {0}
  /\ SetDepthTagMod \in Nat \ {0}
  /\ MaxResets \in Nat
  /\ MaxMoves \in Nat
  /\ Owner \notin Thieves
  /\ NONE \notin [task : Task, at : Nat]
  /\ Nil \notin Nat

Workers == {Owner} \union Thieves

(* A slot points to a task and the place where the task lies in the heap,  *)
(* which every move changes.                                               *)
Object == [task : Task, at : Nat]

Slot == Object \union {NONE}

(* top packs a tag and an index into one word.                             *)
TagIdx == [tag : Nat, idx : Nat]

VARIABLES
  top, bot, data,      \* the shared words and the array
  sbuf,                \* the owner's store buffer: a value of bot, or Nil
  own,                 \* the owner's control point and local variables
  claim,               \* the claim of the collection the owner is running
  thief,               \* each thief's control point and local variables
  pushed,              \* history: the tasks pushed
  delivered,           \* history: how often each task went to each worker
  resets,              \* history: how often top was given a new tag
  fault                \* the message the program died with, or "none"

history == <<pushed, delivered, resets, fault>>
vars == <<top, bot, data, sbuf, own, claim, thief, history>>

(* The owner sees its own pending store.                                   *)
OwnBot == IF sbuf = Nil THEN bot ELSE sbuf

(* A fence, a locked instruction or a SEQ_CST store waits for this.        *)
BugNoFence == TRUE
Drained == sbuf = Nil

IdleOwner == [at |-> "idle", bot |-> Nil, top |-> Nil, depth |-> Nil]
IdleThief == [at |-> "idle", top |-> Nil, elem |-> NONE]
NoClaim   == [from |-> Nil, down |-> Nil, okay |-> Nil, next |-> Nil]

Init ==
  /\ top = [tag |-> 0, idx |-> 0]
  /\ bot = 0
  /\ data = [i \in 0 .. Capacity - 1 |-> NONE]
  /\ sbuf = Nil
  /\ own = IdleOwner
  /\ claim = NoClaim
  /\ thief = [w \in Thieves |-> IdleThief]
  /\ pushed = {}
  /\ delivered = [t \in Task |-> [w \in Workers |-> 0]]
  /\ resets = 0
  /\ fault = "none"

(* DIE ends the program.                                                   *)
Running == fault = "none"

(* ABP_deque_check_successful_pop, after which the element goes to the     *)
(* caller.                                                                 *)
Deliver(w, elem) ==
  IF elem = NONE
  THEN fault' = "invalid pop" /\ UNCHANGED delivered
  ELSE delivered' = [delivered EXCEPT ![elem.task][w] = @ + 1] /\ UNCHANGED fault

-------------------------------------------------------------------------------
(* push_bot *)

(* The load of bot, the check against the capacity, the store to data.     *)
PushStoreData(t) ==
  /\ Running
  /\ own.at = "idle"
  /\ t \notin pushed
  /\ bot < Capacity
  /\ data' = [data EXCEPT ![bot] = [task |-> t, at |-> 0]]
  /\ own' = [own EXCEPT !.at = "push", !.bot = bot]
  /\ UNCHANGED <<top, bot, sbuf, claim, thief, history>>

PushStoreBot ==
  /\ Running
  /\ own.at = "push"
  /\ bot' = own.bot + 1
  /\ pushed' = pushed \union {data[own.bot].task}
  /\ own' = IdleOwner
  /\ UNCHANGED <<top, data, sbuf, claim, thief, delivered, resets, fault>>

(* At the capacity push_bot answers FALSE and pushBot, its only caller,    *)
(* exits.                                                                  *)
PushFull ==
  /\ Running
  /\ own.at = "idle"
  /\ bot = Capacity
  /\ fault' = "exceeded max fork depth"
  /\ UNCHANGED <<top, bot, data, sbuf, own, claim, thief, pushed, delivered,
                 resets>>

-------------------------------------------------------------------------------
(* try_pop_bot, called by popBot when the owner is idle and by             *)
(* tryClaimLocalScope while a collection claims levels.                    *)

Claiming == claim # NoClaim

(* try_pop_bot returns fail_value: popBot answers NONE, the collector      *)
(* stops claiming.                                                         *)
PopBotFails ==
  own' = IF Claiming THEN [IdleOwner EXCEPT !.at = "claimed"] ELSE IdleOwner

(* try_pop_bot returns the element: popBot answers it, the collector has   *)
(* one more level and leaves the element in its slot.                      *)
PopBotSucceeds(elem) ==
  IF Claiming
  THEN /\ own' = [IdleOwner EXCEPT !.at = "claim"]
       /\ claim' = [claim EXCEPT !.down = @ - 1]
       /\ fault' = IF elem = NONE THEN "invalid pop" ELSE fault
       /\ UNCHANGED delivered
  ELSE /\ own' = IdleOwner
       /\ Deliver(Owner, elem)
       /\ UNCHANGED claim

(* The load of bot finds no level to pop from.                             *)
BugNoZeroTest == FALSE
AtLevelZero == bot = 0

(* A failing pop gives bot the index of top back.                          *)
RestoreBot(b) == sbuf' = b

(* bot is loaded and, unless it is 0, stored one lower.                    *)
PopBotDecrement ==
  /\ Running
  /\ \/ own.at = "idle"
     \/ own.at = "claim" /\ claim.down > claim.okay
  /\ IF AtLevelZero
     THEN PopBotFails /\ UNCHANGED sbuf
     ELSE /\ own' = [IdleOwner EXCEPT !.at = "loadTop", !.bot = bot - 1]
          /\ sbuf' = bot - 1
  /\ UNCHANGED <<top, bot, data, claim, thief, history>>

(* After the fence top is loaded: if it is below the new bot, the task at  *)
(* bot is the owner's; level with it, a CAS decides; above it, the deque   *)
(* was empty and bot must go back to where top is.                         *)
PopBotLoadTop ==
  /\ Running
  /\ own.at = "loadTop"
  /\ Drained
  /\ \/ /\ own.bot > top.idx
        /\ PopBotSucceeds(data[own.bot])
        /\ UNCHANGED sbuf
     \/ /\ own.bot = top.idx
        /\ own' = [own EXCEPT !.at = "cas", !.top = top]
        /\ UNCHANGED <<sbuf, claim, delivered, fault>>
     \/ /\ own.bot < top.idx
        /\ own' = [own EXCEPT !.at = "resetTop", !.top = top]
        /\ RestoreBot(top.idx)
        /\ UNCHANGED <<claim, delivered, fault>>
  /\ UNCHANGED <<top, bot, data, thief, pushed, resets>>

(* Every store to top by the owner gives it a new tag.                     *)
BugKeepTag(tag, idx) ==
  /\ resets < MaxResets
  /\ top' = [top EXCEPT !.idx = idx]
  /\ resets' = resets + 1

StoreTop(tag, idx) ==
  /\ resets < MaxResets
  /\ top' = [tag |-> tag, idx |-> idx]
  /\ resets' = resets + 1

(* The race for the last task, won.                                        *)
PopBotCasWon ==
  /\ Running
  /\ own.at = "cas"
  /\ top = own.top
  /\ StoreTop((own.top.tag + 1) % TagMod, own.top.idx)
  /\ PopBotSucceeds(data[own.bot])
  /\ UNCHANGED <<bot, data, sbuf, thief, pushed>>

(* The race lost: one thief took the task, and nothing else may have       *)
(* happened to top.                                                        *)
PopBotCasLost ==
  /\ Running
  /\ own.at = "cas"
  /\ top # own.top
  /\ IF top = [tag |-> own.top.tag, idx |-> own.bot + 1]
     THEN /\ RestoreBot(own.bot + 1)
          /\ own' = [own EXCEPT !.at = "resetTop", !.top.idx = own.bot + 1]
          /\ UNCHANGED fault
     ELSE /\ fault' = "corrupted top"
          /\ UNCHANGED <<sbuf, own>>
  /\ UNCHANGED <<top, bot, data, claim, thief, pushed, delivered, resets>>

(* Both failing paths end alike: top keeps the index that bot was given    *)
(* and gets a new tag.                                                     *)
PopBotResetTop ==
  /\ Running
  /\ own.at = "resetTop"
  /\ Drained
  /\ StoreTop((own.top.tag + 1) % TagMod, own.top.idx)
  /\ PopBotFails
  /\ UNCHANGED <<bot, data, sbuf, claim, thief, pushed, delivered, fault>>

(* The memory system writes the owner's pending store.                     *)
Drain ==
  /\ Running
  /\ sbuf # Nil
  /\ bot' = sbuf
  /\ sbuf' = Nil
  /\ UNCHANGED <<top, data, own, claim, thief, history>>

-------------------------------------------------------------------------------
(* try_pop_top, called by worker w *)

PopTopLoadTop(w) ==
  /\ Running
  /\ thief[w].at = "idle"
  /\ thief' = [thief EXCEPT ![w].at = "loadBot", ![w].top = top]
  /\ UNCHANGED <<top, bot, data, sbuf, own, claim, history>>

(* Nothing to steal: bot is not above the top that w read.                 *)
BugMissesLast(w) == bot < thief[w].top.idx
LooksEmpty(w) == bot <= thief[w].top.idx

PopTopLoadBot(w) ==
  /\ Running
  /\ thief[w].at = "loadBot"
  /\ thief' = [thief EXCEPT ![w] =
       IF LooksEmpty(w) THEN IdleThief
       ELSE [thief[w] EXCEPT !.at = "loadData"]]
  /\ UNCHANGED <<top, bot, data, sbuf, own, claim, history>>

PopTopLoadData(w) ==
  /\ Running
  /\ thief[w].at = "loadData"
  /\ thief' = [thief EXCEPT ![w].at = "cas", ![w].elem = data[thief[w].top.idx]]
  /\ UNCHANGED <<top, bot, data, sbuf, own, claim, history>>

(* What a winning thief leaves in top: the next index, the same tag.       *)
BugThiefNewTag == [tag |-> (top.tag + 1) % TagMod, idx |-> top.idx + 1]
Stolen == [top EXCEPT !.idx = @ + 1]

PopTopCas(w) ==
  /\ Running
  /\ thief[w].at = "cas"
  /\ IF top = thief[w].top
     THEN /\ top' = Stolen
          /\ Deliver(w, thief[w].elem)
     ELSE UNCHANGED <<top, delivered, fault>>
  /\ thief' = [thief EXCEPT ![w] = IdleThief]
  /\ UNCHANGED <<bot, data, sbuf, own, claim, pushed, resets>>

-------------------------------------------------------------------------------
(* set_depth.  The scheduler calls it with nothing left in the deque: its  *)
(* tasks were popped, or stolen and joined.                                *)

(* Which word is stored first: for a thief that looks in between, bot must *)
(* not be above top.                                                       *)
FirstStore(d) == IF d < bot THEN "shrinkBot" ELSE "growTop"

(* Both words are loaded; unequal indices kill the program, and a depth    *)
(* that is already right needs no store.                                   *)
SetDepthLoad(d) ==
  /\ Running
  /\ own.at = "idle"
  /\ bot <= top.idx
  /\ d # bot
  /\ IF top.idx # bot
     THEN fault' = "set depth of non-empty deque" /\ UNCHANGED own
     ELSE /\ own' = [at |-> FirstStore(d), bot |-> bot, top |-> top, depth |-> d]
          /\ UNCHANGED fault
  /\ UNCHANGED <<top, bot, data, sbuf, claim, thief, pushed, delivered, resets>>

(* The new top; its tag went through 32-bit variables.                     *)
SetDepthStoreTop == StoreTop((own.top.tag + 1) % SetDepthTagMod, own.depth)

(* A smaller depth: bot first, then top.                                   *)
SetDepthShrinkBot ==
  /\ Running
  /\ own.at = "shrinkBot"
  /\ bot' = own.depth
  /\ own' = [own EXCEPT !.at = "shrinkTop"]
  /\ UNCHANGED <<top, data, sbuf, claim, thief, history>>

SetDepthShrinkTop ==
  /\ Running
  /\ own.at = "shrinkTop"
  /\ SetDepthStoreTop
  /\ own' = IdleOwner
  /\ UNCHANGED <<bot, data, sbuf, claim, thief, pushed, delivered, fault>>

(* A greater depth: top first, then bot.                                   *)
SetDepthGrowTop ==
  /\ Running
  /\ own.at = "growTop"
  /\ SetDepthStoreTop
  /\ own' = [own EXCEPT !.at = "growBot"]
  /\ UNCHANGED <<bot, data, sbuf, claim, thief, pushed, delivered, fault>>

SetDepthGrowBot ==
  /\ Running
  /\ own.at = "growBot"
  /\ bot' = own.depth
  /\ own' = IdleOwner
  /\ UNCHANGED <<top, data, sbuf, claim, thief, history>>

-------------------------------------------------------------------------------
(* HM_HHC_collectLocal, as far as it touches the deque.                    *)

(* The collector knows how shallow it may go (desiredScope, the thread's   *)
(* minimum and the levels under concurrent collection): to depth okay.     *)
CollectStart(okay) ==
  /\ Running
  /\ own.at = "idle"
  /\ claim' = [from |-> bot, down |-> bot, okay |-> okay, next |-> Nil]
  /\ own' = [IdleOwner EXCEPT !.at = "claim"]
  /\ UNCHANGED <<top, bot, data, sbuf, thief, history>>

(* The claiming loop ends at the depth it wanted or when a claim fails;    *)
(* nothing is collected at depth 0 or when that depth is out of reach.     *)
CollectClaimed ==
  /\ Running
  /\ \/ own.at = "claimed"
     \/ own.at = "claim" /\ claim.down <= claim.okay
  /\ claim' = [claim EXCEPT !.next =
       IF claim.down = 0 \/ claim.okay > claim.down THEN claim.from
       ELSE claim.down]
  /\ own' = [IdleOwner EXCEPT !.at = "forward"]
  /\ UNCHANGED <<top, bot, data, sbuf, thief, history>>

(* The deque's slots from the claimed depth to the old bot are roots: each *)
(* task is moved and its slot overwritten.                                 *)
CollectForward ==
  /\ Running
  /\ own.at = "forward"
  /\ claim.next < claim.from
  /\ data[claim.next].at < MaxMoves
  /\ data' = [data EXCEPT ![claim.next].at = @ + 1]
  /\ claim' = [claim EXCEPT !.next = @ + 1]
  /\ UNCHANGED <<top, bot, sbuf, own, thief, history>>

(* releaseLocalScope: the claimed tasks are visible again.                 *)
CollectRelease ==
  /\ Running
  /\ own.at = "forward"
  /\ claim.next >= claim.from
  /\ bot' = claim.from
  /\ claim' = NoClaim
  /\ own' = IdleOwner
  /\ UNCHANGED <<top, data, sbuf, thief, history>>

-------------------------------------------------------------------------------
PushBot == PushFull \/ PushStoreBot \/ \E t \in Task : PushStoreData(t)

TryPopBot ==
  \/ PopBotDecrement
  \/ PopBotLoadTop
  \/ PopBotCasWon
  \/ PopBotCasLost
  \/ PopBotResetTop
  \/ Drain

TryPopTop(w) ==
  \/ PopTopLoadTop(w)
  \/ PopTopLoadBot(w)
  \/ PopTopLoadData(w)
  \/ PopTopCas(w)

SetDepth ==
  \/ \E d \in 0 .. Capacity : SetDepthLoad(d)
  \/ SetDepthShrinkBot
  \/ SetDepthShrinkTop
  \/ SetDepthGrowTop
  \/ SetDepthGrowBot

CollectLocal ==
  \/ \E okay \in 0 .. Capacity : CollectStart(okay)
  \/ CollectClaimed
  \/ CollectForward
  \/ CollectRelease

Next ==
  \/ PushBot
  \/ TryPopBot
  \/ SetDepth
  \/ CollectLocal
  \/ \E w \in Thieves : TryPopTop(w)

Spec == Init /\ [][Next]_vars

-------------------------------------------------------------------------------
(* Properties *)

OwnerLocals ==
  [at    : {"idle", "push", "loadTop", "cas", "resetTop", "shrinkBot", "shrinkTop",
            "growTop", "growBot", "claim", "claimed", "forward"},
   bot   : 0 .. Capacity \union {Nil},
   top   : TagIdx \union {Nil},
   depth : 0 .. Capacity \union {Nil}]

ThiefLocals ==
  [at   : {"idle", "loadBot", "loadData", "cas"},
   top  : TagIdx \union {Nil},
   elem : Slot]

Claims ==
  [from : 0 .. Capacity, down : 0 .. Capacity, okay : 0 .. Capacity,
   next : 0 .. Capacity \union {Nil}]

TypeOK ==
  /\ top \in TagIdx
  /\ bot \in 0 .. Capacity
  /\ data \in [0 .. Capacity - 1 -> Slot]
  /\ sbuf \in 0 .. Capacity \union {Nil}
  /\ own \in OwnerLocals
  /\ Claiming => claim \in Claims
  /\ thief \in [Thieves -> ThiefLocals]
  /\ pushed \in SUBSET Task
  /\ delivered \in [Task -> [Workers -> Nat]]
  /\ resets \in Nat
  /\ fault \in {"none", "invalid pop", "corrupted top",
                "set depth of non-empty deque", "exceeded max fork depth"}

(* Where the deque ends as its clients see it: a task stays in it until    *)
(* the owner has won it, and the collector's claim takes nothing out.      *)
LogicalBot ==
  IF Claiming THEN claim.from
  ELSE IF own.at \in {"loadTop", "cas"} THEN own.bot + 1
  ELSE IF own.at \in {"idle", "push"} THEN bot
  ELSE top.idx

Live == top.idx .. LogicalBot - 1

SlotsOf(t) == {i \in Live : data[i].task = t}

NoOne == [w \in Workers |-> 0]
OnlyTo(w) == [v \in Workers |-> IF v = w THEN 1 ELSE 0]

(* The DIE checks of abp-deque.c (invalid pop, corrupted top, set_depth of *)
(* a non-empty deque) never fire, whatever the thieves and the collector   *)
(* do meanwhile.                                                           *)
NeverDies == fault \in {"none", "exceeded max fork depth"}

NotPushed(t) == t \notin pushed /\ delivered[t] = NoOne /\ SlotsOf(t) = {}
Waiting(t)   == t \in pushed /\ delivered[t] = NoOne /\ \E i \in Live : SlotsOf(t) = {i}
HandedOut(t) == /\ t \in pushed
                /\ \E w \in Workers : delivered[t] = OnlyTo(w)
                /\ SlotsOf(t) = {}

(* Every task pushed is either in exactly one slot of the deque and not    *)
(* yet handed out, or was handed out exactly once: no interleaving of      *)
(* try_pop_bot, try_pop_top, set_depth and a collection loses a task or    *)
(* gives it to two workers.                                                *)
ExactlyOnce == \A t \in Task : NotPushed(t) \/ Waiting(t) \/ HandedOut(t)

(* A thief whose CAS is going to succeed holds what the slot holds now,    *)
(* although it may have read the slot long before and a collection of the  *)
(* owner may have moved tasks, or the owner reused slots, in between.      *)
WinnerIsCurrent ==
  \A w \in Thieves : thief[w].at = "cas" /\ thief[w].top = top =>
    thief[w].elem = data[top.idx]

(* The assertions of the claiming loop of HM_HHC_collectLocal: the depth   *)
(* the collector has counted down to is where bot is, also after a claim   *)
(* that failed because a thief came first.                                 *)
ClaimAgreesWithBot ==
  own.at \in {"claim", "claimed", "forward"} => claim.down = OwnBot

(* The comment in set_depth: between its two stores the deque still        *)
(* appears to be empty to every thief.                                     *)
SetDepthLooksEmpty ==
  own.at \in {"shrinkBot", "shrinkTop", "growTop", "growBot"} => bot <= top.idx

(* The deque implements WorkDeque: tasks leave at the deep end for the     *)
(* owner and at the shallow end for the thieves.                           *)
Deque == INSTANCE WorkDeque WITH items <- [i \in Live |-> data[i].task]

ImplementsWorkDeque == Deque!Spec

===============================================================================
