---------------------------- MODULE ABPDequeProofs ----------------------------
(***************************************************************************)
(* ABPDeque is correct for every number of tasks, thieves and levels, for  *)
(* every interleaving, as long as the tags do not wrap: the bound on the   *)
(* resets lies below both moduli.                                          *)
(***************************************************************************)
EXTENDS ABPDeque, TLAPS

TagsSuffice == MaxResets < TagMod /\ MaxResets < SetDepthTagMod

(* Where the deque ends for the thieves: below it the collector hides what *)
(* it has claimed, and a level the owner is popping still counts.          *)
Open ==
  IF own.at \in {"loadTop", "cas"} THEN own.bot + 1
  ELSE IF own.at \in {"resetTop", "shrinkBot", "shrinkTop", "growTop", "growBot"}
  THEN top.idx
  ELSE bot

(* What the owner's local variables say of the shared words at each of its *)
(* control points.                                                         *)
OwnerInv ==
  /\ sbuf # Nil => own.at \in {"loadTop", "resetTop"}
  /\ own.at = "push" =>
       /\ own.bot = bot
       /\ bot < Capacity
       /\ data[bot] \in Object
       /\ data[bot].task \notin pushed
  /\ own.at = "loadTop" =>
       /\ own.bot \in 0 .. Capacity - 1
       /\ \/ sbuf = own.bot /\ bot = own.bot + 1
          \/ sbuf = Nil /\ bot = own.bot
  /\ own.at = "cas" =>
       /\ own.bot \in 0 .. Capacity - 1
       /\ bot = own.bot
       /\ own.top \in TagIdx
       /\ own.top.idx = own.bot
       /\ top = own.top \/ top = [tag |-> own.top.tag, idx |-> own.bot + 1]
  /\ own.at = "resetTop" =>
       /\ own.top = top
       /\ \/ sbuf = top.idx /\ bot <= top.idx
          \/ sbuf = Nil /\ bot = top.idx
  /\ own.at \in {"shrinkBot", "growTop"} =>
       /\ own.top = top
       /\ own.bot = bot
       /\ top.idx = bot
       /\ own.depth \in 0 .. Capacity
       /\ own.at = "shrinkBot" => own.depth < bot
       /\ own.at = "growTop" => own.depth > bot
  /\ own.at = "shrinkTop" =>
       /\ own.top = top
       /\ own.depth \in 0 .. Capacity
       /\ bot = own.depth
       /\ bot <= top.idx
  /\ own.at = "growBot" =>
       /\ own.depth \in 0 .. Capacity
       /\ top.idx = own.depth
       /\ bot <= top.idx

(* The claim of a collection, and where it may be under way.               *)
ClaimInv ==
  /\ own.at \in {"claim", "claimed", "forward"} => Claiming
  /\ Claiming =>
       /\ own.at \in {"claim", "claimed", "forward", "loadTop", "cas", "resetTop"}
       /\ claim.down = Open
       /\ claim.down <= claim.from
       /\ own.at = "forward" =>
            claim.next \in 0 .. Capacity /\ claim.down <= claim.next

(* The live interval is well formed and holds objects.                     *)
LiveInv ==
  /\ top.idx <= Open
  /\ Open <= LogicalBot
  /\ LogicalBot <= Capacity
  /\ \A i \in Live : data[i] \in Object

(* What a thief remembers is not newer than top, and if top is still what  *)
(* it read, the slot it wants is open and unchanged.                       *)
ThiefInv ==
  \A w \in Thieves : thief[w].at # "idle" =>
    /\ thief[w].top \in TagIdx
    /\ thief[w].at \in {"loadData", "cas"} => thief[w].top.idx < Capacity
    /\ thief[w].top.tag <= top.tag
    /\ thief[w].top.tag = top.tag => thief[w].top.idx <= top.idx
    /\ thief[w].top = top /\ thief[w].at \in {"loadData", "cas"} => top.idx < Open
    /\ thief[w].top = top /\ thief[w].at = "cas" => thief[w].elem = data[top.idx]

TagInv == top.tag = resets /\ resets <= MaxResets

IInv ==
  /\ TypeOK
  /\ OwnerInv
  /\ ClaimInv
  /\ LiveInv
  /\ ThiefInv
  /\ TagInv
  /\ ExactlyOnce
  /\ NeverDies

-------------------------------------------------------------------------------
(* The types, unfolded as far as the steps need them.                      *)
LEMMA TypeFacts ==
  ASSUME TypeOK
  PROVE  /\ top.tag \in Nat /\ top.idx \in Nat
         /\ top = [tag |-> top.tag, idx |-> top.idx]
         /\ bot \in Nat /\ bot \in 0 .. Capacity
         /\ data \in [0 .. Capacity - 1 -> Slot]
         /\ own \in OwnerLocals
         /\ thief \in [Thieves -> ThiefLocals]
         /\ Capacity \in Nat /\ Nil \notin Nat
<1>1. top \in TagIdx
  BY DEF TypeOK
<1>2. bot \in 0 .. Capacity /\ Capacity \in Nat /\ Nil \notin Nat
  BY ConstantsAssumption DEF TypeOK
<1>3. top.tag \in Nat /\ top.idx \in Nat
  BY <1>1 DEF TagIdx
<1>4. top = [tag |-> top.tag, idx |-> top.idx]
  BY <1>1 DEF TagIdx
<1>5. bot \in Nat
  BY <1>2
<1>6. data \in [0 .. Capacity - 1 -> Slot] /\ own \in OwnerLocals /\ thief \in [Thieves -> ThiefLocals]
  BY DEF TypeOK
<1> QED
  BY <1>2, <1>3, <1>4, <1>5, <1>6

(* What a step must leave alone to keep a part of the invariant.           *)

(* Thieves are unaffected by a step that keeps top and that, if a slot was *)
(* open at top, keeps it open and keeps its content.                       *)
LEMMA ThiefFrame ==
  ASSUME ThiefInv, UNCHANGED <<top, thief>>,
         top.idx < Open => top.idx < Open' /\ data'[top.idx] = data[top.idx]
  PROVE  ThiefInv'
BY DEF ThiefInv

(* A new tag makes every thief's top out of date.                          *)
LEMMA ThiefNewTag ==
  ASSUME TypeOK, ThiefInv, UNCHANGED thief, top' \in TagIdx, top'.tag = top.tag + 1
  PROVE  ThiefInv'
<1>1. top.tag \in Nat
  BY DEF TypeOK, TagIdx
<1>2. ASSUME NEW w \in Thieves, thief[w].at # "idle"
      PROVE  thief[w].top \in TagIdx /\ thief[w].top.tag <= top.tag
  BY <1>2 DEF ThiefInv
<1>3. ASSUME NEW w \in Thieves, thief[w].at # "idle"
      PROVE  thief[w].top.tag < top'.tag
  BY <1>1, <1>2, <1>3 DEF TagIdx
<1>4. ASSUME NEW w \in Thieves, thief[w].at # "idle"
      PROVE  thief[w].top # top' /\ thief[w].top.tag # top'.tag
             /\ thief[w].top.tag <= top'.tag
  BY <1>2, <1>3, <1>4 DEF TagIdx
<1> QED
  BY <1>2, <1>4 DEF ThiefInv

(* Exactly-once delivery is unaffected by a step that keeps the live slots *)
(* and the tasks in them.                                                  *)
LEMMA ExactlyOnceFrame ==
  ASSUME ExactlyOnce, UNCHANGED <<pushed, delivered>>, Live' = Live,
         \A i \in Live : data'[i].task = data[i].task
  PROVE  ExactlyOnce'
<1>1. ASSUME NEW t \in Task PROVE SlotsOf(t)' = SlotsOf(t)
  BY DEF SlotsOf
<1> QED
  BY <1>1 DEF ExactlyOnce, NotPushed, Waiting, HandedOut, NoOne, OnlyTo

(* Handing the task of a live slot to w and giving up that slot keeps      *)
(* exactly-once delivery.                                                  *)
LEMMA ExactlyOnceTake ==
  ASSUME TypeOK, ExactlyOnce, NEW w \in Workers, NEW d \in Live,
         data[d] \in Object, Live' = Live \ {d}, UNCHANGED <<pushed, data>>,
         delivered' = [delivered EXCEPT ![data[d].task][w] = @ + 1]
  PROVE  ExactlyOnce'
<1> DEFINE u == data[d].task
<1>0. u \in Task
  BY DEF Object
<1>1. d \in SlotsOf(u)
  BY DEF SlotsOf
<1>2. /\ u \in pushed
      /\ delivered[u] = NoOne
      /\ SlotsOf(u) = {d}
  BY <1>0, <1>1 DEF ExactlyOnce, NotPushed, Waiting, HandedOut
<1>3. \A t \in Task : SlotsOf(t)' = SlotsOf(t) \ {d}
  BY DEF SlotsOf
<1>4. delivered'[u] = OnlyTo(w)
  <2>1. delivered'[u] = [delivered[u] EXCEPT ![w] = @ + 1]
    BY <1>0 DEF TypeOK
  <2>2. delivered'[u] = [v \in Workers |-> IF v = w THEN 1 ELSE 0]
    BY <2>1, <1>2 DEF NoOne
  <2> QED
    BY <2>2 DEF OnlyTo
<1>5. ASSUME NEW t \in Task, t # u
      PROVE  delivered'[t] = delivered[t] /\ SlotsOf(t)' = SlotsOf(t)
  <2>1. delivered'[t] = delivered[t]
    BY <1>0, <1>5 DEF TypeOK
  <2>2. d \notin SlotsOf(t)
    BY <1>5 DEF SlotsOf
  <2> QED
    BY <2>1, <2>2, <1>3
<1>6. SlotsOf(u)' = {}
  BY <1>0, <1>2, <1>3
<1>7. NoOne' = NoOne /\ \A v \in Workers : OnlyTo(v)' = OnlyTo(v)
  BY DEF NoOne, OnlyTo
<1>8. HandedOut(u)'
  BY <1>2, <1>4, <1>6, <1>7 DEF HandedOut
<1>9. ASSUME NEW t \in Task, t # u, Waiting(t) PROVE Waiting(t)'
  <2>1. PICK i \in Live : SlotsOf(t) = {i}
    BY <1>9 DEF Waiting
  <2>2. i # d
    BY <1>9, <2>1 DEF SlotsOf
  <2> QED
    BY <1>5, <1>7, <1>9, <2>1, <2>2 DEF Waiting
<1>10. ASSUME NEW t \in Task, t # u, ~Waiting(t) PROVE (NotPushed(t) \/ HandedOut(t))'
  BY <1>5, <1>7, <1>10 DEF ExactlyOnce, NotPushed, HandedOut
<1> QED
  BY <1>8, <1>9, <1>10 DEF ExactlyOnce

(* A step that leaves the contents and the two ends of the deque alone     *)
(* keeps all but what concerns the owner.                                  *)
LEMMA QuietStep ==
  ASSUME IInv, UNCHANGED <<top, data, thief, pushed, delivered, resets>>,
         Open' = Open, LogicalBot' = LogicalBot
  PROVE  LiveInv' /\ ThiefInv' /\ TagInv' /\ ExactlyOnce'
<1> USE DEF IInv
<1>1. Live' = Live
  BY DEF Live
<1>2. LiveInv'
  BY <1>1 DEF LiveInv
<1>3. ExactlyOnce'
  BY <1>1, ExactlyOnceFrame
<1> QED
  BY <1>2, <1>3, ThiefFrame DEF TagInv

(* The three ends of the deque, in order, as numbers.                      *)
LEMMA EndsFacts ==
  ASSUME TypeOK, OwnerInv, ClaimInv, LiveInv
  PROVE  /\ Open \in Nat /\ LogicalBot \in Nat
         /\ top.idx <= Open /\ Open <= LogicalBot /\ LogicalBot <= Capacity
         /\ Claiming => claim \in Claims /\ LogicalBot = claim.from
         /\ Owner \in Workers
<1> USE TypeFacts
<1>1. Open \in Nat
  <2>1. own.at \in {"loadTop", "cas"} => own.bot \in Nat
    BY DEF OwnerInv
  <2> QED
    BY <2>1 DEF Open
<1>2. Claiming => claim \in Claims /\ LogicalBot = claim.from /\ claim.from \in Nat
  <2>1. Claiming => claim \in Claims
    BY DEF TypeOK
  <2>2. claim \in Claims => claim.from \in 0 .. Capacity
    BY DEF Claims
  <2> QED
    BY <2>1, <2>2 DEF LogicalBot
<1>3. ~Claiming => LogicalBot = Open \/ LogicalBot = bot \/ LogicalBot = top.idx
  BY DEF Open, LogicalBot
<1>4. LogicalBot \in Nat
  BY <1>1, <1>2, <1>3
<1> QED
  BY <1>1, <1>2, <1>4 DEF LiveInv, Workers

(* A pop's delivery keeps the types.                                       *)
LEMMA DeliverType ==
  ASSUME TypeOK, NEW t \in Task, NEW w \in Workers,
         delivered' = [delivered EXCEPT ![t][w] = @ + 1]
  PROVE  delivered' \in [Task -> [Workers -> Nat]]
<1>1. delivered \in [Task -> [Workers -> Nat]]
  BY DEF TypeOK
<1>2. delivered[t] \in [Workers -> Nat]
  BY <1>1
<1>3. [delivered[t] EXCEPT ![w] = @ + 1] \in [Workers -> Nat]
  BY <1>2
<1> QED
  BY <1>1, <1>3

-------------------------------------------------------------------------------
(* The invariant holds initially and is kept by every action.              *)

(* The invariant holds in the initial state.                               *)
LEMMA InitInv == Init => IInv
<1> SUFFICES ASSUME Init PROVE IInv
  OBVIOUS
<1> USE ConstantsAssumption
<1>0. /\ ~Claiming
      /\ Live = {}
  BY DEF Init, Claiming, NoClaim, IdleOwner, Live, LogicalBot
<1>1. TypeOK
  BY <1>0 DEF Init, TypeOK, IdleOwner, IdleThief, TagIdx, Slot, OwnerLocals, ThiefLocals
<1>2. OwnerInv
  BY DEF Init, OwnerInv, IdleOwner
<1>3. ClaimInv
  BY <1>0 DEF Init, ClaimInv, IdleOwner
<1>4. LiveInv
  BY <1>0 DEF Init, LiveInv, Open, LogicalBot, IdleOwner
<1>5. ThiefInv
  BY DEF Init, ThiefInv, IdleThief
<1>6. TagInv
  BY DEF Init, TagInv
<1>7. ExactlyOnce
  BY <1>0 DEF Init, ExactlyOnce, NotPushed, NoOne, SlotsOf
<1>8. NeverDies
  BY DEF Init, NeverDies
<1> QED
  BY <1>1, <1>2, <1>3, <1>4, <1>5, <1>6, <1>7, <1>8 DEF IInv

(* push_bot, the store of the task: the slot is not yet live.              *)
LEMMA PushStoreDataInv ==
  ASSUME IInv, NEW t \in Task, PushStoreData(t)
  PROVE  IInv'
<1> USE TypeFacts DEF IInv
<1>0. /\ UNCHANGED <<top, bot, sbuf, claim, thief, pushed, delivered, resets, fault>>
      /\ bot < Capacity
      /\ t \notin pushed
      /\ own.at = "idle"
      /\ own' = [own EXCEPT !.at = "push", !.bot = bot]
      /\ data' = [data EXCEPT ![bot] = [task |-> t, at |-> 0]]
  BY DEF PushStoreData, history
<1>a. own' \in OwnerLocals /\ own'.at = "push" /\ own'.bot = bot
  <2>1. own.top \in TagIdx \union {Nil}
    BY DEF OwnerLocals
  <2> QED
    BY <1>0, <2>1 DEF OwnerLocals
<1>b. /\ data' \in [0 .. Capacity - 1 -> Slot]
      /\ data'[bot] = [task |-> t, at |-> 0]
      /\ data'[bot] \in Object
      /\ \A i \in 0 .. Capacity - 1 : i # bot => data'[i] = data[i]
  BY <1>0 DEF Slot, Object
<1>1. TypeOK'
  BY <1>0, <1>a, <1>b DEF TypeOK, Claiming
<1>2. OwnerInv'
  BY <1>0, <1>a, <1>b DEF OwnerInv
<1>3. ~Claiming /\ ~Claiming' /\ ClaimInv'
  BY <1>0, <1>a DEF ClaimInv, Claiming
<1>4. /\ Open' = Open /\ LogicalBot' = LogicalBot /\ Live' = Live
      /\ Open = bot /\ Live = top.idx .. bot - 1
  BY <1>0, <1>a, <1>3 DEF Open, LogicalBot, Live
<1>5. \A i \in Live : data'[i] = data[i]
  BY <1>0, <1>b, <1>4
<1>6. LiveInv'
  BY <1>0, <1>4, <1>5 DEF LiveInv
<1>7. ThiefInv'
  <2>1. top.idx < Open => data'[top.idx] = data[top.idx]
    BY <1>0, <1>b, <1>4
  <2> QED
    BY <1>0, <1>4, <2>1, ThiefFrame
<1>8. ExactlyOnce'
  BY <1>0, <1>4, <1>5, ExactlyOnceFrame
<1>9. TagInv' /\ NeverDies'
  BY <1>0 DEF TagInv, NeverDies
<1> QED
  BY <1>1, <1>2, <1>3, <1>6, <1>7, <1>8, <1>9

(* push_bot, the store of bot: the slot becomes live.                      *)
LEMMA PushStoreBotInv ==
  ASSUME IInv, PushStoreBot
  PROVE  IInv'
<1> USE TypeFacts DEF IInv
<1>0. /\ UNCHANGED <<top, data, sbuf, claim, thief, delivered, resets, fault>>
      /\ own.at = "push" /\ own' = IdleOwner
      /\ bot' = own.bot + 1 /\ pushed' = pushed \union {data[own.bot].task}
  BY DEF PushStoreBot
<1>a. /\ own.bot = bot /\ bot < Capacity /\ bot' = bot + 1
      /\ data[bot] \in Object
  BY <1>0 DEF OwnerInv
<1>b. PICK u \in Task : /\ u = data[bot].task /\ u \notin pushed
                       /\ pushed' = pushed \union {u}
  BY <1>0, <1>a DEF OwnerInv, Object
<1>c. own' \in OwnerLocals /\ own'.at = "idle"
  BY <1>0 DEF IdleOwner, OwnerLocals
<1>1. TypeOK'
  <2>1. bot' \in 0 .. Capacity
    BY <1>a
  <2>2. pushed' \in SUBSET Task
    BY <1>a, <1>b DEF TypeOK
  <2> QED
    BY <1>0, <1>c, <2>1, <2>2 DEF TypeOK, Claiming
<1>2. OwnerInv'
  BY <1>0, <1>c DEF OwnerInv
<1>3. ~Claiming /\ ~Claiming' /\ ClaimInv'
  BY <1>0, <1>c DEF ClaimInv, Claiming
<1>4. /\ Open = bot /\ LogicalBot = bot /\ Live = top.idx .. bot - 1
      /\ Open' = bot + 1 /\ LogicalBot' = bot + 1 /\ Live' = top.idx .. bot
  BY <1>0, <1>a, <1>c, <1>3 DEF Open, LogicalBot, Live
<1>5. top.idx <= bot
  BY <1>4 DEF LiveInv
<1>6. LiveInv'
  BY <1>0, <1>a, <1>4, <1>5 DEF LiveInv
<1>7. ThiefInv'
  BY <1>0, <1>4, ThiefFrame
<1>8. ExactlyOnce'
  <2>1. Live' = Live \union {bot}
    BY <1>4, <1>5
  <2>2. ASSUME NEW t \in Task, t # u
        PROVE  SlotsOf(t)' = SlotsOf(t) /\ (t \in pushed' <=> t \in pushed)
    BY <1>0, <1>b, <2>1, <2>2 DEF SlotsOf
  <2>3. SlotsOf(u) = {} /\ delivered[u] = NoOne
    BY <1>b DEF ExactlyOnce, NotPushed, Waiting, HandedOut
  <2>4. SlotsOf(u)' = {bot}
    <3>1. \A i \in Live : data[i].task # u
      BY <2>3 DEF SlotsOf
    <3> QED
      BY <1>0, <1>b, <2>1, <3>1 DEF SlotsOf
  <2>5. NoOne' = NoOne /\ \A v \in Workers : OnlyTo(v)' = OnlyTo(v)
    BY DEF NoOne, OnlyTo
  <2>6. Waiting(u)'
    BY <1>0, <1>b, <2>1, <2>3, <2>4, <2>5 DEF Waiting
  <2>7. ASSUME NEW t \in Task, t # u
        PROVE  (NotPushed(t) \/ Waiting(t) \/ HandedOut(t))'
    BY <1>0, <2>1, <2>2, <2>5, <2>7 DEF ExactlyOnce, NotPushed, Waiting, HandedOut
  <2> QED
    BY <2>6, <2>7 DEF ExactlyOnce
<1>9. TagInv' /\ NeverDies'
  BY <1>0 DEF TagInv, NeverDies
<1> QED
  BY <1>1, <1>2, <1>3, <1>6, <1>7, <1>8, <1>9

(* push_bot on a full deque.                                               *)
LEMMA PushFullInv ==
  ASSUME IInv, PushFull
  PROVE  IInv'
<1> USE DEF IInv
<1>0. /\ UNCHANGED <<top, bot, data, sbuf, own, claim, thief, pushed, delivered, resets>>
      /\ fault' = "exceeded max fork depth"
  BY DEF PushFull
<1>1. TypeOK'
  BY <1>0 DEF TypeOK, Claiming
<1>2. Open' = Open /\ LogicalBot' = LogicalBot
  BY <1>0 DEF Open, LogicalBot, Claiming
<1>3. ClaimInv'
  BY <1>0, <1>2 DEF ClaimInv, Claiming
<1>4. OwnerInv'
  BY <1>0 DEF OwnerInv
<1>5. NeverDies'
  BY <1>0 DEF NeverDies
<1> QED
  BY <1>0, <1>1, <1>2, <1>3, <1>4, <1>5, QuietStep

(* try_pop_bot, the load of bot and the store one lower.                   *)
LEMMA PopBotDecrementInv ==
  ASSUME IInv, PopBotDecrement
  PROVE  IInv'
<1> USE TypeFacts DEF IInv
<1>0. /\ UNCHANGED <<top, bot, data, claim, thief, pushed, delivered, resets, fault>>
      /\ own.at \in {"idle", "claim"}
      /\ sbuf = Nil
  BY DEF PopBotDecrement, history, OwnerInv
<1>1. CASE bot = 0
  <2>1. /\ own' = IF Claiming THEN [IdleOwner EXCEPT !.at = "claimed"] ELSE IdleOwner
        /\ sbuf' = sbuf
    BY <1>1 DEF PopBotDecrement, AtLevelZero, PopBotFails
  <2>2. /\ own' \in OwnerLocals
        /\ own'.at = IF Claiming THEN "claimed" ELSE "idle"
    BY <2>1 DEF IdleOwner, OwnerLocals
  <2>3. TypeOK'
    BY <1>0, <2>1, <2>2 DEF TypeOK, Claiming
  <2>4. Open' = Open /\ LogicalBot' = LogicalBot
    BY <1>0, <2>2 DEF Open, LogicalBot, Claiming, ClaimInv
  <2>5. ClaimInv'
    BY <1>0, <2>2, <2>4 DEF ClaimInv, Claiming
  <2>6. OwnerInv'
    BY <1>0, <2>1, <2>2 DEF OwnerInv
  <2>7. NeverDies'
    BY <1>0 DEF NeverDies
  <2> QED
    BY <1>0, <2>3, <2>4, <2>5, <2>6, <2>7, QuietStep
<1>2. CASE bot # 0
  <2>1. /\ own' = [IdleOwner EXCEPT !.at = "loadTop", !.bot = bot - 1]
        /\ sbuf' = bot - 1
    BY <1>2 DEF PopBotDecrement, AtLevelZero
  <2>a. bot - 1 \in 0 .. Capacity - 1 /\ bot - 1 \in 0 .. Capacity
    BY <1>2
  <2>2. /\ own' \in OwnerLocals
        /\ own'.at = "loadTop" /\ own'.bot = bot - 1
    BY <2>a, <2>1 DEF IdleOwner, OwnerLocals
  <2>b. sbuf' \in 0 .. Capacity \union {Nil} /\ sbuf' # Nil
    BY <2>a, <2>1
  <2>3. TypeOK' /\ NeverDies'
    BY <1>0, <2>b, <2>2 DEF TypeOK, Claiming, NeverDies
  <2>4. OwnerInv'
    BY <1>0, <2>1, <2>2, <2>a, <2>b DEF OwnerInv
  <2>5. Open' = Open /\ LogicalBot' = LogicalBot
    BY <1>0, <2>2 DEF Open, LogicalBot, Claiming, ClaimInv
  <2>6. ClaimInv'
    BY <1>0, <2>2, <2>5 DEF ClaimInv, Claiming
  <2> QED
    BY <1>0, <2>3, <2>4, <2>5, <2>6, QuietStep
<1> QED
  BY <1>1, <1>2

(* The pending store of bot reaches memory.                                *)
LEMMA DrainInv ==
  ASSUME IInv, Drain
  PROVE  IInv'
<1> USE TypeFacts DEF IInv
<1>0. /\ UNCHANGED <<top, data, own, claim, thief, pushed, delivered, resets, fault>>
      /\ bot' = sbuf /\ sbuf' = Nil /\ sbuf # Nil
  BY DEF Drain, history
<1>1. own.at \in {"loadTop", "resetTop"} /\ sbuf \in 0 .. Capacity
  BY <1>0 DEF OwnerInv, TypeOK
<1>2. TypeOK' /\ NeverDies'
  <2>1. bot' \in 0 .. Capacity /\ sbuf' \in 0 .. Capacity \union {Nil}
    BY <1>0, <1>1
  <2> QED
    BY <1>0, <2>1 DEF TypeOK, Claiming, NeverDies
<1>3. OwnerInv'
  BY <1>0, <1>1 DEF OwnerInv
<1>4. Open' = Open /\ LogicalBot' = LogicalBot
  BY <1>0, <1>1 DEF Open, LogicalBot, Claiming
<1>5. ClaimInv'
  BY <1>0, <1>4 DEF ClaimInv, Claiming
<1> QED
  BY <1>0, <1>2, <1>3, <1>4, <1>5, QuietStep

(* try_pop_bot, the load of top and the three ways on.                     *)
LEMMA PopBotLoadTopInv ==
  ASSUME IInv, PopBotLoadTop
  PROVE  IInv'
<1> USE TypeFacts DEF IInv
<1>0. /\ UNCHANGED <<top, bot, data, thief, pushed, resets>>
      /\ own.at = "loadTop" /\ sbuf = Nil
      /\ own.bot \in 0 .. Capacity - 1 /\ bot = own.bot
  BY DEF PopBotLoadTop, Drained, OwnerInv
<1>1. /\ Open = own.bot + 1
      /\ Claiming => LogicalBot = claim.from
      /\ ~Claiming => LogicalBot = own.bot + 1
  BY <1>0 DEF Open, LogicalBot
<1>2. CASE own.bot > top.idx
  <2>1. own.bot \in Live
    BY <1>0, <1>1, <1>2, EndsFacts DEF Live
  <2>2. data[own.bot] \in Object /\ data[own.bot] # NONE
    BY <2>1, ConstantsAssumption DEF LiveInv, Object
  <2>3. PopBotSucceeds(data[own.bot]) /\ sbuf' = sbuf
    BY <1>0, <1>2 DEF PopBotLoadTop
  <2>4. CASE Claiming
    <3>1. /\ own' = [IdleOwner EXCEPT !.at = "claim"]
          /\ claim' = [claim EXCEPT !.down = @ - 1]
          /\ UNCHANGED <<fault, delivered>>
      BY <2>2, <2>3, <2>4 DEF PopBotSucceeds
    <3>2. own' \in OwnerLocals /\ own'.at = "claim"
      BY <3>1 DEF IdleOwner, OwnerLocals
    <3>3. claim \in Claims /\ claim.down = own.bot + 1 /\ claim.from \in 0 .. Capacity
      BY <1>1, <2>4 DEF TypeOK, ClaimInv, Claims
    <3>4. /\ claim' \in Claims /\ claim'.down = own.bot /\ claim'.from = claim.from
          /\ claim'.next = claim.next /\ claim'.from \in Nat
      BY SMTT(30), <1>0, <3>1, <3>3 DEF Claims
    <3>5. Claiming'
      BY <3>4 DEF Claiming, NoClaim
    <3>6. Open' = own.bot /\ LogicalBot' = LogicalBot /\ Live' = Live
      BY <1>0, <1>1, <2>4, <3>2, <3>4, <3>5 DEF Open, LogicalBot, Live
    <3>7. TypeOK'
      BY <1>0, <2>3, <3>1, <3>2, <3>4 DEF TypeOK
    <3>8. OwnerInv' /\ NeverDies' /\ TagInv'
      BY <1>0, <2>3, <3>1, <3>2 DEF OwnerInv, NeverDies, TagInv
    <3>9. ClaimInv'
      BY <1>0, <1>1, <2>4, <3>2, <3>3, <3>4, <3>5, <3>6 DEF ClaimInv
    <3>10. LiveInv'
      BY <1>0, <1>1, <1>2, <3>3, <3>6, <2>4 DEF LiveInv
    <3>11. ThiefInv'
      BY <1>0, <1>2, <3>6, ThiefFrame
    <3>12. ExactlyOnce'
      BY <1>0, <3>1, <3>6, ExactlyOnceFrame
    <3> QED
      BY <3>7, <3>8, <3>9, <3>10, <3>11, <3>12
  <2>5. CASE ~Claiming
    <3>1. /\ own' = IdleOwner /\ claim' = claim /\ fault' = fault
          /\ delivered' = [delivered EXCEPT ![data[own.bot].task][Owner] = @ + 1]
      BY <2>2, <2>3, <2>5 DEF PopBotSucceeds, Deliver
    <3>2. own' \in OwnerLocals /\ own'.at = "idle"
      BY <3>1 DEF IdleOwner, OwnerLocals
    <3>3. ~Claiming'
      BY <2>5, <3>1 DEF Claiming
    <3>4. /\ Open' = own.bot /\ LogicalBot' = own.bot
          /\ Live = top.idx .. own.bot /\ Live' = top.idx .. own.bot - 1
      BY <1>0, <1>1, <2>5, <3>2, <3>3 DEF Open, LogicalBot, Live
    <3>5. delivered' \in [Task -> [Workers -> Nat]]
      <4>1. data[own.bot].task \in Task
        BY <2>2 DEF Object
      <4> QED
        BY <3>1, <4>1, EndsFacts, DeliverType
    <3>6. TypeOK'
      BY <1>0, <2>3, <3>1, <3>2, <3>3, <3>5 DEF TypeOK
    <3>7. OwnerInv' /\ NeverDies' /\ TagInv' /\ ClaimInv'
      BY <1>0, <2>3, <3>1, <3>2, <3>3 DEF OwnerInv, NeverDies, TagInv, ClaimInv
    <3>8. LiveInv'
      BY <1>0, <1>2, <3>4 DEF LiveInv
    <3>9. ThiefInv'
      BY <1>0, <1>2, <3>4, ThiefFrame
    <3>10. ExactlyOnce'
      <4>1. Live' = Live \ {own.bot} /\ Owner \in Workers
        BY <1>0, <3>4 DEF Workers
      <4> QED
        BY <1>0, <2>1, <2>2, <3>1, <4>1, ExactlyOnceTake
    <3> QED
      BY <3>6, <3>7, <3>8, <3>9, <3>10
  <2> QED
    BY <2>4, <2>5
<1>3. CASE own.bot = top.idx
  <2>1. /\ own' = [own EXCEPT !.at = "cas", !.top = top]
        /\ UNCHANGED <<sbuf, claim, delivered, fault>>
    BY <1>0, <1>3 DEF PopBotLoadTop
  <2>2. top \in TagIdx
    BY DEF TypeOK
  <2>3. own' \in OwnerLocals /\ own'.at = "cas" /\ own'.top = top /\ own'.bot = own.bot
    BY <2>1, <2>2 DEF OwnerLocals
  <2>4. TypeOK' /\ NeverDies'
    BY <1>0, <2>1, <2>3 DEF TypeOK, Claiming, NeverDies
  <2>5. OwnerInv'
    BY <1>0, <1>3, <2>1, <2>2, <2>3 DEF OwnerInv
  <2>6. Open' = Open /\ LogicalBot' = LogicalBot
    BY <1>0, <2>1, <2>3 DEF Open, LogicalBot, Claiming
  <2>7. ClaimInv'
    BY <1>0, <2>1, <2>3, <2>6 DEF ClaimInv, Claiming
  <2> QED
    BY <1>0, <2>1, <2>4, <2>5, <2>6, <2>7, QuietStep
<1>4. CASE own.bot < top.idx
  <2>1. /\ own' = [own EXCEPT !.at = "resetTop", !.top = top]
        /\ sbuf' = top.idx /\ UNCHANGED <<claim, delivered, fault>>
    BY <1>0, <1>4 DEF PopBotLoadTop, RestoreBot
  <2>2. top \in TagIdx
    BY DEF TypeOK
  <2>3. own' \in OwnerLocals /\ own'.at = "resetTop" /\ own'.top = top
    BY <2>1, <2>2 DEF OwnerLocals
  <2>4. top.idx = own.bot + 1 /\ top.idx \in 0 .. Capacity
    BY <1>0, <1>1, <1>4 DEF LiveInv
  <2>5. TypeOK' /\ NeverDies'
    BY <1>0, <2>1, <2>3, <2>4 DEF TypeOK, Claiming, NeverDies
  <2>6. OwnerInv'
    BY <1>0, <2>1, <2>3, <2>4 DEF OwnerInv
  <2>7. Open' = Open /\ LogicalBot' = LogicalBot
    BY <1>0, <1>1, <2>1, <2>3, <2>4 DEF Open, LogicalBot, Claiming
  <2>8. ClaimInv'
    BY <1>0, <2>1, <2>3, <2>7 DEF ClaimInv, Claiming
  <2> QED
    BY <1>0, <2>1, <2>5, <2>6, <2>7, <2>8, QuietStep
<1> QED
  BY <1>0, <1>2, <1>3, <1>4

(* A store of the owner to top, with a tag that does not wrap: the tag     *)
(* goes up by one, which is news to every thief.                           *)
LEMMA StoreTopFacts ==
  ASSUME IInv, NEW M \in Nat \ {0}, MaxResets < M, NEW i \in Nat,
         StoreTop((top.tag + 1) % M, i), UNCHANGED thief
  PROVE  /\ top' = [tag |-> top.tag + 1, idx |-> i]
         /\ top' \in TagIdx /\ top'.idx = i /\ resets' \in Nat
         /\ TagInv' /\ ThiefInv'
<1> USE TypeFacts DEF IInv
<1>1. /\ top.tag = resets /\ resets < MaxResets /\ resets' = resets + 1
      /\ top' = [tag |-> (top.tag + 1) % M, idx |-> i]
      /\ MaxResets \in Nat
  BY ConstantsAssumption DEF StoreTop, TagInv
<1>2. (top.tag + 1) % M = top.tag + 1
  BY <1>1
<1>3. top' = [tag |-> top.tag + 1, idx |-> i] /\ top.tag + 1 \in Nat
  BY <1>1, <1>2
<1>4. top' \in TagIdx /\ top'.idx = i /\ top'.tag = top.tag + 1
  BY <1>3 DEF TagIdx
<1>5. TagInv' /\ resets' \in Nat
  BY <1>1, <1>4 DEF TagInv
<1>6. ThiefInv'
  BY <1>4, ThiefNewTag
<1> QED
  BY <1>3, <1>4, <1>5, <1>6

(* try_pop_bot, the CAS for the last task won.                             *)
LEMMA PopBotCasWonInv ==
  ASSUME TagsSuffice, IInv, PopBotCasWon
  PROVE  IInv'
<1> USE TypeFacts DEF IInv
<1>0. /\ UNCHANGED <<bot, data, sbuf, thief, pushed>>
      /\ own.at = "cas" /\ top = own.top
      /\ StoreTop((top.tag + 1) % TagMod, top.idx)
      /\ PopBotSucceeds(data[own.bot])
  BY DEF PopBotCasWon
<1>1. /\ own.bot \in 0 .. Capacity - 1 /\ own.bot \in Nat
      /\ bot = own.bot /\ top.idx = own.bot /\ sbuf = Nil
  BY <1>0 DEF OwnerInv
<1>2. /\ top' \in TagIdx /\ top'.idx = top.idx /\ resets' \in Nat
      /\ TagInv' /\ ThiefInv'
  BY <1>0, StoreTopFacts, ConstantsAssumption DEF TagsSuffice
<1>3. /\ Open = own.bot + 1
      /\ ~Claiming => LogicalBot = own.bot + 1
  BY <1>0 DEF Open, LogicalBot
<1>4. own.bot \in Live
  BY <1>1, <1>3, EndsFacts DEF Live
<1>5. data[own.bot] \in Object /\ data[own.bot] # NONE /\ data[own.bot].task \in Task
  BY <1>4, ConstantsAssumption DEF LiveInv, Object
<1>6. CASE Claiming
  <2>1. /\ own' = [IdleOwner EXCEPT !.at = "claim"]
        /\ claim' = [claim EXCEPT !.down = @ - 1]
        /\ UNCHANGED <<fault, delivered>>
    BY <1>0, <1>5, <1>6 DEF PopBotSucceeds
  <2>2. own' \in OwnerLocals /\ own'.at = "claim"
    BY <2>1 DEF IdleOwner, OwnerLocals
  <2>3. claim \in Claims /\ claim.down = own.bot + 1 /\ claim.from \in 0 .. Capacity
    BY <1>3, <1>6 DEF TypeOK, ClaimInv, Claims
  <2>4. /\ claim' \in Claims /\ claim'.down = own.bot /\ claim'.from = claim.from
        /\ claim'.next = claim.next /\ claim'.from \in Nat
    BY <1>1, <2>1, <2>3 DEF Claims
  <2>5. Claiming'
    BY <2>4 DEF Claiming, NoClaim
  <2>6. Open' = own.bot /\ LogicalBot' = LogicalBot /\ Live' = Live
    BY <1>0, <1>1, <1>2, <1>6, <2>2, <2>4, <2>5 DEF Open, LogicalBot, Live
  <2>7. TypeOK'
    BY <1>0, <1>2, <2>1, <2>2, <2>4 DEF TypeOK
  <2>8. OwnerInv' /\ NeverDies'
    BY <1>0, <1>1, <2>1, <2>2 DEF OwnerInv, NeverDies
  <2>9. ClaimInv'
    BY <1>3, <1>1, <1>6, <2>2, <2>3, <2>4, <2>5, <2>6, EndsFacts DEF ClaimInv
  <2>10. LiveInv'
    BY <1>0, <1>1, <1>2, <1>3, <2>6, EndsFacts DEF LiveInv
  <2>11. ExactlyOnce'
    BY <1>0, <2>1, <2>6, ExactlyOnceFrame
  <2> QED
    BY <1>2, <2>7, <2>8, <2>9, <2>10, <2>11
<1>7. CASE ~Claiming
  <2>1. /\ own' = IdleOwner /\ claim' = claim /\ fault' = fault
        /\ delivered' = [delivered EXCEPT ![data[own.bot].task][Owner] = @ + 1]
    BY <1>0, <1>5, <1>7 DEF PopBotSucceeds, Deliver
  <2>2. own' \in OwnerLocals /\ own'.at = "idle"
    BY <2>1 DEF IdleOwner, OwnerLocals
  <2>3. ~Claiming'
    BY <1>7, <2>1 DEF Claiming
  <2>4. /\ Open' = own.bot /\ LogicalBot' = own.bot
        /\ Live = {own.bot} /\ Live' = {}
    BY <1>0, <1>1, <1>2, <1>3, <1>7, <2>2, <2>3 DEF Open, LogicalBot, Live
  <2>5. delivered' \in [Task -> [Workers -> Nat]]
    BY <1>5, <2>1, EndsFacts, DeliverType
  <2>6. TypeOK'
    BY <1>0, <1>2, <2>1, <2>2, <2>3, <2>5 DEF TypeOK
  <2>7. OwnerInv' /\ NeverDies' /\ ClaimInv'
    BY <1>0, <1>1, <2>1, <2>2, <2>3 DEF OwnerInv, NeverDies, ClaimInv
  <2>8. LiveInv'
    BY <1>1, <1>2, <2>4 DEF LiveInv
  <2>9. ExactlyOnce'
    <3>1. Live' = Live \ {own.bot}
      BY <2>4
    <3> QED
      BY <1>0, <1>4, <1>5, <2>1, <3>1, EndsFacts, ExactlyOnceTake
  <2> QED
    BY <1>2, <2>6, <2>7, <2>8, <2>9
<1> QED
  BY <1>6, <1>7

(* try_pop_bot, the CAS for the last task lost: top is as expected.        *)
LEMMA PopBotCasLostInv ==
  ASSUME IInv, PopBotCasLost
  PROVE  IInv'
<1> USE TypeFacts DEF IInv
<1>0. /\ own.at = "cas" /\ top # own.top
      /\ UNCHANGED <<top, bot, data, claim, thief, pushed, delivered, resets>>
  BY DEF PopBotCasLost
<1>1. /\ own.bot \in 0 .. Capacity - 1 /\ own.bot \in Nat
      /\ bot = own.bot /\ own.top \in TagIdx /\ own.top.idx = own.bot
      /\ top = [tag |-> own.top.tag, idx |-> own.bot + 1] /\ top.idx = own.bot + 1
  BY <1>0 DEF OwnerInv
<1>2. /\ sbuf' = own.bot + 1
      /\ own' = [own EXCEPT !.at = "resetTop", !.top.idx = own.bot + 1]
      /\ fault' = fault
  BY <1>0, <1>1 DEF PopBotCasLost, RestoreBot
<1>3. [own.top EXCEPT !.idx = own.bot + 1] = top
  BY <1>1 DEF TagIdx
<1>4. own' = [own EXCEPT !.at = "resetTop", !.top = top]
  BY <1>2, <1>3 DEF OwnerLocals
<1>5. top \in TagIdx
  BY DEF TypeOK
<1>6. own' \in OwnerLocals /\ own'.at = "resetTop" /\ own'.top = top
  BY <1>4, <1>5 DEF OwnerLocals
<1>7. own.bot + 1 \in 0 .. Capacity
  BY <1>1
<1>8. TypeOK' /\ NeverDies'
  BY <1>0, <1>2, <1>6, <1>7 DEF TypeOK, Claiming, NeverDies
<1>9. OwnerInv'
  BY <1>0, <1>1, <1>2, <1>6 DEF OwnerInv
<1>10. Open' = Open /\ LogicalBot' = LogicalBot
  BY <1>0, <1>1, <1>6 DEF Open, LogicalBot, Claiming
<1>11. ClaimInv'
  BY <1>0, <1>6, <1>10 DEF ClaimInv, Claiming
<1> QED
  BY <1>0, <1>8, <1>9, <1>10, <1>11, QuietStep

(* try_pop_bot fails and gives top a new tag.                              *)
LEMMA PopBotResetTopInv ==
  ASSUME TagsSuffice, IInv, PopBotResetTop
  PROVE  IInv'
<1> USE TypeFacts DEF IInv
<1>0. /\ UNCHANGED <<bot, data, sbuf, claim, thief, pushed, delivered, fault>>
      /\ own.at = "resetTop" /\ sbuf = Nil
      /\ StoreTop((own.top.tag + 1) % TagMod, own.top.idx)
      /\ PopBotFails
  BY DEF PopBotResetTop, Drained
<1>1. own.top = top /\ bot = top.idx
  BY <1>0 DEF OwnerInv
<1>2. /\ top' \in TagIdx /\ top'.idx = top.idx /\ resets' \in Nat
      /\ TagInv' /\ ThiefInv'
  BY <1>0, <1>1, StoreTopFacts, ConstantsAssumption DEF TagsSuffice
<1>3. own' = IF Claiming THEN [IdleOwner EXCEPT !.at = "claimed"] ELSE IdleOwner
  BY <1>0 DEF PopBotFails
<1>4. own' \in OwnerLocals /\ own'.at = IF Claiming THEN "claimed" ELSE "idle"
  BY <1>3 DEF IdleOwner, OwnerLocals
<1>5. TypeOK' /\ NeverDies'
  BY <1>0, <1>2, <1>4 DEF TypeOK, Claiming, NeverDies
<1>6. OwnerInv'
  BY <1>0, <1>4 DEF OwnerInv
<1>7. /\ Open' = Open /\ LogicalBot' = LogicalBot
      /\ Live' = Live
  BY <1>0, <1>1, <1>2, <1>4 DEF Open, LogicalBot, Live, Claiming
<1>8. ClaimInv'
  BY <1>0, <1>4, <1>7 DEF ClaimInv, Claiming
<1>9. LiveInv'
  BY <1>0, <1>2, <1>7 DEF LiveInv
<1>10. ExactlyOnce'
  BY <1>0, <1>7, ExactlyOnceFrame
<1> QED
  BY <1>2, <1>5, <1>6, <1>8, <1>9, <1>10

(* bot is never above the open end of the deque: a thief that sees a task  *)
(* sees an open slot.                                                      *)
LEMMA BotOpen ==
  ASSUME IInv
  PROVE  bot > top.idx => bot <= Open
<1> USE TypeFacts DEF IInv
<1>1. CASE own.at \in {"loadTop", "cas"}
  <2>1. own.bot \in Nat /\ (bot = own.bot \/ bot = own.bot + 1) /\ Open = own.bot + 1
    BY <1>1 DEF OwnerInv, Open
  <2> QED
    BY <2>1
<1>2. CASE own.at \in {"resetTop", "shrinkBot", "shrinkTop", "growTop", "growBot"}
  <2>1. bot <= top.idx
    BY <1>2 DEF OwnerInv
  <2> QED
    BY <2>1
<1>3. CASE own.at \notin {"loadTop", "cas", "resetTop", "shrinkBot", "shrinkTop", "growTop", "growBot"}
  BY <1>3 DEF Open
<1> QED
  BY <1>1, <1>2, <1>3

(* A step of thief w that changes only its own variables needs to keep     *)
(* only what ThiefInv says of w.                                           *)
LEMMA ThiefStep ==
  ASSUME IInv, NEW w \in Thieves,
         UNCHANGED <<top, bot, data, sbuf, own, claim, pushed, delivered, resets, fault>>,
         thief' \in [Thieves -> ThiefLocals],
         \A v \in Thieves : v # w => thief'[v] = thief[v],
         thief'[w].at # "idle" =>
           /\ thief'[w].top \in TagIdx
           /\ thief'[w].at \in {"loadData", "cas"} => thief'[w].top.idx < Capacity
           /\ thief'[w].top.tag <= top.tag
           /\ thief'[w].top.tag = top.tag => thief'[w].top.idx <= top.idx
           /\ thief'[w].top = top /\ thief'[w].at \in {"loadData", "cas"} => top.idx < Open
           /\ thief'[w].top = top /\ thief'[w].at = "cas" => thief'[w].elem = data[top.idx]
  PROVE  IInv'
<1> USE DEF IInv
<1>1. TypeOK'
  BY DEF TypeOK, Claiming
<1>2. OwnerInv'
  BY DEF OwnerInv
<1>3. Open' = Open /\ LogicalBot' = LogicalBot /\ Live' = Live /\ Claiming' = Claiming
  BY DEF Open, LogicalBot, Claiming, Live
<1>4. ClaimInv'
  BY <1>3 DEF ClaimInv
<1>5. LiveInv'
  BY <1>3 DEF LiveInv
<1>6. ThiefInv'
  BY <1>3 DEF ThiefInv
<1>7. TagInv' /\ NeverDies'
  BY DEF TagInv, NeverDies
<1>8. ExactlyOnce'
  BY <1>3, ExactlyOnceFrame
<1> QED
  BY <1>1, <1>2, <1>4, <1>5, <1>6, <1>7, <1>8

(* try_pop_top, the load of top.                                           *)
LEMMA PopTopLoadTopInv ==
  ASSUME IInv, NEW w \in Thieves, PopTopLoadTop(w)
  PROVE  IInv'
<1> USE TypeFacts DEF IInv
<1>0. /\ UNCHANGED <<top, bot, data, sbuf, own, claim, pushed, delivered, resets, fault>>
      /\ thief' = [thief EXCEPT ![w].at = "loadBot", ![w].top = top]
  BY DEF PopTopLoadTop, history
<1>1. top \in TagIdx
  BY DEF TypeOK
<1>2. thief'[w] = [thief[w] EXCEPT !.at = "loadBot", !.top = top]
  BY <1>0
<1>3. thief'[w] \in ThiefLocals /\ thief'[w].at = "loadBot" /\ thief'[w].top = top
  BY <1>1, <1>2 DEF ThiefLocals
<1>4. /\ thief' \in [Thieves -> ThiefLocals]
      /\ \A v \in Thieves : v # w => thief'[v] = thief[v]
  BY <1>0, <1>3
<1> QED
  BY <1>0, <1>1, <1>3, <1>4, ThiefStep

(* try_pop_top, the load of bot.                                           *)
LEMMA PopTopLoadBotInv ==
  ASSUME IInv, NEW w \in Thieves, PopTopLoadBot(w)
  PROVE  IInv'
<1> USE TypeFacts DEF IInv
<1>0. /\ UNCHANGED <<top, bot, data, sbuf, own, claim, pushed, delivered, resets, fault>>
      /\ thief[w].at = "loadBot"
      /\ thief' = [thief EXCEPT ![w] = IF LooksEmpty(w) THEN IdleThief
                                       ELSE [thief[w] EXCEPT !.at = "loadData"]]
  BY DEF PopTopLoadBot, history
<1>1. /\ thief[w].top \in TagIdx
      /\ thief[w].top.tag <= top.tag
      /\ thief[w].top.tag = top.tag => thief[w].top.idx <= top.idx
  BY <1>0 DEF ThiefInv
<1>2. CASE LooksEmpty(w)
  <2>1. thief'[w] = IdleThief
    BY <1>0, <1>2
  <2>2. thief'[w] \in ThiefLocals /\ thief'[w].at = "idle"
    BY <2>1 DEF IdleThief, ThiefLocals, Slot
  <2>3. /\ thief' \in [Thieves -> ThiefLocals]
        /\ \A v \in Thieves : v # w => thief'[v] = thief[v]
    BY <1>0, <2>1, <2>2
  <2> QED
    BY <1>0, <2>2, <2>3, ThiefStep
<1>3. CASE ~LooksEmpty(w)
  <2>1. thief'[w] = [thief[w] EXCEPT !.at = "loadData"]
    BY <1>0, <1>3
  <2>2. /\ thief'[w] \in ThiefLocals /\ thief'[w].at = "loadData"
        /\ thief'[w].top = thief[w].top
    BY <2>1 DEF ThiefLocals
  <2>3. /\ thief' \in [Thieves -> ThiefLocals]
        /\ \A v \in Thieves : v # w => thief'[v] = thief[v]
    BY <1>0, <2>1, <2>2
  <2>5. thief[w].top.idx < Capacity
    <3>1. thief[w].top.idx \in Nat /\ bot > thief[w].top.idx
      BY <1>1, <1>3 DEF LooksEmpty, TagIdx
    <3> QED
      BY <3>1
  <2>4. thief[w].top = top => top.idx < Open
    BY <1>3, BotOpen, EndsFacts DEF LooksEmpty
  <2> QED
    BY <1>0, <1>1, <2>2, <2>3, <2>4, <2>5, ThiefStep
<1> QED
  BY <1>2, <1>3

(* try_pop_top, the load of the slot.                                      *)
LEMMA PopTopLoadDataInv ==
  ASSUME IInv, NEW w \in Thieves, PopTopLoadData(w)
  PROVE  IInv'
<1> USE TypeFacts DEF IInv
<1>0. /\ UNCHANGED <<top, bot, data, sbuf, own, claim, pushed, delivered, resets, fault>>
      /\ thief[w].at = "loadData"
      /\ thief' = [thief EXCEPT ![w].at = "cas", ![w].elem = data[thief[w].top.idx]]
  BY DEF PopTopLoadData, history
<1>1. /\ thief[w].top \in TagIdx
      /\ thief[w].top.tag <= top.tag
      /\ thief[w].top.tag = top.tag => thief[w].top.idx <= top.idx
      /\ thief[w].top = top => top.idx < Open
      /\ thief[w].top.idx < Capacity
  BY <1>0 DEF ThiefInv
<1>2. data[thief[w].top.idx] \in Slot
  <2>1. thief[w].top.idx \in 0 .. Capacity - 1
    BY <1>1 DEF TagIdx
  <2> QED
    BY <2>1
<1>e. PICK e \in Slot : e = data[thief[w].top.idx]
  BY <1>2
<1>3. thief'[w] = [thief[w] EXCEPT !.at = "cas", !.elem = e]
  BY <1>0, <1>e
<1>4. /\ thief'[w] \in ThiefLocals /\ thief'[w].at = "cas"
      /\ thief'[w].top = thief[w].top /\ thief'[w].elem = data[thief[w].top.idx]
  <2>1. thief[w] \in ThiefLocals
    OBVIOUS
  <2> HIDE TypeFacts DEF IInv
  <2> QED
    BY <1>e, <1>3, <2>1 DEF ThiefLocals
<1>5. /\ thief' \in [Thieves -> ThiefLocals]
      /\ \A v \in Thieves : v # w => thief'[v] = thief[v]
  BY <1>0, <1>4
<1> QED
  BY <1>0, <1>1, <1>4, <1>5, ThiefStep

(* A thief whose top is still current finds a live task, and the owner is  *)
(* at none of the points where the open end coincides with top.            *)
LEMMA PopTopCasInv ==
  ASSUME IInv, NEW w \in Thieves, PopTopCas(w)
  PROVE  IInv'
<1> USE TypeFacts DEF IInv
<1>0. /\ UNCHANGED <<bot, data, sbuf, own, claim, pushed, resets>>
      /\ thief[w].at = "cas"
      /\ thief' = [thief EXCEPT ![w] = IdleThief]
  BY DEF PopTopCas
<1>1. /\ thief' \in [Thieves -> ThiefLocals] /\ thief'[w].at = "idle"
      /\ \A v \in Thieves : v # w => thief'[v] = thief[v]
  <2>1. IdleThief \in ThiefLocals /\ IdleThief.at = "idle"
    BY DEF IdleThief, ThiefLocals, Slot
  <2> QED
    BY <1>0, <2>1
<1>2. CASE top # thief[w].top
  <2>1. UNCHANGED <<top, delivered, fault>>
    BY <1>2 DEF PopTopCas
  <2> QED
    BY <1>0, <1>1, <2>1, ThiefStep
<1>3. CASE top = thief[w].top
  <2>1. top.idx < Open /\ thief[w].elem = data[top.idx] /\ top.idx < Capacity
    BY <1>0, <1>3 DEF ThiefInv
  <2>2. top.idx \in Live
    BY <2>1, EndsFacts DEF Live
  <2>3. data[top.idx] \in Object /\ data[top.idx] # NONE /\ data[top.idx].task \in Task
    BY <2>2, ConstantsAssumption DEF LiveInv, Object
  <2>4. /\ top' = [top EXCEPT !.idx = @ + 1] /\ fault' = fault
        /\ delivered' = [delivered EXCEPT ![data[top.idx].task][w] = @ + 1]
    BY <1>3, <2>1, <2>3 DEF PopTopCas, Stolen, Deliver
  <2>5. top' = [tag |-> top.tag, idx |-> top.idx + 1]
    BY <2>4
  <2>6. top' \in TagIdx /\ top'.idx = top.idx + 1 /\ top'.tag = top.tag
    BY <2>5 DEF TagIdx
  <2>7. own.at \notin {"resetTop", "shrinkBot", "shrinkTop", "growTop", "growBot"}
    BY <2>1 DEF Open
  <2>8. /\ Open' = Open /\ Claiming' = Claiming
        /\ LogicalBot' = LogicalBot
    <3>1. ~Claiming => own.at \notin {"claim", "claimed", "forward"}
      BY DEF ClaimInv
    <3>2. own \in OwnerLocals
      BY DEF TypeOK
    <3>3. ~Claiming => own.at \in {"loadTop", "cas", "idle", "push"}
      BY <2>7, <3>1, <3>2 DEF OwnerLocals
    <3> QED
      BY <1>0, <2>7, <3>3 DEF Open, Claiming, LogicalBot
  <2>9. Live' = Live \ {top.idx}
    BY <2>6, <2>8, EndsFacts DEF Live
  <2>10. delivered' \in [Task -> [Workers -> Nat]] /\ w \in Workers
    <3>1. w \in Workers
      BY DEF Workers
    <3> QED
      BY <2>3, <2>4, <3>1, DeliverType
  <2>11. TypeOK'
    BY <1>0, <1>1, <2>4, <2>6, <2>8, <2>10 DEF TypeOK
  <2>12. OwnerInv'
    <3>1. own.at = "cas" => top' = [tag |-> own.top.tag, idx |-> own.bot + 1]
      <4>1. own.at = "cas" => own.bot \in Nat /\ Open = own.bot + 1 /\ own.top \in TagIdx
                              /\ own.top.idx = own.bot
        BY DEF OwnerInv, Open
      <4>2. own.at = "cas" => top = own.top \/ top = [tag |-> own.top.tag, idx |-> own.bot + 1]
        BY DEF OwnerInv
      <4>3. own.at = "cas" => top # [tag |-> own.top.tag, idx |-> own.bot + 1]
        BY <2>1, <4>1
      <4> QED
        BY <2>5, <4>1, <4>2, <4>3
    <3> QED
      BY <1>0, <2>7, <3>1 DEF OwnerInv
  <2>13. ClaimInv'
    BY <1>0, <2>8 DEF ClaimInv
  <2>14. LiveInv'
    BY <1>0, <2>1, <2>6, <2>8, <2>9, EndsFacts DEF LiveInv
  <2>15. ThiefInv'
    <3> SUFFICES ASSUME NEW v \in Thieves, v # w, thief[v].at # "idle"
                 PROVE  /\ thief[v].top \in TagIdx
                        /\ thief[v].at \in {"loadData", "cas"} => thief[v].top.idx < Capacity
                        /\ thief[v].top.tag <= top'.tag
                        /\ thief[v].top.tag = top'.tag => thief[v].top.idx <= top'.idx
                        /\ thief[v].top # top'
      BY <1>1 DEF ThiefInv
    <3>1. /\ thief[v].top \in TagIdx
          /\ thief[v].at \in {"loadData", "cas"} => thief[v].top.idx < Capacity
          /\ thief[v].top.tag <= top.tag
          /\ thief[v].top.tag = top.tag => thief[v].top.idx <= top.idx
      BY DEF ThiefInv
    <3>2. thief[v].top.idx \in Nat
      BY <3>1 DEF TagIdx
    <3>3. thief[v].top.tag = top'.tag => thief[v].top.idx < top'.idx
      BY <2>6, <3>1, <3>2
    <3> QED
      BY <2>6, <3>1, <3>2, <3>3
  <2>16. TagInv' /\ NeverDies'
    BY <1>0, <2>4, <2>6 DEF TagInv, NeverDies
  <2>17. ExactlyOnce'
    BY <1>0, <2>2, <2>3, <2>4, <2>9, <2>10, ExactlyOnceTake
  <2> QED
    BY <2>11, <2>12, <2>13, <2>14, <2>15, <2>16, <2>17
<1> QED
  BY <1>2, <1>3

(* Outside a pop and outside a collection the owner is not claiming.       *)
LEMMA SetDepthFacts ==
  ASSUME IInv, own.at \in {"idle", "shrinkBot", "shrinkTop", "growTop", "growBot"}
  PROVE  /\ ~Claiming
         /\ own.at # "idle" => Open = top.idx /\ LogicalBot = top.idx
         /\ own.at = "idle" => Open = bot /\ LogicalBot = bot /\ top.idx <= bot
<1> USE TypeFacts DEF IInv
<1>1. ~Claiming
  BY DEF ClaimInv
<1>2. own.at # "idle" => Open = top.idx /\ LogicalBot = top.idx
  BY <1>1 DEF Open, LogicalBot
<1>3. own.at = "idle" => Open = bot /\ LogicalBot = bot
  BY <1>1 DEF Open, LogicalBot
<1> QED
  BY <1>1, <1>2, <1>3, EndsFacts

(* set_depth, the loads and the check that the deque is empty.             *)
LEMMA SetDepthLoadInv ==
  ASSUME IInv, NEW d \in 0 .. Capacity, SetDepthLoad(d)
  PROVE  IInv'
<1> USE TypeFacts DEF IInv
<1>0. /\ UNCHANGED <<top, bot, data, sbuf, claim, thief, pushed, delivered, resets>>
      /\ own.at = "idle" /\ bot <= top.idx /\ d # bot
  BY DEF SetDepthLoad
<1>1. /\ ~Claiming /\ Open = bot /\ LogicalBot = bot
      /\ top.idx = bot /\ sbuf = Nil
  <2>1. ~Claiming /\ Open = bot /\ LogicalBot = bot /\ top.idx <= bot
    BY <1>0, SetDepthFacts
  <2>2. sbuf = Nil
    BY <1>0 DEF OwnerInv
  <2> QED
    BY <1>0, <2>1, <2>2
<1>2. PICK a \in {"shrinkBot", "growTop"} :
        /\ own' = [at |-> a, bot |-> bot, top |-> top, depth |-> d]
        /\ a = "shrinkBot" <=> d < bot
        /\ fault' = fault
  BY <1>1 DEF SetDepthLoad, FirstStore
<1>3. /\ own' \in OwnerLocals
      /\ own'.at = a /\ own'.bot = bot /\ own'.top = top /\ own'.depth = d
  <2>1. top \in TagIdx
    BY DEF TypeOK
  <2> QED
    BY <1>2, <2>1 DEF OwnerLocals
<1>4. TypeOK' /\ NeverDies'
  BY <1>0, <1>2, <1>3 DEF TypeOK, Claiming, NeverDies
<1>5. OwnerInv'
  BY <1>0, <1>1, <1>2, <1>3 DEF OwnerInv
<1>6. ~Claiming' /\ ClaimInv'
  BY <1>0, <1>1, <1>2, <1>3 DEF ClaimInv, Claiming
<1>7. Open' = Open /\ LogicalBot' = LogicalBot
  BY <1>0, <1>1, <1>2, <1>3, <1>6 DEF Open, LogicalBot
<1> QED
  BY <1>0, <1>4, <1>5, <1>6, <1>7, QuietStep

(* set_depth to a smaller depth, the store of bot.                         *)
LEMMA SetDepthShrinkBotInv ==
  ASSUME IInv, SetDepthShrinkBot
  PROVE  IInv'
<1> USE TypeFacts DEF IInv
<1>0. /\ UNCHANGED <<top, data, sbuf, claim, thief, pushed, delivered, resets, fault>>
      /\ own.at = "shrinkBot" /\ bot' = own.depth
      /\ own' = [own EXCEPT !.at = "shrinkTop"]
  BY DEF SetDepthShrinkBot, history
<1>1. /\ ~Claiming /\ Open = top.idx /\ LogicalBot = top.idx
      /\ own.top = top /\ top.idx = bot /\ sbuf = Nil
      /\ own.depth \in 0 .. Capacity /\ own.depth < bot
  BY <1>0, SetDepthFacts DEF OwnerInv
<1>2. /\ own' \in OwnerLocals /\ own'.at = "shrinkTop"
      /\ own'.top = own.top /\ own'.depth = own.depth
  BY <1>0 DEF OwnerLocals
<1>3. TypeOK' /\ NeverDies'
  BY <1>0, <1>1, <1>2 DEF TypeOK, Claiming, NeverDies
<1>4. OwnerInv'
  BY <1>0, <1>1, <1>2 DEF OwnerInv
<1>5. ~Claiming' /\ ClaimInv'
  BY <1>0, <1>1, <1>2 DEF ClaimInv, Claiming
<1>6. Open' = Open /\ LogicalBot' = LogicalBot
  BY <1>0, <1>1, <1>2, <1>5 DEF Open, LogicalBot
<1> QED
  BY <1>0, <1>3, <1>4, <1>5, <1>6, QuietStep

(* set_depth to a smaller depth, the store of top.                         *)
LEMMA SetDepthShrinkTopInv ==
  ASSUME TagsSuffice, IInv, SetDepthShrinkTop
  PROVE  IInv'
<1> USE TypeFacts DEF IInv
<1>0. /\ UNCHANGED <<bot, data, sbuf, claim, thief, pushed, delivered, fault>>
      /\ own.at = "shrinkTop" /\ own' = IdleOwner
      /\ StoreTop((own.top.tag + 1) % SetDepthTagMod, own.depth)
  BY DEF SetDepthShrinkTop, SetDepthStoreTop
<1>1. /\ ~Claiming /\ LogicalBot = top.idx
      /\ own.top = top /\ own.depth \in 0 .. Capacity /\ own.depth \in Nat
      /\ bot = own.depth /\ sbuf = Nil
  BY <1>0, SetDepthFacts DEF OwnerInv
<1>2. /\ top' \in TagIdx /\ top'.idx = bot /\ resets' \in Nat
      /\ TagInv' /\ ThiefInv'
  BY <1>0, <1>1, StoreTopFacts, ConstantsAssumption DEF TagsSuffice
<1>3. own' \in OwnerLocals /\ own'.at = "idle"
  BY <1>0 DEF IdleOwner, OwnerLocals
<1>4. TypeOK' /\ NeverDies'
  BY <1>0, <1>2, <1>3 DEF TypeOK, Claiming, NeverDies
<1>5. OwnerInv'
  BY <1>0, <1>1, <1>3 DEF OwnerInv
<1>6. ~Claiming' /\ ClaimInv'
  BY <1>0, <1>1, <1>3 DEF ClaimInv, Claiming
<1>7. Open' = bot /\ LogicalBot' = bot /\ Live = {} /\ Live' = {}
  BY <1>0, <1>1, <1>2, <1>3, <1>6 DEF Open, LogicalBot, Live
<1>8. LiveInv'
  BY <1>2, <1>7 DEF LiveInv
<1>9. ExactlyOnce'
  BY <1>0, <1>7, ExactlyOnceFrame
<1> QED
  BY <1>2, <1>4, <1>5, <1>6, <1>8, <1>9

(* set_depth to a greater depth, the store of top.                         *)
LEMMA SetDepthGrowTopInv ==
  ASSUME TagsSuffice, IInv, SetDepthGrowTop
  PROVE  IInv'
<1> USE TypeFacts DEF IInv
<1>0. /\ UNCHANGED <<bot, data, sbuf, claim, thief, pushed, delivered, fault>>
      /\ own.at = "growTop" /\ own' = [own EXCEPT !.at = "growBot"]
      /\ StoreTop((own.top.tag + 1) % SetDepthTagMod, own.depth)
  BY DEF SetDepthGrowTop, SetDepthStoreTop
<1>1. /\ ~Claiming /\ LogicalBot = top.idx
      /\ own.top = top /\ own.depth \in 0 .. Capacity /\ own.depth \in Nat
      /\ own.depth > bot /\ sbuf = Nil
  BY <1>0, SetDepthFacts DEF OwnerInv
<1>2. /\ top' \in TagIdx /\ top'.idx = own.depth /\ resets' \in Nat
      /\ TagInv' /\ ThiefInv'
  BY <1>0, <1>1, StoreTopFacts, ConstantsAssumption DEF TagsSuffice
<1>3. own' \in OwnerLocals /\ own'.at = "growBot" /\ own'.depth = own.depth
  BY <1>0 DEF OwnerLocals
<1>4. TypeOK' /\ NeverDies'
  BY <1>0, <1>2, <1>3 DEF TypeOK, Claiming, NeverDies
<1>5. OwnerInv'
  BY <1>0, <1>1, <1>2, <1>3 DEF OwnerInv
<1>6. ~Claiming' /\ ClaimInv'
  BY <1>0, <1>1, <1>3 DEF ClaimInv, Claiming
<1>7. Open' = own.depth /\ LogicalBot' = own.depth /\ Live = {} /\ Live' = {}
  BY <1>0, <1>1, <1>2, <1>3, <1>6 DEF Open, LogicalBot, Live
<1>8. LiveInv'
  BY <1>1, <1>2, <1>7 DEF LiveInv
<1>9. ExactlyOnce'
  BY <1>0, <1>7, ExactlyOnceFrame
<1> QED
  BY <1>2, <1>4, <1>5, <1>6, <1>8, <1>9

(* set_depth to a greater depth, the store of bot.                         *)
LEMMA SetDepthGrowBotInv ==
  ASSUME IInv, SetDepthGrowBot
  PROVE  IInv'
<1> USE TypeFacts DEF IInv
<1>0. /\ UNCHANGED <<top, data, sbuf, claim, thief, pushed, delivered, resets, fault>>
      /\ own.at = "growBot" /\ bot' = own.depth /\ own' = IdleOwner
  BY DEF SetDepthGrowBot, history
<1>1. /\ ~Claiming /\ Open = top.idx /\ LogicalBot = top.idx
      /\ own.depth \in 0 .. Capacity /\ top.idx = own.depth /\ sbuf = Nil
  BY <1>0, SetDepthFacts DEF OwnerInv
<1>2. own' \in OwnerLocals /\ own'.at = "idle"
  BY <1>0 DEF IdleOwner, OwnerLocals
<1>3. TypeOK' /\ NeverDies'
  BY <1>0, <1>1, <1>2 DEF TypeOK, Claiming, NeverDies
<1>4. OwnerInv'
  BY <1>0, <1>1, <1>2 DEF OwnerInv
<1>5. ~Claiming' /\ ClaimInv'
  BY <1>0, <1>1, <1>2 DEF ClaimInv, Claiming
<1>6. Open' = Open /\ LogicalBot' = LogicalBot
  BY <1>0, <1>1, <1>2, <1>5 DEF Open, LogicalBot
<1> QED
  BY <1>0, <1>3, <1>4, <1>5, <1>6, QuietStep

(* A local collection starts to claim levels.                              *)
LEMMA CollectStartInv ==
  ASSUME IInv, NEW okay \in 0 .. Capacity, CollectStart(okay)
  PROVE  IInv'
<1> USE TypeFacts DEF IInv
<1>0. /\ UNCHANGED <<top, bot, data, sbuf, thief, pushed, delivered, resets, fault>>
      /\ own.at = "idle"
      /\ own' = [IdleOwner EXCEPT !.at = "claim"]
      /\ claim' = [from |-> bot, down |-> bot, okay |-> okay, next |-> Nil]
  BY DEF CollectStart, history
<1>1. Open = bot /\ LogicalBot = bot /\ sbuf = Nil
  BY <1>0, SetDepthFacts DEF OwnerInv
<1>2. own' \in OwnerLocals /\ own'.at = "claim"
  BY <1>0 DEF IdleOwner, OwnerLocals
<1>3. claim' \in Claims /\ claim'.from = bot /\ claim'.down = bot
  BY <1>0 DEF Claims
<1>4. Claiming'
  BY <1>3 DEF Claiming, NoClaim
<1>5. TypeOK' /\ NeverDies'
  BY <1>0, <1>2, <1>3 DEF TypeOK, NeverDies
<1>6. OwnerInv'
  BY <1>0, <1>1, <1>2 DEF OwnerInv
<1>7. Open' = Open /\ LogicalBot' = LogicalBot
  BY <1>0, <1>1, <1>2, <1>3, <1>4 DEF Open, LogicalBot
<1>8. ClaimInv'
  BY <1>1, <1>2, <1>3, <1>4, <1>7 DEF ClaimInv
<1> QED
  BY <1>0, <1>5, <1>6, <1>7, <1>8, QuietStep

(* What holds while the collector works on its claim.                      *)
LEMMA CollectFacts ==
  ASSUME IInv, own.at \in {"claim", "claimed", "forward"}
  PROVE  /\ Claiming /\ claim \in Claims
         /\ claim.from \in 0 .. Capacity /\ claim.down \in 0 .. Capacity
         /\ Open = bot /\ LogicalBot = claim.from
         /\ claim.down = bot /\ claim.down <= claim.from /\ sbuf = Nil
<1> USE TypeFacts DEF IInv
<1>1. Claiming /\ claim.down = Open /\ claim.down <= claim.from
  BY DEF ClaimInv
<1>2. claim \in Claims
  BY <1>1 DEF TypeOK
<1>3. claim.from \in 0 .. Capacity /\ claim.down \in 0 .. Capacity
  BY <1>2 DEF Claims
<1>4. Open = bot /\ LogicalBot = claim.from /\ sbuf = Nil
  BY <1>1 DEF Open, LogicalBot, OwnerInv
<1> QED
  BY <1>1, <1>2, <1>3, <1>4

(* The claiming loop ends.                                                 *)
LEMMA CollectClaimedInv ==
  ASSUME IInv, CollectClaimed
  PROVE  IInv'
<1> USE TypeFacts DEF IInv
<1>0. /\ UNCHANGED <<top, bot, data, sbuf, thief, pushed, delivered, resets, fault>>
      /\ own.at \in {"claim", "claimed", "forward"}
      /\ own' = [IdleOwner EXCEPT !.at = "forward"]
  BY DEF CollectClaimed, history
<1>1. PICK n \in {claim.from, claim.down} : claim' = [claim EXCEPT !.next = n]
  BY DEF CollectClaimed
<1>2. n \in 0 .. Capacity /\ claim.down <= n
  BY <1>0, <1>1, CollectFacts
<1>3. own' \in OwnerLocals /\ own'.at = "forward"
  BY <1>0 DEF IdleOwner, OwnerLocals
<1>4. /\ claim' \in Claims /\ claim'.from = claim.from /\ claim'.down = claim.down
      /\ claim'.next = n
  BY <1>0, <1>1, <1>2, CollectFacts DEF Claims
<1>5. claim'.from \in Nat
  BY <1>0, <1>4, CollectFacts
<1>6. Claiming'
  BY <1>5 DEF Claiming, NoClaim
<1>7. TypeOK' /\ NeverDies'
  BY <1>0, <1>3, <1>4 DEF TypeOK, NeverDies
<1>8. OwnerInv'
  BY <1>0, <1>3, CollectFacts DEF OwnerInv
<1>9. Open' = Open /\ LogicalBot' = LogicalBot
  BY <1>0, <1>3, <1>4, <1>6, CollectFacts DEF Open, LogicalBot
<1>10. ClaimInv'
  BY <1>0, <1>2, <1>3, <1>4, <1>6, <1>9, CollectFacts DEF ClaimInv
<1> QED
  BY <1>0, <1>7, <1>8, <1>9, <1>10, QuietStep

(* A claimed task is moved and its slot overwritten.                       *)
LEMMA CollectForwardInv ==
  ASSUME IInv, CollectForward
  PROVE  IInv'
<1> USE TypeFacts DEF IInv
<1>0. /\ UNCHANGED <<top, bot, sbuf, own, thief, pushed, delivered, resets, fault>>
      /\ own.at = "forward" /\ claim.next < claim.from
      /\ data' = [data EXCEPT ![claim.next].at = @ + 1]
      /\ claim' = [claim EXCEPT !.next = @ + 1]
  BY DEF CollectForward, history
<1>1. claim.next \in 0 .. Capacity /\ claim.down <= claim.next
  BY <1>0 DEF ClaimInv
<1>2. claim.next + 1 \in 0 .. Capacity /\ claim.next \in 0 .. Capacity - 1
  BY <1>0, <1>1, CollectFacts
<1>3. claim.next \in Live
  BY <1>0, <1>1, <1>2, CollectFacts, EndsFacts DEF Live
<1>4. PICK o \in Object : o = data[claim.next]
  BY <1>3 DEF LiveInv
<1>5. data' = [data EXCEPT ![claim.next] = [o EXCEPT !.at = o.at + 1]]
  BY <1>0, <1>2, <1>4
<1>6. [o EXCEPT !.at = o.at + 1] \in Object /\ [o EXCEPT !.at = o.at + 1].task = o.task
  BY <1>4 DEF Object
<1>7. /\ data' \in [0 .. Capacity - 1 -> Slot]
      /\ data'[claim.next] \in Object /\ data'[claim.next].task = data[claim.next].task
      /\ \A i \in 0 .. Capacity - 1 : i # claim.next => data'[i] = data[i]
  BY <1>2, <1>4, <1>5, <1>6 DEF Slot
<1>8. /\ claim' \in Claims /\ claim'.from = claim.from /\ claim'.down = claim.down
      /\ claim'.next = claim.next + 1
  BY <1>0, <1>2, CollectFacts DEF Claims
<1>9. claim'.from \in Nat
  BY <1>0, <1>8, CollectFacts
<1>10. Claiming'
  BY <1>9 DEF Claiming, NoClaim
<1>11. TypeOK' /\ NeverDies'
  BY <1>0, <1>7, <1>8 DEF TypeOK, NeverDies
<1>12. OwnerInv'
  BY <1>0 DEF OwnerInv
<1>13. Open' = Open /\ LogicalBot' = LogicalBot /\ Live' = Live
  BY <1>0, <1>8, <1>10, CollectFacts DEF Open, LogicalBot, Live
<1>14. ClaimInv'
  BY <1>0, <1>1, <1>2, <1>8, <1>10, <1>13, CollectFacts DEF ClaimInv
<1>15. \A i \in Live : data'[i] \in Object /\ data'[i].task = data[i].task
  <2>1. \A i \in Live : i \in 0 .. Capacity - 1 /\ data[i] \in Object
    BY EndsFacts DEF Live, LiveInv
  <2> QED
    BY <1>7, <2>1
<1>16. LiveInv'
  BY <1>0, <1>13, <1>15 DEF LiveInv
<1>17. ThiefInv'
  <2>1. top.idx < Open => data'[top.idx] = data[top.idx]
    BY <1>0, <1>1, <1>2, <1>7, CollectFacts
  <2> QED
    BY <1>0, <1>13, <2>1, ThiefFrame
<1>18. ExactlyOnce'
  BY <1>0, <1>13, <1>15, ExactlyOnceFrame
<1>19. TagInv'
  BY <1>0 DEF TagInv
<1> QED
  BY <1>11, <1>12, <1>14, <1>16, <1>17, <1>18, <1>19

(* The claimed levels are given back.                                      *)
LEMMA CollectReleaseInv ==
  ASSUME IInv, CollectRelease
  PROVE  IInv'
<1> USE TypeFacts DEF IInv
<1>0. /\ UNCHANGED <<top, data, sbuf, thief, pushed, delivered, resets, fault>>
      /\ own.at = "forward"
      /\ bot' = claim.from /\ claim' = NoClaim /\ own' = IdleOwner
  BY DEF CollectRelease, history
<1>1. own' \in OwnerLocals /\ own'.at = "idle"
  BY <1>0 DEF IdleOwner, OwnerLocals
<1>2. ~Claiming' /\ ClaimInv'
  BY <1>0, <1>1 DEF Claiming, ClaimInv
<1>3. TypeOK' /\ NeverDies'
  BY <1>0, <1>1, <1>2, CollectFacts DEF TypeOK, NeverDies
<1>4. OwnerInv'
  BY <1>0, <1>1, CollectFacts DEF OwnerInv
<1>5. Open <= Open' /\ LogicalBot' = LogicalBot /\ Open' = LogicalBot' /\ Open' \in Nat
  BY <1>0, <1>1, <1>2, CollectFacts DEF Open, LogicalBot
<1>6. Live' = Live
  BY <1>0, <1>5 DEF Live
<1>7. LiveInv'
  BY <1>0, <1>5, <1>6, EndsFacts DEF LiveInv
<1>8. ThiefInv'
  <2>1. top.idx < Open => top.idx < Open'
    BY <1>5, EndsFacts
  <2> QED
    BY <1>0, <2>1, ThiefFrame
<1>9. ExactlyOnce'
  BY <1>0, <1>6, ExactlyOnceFrame
<1>10. TagInv'
  BY <1>0 DEF TagInv
<1> QED
  BY <1>2, <1>3, <1>4, <1>7, <1>8, <1>9, <1>10

(* A step that changes nothing.                                            *)
LEMMA StutterInv ==
  ASSUME IInv, UNCHANGED vars
  PROVE  IInv'
<1> USE DEF IInv
<1>0. UNCHANGED <<top, bot, data, sbuf, own, claim, thief, pushed, delivered, resets, fault>>
  BY DEF vars, history
<1>1. TypeOK' /\ NeverDies'
  BY <1>0 DEF TypeOK, Claiming, NeverDies
<1>2. OwnerInv'
  BY <1>0 DEF OwnerInv
<1>3. Open' = Open /\ LogicalBot' = LogicalBot
  BY <1>0 DEF Open, LogicalBot, Claiming
<1>4. ClaimInv'
  BY <1>0, <1>3 DEF ClaimInv, Claiming
<1> QED
  BY <1>0, <1>1, <1>2, <1>3, <1>4, QuietStep

(* The invariant is inductive as long as the tags do not wrap.             *)
LEMMA NextInv == TagsSuffice /\ IInv /\ [Next]_vars => IInv'
<1> SUFFICES ASSUME TagsSuffice, IInv, [Next]_vars PROVE IInv'
  OBVIOUS
<1>1. CASE PushBot
  BY <1>1, PushFullInv, PushStoreBotInv, PushStoreDataInv DEF PushBot
<1>2. CASE TryPopBot
  BY <1>2, PopBotDecrementInv, PopBotLoadTopInv, PopBotCasWonInv, PopBotCasLostInv,
     PopBotResetTopInv, DrainInv DEF TryPopBot
<1>3. CASE SetDepth
  BY <1>3, SetDepthLoadInv, SetDepthShrinkBotInv, SetDepthShrinkTopInv,
     SetDepthGrowTopInv, SetDepthGrowBotInv DEF SetDepth
<1>4. CASE CollectLocal
  BY <1>4, CollectStartInv, CollectClaimedInv, CollectForwardInv, CollectReleaseInv
     DEF CollectLocal
<1>5. CASE \E w \in Thieves : TryPopTop(w)
  BY <1>5, PopTopLoadTopInv, PopTopLoadBotInv, PopTopLoadDataInv, PopTopCasInv
     DEF TryPopTop
<1>6. CASE UNCHANGED vars
  BY <1>6, StutterInv
<1> QED
  BY <1>1, <1>2, <1>3, <1>4, <1>5, <1>6 DEF Next

-------------------------------------------------------------------------------
(* Theorems *)

(* The inductive invariant holds in every behaviour.                       *)
THEOREM Invariance == TagsSuffice => (Spec => []IInv)
<1> SUFFICES ASSUME TagsSuffice PROVE Spec => []IInv
  OBVIOUS
<1>1. Init => IInv
  BY InitInv
<1>2. IInv /\ [Next]_vars => IInv'
  BY NextInv
<1> QED
  BY <1>1, <1>2, PTL DEF Spec

(* The shared words, the locals and the histories keep their types.        *)
THEOREM TypeCorrect == TagsSuffice => (Spec => []TypeOK)
<1>1. IInv => TypeOK
  BY DEF IInv
<1> QED
  BY <1>1, Invariance, PTL

(* No task is lost and none is given to two workers.                       *)
THEOREM ExactlyOnceHolds == TagsSuffice => (Spec => []ExactlyOnce)
<1>1. IInv => ExactlyOnce
  BY DEF IInv
<1> QED
  BY <1>1, Invariance, PTL

(* The DIE checks of abp-deque.c never fire.                               *)
THEOREM NeverDiesHolds == TagsSuffice => (Spec => []NeverDies)
<1>1. IInv => NeverDies
  BY DEF IInv
<1> QED
  BY <1>1, Invariance, PTL

(* A thief that wins its CAS holds what is in the slot now.                *)
THEOREM WinnerIsCurrentHolds == TagsSuffice => (Spec => []WinnerIsCurrent)
<1>1. IInv => WinnerIsCurrent
  BY DEF IInv, ThiefInv, WinnerIsCurrent
<1> QED
  BY <1>1, Invariance, PTL

(* The claiming loop's count of levels agrees with bot.                    *)
THEOREM ClaimAgreesWithBotHolds == TagsSuffice => (Spec => []ClaimAgreesWithBot)
<1>1. IInv => ClaimAgreesWithBot
  BY CollectFacts DEF ClaimAgreesWithBot, OwnBot
<1> QED
  BY <1>1, Invariance, PTL

(* set_depth never shows a thief a task between its two stores.            *)
THEOREM SetDepthLooksEmptyHolds == TagsSuffice => (Spec => []SetDepthLooksEmpty)
<1>1. IInv => SetDepthLooksEmpty
  <2> SUFFICES ASSUME IInv PROVE SetDepthLooksEmpty
    OBVIOUS
  <2> QED
    BY TypeFacts DEF IInv, OwnerInv, SetDepthLooksEmpty
<1> QED
  BY <1>1, Invariance, PTL

-------------------------------------------------------------------------------
(* The refinement: every step leaves the live part of the array alone, adds  *)
(* the deepest task, or takes the deepest or the shallowest one out.         *)
(*                                                                           *)
(* The steps that matter are four: the store of bot that ends a push, the    *)
(* load of top or the compare-and-swap that decides a pop, and the           *)
(* compare-and-swap of a thief.  The others keep the live interval, or work  *)
(* on an empty one.                                                          *)

Refines == Deque!Next \/ UNCHANGED Deque!vars

(* What a step may do to the array: nothing that clients see, ...          *)
LEMMA KeepsItems ==
  ASSUME Live' = Live, \A i \in Live : data'[i].task = data[i].task, delivered' = delivered
  PROVE  Refines
BY DEF Refines, Deque!vars

(* ... or the task at an end goes to its taker.                            *)
LEMMA TakesItem ==
  ASSUME NEW w, NEW d \in Live, Live' = Live \ {d}, data' = data,
         delivered' = [delivered EXCEPT ![data[d].task][w] = @ + 1]
  PROVE  Deque!Take(w, d) /\ d \in Deque!Depths
BY DEF Deque!Take, Deque!Depths

(* Where the owner's control point says that the deque is empty.           *)
LEMMA EmptyAt ==
  ASSUME IInv, own.at \in {"shrinkBot", "shrinkTop", "growTop", "growBot"}
  PROVE  Live = {} /\ ~Claiming /\ LogicalBot = top.idx
<1>1. ~Claiming
  BY DEF IInv, ClaimInv
<1>2. LogicalBot = top.idx /\ top.idx \in Nat
  BY <1>1, TypeFacts DEF IInv, LogicalBot
<1> QED
  BY <1>1, <1>2 DEF Live

-------------------------------------------------------------------------------
(* push_bot *)

LEMMA PushStoreDataRefines ==
  ASSUME IInv, NEW t \in Task, PushStoreData(t) PROVE Refines
<1> USE TypeFacts DEF IInv
<1>1. own.at = "idle" /\ ~Claiming /\ LogicalBot = bot
  BY DEF PushStoreData, ClaimInv, LogicalBot
<1>2. own'.at = "push" /\ UNCHANGED <<top, bot, claim, delivered>>
  BY DEF PushStoreData, OwnerLocals, history
<1>3. Live' = Live /\ Live = top.idx .. bot - 1
  BY <1>1, <1>2 DEF Live, LogicalBot, Claiming
<1>4. \A i \in Live : data'[i] = data[i]
  BY <1>3 DEF PushStoreData
<1> QED
  BY <1>2, <1>3, <1>4, KeepsItems

LEMMA PushStoreBotRefines ==
  ASSUME IInv, PushStoreBot PROVE Refines
<1> USE TypeFacts DEF IInv
<1>0. PICK t \in {data[bot].task}, d \in {bot} : TRUE
  OBVIOUS
<1>1. own.at = "push" /\ ~Claiming /\ LogicalBot = bot
  BY DEF PushStoreBot, ClaimInv, LogicalBot
<1>2. /\ own' = IdleOwner /\ own'.at = "idle" /\ bot' = bot + 1
      /\ UNCHANGED <<top, data, claim, delivered>>
  BY <1>1 DEF PushStoreBot, IdleOwner, OwnerInv
<1>3. /\ t = data[bot].task /\ t \in Task
      /\ d = bot /\ d \in 0 .. Capacity - 1
  BY <1>0, <1>1 DEF OwnerInv, Object
<1>4. Live = top.idx .. bot - 1 /\ top.idx <= bot
  BY <1>1 DEF Live, LiveInv, Open
<1>5. Live' = Live \union {d}
  BY <1>1, <1>2, <1>3, <1>4 DEF Live, LogicalBot, Claiming
<1>6. Deque!Push(t, d)
  <2>1. \A i \in Live : i < d
    BY <1>3, <1>4
  <2>2. Live # {} => d - 1 \in Live
    BY <1>3, <1>4
  <2>3. [i \in Live' |-> data'[i].task]
          = [i \in Live \union {d} |-> IF i = d THEN t ELSE [j \in Live |-> data[j].task][i]]
    BY <1>2, <1>3, <1>5
  <2> QED
    BY <1>2, <2>1, <2>2, <2>3 DEF Deque!Push, Deque!Depths
<1> QED
  BY <1>3, <1>6 DEF Refines, Deque!Next

-------------------------------------------------------------------------------
(* try_pop_bot *)

LEMMA PopBotDecrementRefines ==
  ASSUME IInv, PopBotDecrement PROVE Refines
<1> USE TypeFacts DEF IInv
<1>1. own.at \in {"idle", "claim"} /\ UNCHANGED <<top, bot, data, claim, delivered>>
  BY DEF PopBotDecrement, history
<1>2. /\ own'.at \in {"claimed", "idle", "loadTop"}
      /\ own'.at = "claimed" => Claiming
      /\ own'.at = "loadTop" => own'.bot + 1 = bot
  <2>1. CASE bot = 0
    BY <2>1 DEF PopBotDecrement, AtLevelZero, PopBotFails, IdleOwner
  <2>2. CASE bot # 0
    <3>1. own' = [IdleOwner EXCEPT !.at = "loadTop", !.bot = bot - 1]
      BY <2>2 DEF PopBotDecrement, AtLevelZero
    <3> QED
      BY <3>1 DEF IdleOwner
  <2> QED
    BY <2>1, <2>2
<1>3. Claiming' = Claiming /\ (own.at = "idle" => ~Claiming)
  BY <1>1 DEF Claiming, ClaimInv
<1>4. ~Claiming => own.at = "idle"
  BY <1>1 DEF ClaimInv
<1>5. LogicalBot' = LogicalBot
  BY <1>1, <1>2, <1>3, <1>4 DEF LogicalBot
<1> QED
  BY <1>1, <1>5, KeepsItems DEF Live

LEMMA DrainRefines ==
  ASSUME IInv, Drain PROVE Refines
<1> USE DEF IInv
<1>1. UNCHANGED <<top, data, own, claim, delivered>> /\ own.at \in {"loadTop", "resetTop"}
  BY DEF Drain, OwnerInv, history
<1>2. LogicalBot' = LogicalBot
  BY <1>1 DEF LogicalBot, Claiming
<1> QED
  BY <1>1, <1>2, KeepsItems DEF Live

LEMMA PopBotLoadTopRefines ==
  ASSUME IInv, PopBotLoadTop PROVE Refines
<1> USE TypeFacts DEF IInv
<1>0. /\ UNCHANGED <<top, bot, data>>
      /\ own.at = "loadTop" /\ own.bot \in 0 .. Capacity - 1 /\ bot = own.bot
  BY DEF PopBotLoadTop, Drained, OwnerInv
<1>1. /\ Open = own.bot + 1
      /\ Claiming => LogicalBot = claim.from
      /\ ~Claiming => LogicalBot = own.bot + 1
  BY <1>0 DEF Open, LogicalBot
<1>2. CASE own.bot > top.idx
  <2>1. own.bot \in Live
    BY <1>0, <1>1, <1>2, EndsFacts DEF Live
  <2>2. data[own.bot] \in Object /\ data[own.bot] # NONE
    BY <2>1, ConstantsAssumption DEF LiveInv, Object
  <2>3. PopBotSucceeds(data[own.bot])
    BY <1>0, <1>2 DEF PopBotLoadTop
  <2>4. CASE Claiming
    <3>1. claim' = [claim EXCEPT !.down = @ - 1] /\ delivered' = delivered
      BY <2>2, <2>3, <2>4 DEF PopBotSucceeds
    <3>2. claim \in Claims
      BY <2>4 DEF TypeOK
    <3>4. Claiming' /\ claim'.from = claim.from
      BY <3>1, <3>2, EndsFacts, <2>4 DEF Claims, Claiming, NoClaim
    <3>5. Live' = Live
      BY <1>0, <1>1, <2>4, <3>4 DEF Live, LogicalBot
    <3> QED
      BY <1>0, <3>1, <3>5, KeepsItems
  <2>5. CASE ~Claiming
    <3>1. /\ own' = IdleOwner /\ claim' = claim
          /\ delivered' = [delivered EXCEPT ![data[own.bot].task][Owner] = @ + 1]
      BY <2>2, <2>3, <2>5 DEF PopBotSucceeds, Deliver
    <3>2. own'.at = "idle" /\ ~Claiming'
      BY <2>5, <3>1 DEF IdleOwner, Claiming
    <3>3. Live = top.idx .. own.bot /\ Live' = top.idx .. own.bot - 1
      BY <1>0, <1>1, <2>5, <3>2 DEF LogicalBot, Live
    <3>4. Live' = Live \ {own.bot} /\ \A i \in Live : i <= own.bot
      BY <1>0, <3>3
    <3> QED
      BY <1>0, <2>1, <3>1, <3>4, TakesItem DEF Refines, Deque!Next, Deque!PopBot, Deque!Depths
  <2> QED
    BY <2>4, <2>5
<1>3. CASE own.bot = top.idx
  <2>0. own' = [own EXCEPT !.at = "cas", !.top = top] /\ UNCHANGED <<claim, delivered>>
    BY <1>0, <1>3 DEF PopBotLoadTop
  <2>1. own'.at = "cas" /\ own'.bot = own.bot /\ UNCHANGED <<claim, delivered>>
    BY <2>0 DEF OwnerLocals
  <2>2. LogicalBot' = LogicalBot
    BY <1>0, <2>1 DEF LogicalBot, Claiming
  <2> QED
    BY <1>0, <2>1, <2>2, KeepsItems DEF Live
<1>4. CASE own.bot < top.idx
  <2>0. own' = [own EXCEPT !.at = "resetTop", !.top = top] /\ UNCHANGED <<claim, delivered>>
    BY <1>0, <1>4 DEF PopBotLoadTop
  <2>1. own'.at = "resetTop" /\ UNCHANGED <<claim, delivered>>
    BY <2>0 DEF OwnerLocals
  <2>2. top.idx = own.bot + 1
    BY <1>0, <1>1, <1>4 DEF LiveInv
  <2>3. LogicalBot' = LogicalBot
    BY <1>0, <1>1, <2>1, <2>2 DEF LogicalBot, Claiming
  <2> QED
    BY <1>0, <2>1, <2>3, KeepsItems DEF Live
<1> QED
  BY <1>0, <1>2, <1>3, <1>4

(* The last task: the compare-and-swap of the owner decides.               *)
LEMMA PopBotCasWonRefines ==
  ASSUME IInv, PopBotCasWon PROVE Refines
<1> USE TypeFacts DEF IInv
<1>0. /\ own.at = "cas" /\ top = own.top /\ own.bot \in 0 .. Capacity - 1
      /\ own.bot = top.idx /\ bot = own.bot
      /\ top'.idx = top.idx /\ UNCHANGED <<bot, data>>
  BY DEF PopBotCasWon, OwnerInv, StoreTop
<1>1. /\ Claiming => LogicalBot = claim.from
      /\ ~Claiming => LogicalBot = own.bot + 1
      /\ Open = own.bot + 1
  BY <1>0 DEF LogicalBot, Open
<1>2. own.bot \in Live
  BY <1>0, <1>1, EndsFacts DEF Live
<1>3. data[own.bot] \in Object /\ data[own.bot] # NONE
  BY <1>2, ConstantsAssumption DEF LiveInv, Object
<1>4. PopBotSucceeds(data[own.bot])
  BY DEF PopBotCasWon
<1>5. CASE Claiming
  <2>1. claim' = [claim EXCEPT !.down = @ - 1] /\ delivered' = delivered
    BY <1>3, <1>4, <1>5 DEF PopBotSucceeds
  <2>2. Claiming' /\ claim'.from = claim.from
    BY <2>1, <1>5, EndsFacts DEF Claims, Claiming, NoClaim
  <2>3. Live' = Live
    BY <1>0, <1>1, <1>5, <2>2 DEF Live, LogicalBot
  <2> QED
    BY <1>0, <2>1, <2>3, KeepsItems
<1>6. CASE ~Claiming
  <2>1. /\ own' = IdleOwner /\ claim' = claim
        /\ delivered' = [delivered EXCEPT ![data[own.bot].task][Owner] = @ + 1]
    BY <1>3, <1>4, <1>6 DEF PopBotSucceeds, Deliver
  <2>2. own'.at = "idle" /\ ~Claiming'
    BY <1>6, <2>1 DEF IdleOwner, Claiming
  <2>3. Live = {own.bot} /\ Live' = {}
    BY <1>0, <1>1, <1>6, <2>2 DEF LogicalBot, Live
  <2>4. Live' = Live \ {own.bot} /\ \A i \in Live : i <= own.bot
    BY <1>0, <2>3
  <2> QED
    BY <1>0, <1>2, <2>1, <2>4, TakesItem DEF Refines, Deque!Next, Deque!PopBot, Deque!Depths
<1> QED
  BY <1>5, <1>6

LEMMA PopBotCasLostRefines ==
  ASSUME IInv, PopBotCasLost PROVE Refines
<1> USE TypeFacts DEF IInv
<1>0. /\ own.at = "cas" /\ own.bot \in 0 .. Capacity - 1
      /\ top = [tag |-> own.top.tag, idx |-> own.bot + 1]
      /\ top.idx = own.bot + 1
      /\ UNCHANGED <<top, data, claim, delivered>>
  <2>1. own.at = "cas" /\ top # own.top /\ UNCHANGED <<top, data, claim, delivered>>
    BY DEF PopBotCasLost
  <2> QED
    BY <2>1 DEF OwnerInv
<1>1. own'.at = "resetTop"
  <2>1. own' = [own EXCEPT !.at = "resetTop", !.top.idx = own.bot + 1]
    BY <1>0 DEF PopBotCasLost
  <2> QED
    BY <2>1 DEF OwnerLocals
<1>2. LogicalBot' = LogicalBot
  BY <1>0, <1>1 DEF LogicalBot, Claiming
<1> QED
  BY <1>0, <1>2, KeepsItems DEF Live

LEMMA PopBotResetTopRefines ==
  ASSUME IInv, PopBotResetTop PROVE Refines
<1> USE TypeFacts DEF IInv
<1>0. /\ own.at = "resetTop" /\ own.top = top /\ bot = top.idx
      /\ top'.idx = top.idx /\ UNCHANGED <<bot, data, claim, delivered>>
  BY DEF PopBotResetTop, OwnerInv, StoreTop, Drained
<1>1. own'.at = IF Claiming THEN "claimed" ELSE "idle"
  BY DEF PopBotResetTop, PopBotFails, IdleOwner
<1>2. LogicalBot' = LogicalBot
  BY <1>0, <1>1 DEF LogicalBot, Claiming
<1> QED
  BY <1>0, <1>2, KeepsItems DEF Live

-------------------------------------------------------------------------------
(* try_pop_top *)

(* A thief whose compare-and-swap succeeds takes the shallowest task.      *)
LEMMA PopTopCasRefines ==
  ASSUME IInv, NEW w \in Thieves, PopTopCas(w) PROVE Refines
<1> USE TypeFacts DEF IInv
<1>0. UNCHANGED <<bot, data, own, claim>> /\ thief[w].at = "cas"
  BY DEF PopTopCas
<1>1. CASE top # thief[w].top
  <2>1. UNCHANGED <<top, delivered>>
    BY <1>1 DEF PopTopCas
  <2> QED
    BY <1>0, <2>1, KeepsItems DEF Live, LogicalBot, Claiming
<1>2. CASE top = thief[w].top
  <2>0. PICK d \in {top.idx} : TRUE
    OBVIOUS
  <2>1. top.idx < Open /\ thief[w].elem = data[top.idx]
    BY <1>0, <1>2 DEF ThiefInv
  <2>2. top.idx \in Live
    BY <2>1, EndsFacts DEF Live
  <2>3. data[top.idx] \in Object /\ data[top.idx] # NONE
    BY <2>2, ConstantsAssumption DEF LiveInv, Object
  <2>4. /\ delivered' = [delivered EXCEPT ![data[top.idx].task][w] = @ + 1]
        /\ top' = [top EXCEPT !.idx = @ + 1] /\ top'.idx = top.idx + 1
    BY <1>2, <2>1, <2>3 DEF PopTopCas, Deliver, Stolen
  <2>5. own.at \notin {"resetTop", "shrinkBot", "shrinkTop", "growTop", "growBot"}
    BY <2>1 DEF Open
  <2>6. LogicalBot' = LogicalBot
    <3>1. own.at \in {"idle", "push", "loadTop", "cas", "claim", "claimed", "forward"}
      BY <2>5 DEF OwnerLocals
    <3> QED
      BY <1>0, <3>1 DEF LogicalBot, Claiming, ClaimInv
  <2>7. Live' = Live \ {top.idx} /\ \A i \in Live : top.idx <= i
    BY <2>4, <2>6, EndsFacts DEF Live
  <2>8. Deque!PopTop(w, d) /\ d \in Deque!Depths
    <3>1. Deque!Take(w, d) /\ d \in Deque!Depths
      BY <1>0, <2>0, <2>2, <2>4, <2>7, TakesItem
    <3>2. \A i \in Deque!Depths : d <= i
      BY <2>0, <2>7 DEF Deque!Depths
    <3> QED
      BY <3>1, <3>2 DEF Deque!PopTop
  <2> QED
    BY <2>8 DEF Refines, Deque!Next
<1> QED
  BY <1>1, <1>2

-------------------------------------------------------------------------------
(* set_depth works on an empty deque.                                      *)
LEMMA SetDepthRefines ==
  ASSUME IInv, SetDepth PROVE Refines
<1> USE TypeFacts DEF IInv
<1>1. CASE \E d \in 0 .. Capacity : SetDepthLoad(d)
  <2>1. PICK d \in 0 .. Capacity : SetDepthLoad(d)
    BY <1>1
  <2>2. own.at = "idle" /\ ~Claiming /\ UNCHANGED <<top, bot, data, claim, delivered>>
    BY <2>1 DEF SetDepthLoad, ClaimInv
  <2>3. CASE own' = own
    BY <2>2, <2>3, KeepsItems DEF Live, LogicalBot, Claiming
  <2>4. CASE own' # own
    <3>1. top.idx = bot /\ own'.at \in {"shrinkBot", "growTop"}
      <4>1. top.idx = bot
        BY <2>1, <2>4 DEF SetDepthLoad
      <4>2. own' = [at |-> FirstStore(d), bot |-> bot, top |-> top, depth |-> d]
        BY <2>1, <4>1 DEF SetDepthLoad
      <4> QED
        BY <4>1, <4>2 DEF FirstStore
    <3>2. LogicalBot' = LogicalBot
      BY <2>2, <3>1 DEF LogicalBot, Claiming
    <3> QED
      BY <2>2, <3>2, KeepsItems DEF Live
  <2> QED
    BY <2>3, <2>4
<1>2. ASSUME own.at \in {"shrinkBot", "shrinkTop", "growTop", "growBot"},
             UNCHANGED <<data, claim, delivered>>,
             \/ own'.at \in {"shrinkTop", "growBot"}
             \/ own'.at = "idle" /\ bot' = top'.idx,
             top'.idx \in Nat
      PROVE  Refines
  <2>1. Live = {} /\ ~Claiming /\ ~Claiming'
    BY <1>2, EmptyAt DEF Claiming
  <2>2. LogicalBot' = top'.idx
    BY <1>2, <2>1 DEF LogicalBot
  <2>3. Live' = {}
    BY <1>2, <2>2 DEF Live
  <2> QED
    BY <1>2, <2>1, <2>3, KeepsItems
<1>3. CASE SetDepthShrinkBot
  BY <1>2, <1>3 DEF SetDepthShrinkBot, OwnerLocals, history
<1>4. CASE SetDepthShrinkTop
  BY <1>2, <1>4 DEF SetDepthShrinkTop, SetDepthStoreTop, StoreTop, OwnerInv, IdleOwner
<1>5. CASE SetDepthGrowTop
  BY <1>2, <1>5 DEF SetDepthGrowTop, SetDepthStoreTop, StoreTop, OwnerInv, OwnerLocals
<1>6. CASE SetDepthGrowBot
  BY <1>2, <1>6 DEF SetDepthGrowBot, OwnerInv, IdleOwner, history
<1> QED
  BY <1>1, <1>3, <1>4, <1>5, <1>6 DEF SetDepth

-------------------------------------------------------------------------------
(* A collection moves tasks and keeps what the deque holds.                *)
LEMMA CollectRefines ==
  ASSUME IInv, CollectLocal PROVE Refines
<1> USE TypeFacts DEF IInv
<1>1. CASE \E okay \in 0 .. Capacity : CollectStart(okay)
  <2>1. /\ own.at = "idle" /\ ~Claiming /\ claim'.from = bot
        /\ UNCHANGED <<top, bot, data, delivered>>
    BY <1>1 DEF CollectStart, ClaimInv, history
  <2>2. Claiming' /\ LogicalBot' = bot
    BY <2>1 DEF Claiming, NoClaim, LogicalBot
  <2>3. LogicalBot = bot
    BY <2>1 DEF LogicalBot
  <2> QED
    BY <2>1, <2>2, <2>3, KeepsItems DEF Live
<1>2. CASE CollectClaimed \/ CollectForward
  <2>1. Claiming /\ claim \in Claims
    BY <1>2 DEF CollectClaimed, CollectForward, ClaimInv, TypeOK
  <2>2. claim'.from = claim.from /\ UNCHANGED <<top, bot, delivered>>
    BY <1>2, <2>1 DEF CollectClaimed, CollectForward, Claims, history
  <2>3. Claiming'
    BY <2>1, <2>2 DEF Claiming, NoClaim, Claims
  <2>4. LogicalBot' = LogicalBot /\ Live' = Live
    BY <2>1, <2>2, <2>3 DEF LogicalBot, Live
  <2>5. \A i \in Live : data'[i].task = data[i].task
    <3>1. CASE CollectClaimed
      BY <3>1 DEF CollectClaimed
    <3>2. CASE CollectForward
      <4>1. data' = [data EXCEPT ![claim.next].at = @ + 1]
        BY <3>2 DEF CollectForward
      <4>2. ASSUME NEW i \in Live PROVE data'[i].task = data[i].task
        <5>1. i \in 0 .. Capacity - 1 /\ data[i] \in Object
          BY EndsFacts DEF Live, LiveInv
        <5>2. data'[i] = data[i] \/ data'[i] = [data[i] EXCEPT !.at = @ + 1]
          BY <4>1, <5>1
        <5> QED
          BY <5>1, <5>2 DEF Object
      <4> QED
        BY <4>2
    <3> QED
      BY <1>2, <3>1, <3>2
  <2> QED
    BY <2>2, <2>4, <2>5, KeepsItems
<1>3. CASE CollectRelease
  <2>1. /\ Claiming /\ bot' = claim.from /\ claim' = NoClaim /\ own'.at = "idle"
        /\ UNCHANGED <<top, data, delivered>>
    BY <1>3 DEF CollectRelease, ClaimInv, IdleOwner, history
  <2>2. LogicalBot' = LogicalBot
    BY <2>1 DEF LogicalBot, Claiming
  <2> QED
    BY <2>1, <2>2, KeepsItems DEF Live
<1> QED
  BY <1>1, <1>2, <1>3 DEF CollectLocal

-------------------------------------------------------------------------------
(* Every step is a step of WorkDeque or one that its clients do not see.   *)
LEMMA NextRefines ==
  ASSUME IInv, [Next]_vars PROVE Refines
<1>1. CASE UNCHANGED vars
  <2>1. UNCHANGED <<top, bot, data, own, claim, delivered>>
    BY <1>1 DEF vars, history
  <2> QED
    BY <2>1, KeepsItems DEF Live, LogicalBot, Claiming
<1>2. CASE PushBot
  <2>1. CASE PushFull
    BY <2>1, KeepsItems DEF PushFull, Live, LogicalBot, Claiming
  <2> QED
    BY <1>2, <2>1, PushStoreDataRefines, PushStoreBotRefines DEF PushBot
<1>3. CASE TryPopBot
  BY <1>3, PopBotDecrementRefines, PopBotLoadTopRefines, PopBotCasWonRefines,
     PopBotCasLostRefines, PopBotResetTopRefines, DrainRefines DEF TryPopBot
<1>4. ASSUME NEW w \in Thieves, TryPopTop(w) PROVE Refines
  <2>1. CASE PopTopLoadTop(w) \/ PopTopLoadBot(w) \/ PopTopLoadData(w)
    <3>1. UNCHANGED <<top, bot, data, own, claim, delivered>>
      BY <2>1 DEF PopTopLoadTop, PopTopLoadBot, PopTopLoadData, history
    <3> QED
      BY <3>1, KeepsItems DEF Live, LogicalBot, Claiming
  <2> QED
    BY <1>4, <2>1, PopTopCasRefines DEF TryPopTop
<1> QED
  BY <1>1, <1>2, <1>3, <1>4, SetDepthRefines, CollectRefines DEF Next

\* abp-deque.c with the local collector implements the deque that the
\* scheduler relies on: tasks leave at the deep end for the owner, at the
\* shallow end for the thieves, and to one caller.
THEOREM ImplementsWorkDequeHolds == TagsSuffice => (Spec => ImplementsWorkDeque)
<1>1. Init => Deque!Init
  <2> SUFFICES ASSUME Init PROVE Deque!Init
    OBVIOUS
  <2>1. Live = {}
    BY DEF Init, Claiming, NoClaim, IdleOwner, Live, LogicalBot
  <2>2. [i \in Live |-> data[i].task] = [i \in {} |-> 0]
    BY <2>1
  <2> QED
    BY <2>2 DEF Init, Deque!Init, Workers, Deque!Workers
<1>2. IInv /\ [Next]_vars => [Deque!Next]_(Deque!vars)
  BY NextRefines DEF Refines
<1>3. TagsSuffice => (Spec => []IInv)
  BY Invariance
<1>4. SUFFICES ASSUME TagsSuffice PROVE Spec => ImplementsWorkDeque
  OBVIOUS
<1>5. Spec => []IInv
  BY <1>3, <1>4
<1> QED
  BY <1>1, <1>2, <1>5, PTL DEF Spec, ImplementsWorkDeque, Deque!Spec
===============================================================================
