-------------------------- MODULE SporkJoinProofs --------------------------
(***************************************************************************)
(* The fork-join protocol of SporkJoin.tla, for any number of workers and  *)
(* forks, any capacity of the deques and any depth of the collections.     *)
(*                                                                         *)
(* The inductive invariant IInv ties three things together that the code   *)
(* keeps apart.  The level of a thread, counted from the forks it has open, *)
(* is the depth at which the thread is and at which its worker's deque     *)
(* ends (DepthInv, DequeInv); below it the deque holds nothing but tasks   *)
(* of these forks, each at its depth (Holds), and all that nobody took     *)
(* (Covers).  The incounter of a joinpoint says which of the two sides     *)
(* have come to it (ForkInv), so that one of them goes on with the thread. *)
(* And what can be taken up, a thread, a right side, a continuation or a   *)
(* collection, is in one place (SwitchInv, OnceInv, TaskInv, TokenInv).    *)
(*                                                                         *)
(* An action moves one worker and one thread.  The frame lemmas say what   *)
(* such a step leaves true of the others; four lemmas put a step together  *)
(* from them by its kind: ThreadStep and RunStep (the thread goes on in    *)
(* user code), LeaveStep (it leaves its worker) and TakeStep (a worker     *)
(* takes it up).  Each action then has a lemma with Keeps in its name.     *)
(***************************************************************************)
EXTENDS SporkJoin, SequenceTheorems, TLAPS

(* The deque of w by depth: it holds the slots from Lo(w) to Hi(w) - 1.     *)
SlotOf(q, d) == q.tasks[d - q.lo + 1]
Lo(w) == queue[w].lo
Hi(w) == Bot(queue[w])
Slot(w, d) == SlotOf(queue[w], d)
Slots(w) == Lo(w) .. Hi(w) - 1
Empty(w) == Lo(w) = Hi(w)

(* Worker w is in thread t, or about to go on with it.                      *)
User(w, t) == worker[w].at = "user" /\ worker[w].thread = t
Switch(w, t) == worker[w].at = "switch" /\ worker[w].thread = t

(* The forks that t has open, the depth at which it started, and the depth  *)
(* it is at inside the first i of them.                                     *)
Pc(t) == thread[t].pc
Open(t) == thread[t].open
Opened(t) == 1 .. Len(Open(t))
Top(t) == Open(t)[Len(Open(t))]
Born(f) == thread[f].pc # "unborn"
Extra(f) == IF join[f].gc THEN 1 ELSE 0
Base(t) == IF t = Root THEN 1 ELSE join[t].depth + 1
LevelAfter(t, i) == IF i = 0 THEN Base(t) ELSE join[Open(t)[i]].depth + 1
Level(t) == LevelAfter(t, Len(Open(t)))

Deques == [lo : 0 .. Capacity, tasks : Seq(Tasks)]
WorkerStates ==
  [at : {"user", "switch", "back", "collect", "pop", "steal", "collectStolen"},
   thread : Threads \union {Nil}, gc : Forks \union {Nil}]
ThreadStates ==
  [pc : {"unborn", "run", "spawn", "decrement", "wait", "join", "syncGC",
         "offered", "resumed", "done", "leave", "toLeft", "gone"},
   depth : 0 .. Capacity, open : Seq(Forks), gc : Forks \union {Nil},
   proc : Workers \union {Nil}]
Joinpoints ==
  [left : Threads \union {Nil}, depth : 0 .. Capacity, incounter : 0 .. 2,
   right : Forks \union {Nil}, gc : BOOLEAN,
   how : {"none", "forked", "inlined", "dropped", "joined"}]

Types ==
  /\ queue \in [Workers -> Deques]
  /\ \A w \in Workers : Hi(w) <= Capacity
  /\ worker \in [Workers -> WorkerStates]
  /\ gcTask \in [Workers -> Forks \union {Nil}]
  /\ thread \in [Threads -> ThreadStates]
  /\ join \in [Forks -> Joinpoints]
  /\ gcRuns \in [Forks -> Nat]
  /\ status \in Statuses

(* A worker is in a thread exactly if the thread's processor number says    *)
(* so; a thread that nobody is in waits at one of a few points.             *)
WorkerInv(w) ==
  /\ worker[w].at = "user" =>
       worker[w].thread \in Threads /\ thread[worker[w].thread].proc = w
  /\ worker[w].at = "switch" => worker[w].thread \in Threads
  /\ worker[w].gc # Nil <=> worker[w].at \in {"collect", "collectStolen"}

ThreadInv(t) ==
  /\ thread[t].proc # Nil => User(thread[t].proc, t) /\ Pc(t) \notin {"unborn", "gone"}
  /\ thread[t].proc = Nil => Pc(t) \in {"unborn", "run", "join", "resumed", "gone"}
  /\ t = Root => Pc(t) \notin {"unborn", "done", "leave", "toLeft", "gone"}

(* The open forks of a thread, innermost last: each one or two levels below *)
(* the one before.                                                          *)
OpenInv(t) ==
  /\ \A i \in Opened(t) :
       /\ join[Open(t)[i]].how = "forked" /\ join[Open(t)[i]].left = t
       /\ join[Open(t)[i]].depth = LevelAfter(t, i - 1) + Extra(Open(t)[i])
  /\ \A i, j \in Opened(t) : i < j =>
       join[Open(t)[i]].depth < join[Open(t)[j]].depth - Extra(Open(t)[j])
  /\ Pc(t) \in {"unborn", "done", "leave", "toLeft", "gone"} => Open(t) = <<>>
  /\ Pc(t) \in {"spawn", "decrement", "wait", "join"} => Open(t) # <<>>
  /\ Pc(t) \in {"wait", "join"} => \A i \in Opened(t) : Born(Open(t)[i])

DepthInv(t) ==
  /\ Pc(t) = "spawn" => thread[t].depth = Level(t) - 1
  /\ Pc(t) \in {"syncGC", "offered", "resumed"} => thread[t].depth = Level(t) + 1
  /\ Pc(t) \in {"run", "decrement", "wait", "join", "done", "leave", "toLeft"} =>
       thread[t].depth = Level(t)

(* The joinpoint counts the sides that have not come to it.                 *)
Spawning(f) == Top(join[f].left) = f /\ Pc(join[f].left) = "spawn"
LeftDone(f) == Top(join[f].left) = f /\ Pc(join[f].left) \in {"wait", "join"}
RightHasDone(f) == Pc(f) \in {"leave", "toLeft", "gone"}
IsOpen(f) == \E i \in Opened(join[f].left) : Open(join[f].left)[i] = f

ForkInv(f) ==
  /\ join[f].how = "none" => ~Born(f) /\ join[f].right = Nil /\ ~join[f].gc
  /\ join[f].how \in {"inlined", "dropped"} => ~Born(f)
  /\ join[f].how = "joined" => Pc(f) = "gone"
  /\ join[f].how = "forked" =>
       /\ join[f].left \in Threads
       /\ IsOpen(f)
       /\ join[f].right = IF Pc(f) \in {"done", "leave", "toLeft", "gone"} THEN f ELSE Nil
       /\ Pc(f) = "toLeft" => LeftDone(f)
       /\ Spawning(f) => ~Born(f)
       /\ ~Spawning(f) =>
            join[f].incounter =
              (IF LeftDone(f) THEN 0 ELSE 1) + (IF RightHasDone(f) THEN 0 ELSE 1)

(* Who is about to go on with a thread is alone in that.                    *)
SwitchInv(w, t) ==
  Switch(w, t) =>
    /\ Pc(t) \in {"run", "wait", "join", "offered", "resumed"}
    /\ Pc(t) \in {"run", "join", "resumed"} => thread[t].proc = Nil
    /\ Pc(t) \in {"wait", "join"} => Pc(Top(t)) = "gone"
    /\ \A v \in Workers : Switch(v, t) => v = w

UserInv(w, t) ==
  User(w, t) =>
    /\ Pc(t) = "join" => Pc(Top(t)) \in {"leave", "gone"}
    /\ Pc(t) = "offered" => gcTask[w] # Nil

(* What a deque holds below the level of the thread it works for: tasks of  *)
(* the thread's open forks, each at its depth, and all that were not taken. *)
Holds(w, t) ==
  \A d \in Slots(w) : d < Level(t) =>
    \E i \in Opened(t) : PushedBy(Open(t)[i], Slot(w, d), d)
Covers(w, t) ==
  \A i \in Opened(t) :
    Born(Open(t)[i]) \/ Spawning(Open(t)[i]) \/ Lo(w) <= join[Open(t)[i]].depth

(* Thread t has left its continuation on top of w's deque.                  *)
Offers(w, t) ==
  /\ Hi(w) = Level(t) + 1
  /\ Slot(w, Hi(w) - 1) = Continuation(t, Level(t))
  /\ Pc(t) = "resumed"
  /\ Holds(w, t)
  /\ Covers(w, t)

SchedInv(w) ==
  /\ worker[w].at \in {"steal", "collectStolen"} => Empty(w)
  /\ worker[w].at = "back" /\ gcTask[w] = Nil => Empty(w)
  /\ worker[w].at \in {"back", "collect", "pop"} /\ ~Empty(w) =>
       \E t \in Threads : Offers(w, t)

ResumeInv(w, t) ==
  Switch(w, t) =>
    /\ Hi(w) = Level(t)
    /\ Holds(w, t)
    /\ Covers(w, t)
    /\ Pc(t) \in {"wait", "join"} => Empty(w)

DequeInv(w, t) ==
  User(w, t) =>
    /\ Holds(w, t)
    /\ Covers(w, t)
    /\ Pc(t) = "spawn" => Hi(w) = Level(t) - 1
    /\ Pc(t) \in {"syncGC", "offered"} => Hi(w) = Level(t) + 1
    /\ Pc(t) \notin {"spawn", "syncGC", "offered"} => Hi(w) = Level(t)
    /\ Pc(t) \in {"decrement", "wait", "join", "done", "leave", "toLeft"} => Empty(w)
    /\ Pc(t) = "syncGC" => thread[t].gc \in Forks
    /\ Pc(t) = "syncGC" /\ ~Empty(w) => Slot(w, Hi(w) - 1) = GCTask(thread[t].gc)
    /\ Pc(t) = "offered" /\ ~Empty(w) => Slot(w, Hi(w) - 1) = Continuation(t, Level(t))

(* A task is in one deque, once; and nobody has it besides.                 *)
SameTask(x, y) == x.kind = y.kind /\ x.id = y.id
OnceInv(w, v) ==
  \A d \in Slots(w), e \in Slots(v) : SameTask(Slot(w, d), Slot(v, e)) => w = v /\ d = e

Unstarted(f) == join[f].how = "forked" /\ ~Born(f) /\ ~Spawning(f)
Parked(t) ==
  /\ Pc(t) \in {"offered", "resumed"}
  /\ Pc(t) = "resumed" => thread[t].proc = Nil
  /\ \A v \in Workers : ~Switch(v, t)
TaskInv(w) ==
  \A d \in Slots(w) :
    /\ Slot(w, d).kind = "NewThread" => Slot(w, d).id \in Forks /\ Unstarted(Slot(w, d).id)
    /\ Slot(w, d).kind = "Continuation" => Parked(Slot(w, d).id)

(* The collection of a fork is in a deque, in a box, under way or done.     *)
Queued(w, f) == \E d \in Slots(w) : Slot(w, d).kind = "GCTask" /\ Slot(w, d).id = f
Boxed(w, f) == gcTask[w] = f
Collects(w, f) == worker[w].gc = f
TokenInv(f) ==
  /\ gcRuns[f] <= 1
  /\ \A w \in Workers :
       /\ Queued(w, f) \/ Boxed(w, f) \/ Collects(w, f) => gcRuns[f] = 0
       /\ \A v \in Workers :
            /\ Queued(w, f) => ~Boxed(v, f) /\ ~Collects(v, f)
            /\ Boxed(w, f) => ~Collects(v, f)
            /\ Boxed(w, f) /\ Boxed(v, f) => w = v
            /\ Collects(w, f) /\ Collects(v, f) => w = v
       /\ join[f].how = "none" => ~Queued(w, f) /\ ~Boxed(w, f) /\ ~Collects(w, f)
  /\ join[f].how = "none" => gcRuns[f] = 0

(* Both tasks of a spawn fit, so that no push finds the deque full.         *)
RoomForBoth == MaxCCDepth + 1 < Capacity
RoomInv(t) == RoomForBoth /\ Pc(t) = "spawn" => thread[t].depth < Capacity

IInv ==
  /\ Types
  /\ \A w \in Workers : WorkerInv(w) /\ SchedInv(w) /\ TaskInv(w)
  /\ \A t \in Threads : ThreadInv(t) /\ OpenInv(t) /\ DepthInv(t) /\ RoomInv(t)
  /\ \A f \in Forks : ForkInv(f) /\ TokenInv(f)
  /\ \A w \in Workers, t \in Threads :
       SwitchInv(w, t) /\ UserInv(w, t) /\ ResumeInv(w, t) /\ DequeInv(w, t)
  /\ \A w, v \in Workers : OnceInv(w, v)

-------------------------------------------------------------------------------
(* Sequences, and what the operations do to a deque seen by depth *)

(* A sequence with one element more.                                        *)
LEMMA AppendFacts ==
  ASSUME NEW S, NEW b \in Seq(S), NEW a \in S, NEW c, c = Append(b, a)
  PROVE  /\ c \in Seq(S) /\ c # <<>> /\ Len(b) \in Nat /\ Len(c) = Len(b) + 1
         /\ c[Len(c)] = a /\ \A i \in 1 .. Len(b) : c[i] = b[i]
<1>1. /\ c \in Seq(S) /\ Len(b) \in Nat /\ Len(c) = Len(b) + 1
      /\ c[Len(c)] = a /\ \A i \in 1 .. Len(b) : c[i] = b[i]
  OBVIOUS
<1>2. c # <<>>
  BY <1>1, EmptySeq
<1> QED
  BY <1>1, <1>2

(* A sequence without its last element.                                     *)
LEMMA FrontFacts ==
  ASSUME NEW S, NEW b \in Seq(S), b # <<>>, NEW c, c = Front(b)
  PROVE  /\ c \in Seq(S) /\ Len(b) \in Nat /\ Len(b) >= 1 /\ Len(c) = Len(b) - 1
         /\ \A i \in 1 .. Len(c) : c[i] = b[i]
<1>1. Len(b) \in Nat /\ Len(b) >= 1
  BY EmptySeq
<1>2. c = SubSeq(b, 1, Len(b) - 1)
  BY DEF Front
<1>3. \A i \in 1 .. Len(b) - 1 : b[i] \in S
  BY <1>1
<1>4. /\ c \in Seq(S)
      /\ Len(c) = IF 1 <= Len(b) - 1 THEN Len(b) - 1 - 1 + 1 ELSE 0
      /\ \A i \in 1 .. Len(b) - 1 - 1 + 1 : c[i] = b[1 + i - 1]
  BY <1>1, <1>2, <1>3, SubSeqProperties
<1>5. Len(c) = Len(b) - 1
  <2> DEFINE n == Len(b)
  <2>1. n \in Nat /\ n >= 1 /\ Len(c) = IF 1 <= n - 1 THEN n - 1 - 1 + 1 ELSE 0
    BY <1>1, <1>4
  <2> HIDE DEF n
  <2>2. Len(c) = n - 1
    BY <2>1
  <2> QED
    BY <2>2 DEF n
<1>6. \A i \in 1 .. Len(c) : i \in 1 .. Len(b) - 1 - 1 + 1 /\ 1 + i - 1 = i
  BY <1>1, <1>5
<1> QED
  BY <1>1, <1>4, <1>5, <1>6

(* A deque as a range of depths.                                            *)
LEMMA DequeFacts ==
  ASSUME NEW q \in Deques
  PROVE  /\ q.lo \in Nat /\ Bot(q) \in Nat /\ q.lo <= Bot(q)
         /\ IsEmpty(q) <=> q.lo = Bot(q)
         /\ \A d \in q.lo .. Bot(q) - 1 : SlotOf(q, d) \in Tasks
         /\ ~IsEmpty(q) => Head(q.tasks) = SlotOf(q, q.lo) /\ Last(q.tasks) = SlotOf(q, Bot(q) - 1)
<1>1. q.lo \in Nat /\ q.tasks \in Seq(Tasks) /\ Len(q.tasks) \in Nat
  BY ConstantsAssumption DEF Deques
<1>2. q.tasks = <<>> <=> Len(q.tasks) = 0
  BY <1>1, EmptySeq
<1>3. \A d \in q.lo .. Bot(q) - 1 : d - q.lo + 1 \in 1 .. Len(q.tasks)
  BY <1>1 DEF Bot
<1>4. \A i \in 1 .. Len(q.tasks) : q.tasks[i] \in Tasks
  BY <1>1
<1>5. q.lo - q.lo + 1 = 1 /\ Bot(q) - 1 - q.lo + 1 = Len(q.tasks)
  BY <1>1 DEF Bot
<1>6. \A d \in q.lo .. Bot(q) - 1 : SlotOf(q, d) \in Tasks
  BY <1>3, <1>4 DEF SlotOf
<1>7. IsEmpty(q) <=> q.lo = Bot(q)
  BY <1>1, <1>2 DEF Bot, IsEmpty
<1>8. Last(q.tasks) = SlotOf(q, Bot(q) - 1)
  BY <1>5 DEF SlotOf, Last
<1>9. ~IsEmpty(q) => Head(q.tasks) = SlotOf(q, q.lo)
  BY <1>1, <1>5 DEF SlotOf, IsEmpty
<1> QED
  BY <1>1, <1>6, <1>7, <1>8, <1>9 DEF Bot

(* A push leaves every slot as it was and fills the next.                   *)
LEMMA PushBotFacts ==
  ASSUME NEW q \in Deques, NEW x \in Tasks, NEW p, p = PushBot(q, x)
  PROVE  /\ p \in Deques /\ p.lo = q.lo /\ Bot(p) = Bot(q) + 1
         /\ SlotOf(p, Bot(q)) = x
         /\ \A d \in q.lo .. Bot(q) - 1 : SlotOf(p, d) = SlotOf(q, d)
<1>1. /\ q.lo \in Nat /\ q.tasks \in Seq(Tasks) /\ Len(q.tasks) \in Nat
      /\ q = [lo |-> q.lo, tasks |-> q.tasks]
  BY ConstantsAssumption DEF Deques
<1>2. p = [lo |-> q.lo, tasks |-> Append(q.tasks, x)]
  BY <1>1 DEF PushBot
<1>3. /\ Append(q.tasks, x) \in Seq(Tasks) /\ Len(Append(q.tasks, x)) = Len(q.tasks) + 1
      /\ Append(q.tasks, x)[Len(q.tasks) + 1] = x
      /\ \A i \in 1 .. Len(q.tasks) : Append(q.tasks, x)[i] = q.tasks[i]
  BY <1>1
<1>4. \A d \in q.lo .. Bot(q) - 1 : d - q.lo + 1 \in 1 .. Len(q.tasks)
  BY <1>1 DEF Bot
<1>5. Bot(q) - q.lo + 1 = Len(q.tasks) + 1
  BY <1>1 DEF Bot
<1>6. p \in Deques /\ p.lo = q.lo /\ p.tasks = Append(q.tasks, x)
  BY <1>1, <1>2, <1>3 DEF Deques
<1>7. SlotOf(p, Bot(q)) = x
  BY <1>3, <1>5, <1>6 DEF SlotOf
<1>8. \A d \in q.lo .. Bot(q) - 1 : SlotOf(p, d) = SlotOf(q, d)
  BY <1>3, <1>4, <1>6 DEF SlotOf
<1>9. Bot(p) = Bot(q) + 1
  BY <1>1, <1>3, <1>6 DEF Bot
<1> QED
  BY <1>6, <1>7, <1>8, <1>9

(* A pop takes the slot at the deep end.                                    *)
LEMMA PopBotFacts ==
  ASSUME NEW q \in Deques, ~IsEmpty(q), NEW p, p = PopBot(q)
  PROVE  /\ p \in Deques /\ p.lo = q.lo /\ Bot(p) = Bot(q) - 1
         /\ \A d \in q.lo .. Bot(q) - 2 : SlotOf(p, d) = SlotOf(q, d)
<1>1. /\ q.lo \in Nat /\ q.tasks \in Seq(Tasks) /\ Len(q.tasks) \in Nat
      /\ q = [lo |-> q.lo, tasks |-> q.tasks]
  BY ConstantsAssumption DEF Deques
<1>2. Len(q.tasks) >= 1
  BY <1>1, EmptySeq DEF IsEmpty
<1>3. p = [lo |-> q.lo, tasks |-> Front(q.tasks)]
  BY <1>1 DEF PopBot
<1>4. /\ p.tasks \in Seq(Tasks) /\ Len(p.tasks) = Len(q.tasks) - 1
      /\ \A i \in 1 .. Len(q.tasks) - 1 : p.tasks[i] = q.tasks[i]
  BY <1>1, <1>3, FrontFacts DEF IsEmpty
<1>5. \A d \in q.lo .. Bot(q) - 2 : d - q.lo + 1 \in 1 .. Len(q.tasks) - 1
  BY <1>1 DEF Bot
<1>6. p \in Deques /\ p.lo = q.lo
  BY <1>1, <1>3, <1>4 DEF Deques
<1> QED
  BY SMTT(30), <1>1, <1>4, <1>5, <1>6 DEF Bot, SlotOf

(* A steal takes the slot at the shallow end.                               *)
LEMMA PopTopFacts ==
  ASSUME NEW q \in Deques, ~IsEmpty(q), Bot(q) <= Capacity, NEW p, p = PopTop(q)
  PROVE  /\ p \in Deques /\ p.lo = q.lo + 1 /\ Bot(p) = Bot(q)
         /\ \A d \in q.lo + 1 .. Bot(q) - 1 : SlotOf(p, d) = SlotOf(q, d)
<1>1. /\ q.lo \in Nat /\ q.tasks \in Seq(Tasks) /\ Len(q.tasks) \in Nat /\ Capacity \in Nat
      /\ p = [lo |-> q.lo + 1, tasks |-> Tail(q.tasks)]
  BY ConstantsAssumption DEF Deques, PopTop
<1>2. Len(q.tasks) >= 1
  BY <1>1, EmptySeq DEF IsEmpty
<1>3. /\ p.tasks \in Seq(Tasks) /\ Len(p.tasks) = Len(q.tasks) - 1
      /\ \A i \in 1 .. Len(q.tasks) - 1 : p.tasks[i] = q.tasks[i + 1]
  BY <1>1, <1>2
<1>4. p.lo = q.lo + 1 /\ p.lo \in 0 .. Capacity
  BY <1>1, <1>2 DEF Bot
<1>5. p \in Deques
  BY <1>1, <1>3, <1>4 DEF Deques
<1>6. \A d \in q.lo + 1 .. Bot(q) - 1 :
        d - (q.lo + 1) + 1 \in 1 .. Len(q.tasks) - 1 /\ d - (q.lo + 1) + 1 + 1 = d - q.lo + 1
  BY SMTT(30), <1>1 DEF Bot
<1>7. \A d \in q.lo + 1 .. Bot(q) - 1 : p.tasks[d - (q.lo + 1) + 1] = q.tasks[d - q.lo + 1]
  BY <1>3, <1>6
<1>8. \A d \in q.lo + 1 .. Bot(q) - 1 : SlotOf(p, d) = SlotOf(q, d)
  BY <1>4, <1>7 DEF SlotOf
<1>9. Bot(p) = Bot(q)
  <2>1. Len(p.tasks) = Len(q.tasks) - 1 /\ p.lo = q.lo + 1 /\ q.lo \in Nat /\ Len(q.tasks) \in Nat
    BY <1>1, <1>3, <1>4
  <2> QED
    BY <2>1 DEF Bot
<1> QED
  BY <1>4, <1>5, <1>8, <1>9

(* An empty deque at depth d.                                               *)
LEMMA AtDepthFacts ==
  ASSUME NEW d \in 0 .. Capacity, NEW p, p = AtDepth(d)
  PROVE  p \in Deques /\ p.lo = d /\ Bot(p) = d
BY ConstantsAssumption DEF AtDepth, Deques, Bot

-------------------------------------------------------------------------------
(* What the invariant says of a thread and its forks *)

(* The open forks of a thread differ and are above its level.               *)
LEMMA OpenFacts ==
  ASSUME Types, NEW t \in Threads, OpenInv(t)
  PROVE  /\ Len(Open(t)) \in Nat /\ Base(t) \in Nat /\ Level(t) \in Nat
         /\ \A i \in Opened(t) :
              /\ Open(t)[i] \in Forks /\ join[Open(t)[i]].how = "forked"
              /\ join[Open(t)[i]].left = t
              /\ join[Open(t)[i]].depth \in Nat /\ join[Open(t)[i]].depth < Level(t)
         /\ \A i, j \in Opened(t) : Open(t)[i] = Open(t)[j] => i = j
         /\ Open(t) # <<>> =>
              /\ Len(Open(t)) \in Opened(t) /\ Top(t) \in Forks
              /\ Level(t) = join[Top(t)].depth + 1
         /\ Open(t) = <<>> => Level(t) = Base(t)
<1>1. Open(t) \in Seq(Forks) /\ Len(Open(t)) \in Nat
  BY DEF Types, ThreadStates, Open
<1>2. \A i \in Opened(t) : Open(t)[i] \in Forks
  BY <1>1 DEF Opened
<1>3. \A f \in Forks : join[f].depth \in Nat /\ join[f].gc \in BOOLEAN
  BY ConstantsAssumption DEF Types, Joinpoints
<1>4. Base(t) \in Nat
  BY <1>3 DEF Base, Threads
<1>5. Open(t) = <<>> <=> Len(Open(t)) = 0
  BY <1>1, EmptySeq
<1>6. Open(t) = <<>> => Level(t) = Base(t)
  BY <1>5 DEF Level, LevelAfter
<1>7. Open(t) # <<>> => /\ Len(Open(t)) \in Opened(t) /\ Top(t) \in Forks
                        /\ Level(t) = join[Top(t)].depth + 1
  BY <1>1, <1>2, <1>5 DEF Level, LevelAfter, Opened, Top
<1>8. Level(t) \in Nat
  BY <1>3, <1>4, <1>6, <1>7
<1>9. \A f \in Forks : Extra(f) \in Nat
  BY <1>3 DEF Extra
<1>10. \A i, j \in Opened(t) : i < j => join[Open(t)[i]].depth < join[Open(t)[j]].depth
  <2>1. \A i, j \in Opened(t) : i < j =>
          join[Open(t)[i]].depth < join[Open(t)[j]].depth - Extra(Open(t)[j])
    BY DEF OpenInv
  <2> QED
    BY <2>1, <1>2, <1>3, <1>9
<1>11. ASSUME NEW i \in Opened(t) PROVE join[Open(t)[i]].depth < Level(t)
  <2>1. i = Len(Open(t)) \/ i < Len(Open(t))
    BY <1>1 DEF Opened
  <2>2. Len(Open(t)) \in Opened(t) /\ Level(t) = join[Open(t)[Len(Open(t))]].depth + 1
    BY <1>1, <1>5, <1>7 DEF Opened, Top
  <2> QED
    BY <2>1, <2>2, <1>10, <1>2, <1>3
<1>12. ASSUME NEW i \in Opened(t), NEW j \in Opened(t), Open(t)[i] = Open(t)[j] PROVE i = j
  <2>1. i \in Nat /\ j \in Nat /\ (i < j \/ j < i \/ i = j)
    BY <1>1 DEF Opened
  <2> QED
    BY <2>1, <1>12, <1>10, <1>2, <1>3
<1> QED
  BY <1>1, <1>2, <1>3, <1>4, <1>6, <1>7, <1>8, <1>11, <1>12 DEF OpenInv

(* Each fork is open in one thread, its left side.                          *)
LEMMA OpenOnce ==
  ASSUME Types, NEW t \in Threads, OpenInv(t), NEW u \in Threads, OpenInv(u),
         NEW i \in Opened(t), NEW j \in Opened(u), Open(t)[i] = Open(u)[j]
  PROVE  u = t
BY OpenFacts

-------------------------------------------------------------------------------
(* What a step leaves as it was *)

Kept(f) ==
  /\ join'[f].left = join[f].left /\ join'[f].depth = join[f].depth
  /\ join'[f].gc = join[f].gc /\ join'[f].how = join[f].how
StillBorn(f) == thread[f].pc # "unborn" => thread'[f].pc # "unborn"
Stays(t) ==
  /\ thread'[t].open = thread[t].open
  /\ t # Root => join'[t].depth = join[t].depth
  /\ \A i \in Opened(t) : Kept(Open(t)[i]) /\ StillBorn(Open(t)[i])

(* A deque in which nothing is new.                                         *)
Shrinks(w) ==
  \A d \in queue'[w].lo .. Bot(queue'[w]) - 1 :
    d \in Slots(w) /\ SlotOf(queue'[w], d) = Slot(w, d)

(* A thread whose forks stay as they were is at the level it was.           *)
LEMMA LevelStays ==
  ASSUME NEW t \in Threads, Stays(t), Types
  PROVE  /\ Open(t)' = Open(t) /\ Opened(t)' = Opened(t)
         /\ Base(t)' = Base(t) /\ Level(t)' = Level(t)
         /\ \A i \in Opened(t) : /\ LevelAfter(t, i - 1)' = LevelAfter(t, i - 1)
                                 /\ LevelAfter(t, i)' = LevelAfter(t, i)
                                 /\ Extra(Open(t)[i])' = Extra(Open(t)[i])
<1>1. Open(t)' = Open(t) /\ Opened(t)' = Opened(t) /\ Base(t)' = Base(t)
  BY DEF Stays, Open, Opened, Base
<1>2. Len(Open(t)) \in Nat
  BY DEF Types, ThreadStates, Open
<1>3. ASSUME NEW i \in 0 .. Len(Open(t)) PROVE LevelAfter(t, i)' = LevelAfter(t, i)
  <2>1. i = 0 \/ i \in Opened(t)
    BY <1>2 DEF Opened
  <2>2. i \in Opened(t) => join'[Open(t)[i]].depth = join[Open(t)[i]].depth
    BY DEF Stays, Kept
  <2> QED
    BY <1>1, <2>1, <2>2 DEF LevelAfter
<1>4. Level(t)' = Level(t)
  BY <1>1, <1>2, <1>3 DEF Level
<1>5. ASSUME NEW i \in Opened(t) PROVE Extra(Open(t)[i])' = Extra(Open(t)[i])
  BY <1>1 DEF Extra, Stays, Kept
<1>6. \A i \in Opened(t) : i \in 0 .. Len(Open(t)) /\ i - 1 \in 0 .. Len(Open(t))
  BY <1>2 DEF Opened
<1> QED
  BY <1>1, <1>3, <1>4, <1>5, <1>6

(* Its open forks keep their invariant.                                     *)
LEMMA OpenStays ==
  ASSUME Types, NEW t \in Threads, OpenInv(t), Stays(t),
         thread'[t].pc \in {"unborn", "done", "leave", "toLeft", "gone"} => Open(t) = <<>>,
         thread'[t].pc \in {"spawn", "decrement", "wait", "join"} => Open(t) # <<>>,
         thread'[t].pc \in {"wait", "join"} => \A i \in Opened(t) : Born(Open(t)[i])
  PROVE  OpenInv(t)'
<1>1. /\ Open(t)' = Open(t) /\ Opened(t)' = Opened(t)
      /\ \A i \in Opened(t) : /\ LevelAfter(t, i - 1)' = LevelAfter(t, i - 1)
                              /\ Extra(Open(t)[i])' = Extra(Open(t)[i])
  BY LevelStays
<1>2. \A i \in Opened(t) : Kept(Open(t)[i]) /\ StillBorn(Open(t)[i])
  BY DEF Stays
<1>3. ASSUME NEW i \in Opened(t)
      PROVE  /\ join'[Open(t)[i]].how = "forked" /\ join'[Open(t)[i]].left = t
             /\ join'[Open(t)[i]].depth = LevelAfter(t, i - 1) + Extra(Open(t)[i])
  BY <1>2 DEF OpenInv, Kept
<1>4. ASSUME NEW i \in Opened(t), NEW j \in Opened(t), i < j
      PROVE  join'[Open(t)[i]].depth < join'[Open(t)[j]].depth - Extra(Open(t)[j])
  BY <1>2, <1>4 DEF OpenInv, Kept
<1>5. Pc(t)' \in {"wait", "join"} => \A i \in Opened(t) : Born(Open(t)[i])'
  BY <1>1, <1>2 DEF StillBorn, Born, Pc
<1>6. /\ Pc(t)' \in {"unborn", "done", "leave", "toLeft", "gone"} => Open(t) = <<>>
      /\ Pc(t)' \in {"spawn", "decrement", "wait", "join"} => Open(t) # <<>>
  BY DEF Pc
<1> QED
  BY <1>1, <1>3, <1>4, <1>5, <1>6 DEF OpenInv

(* A deque with nothing new holds only tasks of the thread's forks.         *)
LEMMA HoldsStays ==
  ASSUME Types, NEW w \in Workers, NEW t \in Threads, Stays(t), Shrinks(w), Holds(w, t)
  PROVE  Holds(w, t)'
<1>1. Open(t)' = Open(t) /\ Opened(t)' = Opened(t) /\ Level(t)' = Level(t)
  BY LevelStays
<1>2. ASSUME NEW d \in Slots(w)', d < Level(t)
      PROVE  \E i \in Opened(t) : PushedBy(Open(t)[i], Slot(w, d), d)'
  <2>1. d \in Slots(w) /\ Slot(w, d)' = Slot(w, d)
    BY DEF Shrinks, Slots, Lo, Hi, Slot
  <2>2. PICK i \in Opened(t) : PushedBy(Open(t)[i], Slot(w, d), d)
    BY <2>1, <1>2 DEF Holds
  <2>3. Kept(Open(t)[i])
    BY DEF Stays
  <2> QED
    BY <1>1, <2>1, <2>2, <2>3 DEF PushedBy, Kept, NewThread, GCTask
<1> QED
  BY <1>1, <1>2 DEF Holds

(* A deque that was not stolen from still has all that nobody took.         *)
LEMMA CoversStays ==
  ASSUME Types, NEW w \in Workers, NEW t \in Threads, OpenInv(t), Stays(t),
         queue'[w].lo = queue[w].lo, Covers(w, t),
         thread[t].pc = "spawn" => thread'[t].pc = "spawn"
  PROVE  Covers(w, t)'
<1>1. Open(t)' = Open(t) /\ Opened(t)' = Opened(t)
  BY LevelStays
<1>2. ASSUME NEW i \in Opened(t)
      PROVE  (Born(Open(t)[i]) \/ Spawning(Open(t)[i]) \/ Lo(w) <= join[Open(t)[i]].depth)'
  <2>1. Kept(Open(t)[i]) /\ StillBorn(Open(t)[i]) /\ join[Open(t)[i]].left = t
    BY OpenFacts DEF Stays
  <2>2. CASE Born(Open(t)[i])
    BY <1>1, <2>1, <2>2 DEF Born, StillBorn
  <2>3. CASE Spawning(Open(t)[i])
    BY <1>1, <2>1, <2>3 DEF Spawning, Kept, Top, Pc
  <2>4. CASE Lo(w) <= join[Open(t)[i]].depth
    BY <1>1, <2>1, <2>4 DEF Lo, Kept
  <2> QED
    BY <2>2, <2>3, <2>4 DEF Covers
<1> QED
  BY <1>1, <1>2 DEF Covers

(* Deques with nothing new have no task twice.                              *)
LEMMA OnceStays ==
  ASSUME NEW w \in Workers, NEW v \in Workers, Shrinks(w), Shrinks(v), OnceInv(w, v)
  PROVE  OnceInv(w, v)'
<1>1. ASSUME NEW d \in Slots(w)', NEW e \in Slots(v)', SameTask(Slot(w, d), Slot(v, e))'
      PROVE  w = v /\ d = e
  <2>1. /\ d \in Slots(w) /\ Slot(w, d)' = Slot(w, d)
        /\ e \in Slots(v) /\ Slot(v, e)' = Slot(v, e)
    BY DEF Shrinks, Slots, Lo, Hi, Slot
  <2>2. SameTask(Slot(w, d), Slot(v, e))
    BY <1>1, <2>1 DEF SameTask
  <2> QED
    BY <2>1, <2>2 DEF OnceInv
<1> QED
  BY <1>1 DEF OnceInv

(* A deque with nothing new has no new collection.                          *)
LEMMA QueuedStays ==
  ASSUME NEW w \in Workers, Shrinks(w), NEW f, Queued(w, f)'
  PROVE  Queued(w, f)
<1>1. PICK d \in Slots(w)' : (Slot(w, d).kind = "GCTask" /\ Slot(w, d).id = f)'
  BY DEF Queued
<1>2. d \in Slots(w) /\ Slot(w, d)' = Slot(w, d)
  BY DEF Shrinks, Slots, Lo, Hi, Slot
<1> QED
  BY <1>1, <1>2 DEF Queued

(* A deque that is not touched has nothing new.                             *)
LEMMA SameShrinks ==
  ASSUME NEW w \in Workers, queue'[w] = queue[w]
  PROVE  Shrinks(w)
BY DEF Shrinks, Slots, Lo, Hi, Slot

-------------------------------------------------------------------------------
(* The thread a worker is in *)

(* A worker in user code is alone in its thread.                            *)
LEMMA CurrentFacts ==
  ASSUME IInv, NEW w \in Workers, NEW c, At(w, c)
  PROVE  \E t \in Threads :
           /\ t = Current(w) /\ User(w, t) /\ Pc(t) = c /\ thread[t].proc = w
           /\ \A v \in Workers : User(v, t) => v = w
           /\ ~(c \in {"run", "join", "resumed"}) \/ \A v \in Workers : ~Switch(v, t)
<1>1. /\ worker[w].at = "user" /\ worker[w].thread \in Threads
      /\ thread[worker[w].thread].proc = w
  BY DEF IInv, At, WorkerInv
<1>2. PICK t \in Threads : t = worker[w].thread
  BY <1>1
<1>3. User(w, t) /\ Pc(t) = c /\ thread[t].proc = w /\ t = Current(w)
  BY <1>1, <1>2 DEF At, User, Pc, Current
<1>4. \A v \in Workers : User(v, t) => v = w
  BY <1>3 DEF IInv, WorkerInv, User
<1>5. c \in {"run", "join", "resumed"} => \A v \in Workers : ~Switch(v, t)
  BY <1>3, ConstantsAssumption DEF IInv, SwitchInv
<1> QED
  BY <1>3, <1>4, <1>5

(* The control points of a thread that runs and is not done.                *)
Inner == {"run", "spawn", "decrement", "wait", "join", "syncGC", "offered", "resumed"}
Alike(f) == thread'[f].pc = thread[f].pc \/ (thread'[f].pc \in Inner /\ thread[f].pc \in Inner)

(* A joinpoint that is not touched, with both sides where they were.        *)
LEMMA ForkStays ==
  ASSUME NEW f \in Forks, ForkInv(f), join'[f] = join[f], Alike(f),
         join[f].how = "forked" =>
           IsOpen(f)' /\ (Spawning(f)' <=> Spawning(f)) /\ (LeftDone(f)' <=> LeftDone(f))
  PROVE  ForkInv(f)'
<1>1. CASE join[f].how # "forked"
  BY <1>1 DEF ForkInv, Alike, Inner, Born, Pc
<1>2. CASE join[f].how = "forked"
  <2>1. /\ Pc(f)' \in {"done", "leave", "toLeft", "gone"} <=> Pc(f) \in {"done", "leave", "toLeft", "gone"}
        /\ Pc(f)' = "toLeft" <=> Pc(f) = "toLeft"
        /\ RightHasDone(f)' <=> RightHasDone(f)
        /\ Born(f)' <=> Born(f)
    BY DEF Alike, Inner, Pc, RightHasDone, Born
  <2> QED
    BY <1>2, <2>1 DEF ForkInv
<1> QED
  BY <1>1, <1>2

-------------------------------------------------------------------------------
(* What a step does not touch keeps its part of the invariant *)

(* The right sides that are done stay so.                                   *)
StillDone ==
  \A f \in Forks :
    /\ thread[f].pc = "gone" => thread'[f].pc = "gone"
    /\ thread[f].pc = "leave" => thread'[f].pc \in {"leave", "gone"}
SameWorker(w) ==
  queue'[w] = queue[w] /\ worker'[w] = worker[w] /\ gcTask'[w] = gcTask[w]

(* A step that opens and closes no fork leaves all threads' forks.          *)
LEMMA AllStay ==
  ASSUME Types, \A t \in Threads : thread'[t].open = thread[t].open /\ StillBorn(t),
         \A f \in Forks : Kept(f)
  PROVE  \A t \in Threads : Stays(t)
<1>1. \A t \in Threads : \A i \in Opened(t) : Open(t)[i] \in Forks
  BY DEF Types, ThreadStates, Open, Opened
<1> QED
  BY <1>1 DEF Stays, Kept, Threads

(* A thread that is not touched keeps its part of the invariant.            *)
LEMMA ThreadFrame ==
  ASSUME IInv, NEW t \in Threads, Stays(t), thread'[t] = thread[t]
  PROVE  OpenInv(t)' /\ DepthInv(t)' /\ RoomInv(t)'
<1>1. Types /\ OpenInv(t) /\ DepthInv(t) /\ RoomInv(t)
  BY DEF IInv
<1>2. Level(t)' = Level(t)
  BY <1>1, LevelStays
<1>3. OpenInv(t)'
  BY <1>1, OpenStays DEF OpenInv, Pc
<1>4. DepthInv(t)' /\ RoomInv(t)'
  BY <1>1, <1>2 DEF DepthInv, RoomInv, Pc
<1> QED
  BY <1>3, <1>4

(* A deque that is not touched fits its thread as it did.                   *)
LEMMA FitFrame ==
  ASSUME IInv, NEW w \in Workers, NEW t \in Threads, Stays(t), queue'[w] = queue[w],
         thread[t].pc = "spawn" => thread'[t].pc = "spawn"
  PROVE  /\ Holds(w, t) => Holds(w, t)'
         /\ Covers(w, t) => Covers(w, t)'
         /\ Level(t)' = Level(t) /\ Hi(w)' = Hi(w) /\ Lo(w)' = Lo(w)
         /\ \A d : Slot(w, d)' = Slot(w, d)
<1>1. Types /\ OpenInv(t)
  BY DEF IInv
<1> QED
  BY <1>1, HoldsStays, CoversStays, SameShrinks, LevelStays DEF Hi, Lo, Slot

(* A continuation that was offered is offered still.                        *)
LEMMA OffersFrame ==
  ASSUME IInv, NEW w \in Workers, NEW t \in Threads, Stays(t), queue'[w] = queue[w],
         thread'[t] = thread[t], Offers(w, t)
  PROVE  Offers(w, t)'
BY FitFrame DEF Offers, Pc, Continuation

(* A worker and a thread that are not touched.                              *)
LEMMA WorkFrame ==
  ASSUME IInv, NEW w \in Workers, NEW t \in Threads, Stays(t), SameWorker(w),
         thread'[t] = thread[t], StillDone
  PROVE  UserInv(w, t)' /\ ResumeInv(w, t)' /\ DequeInv(w, t)'
<1>1. /\ Types /\ OpenInv(t) /\ UserInv(w, t) /\ ResumeInv(w, t) /\ DequeInv(w, t)
      /\ User(w, t)' = User(w, t) /\ Switch(w, t)' = Switch(w, t) /\ Pc(t)' = Pc(t)
      /\ Top(t)' = Top(t)
  BY DEF IInv, SameWorker, User, Switch, Pc, Top, Open
<1>2. /\ Holds(w, t) => Holds(w, t)'
      /\ Covers(w, t) => Covers(w, t)'
      /\ Level(t)' = Level(t) /\ Hi(w)' = Hi(w) /\ Lo(w)' = Lo(w)
      /\ \A d : Slot(w, d)' = Slot(w, d)
  BY FitFrame DEF SameWorker
<1>3. UserInv(w, t)'
  <2>1. Pc(t) = "join" => Top(t) \in Forks
    BY <1>1, OpenFacts DEF OpenInv
  <2>2. gcTask'[w] = gcTask[w]
    BY DEF SameWorker
  <2>3. User(w, t) /\ Pc(t) = "join" => Pc(Top(t))' \in {"leave", "gone"}
    BY <1>1, <2>1 DEF StillDone, Pc, UserInv
  <2> QED
    BY <1>1, <2>2, <2>3 DEF UserInv
<1>4. ResumeInv(w, t)'
  BY <1>1, <1>2 DEF ResumeInv, Empty
<1>5. DequeInv(w, t)'
  <2>1. Slot(w, Hi(w) - 1)' = Slot(w, Hi(w) - 1) /\ thread'[t].gc = thread[t].gc
    BY <1>2 DEF Slot, SameWorker
  <2> QED
    BY <1>1, <1>2, <2>1 DEF DequeInv, Empty, GCTask, Continuation
<1> QED
  BY <1>3, <1>4, <1>5

(* A continuation on top of a deque is of a thread that nobody is in.       *)
LEMMA OffersFacts ==
  ASSUME IInv, NEW w \in Workers, NEW t \in Threads, Offers(w, t), ~Empty(w)
  PROVE  Hi(w) - 1 \in Slots(w) /\ Parked(t) /\ thread[t].proc = Nil
<1>1. Hi(w) - 1 \in Slots(w)
  <2>1. Lo(w) \in Nat /\ Hi(w) \in Nat /\ Lo(w) <= Hi(w)
    BY DequeFacts DEF Hi, Lo, IInv, Types
  <2> QED
    BY <2>1 DEF Slots, Empty
<1>2. Slot(w, Hi(w) - 1).kind = "Continuation" /\ Slot(w, Hi(w) - 1).id = t
  BY DEF Offers, Continuation
<1> QED
  BY <1>1, <1>2 DEF Offers, IInv, TaskInv, Parked

(* A worker in its scheduler that is not touched.                           *)
LEMMA SchedFrame ==
  ASSUME IInv, NEW w \in Workers, SameWorker(w),
         \A t \in Threads : Pc(t) = "resumed" /\ thread[t].proc = Nil =>
           Stays(t) /\ thread'[t] = thread[t]
  PROVE  SchedInv(w)'
<1>1. Empty(w)' = Empty(w) /\ worker'[w] = worker[w] /\ gcTask'[w] = gcTask[w] /\ SchedInv(w)
  BY DEF Empty, Lo, Hi, SameWorker, IInv
<1>2. ASSUME NEW t \in Threads, Offers(w, t), ~Empty(w) PROVE Offers(w, t)'
  <2>1. Pc(t) = "resumed" /\ thread[t].proc = Nil
    BY <1>2, OffersFacts DEF Offers
  <2> QED
    BY <1>2, <2>1, OffersFrame DEF SameWorker
<1> QED
  BY <1>1, <1>2 DEF SchedInv

(* Who is about to go on with a thread stays alone in that.                 *)
LEMMA SwitchFrame ==
  ASSUME IInv, NEW w \in Workers, NEW t \in Threads, StillDone,
         thread'[t].open = thread[t].open, thread'[t].pc = thread[t].pc,
         thread[t].proc = Nil => thread'[t].proc = Nil,
         \A v \in Workers : Switch(v, t)' => Switch(v, t)
  PROVE  SwitchInv(w, t)'
<1>1. Types /\ OpenInv(t) /\ SwitchInv(w, t) /\ Top(t)' = Top(t) /\ Pc(t)' = Pc(t)
  BY DEF IInv, Top, Open, Pc
<1>2. Pc(t) \in {"wait", "join"} => Top(t) \in Forks
  BY <1>1, OpenFacts DEF OpenInv
<1>3. Pc(t) \in {"wait", "join"} /\ Pc(Top(t)) = "gone" => Pc(Top(t))' = "gone"
  BY <1>1, <1>2 DEF StillDone, Pc
<1> QED
  BY <1>1, <1>3 DEF SwitchInv

(* What was taken from the deque, or is started, is x.                      *)
LEMMA TaskFrame ==
  ASSUME IInv, NEW w \in Workers, Shrinks(w), NEW x,
         \A f \in Forks : Unstarted(f) /\ f # x => Unstarted(f)',
         \A t \in Threads : Parked(t) /\ t # x => Parked(t)',
         \A d \in Slots(w) : SlotOf(queue'[w], d).kind # "GCTask" =>
           d \notin Slots(w)' \/ Slot(w, d).id # x
  PROVE  TaskInv(w)'
<1>1. ASSUME NEW d \in Slots(w)'
      PROVE  /\ d \in Slots(w) /\ Slot(w, d)' = Slot(w, d) /\ Slot(w, d) \in Tasks
             /\ SlotOf(queue'[w], d) = Slot(w, d)
  BY DequeFacts DEF Shrinks, Slots, Lo, Hi, Slot, IInv, Types
<1>2. ASSUME NEW d \in Slots(w)', (Slot(w, d).kind = "NewThread")'
      PROVE  (Slot(w, d).id \in Forks /\ Unstarted(Slot(w, d).id))'
  <2>1. PICK f \in Forks : f = Slot(w, d).id /\ Unstarted(f)
    BY <1>1, <1>2 DEF IInv, TaskInv
  <2>2. Unstarted(f)'
    BY <1>1, <1>2, <2>1
  <2>3. f = Slot(w, d)'.id
    BY <1>1, <2>1
  <2> QED
    BY <2>2, <2>3 DEF Unstarted, Born, Spawning, Pc, Top, Open
<1>3. ASSUME NEW d \in Slots(w)', (Slot(w, d).kind = "Continuation")'
      PROVE  Parked(Slot(w, d).id)'
  <2>1. PICK t \in Threads : t = Slot(w, d).id /\ Parked(t)
    BY <1>1, <1>3 DEF IInv, TaskInv, Tasks
  <2>2. Parked(t)'
    BY <1>1, <1>3, <2>1
  <2>3. t = Slot(w, d)'.id
    BY <1>1, <2>1
  <2> QED
    BY <2>2, <2>3 DEF Parked, Pc, Switch
<1> QED
  BY <1>1, <1>2, <1>3 DEF TaskInv

(* No task of a deque with nothing new is started.                          *)
LEMMA TaskStays ==
  ASSUME IInv, NEW w \in Workers, Shrinks(w),
         \A f \in Forks : Unstarted(f) => Unstarted(f)',
         \A t \in Threads : Parked(t) => Parked(t)'
  PROVE  TaskInv(w)'
<1>1. \A d \in Slots(w) : Slot(w, d).id # Nil
  BY DequeFacts, ConstantsAssumption DEF Slots, Slot, Lo, Hi, IInv, Types, Tasks, Threads
<1> QED
  BY <1>1, TaskFrame

(* A collection that is not taken up is where it was.                       *)
LEMMA TokenFrame ==
  ASSUME IInv, NEW f \in Forks, gcRuns'[f] = gcRuns[f],
         join'[f].how = "none" => join[f].how = "none",
         \A w \in Workers :
           /\ Queued(w, f)' => Queued(w, f)
           /\ gcTask'[w] = f => gcTask[w] = f
           /\ worker'[w].gc = f => worker[w].gc = f
  PROVE  TokenInv(f)'
<1>1. TokenInv(f)
  BY DEF IInv
<1> QED
  BY <1>1 DEF TokenInv, Boxed, Collects

(* Only thread t goes on, with its forks as they were: then of the forks    *)
(* only its innermost may have its left side at another point.              *)
LEMMA LeftFrame ==
  ASSUME IInv, NEW t \in Threads, \A u \in Threads : u # t => thread'[u] = thread[u],
         thread'[t].open = thread[t].open, \A g \in Forks : Kept(g),
         NEW f \in Forks, join[f].how = "forked"
  PROVE  /\ IsOpen(f)'
         /\ \/ join[f].left = t /\ f = Top(t)
            \/ (Spawning(f)' <=> Spawning(f)) /\ (LeftDone(f)' <=> LeftDone(f))
<1>1. PICK u \in Threads : u = join[f].left
  BY DEF IInv, ForkInv
<1>2. join'[f].left = u /\ thread'[u].open = thread[u].open /\ IsOpen(f)
  BY <1>1 DEF Kept, IInv, ForkInv
<1>3. IsOpen(f)'
  BY <1>1, <1>2 DEF IsOpen, Opened, Open
<1>4. CASE u = t /\ f # Top(t)
  BY <1>1, <1>2, <1>3, <1>4 DEF Spawning, LeftDone, Top, Open
<1>5. CASE u # t
  BY <1>1, <1>2, <1>3, <1>5 DEF Spawning, LeftDone, Top, Open, Pc
<1> QED
  BY <1>1, <1>3, <1>4, <1>5

(* A step of worker w changes at most thread t, and at most thread s is now *)
(* to be gone on with by w.                                                 *)
Steps(w, t, s) ==
  /\ \A u \in Threads : u # t =>
       (Stays(u) \/ Pc(u) = "unborn") /\ thread'[u] = thread[u] /\ thread[u].proc # w
  /\ \A v \in Workers : v # w =>
       worker'[v] = worker[v] /\ gcTask'[v] = gcTask[v] /\ ~User(v, t)
  /\ \A v \in Workers, u \in Threads : u # s => (Switch(v, u)' => Switch(v, u))
  /\ StillDone

(* Of a thread that is unborn the invariant says little.                     *)
LEMMA UnbornFrame ==
  ASSUME IInv, NEW w \in Workers, NEW u \in Threads, Pc(u) = "unborn", thread'[u] = thread[u],
         worker'[w] = worker[w]
  PROVE  /\ OpenInv(u)' /\ DepthInv(u)' /\ RoomInv(u)'
         /\ UserInv(w, u)' /\ ResumeInv(w, u)' /\ DequeInv(w, u)' /\ ~Offers(w, u)
<1>1. Open(u) = <<>> /\ Pc(u)' = "unborn" /\ Open(u)' = <<>> /\ Opened(u)' = {}
  BY DEF IInv, OpenInv, Pc, Open, Opened
<1>2. ~User(w, u) /\ ~Switch(w, u)
  <2>1. WorkerInv(w) /\ ThreadInv(u) /\ SwitchInv(w, u) /\ w # Nil
    BY ConstantsAssumption DEF IInv
  <2> QED
    BY <2>1 DEF WorkerInv, ThreadInv, SwitchInv, User
<1>3. ~User(w, u)' /\ ~Switch(w, u)'
  BY <1>2 DEF User, Switch
<1>4. OpenInv(u)'
  BY <1>1 DEF OpenInv
<1>5. DepthInv(u)' /\ RoomInv(u)'
  BY <1>1 DEF DepthInv, RoomInv
<1>6. UserInv(w, u)' /\ ResumeInv(w, u)' /\ DequeInv(w, u)'
  BY <1>3 DEF UserInv, ResumeInv, DequeInv
<1> QED
  BY <1>4, <1>5, <1>6 DEF Offers

(* What a step leaves of the invariant for the other workers and threads.   *)
LEMMA Frame ==
  ASSUME IInv, NEW w \in Workers, NEW t, NEW s, Steps(w, t, s)
  PROVE  /\ \A u \in Threads : u # t =>
              /\ ThreadInv(u)' /\ OpenInv(u)' /\ DepthInv(u)' /\ RoomInv(u)'
              /\ \A v \in Workers : v # w /\ queue'[v] = queue[v] =>
                   UserInv(v, u)' /\ ResumeInv(v, u)' /\ DequeInv(v, u)'
              /\ u # s => \A v \in Workers : SwitchInv(v, u)'
         /\ \A v \in Workers : v # w =>
              /\ WorkerInv(v)'
              /\ queue'[v] = queue[v] /\ (Empty(v) \/ ~Offers(v, t)) => SchedInv(v)'
<1>1. ASSUME NEW u \in Threads, u # t
      PROVE  ThreadInv(u)' /\ OpenInv(u)' /\ DepthInv(u)' /\ RoomInv(u)'
  <2>1. OpenInv(u)' /\ DepthInv(u)' /\ RoomInv(u)'
    <3>1. thread'[u] = thread[u] /\ (Stays(u) \/ Pc(u) = "unborn")
      BY <1>1 DEF Steps
    <3>2. CASE Stays(u)
      BY <3>1, <3>2, ThreadFrame
    <3>3. CASE Pc(u) = "unborn"
      <4>1. OpenInv(u) /\ Pc(u)' = "unborn" /\ Open(u)' = Open(u)
        BY <3>1, <3>3 DEF IInv, Pc, Open
      <4>2. Open(u) = <<>> /\ Opened(u)' = {}
        BY <3>3, <4>1 DEF OpenInv, Opened
      <4>3. OpenInv(u)'
        BY <4>1, <4>2 DEF OpenInv
      <4> QED
        BY <4>1, <4>3 DEF DepthInv, RoomInv
    <3> QED
      BY <3>1, <3>2, <3>3
  <2>2. ThreadInv(u)'
    <3>1. ThreadInv(u) /\ thread'[u] = thread[u] /\ thread[u].proc # w
      BY <1>1 DEF Steps, IInv
    <3>2. thread[u].proc # Nil => thread[u].proc \in Workers
      BY DEF IInv, Types, ThreadStates
    <3>3. \A v \in Workers : v # w => worker'[v] = worker[v]
      BY DEF Steps
    <3> QED
      BY <3>1, <3>2, <3>3 DEF ThreadInv, Pc, User
  <2> QED
    BY <2>1, <2>2
<1>2. ASSUME NEW u \in Threads, u # t, NEW v \in Workers, v # w, queue'[v] = queue[v]
      PROVE  UserInv(v, u)' /\ ResumeInv(v, u)' /\ DequeInv(v, u)'
  BY <1>2, WorkFrame, UnbornFrame DEF Steps, SameWorker
<1>3. ASSUME NEW u \in Threads, u # t, u # s, NEW v \in Workers PROVE SwitchInv(v, u)'
  BY <1>3, SwitchFrame DEF Steps
<1>4. ASSUME NEW v \in Workers, v # w PROVE WorkerInv(v)'
  <2>1. WorkerInv(v) /\ worker'[v] = worker[v] /\ ~User(v, t)
    BY <1>4 DEF Steps, IInv
  <2>2. \A u \in Threads : u # t => thread'[u] = thread[u]
    BY DEF Steps
  <2> QED
    BY <2>1, <2>2 DEF WorkerInv, User
<1>5. ASSUME NEW v \in Workers, v # w, queue'[v] = queue[v], Empty(v) \/ ~Offers(v, t)
      PROVE  SchedInv(v)'
  <2>1. SchedInv(v) /\ worker'[v] = worker[v] /\ gcTask'[v] = gcTask[v] /\ Empty(v)' = Empty(v)
    BY <1>5 DEF Steps, IInv, Empty, Lo, Hi
  <2>2. ~Empty(v) => \A u \in Threads : Offers(v, u) => Offers(v, u)'
    BY <1>5, OffersFrame, UnbornFrame DEF Steps
  <2> QED
    BY <2>1, <2>2 DEF SchedInv
<1> QED
  BY <1>1, <1>2, <1>3, <1>4, <1>5

(* Of two tasks that stand for the same thread, or its start, there is one. *)
LEMMA TakenOnce ==
  ASSUME IInv, NEW w \in Workers, NEW v \in Workers, NEW d \in Slots(w), NEW e \in Slots(v),
         Slot(w, d).kind \in {"NewThread", "Continuation"}, Slot(v, e).kind # "GCTask",
         Slot(w, d).id = Slot(v, e).id
  PROVE  v = w /\ e = d
<1>1. Slot(v, e).kind \in {"NewThread", "Continuation"}
  BY DequeFacts DEF Slots, Slot, Lo, Hi, IInv, Types, Tasks
<1>2. OnceInv(w, v) /\ TaskInv(w) /\ TaskInv(v)
  BY DEF IInv
<1>3. Slot(w, d).kind = Slot(v, e).kind
  BY <1>1, <1>2 DEF TaskInv, Unstarted, Parked, Born, Pc
<1> QED
  BY <1>2, <1>3 DEF OnceInv, SameTask

-------------------------------------------------------------------------------
(* A thread goes on alone *)

(* The step does not end the program with one of the scheduler's messages. *)
Lives == RoomForBoth /\ NeverDies => status' \in {"running", "exited"}


Runs(w, t) ==
  /\ User(w, t) /\ thread[t].proc = w
  /\ \A v \in Workers : (User(v, t) => v = w) /\ ~Switch(v, t)

(* The steps in which the thread t of worker w passes from one control      *)
(* point to another, and counts down a joinpoint or fills it in.            *)
LEMMA ThreadStep ==
  ASSUME IInv, NEW w \in Workers, NEW t \in Threads, Runs(w, t),
         Pc(t) \in {"run", "decrement", "done", "resumed"},
         UNCHANGED <<queue, worker, gcTask, gcRuns>>, status' \in Statuses,
         thread' \in [Threads -> ThreadStates], join' \in [Forks -> Joinpoints],
         \A u \in Threads : u # t => thread'[u] = thread[u],
         thread'[t].open = thread[t].open, thread'[t].proc = thread[t].proc,
         \A g \in Forks : Kept(g),
         NEW c, c = thread'[t].pc, c \in {"run", "decrement", "wait", "join", "done", "leave", "toLeft"},
         t = Root => c \notin {"done", "leave", "toLeft"},
         c \in {"done", "leave", "toLeft"} => Open(t) = <<>>,
         c \in {"decrement", "wait", "join"} => Open(t) # <<>>,
         c \in {"wait", "join"} => \A i \in Opened(t) : Born(Open(t)[i]),
         c # "run" => Empty(w),
         c = "join" => Pc(Top(t)) \in {"leave", "gone"},
         thread'[t].depth = Level(t),
         \A g \in Forks :
           \/ ForkInv(g)'
           \/ /\ join'[g] = join[g] /\ Alike(g)
              /\ g # Top(t) \/ join[g].left # t \/ c \notin {"wait", "join"}
  PROVE  IInv'
<1>1. /\ \A u \in Threads : thread'[u].open = thread[u].open /\ StillBorn(u)
      /\ StillDone /\ w # Nil
  BY ConstantsAssumption DEF StillBorn, StillDone, Pc, Threads
<1>2. \A u \in Threads : Stays(u) /\ OpenInv(u) /\ ThreadInv(u)
  BY <1>1, AllStay DEF IInv
<1>3. \A v \in Workers : Shrinks(v)
  BY SameShrinks
<1>4. \A v \in Workers, u \in Threads : (Switch(v, u)' <=> Switch(v, u)) /\ (User(v, u)' <=> User(v, u))
  BY DEF Switch, User
<1>5. \A u \in Threads : u # t => thread[u].proc # w
  BY <1>1, <1>2 DEF ThreadInv, Runs, User
<1>6. Steps(w, t, t)
  BY <1>1, <1>2, <1>4, <1>5 DEF Steps, Runs
<1>7. /\ \A g \in Forks : join[g].how = "forked" => IsOpen(g)'
      /\ \A g \in Forks : join[g].how = "forked" /\ g = Top(t) /\ join[g].left = t =>
           ~Spawning(g) /\ ~Spawning(g)' /\ ~LeftDone(g) /\ (LeftDone(g)' <=> c \in {"wait", "join"})
      /\ \A g \in Forks : join[g].how = "forked" /\ ~(g = Top(t) /\ join[g].left = t) =>
           (Spawning(g)' <=> Spawning(g)) /\ (LeftDone(g)' <=> LeftDone(g))
  <2>1. ASSUME NEW g \in Forks, join[g].how = "forked", g = Top(t), join[g].left = t
        PROVE  ~Spawning(g) /\ ~Spawning(g)' /\ ~LeftDone(g) /\ (LeftDone(g)' <=> c \in {"wait", "join"})
    BY <2>1 DEF Spawning, LeftDone, Top, Open, Pc, Kept
  <2> QED
    BY <2>1, LeftFrame
<1>8. Types'
  BY DEF IInv, Types, Hi
<1>9. \A v \in Workers : TaskInv(v)'
  <2>1. \A g \in Forks : Unstarted(g) => Unstarted(g)'
    BY <1>7 DEF Unstarted, Born, Kept, Pc, Threads
  <2>2. \A u \in Threads : Parked(u) => Parked(u)'
    BY <1>1, <1>4 DEF Parked, Pc, Runs
  <2> QED
    BY <1>3, <2>1, <2>2, TaskStays
<1>10. \A g \in Forks : ForkInv(g)' /\ TokenInv(g)'
  <2>1. \A g \in Forks : TokenInv(g)'
    BY <1>3, TokenFrame, QueuedStays DEF Kept
  <2>2. \A g \in Forks : ForkInv(g)'
    BY <1>7, ForkStays DEF IInv
  <2> QED
    BY <2>1, <2>2
<1>11. OpenInv(t)'
  BY <1>2, OpenStays DEF IInv
<1>12. ThreadInv(t)'
  BY <1>1, <1>2 DEF ThreadInv, Pc, User, Runs
<1>13. DepthInv(t)' /\ RoomInv(t)'
  BY <1>2, LevelStays DEF DepthInv, RoomInv, IInv, Pc
<1>14. WorkerInv(w)' /\ SchedInv(w)'
  BY DEF IInv, WorkerInv, SchedInv, Runs, User
<1>15. \A v \in Workers : SwitchInv(v, t)' /\ ResumeInv(v, t)'
  BY <1>4 DEF SwitchInv, ResumeInv, Runs
<1>16. UserInv(w, t)'
  <2>1. c = "join" => Top(t) \in Forks
    BY <1>2, OpenFacts DEF IInv
  <2> QED
    BY <1>1, <2>1 DEF UserInv, Pc, StillDone, Top, Open
<1>17. DequeInv(w, t)'
  <2>1. /\ Holds(w, t)' /\ Covers(w, t)' /\ Level(t)' = Level(t)
        /\ Hi(w)' = Hi(w) /\ Lo(w)' = Lo(w)
    BY <1>2, FitFrame DEF IInv, DequeInv, Runs, Pc
  <2>2. Hi(w) = Level(t)
    BY DEF IInv, DequeInv, Runs
  <2> QED
    BY <2>1, <2>2 DEF DequeInv, Pc, Empty
<1>18. \A v, x \in Workers : OnceInv(v, x)'
  BY <1>3, OnceStays DEF IInv
<1>19. /\ \A v \in Workers : v # w => WorkerInv(v)' /\ SchedInv(v)'
       /\ \A u \in Threads : u # t => ThreadInv(u)' /\ OpenInv(u)' /\ DepthInv(u)' /\ RoomInv(u)'
       /\ \A v \in Workers, u \in Threads : u # t /\ v # w =>
            SwitchInv(v, u)' /\ UserInv(v, u)' /\ ResumeInv(v, u)' /\ DequeInv(v, u)'
  <2>1. \A v \in Workers : SchedInv(v)'
    BY <1>1, <1>2, SchedFrame DEF SameWorker, Runs
  <2> QED
    BY <1>6, <2>1, Frame
<1>20. \A u \in Threads : u # t =>
         SwitchInv(w, u)' /\ UserInv(w, u)' /\ ResumeInv(w, u)' /\ DequeInv(w, u)'
  BY <1>4 DEF SwitchInv, UserInv, ResumeInv, DequeInv, Runs, User, Switch
<1>21. \A v \in Workers : v # w => UserInv(v, t)' /\ DequeInv(v, t)'
  BY <1>4 DEF UserInv, DequeInv, Runs
<1> QED
  BY <1>8, <1>9, <1>10, <1>11, <1>12, <1>13, <1>14, <1>15, <1>16, <1>17, <1>18, <1>19,
     <1>20, <1>21 DEF IInv

(* Every action of a thread starts from these facts.                        *)
LEMMA RunsFacts ==
  ASSUME IInv, NEW w \in Workers, NEW c, At(w, c)
  PROVE  \E t \in Threads :
           /\ t = Current(w) /\ Pc(t) = c /\ thread[t].pc = c
           /\ c \in {"run", "decrement", "done", "resumed", "spawn", "syncGC", "join", "leave", "toLeft"} =>
                Runs(w, t)
           /\ User(w, t) /\ thread[t].proc = w /\ w # Nil
           /\ \A v \in Workers : User(v, t) => v = w
           /\ OpenInv(t) /\ DepthInv(t) /\ DequeInv(w, t) /\ UserInv(w, t) /\ ThreadInv(t)
<1>1. PICK t \in Threads :
        /\ t = Current(w) /\ User(w, t) /\ Pc(t) = c /\ thread[t].proc = w
        /\ \A v \in Workers : User(v, t) => v = w
  BY CurrentFacts
<1>2. w # Nil
  BY ConstantsAssumption
<1>3. c \in {"run", "decrement", "done", "resumed", "spawn", "syncGC", "join", "leave", "toLeft"} =>
        \A v \in Workers : ~Switch(v, t)
  BY <1>1, <1>2 DEF IInv, SwitchInv
<1> QED
  BY <1>1, <1>2, <1>3 DEF Runs, IInv, Pc

(* The innermost open fork of a worker's thread.                            *)
LEMMA InnermostFacts ==
  ASSUME IInv, NEW w \in Workers, NEW t \in Threads, t = Current(w), Open(t) # <<>>
  PROVE  \E f \in Forks :
           /\ f = TopFork(w) /\ f = Top(t) /\ join[f].how = "forked" /\ join[f].left = t
           /\ Len(Open(t)) \in Opened(t) /\ Open(t)[Len(Open(t))] = f
           /\ Level(t) = join[f].depth + 1 /\ join[f].depth \in Nat
           /\ ForkInv(f) /\ TokenInv(f)
<1>1. OpenInv(t) /\ Types
  BY DEF IInv
<1> QED
  BY <1>1, OpenFacts DEF TopFork, Last, Top, Open, IInv

(* A left side that finds its deque empty has all its forks stolen.         *)
LEMMA EmptyFacts ==
  ASSUME IInv, NEW w \in Workers, NEW t \in Threads, User(w, t), Empty(w),
         Hi(w) = Level(t), Pc(t) # "spawn"
  PROVE  \A i \in Opened(t) : Born(Open(t)[i])
<1>1. ASSUME NEW i \in Opened(t) PROVE Born(Open(t)[i])
  <2>1. /\ ~Spawning(Open(t)[i]) /\ join[Open(t)[i]].depth < Level(t)
        /\ join[Open(t)[i]].depth \in Nat /\ Level(t) \in Nat
    BY OpenFacts DEF Spawning, IInv
  <2>2. Covers(w, t)
    BY DEF IInv, DequeInv
  <2> QED
    BY <2>1, <2>2 DEF Covers, Empty
<1> QED
  BY <1>1

(* The fetch-and-add on an incounter.                                       *)
LEMMA DecrementFacts ==
  ASSUME Types, NEW f \in Forks, join[f].incounter \in 1 .. 2, Decrement(f)
  PROVE  /\ join' \in [Forks -> Joinpoints] /\ \A g \in Forks : Kept(g)
         /\ \A g \in Forks : g # f => join'[g] = join[g]
         /\ join'[f].incounter = join[f].incounter - 1 /\ join'[f].right = join[f].right
<1>1. join \in [Forks -> Joinpoints] /\ join[f].incounter - 1 \in 0 .. 2
  BY DEF Types
<1>2. join'[f] = [join[f] EXCEPT !.incounter = @ - 1]
  BY <1>1 DEF Decrement
<1>3. /\ join'[f] \in Joinpoints /\ Kept(f)
      /\ join'[f].incounter = join[f].incounter - 1 /\ join'[f].right = join[f].right
  BY <1>1, <1>2 DEF Joinpoints, Kept
<1>4. \A g \in Forks : g # f => join'[g] = join[g]
  BY <1>1 DEF Decrement
<1>5. join' \in [Forks -> Joinpoints]
  BY <1>1, <1>3 DEF Decrement
<1> QED
  BY <1>3, <1>4, <1>5 DEF Kept

(* The left side counts itself: it goes on, or the right side will.         *)
LEMMA SyncDecrementKeeps ==
  ASSUME IInv, NEW w \in Workers, SyncDecrement(w)
  PROVE  IInv' /\ Lives
<1>1. PICK t \in Threads :
        /\ t = Current(w) /\ Pc(t) = "decrement" /\ thread[t].pc = "decrement" /\ Runs(w, t)
        /\ thread[t].proc = w /\ OpenInv(t) /\ DepthInv(t) /\ DequeInv(w, t)
  BY RunsFacts DEF SyncDecrement
<1>2. PICK f \in Forks :
        /\ f = TopFork(w) /\ f = Top(t) /\ join[f].how = "forked" /\ join[f].left = t
        /\ ForkInv(f) /\ Open(t) # <<>>
  BY <1>1, InnermostFacts DEF OpenInv
<1>3. PICK c : c = IF join[f].incounter = 1 THEN "join" ELSE "wait"
  OBVIOUS
<1>4. /\ thread' = [thread EXCEPT ![t].pc = c]
      /\ Decrement(f)
      /\ UNCHANGED <<queue, worker, gcTask, gcRuns, status>>
  BY <1>1, <1>2, <1>3 DEF SyncDecrement, Goto, HitsZero
<1>5. ~Spawning(f) /\ ~LeftDone(f) /\ Pc(f) # "toLeft"
  BY <1>1, <1>2 DEF LeftDone, Spawning, ForkInv
<1>6. join[f].incounter = 1 + (IF RightHasDone(f) THEN 0 ELSE 1)
  BY <1>2, <1>5 DEF ForkInv
<1>7. /\ thread' \in [Threads -> ThreadStates]
      /\ \A u \in Threads : u # t => thread'[u] = thread[u]
      /\ thread'[t].open = thread[t].open /\ thread'[t].proc = thread[t].proc
      /\ thread'[t].depth = thread[t].depth /\ thread'[t].pc = c
  BY ZenonT(40), <1>3, <1>4 DEF IInv, Types, ThreadStates
<1>8. /\ join' \in [Forks -> Joinpoints]
      /\ \A g \in Forks : Kept(g) /\ (g # f => join'[g] = join[g])
      /\ join'[f].incounter = (IF RightHasDone(f) THEN 0 ELSE 1) /\ join'[f].right = join[f].right
  BY <1>2, <1>4, <1>6, DecrementFacts DEF IInv
<1>9. /\ Empty(w) /\ Hi(w) = Level(t) /\ thread[t].depth = Level(t)
      /\ \A i \in Opened(t) : Born(Open(t)[i])
  BY <1>1, EmptyFacts DEF DequeInv, DepthInv, Runs
<1>10. \A g \in Forks : Alike(g)
  BY <1>1, <1>3, <1>7 DEF Alike, Inner, Threads
<1>11. ForkInv(f)'
  <2>1. ~Spawning(f)' /\ LeftDone(f)'
    BY <1>2, <1>3, <1>7, <1>8 DEF Spawning, LeftDone, Top, Open, Pc, Kept
  <2>2. /\ RightHasDone(f)' <=> RightHasDone(f)
        /\ Pc(f)' \in {"done", "leave", "toLeft", "gone"} <=> Pc(f) \in {"done", "leave", "toLeft", "gone"}
        /\ Pc(f)' # "toLeft"
    BY <1>5, <1>10 DEF Pc, RightHasDone, Alike, Inner
  <2>3. IsOpen(f)'
    BY <1>2, <1>7, <1>8, LeftFrame
  <2> QED
    BY <1>2, <1>8, <2>1, <2>2, <2>3 DEF ForkInv, Kept
<1>12. c = "join" => Pc(Top(t)) \in {"leave", "gone"}
  BY <1>2, <1>3, <1>5, <1>6 DEF RightHasDone
<1>13. status' \in Statuses /\ c \in {"wait", "join"} /\ Lives
  BY <1>3, <1>4 DEF IInv, Types, Lives, NeverDies
<1> QED
  BY <1>1, <1>2, <1>4, <1>7, <1>8, <1>9, <1>10, <1>11, <1>12, <1>13, ThreadStep

(* The left side finds that its right side was stolen.                      *)
LEMMA SyncPopEmptyKeeps ==
  ASSUME IInv, NEW w \in Workers, SyncPop(w), IsEmpty(queue[w])
  PROVE  IInv' /\ Lives
<1>1. PICK t \in Threads :
        /\ t = Current(w) /\ Pc(t) = "run" /\ thread[t].pc = "run" /\ Runs(w, t)
        /\ DepthInv(t) /\ DequeInv(w, t)
  BY RunsFacts DEF SyncPop
<1>2. /\ thread' = [thread EXCEPT ![t].pc = "decrement"] /\ Open(t) # <<>>
      /\ UNCHANGED <<queue, worker, gcTask, join, gcRuns, status>>
  BY <1>1 DEF SyncPop, Goto, Open
<1>3. /\ thread' \in [Threads -> ThreadStates]
      /\ \A u \in Threads : u # t => thread'[u] = thread[u]
      /\ thread'[t].open = thread[t].open /\ thread'[t].proc = thread[t].proc
      /\ thread'[t].depth = thread[t].depth /\ thread'[t].pc = "decrement"
  BY <1>2 DEF IInv, Types, ThreadStates
<1>4. /\ \A g \in Forks : Kept(g) /\ Alike(g) /\ join'[g] = join[g]
      /\ join' \in [Forks -> Joinpoints] /\ status' \in Statuses /\ Lives
  BY <1>1, <1>2, <1>3 DEF Kept, Alike, Inner, IInv, Types, Lives, NeverDies, Threads
<1>5. Empty(w) /\ thread[t].depth = Level(t)
  BY <1>1, DequeFacts DEF DepthInv, Empty, Lo, Hi, IInv, Types
<1>6. PICK c : c = "decrement"
  OBVIOUS
<1> QED
  BY <1>1, <1>2, <1>3, <1>4, <1>5, <1>6, ThreadStep

(* A thread goes on after its collection was done by its own worker.        *)
LEMMA SyncGCResumeKeeps ==
  ASSUME IInv, NEW w \in Workers, SyncGCResume(w)
  PROVE  IInv' /\ Lives
<1>1. PICK t \in Threads :
        /\ t = Current(w) /\ Pc(t) = "resumed" /\ thread[t].pc = "resumed" /\ Runs(w, t)
        /\ OpenInv(t) /\ DepthInv(t)
  BY RunsFacts DEF SyncGCResume
<1>2. /\ thread' = [thread EXCEPT ![t] =
           [thread[t] EXCEPT !.pc = "run", !.gc = Nil, !.depth = thread[t].depth - 1]]
      /\ UNCHANGED <<queue, worker, gcTask, join, gcRuns, status>>
  BY <1>1 DEF SyncGCResume
<1>3. thread[t].depth = Level(t) + 1 /\ Level(t) \in Nat
  BY <1>1, OpenFacts DEF DepthInv, IInv
<1>4. /\ thread'[t] \in ThreadStates
      /\ thread'[t].open = thread[t].open /\ thread'[t].proc = thread[t].proc
      /\ thread'[t].depth = Level(t) /\ thread'[t].pc = "run"
  <2>1. thread \in [Threads -> ThreadStates] /\ thread[t] \in ThreadStates
    BY DEF IInv, Types
  <2>2. thread[t].depth \in 0 .. Capacity /\ Capacity \in Nat
    BY <2>1, ConstantsAssumption DEF ThreadStates
  <2>3. thread[t].depth - 1 = Level(t) /\ Level(t) \in 0 .. Capacity
    BY <1>3, <2>2
  <2>4. thread'[t] = [thread[t] EXCEPT !.pc = "run", !.gc = Nil, !.depth = thread[t].depth - 1]
    BY <1>2, <2>1
  <2>5. thread'[t] = [thread[t] EXCEPT !.pc = "run", !.gc = Nil, !.depth = Level(t)]
    BY <2>3, <2>4
  <2>6. thread'[t] \in ThreadStates
    BY <2>1, <2>3, <2>5 DEF ThreadStates
  <2> QED
    BY <2>1, <2>5, <2>6 DEF ThreadStates
<1>5. /\ thread' \in [Threads -> ThreadStates]
      /\ \A u \in Threads : u # t => thread'[u] = thread[u]
  BY <1>2, <1>4 DEF IInv, Types
<1>6. /\ \A g \in Forks : Kept(g) /\ Alike(g) /\ join'[g] = join[g]
      /\ join' \in [Forks -> Joinpoints] /\ status' \in Statuses /\ Lives
  BY <1>1, <1>2, <1>4, <1>5 DEF Kept, Alike, Inner, IInv, Types, Lives, NeverDies, Threads
<1>7. PICK c : c = "run"
  OBVIOUS
<1> QED
  BY <1>1, <1>2, <1>4, <1>5, <1>6, <1>7, ThreadStep

(* A thread without open forks has no task in its worker's deque, and it is *)
(* at the depth at which it started.                                        *)
LEMMA NoForksFacts ==
  ASSUME IInv, NEW w \in Workers, NEW t \in Threads, Open(t) = <<>>, Holds(w, t), Hi(w) = Level(t)
  PROVE  Empty(w) /\ Level(t) = Base(t)
<1>1. Opened(t) = {} /\ Level(t) = Base(t)
  BY OpenFacts DEF Opened, IInv
<1>2. Lo(w) \in Nat /\ Hi(w) \in Nat /\ Lo(w) <= Hi(w)
  BY DequeFacts DEF Lo, Hi, IInv, Types
<1>3. Lo(w) \notin Slots(w)
  <2>1. SUFFICES ASSUME Lo(w) \in Slots(w) PROVE FALSE
    OBVIOUS
  <2>2. Lo(w) < Level(t)
    BY <1>2, <2>1 DEF Slots
  <2> QED
    BY <1>1, <2>1, <2>2 DEF Holds
<1> QED
  BY <1>1, <1>2, <1>3 DEF Slots, Empty

(* The fork of a right side that runs is open in its left side's thread.    *)
LEMMA RightFacts ==
  ASSUME IInv, NEW f \in Forks, Pc(f) \notin {"unborn", "gone"}, Open(f) = <<>>
  PROVE  /\ join[f].how = "forked" /\ join[f].left \in Threads /\ join[f].left # f
         /\ ~Spawning(f) /\ ForkInv(f) /\ Base(f) = join[f].depth + 1
         /\ join[f].right = IF Pc(f) \in {"done", "leave", "toLeft", "gone"} THEN f ELSE Nil
         /\ join[f].incounter =
              (IF LeftDone(f) THEN 0 ELSE 1) + (IF RightHasDone(f) THEN 0 ELSE 1)
<1>1. ForkInv(f) /\ join[f].how = "forked"
  <2>1. ForkInv(f) /\ join[f].how \in {"none", "forked", "inlined", "dropped", "joined"}
    BY DEF IInv, Types, Joinpoints
  <2> QED
    BY <2>1 DEF ForkInv, Born, Pc
<1>2. join[f].left # f
  <2>1. Open(f) = <<>> => Opened(f) = {}
    BY DEF Opened
  <2> QED
    BY <1>1, <2>1 DEF ForkInv, IsOpen
<1>3. ~Spawning(f) /\ Base(f) = join[f].depth + 1
  BY <1>1, ConstantsAssumption DEF ForkInv, Born, Base, Pc
<1> QED
  BY <1>1, <1>2, <1>3 DEF ForkInv

(* A right side ends, at the depth at which it started.                     *)
LEMMA RightDoneKeeps ==
  ASSUME IInv, NEW w \in Workers, RightDone(w)
  PROVE  IInv' /\ Lives
<1>1. PICK t \in Threads :
        /\ t = Current(w) /\ Pc(t) = "run" /\ thread[t].pc = "run" /\ Runs(w, t)
        /\ DepthInv(t) /\ DequeInv(w, t)
  BY RunsFacts DEF RightDone
<1>2. t \in Forks /\ t # Root /\ Open(t) = <<>>
  BY <1>1 DEF RightDone, Threads, Open
<1>3. Empty(w) /\ Level(t) = join[t].depth + 1 /\ thread[t].depth = Level(t)
  BY <1>1, <1>2, NoForksFacts, RightFacts DEF DequeInv, DepthInv, Runs
<1>4. /\ thread' = [thread EXCEPT ![t].pc = "done"]
      /\ join' = [join EXCEPT ![t].right = t]
      /\ UNCHANGED <<queue, worker, gcTask, gcRuns, status>>
  BY <1>1, <1>3 DEF RightDone, Depth, Goto
<1>5. /\ thread' \in [Threads -> ThreadStates]
      /\ \A u \in Threads : u # t => thread'[u] = thread[u]
      /\ thread'[t].open = thread[t].open /\ thread'[t].proc = thread[t].proc
      /\ thread'[t].depth = thread[t].depth /\ thread'[t].pc = "done"
  BY <1>4 DEF IInv, Types, ThreadStates
<1>6. /\ join' \in [Forks -> Joinpoints]
      /\ \A g \in Forks : g # t => join'[g] = join[g]
      /\ Kept(t) /\ join'[t].right = t /\ join'[t].incounter = join[t].incounter
  BY <1>2, <1>4 DEF IInv, Types, Joinpoints, Kept
<1>7. /\ \A g \in Forks : Kept(g) /\ (g # t => Alike(g))
      /\ status' \in Statuses /\ Lives
  BY <1>4, <1>5, <1>6 DEF Kept, Alike, IInv, Types, Lives, NeverDies, Threads
<1>8. ForkInv(t)'
  <2>1. join[t].left # t /\ join[t].how = "forked" /\ ForkInv(t) /\ ~Spawning(t)
    BY <1>1, <1>2, RightFacts
  <2>2. IsOpen(t)' /\ ~Spawning(t)' /\ (LeftDone(t)' <=> LeftDone(t))
    BY <1>2, <1>5, <1>7, <2>1, LeftFrame
  <2> QED
    BY <1>1, <1>2, <1>5, <1>6, <2>1, <2>2 DEF ForkInv, Kept, Pc, RightHasDone
<1>9. PICK c : c = "done"
  OBVIOUS
<1> QED
  BY <1>1, <1>2, <1>3, <1>4, <1>5, <1>6, <1>7, <1>8, <1>9, ThreadStep

(* A right side counts itself; its worker's deque is then empty.            *)
LEMMA RightDecrementKeeps ==
  ASSUME IInv, NEW w \in Workers, RightDecrement(w)
  PROVE  IInv' /\ Lives
<1>1. PICK t \in Threads :
        /\ t = Current(w) /\ Pc(t) = "done" /\ thread[t].pc = "done" /\ Runs(w, t)
        /\ OpenInv(t) /\ DepthInv(t) /\ DequeInv(w, t) /\ ThreadInv(t)
  BY RunsFacts DEF RightDecrement
<1>2. t \in Forks /\ t # Root /\ Open(t) = <<>>
  BY <1>1 DEF ThreadInv, OpenInv, Threads
<1>3. /\ Empty(w) /\ Hi(w) = Level(t) /\ thread[t].depth = Level(t)
      /\ ~RightHasDone(t)
  BY <1>1 DEF DequeInv, DepthInv, Runs, RightHasDone
<1>4. /\ join[t].left # t /\ join[t].how = "forked" /\ ForkInv(t) /\ ~Spawning(t)
      /\ join[t].incounter = (IF LeftDone(t) THEN 0 ELSE 1) + 1 /\ join[t].right = t
  BY <1>1, <1>2, <1>3, RightFacts
<1>5. PICK c : c = IF join[t].incounter = 1 THEN "toLeft" ELSE "leave"
  OBVIOUS
<1>6. IsEmpty(queue[w]) /\ queue[w] = AtDepth(Depth(w))
  <2>1. queue[w] \in Deques /\ IsEmpty(queue[w]) /\ queue[w].lo = Depth(w)
    BY <1>1, <1>3, DequeFacts DEF Empty, Lo, Hi, IInv, Types, Depth
  <2> QED
    BY <2>1 DEF Deques, AtDepth, IsEmpty
<1>7. queue \in [Workers -> Deques]
  BY DEF IInv, Types
<1>8. /\ thread' = [thread EXCEPT ![t].pc = c]
      /\ Decrement(t)
      /\ UNCHANGED <<queue, worker, gcTask, gcRuns, status>>
  <2>1. CASE join[t].incounter = 1
    BY <1>1, <1>5, <1>6, <1>7, <2>1 DEF RightDecrement, HitsZero, Goto
  <2>2. CASE join[t].incounter # 1
    BY <1>1, <1>5, <2>2 DEF RightDecrement, HitsZero, Goto
  <2> QED
    BY <2>1, <2>2
<1>9. /\ thread' \in [Threads -> ThreadStates]
      /\ \A u \in Threads : u # t => thread'[u] = thread[u]
      /\ thread'[t].open = thread[t].open /\ thread'[t].proc = thread[t].proc
      /\ thread'[t].depth = thread[t].depth /\ thread'[t].pc = c
  BY ZenonT(40), <1>5, <1>8 DEF IInv, Types, ThreadStates
<1>10. /\ join' \in [Forks -> Joinpoints] /\ \A g \in Forks : Kept(g)
       /\ \A g \in Forks : g # t => join'[g] = join[g]
       /\ join'[t].incounter = (IF LeftDone(t) THEN 0 ELSE 1) /\ join'[t].right = t
  BY <1>2, <1>4, <1>8, DecrementFacts DEF IInv
<1>11. /\ \A g \in Forks : g # t => Alike(g)
       /\ status' \in Statuses /\ Lives
  BY <1>8, <1>9 DEF Alike, IInv, Types, Lives, NeverDies, Threads
<1>12. ForkInv(t)'
  <2>1. IsOpen(t)' /\ ~Spawning(t)' /\ (LeftDone(t)' <=> LeftDone(t))
    BY <1>2, <1>4, <1>9, <1>10, LeftFrame
  <2>2. c = "toLeft" => LeftDone(t)
    BY <1>4, <1>5
  <2> QED
    BY <1>2, <1>4, <1>5, <1>9, <1>10, <2>1, <2>2 DEF ForkInv, Kept, Pc, RightHasDone
<1> QED
  BY <1>1, <1>2, <1>3, <1>5, <1>8, <1>9, <1>10, <1>11, <1>12, ThreadStep

-------------------------------------------------------------------------------
(* A thread leaves its processor *)

(* A thread that is left waits for nobody, or for who goes on with it.      *)
LEMMA LeaveFacts ==
  ASSUME Types, NEW t \in Threads, NEW c \in {"join", "resumed", "gone"},
         thread' = [thread EXCEPT ![t].pc = c, ![t].proc = Nil]
  PROVE  /\ \A u \in Threads : u # t => thread'[u] = thread[u]
         /\ thread'[t].open = thread[t].open /\ thread'[t].depth = thread[t].depth
         /\ thread'[t].gc = thread[t].gc /\ thread'[t].proc = Nil /\ thread'[t].pc = c
         /\ thread' \in [Threads -> ThreadStates]
<1>1. thread \in [Threads -> ThreadStates] /\ thread[t] \in ThreadStates
  BY DEF Types
<1>2. /\ thread'[t] = [thread[t] EXCEPT !.pc = c, !.proc = Nil]
      /\ \A u \in Threads : u # t => thread'[u] = thread[u]
  BY <1>1
<1>3. thread'[t] \in ThreadStates
  BY <1>1, <1>2 DEF ThreadStates
<1>4. thread' \in [Threads -> ThreadStates]
  BY <1>1, <1>3
<1> QED
  BY <1>1, <1>2, <1>4 DEF ThreadStates

(* Thread t of worker w waits for its innermost fork, offers itself, or is  *)
(* at its end; its worker goes back to the scheduler or on with thread s.   *)
LEMMA LeaveStep ==
  ASSUME IInv, NEW w \in Workers, NEW t \in Threads, User(w, t), thread[t].proc = w,
         \A v \in Workers : User(v, t) => v = w,
         UNCHANGED <<queue, gcTask, join, gcRuns, status>>,
         NEW c, thread' = [thread EXCEPT ![t].pc = c, ![t].proc = Nil],
         \/ Pc(t) = "wait" /\ c = "join"
         \/ Pc(t) = "offered" /\ c = "resumed"
         \/ Pc(t) \in {"leave", "toLeft"} /\ c = "gone",
         NEW a \in {"back", "switch"}, NEW s \in Threads \union {Nil}, s # t,
         a = "switch" => s # Nil /\ thread[s].pc \notin {"offered", "resumed"},
         worker' = [worker EXCEPT ![w] = [at |-> a, thread |-> s, gc |-> Nil]],
         a = "back" => s = Nil /\ SchedInv(w)',
         a = "switch" => ResumeInv(w, s)' /\ \A v \in Workers : SwitchInv(v, s)'
  PROVE  IInv'
<1>1. /\ \A u \in Threads : u # t => thread'[u] = thread[u]
      /\ thread'[t].open = thread[t].open /\ thread'[t].depth = thread[t].depth
      /\ thread'[t].gc = thread[t].gc /\ thread'[t].proc = Nil /\ thread'[t].pc = c
      /\ thread' \in [Threads -> ThreadStates]
  <2>1. Types /\ c \in {"join", "resumed", "gone"}
    BY DEF IInv
  <2> QED
    BY <2>1, LeaveFacts
<1>2. /\ \A v \in Workers : v # w => worker'[v] = worker[v]
      /\ worker'[w] = [at |-> a, thread |-> s, gc |-> Nil]
      /\ worker' \in [Workers -> WorkerStates]
  BY DEF IInv, Types, WorkerStates
<1>3. /\ \A u \in Threads : thread'[u].open = thread[u].open /\ StillBorn(u)
      /\ StillDone /\ w # Nil /\ \A g \in Forks : Kept(g) /\ join'[g] = join[g]
  BY <1>1, ConstantsAssumption DEF StillBorn, StillDone, Pc, Threads, Kept
<1>4. \A u \in Threads : Stays(u) /\ OpenInv(u) /\ ThreadInv(u)
  BY <1>3, AllStay DEF IInv
<1>5. \A v \in Workers : Shrinks(v)
  BY SameShrinks
<1>6. /\ \A v \in Workers, u \in Threads : u # s => (Switch(v, u)' => Switch(v, u))
      /\ \A v \in Workers, u \in Threads : User(v, u)' <=> User(v, u) /\ v # w
      /\ \A v \in Workers, u \in Threads : v # w => (Switch(v, u)' <=> Switch(v, u))
      /\ \A u \in Threads : Switch(w, u)' <=> a = "switch" /\ u = s
  BY <1>2 DEF Switch, User
<1>7. \A u \in Threads : u # t => thread[u].proc # w
  BY <1>3, <1>4 DEF ThreadInv, User
<1>8. Steps(w, t, s)
  BY <1>1, <1>2, <1>3, <1>4, <1>6, <1>7 DEF Steps
<1>9. /\ \A v \in Workers : v # w => WorkerInv(v)' /\ (~Offers(v, t) => SchedInv(v)')
      /\ \A u \in Threads : u # t => ThreadInv(u)' /\ OpenInv(u)' /\ DepthInv(u)' /\ RoomInv(u)'
      /\ \A v \in Workers, u \in Threads : u # t /\ v # w =>
           UserInv(v, u)' /\ ResumeInv(v, u)' /\ DequeInv(v, u)'
      /\ \A v \in Workers, u \in Threads : u # t /\ u # s => SwitchInv(v, u)'
  BY <1>8, Frame
<1>10. \A v \in Workers : v # w => SchedInv(v)'
  BY <1>9 DEF Offers
<1>11. Types'
  BY <1>1, <1>2 DEF IInv, Types, Hi
<1>12. \A v \in Workers, u \in Threads : UserInv(v, u)' /\ DequeInv(v, u)'
  <2>1. \A u \in Threads : UserInv(w, u)' /\ DequeInv(w, u)'
    BY <1>6 DEF UserInv, DequeInv
  <2>2. \A v \in Workers : UserInv(v, t)' /\ DequeInv(v, t)'
    BY <1>6 DEF UserInv, DequeInv
  <2> QED
    BY <1>9, <2>1, <2>2
<1>13. WorkerInv(w)' /\ SchedInv(w)'
  <2>1. WorkerInv(w)'
    BY <1>2 DEF WorkerInv
  <2>2. SchedInv(w)'
    BY <1>2 DEF SchedInv
  <2> QED
    BY <2>1, <2>2
<1>14. /\ \A g \in Forks : join[g].how = "forked" => IsOpen(g)'
       /\ \A g \in Forks : join[g].how = "forked" =>
            (Spawning(g)' <=> Spawning(g)) /\ (LeftDone(g)' <=> LeftDone(g))
  <2>1. ASSUME NEW g \in Forks, join[g].how = "forked", g = Top(t), join[g].left = t
        PROVE  (Spawning(g)' <=> Spawning(g)) /\ (LeftDone(g)' <=> LeftDone(g))
    BY <1>1, <2>1 DEF Spawning, LeftDone, Top, Open, Pc
  <2> QED
    BY <1>1, <1>3, <2>1, LeftFrame
<1>15. \A v \in Workers : TaskInv(v)'
  <2>1. \A g \in Forks : Unstarted(g) => Unstarted(g)'
    BY <1>1, <1>14 DEF Unstarted, Born, Kept, Pc, Threads
  <2>2. ASSUME NEW u \in Threads, Parked(u) PROVE Parked(u)'
    <3>1. Pc(u)' \in {"offered", "resumed"} /\ (Pc(u)' = "resumed" => thread'[u].proc = Nil)
      BY <1>1, <2>2 DEF Parked, Pc
    <3>2. a = "switch" => u # s
      BY <2>2 DEF Parked, Pc
    <3> QED
      BY <1>6, <2>2, <3>1, <3>2 DEF Parked
  <2> QED
    BY <1>5, <2>1, <2>2, TaskStays
<1>16. /\ DepthInv(t) /\ RoomInv(t) /\ OpenInv(t) /\ Stays(t) /\ Level(t)' = Level(t) /\ Types
       /\ DequeInv(w, t)
  BY <1>4, LevelStays DEF IInv
<1>17. ThreadInv(t)' /\ OpenInv(t)' /\ DepthInv(t)' /\ RoomInv(t)'
  <2>1. OpenInv(t)'
    BY <1>1, <1>16, OpenStays DEF OpenInv
  <2>2. DepthInv(t)' /\ RoomInv(t)'
    BY <1>1, <1>16 DEF DepthInv, RoomInv, Pc
  <2>3. ThreadInv(t)'
    BY <1>1, <1>3, <1>4 DEF ThreadInv, Pc
  <2> QED
    BY <2>1, <2>2, <2>3
<1>18. \A v \in Workers : SwitchInv(v, t)' /\ ResumeInv(v, t)'
  <2>1. \A v \in Workers : Switch(v, t)' => Switch(v, t)
    BY <1>6
  <2>2. ASSUME NEW v \in Workers, Switch(v, t) PROVE SwitchInv(v, t)' /\ ResumeInv(v, t)'
    <3>1. SwitchInv(v, t) /\ ResumeInv(v, t) /\ Pc(t) \notin {"leave", "toLeft"}
      BY <2>2 DEF IInv, SwitchInv
    <3>2. Top(t) \in Forks \/ Pc(t) # "wait"
      BY <1>16, OpenFacts DEF OpenInv
    <3>3. SwitchInv(v, t)'
      <4>1. /\ Pc(t)' = c /\ c \in {"join", "resumed"} /\ thread'[t].proc = Nil
            /\ c = "join" => Pc(t) = "wait"
        BY <1>1, <3>1 DEF Pc
      <4>2. Pc(t) = "wait" => Pc(Top(t))' = "gone"
        <5>1. Pc(t) = "wait" => Top(t) \in Forks /\ thread[Top(t)].pc = "gone"
          BY <2>2, <3>1, <3>2 DEF SwitchInv, Pc
        <5>2. Pc(t) = "wait" => thread'[Top(t)].pc = "gone"
          BY <1>3, <5>1 DEF StillDone
        <5>3. Top(t)' = Top(t)
          BY <1>1 DEF Top, Open
        <5> QED
          BY <5>2, <5>3 DEF Pc
      <4>3. \A x \in Workers : Switch(x, t)' => x = v
        BY <2>1, <2>2, <3>1 DEF SwitchInv
      <4> QED
        BY <4>1, <4>2, <4>3 DEF SwitchInv
    <3>4. /\ Holds(v, t)' /\ Covers(v, t)' /\ Hi(v)' = Level(t)'
          /\ Empty(v)' <=> Empty(v)
      BY <1>1, <1>16, <2>2, <3>1, FitFrame DEF ResumeInv, Pc, Empty
    <3> QED
      BY <1>1, <2>2, <3>1, <3>3, <3>4 DEF ResumeInv, Pc
  <2> QED
    BY <2>1, <2>2 DEF SwitchInv, ResumeInv
<1>19. \A v \in Workers, u \in Threads : SwitchInv(v, u)' /\ ResumeInv(v, u)'
  <2>1. \A v \in Workers : a = "switch" => SwitchInv(v, s)'
    OBVIOUS
  <2>2. \A u \in Threads, v \in Workers : a = "back" \/ u # s => u = t \/ SwitchInv(v, u)'
    BY <1>9, ConstantsAssumption DEF Threads
  <2>3. \A u \in Threads : ResumeInv(w, u)'
    BY <1>6 DEF ResumeInv
  <2> QED
    BY <1>9, <1>18, <2>1, <2>2, <2>3
<1>20. \A g \in Forks : ForkInv(g)' /\ TokenInv(g)'
  <2>1. \A g \in Forks : TokenInv(g)'
    <3>1. worker'[w].gc = Nil /\ Nil \notin Forks
      BY <1>2, ConstantsAssumption
    <3> QED
      BY <1>2, <1>3, <1>5, <3>1, TokenFrame, QueuedStays
  <2>2. \A g \in Forks : g # t \/ c # "gone" => Alike(g)
    BY <1>1 DEF Alike, Inner, Pc, Threads
  <2>3. \A g \in Forks : g # t \/ c # "gone" => ForkInv(g)'
    BY <1>3, <1>14, <2>2, ForkStays DEF IInv
  <2>4. ASSUME t \in Forks, c = "gone" PROVE ForkInv(t)'
    <3>1. Pc(t) \in {"leave", "toLeft"} /\ Open(t) = <<>>
      BY <1>16, <2>4 DEF OpenInv
    <3>2. ForkInv(t) /\ join[t].how = "forked"
      BY <2>4, <3>1, RightFacts
    <3>3. RightHasDone(t) /\ RightHasDone(t)' /\ Pc(t)' = "gone" /\ Born(t) /\ Born(t)'
      BY <1>1, <2>4, <3>1 DEF RightHasDone, Pc, Born
    <3> QED
      BY <1>3, <1>14, <2>4, <3>1, <3>2, <3>3 DEF ForkInv
  <2> QED
    BY <2>1, <2>3, <2>4
<1>21. \A v, x \in Workers : OnceInv(v, x)'
  BY <1>5, OnceStays DEF IInv
<1> QED
  BY <1>9, <1>10, <1>11, <1>12, <1>13, <1>15, <1>17, <1>19, <1>20, <1>21 DEF IInv

(* A left side that came first leaves its worker.                           *)
LEMMA SyncWaitKeeps ==
  ASSUME IInv, NEW w \in Workers, SyncWait(w)
  PROVE  IInv' /\ Lives
<1>1. PICK t \in Threads :
        /\ t = Current(w) /\ Pc(t) = "wait" /\ User(w, t) /\ thread[t].proc = w
        /\ \A v \in Workers : User(v, t) => v = w
        /\ DequeInv(w, t)
  BY RunsFacts DEF SyncWait
<1>2. /\ thread' = [thread EXCEPT ![t].pc = "join", ![t].proc = Nil]
      /\ worker' = [worker EXCEPT ![w] = [at |-> "back", thread |-> Nil, gc |-> Nil]]
      /\ UNCHANGED <<queue, gcTask, join, gcRuns, status>>
  BY <1>1 DEF SyncWait, ReturnToSched
<1>3. SchedInv(w)'
  <2>1. Empty(w)' /\ worker'[w].at = "back"
    BY <1>1, <1>2 DEF DequeInv, Empty, Lo, Hi, IInv, Types
  <2> QED
    BY <2>1 DEF SchedInv
<1>4. Nil # t /\ Lives
  BY <1>2, ConstantsAssumption DEF Threads, Lives, NeverDies
<1>5. PICK c, a : c = "join" /\ a = "back"
  OBVIOUS
<1> QED
  BY <1>1, <1>2, <1>3, <1>4, <1>5, LeaveStep

(* A thread that offered its continuation leaves its worker.                *)
LEMMA SyncGCLeaveKeeps ==
  ASSUME IInv, NEW w \in Workers, SyncGCLeave(w)
  PROVE  IInv' /\ Lives
<1>1. PICK t \in Threads :
        /\ t = Current(w) /\ Pc(t) = "offered" /\ User(w, t) /\ thread[t].proc = w
        /\ \A v \in Workers : User(v, t) => v = w
        /\ DequeInv(w, t) /\ UserInv(w, t) /\ OpenInv(t)
  BY RunsFacts DEF SyncGCLeave
<1>2. /\ thread' = [thread EXCEPT ![t].pc = "resumed", ![t].proc = Nil]
      /\ worker' = [worker EXCEPT ![w] = [at |-> "back", thread |-> Nil, gc |-> Nil]]
      /\ UNCHANGED <<queue, gcTask, join, gcRuns, status>>
  BY <1>1 DEF SyncGCLeave, ReturnToSched
<1>3. Types /\ (\A u \in Threads : u # t => thread'[u] = thread[u])
      /\ thread'[t].open = thread[t].open /\ thread'[t].pc = "resumed"
  BY <1>2, LeaveFacts DEF IInv
<1>4. Stays(t)
  <2>1. /\ \A u \in Threads : thread'[u].open = thread[u].open /\ StillBorn(u)
        /\ \A g \in Forks : Kept(g)
    BY <1>2, <1>3 DEF StillBorn, Kept
  <2> QED
    BY <1>3, <2>1, AllStay
<1>5. SchedInv(w)'
  <2>1. worker'[w].at = "back" /\ gcTask'[w] # Nil
    BY <1>1, <1>2 DEF UserInv, IInv, Types
  <2>2. Empty(w)' <=> Empty(w)
    BY <1>2 DEF Empty, Lo, Hi
  <2>3. ~Empty(w) => Offers(w, t)'
    <3>1. /\ Holds(w, t)' /\ Covers(w, t)' /\ Level(t)' = Level(t) /\ Hi(w)' = Hi(w)
          /\ \A d : Slot(w, d)' = Slot(w, d)
      BY <1>1, <1>2, <1>3, <1>4, FitFrame DEF DequeInv, Pc
    <3>2. Hi(w) = Level(t) + 1 /\ (~Empty(w) => Slot(w, Hi(w) - 1) = Continuation(t, Level(t)))
      BY <1>1 DEF DequeInv
    <3> QED
      BY <1>3, <3>1, <3>2 DEF Offers, Pc, Continuation
  <2> QED
    BY <2>1, <2>2, <2>3 DEF SchedInv
<1>6. Nil # t /\ Lives
  BY <1>2, ConstantsAssumption DEF Threads, Lives, NeverDies
<1>7. PICK c, a : c = "resumed" /\ a = "back"
  OBVIOUS
<1> QED
  BY <1>1, <1>2, <1>5, <1>6, <1>7, LeaveStep

(* A right side that came first is gone.                                    *)
LEMMA RightLeaveKeeps ==
  ASSUME IInv, NEW w \in Workers, RightLeave(w)
  PROVE  IInv' /\ Lives
<1>1. PICK t \in Threads :
        /\ t = Current(w) /\ Pc(t) = "leave" /\ User(w, t) /\ thread[t].proc = w
        /\ \A v \in Workers : User(v, t) => v = w
        /\ DequeInv(w, t)
  BY RunsFacts DEF RightLeave
<1>2. /\ thread' = [thread EXCEPT ![t].pc = "gone", ![t].proc = Nil]
      /\ worker' = [worker EXCEPT ![w] = [at |-> "back", thread |-> Nil, gc |-> Nil]]
      /\ UNCHANGED <<queue, gcTask, join, gcRuns, status>>
  BY <1>1 DEF RightLeave, ReturnToSched
<1>3. SchedInv(w)'
  <2>1. Empty(w)' /\ worker'[w].at = "back"
    BY <1>1, <1>2 DEF DequeInv, Empty, Lo, Hi, IInv, Types
  <2> QED
    BY <2>1 DEF SchedInv
<1>4. Nil # t /\ Lives
  BY <1>2, ConstantsAssumption DEF Threads, Lives, NeverDies
<1>5. PICK c, a : c = "gone" /\ a = "back"
  OBVIOUS
<1> QED
  BY <1>1, <1>2, <1>3, <1>4, <1>5, LeaveStep

(* A right side that came last hands its worker to the left side.           *)
LEMMA RightToLeftKeeps ==
  ASSUME IInv, NEW w \in Workers, RightToLeft(w)
  PROVE  IInv' /\ Lives
<1>1. PICK t \in Threads :
        /\ t = Current(w) /\ Pc(t) = "toLeft" /\ User(w, t) /\ thread[t].proc = w
        /\ \A v \in Workers : User(v, t) => v = w
        /\ DequeInv(w, t) /\ OpenInv(t) /\ ThreadInv(t)
  BY RunsFacts DEF RightToLeft
<1>2. PICK s : s = join[t].left
  OBVIOUS
<1>3. /\ thread' = [thread EXCEPT ![t].pc = "gone", ![t].proc = Nil]
      /\ worker' = [worker EXCEPT ![w] = [at |-> "switch", thread |-> s, gc |-> Nil]]
      /\ UNCHANGED <<queue, gcTask, join, gcRuns, status>>
  BY <1>1, <1>2 DEF RightToLeft
<1>4. /\ t \in Forks /\ Open(t) = <<>> /\ Empty(w) /\ Hi(w) = Level(t)
  BY <1>1 DEF ThreadInv, OpenInv, DequeInv, Threads
<1>5. /\ s \in Threads /\ s # t /\ ForkInv(t) /\ join[t].how = "forked"
      /\ Base(t) = join[t].depth + 1 /\ LeftDone(t)
  BY <1>1, <1>2, <1>4, RightFacts DEF ForkInv
<1>6. Types /\ (\A u \in Threads : u # t => thread'[u] = thread[u])
      /\ thread'[t].open = thread[t].open /\ thread'[t].pc = "gone"
  BY <1>3, LeaveFacts DEF IInv
<1>7. /\ t = Top(s) /\ Pc(s) \in {"wait", "join"} /\ OpenInv(s) /\ ThreadInv(s)
      /\ \A v \in Workers : UserInv(v, s) /\ SwitchInv(v, s)
  BY <1>2, <1>5 DEF LeftDone, IInv
<1>8. /\ \A v \in Workers : ~Switch(v, s)
      /\ Pc(s) = "join" => thread[s].proc = Nil
  <2>1. \A v \in Workers : ~Switch(v, s)
    BY <1>1, <1>7 DEF SwitchInv
  <2>2. thread[s].proc # Nil => thread[s].proc \in Workers
    BY <1>5, <1>6 DEF Types, ThreadStates
  <2>3. Pc(s) = "join" => thread[s].proc = Nil
    BY <1>1, <1>7, <2>2 DEF ThreadInv, UserInv
  <2> QED
    BY <2>1, <2>3
<1>9. Stays(s)
  <2>1. /\ \A u \in Threads : thread'[u].open = thread[u].open /\ StillBorn(u)
        /\ \A g \in Forks : Kept(g)
    BY <1>3, <1>6 DEF StillBorn, Kept
  <2> QED
    BY <1>5, <1>6, <2>1, AllStay
<1>10. Pc(s)' = Pc(s) /\ thread'[s].proc = thread[s].proc /\ Top(s)' = t /\ Pc(t)' = "gone"
  BY <1>5, <1>6, <1>7 DEF Pc, Top, Open
<1>11. \A v \in Workers : Switch(v, s)' <=> v = w
  BY <1>3, <1>8 DEF Switch, IInv, Types
<1>12. \A v \in Workers : SwitchInv(v, s)'
  BY <1>7, <1>8, <1>10, <1>11 DEF SwitchInv, Pc
<1>13. ResumeInv(w, s)'
  <2>1. /\ Lo(w)' = Lo(w) /\ Hi(w)' = Hi(w) /\ Empty(w)'
        /\ Level(s)' = Level(s) /\ Opened(s)' = Opened(s) /\ Open(s)' = Open(s)
    BY <1>3, <1>4, <1>6, <1>9, <1>5, LevelStays DEF Empty, Lo, Hi
  <2>2. Level(t) = Base(t) /\ Level(s) = join[t].depth + 1
    BY <1>4, <1>5, <1>6, <1>7, <1>1, OpenFacts DEF OpenInv
  <2>3. Hi(w)' = Level(s)'
    BY <1>4, <1>5, <2>1, <2>2
  <2>4. Holds(w, s)'
    <3>1. Slots(w)' = {}
      <4>1. Lo(w) \in Nat /\ Lo(w) = Hi(w)
        BY <1>4, <1>6, DequeFacts DEF Lo, Types, Empty
      <4> QED
        BY <2>1, <4>1 DEF Slots
    <3> QED
      BY <3>1 DEF Holds
  <2>5. Covers(w, s)'
    <3>1. \A i \in Opened(s) : Born(Open(s)[i])
      BY <1>7 DEF OpenInv
    <3>2. \A i \in Opened(s) : Born(Open(s)[i])'
      BY <1>9, <2>1, <3>1 DEF Born, Stays, StillBorn
    <3> QED
      BY <2>1, <3>2 DEF Covers
  <2> QED
    BY <2>1, <2>3, <2>4, <2>5 DEF ResumeInv
<1>14. Nil # s /\ thread[s].pc \notin {"offered", "resumed"} /\ Lives
  BY <1>3, <1>5, <1>7, ConstantsAssumption DEF Threads, Lives, NeverDies, Pc
<1>15. PICK c, a : c = "gone" /\ a = "switch"
  OBVIOUS
<1> QED
  BY <1>1, <1>3, <1>5, <1>12, <1>13, <1>14, <1>15, LeaveStep

-------------------------------------------------------------------------------
(* What is in the deques *)

(* A deque holds right sides and collections of forks, at their depths, and *)
(* on top of them perhaps the collection or the continuation of a thread    *)
(* that is about to be left.                                                *)
LEMMA SlotFacts ==
  ASSUME IInv, NEW w \in Workers, NEW d \in Slots(w)
  PROVE  /\ Slot(w, d) \in Tasks
         /\ Slot(w, d).kind = "NewThread" =>
              \E f \in Forks : /\ Slot(w, d) = NewThread(f) /\ d = join[f].depth
                               /\ Unstarted(f)
         /\ Slot(w, d).kind = "GCTask" => Slot(w, d).id \in Forks
         /\ Slot(w, d).kind = "Continuation" =>
              \E t \in Threads :
                /\ d = Hi(w) - 1 /\ Slot(w, d) = Continuation(t, Level(t)) /\ Level(t) = d
                /\ Parked(t) /\ Covers(w, t)
<1>1. /\ Slot(w, d) \in Tasks /\ Lo(w) \in Nat /\ Hi(w) \in Nat /\ ~Empty(w) /\ d \in Nat /\ d < Hi(w)
      /\ Types /\ SchedInv(w) /\ TaskInv(w)
  BY DequeFacts DEF Slots, Slot, Lo, Hi, IInv, Types, Empty
<1>2. \A u \in Threads : Level(u) \in Nat /\ OpenInv(u)
  BY <1>1, OpenFacts DEF IInv
<1>3. ASSUME NEW u \in Threads, Holds(w, u), d < Level(u)
      PROVE  \E f \in Forks : /\ join[f].how = "forked"
                              /\ \/ Slot(w, d) = NewThread(f) /\ d = join[f].depth
                                 \/ Slot(w, d) = GCTask(f)
  <2>1. PICK i \in Opened(u) : PushedBy(Open(u)[i], Slot(w, d), d)
    BY <1>3 DEF Holds
  <2>2. Open(u)[i] \in Forks /\ join[Open(u)[i]].how = "forked"
    BY <1>1, <1>2, OpenFacts
  <2> QED
    BY <2>1, <2>2 DEF PushedBy
<1>4. CASE worker[w].at = "switch"
  <2>1. PICK u \in Threads : Switch(w, u)
    BY <1>4 DEF IInv, WorkerInv, Switch
  <2>2. Holds(w, u) /\ Hi(w) = Level(u)
    BY <2>1 DEF IInv, ResumeInv
  <2>3. \E f \in Forks : \/ Slot(w, d) = NewThread(f) /\ d = join[f].depth
                         \/ Slot(w, d) = GCTask(f)
    BY <1>1, <1>3, <2>2
  <2> QED
    BY <1>1, <2>3 DEF NewThread, GCTask, TaskInv
<1>5. CASE worker[w].at = "user"
  <2>1. PICK u \in Threads : User(w, u)
    BY <1>5 DEF IInv, WorkerInv, User
  <2>2. DequeInv(w, u) /\ Holds(w, u) /\ Covers(w, u)
    BY <2>1 DEF IInv, DequeInv
  <2>3. CASE d < Level(u)
    <3>1. \E f \in Forks : \/ Slot(w, d) = NewThread(f) /\ d = join[f].depth
                           \/ Slot(w, d) = GCTask(f)
      BY <1>3, <2>2, <2>3
    <3> QED
      BY <1>1, <3>1 DEF NewThread, GCTask, TaskInv
  <2>4. CASE d >= Level(u)
    <3>1. Pc(u) \in {"syncGC", "offered"} /\ d = Hi(w) - 1 /\ d = Level(u)
      BY <1>1, <1>2, <2>1, <2>2, <2>4 DEF DequeInv
    <3>2. \/ Slot(w, d) = GCTask(thread[u].gc) /\ thread[u].gc \in Forks
          \/ Slot(w, d) = Continuation(u, Level(u))
      BY <1>1, <2>1, <2>2, <3>1 DEF DequeInv
    <3> QED
      BY <1>1, <2>2, <3>1, <3>2 DEF GCTask, Continuation, TaskInv
  <2> QED
    BY <1>1, <1>2, <2>3, <2>4
<1>6. CASE worker[w].at \notin {"user", "switch"}
  <2>1. worker[w].at \in {"back", "collect", "pop"}
    BY <1>1, <1>6 DEF IInv, Types, WorkerStates, SchedInv
  <2>2. PICK u \in Threads : Offers(w, u)
    BY <1>1, <2>1 DEF SchedInv
  <2>3. CASE d < Level(u)
    <3>1. \E f \in Forks : \/ Slot(w, d) = NewThread(f) /\ d = join[f].depth
                           \/ Slot(w, d) = GCTask(f)
      BY <1>3, <2>2, <2>3 DEF Offers
    <3> QED
      BY <1>1, <3>1 DEF NewThread, GCTask, TaskInv
  <2>4. CASE d >= Level(u)
    <3>1. d = Hi(w) - 1 /\ d = Level(u) /\ Slot(w, d) = Continuation(u, Level(u)) /\ Covers(w, u)
      BY <1>1, <1>2, <2>2, <2>4 DEF Offers
    <3> QED
      BY <1>1, <3>1 DEF Continuation, TaskInv
  <2> QED
    BY <1>1, <1>2, <2>3, <2>4
<1> QED
  BY <1>4, <1>5, <1>6


-------------------------------------------------------------------------------
(* A worker goes on with a thread *)

(* A worker takes up a thread that its last worker has left.                *)
LEMMA SwitchToThreadKeeps ==
  ASSUME IInv, NEW w \in Workers, SwitchToThread(w)
  PROVE  IInv' /\ Lives
<1>1. /\ worker[w].at = "switch" /\ worker[w].thread \in Threads /\ worker[w].gc = Nil
      /\ w # Nil /\ Types
  BY ConstantsAssumption DEF SwitchToThread, IInv, WorkerInv
<1>2. PICK t \in Threads : t = worker[w].thread
  BY <1>1
<1>3. /\ Switch(w, t) /\ thread[t].proc = Nil
      /\ SwitchInv(w, t) /\ ResumeInv(w, t) /\ ThreadInv(t) /\ OpenInv(t) /\ DepthInv(t) /\ RoomInv(t)
  BY <1>1, <1>2 DEF Switch, SwitchToThread, IsFree, Current, IInv
<1>4. /\ thread' = [thread EXCEPT ![t].proc = w]
      /\ worker' = [worker EXCEPT ![w].at = "user"]
      /\ UNCHANGED <<queue, gcTask, join, gcRuns, status>>
  BY <1>2 DEF SwitchToThread, Current
<1>5. /\ Pc(t) \in {"run", "join", "resumed"}
      /\ \A v \in Workers : Switch(v, t) => v = w
      /\ \A v \in Workers : ~User(v, t)
  <2>1. \A v \in Workers : ~User(v, t)
    BY <1>3, ConstantsAssumption DEF IInv, WorkerInv, User
  <2> QED
    BY <1>3, <2>1 DEF ThreadInv, SwitchInv
<1>6. /\ thread' \in [Threads -> ThreadStates]
      /\ \A u \in Threads : u # t => thread'[u] = thread[u]
      /\ thread'[t].open = thread[t].open /\ thread'[t].proc = w
      /\ thread'[t].depth = thread[t].depth /\ thread'[t].pc = thread[t].pc
  <2>1. thread \in [Threads -> ThreadStates] /\ thread[t] \in ThreadStates
    BY <1>1 DEF Types
  <2>2. /\ thread'[t] = [thread[t] EXCEPT !.proc = w]
        /\ \A u \in Threads : u # t => thread'[u] = thread[u]
    BY <1>4, <2>1
  <2>3. thread'[t] \in ThreadStates
    BY <2>1, <2>2 DEF ThreadStates
  <2>4. thread' \in [Threads -> ThreadStates]
    BY <1>4, <2>1, <2>3
  <2> QED
    BY <2>1, <2>2, <2>4 DEF ThreadStates
<1>7. /\ worker' \in [Workers -> WorkerStates]
      /\ \A v \in Workers : v # w => worker'[v] = worker[v]
      /\ worker'[w].at = "user" /\ worker'[w].thread = t /\ worker'[w].gc = Nil
  BY <1>1, <1>2, <1>4 DEF Types, WorkerStates
<1>8. /\ \A v \in Workers, u \in Threads : Switch(v, u)' <=> Switch(v, u) /\ v # w
      /\ \A v \in Workers, u \in Threads : v # w => (User(v, u)' <=> User(v, u))
      /\ \A u \in Threads : User(w, u)' <=> u = t
  BY <1>1, <1>2, <1>7 DEF Switch, User
<1>9. /\ \A u \in Threads : thread'[u].open = thread[u].open /\ StillBorn(u)
      /\ \A g \in Forks : Kept(g) /\ join'[g] = join[g] /\ Alike(g)
      /\ StillDone
  BY <1>4, <1>6 DEF StillBorn, StillDone, Kept, Alike, Threads
<1>10. \A u \in Threads : Stays(u) /\ OpenInv(u) /\ ThreadInv(u)
  BY <1>1, <1>9, AllStay DEF IInv
<1>11. \A v \in Workers : Shrinks(v)
  BY <1>4, SameShrinks
<1>12. \A u \in Threads : u # t => thread[u].proc # w
  BY <1>1, <1>10 DEF ThreadInv, User
<1>13. Steps(w, t, t)
  BY <1>4, <1>5, <1>6, <1>7, <1>8, <1>9, <1>10, <1>12 DEF Steps
<1>14. /\ \A v \in Workers : v # w => WorkerInv(v)' /\ (Empty(v) \/ ~Offers(v, t) => SchedInv(v)')
       /\ \A u \in Threads : u # t => ThreadInv(u)' /\ OpenInv(u)' /\ DepthInv(u)' /\ RoomInv(u)'
       /\ \A v \in Workers, u \in Threads : u # t /\ v # w =>
            SwitchInv(v, u)' /\ UserInv(v, u)' /\ ResumeInv(v, u)' /\ DequeInv(v, u)'
  BY <1>4, <1>13, Frame
<1>15. \A v \in Workers : SchedInv(v)'
  <2>1. \A v \in Workers : Empty(v) \/ ~Offers(v, t)
    BY <1>3, OffersFacts DEF Parked
  <2>2. SchedInv(w)'
    BY <1>7 DEF SchedInv
  <2> QED
    BY <1>14, <2>1, <2>2
<1>16. Types'
  BY <1>1, <1>4, <1>6, <1>7 DEF Types, Hi
<1>17. \A v \in Workers : TaskInv(v)'
  <2>1. \A g \in Forks : Unstarted(g) => Unstarted(g)'
    <3>1. \A g \in Forks : join[g].how = "forked" => (Spawning(g)' <=> Spawning(g))
      <4>1. \A g \in Forks : join[g].how = "forked" => join[g].left \in Threads
        BY DEF IInv, ForkInv
      <4> QED
        BY <1>4, <1>6, <1>9, <4>1 DEF Spawning, Top, Open, Pc
    <3> QED
      BY <1>9, <3>1 DEF Unstarted, Born, Kept, Pc, Alike, Inner
  <2>2. \A u \in Threads : Parked(u) => Parked(u)'
    BY <1>3, <1>6, <1>8 DEF Parked, Pc
  <2> QED
    BY <1>11, <2>1, <2>2, TaskStays
<1>18. \A g \in Forks : ForkInv(g)' /\ TokenInv(g)'
  <2>1. \A g \in Forks : TokenInv(g)'
    <3>1. Nil \notin Forks
      BY ConstantsAssumption
    <3> QED
      BY <1>4, <1>7, <1>9, <1>11, <3>1, TokenFrame, QueuedStays
  <2>2. ASSUME NEW g \in Forks, join[g].how = "forked"
        PROVE  IsOpen(g)' /\ (Spawning(g)' <=> Spawning(g)) /\ (LeftDone(g)' <=> LeftDone(g))
    <3>1. join[g].left \in Threads
      BY <2>2 DEF IInv, ForkInv
    <3>2. (Spawning(g)' <=> Spawning(g)) /\ (LeftDone(g)' <=> LeftDone(g))
      BY <1>4, <1>6, <1>9, <3>1 DEF Spawning, LeftDone, Top, Open, Pc
    <3>3. IsOpen(g)'
      BY <1>6, <1>9, <2>2, LeftFrame
    <3> QED
      BY <3>2, <3>3
  <2> QED
    BY <1>9, <2>1, <2>2, ForkStays DEF IInv
<1>19. WorkerInv(w)' /\ ThreadInv(t)'
  <2>1. WorkerInv(w)'
    BY <1>1, <1>6, <1>7 DEF WorkerInv
  <2>2. ThreadInv(t)'
    BY <1>1, <1>3, <1>5, <1>6, <1>8 DEF ThreadInv, Pc
  <2> QED
    BY <2>1, <2>2
<1>20. OpenInv(t)' /\ DepthInv(t)' /\ RoomInv(t)' /\ Level(t)' = Level(t)
  <2>1. OpenInv(t)'
    BY <1>1, <1>3, <1>6, <1>10, OpenStays DEF OpenInv, Pc
  <2>2. Level(t)' = Level(t)
    BY <1>1, <1>10, LevelStays
  <2>3. DepthInv(t)' /\ RoomInv(t)'
    BY <1>3, <1>6, <2>2 DEF DepthInv, RoomInv, Pc
  <2> QED
    BY <2>1, <2>2, <2>3
<1>21. UserInv(w, t)'
  <2>1. Pc(t) = "join" => Top(t) \in Forks /\ thread[Top(t)].pc = "gone"
    BY <1>1, <1>3, OpenFacts DEF OpenInv, SwitchInv, Pc
  <2>2. Pc(t) = "join" => thread'[Top(t)].pc = "gone"
    BY <1>9, <2>1 DEF StillDone
  <2>3. Top(t)' = Top(t) /\ Pc(t)' = Pc(t)
    BY <1>6 DEF Top, Open, Pc
  <2> QED
    BY <1>5, <2>2, <2>3 DEF UserInv, Pc
<1>22. DequeInv(w, t)'
  <2>1. /\ Holds(w, t)' /\ Covers(w, t)' /\ Hi(w)' = Level(t)'
        /\ Empty(w)' <=> Empty(w)
    BY <1>3, <1>4, <1>6, <1>10, <1>20, FitFrame DEF ResumeInv, Empty
  <2>2. Pc(t)' = Pc(t) /\ (Pc(t) = "join" => Empty(w))
    BY <1>3, <1>6 DEF ResumeInv, Pc
  <2> QED
    BY <1>5, <2>1, <2>2 DEF DequeInv
<1>23. /\ \A u \in Threads : u # t => UserInv(w, u)' /\ DequeInv(w, u)'
       /\ \A v \in Workers : v # w => UserInv(v, t)' /\ DequeInv(v, t)'
       /\ \A v \in Workers : SwitchInv(v, t)' /\ ResumeInv(v, t)'
       /\ \A u \in Threads : SwitchInv(w, u)' /\ ResumeInv(w, u)'
  <2>1. \A u \in Threads : u # t => UserInv(w, u)' /\ DequeInv(w, u)'
    BY <1>8 DEF UserInv, DequeInv
  <2>2. \A v \in Workers : v # w => UserInv(v, t)' /\ DequeInv(v, t)'
    BY <1>5, <1>8 DEF UserInv, DequeInv
  <2>3. \A v \in Workers : ~Switch(v, t)'
    BY <1>5, <1>8
  <2>4. \A u \in Threads : ~Switch(w, u)'
    BY <1>8
  <2> QED
    BY <2>1, <2>2, <2>3, <2>4 DEF SwitchInv, ResumeInv
<1>24. \A v, x \in Workers : OnceInv(v, x)'
  BY <1>11, OnceStays DEF IInv
<1>25. Lives
  BY <1>4 DEF Lives, NeverDies
<1> QED
  BY <1>14, <1>15, <1>16, <1>17, <1>18, <1>19, <1>20, <1>21, <1>22, <1>23, <1>24, <1>25 DEF IInv

-------------------------------------------------------------------------------
(* A worker that is in no thread *)

(* Worker w takes a task, or ends with one; thread t is started by that,    *)
(* and thread s is now to be gone on with.                                  *)
LEMMA TakeStep ==
  ASSUME IInv, NEW w \in Workers, UNCHANGED <<join, status>>,
         worker[w].at \notin {"user", "switch"}, worker'[w].at # "user", Types',
         \A v \in Workers : v # w => worker'[v] = worker[v] /\ gcTask'[v] = gcTask[v],
         \A v \in Workers : Shrinks(v),
         NEW t \in Threads \union {Nil},
         \A u \in Threads : u # t => thread'[u] = thread[u],
         t \in Threads =>
           /\ t \in Forks /\ Unstarted(t) /\ thread'[t].pc = "run"
           /\ thread'[t].open = thread[t].open /\ thread'[t].proc = thread[t].proc
           /\ thread'[t].depth = Level(t),
         NEW s \in Threads \union {Nil}, t \in Threads => s = t,
         worker'[w].at = "switch" => worker'[w].thread = s,
         s \in Threads => ResumeInv(w, s)' /\ \A v \in Workers : SwitchInv(v, s)',
         WorkerInv(w)', SchedInv(w)',
         \A v \in Workers : v # w /\ queue'[v] # queue[v] =>
           SchedInv(v)' /\ \A u \in Threads : UserInv(v, u)' /\ ResumeInv(v, u)' /\ DequeInv(v, u)',
         \A v \in Workers : TaskInv(v)',
         \A f \in Forks : TokenInv(f)'
  PROVE  IInv'
<1>1. /\ t \in Threads => thread[t].pc = "unborn" /\ OpenInv(t) /\ ThreadInv(t) /\ RoomInv(t)
                          /\ Open(t) = <<>> /\ thread[t].proc = Nil /\ Opened(t) = {}
      /\ w # Nil /\ Nil \notin Threads /\ Types
  <2>1. w # Nil /\ Nil \notin Threads /\ Types
    BY ConstantsAssumption DEF IInv, Threads
  <2>2. ASSUME t \in Threads
        PROVE  thread[t].pc = "unborn" /\ OpenInv(t) /\ ThreadInv(t) /\ RoomInv(t)
               /\ Open(t) = <<>> /\ thread[t].proc = Nil
    BY <2>2 DEF Unstarted, Born, OpenInv, ThreadInv, Pc, IInv
  <2>3. Open(t) = <<>> => Opened(t) = {}
    BY DEF Opened
  <2> QED
    BY <2>1, <2>2, <2>3
<1>2. /\ \A u \in Threads : thread'[u].open = thread[u].open /\ StillBorn(u)
      /\ \A g \in Forks : Kept(g) /\ join'[g] = join[g]
      /\ StillDone
  BY <1>1 DEF StillBorn, StillDone, Kept, Threads
<1>3. \A u \in Threads : Stays(u) /\ OpenInv(u) /\ ThreadInv(u)
  BY <1>1, <1>2, AllStay DEF IInv
<1>4. /\ \A v \in Workers, u \in Threads : v # w => (Switch(v, u)' <=> Switch(v, u))
      /\ \A u \in Threads : u # s => ~Switch(w, u)'
      /\ \A v \in Workers, u \in Threads : User(v, u)' <=> User(v, u) /\ v # w
  BY DEF Switch, User
<1>5. \A v \in Workers : ~User(v, t) /\ (t \in Threads => ~Switch(v, t))
  <2>1. \A v \in Workers : ~User(v, t)
    BY <1>1, ConstantsAssumption DEF IInv, WorkerInv, User
  <2>2. t \in Threads => \A v \in Workers : ~Switch(v, t)
    BY <1>1 DEF IInv, SwitchInv, Pc
  <2> QED
    BY <2>1, <2>2
<1>6. Steps(w, t, s)
  <2>1. \A u \in Threads : thread[u].proc # w
    BY <1>1, <1>3 DEF ThreadInv, User
  <2> QED
    BY <1>1, <1>2, <1>3, <1>4, <1>5, <2>1 DEF Steps
<1>7. /\ \A v \in Workers : v # w =>
           WorkerInv(v)' /\ (queue'[v] = queue[v] /\ (Empty(v) \/ ~Offers(v, t)) => SchedInv(v)')
      /\ \A u \in Threads : u # t => ThreadInv(u)' /\ OpenInv(u)' /\ DepthInv(u)' /\ RoomInv(u)'
      /\ \A v \in Workers, u \in Threads : u # t /\ v # w /\ queue'[v] = queue[v] =>
           UserInv(v, u)' /\ ResumeInv(v, u)' /\ DequeInv(v, u)'
      /\ \A v \in Workers, u \in Threads : u # t /\ u # s => SwitchInv(v, u)'
  BY <1>6, Frame
<1>8. \A v \in Workers : SchedInv(v)'
  <2>1. ASSUME NEW v \in Workers, v # w, queue'[v] = queue[v] PROVE SchedInv(v)'
    <3>1. CASE t \in Threads
      BY <1>1, <1>7, <2>1, <3>1 DEF Offers, Pc
    <3>2. CASE t = Nil
      <4>1. SchedInv(v) /\ worker'[v] = worker[v] /\ gcTask'[v] = gcTask[v] /\ Empty(v)' = Empty(v)
        BY <2>1 DEF IInv, Empty, Lo, Hi
      <4>2. \A u \in Threads : Offers(v, u) => Offers(v, u)'
        BY <1>1, <1>3, <2>1, <3>2, OffersFrame
      <4> QED
        BY <4>1, <4>2 DEF SchedInv
    <3> QED
      BY <3>1, <3>2
  <2> QED
    BY <2>1
<1>9. t \in Threads => ThreadInv(t)' /\ OpenInv(t)' /\ DepthInv(t)' /\ RoomInv(t)'
  <2> SUFFICES ASSUME t \in Threads PROVE ThreadInv(t)' /\ OpenInv(t)' /\ DepthInv(t)' /\ RoomInv(t)'
    OBVIOUS
  <2>1. OpenInv(t)'
    BY <1>1, <1>3, OpenStays
  <2>2. Level(t)' = Level(t)
    BY <1>1, <1>3, LevelStays
  <2>3. ThreadInv(t)' /\ DepthInv(t)' /\ RoomInv(t)'
    BY <1>1, <2>2, ConstantsAssumption DEF ThreadInv, DepthInv, RoomInv, Pc
  <2> QED
    BY <2>1, <2>3
<1>10. t \in Threads => \A v \in Workers : UserInv(v, t)' /\ DequeInv(v, t)' /\ SwitchInv(v, t)' /\ ResumeInv(v, t)'
  <2>1. t \in Threads => \A v \in Workers : UserInv(v, t)' /\ DequeInv(v, t)'
    BY <1>4, <1>5 DEF UserInv, DequeInv
  <2>2. t \in Threads => \A v \in Workers : v # w => ResumeInv(v, t)'
    BY <1>4, <1>5 DEF ResumeInv
  <2> QED
    BY <2>1, <2>2
<1>11. \A u \in Threads : UserInv(w, u)' /\ DequeInv(w, u)' /\ ResumeInv(w, u)'
  <2>1. \A u \in Threads : UserInv(w, u)' /\ DequeInv(w, u)'
    BY <1>4 DEF UserInv, DequeInv
  <2>2. \A u \in Threads : ResumeInv(w, u)'
    BY <1>4 DEF ResumeInv
  <2> QED
    BY <2>1, <2>2
<1>12. \A v \in Workers, u \in Threads : UserInv(v, u)' /\ ResumeInv(v, u)' /\ DequeInv(v, u)'
  BY <1>7, <1>10, <1>11
<1>13. \A v \in Workers, u \in Threads : SwitchInv(v, u)'
  BY <1>7, <1>10
<1>14. ASSUME NEW g \in Forks PROVE ForkInv(g)'
  <2>1. ASSUME join[g].how = "forked"
        PROVE  IsOpen(g)' /\ (Spawning(g)' <=> Spawning(g)) /\ (LeftDone(g)' <=> LeftDone(g))
    <3>1. PICK u \in Threads : u = join[g].left
      BY <2>1 DEF IInv, ForkInv
    <3>2. IsOpen(g) /\ u # t
      BY <1>1, <2>1, <3>1 DEF IInv, ForkInv, IsOpen
    <3>3. thread'[u] = thread[u] /\ join'[g].left = u
      BY <1>2, <3>1, <3>2
    <3> QED
      BY <3>1, <3>2, <3>3 DEF Spawning, LeftDone, IsOpen, Opened, Top, Open, Pc
  <2>2. CASE g # t
    BY <1>2, <2>1, <2>2, ForkStays DEF IInv, Alike, Threads
  <2>3. CASE g = t
    <3>1. join[g].how = "forked" /\ ~Spawning(g) /\ ForkInv(g) /\ join'[g] = join[g]
      BY <1>2, <2>3 DEF Unstarted, IInv, Threads
    <3>2. thread[g].pc = "unborn" /\ thread'[g].pc = "run"
      BY <1>1, <2>3 DEF Threads
    <3> QED
      BY <2>1, <3>1, <3>2 DEF ForkInv, Born, Pc, RightHasDone
  <2> QED
    BY <2>2, <2>3
<1>15. \A v, x \in Workers : OnceInv(v, x)'
  BY OnceStays DEF IInv
<1>16. \A u \in Threads : ThreadInv(u)' /\ OpenInv(u)' /\ DepthInv(u)' /\ RoomInv(u)'
  BY <1>7, <1>9
<1> QED
  BY <1>7, <1>8, <1>12, <1>13, <1>14, <1>15, <1>16 DEF IInv

(* A scheduler without anything left to do has an empty deque.              *)
LEMMA RestKeeps ==
  ASSUME IInv, NEW w \in Workers, worker[w].at \in {"back", "pop"}, Empty(w), Rest(w)
  PROVE  IInv' /\ Lives
<1>1. /\ queue' = [queue EXCEPT ![w] = AtDepth(1)]
      /\ worker' = [worker EXCEPT ![w].at = "steal"]
      /\ UNCHANGED <<gcTask, thread, join, gcRuns, status>>
  BY DequeFacts DEF Rest, Empty, Lo, Hi, IInv, Types
<1>2. /\ queue'[w] \in Deques /\ queue'[w].lo = 1 /\ Bot(queue'[w]) = 1 /\ 1 <= Capacity
      /\ \A v \in Workers : v # w => queue'[v] = queue[v]
      /\ queue' \in [Workers -> Deques]
  <2>1. 1 \in 0 .. Capacity /\ queue \in [Workers -> Deques]
    BY ConstantsAssumption DEF IInv, Types
  <2>2. queue'[w] = AtDepth(1) /\ \A v \in Workers : v # w => queue'[v] = queue[v]
    BY <1>1, <2>1
  <2>3. queue'[w] \in Deques /\ queue'[w].lo = 1 /\ Bot(queue'[w]) = 1
    BY <2>1, <2>2, AtDepthFacts
  <2> QED
    BY <1>1, <2>1, <2>2, <2>3
<1>3. /\ worker' \in [Workers -> WorkerStates]
      /\ \A v \in Workers : v # w => worker'[v] = worker[v]
      /\ worker'[w].at = "steal" /\ worker'[w].gc = Nil
  <2>1. worker[w].gc = Nil
    BY DEF IInv, WorkerInv
  <2> QED
    BY SMTT(30), <1>1, <2>1 DEF IInv, Types, WorkerStates
<1>4. Types'
  BY <1>1, <1>2, <1>3 DEF IInv, Types, Hi
<1>5. \A v \in Workers : Shrinks(v)
  <2>1. Shrinks(w)
    BY <1>2 DEF Shrinks
  <2> QED
    BY <1>2, <2>1, SameShrinks
<1>6. WorkerInv(w)' /\ SchedInv(w)'
  <2>1. WorkerInv(w)'
    BY <1>3 DEF WorkerInv
  <2>2. SchedInv(w)'
    BY <1>2, <1>3 DEF SchedInv, Empty, Lo, Hi
  <2> QED
    BY <2>1, <2>2
<1>7. \A v \in Workers : TaskInv(v)'
  <2>1. \A g \in Forks : Unstarted(g) => Unstarted(g)'
    BY <1>1 DEF Unstarted, Born, Spawning, Top, Open, Pc
  <2>2. \A u \in Threads : Parked(u) => Parked(u)'
    BY <1>1, <1>3 DEF Parked, Pc, Switch
  <2> QED
    BY <1>5, <2>1, <2>2, TaskStays
<1>8. \A g \in Forks : TokenInv(g)'
  <2>1. Nil \notin Forks
    BY ConstantsAssumption
  <2> QED
    BY <1>1, <1>3, <1>5, <2>1, TokenFrame, QueuedStays
<1>9. PICK t : t = Nil
  OBVIOUS
<1>10. Nil \notin Threads /\ Lives
  BY <1>1, ConstantsAssumption DEF Threads, Lives, NeverDies
<1> QED
  BY <1>1, <1>2, <1>3, <1>4, <1>5, <1>6, <1>7, <1>8, <1>9, <1>10, TakeStep

(* Back in the scheduler without a collection.                              *)
LEMMA BackInSchedKeeps ==
  ASSUME IInv, NEW w \in Workers, BackInSched(w)
  PROVE  IInv' /\ Lives
BY RestKeeps DEF BackInSched, IInv, SchedInv

(* The steps that hand a collection on leave the threads alone.             *)
LEMMA HandOn ==
  ASSUME IInv, NEW w \in Workers, UNCHANGED <<thread, join, status>>,
         worker[w].at \in {"back", "collect", "collectStolen", "steal"},
         worker'[w].at \in {"collect", "pop", "steal", "collectStolen"},
         worker' \in [Workers -> WorkerStates], gcTask' \in [Workers -> Forks \union {Nil}],
         gcRuns' \in [Forks -> Nat], queue' \in [Workers -> Deques],
         \A v \in Workers : Hi(v)' <= Capacity,
         \A v \in Workers : v # w => worker'[v] = worker[v] /\ gcTask'[v] = gcTask[v],
         \A v \in Workers : Shrinks(v),
         WorkerInv(w)', SchedInv(w)',
         \A v \in Workers : v # w /\ queue'[v] # queue[v] =>
           SchedInv(v)' /\ \A u \in Threads : UserInv(v, u)' /\ ResumeInv(v, u)' /\ DequeInv(v, u)',
         \A f \in Forks : TokenInv(f)'
  PROVE  IInv' /\ Lives
<1>1. Types'
  BY DEF IInv, Types
<1>2. \A v \in Workers : TaskInv(v)'
  <2>1. \A g \in Forks : Unstarted(g) => Unstarted(g)'
    BY DEF Unstarted, Born, Spawning, Top, Open, Pc
  <2>2. \A u \in Threads : Parked(u) => Parked(u)'
    BY DEF Parked, Pc, Switch
  <2> QED
    BY <2>1, <2>2, TaskStays
<1>3. PICK t : t = Nil
  OBVIOUS
<1>4. Nil \notin Threads /\ Lives
  BY ConstantsAssumption DEF Threads, Lives, NeverDies
<1> QED
  BY <1>1, <1>2, <1>3, <1>4, TakeStep

(* The box is emptied before its collection starts.                         *)
LEMMA BackWithGCKeeps ==
  ASSUME IInv, NEW w \in Workers, BackWithGC(w)
  PROVE  IInv' /\ Lives
<1>1. PICK f : f = gcTask[w]
  OBVIOUS
<1>2. /\ worker[w].at = "back" /\ f \in Forks /\ f # Nil
      /\ gcTask' = [gcTask EXCEPT ![w] = Nil]
      /\ worker' = [worker EXCEPT ![w].at = "collect", ![w].gc = f]
      /\ UNCHANGED <<queue, thread, join, gcRuns, status>>
  BY <1>1 DEF BackWithGC, EmptyBox, IInv, Types
<1>3. /\ worker' \in [Workers -> WorkerStates]
      /\ \A v \in Workers : v # w => worker'[v] = worker[v] /\ gcTask'[v] = gcTask[v]
      /\ worker'[w].at = "collect" /\ worker'[w].gc = f
      /\ gcTask' \in [Workers -> Forks \union {Nil}] /\ gcTask'[w] = Nil
  <2>1. worker \in [Workers -> WorkerStates] /\ worker[w] \in WorkerStates
        /\ gcTask \in [Workers -> Forks \union {Nil}]
    BY DEF IInv, Types
  <2>2. worker'[w] = [worker[w] EXCEPT !.at = "collect", !.gc = f]
    BY <1>2, <2>1
  <2>3. worker'[w] \in WorkerStates
    BY <1>2, <2>1, <2>2 DEF WorkerStates
  <2>4. worker'[w].at = "collect" /\ worker'[w].gc = f
    BY <2>1, <2>2 DEF WorkerStates
  <2> QED
    BY <1>2, <2>1, <2>3, <2>4
<1>4. \A v \in Workers : Shrinks(v) /\ queue'[v] = queue[v]
  BY <1>2, SameShrinks
<1>5. WorkerInv(w)' /\ SchedInv(w)'
  <2>1. WorkerInv(w)'
    BY <1>2, <1>3 DEF WorkerInv
  <2>2. ~Empty(w) => \E u \in Threads : Offers(w, u)
    BY <1>2 DEF IInv, SchedInv
  <2>3. \A u \in Threads : Stays(u)
    BY <1>2 DEF Stays, Kept, StillBorn
  <2>4. \A u \in Threads : Offers(w, u) => Offers(w, u)'
    BY <1>2, <2>3, OffersFrame
  <2>5. Empty(w)' <=> Empty(w)
    BY <1>2 DEF Empty, Lo, Hi
  <2>6. SchedInv(w)'
    BY <1>3, <2>2, <2>4, <2>5 DEF SchedInv
  <2> QED
    BY <2>1, <2>6
<1>6. \A g \in Forks : TokenInv(g)'
  <2>1. \A v \in Workers, g \in Forks : Queued(v, g)' => Queued(v, g)
    BY <1>4, QueuedStays
  <2>2. Nil \notin Forks
    BY ConstantsAssumption
  <2>3. \A g \in Forks : g # f => TokenInv(g)'
    BY <1>2, <1>3, <2>1, <2>2, TokenFrame
  <2>4. TokenInv(f)'
    <3>1. TokenInv(f) /\ Boxed(w, f)
      BY <1>1, <1>2 DEF Boxed, IInv
    <3>2. /\ gcRuns'[f] = 0 /\ join'[f].how # "none"
          /\ \A v \in Workers : ~Queued(v, f)
      BY <1>2, <3>1 DEF TokenInv
    <3>3. \A v \in Workers : ~Boxed(v, f)' /\ (Collects(v, f)' => v = w)
      <4>1. \A v \in Workers : v # w => gcTask[v] # f /\ worker[v].gc # f
        BY <3>1 DEF TokenInv, Boxed, Collects
      <4> QED
        BY <1>2, <1>3, <4>1 DEF Boxed, Collects
    <3> QED
      BY <1>2, <2>1, <3>2, <3>3 DEF TokenInv
  <2> QED
    BY <2>3, <2>4
<1>7. /\ gcRuns' \in [Forks -> Nat] /\ queue' \in [Workers -> Deques]
      /\ \A v \in Workers : Hi(v)' <= Capacity
  BY <1>2 DEF IInv, Types, Hi
<1> QED
  BY <1>2, <1>3, <1>4, <1>5, <1>6, <1>7, HandOn

(* A collection is run, and was not run before.                             *)
LEMMA CollectKeeps ==
  ASSUME IInv, NEW w \in Workers, Collect(w)
  PROVE  IInv' /\ Lives
<1>1. PICK f, a : f = worker[w].gc /\ a = IF worker[w].at = "collect" THEN "pop" ELSE "steal"
  OBVIOUS
<1>2. /\ worker[w].at \in {"collect", "collectStolen"} /\ f \in Forks /\ f # Nil
      /\ a \in {"pop", "steal"}
      /\ gcRuns' = [gcRuns EXCEPT ![f] = @ + 1]
      /\ worker' = [worker EXCEPT ![w].at = a, ![w].gc = Nil]
      /\ UNCHANGED <<queue, gcTask, thread, join, status>>
  BY <1>1 DEF Collect, IInv, Types, WorkerStates, WorkerInv
<1>3. /\ worker' \in [Workers -> WorkerStates]
      /\ \A v \in Workers : v # w => worker'[v] = worker[v] /\ gcTask'[v] = gcTask[v]
      /\ worker'[w].at = a /\ worker'[w].gc = Nil
  <2>1. worker \in [Workers -> WorkerStates] /\ worker[w] \in WorkerStates
    BY DEF IInv, Types
  <2>2. worker'[w] = [worker[w] EXCEPT !.at = a, !.gc = Nil]
    BY <1>2, <2>1
  <2>3. worker'[w] \in WorkerStates
    BY <1>2, <2>1, <2>2 DEF WorkerStates
  <2>4. worker'[w].at = a /\ worker'[w].gc = Nil
    BY <2>1, <2>2 DEF WorkerStates
  <2> QED
    BY <1>2, <2>1, <2>3, <2>4
<1>4. \A v \in Workers : Shrinks(v) /\ queue'[v] = queue[v]
  BY <1>2, SameShrinks
<1>5. WorkerInv(w)' /\ SchedInv(w)'
  <2>1. WorkerInv(w)'
    BY <1>2, <1>3 DEF WorkerInv
  <2>2. /\ a = "steal" => Empty(w)
        /\ ~Empty(w) => \E u \in Threads : Offers(w, u)
    BY <1>1, <1>2 DEF IInv, SchedInv
  <2>3. \A u \in Threads : Stays(u)
    BY <1>2 DEF Stays, Kept, StillBorn
  <2>4. \A u \in Threads : Offers(w, u) => Offers(w, u)'
    BY <1>2, <2>3, OffersFrame
  <2>5. Empty(w)' <=> Empty(w)
    BY <1>2 DEF Empty, Lo, Hi
  <2>6. SchedInv(w)'
    BY <1>2, <1>3, <2>2, <2>4, <2>5 DEF SchedInv
  <2> QED
    BY <2>1, <2>6
<1>6. \A g \in Forks : TokenInv(g)'
  <2>1. \A v \in Workers, g \in Forks : Queued(v, g)' => Queued(v, g)
    BY <1>4, QueuedStays
  <2>2. Nil \notin Forks /\ gcRuns \in [Forks -> Nat]
    BY ConstantsAssumption DEF IInv, Types
  <2>3. \A g \in Forks : g # f => TokenInv(g)'
    BY <1>2, <1>3, <2>1, <2>2, TokenFrame
  <2>4. TokenInv(f)'
    <3>1. TokenInv(f) /\ Collects(w, f)
      BY <1>1, <1>2 DEF Collects, IInv
    <3>2. /\ gcRuns'[f] = 1 /\ join'[f].how # "none"
          /\ \A v \in Workers : ~Queued(v, f)
      BY <1>2, <2>2, <3>1 DEF TokenInv
    <3>3. \A v \in Workers : ~Boxed(v, f)' /\ ~Collects(v, f)'
      <4>1. \A v \in Workers : gcTask[v] # f /\ (v # w => worker[v].gc # f)
        BY <3>1 DEF TokenInv, Boxed, Collects
      <4> QED
        BY <1>2, <1>3, <4>1 DEF Boxed, Collects
    <3> QED
      BY <1>2, <2>1, <3>2, <3>3 DEF TokenInv
  <2> QED
    BY <2>3, <2>4
<1>7. /\ gcRuns' \in [Forks -> Nat] /\ queue' \in [Workers -> Deques]
      /\ gcTask' \in [Workers -> Forks \union {Nil}]
      /\ \A v \in Workers : Hi(v)' <= Capacity
  BY <1>2 DEF IInv, Types, Hi
<1> QED
  BY <1>2, <1>3, <1>4, <1>5, <1>6, <1>7, HandOn

(* When the task in slot d of w is taken, the others are what they were.    *)
LEMMA TaskTaken ==
  ASSUME IInv, NEW w \in Workers, NEW d \in Slots(w), d \notin Slots(w)',
         Slot(w, d).kind \in {"NewThread", "Continuation"},
         \A v \in Workers : Shrinks(v),
         \A f \in Forks : Unstarted(f) /\ f # Slot(w, d).id => Unstarted(f)',
         \A t \in Threads : Parked(t) /\ t # Slot(w, d).id => Parked(t)'
  PROVE  \A v \in Workers : TaskInv(v)'
<1>1. PICK x : x = Slot(w, d).id
  OBVIOUS
<1>2. ASSUME NEW v \in Workers PROVE TaskInv(v)'
  <2>1. ASSUME NEW e \in Slots(v), SlotOf(queue'[v], e).kind # "GCTask", e \in Slots(v)'
        PROVE  Slot(v, e).id # x
    <3>1. Slot(v, e).kind # "GCTask"
      BY <2>1 DEF Shrinks, Slots, Lo, Hi, Slot
    <3>2. Slot(v, e).id = x => v = w /\ e = d
      BY <1>1, <3>1, TakenOnce
    <3> QED
      BY <2>1, <3>2
  <2> QED
    BY <1>1, <2>1, TaskFrame
<1> QED
  BY <1>2

(* On top after a collection is the continuation, or nothing.               *)
LEMMA PopContinuationKeeps ==
  ASSUME IInv, NEW w \in Workers, PopContinuation(w)
  PROVE  IInv' /\ Lives
<1>1. queue[w] \in Deques /\ (IsEmpty(queue[w]) <=> Empty(w)) /\ worker[w].at = "pop"
  BY DequeFacts DEF IInv, Types, Empty, Lo, Hi, PopContinuation
<1>2. CASE Empty(w)
  BY <1>1, <1>2, RestKeeps DEF PopContinuation
<1>3. CASE ~Empty(w)
  <2>1. PICK t \in Threads : Offers(w, t)
    BY <1>1, <1>3 DEF IInv, SchedInv
  <2>2. /\ Hi(w) = Level(t) + 1 /\ Slot(w, Hi(w) - 1) = Continuation(t, Level(t))
        /\ Pc(t) = "resumed" /\ Holds(w, t) /\ Covers(w, t)
        /\ Hi(w) - 1 \in Slots(w) /\ Parked(t) /\ thread[t].proc = Nil
        /\ OpenInv(t) /\ Types /\ Level(t) \in Nat
    BY <1>3, <2>1, OffersFacts, OpenFacts DEF Offers, IInv
  <2>3. Last(queue[w].tasks) = Continuation(t, Level(t))
    BY <1>1, <1>3, <2>2, DequeFacts DEF Slot, Hi
  <2>4. /\ queue' = [queue EXCEPT ![w] = PopBot(@)]
        /\ worker' = [worker EXCEPT ![w].at = "switch", ![w].thread = t]
        /\ UNCHANGED <<gcTask, thread, join, gcRuns, status>>
    BY <1>1, <1>3, <2>3 DEF PopContinuation, Continuation
  <2>5. /\ queue'[w] \in Deques /\ queue'[w].lo = queue[w].lo /\ Bot(queue'[w]) = Hi(w) - 1
        /\ \A d \in Lo(w) .. Hi(w) - 2 : SlotOf(queue'[w], d) = Slot(w, d)
        /\ \A v \in Workers : v # w => queue'[v] = queue[v]
        /\ queue' \in [Workers -> Deques]
        /\ Lo(w) \in Nat /\ Hi(w) \in Nat
    <3>1. queue'[w] = PopBot(queue[w]) /\ \A v \in Workers : v # w => queue'[v] = queue[v]
      BY <2>2, <2>4 DEF Types
    <3>2. /\ queue'[w] \in Deques /\ queue'[w].lo = queue[w].lo /\ Bot(queue'[w]) = Hi(w) - 1
          /\ \A d \in Lo(w) .. Hi(w) - 2 : SlotOf(queue'[w], d) = Slot(w, d)
      BY <1>1, <1>3, <3>1, PopBotFacts DEF Hi, Lo, Slot
    <3>3. Lo(w) \in Nat /\ Hi(w) \in Nat
      BY <1>1, DequeFacts DEF Hi, Lo
    <3> QED
      BY <2>2, <2>4, <3>1, <3>2, <3>3 DEF Types
  <2>6. \A v \in Workers : Shrinks(v)
    <3>1. Shrinks(w)
      BY <2>5 DEF Shrinks, Slots, Lo
    <3> QED
      BY <2>5, <3>1, SameShrinks
  <2>7. /\ worker' \in [Workers -> WorkerStates]
        /\ \A v \in Workers : v # w => worker'[v] = worker[v]
        /\ worker'[w].at = "switch" /\ worker'[w].thread = t /\ worker'[w].gc = Nil
    <3>1. worker[w].gc = Nil
      BY <1>1 DEF IInv, WorkerInv
    <3>2. worker \in [Workers -> WorkerStates] /\ worker[w] \in WorkerStates
      BY <2>2 DEF Types
    <3>3. worker'[w] = [worker[w] EXCEPT !.at = "switch", !.thread = t]
      BY <2>4, <3>2
    <3>4. worker'[w] \in WorkerStates
      BY <3>2, <3>3 DEF WorkerStates
    <3> QED
      BY <2>4, <3>1, <3>2, <3>3, <3>4 DEF WorkerStates
  <2>8. Types'
    <3>1. \A v \in Workers : Hi(v)' <= Capacity
      <4>1. \A v \in Workers : Hi(v) <= Capacity
        BY <2>2 DEF Types
      <4>2. Hi(w) - 1 <= Capacity
        BY <2>5, <4>1, ConstantsAssumption
      <4> QED
        BY <2>5, <4>1, <4>2 DEF Hi
    <3> QED
      BY <2>2, <2>4, <2>5, <2>7, <3>1 DEF Types
  <2>9. \A u \in Threads : Stays(u)
    BY <2>4 DEF Stays, Kept, StillBorn
  <2>10. /\ \A v \in Workers : Switch(v, t)' <=> v = w
         /\ \A v \in Workers, u \in Threads : u # t => (Switch(v, u)' => Switch(v, u))
    BY <2>2, <2>7 DEF Switch, Parked
  <2>11. \A v \in Workers : SwitchInv(v, t)'
    BY <2>2, <2>4, <2>10 DEF SwitchInv, Pc
  <2>12. ResumeInv(w, t)'
    <3>1. Holds(w, t)' /\ Covers(w, t)' /\ Level(t)' = Level(t)
      BY <2>2, <2>4, <2>5, <2>6, <2>9, HoldsStays, CoversStays, LevelStays
    <3>2. Hi(w)' = Level(t)
      BY <2>2, <2>5 DEF Hi
    <3> QED
      BY <2>2, <2>4, <3>1, <3>2 DEF ResumeInv, Pc
  <2>13. \A v \in Workers : TaskInv(v)'
    <3>1. \A g \in Forks : Unstarted(g) => Unstarted(g)'
      BY <2>4 DEF Unstarted, Born, Spawning, Top, Open, Pc
    <3>2. \A u \in Threads : Parked(u) /\ u # t => Parked(u)'
      BY <2>4, <2>10 DEF Parked, Pc
    <3>3. Slot(w, Hi(w) - 1).kind = "Continuation" /\ Slot(w, Hi(w) - 1).id = t
      BY <2>2 DEF Continuation
    <3>4. Hi(w) - 1 \notin Slots(w)'
      BY <2>5 DEF Slots, Hi
    <3>5. PICK d \in Slots(w) : d = Hi(w) - 1
      BY <2>2
    <3> QED
      BY <2>6, <3>1, <3>2, <3>3, <3>4, <3>5, TaskTaken
  <2>14. WorkerInv(w)' /\ SchedInv(w)'
    <3>1. WorkerInv(w)'
      BY <2>7 DEF WorkerInv
    <3>2. SchedInv(w)'
      BY <2>7 DEF SchedInv
    <3> QED
      BY <3>1, <3>2
  <2>15. \A g \in Forks : TokenInv(g)'
    <3>1. Nil \notin Forks
      BY ConstantsAssumption
    <3> QED
      BY <2>4, <2>6, <2>7, <3>1, TokenFrame, QueuedStays
  <2>16. PICK x : x = Nil
    OBVIOUS
  <2>17. Nil \notin Threads /\ Lives
    BY <2>4, ConstantsAssumption DEF Threads, Lives, NeverDies
  <2> QED
    BY <1>1, <2>4, <2>5, <2>6, <2>7, <2>8, <2>11, <2>12, <2>13, <2>14, <2>15, <2>16, <2>17, TakeStep
<1> QED
  BY <1>2, <1>3

-------------------------------------------------------------------------------
(* The victim of a steal *)

(* The oldest task of a deque that works for thread u is taken: that is the *)
(* right side of u's outermost fork that was not stolen, or its collection. *)
LEMMA PopTopCovers ==
  ASSUME IInv, NEW v \in Workers, NEW u \in Threads, Lo(v) \in Slots(v),
         queue'[v].lo = Lo(v) + 1, Stays(u), thread[u].pc = "spawn" => thread'[u].pc = "spawn",
         Slot(v, Lo(v)).kind = "NewThread" =>
           \A f \in Forks : f = Slot(v, Lo(v)).id => thread'[f].pc # "unborn",
         Holds(v, u), Covers(v, u)
  PROVE  Covers(v, u)'
<1>1. /\ Types /\ OpenInv(u) /\ Lo(v) \in Nat
      /\ Open(u)' = Open(u) /\ Opened(u)' = Opened(u)
  BY LevelStays, DequeFacts DEF IInv, Types, Lo
<1>2. /\ Level(u) \in Nat
      /\ \A i \in Opened(u) :
           /\ Open(u)[i] \in Forks /\ join[Open(u)[i]].left = u
           /\ join[Open(u)[i]].depth \in Nat /\ join[Open(u)[i]].depth < Level(u)
  BY <1>1, OpenFacts
<1>3. \A g \in Forks : Extra(g) \in {0, 1} /\ (join[g].gc => Extra(g) = 1)
  BY <1>1 DEF Types, Joinpoints, Extra
<1>4. ASSUME NEW i \in Opened(u)
      PROVE  (Born(Open(u)[i]) \/ Spawning(Open(u)[i]) \/ Lo(v) <= join[Open(u)[i]].depth)'
  <2>1. PICK f \in Forks : f = Open(u)[i] /\ Kept(f) /\ StillBorn(f)
    BY <1>2 DEF Stays
  <2> SUFFICES Born(f)' \/ Spawning(f)' \/ Lo(v)' <= join'[f].depth
    BY <1>1, <2>1 DEF Born, Spawning, Pc
  <2>2. Born(f) => Born(f)'
    BY <2>1 DEF Born, StillBorn
  <2>3. Spawning(f) => Spawning(f)'
    BY <1>1, <1>2, <2>1 DEF Spawning, Kept, Top, Pc
  <2>4. CASE Lo(v) < join[f].depth
    <3>1. join'[f].depth = join[f].depth /\ join[f].depth \in Nat /\ Lo(v)' = Lo(v) + 1
      BY <1>2, <2>1 DEF Lo, Kept
    <3> QED
      BY <1>1, <2>4, <3>1
  <2>5. CASE Lo(v) = join[f].depth
    <3>1. PICK j \in Opened(u) : PushedBy(Open(u)[j], Slot(v, Lo(v)), Lo(v))
      BY <1>2, <2>1, <2>5 DEF Holds
    <3>2. PICK g \in Forks : g = Open(u)[j]
      BY <1>2
    <3>3. /\ i < j => join[f].depth < join[g].depth - Extra(g)
          /\ j < i => join[g].depth < join[f].depth - Extra(f)
          /\ i = j => f = g
      BY <1>1, <2>1, <3>2 DEF OpenInv
    <3>4. i \in Nat /\ j \in Nat /\ (i < j \/ j < i \/ i = j)
      BY <1>1, OpenFacts DEF Opened
    <3>5. /\ join[f].depth \in Nat /\ join[g].depth \in Nat
          /\ Extra(f) \in {0, 1} /\ Extra(g) \in {0, 1}
      BY <1>2, <1>3, <2>1, <3>2
    <3>6. CASE Slot(v, Lo(v)) = NewThread(g) /\ Lo(v) = join[g].depth
      <4>1. f = g
        BY <2>5, <3>3, <3>4, <3>5, <3>6
      <4>2. Slot(v, Lo(v)).kind = "NewThread" /\ Slot(v, Lo(v)).id = f
        BY <3>6, <4>1 DEF NewThread
      <4>3. Born(f)'
        BY <4>2 DEF Born
      <4> QED
        BY <4>3
    <3>7. CASE join[g].gc /\ Lo(v) = join[g].depth - 1
      <4>1. PICK a \in Nat, b \in Nat, e \in {0, 1} :
              a = join[f].depth /\ b = join[g].depth /\ e = Extra(f)
        BY <3>5
      <4>2. Extra(g) = 1 /\ b = a + 1
        <5>1. Extra(g) = 1
          BY <1>3, <3>7
        <5>2. a = b - 1
          BY <2>5, <3>7, <4>1
        <5> QED
          BY <4>1, <5>1, <5>2
      <4>3. /\ i < j => a < b - 1
            /\ j < i => b < a - e
            /\ i = j => a = b
        BY <3>3, <4>1, <4>2
      <4>4. FALSE
        BY <3>4, <4>1, <4>2, <4>3
      <4> QED
        BY <4>4
    <3> QED
      BY <3>1, <3>2, <3>6, <3>7 DEF PushedBy
  <2>6. Born(f) \/ Spawning(f) \/ Lo(v) <= join[f].depth
    BY <2>1 DEF Covers
  <2>7. Lo(v) <= join[f].depth => Lo(v) < join[f].depth \/ Lo(v) = join[f].depth
    BY <1>1, <1>2, <2>1
  <2> QED
    BY <2>2, <2>3, <2>4, <2>5, <2>6, <2>7
<1> QED
  BY <1>1, <1>4 DEF Covers

(* Thread t, if any, is the one the stolen task starts.                     *)
LEMMA VictimFrame ==
  ASSUME IInv, NEW v \in Workers, ~Empty(v), queue'[v] = PopTop(queue[v]),
         worker'[v] = worker[v], gcTask'[v] = gcTask[v], StillDone,
         NEW t \in Threads \union {Nil}, t \in Threads => thread[t].pc = "unborn",
         \A u \in Threads : Stays(u) /\ (u # t => thread'[u] = thread[u]),
         Slot(v, Lo(v)).kind = "NewThread" =>
           \A f \in Forks : f = Slot(v, Lo(v)).id => thread'[f].pc # "unborn"
  PROVE  /\ queue'[v] \in Deques /\ Shrinks(v) /\ Lo(v) \in Slots(v) /\ Lo(v) \notin Slots(v)'
         /\ Hi(v)' = Hi(v)
         /\ SchedInv(v)'
         /\ \A u \in Threads : UserInv(v, u)' /\ ResumeInv(v, u)' /\ DequeInv(v, u)'
<1>1. /\ queue[v] \in Deques /\ ~IsEmpty(queue[v]) /\ Bot(queue[v]) <= Capacity /\ Types
      /\ Lo(v) \in Nat /\ Hi(v) \in Nat /\ Lo(v) <= Hi(v) /\ Lo(v) # Hi(v)
  BY DequeFacts DEF IInv, Types, Empty, Lo, Hi
<1>2. /\ queue'[v] \in Deques /\ queue'[v].lo = Lo(v) + 1 /\ Hi(v)' = Hi(v)
      /\ \A d \in Lo(v) + 1 .. Hi(v) - 1 : SlotOf(queue'[v], d) = Slot(v, d)
  BY <1>1, PopTopFacts DEF Lo, Hi, Slot
<1>3. Lo(v) \in Slots(v) /\ Lo(v)' = Lo(v) + 1
  BY <1>1, <1>2 DEF Slots, Lo
<1>4. Lo(v) \notin Slots(v)'
  BY <1>1, <1>3 DEF Slots
<1>5. Shrinks(v)
  BY <1>1, <1>2 DEF Shrinks, Slots, Hi
<1>6. ~Empty(v)' => Slot(v, Hi(v) - 1)' = Slot(v, Hi(v) - 1)
  <2>1. ~Empty(v)' => Hi(v) - 1 \in Lo(v) + 1 .. Hi(v) - 1
    BY <1>1, <1>2, <1>3 DEF Empty
  <2> QED
    BY <1>2, <2>1 DEF Slot
<1>7. ASSUME NEW u \in Threads, u # t
      PROVE  /\ Pc(u)' = Pc(u) /\ Level(u)' = Level(u) /\ thread'[u] = thread[u] /\ OpenInv(u)
             /\ Holds(v, u) => Holds(v, u)'
             /\ Holds(v, u) /\ Covers(v, u) => Covers(v, u)'
  <2>1. Pc(u)' = Pc(u) /\ thread'[u] = thread[u] /\ OpenInv(u) /\ Stays(u)
    BY <1>7 DEF Pc, IInv
  <2>2. Level(u)' = Level(u)
    BY <1>1, <2>1, LevelStays
  <2>3. Holds(v, u) => Holds(v, u)'
    BY <1>1, <1>5, <2>1, HoldsStays
  <2>4. Holds(v, u) /\ Covers(v, u) => Covers(v, u)'
    BY <1>2, <1>3, <2>1, PopTopCovers
  <2> QED
    BY <2>1, <2>2, <2>3, <2>4
<1>8. /\ \A u \in Threads : User(v, u)' = User(v, u) /\ Switch(v, u)' = Switch(v, u)
      /\ t \in Threads => ~User(v, t) /\ ~Switch(v, t) /\ ~Offers(v, t)
  <2>1. ASSUME t \in Threads PROVE ~User(v, t) /\ ~Switch(v, t) /\ ~Offers(v, t)
    <3>1. ThreadInv(t) /\ SwitchInv(v, t) /\ v # Nil /\ WorkerInv(v)
      BY <2>1, ConstantsAssumption DEF IInv
    <3> QED
      BY <2>1, <3>1 DEF ThreadInv, SwitchInv, WorkerInv, User, Offers, Pc
  <2> QED
    BY <2>1 DEF User, Switch
<1>9. SchedInv(v)'
  <2>1. SchedInv(v)
    BY DEF IInv
  <2>2. ASSUME NEW u \in Threads, Offers(v, u), ~Empty(v)' PROVE Offers(v, u)'
    BY <1>2, <1>6, <1>7, <1>8, <2>2 DEF Offers, Continuation
  <2> QED
    BY <2>1, <2>2 DEF SchedInv
<1>10. ASSUME NEW u \in Threads, u # t
       PROVE  UserInv(v, u)' /\ ResumeInv(v, u)' /\ DequeInv(v, u)'
  <2>1. UserInv(v, u) /\ ResumeInv(v, u) /\ DequeInv(v, u) /\ Top(u)' = Top(u) /\ thread'[u].gc = thread[u].gc
    BY <1>7, <1>10 DEF IInv, Top, Open
  <2>2. UserInv(v, u)'
    <3>1. Pc(u) = "join" => Top(u) \in Forks
      BY <1>1, <1>7, <1>10, OpenFacts DEF OpenInv
    <3>2. User(v, u) /\ Pc(u) = "join" => Pc(Top(u))' \in {"leave", "gone"}
      BY <2>1, <3>1 DEF StillDone, Pc, UserInv
    <3> QED
      BY <1>7, <1>8, <1>10, <2>1, <3>2 DEF UserInv
  <2>3. ResumeInv(v, u)'
    BY <1>2, <1>7, <1>8, <1>10, <2>1 DEF ResumeInv
  <2>4. DequeInv(v, u)'
    BY <1>2, <1>6, <1>7, <1>8, <1>10, <2>1 DEF DequeInv, GCTask, Continuation
  <2> QED
    BY <2>2, <2>3, <2>4
<1>11. t \in Threads => UserInv(v, t)' /\ ResumeInv(v, t)' /\ DequeInv(v, t)'
  BY <1>8 DEF UserInv, ResumeInv, DequeInv
<1> QED
  BY <1>2, <1>3, <1>4, <1>5, <1>9, <1>10, <1>11

-------------------------------------------------------------------------------
(* The steals *)

(* What a thief finds at the shallow end of its victim's deque.             *)
LEMMA AcquireFacts ==
  ASSUME IInv, NEW w \in Workers, NEW v \in Workers, NEW k, Acquire(w, v, k)
  PROVE  /\ worker[w].at = "steal" /\ v # w /\ ~Empty(v) /\ Empty(w) /\ worker[w].gc = Nil
         /\ Lo(v) \in Slots(v) /\ Slot(v, Lo(v)) = Head(queue[v].tasks)
         /\ Slot(v, Lo(v)).kind = k
         /\ queue[v] \in Deques /\ queue[w] \in Deques /\ Lo(v) \in Nat /\ Lo(v) < Hi(v)
         /\ Hi(v) \in Nat
<1>1. /\ worker[w].at = "steal" /\ v # w /\ ~IsEmpty(queue[v]) /\ Head(queue[v].tasks).kind = k
      /\ queue[v] \in Deques /\ queue[w] \in Deques /\ SchedInv(w) /\ WorkerInv(w)
  BY DEF Acquire, IInv, Types
<1>2. /\ Lo(v) \in Nat /\ Hi(v) \in Nat /\ Lo(v) <= Hi(v) /\ ~Empty(v)
      /\ Slot(v, Lo(v)) = Head(queue[v].tasks)
  BY <1>1, DequeFacts DEF Lo, Hi, Slot, Empty
<1>3. Lo(v) < Hi(v) /\ Lo(v) \in Slots(v)
  BY <1>2 DEF Empty, Slots
<1> QED
  BY <1>1, <1>2, <1>3 DEF SchedInv, WorkerInv

(* A thief takes up a collection.                                           *)
LEMMA StealGCTaskKeeps ==
  ASSUME IInv, NEW w \in Workers, NEW v \in Workers, StealGCTask(w, v)
  PROVE  IInv' /\ Lives
<1>1. /\ worker[w].at = "steal" /\ v # w /\ ~Empty(v) /\ Empty(w)
      /\ Lo(v) \in Slots(v) /\ Slot(v, Lo(v)) = Head(queue[v].tasks)
      /\ Slot(v, Lo(v)).kind = "GCTask" /\ Types
  BY AcquireFacts DEF StealGCTask, IInv
<1>2. PICK f \in Forks : f = Slot(v, Lo(v)).id
  BY <1>1, SlotFacts
<1>3. /\ queue' = [queue EXCEPT ![v] = PopTop(@)]
      /\ worker' = [worker EXCEPT ![w].at = "collectStolen", ![w].gc = f]
      /\ UNCHANGED <<gcTask, thread, join, gcRuns, status>>
  BY <1>1, <1>2 DEF StealGCTask
<1>4. /\ worker' \in [Workers -> WorkerStates]
      /\ \A x \in Workers : x # w => worker'[x] = worker[x] /\ gcTask'[x] = gcTask[x]
      /\ worker'[w].at = "collectStolen" /\ worker'[w].gc = f
  <2>1. worker \in [Workers -> WorkerStates] /\ worker[w] \in WorkerStates
    BY <1>1 DEF Types
  <2>2. worker'[w] = [worker[w] EXCEPT !.at = "collectStolen", !.gc = f]
    BY <1>3, <2>1
  <2>3. worker'[w] \in WorkerStates
    BY <2>1, <2>2 DEF WorkerStates
  <2>4. worker'[w].at = "collectStolen" /\ worker'[w].gc = f
    BY <2>1, <2>2 DEF WorkerStates
  <2> QED
    BY <1>3, <2>1, <2>3, <2>4
<1>5. /\ queue'[v] = PopTop(queue[v])
      /\ \A x \in Workers : x # v => queue'[x] = queue[x]
  BY <1>1, <1>3 DEF Types
<1>6. /\ \A u \in Threads : Stays(u) /\ thread'[u] = thread[u]
      /\ StillDone
  BY <1>3 DEF Stays, Kept, StillBorn, StillDone
<1>7. PICK t : t = Nil
  OBVIOUS
<1>8. /\ queue'[v] \in Deques /\ Shrinks(v) /\ Lo(v) \notin Slots(v)' /\ Hi(v)' = Hi(v)
      /\ SchedInv(v)'
      /\ \A u \in Threads : UserInv(v, u)' /\ ResumeInv(v, u)' /\ DequeInv(v, u)'
  <2>1. Nil \notin Threads
    BY ConstantsAssumption DEF Threads
  <2> QED
    BY <1>1, <1>4, <1>5, <1>6, <1>7, <2>1, VictimFrame
<1>9. \A x \in Workers : Shrinks(x)
  BY <1>5, <1>8, SameShrinks
<1>10. WorkerInv(w)' /\ SchedInv(w)'
  <2>1. WorkerInv(w)'
    BY <1>4, ConstantsAssumption DEF WorkerInv
  <2>2. Empty(w)' <=> Empty(w)
    BY <1>1, <1>5 DEF Empty, Lo, Hi
  <2>3. SchedInv(w)'
    BY <1>1, <1>4, <2>2 DEF SchedInv
  <2> QED
    BY <2>1, <2>3
<1>11. \A g \in Forks : TokenInv(g)'
  <2>1. \A x \in Workers, g \in Forks : Queued(x, g)' => Queued(x, g)
    BY <1>9, QueuedStays
  <2>2. \A g \in Forks : g # f => TokenInv(g)'
    BY <1>3, <1>4, <2>1, TokenFrame
  <2>3. TokenInv(f)'
    <3>1. TokenInv(f) /\ Queued(v, f)
      BY <1>1, <1>2 DEF Queued, IInv
    <3>2. \A x \in Workers : ~Queued(x, f)'
      <4>1. SUFFICES ASSUME NEW x \in Workers, NEW e \in Slots(x)',
                            (Slot(x, e).kind = "GCTask" /\ Slot(x, e).id = f)'
                     PROVE  FALSE
        BY DEF Queued
      <4>2. e \in Slots(x) /\ Slot(x, e)' = Slot(x, e)
        BY <1>9 DEF Shrinks, Slots, Lo, Hi, Slot
      <4>3. SameTask(Slot(v, Lo(v)), Slot(x, e))
        BY <1>1, <1>2, <4>1, <4>2 DEF SameTask
      <4>4. OnceInv(v, x)
        BY DEF IInv
      <4>5. x = v /\ e = Lo(v)
        BY <1>1, <4>2, <4>3, <4>4 DEF OnceInv
      <4> QED
        BY <1>8, <4>1, <4>5
    <3>3. gcRuns'[f] = 0 /\ join'[f].how # "none"
      BY <1>3, <3>1 DEF TokenInv
    <3>4. \A x \in Workers : ~Boxed(x, f)' /\ (Collects(x, f)' => x = w)
      <4>1. \A x \in Workers : gcTask[x] # f /\ worker[x].gc # f
        BY <3>1 DEF TokenInv, Boxed, Collects
      <4> QED
        BY <1>3, <1>4, <4>1 DEF Boxed, Collects
    <3> QED
      BY <3>2, <3>3, <3>4 DEF TokenInv
  <2> QED
    BY <2>2, <2>3
<1>12. /\ gcRuns' \in [Forks -> Nat] /\ queue' \in [Workers -> Deques]
       /\ gcTask' \in [Workers -> Forks \union {Nil}]
       /\ \A x \in Workers : Hi(x)' <= Capacity
  <2>1. \A x \in Workers : Hi(x)' = Hi(x)
    BY <1>5, <1>8 DEF Hi
  <2> QED
    BY <1>1, <1>3, <1>5, <1>8, <2>1 DEF Types
<1> QED
  BY <1>1, <1>3, <1>4, <1>5, <1>8, <1>9, <1>10, <1>11, <1>12, HandOn

(* What the thief has after a steal: an empty deque at depth d, to go on    *)
(* with thread s.                                                           *)
LEMMA ThiefFacts ==
  ASSUME IInv, NEW w \in Workers, NEW v \in Workers, NEW k, Acquire(w, v, k),
         NEW s \in Threads, NEW d \in 0 .. Capacity,
         queue' = [queue EXCEPT ![v] = PopTop(@), ![w] = AtDepth(d)],
         worker' = [worker EXCEPT ![w].at = "switch", ![w].thread = s],
         UNCHANGED <<gcTask, gcRuns, join>>,
         queue'[v] \in Deques, Shrinks(v), Hi(v)' = Hi(v)
  PROVE  /\ queue' \in [Workers -> Deques] /\ worker' \in [Workers -> WorkerStates]
         /\ worker'[w].at = "switch" /\ worker'[w].thread = s /\ worker'[w].gc = Nil
         /\ \A x \in Workers : x # w => worker'[x] = worker[x]
         /\ \A x \in Workers : x # w /\ x # v => queue'[x] = queue[x]
         /\ Lo(w)' = d /\ Hi(w)' = d /\ Slots(w)' = {} /\ \A x \in Workers : Hi(x)' <= Capacity
         /\ \A x \in Workers : Shrinks(x)
         /\ WorkerInv(w)' /\ SchedInv(w)' /\ \A g \in Forks : TokenInv(g)'
         /\ \A u \in Threads : Switch(w, u)' <=> u = s
         /\ \A x \in Workers, u \in Threads : x # w => (Switch(x, u)' <=> Switch(x, u))
<1>1. v # w /\ worker[w].gc = Nil /\ Types
  BY AcquireFacts DEF IInv
<1>2. /\ queue'[w] = AtDepth(d)
      /\ \A x \in Workers : x # w /\ x # v => queue'[x] = queue[x]
  BY <1>1 DEF Types
<1>3. queue'[w] \in Deques /\ queue'[w].lo = d /\ Bot(queue'[w]) = d
  BY <1>2, AtDepthFacts
<1>4. Lo(w)' = d /\ Hi(w)' = d /\ Slots(w)' = {}
  <2>1. Lo(w)' = d /\ Hi(w)' = d /\ d \in Nat
    BY <1>3, ConstantsAssumption DEF Lo, Hi
  <2>2. d .. d - 1 = {}
    BY <2>1
  <2> QED
    BY <2>1, <2>2 DEF Slots
<1>5. \A x \in Workers : Hi(x)' <= Capacity
  <2>1. \A x \in Workers : x # w /\ x # v => Hi(x)' = Hi(x)
    BY <1>2 DEF Hi
  <2>2. d <= Capacity
    BY ConstantsAssumption
  <2> QED
    BY <1>1, <1>4, <2>1, <2>2 DEF Types
<1>6. \A x \in Workers : Shrinks(x)
  <2>1. Shrinks(w)
    BY <1>3, ConstantsAssumption DEF Shrinks
  <2> QED
    BY <1>2, <2>1, SameShrinks
<1>7. /\ worker' \in [Workers -> WorkerStates]
      /\ worker'[w].at = "switch" /\ worker'[w].thread = s /\ worker'[w].gc = Nil
      /\ \A x \in Workers : x # w => worker'[x] = worker[x]
  <2>1. worker \in [Workers -> WorkerStates] /\ worker[w] \in WorkerStates
    BY <1>1 DEF Types
  <2>2. worker'[w] = [worker[w] EXCEPT !.at = "switch", !.thread = s]
    BY <2>1
  <2>3. worker'[w] \in WorkerStates
    BY <2>1, <2>2 DEF WorkerStates
  <2>4. worker'[w].at = "switch" /\ worker'[w].thread = s /\ worker'[w].gc = Nil
    BY <1>1, <2>1, <2>2 DEF WorkerStates
  <2> QED
    BY <2>1, <2>3, <2>4
<1>8. WorkerInv(w)' /\ SchedInv(w)'
  <2>1. WorkerInv(w)'
    BY <1>7 DEF WorkerInv
  <2>2. SchedInv(w)'
    BY <1>7 DEF SchedInv
  <2> QED
    BY <2>1, <2>2
<1>9. \A g \in Forks : TokenInv(g)'
  <2>1. Nil \notin Forks
    BY ConstantsAssumption
  <2> QED
    BY <1>6, <1>7, <2>1, TokenFrame, QueuedStays
<1>10. /\ \A u \in Threads : Switch(w, u)' <=> u = s
       /\ \A x \in Workers, u \in Threads : x # w => (Switch(x, u)' <=> Switch(x, u))
  BY <1>7 DEF Switch
<1>11. queue' \in [Workers -> Deques]
  BY <1>1, <1>2, <1>3 DEF Types
<1> QED
  BY <1>2, <1>4, <1>5, <1>6, <1>7, <1>8, <1>9, <1>10, <1>11

(* A thief takes up the thread that offered its continuation.               *)
LEMMA StealContinuationKeeps ==
  ASSUME IInv, NEW w \in Workers, NEW v \in Workers, StealContinuation(w, v)
  PROVE  IInv' /\ Lives
<1>1. /\ Acquire(w, v, "Continuation")
      /\ worker[w].at = "steal" /\ v # w /\ ~Empty(v)
      /\ Lo(v) \in Slots(v) /\ Slot(v, Lo(v)) = Head(queue[v].tasks)
      /\ Slot(v, Lo(v)).kind = "Continuation" /\ Types /\ Lo(v) \in Nat /\ Hi(v) \in Nat
      /\ Lo(v) < Hi(v)
  BY AcquireFacts DEF StealContinuation, IInv
<1>2. PICK t \in Threads :
        /\ Lo(v) = Hi(v) - 1 /\ Slot(v, Lo(v)) = Continuation(t, Level(t)) /\ Level(t) = Lo(v)
        /\ Parked(t) /\ Covers(v, t)
  BY <1>1, SlotFacts
<1>3. PICK d : d = Lo(v)
  OBVIOUS
<1>4. /\ queue' = [queue EXCEPT ![v] = PopTop(@), ![w] = AtDepth(d)]
      /\ worker' = [worker EXCEPT ![w].at = "switch", ![w].thread = t]
      /\ UNCHANGED <<gcTask, thread, join, gcRuns, status>>
  <2>1. PICK task : task = Head(queue[v].tasks)
    OBVIOUS
  <2>2. task.id = t /\ task.kind = "Continuation" /\ task.depth = d
    BY <1>1, <1>2, <1>3, <2>1 DEF Continuation
  <2>3. StartDepth(task) = d
    BY <2>2 DEF StartDepth
  <2> QED
    BY <2>1, <2>2, <2>3 DEF StealContinuation
<1>5. d \in 0 .. Capacity
  BY <1>1, <1>3, ConstantsAssumption DEF Types
<1>6. /\ queue'[v] = PopTop(queue[v])
      /\ worker'[v] = worker[v] /\ gcTask'[v] = gcTask[v]
  BY <1>1, <1>4 DEF Types
<1>7. /\ \A u \in Threads : Stays(u) /\ thread'[u] = thread[u]
      /\ StillDone
  BY <1>4 DEF Stays, Kept, StillBorn, StillDone
<1>8. PICK n : n = Nil
  OBVIOUS
<1>9. Nil \notin Threads
  BY ConstantsAssumption DEF Threads
<1>10. /\ queue'[v] \in Deques /\ Shrinks(v) /\ Lo(v) \notin Slots(v)' /\ Hi(v)' = Hi(v)
       /\ SchedInv(v)'
       /\ \A u \in Threads : UserInv(v, u)' /\ ResumeInv(v, u)' /\ DequeInv(v, u)'
  BY <1>1, <1>6, <1>7, <1>8, <1>9, VictimFrame
<1>11. /\ queue' \in [Workers -> Deques] /\ worker' \in [Workers -> WorkerStates]
       /\ worker'[w].at = "switch" /\ worker'[w].thread = t /\ worker'[w].gc = Nil
       /\ \A x \in Workers : x # w => worker'[x] = worker[x]
       /\ \A x \in Workers : x # w /\ x # v => queue'[x] = queue[x]
       /\ Lo(w)' = d /\ Hi(w)' = d /\ Slots(w)' = {} /\ \A x \in Workers : Hi(x)' <= Capacity
       /\ \A x \in Workers : Shrinks(x)
       /\ WorkerInv(w)' /\ SchedInv(w)' /\ \A g \in Forks : TokenInv(g)'
       /\ \A u \in Threads : Switch(w, u)' <=> u = t
       /\ \A x \in Workers, u \in Threads : x # w => (Switch(x, u)' <=> Switch(x, u))
  BY <1>1, <1>4, <1>5, <1>10, ThiefFacts
<1>12. Types'
  BY <1>1, <1>4, <1>11 DEF Types
<1>13. \A x \in Workers : SwitchInv(x, t)'
  BY <1>2, <1>4, <1>11 DEF SwitchInv, Parked, Pc
<1>14. ResumeInv(w, t)'
  <2>1. /\ OpenInv(t) /\ Level(t)' = Level(t) /\ Opened(t)' = Opened(t) /\ Open(t)' = Open(t)
    BY <1>1, <1>7, LevelStays DEF IInv
  <2>2. \A i \in Opened(t) : Born(Open(t)[i])
    <3>1. \A i \in Opened(t) :
            /\ join[Open(t)[i]].left = t
            /\ join[Open(t)[i]].depth \in Nat /\ join[Open(t)[i]].depth < Lo(v)
      BY <1>1, <1>2, <2>1, OpenFacts
    <3>2. \A i \in Opened(t) : ~Spawning(Open(t)[i])
      BY <1>2, <3>1 DEF Spawning, Parked
    <3>3. \A i \in Opened(t) : ~(Lo(v) <= join[Open(t)[i]].depth)
      BY <1>1, <3>1
    <3> QED
      BY <1>2, <3>2, <3>3 DEF Covers
  <2>3. Holds(w, t)'
    BY <1>11 DEF Holds
  <2>4. Covers(w, t)'
    BY <1>4, <2>1, <2>2 DEF Covers, Born
  <2>5. Hi(w)' = Level(t)' /\ Empty(w)'
    BY <1>2, <1>3, <1>11, <2>1 DEF Empty
  <2> QED
    BY <2>3, <2>4, <2>5 DEF ResumeInv
<1>15. \A x \in Workers : TaskInv(x)'
  <2>1. \A g \in Forks : Unstarted(g) => Unstarted(g)'
    BY <1>4 DEF Unstarted, Born, Spawning, Top, Open, Pc
  <2>2. \A u \in Threads : Parked(u) /\ u # t => Parked(u)'
    BY <1>4, <1>11 DEF Parked, Pc
  <2>3. Slot(v, Lo(v)).kind = "Continuation" /\ Slot(v, Lo(v)).id = t
    BY <1>2 DEF Continuation
  <2>4. PICK e \in Slots(v) : e = Lo(v)
    BY <1>1
  <2> QED
    BY <1>10, <1>11, <2>1, <2>2, <2>3, <2>4, TaskTaken
<1>16. Lives
  BY <1>4 DEF Lives, NeverDies
<1> QED
  BY <1>1, <1>4, <1>7, <1>8, <1>9, <1>10, <1>11, <1>12, <1>13, <1>14, <1>15, <1>16, TakeStep

(* A thief starts a right side, one level deeper than its fork.             *)
LEMMA StealNewThreadKeeps ==
  ASSUME IInv, NEW w \in Workers, NEW v \in Workers, StealNewThread(w, v)
  PROVE  IInv' /\ Lives
<1>1. /\ Acquire(w, v, "NewThread")
      /\ worker[w].at = "steal" /\ v # w /\ ~Empty(v)
      /\ Lo(v) \in Slots(v) /\ Slot(v, Lo(v)) = Head(queue[v].tasks)
      /\ Slot(v, Lo(v)).kind = "NewThread" /\ Types /\ Lo(v) \in Nat /\ Hi(v) \in Nat
      /\ Lo(v) < Hi(v)
  BY AcquireFacts DEF StealNewThread, IInv
<1>2. PICK f \in Forks :
        Slot(v, Lo(v)) = NewThread(f) /\ Lo(v) = join[f].depth /\ Unstarted(f)
  BY <1>1, SlotFacts
<1>3. PICK d : d = Lo(v) + 1
  OBVIOUS
<1>4. /\ queue' = [queue EXCEPT ![v] = PopTop(@), ![w] = AtDepth(d)]
      /\ worker' = [worker EXCEPT ![w].at = "switch", ![w].thread = f]
      /\ thread' = [thread EXCEPT ![f].pc = "run", ![f].depth = d]
      /\ UNCHANGED <<gcTask, join, gcRuns, status>>
  <2>1. PICK task : task = Head(queue[v].tasks)
    OBVIOUS
  <2>2. task.id = f /\ task.kind = "NewThread" /\ task.depth + 1 = d
    BY <1>1, <1>2, <1>3, <2>1 DEF NewThread
  <2>3. StartDepth(task) = d
    BY <2>2 DEF StartDepth
  <2> QED
    BY <2>1, <2>2, <2>3 DEF StealNewThread
<1>5. d \in 0 .. Capacity
  <2>1. Hi(v) <= Capacity /\ Capacity \in Nat
    BY <1>1, ConstantsAssumption DEF Types
  <2> QED
    BY <1>1, <1>3, <2>1
<1>6. /\ queue'[v] = PopTop(queue[v])
      /\ worker'[v] = worker[v] /\ gcTask'[v] = gcTask[v]
  BY <1>1, <1>4 DEF Types
<1>7. f \in Threads /\ f # Root /\ thread[f].pc = "unborn" /\ OpenInv(f) /\ ThreadInv(f)
  BY <1>2, ConstantsAssumption DEF Threads, Unstarted, Born, IInv
<1>8. /\ thread' \in [Threads -> ThreadStates]
      /\ \A u \in Threads : u # f => thread'[u] = thread[u]
      /\ thread'[f].pc = "run" /\ thread'[f].depth = d
      /\ thread'[f].open = thread[f].open /\ thread'[f].proc = thread[f].proc
  <2>1. thread \in [Threads -> ThreadStates] /\ thread[f] \in ThreadStates
    BY <1>1, <1>7 DEF Types
  <2>2. thread'[f] = [thread[f] EXCEPT !.pc = "run", !.depth = d]
    BY <1>4, <1>7, <2>1
  <2>3. thread'[f] \in ThreadStates
    BY <1>5, <2>1, <2>2 DEF ThreadStates
  <2>4. /\ thread'[f].pc = "run" /\ thread'[f].depth = d
        /\ thread'[f].open = thread[f].open /\ thread'[f].proc = thread[f].proc
    BY <2>1, <2>2 DEF ThreadStates
  <2> QED
    BY <1>4, <2>1, <2>3, <2>4
<1>9. /\ Open(f) = <<>> /\ Opened(f) = {} /\ Level(f) = d /\ thread[f].proc = Nil
  <2>1. Open(f) = <<>> /\ thread[f].proc = Nil
    BY <1>7, ConstantsAssumption DEF OpenInv, ThreadInv, Pc
  <2>2. Level(f) = join[f].depth + 1
    BY <1>1, <1>7, <2>1, OpenFacts DEF Base
  <2> QED
    BY <1>2, <1>3, <2>1, <2>2 DEF Opened
<1>10. /\ \A u \in Threads : Stays(u)
       /\ StillDone
  <2>1. /\ \A u \in Threads : thread'[u].open = thread[u].open /\ StillBorn(u)
        /\ \A g \in Forks : Kept(g)
        /\ StillDone
    BY <1>4, <1>7, <1>8 DEF StillBorn, StillDone, Kept, Threads
  <2> QED
    BY <1>1, <2>1, AllStay
<1>11. /\ queue'[v] \in Deques /\ Shrinks(v) /\ Lo(v) \notin Slots(v)' /\ Hi(v)' = Hi(v)
       /\ SchedInv(v)'
       /\ \A u \in Threads : UserInv(v, u)' /\ ResumeInv(v, u)' /\ DequeInv(v, u)'
  <2>1. \A g \in Forks : g = Slot(v, Lo(v)).id => thread'[g].pc # "unborn"
    BY <1>2, <1>8 DEF NewThread
  <2> QED
    BY <1>1, <1>6, <1>7, <1>8, <1>10, <2>1, VictimFrame
<1>12. /\ queue' \in [Workers -> Deques] /\ worker' \in [Workers -> WorkerStates]
       /\ worker'[w].at = "switch" /\ worker'[w].thread = f /\ worker'[w].gc = Nil
       /\ \A x \in Workers : x # w => worker'[x] = worker[x]
       /\ \A x \in Workers : x # w /\ x # v => queue'[x] = queue[x]
       /\ Lo(w)' = d /\ Hi(w)' = d /\ Slots(w)' = {} /\ \A x \in Workers : Hi(x)' <= Capacity
       /\ \A x \in Workers : Shrinks(x)
       /\ WorkerInv(w)' /\ SchedInv(w)' /\ \A g \in Forks : TokenInv(g)'
       /\ \A u \in Threads : Switch(w, u)' <=> u = f
       /\ \A x \in Workers, u \in Threads : x # w => (Switch(x, u)' <=> Switch(x, u))
  BY <1>1, <1>4, <1>5, <1>7, <1>11, ThiefFacts
<1>13. Types'
  BY <1>1, <1>4, <1>8, <1>12 DEF Types
<1>14. \A x \in Workers : SwitchInv(x, f)'
  <2>1. \A x \in Workers : ~Switch(x, f)
    BY <1>7 DEF IInv, SwitchInv, Pc
  <2> QED
    BY <1>7, <1>8, <1>9, <1>12, <2>1 DEF SwitchInv, Pc
<1>15. ResumeInv(w, f)'
  <2>1. Level(f)' = Level(f) /\ Opened(f)' = {}
    BY <1>1, <1>7, <1>9, <1>10, LevelStays
  <2>2. Holds(w, f)' /\ Covers(w, f)'
    BY <1>12, <2>1 DEF Holds, Covers
  <2>3. Hi(w)' = Level(f)' /\ Empty(w)'
    BY <1>9, <1>12, <2>1 DEF Empty
  <2> QED
    BY <2>2, <2>3 DEF ResumeInv
<1>16. \A x \in Workers : TaskInv(x)'
  <2>1. ASSUME NEW g \in Forks, Unstarted(g), g # f PROVE Unstarted(g)'
    <3>1. thread'[g] = thread[g] /\ join'[g] = join[g]
      BY <1>4, <1>8, <2>1 DEF Threads
    <3>2. PICK u \in Threads : u = join[g].left
      BY <2>1 DEF Unstarted, IInv, ForkInv
    <3>3. u # f => thread'[u] = thread[u]
      BY <1>8
    <3>4. u = f => thread'[u].pc # "spawn"
      BY <1>8
    <3> QED
      BY <2>1, <3>1, <3>2, <3>3, <3>4 DEF Unstarted, Born, Spawning, Top, Open, Pc
  <2>2. \A u \in Threads : Parked(u) /\ u # f => Parked(u)'
    BY <1>8, <1>12 DEF Parked, Pc
  <2>3. Slot(v, Lo(v)).kind = "NewThread" /\ Slot(v, Lo(v)).id = f
    BY <1>2 DEF NewThread
  <2>4. PICK e \in Slots(v) : e = Lo(v)
    BY <1>1
  <2> QED
    BY <1>11, <1>12, <2>1, <2>2, <2>3, <2>4, TaskTaken
<1>17. Lives
  BY <1>4 DEF Lives, NeverDies
<1> QED
  BY <1>1, <1>2, <1>4, <1>7, <1>8, <1>9, <1>11, <1>12, <1>13, <1>14, <1>15, <1>16, <1>17, TakeStep

-------------------------------------------------------------------------------
(* A thread forks and joins *)

(* What remains to be shown of a step in which thread t of worker w goes on *)
(* in user code and works on its worker's deque.                            *)
LEMMA RunStep ==
  ASSUME IInv, NEW w \in Workers, NEW t \in Threads, Runs(w, t), Pc(t) \in Inner,
         UNCHANGED worker, Types', thread'[t].proc = thread[t].proc,
         thread'[t].pc \in {"run", "spawn", "syncGC", "offered"},
         \A u \in Threads : u # t =>
           thread'[u] = thread[u] /\ (Stays(u) \/ thread[u].pc = "unborn"),
         \A v \in Workers : v # w => queue'[v] = queue[v] /\ gcTask'[v] = gcTask[v],
         OpenInv(t)', DepthInv(t)', RoomInv(t)', DequeInv(w, t)', UserInv(w, t)',
         \A g \in Forks : ForkInv(g)' /\ TokenInv(g)',
         \A v \in Workers : TaskInv(v)',
         \A v, x \in Workers : OnceInv(v, x)'
  PROVE  IInv'
<1>1. w # Nil /\ ThreadInv(t) /\ WorkerInv(w)
  BY ConstantsAssumption DEF IInv
<1>2. /\ \A v \in Workers, u \in Threads : (Switch(v, u)' <=> Switch(v, u)) /\ (User(v, u)' <=> User(v, u))
      /\ \A v \in Workers : (User(v, t) => v = w) /\ ~Switch(v, t)
      /\ \A v \in Workers : worker'[v] = worker[v]
  BY DEF Switch, User, Runs
<1>3. \A u \in Threads : u # t => thread[u].proc # w
  BY <1>1 DEF IInv, ThreadInv, Runs, User
<1>4. StillDone
  BY DEF StillDone, Inner, Pc, Threads
<1>5. Steps(w, t, t)
  BY <1>2, <1>3, <1>4 DEF Steps, Pc
<1>6. /\ \A v \in Workers : v # w => WorkerInv(v)' /\ (Empty(v) \/ ~Offers(v, t) => SchedInv(v)')
      /\ \A u \in Threads : u # t => ThreadInv(u)' /\ OpenInv(u)' /\ DepthInv(u)' /\ RoomInv(u)'
      /\ \A v \in Workers, u \in Threads : u # t /\ v # w =>
           SwitchInv(v, u)' /\ UserInv(v, u)' /\ ResumeInv(v, u)' /\ DequeInv(v, u)'
  BY <1>5, Frame
<1>7. \A v \in Workers : WorkerInv(v)' /\ SchedInv(v)'
  <2>1. \A v \in Workers : Empty(v) \/ ~Offers(v, t)
    BY <1>1, OffersFacts DEF Runs
  <2>2. WorkerInv(w)'
    BY <1>1, <1>2 DEF WorkerInv, Runs, User
  <2>3. SchedInv(w)'
    BY <1>2 DEF SchedInv, Runs, User
  <2> QED
    BY <1>6, <2>1, <2>2, <2>3
<1>8. ThreadInv(t)'
  BY <1>1, <1>2 DEF ThreadInv, Pc, Runs
<1>9. /\ \A v \in Workers : SwitchInv(v, t)' /\ ResumeInv(v, t)'
      /\ \A u \in Threads : SwitchInv(w, u)' /\ ResumeInv(w, u)'
  <2>1. \A v \in Workers : SwitchInv(v, t)' /\ ResumeInv(v, t)'
    BY <1>2 DEF SwitchInv, ResumeInv
  <2>2. \A u \in Threads : ~Switch(w, u)'
    BY <1>2 DEF Runs, User, Switch
  <2> QED
    BY <2>1, <2>2 DEF SwitchInv, ResumeInv
<1>10. /\ \A v \in Workers : v # w => UserInv(v, t)' /\ DequeInv(v, t)'
       /\ \A u \in Threads : u # t => UserInv(w, u)' /\ DequeInv(w, u)'
  <2>1. \A v \in Workers : v # w => UserInv(v, t)' /\ DequeInv(v, t)'
    BY <1>2 DEF UserInv, DequeInv
  <2>2. \A u \in Threads : u # t => ~User(w, u)'
    BY <1>2 DEF Runs, User
  <2> QED
    BY <2>1, <2>2 DEF UserInv, DequeInv
<1> QED
  BY <1>6, <1>7, <1>8, <1>9, <1>10 DEF IInv

(* At slot p of w's deque is now task x, which no deque had.                *)
Puts(v, w, p, x) ==
  \A d \in queue'[v].lo .. Bot(queue'[v]) - 1 :
    \/ d \in Slots(v) /\ SlotOf(queue'[v], d) = Slot(v, d)
    \/ v = w /\ d = p /\ SlotOf(queue'[v], d) = x

(* After a push of a task that no deque had there is none twice.            *)
LEMMA OncePuts ==
  ASSUME IInv, NEW w, NEW p, NEW x, NEW v \in Workers, NEW y \in Workers,
         Puts(v, w, p, x), Puts(y, w, p, x),
         \A z \in Workers : \A e \in Slots(z) : ~SameTask(Slot(z, e), x)
  PROVE  OnceInv(v, y)'
<1>1. SUFFICES ASSUME NEW d \in Slots(v)', NEW e \in Slots(y)', SameTask(Slot(v, d), Slot(y, e))'
               PROVE  v = y /\ d = e
  BY DEF OnceInv
<1>2. /\ \/ d \in Slots(v) /\ Slot(v, d)' = Slot(v, d)
         \/ v = w /\ d = p /\ Slot(v, d)' = x
      /\ \/ e \in Slots(y) /\ Slot(y, e)' = Slot(y, e)
         \/ y = w /\ e = p /\ Slot(y, e)' = x
  BY DEF Puts, Slots, Lo, Hi, Slot
<1>3. OnceInv(v, y)
  BY DEF IInv
<1>4. Slot(v, d)'.kind = Slot(y, e)'.kind /\ Slot(v, d)'.id = Slot(y, e)'.id
  BY <1>1 DEF SameTask
<1> QED
  BY <1>2, <1>3, <1>4 DEF OnceInv, SameTask

(* After a push no task of the deque is started.                            *)
LEMMA TaskPuts ==
  ASSUME IInv, NEW w \in Workers, NEW p, NEW x, NEW v \in Workers, Puts(v, w, p, x),
         \A f \in Forks : Unstarted(f) => Unstarted(f)',
         \A t \in Threads : Parked(t) => Parked(t)',
         x.kind = "NewThread" => x.id \in Forks /\ \A f \in Forks : f = x.id => Unstarted(f)',
         x.kind = "Continuation" => x.id \in Threads /\ \A t \in Threads : t = x.id => Parked(t)'
  PROVE  TaskInv(v)'
<1>1. ASSUME NEW d \in Slots(v)'
      PROVE  \/ d \in Slots(v) /\ Slot(v, d)' = Slot(v, d) /\ Slot(v, d) \in Tasks
             \/ Slot(v, d)' = x
  BY DequeFacts DEF Puts, Slots, Lo, Hi, Slot, IInv, Types
<1>2. ASSUME NEW d \in Slots(v)', (Slot(v, d).kind = "NewThread")'
      PROVE  (Slot(v, d).id \in Forks /\ Unstarted(Slot(v, d).id))'
  <2>1. PICK f \in Forks : f = Slot(v, d)'.id /\ Unstarted(f)'
    BY <1>1, <1>2 DEF IInv, TaskInv
  <2> QED
    BY <2>1 DEF Unstarted, Born, Spawning, Pc, Top, Open
<1>3. ASSUME NEW d \in Slots(v)', (Slot(v, d).kind = "Continuation")'
      PROVE  Parked(Slot(v, d).id)'
  <2>1. PICK t \in Threads : t = Slot(v, d)'.id /\ Parked(t)'
    BY <1>1, <1>3 DEF IInv, TaskInv, Tasks
  <2> QED
    BY <2>1 DEF Parked, Pc, Switch
<1> QED
  BY <1>2, <1>3 DEF TaskInv

(* A push brings no collection but the one it pushes.                       *)
LEMMA QueuedPuts ==
  ASSUME IInv, NEW w, NEW p, NEW x, NEW v \in Workers, Puts(v, w, p, x), NEW f, Queued(v, f)'
  PROVE  Queued(v, f) \/ (v = w /\ x.kind = "GCTask" /\ x.id = f)
<1>1. PICK d \in Slots(v)' : (Slot(v, d).kind = "GCTask" /\ Slot(v, d).id = f)'
  BY DEF Queued
<1>2. \/ d \in Slots(v) /\ Slot(v, d)' = Slot(v, d)
      \/ v = w /\ Slot(v, d)' = x
  BY DEF Puts, Slots, Lo, Hi, Slot
<1> QED
  BY <1>1, <1>2 DEF Queued

(* A push of x on w's deque.                                                *)
LEMMA PushFacts ==
  ASSUME Types, NEW w \in Workers, NEW x \in Tasks, ~IsFull(queue[w]),
         queue' = [queue EXCEPT ![w] = PushBot(@, x)]
  PROVE  /\ queue' \in [Workers -> Deques] /\ \A v \in Workers : Hi(v)' <= Capacity
         /\ \A v \in Workers : v # w => queue'[v] = queue[v]
         /\ Lo(w)' = Lo(w) /\ Hi(w)' = Hi(w) + 1 /\ Hi(w) < Capacity
         /\ Lo(w) \in Nat /\ Hi(w) \in Nat /\ Lo(w) <= Hi(w)
         /\ Hi(w) \in Slots(w)' /\ SlotOf(queue'[w], Hi(w)) = x
         /\ \A d \in Slots(w)' : d = Hi(w) \/ (d \in Slots(w) /\ SlotOf(queue'[w], d) = Slot(w, d))
         /\ \A v \in Workers : Puts(v, w, Hi(w), x)
<1>1. /\ queue[w] \in Deques /\ Lo(w) \in Nat /\ Hi(w) \in Nat /\ Lo(w) <= Hi(w)
      /\ queue'[w] = PushBot(queue[w], x)
      /\ \A v \in Workers : v # w => queue'[v] = queue[v]
  BY DequeFacts DEF Types, Lo, Hi
<1>2. /\ queue'[w] \in Deques /\ Lo(w)' = Lo(w) /\ Hi(w)' = Hi(w) + 1
      /\ SlotOf(queue'[w], Hi(w)) = x
      /\ \A d \in Slots(w) : SlotOf(queue'[w], d) = Slot(w, d)
  BY <1>1, PushBotFacts DEF Lo, Hi, Slots, Slot
<1>3. Hi(w) < Capacity
  BY <1>1, ConstantsAssumption DEF IsFull, Hi
<1>4. \A d \in Slots(w)' : d = Hi(w) \/ (d \in Slots(w) /\ SlotOf(queue'[w], d) = Slot(w, d))
  <2>1. \A d \in Slots(w)' : d = Hi(w) \/ d \in Slots(w)
    BY <1>1, <1>2 DEF Slots
  <2> QED
    BY <1>2, <2>1
<1>5. Hi(w) \in Slots(w)'
  BY <1>1, <1>2 DEF Slots
<1>6. \A v \in Workers : Hi(v)' <= Capacity
  <2>1. \A v \in Workers : v # w => Hi(v)' = Hi(v)
    BY <1>1 DEF Hi
  <2>2. Hi(w) + 1 <= Capacity
    BY <1>1, <1>3, ConstantsAssumption
  <2> QED
    BY <1>2, <2>1, <2>2 DEF Types
<1>7. ASSUME NEW v \in Workers PROVE Puts(v, w, Hi(w), x)
  <2>1. CASE v = w
    BY <1>2, <1>4, <2>1 DEF Puts, Slots, Lo, Hi
  <2>2. CASE v # w
    BY <1>1, <2>2 DEF Puts, Slots, Lo, Hi, Slot
  <2> QED
    BY <2>1, <2>2
<1>8. queue' \in [Workers -> Deques]
  BY <1>1, <1>2 DEF Types
<1> QED
  BY <1>1, <1>2, <1>3, <1>4, <1>5, <1>6, <1>7, <1>8

(* The program ends, or a worker finds nothing to steal.                    *)
LEMMA StutterKeeps ==
  ASSUME IInv, UNCHANGED <<queue, worker, gcTask, thread, join, gcRuns>>, status' \in Statuses
  PROVE  IInv'
<1>1. Types'
  BY DEF IInv, Types, Hi
<1>2. /\ \A w \in Workers : WorkerInv(w)' /\ TaskInv(w)'
      /\ \A t \in Threads : ThreadInv(t)'
  BY DEF IInv, WorkerInv, TaskInv, ThreadInv, Unstarted, Born, Spawning, Parked, Pc, Top, Open,
         Slots, Slot, Lo, Hi, User, Switch
<1>3. \A t \in Threads : Stays(t)
  BY DEF Stays, Kept, StillBorn
<1>4. \A t \in Threads : OpenInv(t)' /\ DepthInv(t)' /\ RoomInv(t)'
  BY <1>3, ThreadFrame
<1>5. StillDone
  BY DEF StillDone
<1>6. \A w \in Workers, t \in Threads : UserInv(w, t)' /\ ResumeInv(w, t)' /\ DequeInv(w, t)'
  BY <1>3, <1>5, WorkFrame DEF SameWorker
<1>7. \A w \in Workers : SchedInv(w)'
  BY <1>3, SchedFrame DEF SameWorker
<1>8. \A w \in Workers, t \in Threads : SwitchInv(w, t)'
  BY <1>5, SwitchFrame DEF Switch
<1>9. \A v \in Workers : Shrinks(v)
  BY SameShrinks
<1>10. \A f \in Forks : TokenInv(f)'
  BY <1>9, TokenFrame, QueuedStays
<1>11. \A f \in Forks : ForkInv(f)'
  <2>1. ASSUME NEW f \in Forks, join[f].how = "forked"
        PROVE  IsOpen(f)' /\ (Spawning(f)' <=> Spawning(f)) /\ (LeftDone(f)' <=> LeftDone(f))
    BY <2>1 DEF Spawning, LeftDone, IsOpen, Opened, Top, Open, Pc, IInv, ForkInv
  <2> QED
    BY <2>1, ForkStays DEF IInv, Alike
<1>12. \A w, v \in Workers : OnceInv(w, v)'
  BY <1>9, OnceStays DEF IInv
<1> QED
  BY <1>1, <1>2, <1>4, <1>6, <1>7, <1>8, <1>10, <1>11, <1>12 DEF IInv

(* Thread t opens fork f, with a collection or without.                     *)
LEMMA SpawnStep ==
  ASSUME IInv, NEW w \in Workers, NEW t \in Threads, Runs(w, t), Pc(t) = "run",
         NEW f \in Forks, join[f].how = "none", UNCHANGED <<worker, gcTask, gcRuns, status>>,
         NEW e \in {0, 1}, NEW b \in BOOLEAN, b <=> e = 1,
         Level(t) + e < Capacity \/ ~RoomForBoth, Level(t) + e <= Capacity,
         join' = [join EXCEPT ![f] =
           [join[f] EXCEPT !.left = t, !.depth = Level(t) + e, !.gc = b, !.how = "forked"]],
         thread' = [thread EXCEPT ![t] =
           [thread[t] EXCEPT !.pc = "spawn", !.depth = Level(t) + e, !.open = Append(@, f)]],
         e = 0 => UNCHANGED queue,
         e = 1 => ~IsFull(queue[w]) /\ queue' = [queue EXCEPT ![w] = PushBot(@, GCTask(f))]
  PROVE  IInv'
<1>1. /\ Types /\ OpenInv(t) /\ DepthInv(t) /\ DequeInv(w, t) /\ ForkInv(f) /\ TokenInv(f)
      /\ w # Nil /\ Capacity \in Nat /\ f # Root /\ User(w, t)
  BY ConstantsAssumption DEF IInv, Threads, Runs
<1>2. /\ thread[f].pc = "unborn" /\ join[f].right = Nil /\ t # f /\ f \in Threads
      /\ \A u \in Threads : \A i \in Opened(u) : Open(u)[i] # f
  <2>1. thread[f].pc = "unborn" /\ join[f].right = Nil
    BY <1>1 DEF ForkInv, Born
  <2>2. \A u \in Threads : \A i \in Opened(u) : Open(u)[i] # f
    BY <1>1 DEF IInv, OpenInv
  <2> QED
    BY <2>1, <2>2 DEF Pc, Threads
<1>3. PICK n \in Nat : n = Len(Open(t))
  BY <1>1, OpenFacts
<1>4. PICK l \in Nat : l = Level(t)
  BY <1>1, OpenFacts
<1>5. /\ join' \in [Forks -> Joinpoints]
      /\ \A g \in Forks : g # f => join'[g] = join[g] /\ Kept(g)
      /\ join'[f].left = t /\ join'[f].depth = l + e /\ (join'[f].gc <=> e = 1)
      /\ join'[f].how = "forked" /\ join'[f].right = Nil
  <2>1. join \in [Forks -> Joinpoints] /\ join[f] \in Joinpoints
    BY <1>1 DEF Types
  <2>2. join'[f] = [join[f] EXCEPT !.left = t, !.depth = l + e, !.gc = b, !.how = "forked"]
    BY <1>4, <2>1
  <2>3. l + e \in 0 .. Capacity
    BY <1>1, <1>4
  <2>4. join'[f] \in Joinpoints
    BY <2>1, <2>2, <2>3 DEF Joinpoints
  <2>5. /\ join'[f].left = t /\ join'[f].depth = l + e /\ join'[f].gc = b
        /\ join'[f].how = "forked" /\ join'[f].right = Nil
    BY <1>2, <2>1, <2>2 DEF Joinpoints
  <2>6. \A g \in Forks : g # f => join'[g] = join[g]
    BY <2>1
  <2> QED
    BY <2>1, <2>4, <2>5, <2>6 DEF Kept
<1>6. /\ thread' \in [Threads -> ThreadStates]
      /\ \A u \in Threads : u # t => thread'[u] = thread[u]
      /\ thread'[t].pc = "spawn" /\ thread'[t].depth = l + e
      /\ thread'[t].open = Append(Open(t), f) /\ thread'[t].proc = thread[t].proc
  <2>1. thread \in [Threads -> ThreadStates] /\ thread[t] \in ThreadStates
    BY <1>1 DEF Types
  <2>2. thread'[t] = [thread[t] EXCEPT !.pc = "spawn", !.depth = l + e, !.open = Append(Open(t), f)]
    BY <1>4, <2>1 DEF Open
  <2>3. l + e \in 0 .. Capacity
    BY <1>1, <1>4
  <2>4. Append(Open(t), f) \in Seq(Forks)
    BY <2>1 DEF ThreadStates, Open
  <2>5. thread'[t] \in ThreadStates
    BY <2>1, <2>2, <2>3, <2>4 DEF ThreadStates
  <2>6. /\ thread'[t].pc = "spawn" /\ thread'[t].depth = l + e
        /\ thread'[t].open = Append(Open(t), f) /\ thread'[t].proc = thread[t].proc
    BY <2>1, <2>2 DEF ThreadStates
  <2> QED
    BY <2>1, <2>5, <2>6
<1>7. /\ Open(t)' # <<>> /\ Len(Open(t))' = n + 1 /\ Opened(t)' = 1 .. n + 1 /\ Opened(t) = 1 .. n
      /\ Open(t)'[n + 1] = f
      /\ \A i \in 1 .. n : Open(t)'[i] = Open(t)[i] /\ Open(t)[i] \in Forks /\ Open(t)[i] # f
      /\ Top(t)' = f
  <2>1. Open(t) \in Seq(Forks) /\ Open(t)' = Append(Open(t), f)
    BY <1>1, <1>6 DEF Types, ThreadStates, Open
  <2>2. /\ Open(t)' # <<>> /\ Len(Open(t)') = n + 1
        /\ Open(t)'[n + 1] = f /\ \A i \in 1 .. n : Open(t)'[i] = Open(t)[i]
    BY <1>3, <2>1, AppendFacts
  <2>3. Opened(t)' = 1 .. n + 1 /\ Opened(t) = 1 .. n
    BY <1>3, <2>2 DEF Opened
  <2>4. \A i \in 1 .. n : Open(t)[i] \in Forks /\ Open(t)[i] # f
    BY <1>1, <1>2, <2>3, OpenFacts
  <2> QED
    BY <2>2, <2>3, <2>4 DEF Top
<1>8. /\ \A i \in 0 .. n : LevelAfter(t, i)' = LevelAfter(t, i)
      /\ LevelAfter(t, n) = l /\ Level(t)' = l + e + 1 /\ Extra(f)' = e
      /\ \A i \in 1 .. n : Extra(Open(t)[i])' = Extra(Open(t)[i])
  <2>1. Base(t)' = Base(t)
    BY <1>2, <1>5 DEF Base, Threads
  <2>2. ASSUME NEW i \in 0 .. n PROVE LevelAfter(t, i)' = LevelAfter(t, i)
    <3>1. i = 0 \/ i \in 1 .. n
      OBVIOUS
    <3>2. i \in 1 .. n => join'[Open(t)'[i]].depth = join[Open(t)[i]].depth
      BY <1>5, <1>7
    <3> QED
      BY <2>1, <3>1, <3>2 DEF LevelAfter
  <2>3. Level(t)' = join'[f].depth + 1
    BY <1>7 DEF Level, LevelAfter
  <2>4. Extra(f)' = e
    BY <1>5 DEF Extra
  <2>5. ASSUME NEW i \in 1 .. n PROVE Extra(Open(t)[i])' = Extra(Open(t)[i])
    <3>1. Open(t)[i] \in Forks /\ Open(t)'[i] = Open(t)[i] /\ join'[Open(t)[i]] = join[Open(t)[i]]
      BY <1>5, <1>7
    <3> QED
      BY <3>1 DEF Extra
  <2>6. Level(t)' = l + e + 1
    BY <1>5, <2>3
  <2>7. LevelAfter(t, n) = l
    BY <1>3, <1>4 DEF Level
  <2> QED
    BY <2>2, <2>4, <2>5, <2>6, <2>7
<1>9. OpenInv(t)'
  <2>1. ASSUME NEW i \in 1 .. n + 1
        PROVE  /\ join'[Open(t)'[i]].how = "forked" /\ join'[Open(t)'[i]].left = t
               /\ join'[Open(t)'[i]].depth = LevelAfter(t, i - 1)' + Extra(Open(t)[i])'
    <3>1. CASE i \in 1 .. n
      <4>1. /\ join'[Open(t)[i]] = join[Open(t)[i]] /\ Open(t)'[i] = Open(t)[i]
            /\ i - 1 \in 0 .. n
        BY <1>5, <1>7, <3>1
      <4> QED
        BY <1>1, <1>7, <1>8, <3>1, <4>1 DEF OpenInv
    <3>2. CASE i = n + 1
      <4>1. i - 1 = n /\ LevelAfter(t, n)' = l
        BY <1>8, <3>2
      <4>2. Extra(Open(t)[i])' = e
        BY <1>5, <1>7, <3>2 DEF Extra
      <4> QED
        BY <1>5, <1>7, <3>2, <4>1, <4>2
    <3> QED
      BY <3>1, <3>2
  <2>2. ASSUME NEW i \in 1 .. n + 1, NEW j \in 1 .. n + 1, i < j
        PROVE  join'[Open(t)'[i]].depth < join'[Open(t)'[j]].depth - Extra(Open(t)[j])'
    <3>1. i \in 1 .. n /\ join'[Open(t)'[i]].depth = join[Open(t)[i]].depth
      BY <1>5, <1>7, <2>2
    <3>2. CASE j \in 1 .. n
      <4>1. join'[Open(t)'[j]].depth = join[Open(t)[j]].depth
        BY <1>5, <1>7, <3>2
      <4> QED
        BY <1>1, <1>7, <1>8, <2>2, <3>1, <3>2, <4>1 DEF OpenInv
    <3>3. CASE j = n + 1
      <4>1. join'[Open(t)'[j]].depth = l + e /\ Extra(Open(t)[j])' = e
        BY <1>5, <1>7, <3>3 DEF Extra
      <4>2. join[Open(t)[i]].depth \in Nat /\ join[Open(t)[i]].depth < l
        BY <1>1, <1>4, <1>7, <3>1, OpenFacts
      <4> QED
        BY <3>1, <4>1, <4>2
    <3> QED
      BY <3>2, <3>3
  <2>3. Pc(t)' = "spawn"
    BY <1>6 DEF Pc
  <2> QED
    BY <1>7, <2>1, <2>2, <2>3 DEF OpenInv
<1>10. DepthInv(t)' /\ RoomInv(t)'
  <2>1. Pc(t)' = "spawn" /\ thread'[t].depth = Level(t)' - 1
    BY <1>6, <1>8 DEF Pc
  <2>2. RoomForBoth => thread'[t].depth < Capacity
    BY <1>4, <1>6
  <2> QED
    BY <2>1, <2>2 DEF DepthInv, RoomInv
<1>11. /\ Hi(w) = l /\ Holds(w, t) /\ Covers(w, t)
  BY <1>1, <1>4 DEF DequeInv
<1>12. /\ queue' \in [Workers -> Deques] /\ \A v \in Workers : Hi(v)' <= Capacity
       /\ \A v \in Workers : v # w => queue'[v] = queue[v]
       /\ Lo(w)' = Lo(w) /\ Hi(w)' = l + e /\ Lo(w) \in Nat
       /\ \A d \in Slots(w)' : \/ d \in Slots(w) /\ d < l /\ SlotOf(queue'[w], d) = Slot(w, d)
                               \/ e = 1 /\ d = l /\ SlotOf(queue'[w], d) = GCTask(f)
       /\ \A v \in Workers : Puts(v, w, Hi(w), GCTask(f)) /\ (e = 0 => Shrinks(v))
  <2>1. GCTask(f) \in Tasks
    BY <1>1, <1>2 DEF GCTask, Tasks
  <2>2. /\ \A d \in Slots(w) : d < l
        /\ Lo(w) \in Nat
    <3>1. Lo(w) \in Nat /\ Hi(w) \in Nat
      BY <1>1, DequeFacts DEF Types, Lo, Hi
    <3> QED
      BY <1>11, <3>1 DEF Slots
  <2>3. CASE e = 0
    <3>1. UNCHANGED queue
      BY <2>3
    <3>2. \A v \in Workers : Shrinks(v)
      BY <3>1, SameShrinks
    <3>3. \A v \in Workers : Puts(v, w, Hi(w), GCTask(f))
      BY <3>2 DEF Puts, Shrinks
    <3>4. Lo(w)' = Lo(w) /\ Hi(w)' = Hi(w) /\ Slots(w)' = Slots(w) /\ \A v \in Workers : Hi(v)' = Hi(v)
      BY <3>1 DEF Lo, Hi, Slots
    <3>5. \A d \in Slots(w) : SlotOf(queue'[w], d) = Slot(w, d)
      BY <3>1 DEF Slot
    <3>6. /\ queue' \in [Workers -> Deques] /\ \A v \in Workers : Hi(v)' <= Capacity
      BY <1>1, <3>1, <3>4 DEF Types
    <3>7. Hi(w)' = l + e
      BY <1>11, <2>3, <3>4
    <3> QED
      BY <2>2, <3>1, <3>2, <3>3, <3>4, <3>5, <3>6, <3>7
  <2>4. CASE e = 1
    <3>1. PICK x \in Tasks : x = GCTask(f)
      BY <2>1
    <3>2. ~IsFull(queue[w]) /\ queue' = [queue EXCEPT ![w] = PushBot(@, x)]
      BY <2>4, <3>1
    <3>3. /\ queue' \in [Workers -> Deques] /\ \A v \in Workers : Hi(v)' <= Capacity
          /\ \A v \in Workers : v # w => queue'[v] = queue[v]
          /\ Lo(w)' = Lo(w) /\ Hi(w)' = Hi(w) + 1
          /\ SlotOf(queue'[w], Hi(w)) = x
          /\ \A d \in Slots(w)' : d = Hi(w) \/ (d \in Slots(w) /\ SlotOf(queue'[w], d) = Slot(w, d))
          /\ \A v \in Workers : Puts(v, w, Hi(w), x)
      BY <1>1, <3>1, <3>2, PushFacts
    <3>4. \A d \in Slots(w)' :
            \/ d \in Slots(w) /\ d < l /\ SlotOf(queue'[w], d) = Slot(w, d)
            \/ e = 1 /\ d = l /\ SlotOf(queue'[w], d) = GCTask(f)
      BY <1>11, <2>2, <2>4, <3>1, <3>3
    <3> QED
      BY <1>11, <2>2, <2>4, <3>1, <3>3, <3>4
  <2> QED
    BY <2>3, <2>4
<1>13. Types'
  BY <1>1, <1>5, <1>6, <1>12 DEF Types
<1>14. DequeInv(w, t)'
  <2>1. Holds(w, t)'
    <3>1. ASSUME NEW d \in Slots(w)'
          PROVE  \E i \in Opened(t)' : PushedBy(Open(t)[i], Slot(w, d), d)'
      <4>1. Slot(w, d)' = SlotOf(queue'[w], d)
        BY DEF Slot
      <4>2. CASE d \in Slots(w) /\ d < l /\ SlotOf(queue'[w], d) = Slot(w, d)
        <5>1. PICK i \in 1 .. n : PushedBy(Open(t)[i], Slot(w, d), d)
          BY <1>4, <1>7, <1>11, <4>2 DEF Holds
        <5>2. /\ join'[Open(t)[i]] = join[Open(t)[i]] /\ Open(t)'[i] = Open(t)[i]
              /\ i \in 1 .. n + 1
          BY <1>5, <1>7
        <5>3. PushedBy(Open(t)[i], Slot(w, d), d)'
          BY <4>1, <4>2, <5>1, <5>2 DEF PushedBy, NewThread, GCTask
        <5> QED
          BY <1>7, <5>2, <5>3
      <4>3. CASE e = 1 /\ d = l /\ SlotOf(queue'[w], d) = GCTask(f)
        <5>1. join'[f].gc /\ d = join'[f].depth - 1
          BY <1>5, <4>3
        <5>2. n + 1 \in 1 .. n + 1 /\ Open(t)'[n + 1] = f
          BY <1>7
        <5>3. PushedBy(Open(t)[n + 1], Slot(w, d), d)'
          BY <4>1, <4>3, <5>1, <5>2 DEF PushedBy, GCTask
        <5> QED
          BY <1>7, <5>2, <5>3
      <4> QED
        BY <1>12, <4>2, <4>3
    <3> QED
      BY <3>1 DEF Holds
  <2>2. Covers(w, t)'
    <3>1. ASSUME NEW i \in 1 .. n + 1
          PROVE  (Born(Open(t)[i]) \/ Spawning(Open(t)[i]) \/ Lo(w) <= join[Open(t)[i]].depth)'
      <4>1. CASE i \in 1 .. n
        <5>1. PICK g \in Forks : g = Open(t)[i] /\ g = Open(t)'[i] /\ join'[g] = join[g]
          BY <1>5, <1>7, <4>1
        <5>2. Born(g) \/ Lo(w) <= join[g].depth
          <6>1. ~Spawning(g)
            BY <1>1, <1>7, <4>1, <5>1, OpenFacts DEF Spawning
          <6> QED
            BY <1>7, <1>11, <4>1, <5>1, <6>1 DEF Covers
        <5>3. Born(g) => thread'[g].pc # "unborn"
          BY <1>6 DEF Born, Threads
        <5> QED
          BY <1>12, <5>1, <5>2, <5>3 DEF Born
      <4>2. CASE i = n + 1
        <5>1. Open(t)'[i] = f /\ join'[f].left = t /\ Top(t)' = f /\ thread'[t].pc = "spawn"
          BY <1>5, <1>6, <1>7, <4>2
        <5>2. Spawning(Open(t)[i])'
          BY <5>1 DEF Spawning, Top, Open, Pc
        <5> QED
          BY <5>2
      <4> QED
        BY <4>1, <4>2
    <3> QED
      BY <1>7, <3>1 DEF Covers
  <2>3. Hi(w)' = Level(t)' - 1 /\ Pc(t)' = "spawn"
    BY <1>6, <1>8, <1>12 DEF Pc
  <2> QED
    BY <2>1, <2>2, <2>3 DEF DequeInv
<1>15. UserInv(w, t)'
  BY <1>6 DEF UserInv, Pc
<1>16. \A u \in Threads : u # t => thread'[u] = thread[u] /\ (Stays(u) \/ thread[u].pc = "unborn")
  <2>1. ASSUME NEW u \in Threads, u # t, u # f PROVE Stays(u)
    <3>1. u # Root => join'[u].depth = join[u].depth
      BY <1>5, <2>1 DEF Threads
    <3>2. \A i \in Opened(u) : Open(u)[i] \in Forks
      BY <1>1 DEF Types, ThreadStates, Open, Opened
    <3>3. \A i \in Opened(u) : Kept(Open(u)[i])
      BY <1>2, <1>5, <3>2
    <3>4. \A g \in Forks : StillBorn(g)
      BY <1>6 DEF StillBorn, Threads
    <3> QED
      BY <1>6, <2>1, <3>1, <3>2, <3>3, <3>4 DEF Stays
  <2> QED
    BY <1>2, <1>6, <2>1
<1>17. ASSUME NEW g \in Forks, g # f, join[g].how = "forked"
       PROVE  IsOpen(g)' /\ (Spawning(g)' <=> Spawning(g)) /\ (LeftDone(g)' <=> LeftDone(g))
  <2>1. PICK u \in Threads : u = join[g].left /\ u = join'[g].left
    BY <1>5, <1>17 DEF IInv, ForkInv
  <2>2. PICK i \in Opened(u) : Open(u)[i] = g
    BY <1>17, <2>1 DEF IInv, ForkInv, IsOpen
  <2>3. CASE u # t
    <3>1. thread'[u] = thread[u]
      BY <1>6, <2>3
    <3> QED
      BY <2>1, <2>2, <3>1 DEF IsOpen, Spawning, LeftDone, Opened, Top, Open, Pc
  <2>4. CASE u = t
    <3>1. /\ thread'[t].pc = "spawn" /\ Top(t)' # g /\ Pc(t) = "run"
      BY <1>6, <1>7, <1>17
    <3>2. ~Spawning(g) /\ ~Spawning(g)' /\ ~LeftDone(g) /\ ~LeftDone(g)'
      BY <2>1, <2>4, <3>1 DEF Spawning, LeftDone, Top, Open, Pc
    <3>3. i \in 1 .. n + 1 /\ Open(t)'[i] = g
      BY <1>7, <2>2, <2>4
    <3>4. IsOpen(g)'
      BY <1>7, <2>1, <2>4, <3>3 DEF IsOpen, Opened, Open
    <3> QED
      BY <3>2, <3>4
  <2> QED
    BY <2>3, <2>4
<1>18. \A g \in Forks : Alike(g)
  BY <1>6 DEF Alike, Inner, Pc, Threads
<1>19. \A g \in Forks : ForkInv(g)'
  <2>1. \A g \in Forks : g # f => ForkInv(g)'
    BY <1>5, <1>17, <1>18, ForkStays DEF IInv
  <2>2. ForkInv(f)'
    <3>1. IsOpen(f)'
      <4>1. n + 1 \in 1 .. n + 1 /\ Open(t)'[n + 1] = f /\ join'[f].left = t
        BY <1>5, <1>7
      <4> QED
        BY <1>7, <4>1 DEF IsOpen, Opened, Open
    <3>2. thread'[f].pc = "unborn"
      BY <1>2, <1>6
    <3>3. Spawning(f)'
      BY <1>5, <1>6, <1>7 DEF Spawning, Top, Open, Pc
    <3> QED
      BY <1>5, <3>1, <3>2, <3>3 DEF ForkInv, Born, Pc
  <2> QED
    BY <2>1, <2>2
<1>20. \A v \in Workers : TaskInv(v)'
  <2>1. ASSUME NEW g \in Forks, Unstarted(g) PROVE Unstarted(g)'
    <3>1. g # f /\ join[g].how = "forked" /\ ~Spawning(g)' /\ thread[g].pc = "unborn"
      BY <1>17, <2>1 DEF Unstarted, Born, Pc
    <3>2. g # t
      BY <3>1 DEF Pc
    <3>3. thread'[g].pc = "unborn" /\ join'[g].how = "forked"
      BY <1>5, <1>6, <3>1, <3>2 DEF Threads
    <3> QED
      BY <3>1, <3>3 DEF Unstarted, Born, Pc
  <2>2. \A u \in Threads : Parked(u) => Parked(u)'
    <3>1. ~Parked(t)
      BY DEF Parked
    <3> QED
      BY <1>6, <3>1 DEF Parked, Pc, Switch
  <2>3. PICK x : x = GCTask(f)
    OBVIOUS
  <2>4. x.kind = "GCTask"
    BY <2>3 DEF GCTask
  <2> QED
    BY <1>12, <2>1, <2>2, <2>3, <2>4, TaskPuts
<1>21. \A v, y \in Workers : OnceInv(v, y)'
  <2>1. PICK x : x = GCTask(f)
    OBVIOUS
  <2>2. \A z \in Workers : \A d \in Slots(z) : ~SameTask(Slot(z, d), x)
    BY <1>1, <2>1 DEF SameTask, GCTask, TokenInv, Queued
  <2> QED
    BY <1>12, <2>1, <2>2, OncePuts
<1>22. \A g \in Forks : TokenInv(g)'
  <2>1. PICK x : x = GCTask(f)
    OBVIOUS
  <2>2. \A v \in Workers, g \in Forks : Queued(v, g)' => Queued(v, g) \/ (v = w /\ g = f)
    BY <1>12, <2>1, QueuedPuts DEF GCTask
  <2>3. \A g \in Forks : g # f => TokenInv(g)'
    BY <1>5, <2>2, TokenFrame
  <2>4. TokenInv(f)'
    <3>1. gcRuns'[f] = 0 /\ join'[f].how # "none"
      BY <1>1, <1>5 DEF TokenInv
    <3>2. \A v \in Workers : ~Boxed(v, f)' /\ ~Collects(v, f)'
      BY <1>1 DEF TokenInv, Boxed, Collects
    <3> QED
      BY <3>1, <3>2 DEF TokenInv
  <2> QED
    BY <2>3, <2>4
<1> QED
  BY <1>6, <1>9, <1>10, <1>12, <1>13, <1>14, <1>15, <1>16, <1>19, <1>20, <1>21, <1>22, RunStep DEF Inner

(* A spawn without a collection.                                            *)
LEMMA SpawnAloneKeeps ==
  ASSUME IInv, NEW w \in Workers, NEW f \in Forks, SpawnAlone(w, f)
  PROVE  IInv' /\ Lives
<1>1. PICK t \in Threads :
        /\ t = Current(w) /\ Pc(t) = "run" /\ Runs(w, t) /\ DepthInv(t)
  BY RunsFacts DEF SpawnAlone, CanSpawn
<1>2. /\ join[f].how = "none" /\ thread[t].depth = Level(t) /\ Level(t) \in Nat
      /\ Level(t) < Capacity /\ Capacity \in Nat
  BY <1>1, OpenFacts, ConstantsAssumption DEF SpawnAlone, CanSpawn, Depth, DepthInv, IInv
<1>3. ~join[f].gc /\ join \in [Forks -> Joinpoints]
  BY <1>2 DEF IInv, ForkInv, Types
<1>4. PICK e \in {0, 1}, b \in BOOLEAN : e = 0 /\ b = FALSE
  OBVIOUS
<1>5. join' = [join EXCEPT ![f] =
        [join[f] EXCEPT !.left = t, !.depth = Level(t) + e, !.gc = b, !.how = "forked"]]
  <2>1. join' = [join EXCEPT ![f] =
          [join[f] EXCEPT !.left = t, !.depth = Level(t), !.how = "forked"]]
    BY <1>1, <1>2 DEF SpawnAlone, Depth
  <2>2. [join[f] EXCEPT !.left = t, !.depth = Level(t), !.how = "forked"] =
        [join[f] EXCEPT !.left = t, !.depth = Level(t) + e, !.gc = b, !.how = "forked"]
    <3>1. join[f] \in Joinpoints /\ join[f].gc = b /\ Level(t) + e = Level(t)
      BY <1>2, <1>3, <1>4 DEF Joinpoints
    <3> QED
      BY <3>1 DEF Joinpoints
  <2> QED
    BY <2>1, <2>2
<1>6. thread' = [thread EXCEPT ![t] =
        [thread[t] EXCEPT !.pc = "spawn", !.depth = Level(t) + e, !.open = Append(@, f)]]
  <2>1. thread' = [thread EXCEPT ![t] = [thread[t] EXCEPT !.pc = "spawn", !.open = Append(@, f)]]
    BY <1>1 DEF SpawnAlone
  <2>2. [thread[t] EXCEPT !.pc = "spawn", !.open = Append(@, f)] =
        [thread[t] EXCEPT !.pc = "spawn", !.depth = Level(t) + e, !.open = Append(@, f)]
    <3>1. thread[t] \in ThreadStates /\ thread[t].depth = Level(t) + e
      BY <1>2, <1>4 DEF IInv, Types
    <3> QED
      BY <3>1 DEF ThreadStates
  <2> QED
    BY <2>1, <2>2
<1>7. /\ UNCHANGED <<queue, worker, gcTask, gcRuns, status>> /\ e # 1 /\ (b <=> e = 1)
      /\ Level(t) + e < Capacity /\ Level(t) + e <= Capacity
  BY <1>2, <1>4 DEF SpawnAlone
<1>8. e = 1 => ~IsFull(queue[w]) /\ queue' = [queue EXCEPT ![w] = PushBot(@, GCTask(f))]
  BY <1>7
<1>9. IInv'
  BY <1>1, <1>2, <1>5, <1>6, <1>7, <1>8, SpawnStep
<1> QED
  BY <1>7, <1>9 DEF Lives, NeverDies

(* A spawn with a collection, which is pushed first; there is room.         *)
LEMMA SpawnWithGCKeeps ==
  ASSUME IInv, NEW w \in Workers, NEW f \in Forks, SpawnWithGC(w, f)
  PROVE  IInv' /\ Lives
<1>1. PICK t \in Threads :
        /\ t = Current(w) /\ Pc(t) = "run" /\ Runs(w, t) /\ DepthInv(t) /\ DequeInv(w, t)
  BY RunsFacts DEF SpawnWithGC, CanSpawn
<1>2. /\ join[f].how = "none" /\ thread[t].depth = Level(t) /\ Level(t) \in Nat
      /\ Level(t) < Capacity /\ Capacity \in Nat /\ MaxCCDepth \in Nat /\ Level(t) <= MaxCCDepth
  BY <1>1, OpenFacts, ConstantsAssumption DEF SpawnWithGC, CanSpawn, Depth, DepthInv, IInv
<1>3. ~IsFull(queue[w])
  <2>1. Bot(queue[w]) = Level(t)
    BY <1>1 DEF DequeInv, Runs, Hi
  <2> QED
    BY <1>2, <2>1 DEF IsFull
<1>4. PICK e \in {0, 1}, b \in BOOLEAN : e = 1 /\ b = TRUE
  OBVIOUS
<1>5. join' = [join EXCEPT ![f] =
        [join[f] EXCEPT !.left = t, !.depth = Level(t) + e, !.gc = b, !.how = "forked"]]
  BY <1>1, <1>2, <1>3, <1>4 DEF SpawnWithGC, Depth
<1>6. thread' = [thread EXCEPT ![t] =
        [thread[t] EXCEPT !.pc = "spawn", !.depth = Level(t) + e, !.open = Append(@, f)]]
  BY <1>1, <1>2, <1>3, <1>4 DEF SpawnWithGC
<1>7. /\ UNCHANGED <<worker, gcTask, gcRuns, status>> /\ e # 0 /\ (b <=> e = 1)
      /\ queue' = [queue EXCEPT ![w] = PushBot(@, GCTask(f))]
  BY <1>3, <1>4 DEF SpawnWithGC
<1>8. (Level(t) + e < Capacity \/ ~RoomForBoth) /\ Level(t) + e <= Capacity
  BY <1>2, <1>4 DEF RoomForBoth
<1> QED
  BY <1>1, <1>2, <1>3, <1>5, <1>6, <1>7, <1>8, SpawnStep DEF Lives, NeverDies

(* The right side is pushed; there is room if there is for both.            *)
LEMMA DoSpawnKeeps ==
  ASSUME IInv, NEW w \in Workers, DoSpawn(w)
  PROVE  IInv' /\ Lives
<1>1. PICK t \in Threads :
        /\ t = Current(w) /\ Pc(t) = "spawn" /\ thread[t].pc = "spawn" /\ Runs(w, t)
        /\ DepthInv(t) /\ DequeInv(w, t) /\ OpenInv(t)
  BY RunsFacts DEF DoSpawn
<1>2. PICK f \in Forks :
        /\ f = TopFork(w) /\ f = Top(t) /\ join[f].how = "forked" /\ join[f].left = t
        /\ Level(t) = join[f].depth + 1 /\ join[f].depth \in Nat
        /\ ForkInv(f) /\ TokenInv(f) /\ Open(t) # <<>>
  BY <1>1, InnermostFacts DEF OpenInv
<1>3. /\ Types /\ Hi(w) = join[f].depth /\ thread[t].depth = join[f].depth /\ Capacity \in Nat
      /\ RoomInv(t) /\ Holds(w, t) /\ Covers(w, t) /\ User(w, t)
  BY <1>1, <1>2, ConstantsAssumption DEF IInv, DequeInv, DepthInv, Runs
<1>4. CASE IsFull(queue[w])
  <2>1. UNCHANGED <<queue, worker, gcTask, thread, join, gcRuns>>
        /\ status' = "exceeded max fork depth"
    BY <1>4 DEF DoSpawn, Die
  <2>2. ~RoomForBoth
    <3>1. RoomForBoth => thread[t].depth < Capacity
      BY <1>1, <1>3 DEF RoomInv
    <3>2. thread[t].depth >= Capacity
      BY <1>3, <1>4 DEF IsFull, Hi
    <3> QED
      BY <1>2, <1>3, <3>1, <3>2
  <2>3. Lives
    BY <2>2 DEF Lives
  <2>4. status' \in Statuses
    BY <2>1 DEF Statuses
  <2>5. IInv'
    BY <2>1, <2>4, StutterKeeps
  <2> QED
    BY <2>3, <2>5
<1>5. CASE ~IsFull(queue[w])
  <2>1. PICK x \in Tasks : x = NewThread(f)
    BY <1>3 DEF NewThread, Tasks, Types, Joinpoints, Threads
  <2>2. PICK d \in Nat : d = join[f].depth
    BY <1>2
  <2>3. /\ join' = [join EXCEPT ![f].incounter = 2]
        /\ queue' = [queue EXCEPT ![w] = PushBot(@, x)]
        /\ thread' = [thread EXCEPT ![t].pc = "run", ![t].depth = d + 1]
        /\ UNCHANGED <<worker, gcTask, gcRuns, status>>
    BY <1>1, <1>2, <1>3, <1>5, <2>1, <2>2 DEF DoSpawn
  <2>4. /\ queue' \in [Workers -> Deques] /\ \A v \in Workers : Hi(v)' <= Capacity
        /\ \A v \in Workers : v # w => queue'[v] = queue[v]
        /\ Lo(w)' = Lo(w) /\ Hi(w)' = d + 1 /\ d < Capacity
        /\ Lo(w) \in Nat /\ Lo(w) <= d
        /\ SlotOf(queue'[w], d) = x
        /\ \A i \in Slots(w)' : i = d \/ (i \in Slots(w) /\ SlotOf(queue'[w], i) = Slot(w, i))
        /\ \A v \in Workers : Puts(v, w, d, x)
    <3>1. Hi(w) = d
      BY <1>3, <2>2
    <3> QED
      BY <1>3, <1>5, <2>3, <3>1, PushFacts
  <2>5. /\ join' \in [Forks -> Joinpoints]
        /\ \A g \in Forks : Kept(g) /\ (g # f => join'[g] = join[g])
        /\ join'[f].incounter = 2 /\ join'[f].right = join[f].right
    BY <1>3, <2>3 DEF Types, Joinpoints, Kept
  <2>6. /\ thread' \in [Threads -> ThreadStates]
        /\ \A u \in Threads : u # t => thread'[u] = thread[u]
        /\ thread'[t].pc = "run" /\ thread'[t].depth = d + 1
        /\ thread'[t].open = thread[t].open /\ thread'[t].proc = thread[t].proc
    <3>1. thread \in [Threads -> ThreadStates] /\ thread[t] \in ThreadStates
      BY <1>3 DEF Types
    <3>2. d + 1 \in 0 .. Capacity
      BY <1>3, <2>4
    <3>3. thread'[t] = [thread[t] EXCEPT !.pc = "run", !.depth = d + 1]
      BY <2>3, <3>1
    <3>4. thread'[t] \in ThreadStates
      BY <3>1, <3>2, <3>3 DEF ThreadStates
    <3>5. /\ thread'[t].pc = "run" /\ thread'[t].depth = d + 1
          /\ thread'[t].open = thread[t].open /\ thread'[t].proc = thread[t].proc
      BY <3>1, <3>3 DEF ThreadStates
    <3> QED
      BY <2>3, <3>1, <3>4, <3>5
  <2>7. \A u \in Threads : Stays(u)
    <3>1. \A u \in Threads : thread'[u].open = thread[u].open /\ StillBorn(u)
      BY <2>6 DEF StillBorn
    <3> QED
      BY <1>3, <2>5, <3>1, AllStay
  <2>8. /\ Open(t)' = Open(t) /\ Opened(t)' = Opened(t) /\ Level(t)' = Level(t)
        /\ Level(t) = d + 1
    BY <1>2, <1>3, <2>2, <2>7, LevelStays
  <2>9. Types'
    BY <1>3, <2>3, <2>4, <2>5, <2>6 DEF Types
  <2>10. OpenInv(t)' /\ DepthInv(t)' /\ RoomInv(t)' /\ UserInv(w, t)'
    <3>1. OpenInv(t)'
      BY <1>1, <1>2, <1>3, <2>6, <2>7, OpenStays
    <3> QED
      BY <2>6, <2>8, <3>1 DEF DepthInv, RoomInv, UserInv, Pc
  <2>11. Spawning(f) /\ thread[f].pc = "unborn" /\ join[f].right = Nil
    <3>1. Spawning(f)
      BY <1>1, <1>2 DEF Spawning
    <3> QED
      BY <1>2, <3>1 DEF ForkInv, Born, Pc
  <2>12. x.kind = "NewThread" /\ x.id = f /\ x.depth = d
    BY <2>1, <2>2 DEF NewThread
  <2>13. DequeInv(w, t)'
    <3>1. Holds(w, t)'
      <4>1. ASSUME NEW i \in Slots(w)'
            PROVE  \E j \in Opened(t) : PushedBy(Open(t)[j], Slot(w, i), i)'
        <5>1. Slot(w, i)' = SlotOf(queue'[w], i)
          BY DEF Slot
        <5>2. CASE i \in Slots(w) /\ SlotOf(queue'[w], i) = Slot(w, i)
          <6>1. i < Level(t)
            <7>1. Hi(w) \in Nat /\ Lo(w) \in Nat /\ Hi(w) = d
              BY <1>3, <2>2, <2>4
            <7> QED
              BY <2>8, <5>2, <7>1 DEF Slots
          <6>2. PICK j \in Opened(t) : PushedBy(Open(t)[j], Slot(w, i), i)
            BY <1>3, <5>2, <6>1 DEF Holds
          <6>3. Open(t)[j] \in Forks /\ Kept(Open(t)[j])
            BY <1>1, <1>3, <2>5, OpenFacts
          <6> QED
            BY <2>8, <5>1, <5>2, <6>2, <6>3 DEF PushedBy, NewThread, GCTask, Kept
        <5>3. CASE i = d
          <6>1. PICK j \in Opened(t) : Open(t)[j] = f
            BY <1>1, <1>2, <1>3, OpenFacts DEF Top
          <6>2. join'[f].depth = d
            BY <2>2, <2>5 DEF Kept
          <6>3. Slot(w, i)' = [kind |-> "NewThread", id |-> f, depth |-> d]
            BY <2>1, <2>2, <2>4, <5>1, <5>3 DEF NewThread
          <6> QED
            BY <2>8, <5>3, <6>1, <6>2, <6>3 DEF PushedBy, NewThread
        <5> QED
          BY <2>4, <5>2, <5>3
      <4> QED
        BY <2>8, <4>1 DEF Holds
    <3>2. Covers(w, t)'
      <4>1. ASSUME NEW i \in Opened(t)
            PROVE  Born(Open(t)[i])' \/ Lo(w)' <= join'[Open(t)[i]].depth
        <5>1. PICK g \in Forks : g = Open(t)[i] /\ join[g].left = t /\ join'[g].depth = join[g].depth
          BY <1>1, <1>3, <2>5, OpenFacts DEF Kept
        <5>2. g = f \/ ~Spawning(g)
          BY <1>2, <5>1 DEF Spawning
        <5>3. Born(g) => thread'[g].pc # "unborn"
          BY <2>6 DEF Born, Threads
        <5>4. g = f => Lo(w)' <= join'[g].depth
          BY <2>2, <2>4, <5>1
        <5>5. Born(g) \/ Spawning(g) \/ Lo(w) <= join[g].depth
          BY <1>3, <5>1 DEF Covers
        <5>6. thread'[g].pc # "unborn" \/ Lo(w)' <= join'[g].depth
          BY <2>4, <5>1, <5>2, <5>3, <5>4, <5>5
        <5> QED
          BY <2>8, <5>1, <5>6 DEF Born
      <4> QED
        BY <2>8, <4>1 DEF Covers
    <3>3. Hi(w)' = Level(t)' /\ Pc(t)' = "run"
      BY <2>4, <2>6, <2>8 DEF Pc
    <3> QED
      BY <3>1, <3>2, <3>3 DEF DequeInv
  <2>14. ASSUME NEW g \in Forks, join[g].how = "forked"
         PROVE  /\ IsOpen(g)' /\ (LeftDone(g)' <=> LeftDone(g)) /\ ~Spawning(f)'
                /\ g # f => (Spawning(g)' <=> Spawning(g))
    <3>1. PICK u \in Threads : u = join[g].left /\ u = join'[g].left
      BY <2>5, <2>14 DEF IInv, ForkInv, Kept
    <3>2. /\ u = t => ~LeftDone(g) /\ ~LeftDone(g)' /\ ~Spawning(g)' /\ (g # f => ~Spawning(g))
      BY <1>1, <1>2, <2>6, <3>1 DEF LeftDone, Spawning, Pc
    <3>3. u # t => (LeftDone(g)' <=> LeftDone(g)) /\ (Spawning(g)' <=> Spawning(g))
      BY <2>6, <3>1 DEF LeftDone, Spawning, Pc, Top, Open
    <3>4. IsOpen(g)'
      BY <2>5, <2>6, <2>14, LeftFrame
    <3>5. ~Spawning(f)'
      BY <1>2, <2>5, <2>6 DEF Spawning, Pc, Kept
    <3> QED
      BY <3>2, <3>3, <3>4, <3>5
  <2>15. \A g \in Forks : Alike(g)
    BY <1>1, <2>6 DEF Alike, Inner, Threads
  <2>16. \A g \in Forks : ForkInv(g)'
    <3>1. \A g \in Forks : g # f => ForkInv(g)'
      BY <2>5, <2>14, <2>15, ForkStays DEF IInv
    <3>2. ForkInv(f)'
      <4>1. thread'[f].pc = "unborn"
        BY <1>1, <2>6, <2>11 DEF Threads
      <4>2. ~LeftDone(f)' /\ IsOpen(f)' /\ ~Spawning(f)'
        BY <1>1, <1>2, <2>14 DEF LeftDone
      <4>3. ~RightHasDone(f)'
        BY <4>1 DEF RightHasDone, Pc
      <4> QED
        BY <1>2, <2>5, <2>11, <4>1, <4>2, <4>3 DEF ForkInv, Pc, Born, Kept
    <3> QED
      BY <3>1, <3>2
  <2>17. Unstarted(f)'
    <3>1. thread'[f].pc = "unborn"
      BY <1>1, <2>6, <2>11 DEF Threads
    <3> QED
      BY <1>2, <2>5, <2>14, <3>1 DEF Unstarted, Kept, Born, Pc
  <2>18. \A v \in Workers : TaskInv(v)'
    <3>1. ASSUME NEW g \in Forks, Unstarted(g) PROVE Unstarted(g)'
      <4>1. g # f /\ join[g].how = "forked" /\ thread[g].pc = "unborn" /\ ~Spawning(g)'
        BY <2>11, <2>14, <3>1 DEF Unstarted, Born, Pc
      <4>2. g # t
        BY <1>1, <4>1
      <4>3. thread'[g].pc = "unborn" /\ join'[g].how = "forked"
        BY <2>5, <2>6, <4>1, <4>2 DEF Kept, Threads
      <4> QED
        BY <4>1, <4>3 DEF Unstarted, Born, Pc
    <3>2. \A u \in Threads : Parked(u) => Parked(u)'
      <4>1. ~Parked(t)
        BY <1>1 DEF Parked
      <4> QED
        BY <2>3, <2>6, <4>1 DEF Parked, Pc, Switch
    <3>3. \A g \in Forks : g = x.id => Unstarted(g)'
      BY <2>12, <2>17
    <3> QED
      BY <2>4, <2>12, <3>1, <3>2, <3>3, TaskPuts
  <2>19. \A v, y \in Workers : OnceInv(v, y)'
    <3>1. \A z \in Workers : \A i \in Slots(z) : ~SameTask(Slot(z, i), x)
      BY <2>11, <2>12 DEF SameTask, IInv, TaskInv, Unstarted
    <3> QED
      BY <2>4, <3>1, OncePuts
  <2>20. \A g \in Forks : TokenInv(g)'
    <3>1. \A v \in Workers, g \in Forks : Queued(v, g)' => Queued(v, g)
      BY <2>4, <2>12, QueuedPuts
    <3> QED
      BY <2>3, <2>5, <3>1, TokenFrame DEF Kept
  <2>21. IInv'
    BY <1>1, <2>3, <2>4, <2>6, <2>7, <2>9, <2>10, <2>13, <2>16, <2>18, <2>19, <2>20, RunStep DEF Inner
  <2> QED
    BY <2>3, <2>21 DEF Lives, NeverDies
<1> QED
  BY <1>4, <1>5

-------------------------------------------------------------------------------
(* The innermost fork is closed *)

(* Its right side was not taken, and is not in a deque any more, or it has  *)
(* come to its end.                                                         *)
LEMMA JoinStep ==
  ASSUME IInv, NEW w \in Workers, NEW t \in Threads, Runs(w, t), Pc(t) \in {"run", "join"},
         NEW f \in Forks, Open(t) # <<>>, f = Top(t), Joined(t, f),
         UNCHANGED <<worker, gcTask, gcRuns, status>>,
         NEW h \in {"inlined", "dropped", "joined"}, join' = [join EXCEPT ![f].how = h],
         h # "joined" => Pc(f) = "unborn", h = "joined" => Pc(f) = "gone",
         queue' \in [Workers -> Deques], \A v \in Workers : v # w => queue'[v] = queue[v],
         Shrinks(w), Hi(w)' = join[f].depth,
         Lo(w)' = Lo(w) \/ \A i \in Opened(t) : Born(Open(t)[i]),
         \A v \in Workers : \A d \in Slots(v) :
           d \in Slots(v)' /\ Slot(v, d).kind # "GCTask" => Slot(v, d).id # f
  PROVE  IInv'
<1> DEFINE n == Len(Open(t))
           m == join[f].depth
           e == Extra(f)
<1>1. /\ Types /\ OpenInv(t) /\ DepthInv(t) /\ DequeInv(w, t) /\ User(w, t)
      /\ Holds(w, t) /\ Covers(w, t) /\ Open(t) \in Seq(Forks)
  BY DEF IInv, Runs, DequeInv, Types, ThreadStates, Open
<1>2. /\ n \in Nat /\ n >= 1 /\ n \in Opened(t) /\ Open(t)[n] = f /\ m \in Nat /\ Level(t) = m + 1
      /\ join[f].how = "forked" /\ join[f].left = t /\ join[f].gc \in BOOLEAN
      /\ e \in {0, 1} /\ (e = 1 <=> join[f].gc)
  <2>1. n \in Opened(t) /\ Open(t)[n] = f /\ Level(t) = m + 1
    BY <1>1, OpenFacts DEF Top
  <2>2. m \in Nat /\ join[f].how = "forked" /\ join[f].left = t
    BY <1>1, <2>1, OpenFacts
  <2>3. n \in Nat /\ n >= 1
    BY <1>1, <2>1 DEF Opened
  <2>4. join[f].gc \in BOOLEAN
    BY <1>1 DEF Types, Joinpoints
  <2> QED
    BY <2>1, <2>2, <2>3, <2>4 DEF Extra
<1>3. thread[t].depth = m + 1 /\ thread[t] \in ThreadStates /\ thread[t].open = Open(t)
  BY <1>1, <1>2 DEF DepthInv, Types, Open
<1>4. /\ m = LevelAfter(t, n - 1) + e
      /\ \A i \in 1 .. n - 1 :
           /\ Open(t)[i] \in Forks /\ Open(t)[i] # f
           /\ join[Open(t)[i]].depth \in Nat /\ join[Open(t)[i]].depth < m - e
  <2>1. m = LevelAfter(t, n - 1) + e
    BY <1>1, <1>2 DEF OpenInv
  <2>2. ASSUME NEW i \in 1 .. n - 1
        PROVE  /\ Open(t)[i] \in Forks /\ Open(t)[i] # f
               /\ join[Open(t)[i]].depth \in Nat /\ join[Open(t)[i]].depth < m - e
    <3>1. i \in Opened(t) /\ i < n /\ i # n
      BY <1>2 DEF Opened
    <3>2. Open(t)[i] \in Forks /\ Open(t)[i] # f /\ join[Open(t)[i]].depth \in Nat
      BY <1>1, <1>2, <3>1, OpenFacts
    <3>3. join[Open(t)[i]].depth < m - e
      BY <1>1, <1>2, <3>1 DEF OpenInv
    <3> QED
      BY <3>2, <3>3
  <2> QED
    BY <2>1, <2>2
<1>5. /\ join' \in [Forks -> Joinpoints] /\ \A g \in Forks : g # f => join'[g] = join[g]
      /\ join'[f].how = h
      /\ \A g \in Forks : /\ join'[g].left = join[g].left /\ join'[g].depth = join[g].depth
                          /\ join'[g].gc = join[g].gc
  <2>1. join \in [Forks -> Joinpoints] /\ join[f] \in Joinpoints
    BY <1>1 DEF Types
  <2>2. join'[f] = [join[f] EXCEPT !.how = h] /\ \A g \in Forks : g # f => join'[g] = join[g]
    BY <2>1
  <2>3. /\ join'[f] \in Joinpoints /\ join'[f].how = h
        /\ join'[f].left = join[f].left /\ join'[f].depth = join[f].depth
        /\ join'[f].gc = join[f].gc
    BY <2>1, <2>2 DEF Joinpoints
  <2> QED
    BY <2>1, <2>2, <2>3
<1>6. /\ thread'[t] \in ThreadStates /\ thread'[t].pc = (IF e = 1 THEN "syncGC" ELSE "run")
      /\ (e = 1 => thread'[t].gc = f) /\ thread'[t].depth = m
      /\ thread'[t].open = Front(Open(t)) /\ thread'[t].proc = thread[t].proc
  <2>1. PICK c \in {"syncGC", "run"} : c = IF e = 1 THEN "syncGC" ELSE "run"
    OBVIOUS
  <2>2. PICK x \in Forks \union {Nil} : x = IF e = 1 THEN f ELSE Nil
    OBVIOUS
  <2>3. PICK o \in Seq(Forks) : o = Front(Open(t))
    BY <1>1, FrontFacts
  <2>4. thread'[t] = [thread[t] EXCEPT !.pc = c, !.gc = x, !.depth = m, !.open = o]
    <3>1. thread' = [thread EXCEPT ![t] = [thread[t] EXCEPT !.pc = c, !.gc = x,
                                          !.depth = thread[t].depth - 1, !.open = Front(thread[t].open)]]
      BY <1>2, <2>1, <2>2 DEF Joined
    <3>2. thread[t].depth - 1 = m
      BY <1>2, <1>3
    <3> QED
      BY <1>1, <1>3, <2>3, <3>1, <3>2 DEF Types
  <2>5. m \in 0 .. Capacity
    BY <1>2, <1>3, ConstantsAssumption DEF ThreadStates
  <2>6. thread'[t] \in ThreadStates
    BY <1>3, <2>4, <2>5 DEF ThreadStates
  <2>7. /\ thread'[t].pc = c /\ thread'[t].gc = x /\ thread'[t].depth = m
        /\ thread'[t].open = o /\ thread'[t].proc = thread[t].proc
    BY <1>3, <2>4 DEF ThreadStates
  <2> QED
    BY <2>1, <2>2, <2>3, <2>6, <2>7
<1>7. /\ thread' \in [Threads -> ThreadStates]
      /\ \A u \in Threads : u # t => thread'[u] = thread[u]
  BY <1>1, <1>6 DEF Types, Joined
<1>8. /\ Open(t)' \in Seq(Forks) /\ Len(Open(t)') = n - 1 /\ Opened(t)' = 1 .. n - 1
      /\ \A i \in 1 .. n - 1 : Open(t)'[i] = Open(t)[i]
  BY <1>1, <1>6, FrontFacts DEF Open, Opened
<1>9. Level(t)' = m - e /\ m - e \in Nat /\ \A i \in 1 .. n - 1 : LevelAfter(t, i - 1)' = LevelAfter(t, i - 1)
  <2>1. Base(t)' = Base(t)
    BY <1>5 DEF Base, Threads
  <2>2. ASSUME NEW i \in 0 .. n - 1 PROVE LevelAfter(t, i)' = LevelAfter(t, i)
    <3>1. CASE i = 0
      BY <2>1, <3>1 DEF LevelAfter
    <3>2. CASE i # 0
      <4>1. i \in 1 .. n - 1
        BY <1>2, <3>2
      <4>2. Open(t)'[i] = Open(t)[i] /\ join'[Open(t)[i]].depth = join[Open(t)[i]].depth
        BY <1>4, <1>5, <1>8, <4>1
      <4> QED
        BY <3>2, <4>2 DEF LevelAfter
    <3> QED
      BY <3>1, <3>2
  <2>3. n - 1 \in 0 .. n - 1 /\ \A i \in 1 .. n - 1 : i - 1 \in 0 .. n - 1
    BY <1>2
  <2>4. LevelAfter(t, n - 1) \in Nat
    <3>1. n - 1 = 0 \/ n - 1 \in 1 .. n - 1
      <4>1. PICK k \in Nat : k = n /\ k >= 1
        BY <1>2
      <4>2. k - 1 = 0 \/ k - 1 \in 1 .. k - 1
        BY <4>1
      <4> QED
        BY <4>1, <4>2
    <3> QED
      BY <1>1, <1>4, <3>1, OpenFacts DEF LevelAfter
  <2>5. Level(t)' = LevelAfter(t, n - 1)
    BY <1>8, <2>2, <2>3 DEF Level
  <2> QED
    BY <1>2, <1>4, <2>2, <2>3, <2>4, <2>5
<1>10. Types'
  <2>1. \A v \in Workers : Hi(v)' <= Capacity
    <3>1. m <= Capacity
      BY <1>1 DEF Types, Joinpoints
    <3> QED
      BY <1>1, <3>1 DEF Types, Hi
  <2> QED
    BY <1>1, <1>5, <1>7, <2>1 DEF Types
<1>11. OpenInv(t)' /\ DepthInv(t)' /\ RoomInv(t)' /\ UserInv(w, t)'
  <2>1. ASSUME NEW i \in 1 .. n - 1
        PROVE  /\ join'[Open(t)'[i]].how = "forked" /\ join'[Open(t)'[i]].left = t
               /\ join'[Open(t)'[i]].depth = LevelAfter(t, i - 1)' + (Extra(Open(t)[i]))'
    <3>1. i \in Opened(t) /\ Open(t)'[i] = Open(t)[i] /\ join'[Open(t)[i]] = join[Open(t)[i]]
      BY <1>2, <1>4, <1>5, <1>8 DEF Opened
    <3> QED
      BY <1>1, <1>9, <3>1 DEF OpenInv, Extra
  <2>2. ASSUME NEW i \in 1 .. n - 1, NEW j \in 1 .. n - 1, i < j
        PROVE  join'[Open(t)'[i]].depth < join'[Open(t)'[j]].depth - (Extra(Open(t)[j]))'
    <3>1. /\ i \in Opened(t) /\ Open(t)'[i] = Open(t)[i] /\ join'[Open(t)[i]] = join[Open(t)[i]]
          /\ j \in Opened(t) /\ Open(t)'[j] = Open(t)[j] /\ join'[Open(t)[j]] = join[Open(t)[j]]
      BY <1>2, <1>4, <1>5, <1>8 DEF Opened
    <3> QED
      BY <1>1, <2>2, <3>1 DEF OpenInv, Extra
  <2>3. OpenInv(t)'
    BY <1>6, <1>8, <2>1, <2>2 DEF OpenInv, Pc
  <2>4. e = 1 => m = Level(t)' + 1
    BY <1>2, <1>9
  <2>5. e # 1 => m = Level(t)'
    BY <1>2, <1>9
  <2>6. DepthInv(t)'
    BY <1>6, <2>4, <2>5 DEF DepthInv, Pc
  <2> QED
    BY <1>6, <2>3, <2>6 DEF RoomInv, UserInv, Pc
<1>12. ASSUME NEW d \in Slots(w)'
       PROVE  /\ d \in Slots(w) /\ Slot(w, d)' = Slot(w, d) /\ d \in Int /\ d < m
              /\ \/ e = 1 /\ d = m - 1 /\ Slot(w, d) = GCTask(f)
                 \/ \E i \in 1 .. n - 1 : PushedBy(Open(t)[i], Slot(w, d), d) /\ d < m - e
  <2>1. d \in Slots(w) /\ Slot(w, d)' = Slot(w, d)
    BY DEF Shrinks, Slots, Slot, Lo, Hi
  <2>2. Lo(w) \in Nat /\ Hi(w) \in Nat
    BY <1>1, DequeFacts DEF Types, Lo, Hi
  <2>3. d \in Int /\ d < m
    BY <1>2, <2>1, <2>2 DEF Slots
  <2>4. PICK i \in Opened(t) : PushedBy(Open(t)[i], Slot(w, d), d)
    BY <1>1, <1>2, <2>1, <2>3 DEF Holds
  <2>5. CASE i = n
    BY <1>2, <2>1, <2>3, <2>4, <2>5 DEF PushedBy
  <2>6. CASE i # n
    <3>1. i \in 1 .. n - 1
      BY <1>2, <2>4, <2>6 DEF Opened
    <3>2. d <= join[Open(t)[i]].depth
      BY <1>4, <2>3, <2>4, <3>1 DEF PushedBy
    <3>3. d < m - e
      BY <1>2, <1>4, <2>3, <3>1, <3>2
    <3> QED
      BY <2>1, <2>3, <2>4, <3>1, <3>3
  <2> QED
    BY <2>5, <2>6
<1>13. DequeInv(w, t)'
  <2>1. Holds(w, t)'
    <3>1. ASSUME NEW d \in Slots(w)', d < m - e
          PROVE  \E i \in Opened(t)' : PushedBy(Open(t)[i], Slot(w, d), d)'
      <4>1. d \in Int /\ Slot(w, d)' = Slot(w, d)
        BY <1>12
      <4>2. ~(e = 1 /\ d = m - 1)
        BY <1>2, <3>1, <4>1
      <4>3. PICK i \in 1 .. n - 1 : PushedBy(Open(t)[i], Slot(w, d), d)
        BY <1>12, <4>2
      <4>4. Open(t)'[i] = Open(t)[i] /\ join'[Open(t)[i]] = join[Open(t)[i]]
        BY <1>4, <1>5, <1>8
      <4>5. PushedBy(Open(t)[i], Slot(w, d), d)'
        BY <4>1, <4>3, <4>4 DEF PushedBy, NewThread, GCTask
      <4> QED
        BY <1>8, <4>5
    <3> QED
      BY <1>9, <3>1 DEF Holds
  <2>2. Covers(w, t)'
    <3>1. ASSUME NEW i \in 1 .. n - 1
          PROVE  (Born(Open(t)[i]) \/ Spawning(Open(t)[i]) \/ Lo(w) <= join[Open(t)[i]].depth)'
      <4>1. PICK g \in Forks : g = Open(t)[i] /\ g = Open(t)'[i] /\ g # f /\ join'[g] = join[g]
        BY <1>4, <1>5, <1>8
      <4>2. i \in Opened(t)
        BY <1>2 DEF Opened
      <4>3. ~Spawning(g)
        <5>1. join[Open(t)[i]].left = t
          BY <1>1, <4>2, OpenFacts
        <5> QED
          BY <4>1, <5>1 DEF Spawning
      <4>4. Born(g) \/ Lo(w) <= join[g].depth
        BY <1>1, <4>1, <4>2, <4>3 DEF Covers
      <4>5. Born(g) => thread'[g].pc # "unborn"
        BY <1>6, <1>7 DEF Born, Threads
      <4>6. Born(g) \/ Lo(w)' <= join[g].depth
        BY <4>1, <4>2, <4>4
      <4> QED
        BY <4>1, <4>5, <4>6 DEF Born
    <3> QED
      BY <1>8, <3>1 DEF Covers
  <2>3. e = 1 /\ ~Empty(w)' => Slot(w, Hi(w) - 1)' = GCTask(f)'
    <3>1. SUFFICES ASSUME e = 1, ~Empty(w)' PROVE Slot(w, Hi(w) - 1)' = GCTask(f)'
      OBVIOUS
    <3>2. m - 1 \in Slots(w)'
      <4>1. queue'[w] \in Deques /\ Lo(w)' \in Nat /\ Lo(w)' <= Hi(w)'
        BY DequeFacts DEF Lo, Hi
      <4> QED
        BY <1>2, <3>1, <4>1 DEF Slots, Empty
    <3>3. ~(m - 1 < m - e)
      BY <1>2, <3>1
    <3>4. Slot(w, m - 1)' = GCTask(f)
      BY <1>12, <3>2, <3>3
    <3> QED
      BY <3>4 DEF GCTask, Slot
  <2>4. /\ e = 1 => Hi(w)' = Level(t)' + 1
        /\ e # 1 => Hi(w)' = Level(t)'
    BY <1>2, <1>9
  <2>5. Pc(t)' = (IF e = 1 THEN "syncGC" ELSE "run") /\ (e = 1 => thread'[t].gc = f)
    BY <1>6 DEF Pc
  <2> QED
    BY <2>1, <2>2, <2>3, <2>4, <2>5 DEF DequeInv, GCTask
<1>14. ASSUME NEW u \in Threads, u # t PROVE Stays(u)
  <2>1. ASSUME NEW i \in Opened(u) PROVE Open(u)[i] \in Forks /\ Open(u)[i] # f
    <3>1. OpenInv(u)
      BY DEF IInv
    <3> QED
      BY <1>1, <1>2, <1>14, <2>1, <3>1, OpenFacts
  <2>2. \A g \in Forks : StillBorn(g)
    BY <1>6, <1>7 DEF StillBorn, Threads
  <2>3. \A g \in Forks : g # f => Kept(g)
    BY <1>5 DEF Kept
  <2> QED
    BY <1>5, <1>7, <1>14, <2>1, <2>2, <2>3 DEF Stays, Threads
<1>15. f # t /\ thread'[f] = thread[f]
  BY <1>7 DEF Pc, Threads
<1>16. ASSUME NEW g \in Forks, g # f, join[g].how = "forked"
       PROVE  /\ IsOpen(g)' /\ (LeftDone(g)' <=> LeftDone(g))
              /\ (Spawning(g)' <=> Spawning(g))
  <2>1. PICK u \in Threads : u = join[g].left /\ u = join'[g].left
    BY <1>5, <1>16 DEF IInv, ForkInv
  <2>2. PICK i \in Opened(u) : Open(u)[i] = g
    BY <1>16, <2>1 DEF IInv, ForkInv, IsOpen
  <2>3. CASE u # t
    <3>1. thread'[u] = thread[u]
      BY <1>7, <2>3
    <3> QED
      BY <2>1, <2>2, <3>1 DEF IsOpen, Spawning, LeftDone, Opened, Top, Open, Pc
  <2>4. CASE u = t
    <3>1. i \in 1 .. n - 1
      BY <1>2, <1>16, <2>2, <2>4 DEF Opened
    <3>2. IsOpen(g)'
      BY <1>8, <2>1, <2>2, <2>4, <3>1 DEF IsOpen
    <3>3. ~LeftDone(g) /\ ~Spawning(g)
      BY <1>16, <2>1, <2>4 DEF LeftDone, Spawning
    <3>4. ~LeftDone(g)' /\ ~Spawning(g)'
      BY <1>6, <2>1, <2>4 DEF LeftDone, Spawning, Pc
    <3> QED
      BY <3>2, <3>3, <3>4
  <2> QED
    BY <2>3, <2>4
<1>17. \A g \in Forks : ForkInv(g)'
  <2>1. \A g \in Forks : Alike(g)
    BY <1>6, <1>7 DEF Alike, Inner, Pc, Threads
  <2>2. \A g \in Forks : g # f => ForkInv(g)'
    BY <1>5, <1>16, <2>1, ForkStays DEF IInv
  <2>3. ForkInv(f)'
    BY <1>5, <1>15 DEF ForkInv, Born, Pc
  <2> QED
    BY <2>2, <2>3
<1>18. \A v \in Workers : Shrinks(v)
  BY SameShrinks
<1>19. \A v \in Workers : TaskInv(v)'
  <2>1. ASSUME NEW g \in Forks, Unstarted(g), g # f PROVE Unstarted(g)'
    <3>1. join[g].how = "forked" /\ thread[g].pc = "unborn" /\ ~Spawning(g)'
      BY <1>16, <2>1 DEF Unstarted, Born, Pc
    <3>2. g # t
      BY <3>1 DEF Pc
    <3>3. thread'[g].pc = "unborn" /\ join'[g].how = "forked"
      BY <1>5, <1>7, <2>1, <3>1, <3>2 DEF Threads
    <3> QED
      BY <3>1, <3>3 DEF Unstarted, Born, Pc
  <2>2. \A u \in Threads : Parked(u) => Parked(u)'
    <3>1. ~Parked(t)
      BY DEF Parked
    <3> QED
      BY <1>7, <3>1 DEF Parked, Pc, Switch
  <2>3. ASSUME NEW v \in Workers PROVE TaskInv(v)'
    <3>1. \A d \in Slots(v) : SlotOf(queue'[v], d).kind # "GCTask" =>
            d \notin Slots(v)' \/ Slot(v, d).id # f
      BY <1>18 DEF Shrinks, Slots, Lo, Hi, Slot
    <3> QED
      BY <1>18, <2>1, <2>2, <3>1, TaskFrame
  <2> QED
    BY <2>3
<1>20. \A v, x \in Workers : OnceInv(v, x)'
  BY <1>18, OnceStays DEF IInv
<1>21. \A g \in Forks : TokenInv(g)'
  BY <1>5, <1>18, QueuedStays, TokenFrame
<1>22. thread'[t].pc \in {"run", "spawn", "syncGC", "offered"} /\ Pc(t) \in Inner
  BY <1>6 DEF Inner
<1> QED
  BY <1>6, <1>7, <1>10, <1>11, <1>13, <1>14, <1>17, <1>19, <1>20, <1>21, <1>22, RunStep

(* With all its forks open and its deque not empty, what a thread's worker  *)
(* has on top is the right side of the innermost.                           *)
LEMMA TopSlot ==
  ASSUME IInv, NEW w \in Workers, NEW t \in Threads, Holds(w, t), Hi(w) = Level(t), ~Empty(w),
         Open(t) # <<>>, NEW f \in Forks, f = Top(t)
  PROVE  /\ Level(t) - 1 \in Slots(w) /\ Level(t) - 1 = join[f].depth
         /\ Slot(w, join[f].depth) = NewThread(f)
         /\ Unstarted(f)
<1> DEFINE n == Len(Open(t))
           m == join[f].depth
<1>1. /\ Types /\ OpenInv(t) /\ TaskInv(w) /\ n \in Nat /\ n \in Opened(t) /\ Open(t)[n] = f
      /\ m \in Nat /\ Level(t) = m + 1
  <2>1. Types /\ OpenInv(t) /\ TaskInv(w)
    BY DEF IInv
  <2>2. n \in Nat /\ n \in Opened(t) /\ Open(t)[n] = f /\ m \in Nat /\ Level(t) = m + 1
    BY <2>1, OpenFacts DEF Top
  <2> QED
    BY <2>1, <2>2
<1>2. m \in Slots(w) /\ m < Level(t)
  <2>1. Lo(w) \in Nat /\ Hi(w) \in Nat /\ Lo(w) <= Hi(w)
    BY <1>1, DequeFacts DEF Types, Lo, Hi
  <2> QED
    BY <1>1, <2>1 DEF Slots, Empty
<1>3. PICK i \in Opened(t) : PushedBy(Open(t)[i], Slot(w, m), m)
  BY <1>2 DEF Holds
<1>4. i = n
  <2>1. SUFFICES ASSUME i # n PROVE FALSE
    OBVIOUS
  <2>2. i \in Nat /\ i < n
    BY <1>1, <2>1 DEF Opened
  <2>3. join[f].gc \in BOOLEAN /\ join[Open(t)[i]].depth \in Nat
    BY <1>1, OpenFacts DEF Types, Joinpoints
  <2>4. join[Open(t)[i]].depth < m - Extra(f)
    BY <1>1, <2>2 DEF OpenInv
  <2>5. Extra(f) \in {0, 1}
    BY <2>3 DEF Extra
  <2>6. m = join[Open(t)[i]].depth \/ m = join[Open(t)[i]].depth - 1
    BY <1>3 DEF PushedBy
  <2> QED
    BY <1>1, <2>3, <2>4, <2>5, <2>6
<1>5. Slot(w, m) = NewThread(f)
  BY <1>1, <1>3, <1>4 DEF PushedBy
<1>6. Unstarted(f)
  BY <1>1, <1>2, <1>5 DEF TaskInv, NewThread
<1> QED
  BY <1>1, <1>2, <1>5, <1>6

(* A pop from the deque of w.                                               *)
LEMMA PopFacts ==
  ASSUME Types, NEW w \in Workers, ~Empty(w), queue' = [queue EXCEPT ![w] = PopBot(@)]
  PROVE  /\ queue' \in [Workers -> Deques] /\ \A v \in Workers : v # w => queue'[v] = queue[v]
         /\ Lo(w)' = Lo(w) /\ Hi(w)' = Hi(w) - 1 /\ Hi(w) - 1 \notin Slots(w)'
         /\ Shrinks(w)
<1>1. queue[w] \in Deques /\ ~IsEmpty(queue[w]) /\ Lo(w) \in Nat /\ Hi(w) \in Nat
  BY DequeFacts DEF Types, Empty, Lo, Hi
<1>2. queue'[w] = PopBot(queue[w]) /\ \A v \in Workers : v # w => queue'[v] = queue[v]
  BY DEF Types
<1>3. /\ queue'[w] \in Deques /\ Lo(w)' = Lo(w) /\ Hi(w)' = Hi(w) - 1
      /\ \A d \in Lo(w) .. Hi(w) - 2 : SlotOf(queue'[w], d) = Slot(w, d)
  BY <1>1, <1>2, PopBotFacts DEF Lo, Hi, Slot
<1>4. Shrinks(w)
  BY <1>1, <1>3 DEF Shrinks, Slots, Lo, Hi
<1>5. Hi(w) - 1 \notin Slots(w)'
  BY <1>1, <1>3 DEF Slots
<1> QED
  BY <1>2, <1>3, <1>4, <1>5 DEF Types

(* What the left side pops is the right side of its innermost fork.         *)
LEMMA SyncPopKeeps ==
  ASSUME IInv, NEW w \in Workers, SyncPop(w)
  PROVE  IInv' /\ Lives
<1>1. CASE IsEmpty(queue[w])
  BY <1>1, SyncPopEmptyKeeps
<1>2. CASE ~IsEmpty(queue[w])
  <2>1. PICK t \in Threads :
          /\ t = Current(w) /\ Pc(t) = "run" /\ thread[t].pc = "run" /\ Runs(w, t)
          /\ DepthInv(t) /\ DequeInv(w, t)
    BY RunsFacts DEF SyncPop
  <2>2. PICK f \in Forks :
          /\ f = TopFork(w) /\ f = Top(t) /\ Level(t) = join[f].depth + 1
          /\ join[f].depth \in Nat /\ Open(t) # <<>>
    BY <2>1, InnermostFacts DEF SyncPop, Open
  <2>3. PICK h \in {"inlined", "dropped", "joined"} :
          h # "joined" /\ join' = [join EXCEPT ![f].how = h]
    BY <1>2, <2>2 DEF SyncPop
  <2>4. /\ queue' = [queue EXCEPT ![w] = PopBot(@)] /\ Joined(t, f)
        /\ UNCHANGED <<worker, gcTask, gcRuns, status>>
    BY <1>2, <2>1, <2>2 DEF SyncPop
  <2>5. /\ Types /\ Holds(w, t) /\ Hi(w) = Level(t) /\ ~Empty(w)
    BY <1>2, <2>1, DequeFacts DEF IInv, DequeInv, Runs, Types, Empty, Lo, Hi
  <2>6. /\ queue' \in [Workers -> Deques] /\ \A v \in Workers : v # w => queue'[v] = queue[v]
        /\ Lo(w)' = Lo(w) /\ Hi(w)' = Hi(w) - 1 /\ Hi(w) - 1 \notin Slots(w)'
        /\ Shrinks(w)
    BY <2>4, <2>5, PopFacts
  <2>7. PICK d \in Slots(w) :
          /\ d = join[f].depth /\ Slot(w, d) = NewThread(f) /\ d \notin Slots(w)'
          /\ Hi(w)' = d /\ Pc(f) = "unborn"
    <3>1. /\ Level(t) - 1 \in Slots(w) /\ Level(t) - 1 = join[f].depth
          /\ Slot(w, join[f].depth) = NewThread(f) /\ Unstarted(f)
      BY <2>2, <2>5, TopSlot
    <3>2. PICK d \in Slots(w) : d = Level(t) - 1 /\ d = join[f].depth
      BY <3>1
    <3>3. Slot(w, d) = NewThread(f) /\ d \notin Slots(w)' /\ Hi(w)' = d
      BY <2>5, <2>6, <3>1, <3>2
    <3>4. Pc(f) = "unborn"
      BY <3>1 DEF Unstarted, Born, Pc
    <3> QED
      BY <3>2, <3>3, <3>4
  <2>8. ASSUME NEW v \in Workers, NEW i \in Slots(v), i \in Slots(v)', Slot(v, i).kind # "GCTask"
        PROVE  Slot(v, i).id # f
    <3>1. Slot(w, d).kind = "NewThread" /\ Slot(w, d).id = f
      BY <2>7 DEF NewThread
    <3>2. Slot(v, i).id = f => v = w /\ i = d
      BY <2>8, <3>1, TakenOnce
    <3> QED
      BY <2>7, <2>8, <3>2
  <2>9. Hi(w)' = join[f].depth /\ Pc(t) \in {"run", "join"}
    BY <2>1, <2>7
  <2>10. \A v \in Workers : \A i \in Slots(v) :
           i \in Slots(v)' /\ Slot(v, i).kind # "GCTask" => Slot(v, i).id # f
    BY <2>8
  <2>11. Pc(f) = "unborn"
    BY <2>7
  <2>12. IInv'
    BY <2>1, <2>2, <2>3, <2>4, <2>6, <2>9, <2>10, <2>11, JoinStep
  <2> QED
    BY <2>4, <2>12 DEF Lives, NeverDies
<1> QED
  BY <1>1, <1>2

(* The last to come is the left side: the right side has left.              *)
LEMMA SyncJoinKeeps ==
  ASSUME IInv, NEW w \in Workers, SyncJoin(w)
  PROVE  IInv' /\ Lives
<1>1. PICK t \in Threads :
        /\ t = Current(w) /\ Pc(t) = "join" /\ thread[t].pc = "join" /\ Runs(w, t)
        /\ OpenInv(t) /\ DepthInv(t) /\ DequeInv(w, t) /\ UserInv(w, t)
  BY RunsFacts DEF SyncJoin
<1>2. PICK f \in Forks :
        /\ f = TopFork(w) /\ f = Top(t) /\ join[f].how = "forked" /\ ForkInv(f)
        /\ Level(t) = join[f].depth + 1 /\ join[f].depth \in Nat /\ Open(t) # <<>>
  BY <1>1, InnermostFacts DEF OpenInv
<1>3. /\ Types /\ Empty(w) /\ Hi(w) = Level(t) /\ thread[t].depth = Level(t)
      /\ \A i \in Opened(t) : Born(Open(t)[i])
      /\ Pc(f) \in {"leave", "gone"} /\ f # Nil /\ f \in Threads
  <2>1. Types /\ f # Nil /\ f \in Threads
    BY ConstantsAssumption DEF IInv, Threads
  <2> QED
    BY <1>1, <1>2, <2>1 DEF DequeInv, DepthInv, OpenInv, UserInv, Runs
<1>4. join[f].right = f /\ IsEmpty(queue[w]) /\ queue[w] \in Deques
  BY <1>2, <1>3, DequeFacts DEF ForkInv, Types, Empty, Lo, Hi
<1>5. /\ IsFree(f)
      /\ queue' = [queue EXCEPT ![w] = AtDepth(Depth(w) - 1)]
      /\ Joined(t, f) /\ join' = [join EXCEPT ![f].how = "joined"]
      /\ UNCHANGED <<worker, gcTask, gcRuns, status>>
  BY <1>1, <1>2, <1>3, <1>4 DEF SyncJoin
<1>6. Pc(f) = "gone"
  <2>1. ThreadInv(f) /\ thread[f].proc = Nil
    BY <1>3, <1>5 DEF IInv, IsFree
  <2> QED
    BY <1>3, <2>1 DEF ThreadInv
<1>7. PICK d \in 0 .. Capacity : d = join[f].depth
  BY <1>3 DEF Types, Joinpoints
<1>8. /\ queue'[w] = AtDepth(d) /\ \A v \in Workers : v # w => queue'[v] = queue[v]
  <2>1. Depth(w) - 1 = d
    BY <1>1, <1>2, <1>3, <1>7 DEF Depth
  <2> QED
    BY <1>3, <1>5, <2>1 DEF Types
<1>9. /\ queue'[w] \in Deques /\ queue'[w].lo = d /\ Bot(queue'[w]) = d
  BY <1>8, AtDepthFacts
<1>10. /\ queue' \in [Workers -> Deques] /\ Shrinks(w) /\ Hi(w)' = join[f].depth
  BY <1>3, <1>5, <1>7, <1>9, ConstantsAssumption DEF Types, Shrinks, Hi
<1>11. ASSUME NEW v \in Workers, NEW i \in Slots(v), Slot(v, i).kind # "GCTask"
       PROVE  Slot(v, i).id # f
  <2>1. Slot(v, i).kind \in {"NewThread", "Continuation"}
    BY <1>3, <1>11, DequeFacts DEF Slots, Slot, Lo, Hi, Types, Tasks
  <2>2. TaskInv(v)
    BY DEF IInv
  <2>3. CASE Slot(v, i).kind = "NewThread"
    BY <1>6, <2>2, <2>3 DEF TaskInv, Unstarted, Born, Pc
  <2>4. CASE Slot(v, i).kind = "Continuation"
    BY <1>6, <2>2, <2>4 DEF TaskInv, Parked
  <2> QED
    BY <2>1, <2>3, <2>4
<1>12. PICK h \in {"inlined", "dropped", "joined"} :
         h = "joined" /\ join' = [join EXCEPT ![f].how = h]
  BY <1>5
<1>13. IInv'
  <2>1. Pc(t) \in {"run", "join"}
    BY <1>1
  <2>2. \A v \in Workers : \A i \in Slots(v) :
          i \in Slots(v)' /\ Slot(v, i).kind # "GCTask" => Slot(v, i).id # f
    BY <1>11
  <2> QED
    BY <1>1, <1>2, <1>3, <1>5, <1>6, <1>8, <1>10, <1>12, <2>1, <2>2, JoinStep
<1> QED
  BY <1>5, <1>13 DEF Lives, NeverDies

-------------------------------------------------------------------------------
(* The collection after a join *)

(* Of a step in which only thread t changes, and keeps its forks open, and  *)
(* is before and after it neither at a spawn nor at the end of its forks.   *)
LEMMA ForksKept ==
  ASSUME IInv, NEW t \in Threads, UNCHANGED join,
         Pc(t) = "syncGC", thread'[t].pc \in {"run", "offered"},
         \A u \in Threads : u # t => thread'[u] = thread[u],
         thread'[t].open = thread[t].open
  PROVE  /\ \A u \in Threads : Stays(u)
         /\ \A g \in Forks : ForkInv(g)'
         /\ \A g \in Forks : Unstarted(g) => Unstarted(g)'
<1>1. \A u \in Threads : Stays(u)
  <2>1. \A u \in Threads : thread'[u].open = thread[u].open /\ StillBorn(u)
    BY DEF StillBorn, Pc
  <2> QED
    BY <2>1, AllStay DEF Kept, IInv
<1>2. \A g \in Forks : Alike(g)
  BY DEF Alike, Inner, Pc, Threads
<1>3. ASSUME NEW g \in Forks, join[g].how = "forked"
      PROVE  IsOpen(g)' /\ (Spawning(g)' <=> Spawning(g)) /\ (LeftDone(g)' <=> LeftDone(g))
  <2>1. PICK u \in Threads : u = join[g].left /\ u = join'[g].left
    BY <1>3 DEF IInv, ForkInv
  <2>2. IsOpen(g)'
    BY <1>3, LeftFrame DEF Kept
  <2>3. CASE u # t
    BY <2>1, <2>2, <2>3 DEF Spawning, LeftDone, Top, Open, Pc
  <2>4. CASE u = t
    BY <2>1, <2>2, <2>4 DEF Spawning, LeftDone, Pc
  <2> QED
    BY <2>3, <2>4
<1>4. \A g \in Forks : ForkInv(g)'
  BY <1>2, <1>3, ForkStays DEF IInv
<1>5. ASSUME NEW g \in Forks, Unstarted(g) PROVE Unstarted(g)'
  <2>1. join[g].how = "forked" /\ thread[g].pc = "unborn" /\ ~Spawning(g)'
    BY <1>3, <1>5 DEF Unstarted, Born, Pc
  <2>2. thread'[g].pc = "unborn"
    BY <2>1 DEF Pc, Threads
  <2> QED
    BY <2>1, <2>2 DEF Unstarted, Born, Pc
<1> QED
  BY <1>1, <1>4, <1>5

(* The collection was stolen.                                               *)
LEMMA SyncGCStolenKeeps ==
  ASSUME IInv, NEW w \in Workers, SyncGC(w), IsEmpty(queue[w])
  PROVE  IInv' /\ Lives
<1>1. PICK t \in Threads :
        /\ t = Current(w) /\ Pc(t) = "syncGC" /\ thread[t].pc = "syncGC" /\ Runs(w, t)
        /\ OpenInv(t) /\ DepthInv(t) /\ DequeInv(w, t)
  BY RunsFacts DEF SyncGC
<1>2. /\ Types /\ Empty(w) /\ thread[t].depth = Level(t) + 1 /\ Level(t) \in Nat
      /\ Hi(w) = Level(t) + 1 /\ Covers(w, t) /\ queue[w] \in Deques
      /\ thread[t] \in ThreadStates
  BY <1>1, DequeFacts, OpenFacts DEF IInv, DepthInv, DequeInv, Runs, Types, Empty, Lo, Hi
<1>3. PICK l \in 0 .. Capacity : l = Level(t) /\ l = Depth(w) - 1
  <2>1. Level(t) \in 0 .. Capacity /\ Level(t) = Depth(w) - 1
    <3>1. thread[t].depth \in 0 .. Capacity
      BY <1>2 DEF ThreadStates
    <3>2. Level(t) + 1 <= Capacity
      BY <1>2, <3>1
    <3> QED
      BY <1>1, <1>2, <3>2, ConstantsAssumption DEF Depth
  <2> QED
    BY <2>1
<1>4. /\ queue' = [queue EXCEPT ![w] = AtDepth(l)]
      /\ thread' = [thread EXCEPT ![t] = [thread[t] EXCEPT !.pc = "run", !.gc = Nil,
                                                          !.depth = l]]
      /\ UNCHANGED <<worker, gcTask, join, gcRuns, status>>
  <2>1. thread' = [thread EXCEPT ![t] = [thread[t] EXCEPT !.pc = "run", !.gc = Nil,
                                                         !.depth = thread[t].depth - 1]]
    BY <1>1 DEF SyncGC
  <2>2. thread[t].depth - 1 = l
    BY <1>1, <1>3 DEF Depth
  <2> QED
    BY <1>3, <2>1, <2>2 DEF SyncGC
<1>5. /\ thread'[t] \in ThreadStates /\ thread'[t].pc = "run" /\ thread'[t].depth = l
      /\ thread'[t].open = thread[t].open /\ thread'[t].proc = thread[t].proc
  <2>1. thread'[t] = [thread[t] EXCEPT !.pc = "run", !.gc = Nil, !.depth = l]
    BY <1>2, <1>4 DEF Types
  <2>2. thread'[t] \in ThreadStates
    BY <1>2, <2>1 DEF ThreadStates
  <2> QED
    BY <1>2, <2>1, <2>2 DEF ThreadStates
<1>6. /\ thread' \in [Threads -> ThreadStates]
      /\ \A u \in Threads : u # t => thread'[u] = thread[u]
  BY <1>2, <1>4, <1>5 DEF Types
<1>7. /\ queue'[w] \in Deques /\ queue'[w].lo = l /\ Bot(queue'[w]) = l
      /\ \A v \in Workers : v # w => queue'[v] = queue[v]
      /\ queue' \in [Workers -> Deques]
  <2>1. queue'[w] = AtDepth(l) /\ \A v \in Workers : v # w => queue'[v] = queue[v]
    BY <1>2, <1>4 DEF Types
  <2>2. queue'[w] \in Deques /\ queue'[w].lo = l /\ Bot(queue'[w]) = l
    BY <2>1, AtDepthFacts
  <2> QED
    BY <1>2, <1>4, <2>1, <2>2 DEF Types
<1>8. \A v \in Workers : Shrinks(v) /\ Hi(v)' <= Capacity
  <2>1. Shrinks(w) /\ Hi(w)' <= Capacity
    BY <1>7, ConstantsAssumption DEF Shrinks, Hi
  <2>2. ASSUME NEW v \in Workers, v # w PROVE Shrinks(v) /\ Hi(v)' <= Capacity
    BY <1>2, <1>7, <2>2, SameShrinks DEF Types, Hi
  <2> QED
    BY <2>1, <2>2
<1>9. Types'
  BY <1>2, <1>4, <1>6, <1>7, <1>8 DEF Types
<1>10. /\ \A u \in Threads : Stays(u)
       /\ \A g \in Forks : ForkInv(g)'
       /\ \A g \in Forks : Unstarted(g) => Unstarted(g)'
  BY <1>1, <1>4, <1>5, <1>6, ForksKept
<1>11. /\ Open(t)' = Open(t) /\ Opened(t)' = Opened(t) /\ Level(t)' = l
       /\ OpenInv(t)'
  <2>1. OpenInv(t)'
    BY <1>1, <1>2, <1>5, <1>10, OpenStays
  <2> QED
    BY <1>2, <1>3, <1>10, <2>1, LevelStays
<1>12. DepthInv(t)' /\ RoomInv(t)' /\ UserInv(w, t)'
  BY <1>5, <1>11 DEF DepthInv, RoomInv, UserInv, Pc
<1>13. DequeInv(w, t)'
  <2>1. Slots(w)' = {}
    BY <1>7, ConstantsAssumption DEF Slots, Lo, Hi
  <2>2. Covers(w, t)'
    <3>1. ASSUME NEW i \in Opened(t) PROVE Born(Open(t)[i])'
      <4>1. PICK g \in Forks : g = Open(t)[i] /\ join[g].left = t /\ join[g].depth < Level(t)
                               /\ join[g].depth \in Nat
        BY <1>1, <1>2, OpenFacts
      <4>2. ~Spawning(g)
        BY <1>1, <4>1 DEF Spawning
      <4>3. Born(g)
        BY <1>2, <4>1, <4>2 DEF Covers, Empty
      <4>4. thread'[g].pc # "unborn"
        BY <1>5, <1>6, <4>3 DEF Born, Threads
      <4> QED
        BY <1>11, <4>1, <4>4 DEF Born
    <3> QED
      BY <1>11, <3>1 DEF Covers
  <2>3. Hi(w)' = Level(t)' /\ Pc(t)' = "run"
    BY <1>5, <1>7, <1>11 DEF Hi, Pc
  <2> QED
    BY <2>1, <2>2, <2>3 DEF DequeInv, Holds
<1>14. \A v \in Workers : TaskInv(v)'
  <2>1. \A u \in Threads : Parked(u) => Parked(u)'
    BY <1>1, <1>4, <1>6 DEF Parked, Pc, Switch
  <2> QED
    BY <1>8, <1>10, <2>1, TaskStays
<1>15. \A v, x \in Workers : OnceInv(v, x)'
  BY <1>8, OnceStays DEF IInv
<1>16. \A g \in Forks : TokenInv(g)'
  BY <1>4, <1>8, QueuedStays, TokenFrame
<1>17. thread'[t].pc \in {"run", "spawn", "syncGC", "offered"} /\ Pc(t) \in Inner
  BY <1>1, <1>5 DEF Inner
<1>18. IInv'
  BY <1>1, <1>4, <1>5, <1>6, <1>7, <1>9, <1>10, <1>11, <1>12, <1>13, <1>14, <1>15, <1>16, <1>17, RunStep
<1> QED
  BY <1>4, <1>18 DEF Lives, NeverDies

(* The collection is left to this worker's scheduler thread, and the        *)
(* thread's continuation is put in its place.                               *)
LEMMA SyncGCOfferKeeps ==
  ASSUME IInv, NEW w \in Workers, SyncGC(w), ~IsEmpty(queue[w])
  PROVE  IInv' /\ Lives
<1>1. PICK t \in Threads :
        /\ t = Current(w) /\ Pc(t) = "syncGC" /\ thread[t].pc = "syncGC" /\ Runs(w, t)
        /\ OpenInv(t) /\ DepthInv(t) /\ DequeInv(w, t)
  BY RunsFacts DEF SyncGC
<1>2. /\ Types /\ ~Empty(w) /\ thread[t].depth = Level(t) + 1 /\ Level(t) \in Nat
      /\ Hi(w) = Level(t) + 1 /\ Covers(w, t) /\ Holds(w, t) /\ queue[w] \in Deques
      /\ thread[t] \in ThreadStates /\ Lo(w) \in Nat /\ Lo(w) <= Hi(w) /\ Capacity \in Nat
      /\ Hi(w) <= Capacity
  BY <1>1, DequeFacts, OpenFacts, ConstantsAssumption
     DEF IInv, DepthInv, DequeInv, Runs, Types, Empty, Lo, Hi
<1>3. PICK l \in 0 .. Capacity :
        l = Level(t) /\ l = Depth(w) - 1 /\ l \in Slots(w) /\ Hi(w) = l + 1 /\ l < Capacity
  <2>1. /\ Level(t) \in 0 .. Capacity /\ Level(t) = Depth(w) - 1 /\ Level(t) \in Slots(w)
        /\ Level(t) < Capacity
    BY <1>1, <1>2 DEF Depth, Slots, Empty
  <2> QED
    BY <1>2, <2>1
<1>4. PICK f \in Forks : f = thread[t].gc /\ Slot(w, l) = GCTask(f)
  <2>1. Hi(w) - 1 = l
    BY <1>3
  <2> QED
    BY <1>1, <1>2, <2>1 DEF DequeInv, Runs
<1>5. PICK x \in Tasks : x = Continuation(t, l) /\ x.kind = "Continuation" /\ x.id = t
  <2>1. Continuation(t, l) \in Tasks
    BY DEF Tasks, Continuation
  <2> QED
    BY <2>1 DEF Continuation
<1>6. /\ queue' = [queue EXCEPT ![w] = PushBot(PopBot(@), x)]
      /\ gcTask' = [gcTask EXCEPT ![w] = f]
      /\ thread' = [thread EXCEPT ![t] = [thread[t] EXCEPT !.pc = "offered"]]
      /\ UNCHANGED <<worker, join, gcRuns, status>>
  BY <1>1, <1>3, <1>4, <1>5 DEF SyncGC, SetGCTask, Goto
<1>7. /\ thread'[t] \in ThreadStates /\ thread'[t].pc = "offered" /\ thread'[t].depth = thread[t].depth
      /\ thread'[t].open = thread[t].open /\ thread'[t].proc = thread[t].proc
      /\ \A u \in Threads : u # t => thread'[u] = thread[u]
      /\ thread' \in [Threads -> ThreadStates]
  <2>1. thread'[t] = [thread[t] EXCEPT !.pc = "offered"]
    BY <1>2, <1>6 DEF Types
  <2>2. thread'[t] \in ThreadStates
    BY <1>2, <2>1 DEF ThreadStates
  <2>3. /\ thread'[t].pc = "offered" /\ thread'[t].depth = thread[t].depth
        /\ thread'[t].open = thread[t].open /\ thread'[t].proc = thread[t].proc
    BY <1>2, <2>1 DEF ThreadStates
  <2> QED
    BY <1>2, <1>6, <2>2, <2>3 DEF Types
<1>8. /\ queue'[w] \in Deques /\ Lo(w)' = Lo(w) /\ Hi(w)' = l + 1
      /\ SlotOf(queue'[w], l) = x
      /\ \A d \in Lo(w) .. l - 1 : SlotOf(queue'[w], d) = Slot(w, d)
      /\ \A v \in Workers : v # w => queue'[v] = queue[v]
      /\ queue' \in [Workers -> Deques]
  <2>1. PICK p : p = PopBot(queue[w])
    OBVIOUS
  <2>2. /\ p \in Deques /\ p.lo = Lo(w) /\ Bot(p) = l
        /\ \A d \in Lo(w) .. l - 1 : SlotOf(p, d) = Slot(w, d)
    <3>1. /\ p \in Deques /\ p.lo = queue[w].lo /\ Bot(p) = Bot(queue[w]) - 1
          /\ \A d \in queue[w].lo .. Bot(queue[w]) - 2 : SlotOf(p, d) = SlotOf(queue[w], d)
      BY <1>2, <2>1, PopBotFacts
    <3>2. Bot(queue[w]) - 1 = l /\ Bot(queue[w]) - 2 = l - 1
      BY <1>3 DEF Hi
    <3> QED
      BY <3>1, <3>2 DEF Lo, Slot
  <2>3. queue'[w] = PushBot(p, x) /\ \A v \in Workers : v # w => queue'[v] = queue[v]
    BY <1>2, <1>6, <2>1 DEF Types
  <2>4. /\ queue'[w] \in Deques /\ queue'[w].lo = p.lo /\ Bot(queue'[w]) = Bot(p) + 1
        /\ SlotOf(queue'[w], Bot(p)) = x
        /\ \A d \in p.lo .. Bot(p) - 1 : SlotOf(queue'[w], d) = SlotOf(p, d)
    BY <2>2, <2>3, PushBotFacts
  <2>5. queue' \in [Workers -> Deques]
    BY <1>2, <1>6, <2>4 DEF Types
  <2> QED
    BY <2>2, <2>3, <2>4, <2>5 DEF Lo, Hi
<1>9. \A d \in Slots(w)' : d = l \/ (d # l /\ d < l /\ d \in Slots(w) /\ SlotOf(queue'[w], d) = Slot(w, d))
  <2>1. ASSUME NEW d \in Slots(w)' PROVE d \in Int /\ Lo(w) <= d /\ (d = l \/ d <= l - 1)
    BY <1>2, <1>3, <1>8 DEF Slots
  <2> QED
    BY <1>2, <1>3, <1>8, <2>1 DEF Slots
<1>10. \A v \in Workers : Puts(v, w, l, x)
  <2>1. Puts(w, w, l, x)
    BY <1>8, <1>9 DEF Puts, Slots, Lo, Hi
  <2>2. ASSUME NEW v \in Workers, v # w PROVE Puts(v, w, l, x)
    BY <1>8, <2>2 DEF Puts, Slots, Lo, Hi, Slot
  <2> QED
    BY <2>1, <2>2
<1>11. Types'
  <2>1. \A v \in Workers : Hi(v)' <= Capacity
    BY <1>2, <1>3, <1>8 DEF Types, Hi
  <2>2. gcTask' \in [Workers -> Forks \union {Nil}]
    BY <1>2, <1>6 DEF Types
  <2> QED
    BY <1>2, <1>6, <1>7, <1>8, <2>1, <2>2 DEF Types
<1>12. /\ \A u \in Threads : Stays(u)
       /\ \A g \in Forks : ForkInv(g)'
       /\ \A g \in Forks : Unstarted(g) => Unstarted(g)'
  BY <1>1, <1>6, <1>7, ForksKept
<1>13. /\ Open(t)' = Open(t) /\ Opened(t)' = Opened(t) /\ Level(t)' = l
       /\ OpenInv(t)'
  <2>1. OpenInv(t)'
    BY <1>1, <1>2, <1>7, <1>12, OpenStays
  <2> QED
    BY <1>2, <1>3, <1>12, <2>1, LevelStays
<1>14. DepthInv(t)' /\ RoomInv(t)' /\ UserInv(w, t)'
  <2>1. gcTask'[w] # Nil
    BY <1>2, <1>6, ConstantsAssumption DEF Types
  <2> QED
    BY <1>2, <1>3, <1>7, <1>13, <2>1 DEF DepthInv, RoomInv, UserInv, Pc
<1>15. DequeInv(w, t)'
  <2>1. Holds(w, t)'
    <3>1. ASSUME NEW d \in Slots(w)', d < l
          PROVE  \E i \in Opened(t) : PushedBy(Open(t)[i], Slot(w, d), d)'
      <4>1. d \in Slots(w) /\ Slot(w, d)' = Slot(w, d)
        BY <1>3, <1>9, <3>1 DEF Slot
      <4>2. PICK i \in Opened(t) : PushedBy(Open(t)[i], Slot(w, d), d)
        BY <1>2, <1>3, <3>1, <4>1 DEF Holds
      <4> QED
        BY <1>6, <1>13, <4>1, <4>2 DEF PushedBy, NewThread, GCTask
    <3> QED
      BY <1>13, <3>1 DEF Holds
  <2>2. Covers(w, t)'
    BY <1>1, <1>2, <1>8, <1>12, CoversStays DEF Lo
  <2>3. Slot(w, Hi(w) - 1)' = Continuation(t, l)
    <3>1. Hi(w)' - 1 = l
      BY <1>3, <1>8
    <3> QED
      BY <1>5, <1>8, <3>1 DEF Slot
  <2>4. Hi(w)' = Level(t)' + 1 /\ Pc(t)' = "offered"
    BY <1>7, <1>8, <1>13 DEF Pc
  <2> QED
    BY <1>13, <2>1, <2>2, <2>3, <2>4 DEF DequeInv, Continuation
<1>16. \A v \in Workers : TaskInv(v)'
  <2>1. \A u \in Threads : Parked(u) => Parked(u)'
    BY <1>1, <1>6, <1>7 DEF Parked, Pc, Switch
  <2>2. Parked(t)'
    BY <1>1, <1>6, <1>7 DEF Parked, Pc, Switch, Runs
  <2>3. x.id \in Threads /\ \A u \in Threads : u = x.id => Parked(u)'
    BY <1>5, <2>2
  <2>4. x.kind # "NewThread"
    BY <1>5
  <2> QED
    BY <1>10, <1>12, <2>1, <2>3, <2>4, TaskPuts
<1>17. \A v, y \in Workers : OnceInv(v, y)'
  <2>1. \A z \in Workers : \A d \in Slots(z) : ~SameTask(Slot(z, d), x)
    BY <1>1, <1>5 DEF SameTask, IInv, TaskInv, Parked
  <2> QED
    BY <1>10, <2>1, OncePuts
<1>18. \A g \in Forks : TokenInv(g)'
  <2>1. \A v \in Workers, g \in Forks : Queued(v, g)' => Queued(v, g)
    BY <1>5, <1>10, QueuedPuts
  <2>2. \A v \in Workers : gcTask'[v] = IF v = w THEN f ELSE gcTask[v]
    BY <1>2, <1>6 DEF Types
  <2>3. \A g \in Forks : g # f => TokenInv(g)'
    BY <1>6, <2>1, <2>2, TokenFrame
  <2>4. TokenInv(f)'
    <3>1. TokenInv(f) /\ Queued(w, f)
      BY <1>3, <1>4 DEF IInv, Queued, GCTask
    <3>2. /\ gcRuns[f] = 0 /\ join[f].how # "none"
          /\ \A v \in Workers : ~Boxed(v, f) /\ ~Collects(v, f)
      BY <3>1 DEF TokenInv
    <3>3. \A v \in Workers : (Boxed(v, f)' => v = w) /\ ~Collects(v, f)'
      BY <1>6, <2>2, <3>2 DEF Boxed, Collects
    <3>4. ASSUME NEW v \in Workers PROVE ~Queued(v, f)'
      <4>1. SUFFICES ASSUME NEW d \in Slots(v)', Slot(v, d)'.kind = "GCTask", Slot(v, d)'.id = f
                     PROVE  FALSE
        BY DEF Queued
      <4>2. d \in Slots(v) /\ Slot(v, d)' = Slot(v, d) /\ ~(v = w /\ d = l)
        BY <1>5, <1>8, <1>10, <4>1 DEF Puts, Slots, Lo, Hi, Slot
      <4>3. SameTask(Slot(w, l), Slot(v, d))
        BY <1>4, <4>1, <4>2 DEF SameTask, GCTask
      <4> QED
        BY <1>3, <4>2, <4>3 DEF IInv, OnceInv
    <3> QED
      BY <1>6, <3>2, <3>3, <3>4 DEF TokenInv
  <2> QED
    BY <2>3, <2>4
<1>19. thread'[t].pc \in {"run", "spawn", "syncGC", "offered"} /\ Pc(t) \in Inner
  BY <1>1, <1>7 DEF Inner
<1>20. \A v \in Workers : v # w => queue'[v] = queue[v] /\ gcTask'[v] = gcTask[v]
  BY <1>2, <1>6, <1>8 DEF Types
<1>21. IInv'
  BY <1>1, <1>6, <1>7, <1>11, <1>12, <1>13, <1>14, <1>15, <1>16, <1>17, <1>18, <1>19, <1>20, RunStep
<1> QED
  BY <1>6, <1>21 DEF Lives, NeverDies

(* The collection after a join.                                             *)
LEMMA SyncGCKeeps ==
  ASSUME IInv, NEW w \in Workers, SyncGC(w)
  PROVE  IInv' /\ Lives
BY SyncGCStolenKeeps, SyncGCOfferKeeps

-------------------------------------------------------------------------------
(* The end of the program *)

(* The main program ends.                                                   *)
LEMMA ExitKeeps ==
  ASSUME IInv, NEW w \in Workers, Exit(w)
  PROVE  IInv' /\ Lives
<1>1. UNCHANGED <<queue, worker, gcTask, thread, join, gcRuns>> /\ status' = "exited"
  BY DEF Exit
<1>2. status' \in Statuses /\ Lives
  BY <1>1 DEF Statuses, Lives
<1> QED
  BY <1>1, <1>2, StutterKeeps

(* Nothing happens.                                                         *)
LEMMA IdleKeeps ==
  ASSUME IInv, UNCHANGED vars
  PROVE  IInv' /\ Lives
<1>1. UNCHANGED <<queue, worker, gcTask, thread, join, gcRuns>> /\ status' = status
  BY DEF vars
<1>2. status' \in Statuses /\ Lives
  BY <1>1 DEF IInv, Types, Lives, NeverDies
<1> QED
  BY <1>1, <1>2, StutterKeeps

-------------------------------------------------------------------------------
(* The invariant *)

(* At the start the main program runs, and nothing is in a deque.           *)
LEMMA InitInv == Init => IInv
<1> SUFFICES ASSUME Init PROVE IInv
  OBVIOUS
<1>1. /\ Capacity \in Nat /\ Capacity >= 1 /\ Root \in Threads /\ Root \notin Forks
      /\ First \in Workers /\ Nil \notin Threads /\ Nil \notin Workers
  BY ConstantsAssumption DEF Threads
<1>2. /\ queue \in [Workers -> Deques]
      /\ \A w \in Workers : Lo(w) = 1 /\ Hi(w) = 1 /\ Slots(w) = {} /\ Empty(w)
  <2>1. 1 \in 0 .. Capacity
    BY <1>1
  <2>2. PICK p : p = AtDepth(1)
    OBVIOUS
  <2>3. p \in Deques /\ p.lo = 1 /\ Bot(p) = 1
    BY <2>1, <2>2, AtDepthFacts
  <2>4. queue = [w \in Workers |-> p]
    BY <2>2 DEF Init
  <2> QED
    BY <2>3, <2>4 DEF Lo, Hi, Slots, Empty
<1>3. /\ worker \in [Workers -> WorkerStates]
      /\ worker[First].at = "user" /\ worker[First].thread = Root
      /\ \A w \in Workers : worker[w].gc = Nil /\ (w # First => worker[w].at = "steal")
  BY <1>1 DEF Init, WorkerStates
<1>4. /\ thread \in [Threads -> ThreadStates]
      /\ thread[Root].pc = "run" /\ thread[Root].depth = 1 /\ thread[Root].proc = First
      /\ \A t \in Threads : /\ thread[t].open = <<>> /\ Len(thread[t].open) = 0
                            /\ t # Root => thread[t].pc = "unborn" /\ thread[t].proc = Nil
  <2>1. 0 \in 0 .. Capacity /\ 1 \in 0 .. Capacity /\ <<>> \in Seq(Forks)
    BY <1>1
  <2>2. /\ [pc |-> "run", depth |-> 1, open |-> <<>>, gc |-> Nil, proc |-> First] \in ThreadStates
        /\ [pc |-> "unborn", depth |-> 0, open |-> <<>>, gc |-> Nil, proc |-> Nil] \in ThreadStates
    BY <1>1, <2>1 DEF ThreadStates
  <2>3. thread \in [Threads -> ThreadStates]
    BY <2>2 DEF Init
  <2> QED
    BY <1>1, <2>3 DEF Init
<1>5. /\ join \in [Forks -> Joinpoints]
      /\ \A f \in Forks : join[f].how = "none" /\ join[f].right = Nil /\ ~join[f].gc
  <2>1. 0 \in 0 .. Capacity /\ 0 \in 0 .. 2
    BY <1>1
  <2>2. [left |-> Nil, depth |-> 0, incounter |-> 0, right |-> Nil, gc |-> FALSE, how |-> "none"]
          \in Joinpoints
    BY <2>1 DEF Joinpoints
  <2>3. join \in [Forks -> Joinpoints]
    BY <2>2 DEF Init
  <2> QED
    BY <2>3 DEF Init
<1>6. /\ gcRuns \in [Forks -> Nat] /\ gcTask \in [Workers -> Forks \union {Nil}]
      /\ status \in Statuses /\ \A f \in Forks : gcRuns[f] = 0
      /\ \A w \in Workers : gcTask[w] = Nil
  BY DEF Init, Statuses
<1>7. Types
  <2>1. \A w \in Workers : Hi(w) <= Capacity
    BY <1>1, <1>2
  <2> QED
    BY <1>2, <1>3, <1>4, <1>5, <1>6, <2>1 DEF Types
<1>8. /\ \A t \in Threads : Open(t) = <<>> /\ Opened(t) = {} /\ Level(t) = Base(t)
      /\ Level(Root) = 1
  BY <1>1, <1>4 DEF Open, Opened, Level, LevelAfter, Base
<1>9. \A w \in Workers : WorkerInv(w) /\ SchedInv(w) /\ TaskInv(w)
  <2>1. ASSUME NEW w \in Workers PROVE WorkerInv(w) /\ SchedInv(w) /\ TaskInv(w)
    <3>1. WorkerInv(w)
      BY <1>1, <1>3, <1>4 DEF WorkerInv
    <3>2. SchedInv(w) /\ TaskInv(w)
      BY <1>2 DEF SchedInv, TaskInv
    <3> QED
      BY <3>1, <3>2
  <2> QED
    BY <2>1
<1>10. \A t \in Threads : ThreadInv(t) /\ OpenInv(t) /\ DepthInv(t) /\ RoomInv(t)
  <2>1. ASSUME NEW t \in Threads PROVE ThreadInv(t) /\ OpenInv(t) /\ DepthInv(t) /\ RoomInv(t)
    <3>1. Pc(t) = (IF t = Root THEN "run" ELSE "unborn")
      BY <1>4 DEF Pc
    <3>2. ThreadInv(t)
      BY <1>1, <1>3, <1>4, <3>1 DEF ThreadInv, User
    <3>3. OpenInv(t)
      BY <1>8, <3>1 DEF OpenInv
    <3>4. DepthInv(t) /\ RoomInv(t)
      BY <1>4, <1>8, <3>1 DEF DepthInv, RoomInv
    <3> QED
      BY <3>2, <3>3, <3>4
  <2> QED
    BY <2>1
<1>11. \A f \in Forks : ForkInv(f) /\ TokenInv(f)
  <2>1. ASSUME NEW f \in Forks PROVE ForkInv(f) /\ TokenInv(f)
    <3>1. ~Born(f) /\ f # Nil
      BY <1>1, <1>4 DEF Born, Threads
    <3>2. \A w \in Workers : ~Queued(w, f) /\ ~Boxed(w, f) /\ ~Collects(w, f)
      BY <1>2, <1>3, <1>6, <3>1 DEF Queued, Boxed, Collects
    <3>3. ForkInv(f)
      BY <1>5, <3>1 DEF ForkInv
    <3> QED
      BY <1>6, <3>2, <3>3 DEF TokenInv
  <2> QED
    BY <2>1
<1>12. \A w \in Workers, t \in Threads :
         SwitchInv(w, t) /\ UserInv(w, t) /\ ResumeInv(w, t) /\ DequeInv(w, t)
  <2>1. ASSUME NEW w \in Workers, NEW t \in Threads
        PROVE  SwitchInv(w, t) /\ UserInv(w, t) /\ ResumeInv(w, t) /\ DequeInv(w, t)
    <3>1. ~Switch(w, t)
      BY <1>3 DEF Switch
    <3>2. User(w, t) => t = Root
      BY <1>3 DEF User
    <3>3. UserInv(w, t)
      BY <1>4, <3>2 DEF UserInv, Pc
    <3>4. Holds(w, t) /\ Covers(w, t)
      BY <1>2, <1>8 DEF Holds, Covers
    <3>5. DequeInv(w, t)
      BY <1>2, <1>4, <1>8, <3>2, <3>4 DEF DequeInv, Pc
    <3> QED
      BY <3>1, <3>3, <3>5 DEF SwitchInv, ResumeInv
  <2> QED
    BY <2>1
<1>13. \A w, v \in Workers : OnceInv(w, v)
  BY <1>2 DEF OnceInv
<1> QED
  BY <1>7, <1>9, <1>10, <1>11, <1>12, <1>13 DEF IInv

(* Every action of a thread keeps the invariant.                            *)
LEMMA UserStepKeeps ==
  ASSUME IInv, NEW w \in Workers, UserStep(w)
  PROVE  IInv' /\ Lives
<1>1. CASE \E f \in Forks : SpawnAlone(w, f) \/ SpawnWithGC(w, f)
  BY <1>1, SpawnAloneKeeps, SpawnWithGCKeeps
<1>2. CASE DoSpawn(w)
  BY <1>2, DoSpawnKeeps
<1>3. CASE SyncPop(w)
  BY <1>3, SyncPopKeeps
<1>4. CASE SyncDecrement(w)
  BY <1>4, SyncDecrementKeeps
<1>5. CASE SyncWait(w)
  BY <1>5, SyncWaitKeeps
<1>6. CASE SyncJoin(w)
  BY <1>6, SyncJoinKeeps
<1>7. CASE SyncGC(w)
  BY <1>7, SyncGCKeeps
<1>8. CASE SyncGCLeave(w)
  BY <1>8, SyncGCLeaveKeeps
<1>9. CASE SyncGCResume(w)
  BY <1>9, SyncGCResumeKeeps
<1>10. CASE RightDone(w)
  BY <1>10, RightDoneKeeps
<1>11. CASE RightDecrement(w)
  BY <1>11, RightDecrementKeeps
<1>12. CASE RightLeave(w)
  BY <1>12, RightLeaveKeeps
<1>13. CASE RightToLeft(w)
  BY <1>13, RightToLeftKeeps
<1>14. CASE Exit(w)
  BY <1>14, ExitKeeps
<1> QED
  BY <1>1, <1>2, <1>3, <1>4, <1>5, <1>6, <1>7, <1>8, <1>9, <1>10, <1>11, <1>12, <1>13, <1>14 DEF UserStep

(* Every step keeps the invariant and reaches no message of the scheduler.  *)
LEMMA NextKeeps ==
  ASSUME IInv, [Next]_vars
  PROVE  IInv' /\ Lives
<1>1. CASE UNCHANGED vars
  BY <1>1, IdleKeeps
<1>2. CASE Ended
  BY <1>2, IdleKeeps DEF Ended
<1>3. ASSUME NEW w \in Workers, UserStep(w) PROVE IInv' /\ Lives
  BY <1>3, UserStepKeeps
<1>4. ASSUME NEW w \in Workers, SchedStep(w) PROVE IInv' /\ Lives
  BY <1>4, SwitchToThreadKeeps, BackInSchedKeeps, BackWithGCKeeps, CollectKeeps, PopContinuationKeeps
     DEF SchedStep
<1>5. ASSUME NEW w \in Workers, NEW v \in Workers, StealStep(w, v) PROVE IInv' /\ Lives
  BY <1>5, IdleKeeps, StealGCTaskKeeps, StealContinuationKeeps, StealNewThreadKeeps
     DEF StealStep, StealNothing
<1> QED
  BY <1>1, <1>2, <1>3, <1>4, <1>5 DEF Next

(* Every behaviour of the fork-join protocol keeps the invariant.           *)
THEOREM Invariant == Spec => []IInv
<1>1. Init => IInv
  BY InitInv
<1>2. IInv /\ [Next]_vars => IInv'
  BY NextKeeps
<1> QED
  BY <1>1, <1>2, PTL DEF Spec

(* Every variable keeps its type: the deques stay within their capacity,    *)
(* depths within the deques, and the joinpoints count from two to none.     *)
THEOREM TypesKept == Spec => []TypeOK
<1>1. IInv => TypeOK
  <2> SUFFICES ASSUME IInv PROVE TypeOK
    OBVIOUS
  <2>1. ASSUME NEW w \in Workers
        PROVE  /\ queue[w].lo \in 0 .. Capacity
               /\ queue[w].tasks \in Seq(Tasks)
               /\ Bot(queue[w]) <= Capacity
    BY DEF IInv, Types, Deques, Hi
  <2> QED
    BY <2>1 DEF IInv, Types, TypeOK, WorkerStates, ThreadStates, Joinpoints
<1> QED
  BY <1>1, Invariant, PTL

(* What is taken up is taken up by one worker: no thread is on two          *)
(* processors, and no fork's collection is run twice.                       *)
THEOREM TakenUpOnce == Spec => []RunsOnce
<1>1. IInv => RunsOnce
  <2> SUFFICES ASSUME IInv PROVE RunsOnce
    OBVIOUS
  <2>1. OneProcessorPerThread
    <3> SUFFICES ASSUME NEW w \in Workers, NEW v \in Workers,
                        worker[w].at = "user", worker[v].at = "user", Current(w) = Current(v)
                 PROVE  w = v
      BY DEF OneProcessorPerThread
    <3>1. WorkerInv(w) /\ WorkerInv(v)
      BY DEF IInv
    <3> QED
      BY <3>1 DEF WorkerInv, Current
  <2>2. CollectedOnce
    BY DEF IInv, TokenInv, CollectedOnce
  <2> QED
    BY <2>1, <2>2 DEF RunsOnce
<1> QED
  BY <1>1, Invariant, PTL

(* While a worker runs user code, its deque holds exactly the tasks of its  *)
(* thread's open forks that were not stolen, each at its depth.             *)
THEOREM DequesMatch == Spec => []DequeMatchesForks
<1>1. IInv => DequeMatchesForks
  <2> SUFFICES ASSUME IInv, NEW w \in Workers, At(w, "run")
               PROVE  /\ Bot(queue[w]) = Depth(w)
                      /\ \A i \in 1 .. Len(queue[w].tasks) :
                           \E k \in 1 .. Len(thread[Current(w)].open) :
                             PushedBy(thread[Current(w)].open[k], queue[w].tasks[i],
                                      queue[w].lo + i - 1)
                      /\ \A k \in 1 .. Len(thread[Current(w)].open) :
                           thread[thread[Current(w)].open[k]].pc = "unborn" =>
                             \E i \in 1 .. Len(queue[w].tasks) :
                               queue[w].tasks[i] = NewThread(thread[Current(w)].open[k])
    BY DEF DequeMatchesForks
  <2>1. PICK t \in Threads :
          /\ t = Current(w) /\ Pc(t) = "run" /\ OpenInv(t) /\ DepthInv(t) /\ DequeInv(w, t)
          /\ User(w, t)
    BY RunsFacts
  <2>2. /\ Types /\ Holds(w, t) /\ Covers(w, t) /\ Hi(w) = Level(t) /\ thread[t].depth = Level(t)
        /\ queue[w] \in Deques /\ Lo(w) \in Nat /\ Level(t) \in Nat
    BY <2>1, DequeFacts, OpenFacts DEF IInv, DequeInv, DepthInv, Types, Lo, Hi
  <2>3. Bot(queue[w]) = Depth(w)
    BY <2>1, <2>2 DEF Hi, Depth
  <2>4. ASSUME NEW d \in Slots(w)
        PROVE  /\ d - Lo(w) + 1 \in 1 .. Len(queue[w].tasks) /\ d < Level(t)
               /\ Slot(w, d) = queue[w].tasks[d - Lo(w) + 1]
    BY <2>2 DEF Slots, Slot, SlotOf, Lo, Hi, Bot, Deques
  <2>5. ASSUME NEW i \in 1 .. Len(queue[w].tasks)
        PROVE  \E k \in 1 .. Len(Open(t)) :
                 PushedBy(Open(t)[k], queue[w].tasks[i], queue[w].lo + i - 1)
    <3>1. PICK d \in Slots(w) : d = Lo(w) + i - 1 /\ d - Lo(w) + 1 = i
      <4>1. PICK d \in Int : d = Lo(w) + i - 1
        BY <2>2
      <4>2. Len(queue[w].tasks) \in Nat /\ i \in Nat /\ i >= 1 /\ i <= Len(queue[w].tasks)
        BY <2>2 DEF Deques
      <4>3. d \in Slots(w) /\ d - Lo(w) + 1 = i
        BY <2>2, <4>1, <4>2 DEF Slots, Lo, Hi, Bot
      <4> QED
        BY <4>1, <4>3
    <3>2. Slot(w, d) = queue[w].tasks[i] /\ d < Level(t)
      BY <2>4, <3>1
    <3>3. PICK k \in Opened(t) : PushedBy(Open(t)[k], Slot(w, d), d)
      BY <2>2, <3>2 DEF Holds
    <3> QED
      BY <3>1, <3>2, <3>3 DEF Opened, Lo
  <2>6. ASSUME NEW k \in 1 .. Len(Open(t)), thread[Open(t)[k]].pc = "unborn"
        PROVE  \E i \in 1 .. Len(queue[w].tasks) : queue[w].tasks[i] = NewThread(Open(t)[k])
    <3>1. PICK f \in Forks :
            /\ f = Open(t)[k] /\ k \in Opened(t) /\ join[f].left = t
            /\ join[f].depth \in Nat /\ join[f].depth < Level(t)
      BY <2>1, <2>2, OpenFacts DEF Opened
    <3>2. ~Born(f) /\ ~Spawning(f)
      BY <2>1, <2>6, <3>1 DEF Born, Spawning
    <3>3. PICK d \in Slots(w) : d = join[f].depth
      BY <2>2, <3>1, <3>2 DEF Covers, Slots
    <3>4. PICK j \in Opened(t) : PushedBy(Open(t)[j], Slot(w, d), d)
      BY <2>2, <2>4 DEF Holds
    <3>5. j = k
      <4>1. PICK g \in Forks : g = Open(t)[j] /\ join[g].depth \in Nat /\ join[g].gc \in BOOLEAN
        BY <2>1, <2>2, OpenFacts DEF Types, Joinpoints
      <4>2. \/ d = join[g].depth
            \/ join[g].gc /\ d = join[g].depth - 1
        BY <3>4, <4>1 DEF PushedBy
      <4>3. j \in Nat /\ k \in Nat
        BY <2>2, <3>1 DEF Opened
      <4>4. ~(j < k)
        <5>1. SUFFICES ASSUME j < k PROVE FALSE
          OBVIOUS
        <5>2. join[g].depth < join[f].depth - Extra(f) /\ Extra(f) \in {0, 1}
          BY <2>1, <3>1, <4>1, <5>1 DEF OpenInv, Extra
        <5> QED
          BY <3>1, <3>3, <4>1, <4>2, <5>2
      <4>5. ~(k < j)
        <5>1. SUFFICES ASSUME k < j PROVE FALSE
          OBVIOUS
        <5>2. join[f].depth < join[g].depth - Extra(g) /\ (join[g].gc => Extra(g) = 1)
              /\ Extra(g) \in {0, 1}
          BY <2>1, <3>1, <4>1, <5>1 DEF OpenInv, Extra
        <5> QED
          BY <3>1, <3>3, <4>1, <4>2, <5>2
      <4> QED
        BY <4>3, <4>4, <4>5
    <3>6. Slot(w, d) = NewThread(f)
      <4>1. d # join[f].depth - 1
        BY <3>1, <3>3
      <4> QED
        BY <3>1, <3>4, <3>5, <4>1 DEF PushedBy
    <3> QED
      BY <2>4, <3>1, <3>6
  <2> QED
    BY <2>1, <2>3, <2>5, <2>6 DEF Open
<1> QED
  BY <1>1, Invariant, PTL

(* If the deques have room for both tasks of a spawn at the deepest level   *)
(* that has a collection, none of the scheduler's exits with a message is   *)
(* reached: a join finds the right side's thread, the depth of a deque is   *)
(* only set when it is empty, the task on top after a collection is the     *)
(* continuation, and the one check of the depth before a spawn is enough.   *)
THEOREM NoMessage == RoomForBoth => (Spec => []NeverDies)
<1> SUFFICES ASSUME RoomForBoth PROVE Spec => []NeverDies
  OBVIOUS
<1>1. Init => NeverDies
  BY DEF Init, NeverDies
<1>2. IInv /\ NeverDies /\ [Next]_vars => NeverDies'
  BY NextKeeps DEF Lives, NeverDies
<1> QED
  BY <1>1, <1>2, Invariant, PTL DEF Spec

-------------------------------------------------------------------------------
(* The protocol implements fork-join *)

(* What ForkJoin sees of the forks and threads is as it was.                *)
Unseen ==
  /\ \A f \in Forks :
       /\ join'[f].how = join[f].how /\ join'[f].right = join[f].right
       /\ thread[f].pc = "unborn" <=> thread'[f].pc = "unborn"
  /\ \A t \in Threads : thread'[t].open = thread[t].open

Refines == [Abstract!Next]_(Abstract!vars)

(* What ForkJoin does not see is a stutter.                                 *)
LEMMA UnseenRefines ==
  ASSUME Unseen PROVE Refines
<1>1. \A f \in Forks : Phase(f)' = Phase(f)
  BY DEF Unseen, Phase
<1>2. UNCHANGED Abstract!vars
  BY <1>1 DEF Unseen, Abstract!vars
<1> QED
  BY <1>2 DEF Refines

(* So is a step that changes no thread and no joinpoint.                    *)
LEMMA SameRefines ==
  ASSUME UNCHANGED <<thread, join>> PROVE Refines
BY UnseenRefines DEF Unseen

(* Only thread t goes on, its forks and the joinpoints' answers as before.  *)
LEMMA GoesOnRefines ==
  ASSUME Types, NEW t \in Threads, thread[t].pc # "unborn", thread'[t].pc # "unborn",
         thread'[t].open = thread[t].open, \A u \in Threads : u # t => thread'[u] = thread[u],
         \A f \in Forks : join'[f].how = join[f].how /\ join'[f].right = join[f].right
  PROVE  Refines
BY UnseenRefines DEF Unseen, Threads

(* A thread in user code is a strand that runs.                             *)
LEMMA StrandRuns ==
  ASSUME IInv, NEW t \in Threads, Pc(t) \in {"run", "join"}
  PROVE  t = Root \/ (t \in Forks /\ Phase(t) = "running")
<1>1. CASE t \in Forks
  <2>1. ForkInv(t) /\ join[t].how \in {"none", "forked", "inlined", "dropped", "joined"}
    BY <1>1 DEF IInv, Types, Joinpoints
  <2> QED
    BY <1>1, <2>1 DEF ForkInv, Phase, Born, Pc
<1> QED
  BY <1>1 DEF Threads

(* A fork is opened.                                                        *)
LEMMA ForkRefines ==
  ASSUME IInv, NEW t \in Threads, Pc(t) = "run", NEW f \in Forks, join[f].how = "none",
         join'[f].how = "forked", \A g \in Forks : g # f => join'[g] = join[g],
         thread'[t].open = Append(thread[t].open, f), thread'[t].pc # "unborn",
         \A u \in Threads : u # t => thread'[u] = thread[u]
  PROVE  Refines
<1>1. t \in Abstract!Strands
  BY DEF Abstract!Strands, Threads
<1>2. thread[f].pc = "unborn" /\ f # t
  BY DEF IInv, ForkInv, Born, Pc
<1>3. \A g \in Forks : g # f => Phase(g)' = Phase(g)
  BY DEF Phase, Threads, Pc
<1>4. Phase(f) = "none" /\ Phase(f)' = "forked"
  BY <1>2 DEF Phase, Threads
<1>5. Abstract!Fork(t, f)
  BY <1>1, <1>3, <1>4, StrandRuns DEF Abstract!Fork, Abstract!Runs
<1> QED
  BY <1>1, <1>5 DEF Refines, Abstract!Next

(* The innermost fork is closed.                                            *)
LEMMA CloseRefines ==
  ASSUME IInv, NEW t \in Threads, Pc(t) \in {"run", "join"}, NEW f \in Forks,
         Open(t) # <<>>, f = Top(t), Joined(t, f),
         NEW h \in {"inlined", "dropped", "joined"}, join' = [join EXCEPT ![f].how = h],
         Phase(f) = IF h = "joined" THEN "done" ELSE "forked"
  PROVE  Refines
<1>1. t \in Abstract!Strands /\ Types
  BY DEF Abstract!Strands, Threads, IInv
<1>2. /\ \A u \in Threads : u # t => thread'[u] = thread[u]
      /\ thread'[t].open = Front(thread[t].open)
      /\ thread'[t].pc # "unborn"
  <2>1. thread[t] \in ThreadStates
    BY <1>1 DEF Types
  <2>2. PICK c \in {"syncGC", "run"} : c = IF join[f].gc THEN "syncGC" ELSE "run"
    OBVIOUS
  <2>3. PICK x : x = IF join[f].gc THEN f ELSE Nil
    OBVIOUS
  <2>4. PICK d, o : d = thread[t].depth - 1 /\ o = Front(thread[t].open)
    OBVIOUS
  <2>5. thread' = [thread EXCEPT ![t] = [thread[t] EXCEPT !.pc = c, !.gc = x, !.depth = d, !.open = o]]
    BY <2>2, <2>3, <2>4 DEF Joined
  <2> QED
    BY <1>1, <2>1, <2>4, <2>5 DEF Types, ThreadStates
<1>3. /\ join'[f].how = h
      /\ \A g \in Forks : g # f => join'[g] = join[g]
  BY <1>1 DEF Types, Joinpoints
<1>4. \A g \in Forks : g # f => Phase(g)' = Phase(g)
  BY <1>2, <1>3 DEF Phase, Threads, Pc
<1>5. Phase(f)' = h
  BY <1>3 DEF Phase
<1>6. /\ Abstract!Innermost(t) = f /\ Abstract!Close(t)
      /\ [g \in Forks |-> Phase(g)]' = [[g \in Forks |-> Phase(g)] EXCEPT ![f] = h]
  BY <1>1, <1>2, <1>4, <1>5 DEF Abstract!Innermost, Abstract!Close, Front, Top, Open
<1>7. Abstract!Join(t) \/ Abstract!Inline(t)
  BY <1>6, StrandRuns DEF Abstract!Join, Abstract!Inline, Abstract!Runs, Open
<1> QED
  BY <1>1, <1>7 DEF Refines, Abstract!Next

(* A spawn opens a fork, or the program dies.                               *)
LEMMA SpawnRefines ==
  ASSUME IInv, NEW w \in Workers, NEW f \in Forks, SpawnAlone(w, f) \/ SpawnWithGC(w, f)
  PROVE  Refines
<1>1. CASE UNCHANGED <<thread, join>>
  BY <1>1, SameRefines
<1>2. CASE ~UNCHANGED <<thread, join>>
  <2>1. PICK t \in Threads : t = Current(w) /\ Pc(t) = "run"
    BY RunsFacts DEF SpawnAlone, SpawnWithGC, CanSpawn
  <2>2. thread \in [Threads -> ThreadStates] /\ join \in [Forks -> Joinpoints]
        /\ thread[t] \in ThreadStates /\ join[f] \in Joinpoints
    BY DEF IInv, Types
  <2>3. /\ join[f].how = "none"
        /\ join'[f].how = "forked" /\ \A g \in Forks : g # f => join'[g] = join[g]
    <3>1. CASE SpawnAlone(w, f)
      BY <2>2, <3>1 DEF SpawnAlone, CanSpawn, Joinpoints
    <3>2. CASE SpawnWithGC(w, f)
      <4>1. ~IsFull(queue[w]) /\ join[f].how = "none"
        BY <1>2, <3>2 DEF SpawnWithGC, CanSpawn, Die
      <4>2. PICK d : d = Depth(w) + 1
        OBVIOUS
      <4>3. PICK u : u = Current(w)
        OBVIOUS
      <4>4. join' = [join EXCEPT ![f].left = u, ![f].depth = d, ![f].gc = TRUE, ![f].how = "forked"]
        BY <3>2, <4>1, <4>2, <4>3 DEF SpawnWithGC
      <4> QED
        BY <2>2, <4>1, <4>4 DEF Joinpoints
    <3> QED
      BY <3>1, <3>2
  <2>4. /\ thread'[t].open = Append(thread[t].open, f) /\ thread'[t].pc = "spawn"
        /\ \A u \in Threads : u # t => thread'[u] = thread[u]
    <3>1. CASE SpawnAlone(w, f)
      BY <2>1, <2>2, <3>1 DEF SpawnAlone, ThreadStates
    <3>2. CASE SpawnWithGC(w, f)
      <4>1. ~IsFull(queue[w])
        BY <1>2, <3>2 DEF SpawnWithGC, Die
      <4>2. thread' = [thread EXCEPT ![t] = [thread[t] EXCEPT !.pc = "spawn",
                         !.depth = thread[t].depth + 1, !.open = Append(thread[t].open, f)]]
        BY <2>1, <3>2, <4>1 DEF SpawnWithGC
      <4>3. thread'[t] = [thread[t] EXCEPT !.pc = "spawn",
                            !.depth = thread[t].depth + 1, !.open = Append(thread[t].open, f)]
        BY <2>2, <4>2
      <4>4. thread'[t].open = Append(thread[t].open, f) /\ thread'[t].pc = "spawn"
        BY <2>2, <4>3 DEF ThreadStates
      <4> QED
        BY <2>2, <4>2, <4>4
    <3> QED
      BY <3>1, <3>2
  <2> QED
    BY <2>1, <2>3, <2>4, ForkRefines
<1> QED
  BY <1>1, <1>2

(* A right side that is popped is inlined or dropped.                       *)
LEMMA SyncPopRefines ==
  ASSUME IInv, NEW w \in Workers, SyncPop(w)
  PROVE  Refines
<1>1. PICK t \in Threads :
        t = Current(w) /\ Pc(t) = "run" /\ thread[t].pc = "run" /\ Runs(w, t) /\ DequeInv(w, t)
  BY RunsFacts DEF SyncPop
<1>2. Types
  BY DEF IInv
<1>3. CASE IsEmpty(queue[w])
  <2>1. thread' = [thread EXCEPT ![t].pc = "decrement"] /\ join' = join
    BY <1>1, <1>3 DEF SyncPop, Goto
  <2>2. /\ thread'[t].pc # "unborn" /\ thread'[t].open = thread[t].open
        /\ \A u \in Threads : u # t => thread'[u] = thread[u]
    BY <1>2, <2>1 DEF Types, ThreadStates
  <2> QED
    BY <1>1, <1>2, <2>1, <2>2, GoesOnRefines
<1>4. CASE ~IsEmpty(queue[w])
  <2>1. PICK f \in Forks : f = TopFork(w) /\ f = Top(t) /\ Open(t) # <<>>
    BY <1>1, InnermostFacts DEF SyncPop, Open
  <2>2. PICK h \in {"inlined", "dropped", "joined"} :
          h # "joined" /\ join' = [join EXCEPT ![f].how = h]
    BY <1>4, <2>1 DEF SyncPop
  <2>3. Joined(t, f)
    BY <1>1, <1>4, <2>1 DEF SyncPop
  <2>4. Unstarted(f)
    <3>1. Holds(w, t) /\ Hi(w) = Level(t) /\ ~Empty(w)
      BY <1>1, <1>2, <1>4, DequeFacts DEF DequeInv, Runs, Types, Empty, Lo, Hi
    <3> QED
      BY <2>1, <3>1, TopSlot
  <2>5. Phase(f) = "forked"
    BY <2>4 DEF Unstarted, Born, Pc, Phase
  <2> QED
    BY <1>1, <2>1, <2>2, <2>3, <2>5, CloseRefines
<1> QED
  BY <1>3, <1>4

(* A right side that was stolen is joined when it is done.                  *)
LEMMA SyncJoinRefines ==
  ASSUME IInv, NEW w \in Workers, SyncJoin(w)
  PROVE  Refines
<1>1. CASE UNCHANGED <<thread, join>>
  BY <1>1, SameRefines
<1>2. CASE ~UNCHANGED <<thread, join>>
  <2>1. PICK t \in Threads :
          t = Current(w) /\ Pc(t) = "join" /\ OpenInv(t) /\ UserInv(w, t) /\ User(w, t)
    BY RunsFacts DEF SyncJoin
  <2>2. PICK f \in Forks :
          f = TopFork(w) /\ f = Top(t) /\ join[f].how = "forked" /\ ForkInv(f) /\ Open(t) # <<>>
    BY <2>1, InnermostFacts DEF OpenInv
  <2>3. Joined(t, f) /\ join' = [join EXCEPT ![f].how = "joined"]
    BY <1>2, <2>1, <2>2 DEF SyncJoin, Die
  <2>4. Phase(f) = "done"
    <3>1. Pc(f) \in {"leave", "gone"} /\ f # Nil
      BY <2>1, <2>2, ConstantsAssumption DEF UserInv
    <3> QED
      BY <2>2, <3>1 DEF ForkInv, Phase, Pc
  <2>5. PICK h \in {"inlined", "dropped", "joined"} :
          h = "joined" /\ join' = [join EXCEPT ![f].how = h]
    BY <2>3
  <2>6. Pc(t) \in {"run", "join"} /\ Phase(f) = IF h = "joined" THEN "done" ELSE "forked"
    BY <2>1, <2>4, <2>5
  <2> QED
    BY <2>2, <2>3, <2>5, <2>6, CloseRefines
<1> QED
  BY <1>1, <1>2

(* A stolen right side is started.                                          *)
LEMMA StealNewThreadRefines ==
  ASSUME IInv, NEW w \in Workers, NEW v \in Workers, StealNewThread(w, v)
  PROVE  Refines
<1>1. /\ Lo(v) \in Slots(v) /\ Slot(v, Lo(v)) = Head(queue[v].tasks)
      /\ Slot(v, Lo(v)).kind = "NewThread"
  <2>1. PICK k : k = "NewThread"
    OBVIOUS
  <2> QED
    BY <2>1, AcquireFacts DEF StealNewThread
<1>2. PICK f \in Forks : Head(queue[v].tasks) = NewThread(f) /\ Unstarted(f)
  BY <1>1, SlotFacts
<1>3. /\ thread' = [thread EXCEPT ![f].pc = "run", ![f].depth = join[f].depth + 1] /\ join' = join
      /\ Types /\ f \in Threads
  <2>1. Head(queue[v].tasks).id = f /\ Head(queue[v].tasks).depth = join[f].depth
    BY <1>2 DEF NewThread
  <2>2. thread' = [thread EXCEPT ![f].pc = "run", ![f].depth = join[f].depth + 1] /\ join' = join
    BY <2>1 DEF StealNewThread
  <2> QED
    BY <2>2 DEF IInv, Threads
<1>4. /\ thread'[f].pc = "run" /\ thread'[f].open = thread[f].open
      /\ \A u \in Threads : u # f => thread'[u] = thread[u]
  BY <1>3 DEF Types, ThreadStates
<1>5. /\ join[f].how = "forked" /\ thread[f].pc = "unborn" /\ join[f].right = Nil
  BY <1>2 DEF Unstarted, Born, Pc, IInv, ForkInv
<1>6. Phase(f) = "forked" /\ Phase(f)' = "running" /\ \A g \in Forks : g # f => Phase(g)' = Phase(g)
  BY <1>3, <1>4, <1>5 DEF Phase, Threads
<1>7. Abstract!Start(f)
  BY <1>4, <1>6 DEF Abstract!Start
<1> QED
  BY <1>7 DEF Refines, Abstract!Next

(* A right side is done.                                                    *)
LEMMA RightDoneRefines ==
  ASSUME IInv, NEW w \in Workers, RightDone(w)
  PROVE  Refines
<1>1. CASE UNCHANGED <<thread, join>>
  BY <1>1, SameRefines
<1>2. CASE ~UNCHANGED <<thread, join>>
  <2>1. PICK f \in Threads : f = Current(w) /\ Pc(f) = "run" /\ thread[f].pc = "run"
    BY RunsFacts DEF RightDone
  <2>2. /\ f \in Forks /\ f # Nil /\ thread[f].open = <<>> /\ Types
        /\ join' = [join EXCEPT ![f].right = f] /\ thread' = [thread EXCEPT ![f].pc = "done"]
    BY <1>2, <2>1, ConstantsAssumption DEF RightDone, Die, Goto, Threads, IInv
  <2>3. /\ thread'[f].pc = "done" /\ thread'[f].open = thread[f].open
        /\ \A u \in Threads : u # f => thread'[u] = thread[u]
    BY <2>2 DEF Types, ThreadStates
  <2>4. /\ join'[f].right = f /\ join'[f].how = join[f].how
        /\ \A g \in Forks : g # f => join'[g] = join[g]
    BY <2>2 DEF Types, Joinpoints
  <2>5. Phase(f) = "running" /\ join[f].how = "forked"
    <3>1. f # Root
      BY <2>2, ConstantsAssumption
    <3>2. Phase(f) = "running"
      BY <2>1, <3>1, StrandRuns
    <3>3. join[f].how = "forked"
      <4>1. join[f].how \in {"none", "forked", "inlined", "dropped", "joined"}
        BY <2>2 DEF Types, Joinpoints
      <4> QED
        BY <3>2, <4>1 DEF Phase
    <3> QED
      BY <3>2, <3>3
  <2>6. Phase(f)' = "done" /\ \A g \in Forks : g # f => Phase(g)' = Phase(g)
    BY <2>1, <2>2, <2>3, <2>4, <2>5 DEF Phase, Threads
  <2>7. Abstract!Finish(f)
    <3>1. \A t \in Threads : thread'[t].open = thread[t].open
      BY <2>3
    <3>2. [t \in Threads |-> thread[t].open][f] = <<>> /\ [g \in Forks |-> Phase(g)][f] = "running"
      BY <2>2, <2>5
    <3>3. [g \in Forks |-> Phase(g)]' = [[g \in Forks |-> Phase(g)] EXCEPT ![f] = "done"]
      BY <2>2, <2>6
    <3>4. [t \in Threads |-> thread[t].open]' = [t \in Threads |-> thread[t].open]
      BY <3>1
    <3> QED
      BY <3>2, <3>3, <3>4 DEF Abstract!Finish
  <2> QED
    BY <2>2, <2>7 DEF Refines, Abstract!Next
<1> QED
  BY <1>1, <1>2

(* The steps of a thread that ForkJoin does not see.                        *)
LEMMA UserStepRefines ==
  ASSUME IInv, NEW w \in Workers, UserStep(w)
  PROVE  Refines
<1>1. ASSUME NEW f \in Forks, SpawnAlone(w, f) \/ SpawnWithGC(w, f) PROVE Refines
  BY <1>1, SpawnRefines
<1>2. CASE DoSpawn(w)
  <2>1. CASE IsFull(queue[w])
    BY <1>2, <2>1, SameRefines DEF DoSpawn, Die
  <2>2. CASE ~IsFull(queue[w])
    <3>1. PICK t \in Threads : t = Current(w) /\ thread[t].pc = "spawn" /\ OpenInv(t) /\ Pc(t) = "spawn"
      BY <1>2, RunsFacts DEF DoSpawn
    <3>2. PICK f \in Forks : f = TopFork(w)
      BY <3>1, InnermostFacts DEF OpenInv
    <3>3. PICK d : d = thread[t].depth + 1
      OBVIOUS
    <3>4. Types /\ thread[t] \in ThreadStates /\ join[f] \in Joinpoints
      BY DEF IInv, Types
    <3>5. /\ thread' = [thread EXCEPT ![t] = [thread[t] EXCEPT !.pc = "run", !.depth = d]]
          /\ join' = [join EXCEPT ![f].incounter = 2]
      BY <1>2, <2>2, <3>1, <3>2, <3>3 DEF DoSpawn
    <3>6. /\ thread'[t].pc = "run" /\ thread'[t].open = thread[t].open
          /\ \A u \in Threads : u # t => thread'[u] = thread[u]
      BY <3>4, <3>5 DEF Types, ThreadStates
    <3>7. \A g \in Forks : join'[g].how = join[g].how /\ join'[g].right = join[g].right
      BY <3>4, <3>5 DEF Types, Joinpoints
    <3> QED
      BY <3>1, <3>4, <3>6, <3>7, GoesOnRefines
  <2> QED
    BY <2>1, <2>2
<1>3. CASE SyncPop(w)
  BY <1>3, SyncPopRefines
<1>4. CASE SyncDecrement(w)
  <2>1. PICK t \in Threads :
          t = Current(w) /\ thread[t].pc = "decrement" /\ OpenInv(t) /\ Pc(t) = "decrement"
    BY <1>4, RunsFacts DEF SyncDecrement
  <2>2. PICK f \in Forks : f = TopFork(w)
    BY <2>1, InnermostFacts DEF OpenInv
  <2>3. PICK c \in {"join", "wait"} : c = IF HitsZero(f) THEN "join" ELSE "wait"
    OBVIOUS
  <2>4. Types /\ thread' = [thread EXCEPT ![t].pc = c] /\ Decrement(f)
    BY <1>4, <2>1, <2>2, <2>3 DEF SyncDecrement, Goto, IInv
  <2>5. /\ thread'[t].pc = c /\ thread'[t].open = thread[t].open
        /\ \A u \in Threads : u # t => thread'[u] = thread[u]
    BY <2>4 DEF Types, ThreadStates
  <2>6. \A g \in Forks : join'[g].how = join[g].how /\ join'[g].right = join[g].right
    BY <2>4 DEF Types, Joinpoints, Decrement
  <2> QED
    BY <2>1, <2>3, <2>4, <2>5, <2>6, GoesOnRefines
<1>5. CASE SyncWait(w) \/ SyncGCLeave(w) \/ RightLeave(w)
  <2>1. PICK c \in {"wait", "offered", "leave"}, e \in {"join", "resumed", "gone"} :
          At(w, c) /\ ReturnToSched(w, e)
    BY <1>5 DEF SyncWait, SyncGCLeave, RightLeave
  <2>2. PICK t \in Threads : t = Current(w) /\ thread[t].pc = c
    BY <2>1, RunsFacts
  <2>3. /\ thread' = [thread EXCEPT ![t].pc = e, ![t].proc = Nil]
        /\ join' = join /\ Types
    BY <2>1, <2>2 DEF ReturnToSched, IInv
  <2>4. /\ thread'[t].pc = e /\ thread'[t].open = thread[t].open
        /\ \A u \in Threads : u # t => thread'[u] = thread[u]
    BY <2>3 DEF Types, ThreadStates
  <2> QED
    BY <2>1, <2>2, <2>3, <2>4, GoesOnRefines
<1>6. CASE SyncJoin(w)
  BY <1>6, SyncJoinRefines
<1>7. CASE SyncGC(w) \/ SyncGCResume(w)
  <2>1. PICK t \in Threads : t = Current(w) /\ thread[t].pc \in {"syncGC", "resumed"}
    BY <1>7, RunsFacts DEF SyncGC, SyncGCResume
  <2>2. Types /\ thread[t] \in ThreadStates /\ join' = join
    BY <1>7 DEF IInv, Types, SyncGC, SyncGCResume
  <2>3. PICK d : d = thread[t].depth - 1
    OBVIOUS
  <2>4. \/ thread' = [thread EXCEPT ![t] = [thread[t] EXCEPT !.pc = "run", !.gc = Nil, !.depth = d]]
        \/ thread' = [thread EXCEPT ![t].pc = "offered"]
    BY <1>7, <2>1, <2>3 DEF SyncGC, SyncGCResume, Goto
  <2>5. /\ thread'[t].pc \in {"run", "offered"} /\ thread'[t].open = thread[t].open
        /\ \A u \in Threads : u # t => thread'[u] = thread[u]
    <3>1. CASE thread' = [thread EXCEPT ![t].pc = "offered"]
      BY <2>2, <3>1 DEF Types, ThreadStates
    <3>2. CASE thread' = [thread EXCEPT ![t] = [thread[t] EXCEPT !.pc = "run", !.gc = Nil, !.depth = d]]
      BY <2>2, <3>2 DEF Types, ThreadStates
    <3> QED
      BY <2>4, <3>1, <3>2
  <2> QED
    BY <2>1, <2>2, <2>5, GoesOnRefines
<1>8. CASE RightDone(w)
  BY <1>8, RightDoneRefines
<1>9. CASE RightDecrement(w)
  <2>1. CASE UNCHANGED <<thread, join>>
    BY <2>1, SameRefines
  <2>2. CASE ~UNCHANGED <<thread, join>>
    <3>1. PICK t \in Threads :
            /\ t = Current(w) /\ thread[t].pc = "done" /\ ThreadInv(t) /\ Pc(t) = "done"
      BY <1>9, RunsFacts DEF RightDecrement
    <3>2. Types /\ t \in Forks
      BY <3>1 DEF ThreadInv, Threads, IInv
    <3>3. PICK c \in {"leave", "toLeft"} : thread' = [thread EXCEPT ![t].pc = c]
      BY <1>9, <2>2, <3>1 DEF RightDecrement, Goto, Die
    <3>4. Decrement(t)
      BY <1>9, <2>2, <3>1 DEF RightDecrement, Die
    <3>5. /\ thread'[t].pc = c /\ thread'[t].open = thread[t].open
          /\ \A u \in Threads : u # t => thread'[u] = thread[u]
      BY <3>2, <3>3 DEF Types, ThreadStates
    <3>6. \A g \in Forks : join'[g].how = join[g].how /\ join'[g].right = join[g].right
      BY <3>2, <3>4 DEF Types, Joinpoints, Decrement
    <3> QED
      BY <3>1, <3>2, <3>3, <3>5, <3>6, GoesOnRefines
  <2> QED
    BY <2>1, <2>2
<1>10. CASE RightToLeft(w)
  <2>1. PICK t \in Threads : t = Current(w) /\ thread[t].pc = "toLeft"
    BY <1>10, RunsFacts DEF RightToLeft
  <2>2. /\ thread' = [thread EXCEPT ![t].pc = "gone", ![t].proc = Nil]
        /\ join' = join /\ Types
    BY <1>10, <2>1 DEF RightToLeft, IInv
  <2>3. /\ thread'[t].pc = "gone" /\ thread'[t].open = thread[t].open
        /\ \A u \in Threads : u # t => thread'[u] = thread[u]
    BY <2>2 DEF Types, ThreadStates
  <2> QED
    BY <2>1, <2>2, <2>3, GoesOnRefines
<1>11. CASE Exit(w)
  BY <1>11, SameRefines DEF Exit
<1> QED
  BY <1>1, <1>2, <1>3, <1>4, <1>5, <1>6, <1>7, <1>8, <1>9, <1>10, <1>11 DEF UserStep

(* Every step is a step of ForkJoin or one that it does not see.            *)
LEMMA NextRefines ==
  ASSUME IInv, [Next]_vars
  PROVE  Refines
<1>1. CASE UNCHANGED vars
  BY <1>1, SameRefines DEF vars
<1>2. CASE Ended
  BY <1>2, SameRefines DEF Ended, vars
<1>3. ASSUME NEW w \in Workers, UserStep(w) PROVE Refines
  BY <1>3, UserStepRefines
<1>4. ASSUME NEW w \in Workers, SchedStep(w) PROVE Refines
  <2>1. CASE SwitchToThread(w)
    <3>1. PICK t \in Threads : t = Current(w)
      BY <2>1 DEF SwitchToThread, IInv, WorkerInv, Current
    <3>2. thread' = [thread EXCEPT ![t].proc = w] /\ join' = join /\ Types
      BY <2>1, <3>1 DEF SwitchToThread, IInv
    <3>3. /\ thread'[t].pc = thread[t].pc /\ thread'[t].open = thread[t].open
          /\ \A u \in Threads : u # t => thread'[u] = thread[u]
      BY <3>2 DEF Types, ThreadStates
    <3> QED
      BY <3>2, <3>3, UnseenRefines DEF Unseen, Threads
  <2>2. CASE BackInSched(w) \/ BackWithGC(w) \/ Collect(w) \/ PopContinuation(w)
    BY <2>2, SameRefines DEF BackInSched, BackWithGC, Collect, PopContinuation, Rest, Die
  <2> QED
    BY <1>4, <2>1, <2>2 DEF SchedStep
<1>5. ASSUME NEW w \in Workers, NEW v \in Workers, StealStep(w, v) PROVE Refines
  <2>1. CASE StealNewThread(w, v)
    BY <2>1, StealNewThreadRefines
  <2>2. CASE ~StealNewThread(w, v)
    BY <1>5, <2>2, SameRefines DEF StealStep, StealNothing, StealGCTask, StealContinuation, vars
  <2> QED
    BY <2>1, <2>2
<1> QED
  BY <1>1, <1>2, <1>3, <1>4, <1>5 DEF Next

(* The protocol implements nested fork-join: the right side of a fork is    *)
(* run once, by a thief or by the left side, the left side goes on only     *)
(* when it is done, and forks are joined innermost first.                   *)
THEOREM ImplementsForkJoinHolds == Spec => ImplementsForkJoin
<1>1. Init => Abstract!Init
  <2> SUFFICES ASSUME Init PROVE Abstract!Init
    OBVIOUS
  <2>1. \A f \in Forks : Phase(f) = "none"
    BY DEF Init, Phase
  <2>2. \A t \in Threads : thread[t].open = <<>>
    BY DEF Init
  <2> QED
    BY <2>1, <2>2 DEF Abstract!Init, Abstract!Strands, Threads
<1>2. IInv /\ [Next]_vars => [Abstract!Next]_(Abstract!vars)
  BY NextRefines DEF Refines
<1> QED
  BY <1>1, <1>2, Invariant, PTL DEF Spec, ImplementsForkJoin
=============================================================================
