----------------------------- MODULE SporkJoin -----------------------------
(***************************************************************************)
(* The fork-join protocol of schedulers/spork/Scheduler.sml on top of the  *)
(* workers' deques: spawn, sync, the right side's end, the scheduler loop, *)
(* and the tasks of the concurrent collector that a spawn adds.  Switching *)
(* threads is GC_switchToThread of runtime/gc/switch-thread.c.             *)
(*                                                                         *)
(* A step is what a worker does between two accesses that other workers    *)
(* can see: to a deque (taken as WorkDeque describes it), to a joinpoint's *)
(* incounter, to the processor number of a thread.                         *)
(***************************************************************************)
EXTENDS Integers, Sequences, SequencesExt

CONSTANTS
  Workers,      \* the processors
  First,        \* the one that runs the main program
  Forks,        \* the forks the program may reach
  Root,         \* the main program's thread
  Capacity,     \* Queue.capacity, 63 in the code
  MaxCCDepth,   \* the deepest level with a concurrent collection, 3 by default
  Nil           \* "none"

ASSUME ConstantsAssumption ==
  /\ First \in Workers
  /\ Root \notin Forks
  /\ Capacity \in Nat \ {0}
  /\ MaxCCDepth \in Nat
  /\ Nil \notin Workers \union Forks \union {Root}

(* The thread that runs the right side of fork f is called f.              *)
Threads == Forks \union {Root}

VARIABLES
  queue,    \* each worker's deque: its lowest depth and its tasks
  worker,   \* what each worker does: user code of a thread, or scheduling
  gcTask,   \* the worker's gcTask box: the fork whose heap is to be collected
  thread,   \* the user threads
  join,     \* the joinpoint of each fork
  gcRuns,   \* history: how often each fork's collection was run
  status    \* "running", "exited" or the message the program died with

vars == <<queue, worker, gcTask, thread, join, gcRuns, status>>

Running == status = "running"

-------------------------------------------------------------------------------
(* Tasks and deques *)

NewThread(f) == [kind |-> "NewThread", id |-> f, depth |-> join[f].depth]
GCTask(f) == [kind |-> "GCTask", id |-> f, depth |-> 0]
Continuation(t, d) == [kind |-> "Continuation", id |-> t, depth |-> d]

Bot(q) == q.lo + Len(q.tasks)
IsEmpty(q) == q.tasks = <<>>
IsFull(q) == Bot(q) >= Capacity
PushBot(q, x) == [q EXCEPT !.tasks = Append(@, x)]
BugPopOldest(q) == [q EXCEPT !.tasks = Tail(@)]
PopBot(q) == [q EXCEPT !.tasks = Front(@)]
PopTop(q)     == [lo |-> q.lo + 1, tasks |-> Tail(q.tasks)]
AtDepth(d)    == [lo |-> d, tasks |-> <<>>]

Die(message) ==
  /\ status' = message
  /\ UNCHANGED <<queue, worker, gcTask, thread, join, gcRuns>>

-------------------------------------------------------------------------------
(* Threads *)

(* The thread of worker w is at control point c.                           *)
At(w, c) ==
  /\ Running
  /\ worker[w].at = "user"
  /\ thread[worker[w].thread].pc = c

Current(w) == worker[w].thread
Depth(w) == thread[Current(w)].depth
TopFork(w) == Last(thread[Current(w)].open)

(* The thread of w goes on at control point c, with some fields changed.   *)
Goto(w, c) == thread' = [thread EXCEPT ![Current(w)].pc = c]

Init ==
  /\ queue = [w \in Workers |-> AtDepth(1)]
  /\ worker = [w \in Workers |->
       IF w = First THEN [at |-> "user", thread |-> Root, gc |-> Nil]
       ELSE [at |-> "steal", thread |-> Nil, gc |-> Nil]]
  /\ gcTask = [w \in Workers |-> Nil]
  /\ thread = [t \in Threads |->
       IF t = Root
       THEN [pc |-> "run", depth |-> 1, open |-> <<>>, gc |-> Nil, proc |-> First]
       ELSE [pc |-> "unborn", depth |-> 0, open |-> <<>>, gc |-> Nil, proc |-> Nil]]
  /\ join = [f \in Forks |->
       [left |-> Nil, depth |-> 0, incounter |-> 0, right |-> Nil,
        gc |-> FALSE, how |-> "none"]]
  /\ gcRuns = [f \in Forks |-> 0]
  /\ status = "running"

-------------------------------------------------------------------------------
(* Spawning: the heartbeat handler or an eager fork promotes a frame.      *)

(* maybeSpawn checks the depth and finds a frame to promote.               *)
CanSpawn(w, f) ==
  /\ At(w, "run")
  /\ join[f].how = "none"
  /\ Depth(w) < Capacity

(* spawnGC makes no collection: this deep there is none, or no             *)
(* continuation could be registered for the collector.                     *)
SpawnAlone(w, f) ==
  /\ CanSpawn(w, f)
  /\ join' = [join EXCEPT ![f].left = Current(w), ![f].depth = Depth(w),
                          ![f].how = "forked"]
  /\ thread' = [thread EXCEPT ![Current(w)].pc = "spawn",
                              ![Current(w)].open = Append(@, f)]
  /\ UNCHANGED <<queue, worker, gcTask, gcRuns, status>>

(* spawnGC pushes the collection of the heap at this depth, and the fork   *)
(* is one level deeper.                                                    *)
SpawnWithGC(w, f) ==
  /\ CanSpawn(w, f)
  /\ Depth(w) <= MaxCCDepth
  /\ IF IsFull(queue[w]) THEN Die("exceeded max fork depth")
     ELSE /\ queue' = [queue EXCEPT ![w] = PushBot(@, GCTask(f))]
          /\ join' = [join EXCEPT ![f].left = Current(w), ![f].depth = Depth(w) + 1,
                                  ![f].gc = TRUE, ![f].how = "forked"]
          /\ thread' = [thread EXCEPT ![Current(w)].pc = "spawn",
                                      ![Current(w)].depth = @ + 1,
                                      ![Current(w)].open = Append(@, f)]
          /\ UNCHANGED <<worker, gcTask, gcRuns, status>>

(* doSpawn: the joinpoint waits for two, the right side is pushed.  With   *)
(* no slot left pushBot exits the program.                                 *)
DoSpawn(w) ==
  /\ At(w, "spawn")
  /\ IF IsFull(queue[w])
     THEN Die("exceeded max fork depth")
     ELSE /\ join' = [join EXCEPT ![TopFork(w)].incounter = 2]
          /\ queue' = [queue EXCEPT ![w] = PushBot(@, NewThread(TopFork(w)))]
          /\ thread' = [thread EXCEPT ![Current(w)].pc = "run",
                                      ![Current(w)].depth = @ + 1]
          /\ UNCHANGED <<worker, gcTask, gcRuns, status>>

-------------------------------------------------------------------------------
(* syncEndAtomic, run by the left side when its body is done               *)

(* The fork is closed; what follows is syncGC if it has a collection.      *)
BugBothLevels(t, f) ==
  thread' = [thread EXCEPT ![t].pc = IF join[f].gc THEN "syncGC" ELSE "run",
                           ![t].gc = IF join[f].gc THEN f ELSE Nil,
                           ![t].depth = IF join[f].gc THEN @ - 2 ELSE @ - 1,
                           ![t].open = Front(@)]
Joined(t, f) ==
  thread' = [thread EXCEPT ![t].pc = IF join[f].gc THEN "syncGC" ELSE "run",
                           ![t].gc = IF join[f].gc THEN f ELSE Nil,
                           ![t].depth = @ - 1,
                           ![t].open = Front(@)]

(* popDiscard: what is popped is taken for the right side, unstolen.  It   *)
(* is run after the sync, or dropped if the body raised.                   *)
SyncPop(w) ==
  /\ At(w, "run")
  /\ thread[Current(w)].open # <<>>
  /\ IF IsEmpty(queue[w])
     THEN /\ Goto(w, "decrement")
          /\ UNCHANGED <<queue, join>>
     ELSE /\ queue' = [queue EXCEPT ![w] = PopBot(@)]
          /\ Joined(Current(w), TopFork(w))
          /\ \E how \in {"inlined", "dropped"} :
               join' = [join EXCEPT ![TopFork(w)].how = how]
  /\ UNCHANGED <<worker, gcTask, gcRuns, status>>

(* The right side was stolen: the last of the two sides goes on.  What     *)
(* decrementHitsZero answers is decided by the fetch-and-add.              *)
BugOffByOne(f) == join[f].incounter = 0
BugNoCounter(f) == TRUE
HitsZero(f) == join[f].incounter = 1

Decrement(f) == join' = [join EXCEPT ![f].incounter = @ - 1]

SyncDecrement(w) ==
  /\ At(w, "decrement")
  /\ Decrement(TopFork(w))
  /\ Goto(w, IF HitsZero(TopFork(w)) THEN "join" ELSE "wait")
  /\ UNCHANGED <<queue, worker, gcTask, gcRuns, status>>

(* A processor number of -1 says that no processor is in the thread: what  *)
(* joinIntoParent and switchToThread spin on.                              *)
BugNoSpin(t) == TRUE
IsFree(t) == thread[t].proc = Nil

(* The right side's thread is read and its heap joined, the deque's depth  *)
(* is lowered, and the result is read.                                     *)
SyncJoin(w) ==
  LET f == TopFork(w) IN
  /\ At(w, "join")
  /\ \/ join[f].right = Nil /\ Die("join failed")
     \/ /\ join[f].right # Nil
        /\ IsFree(join[f].right)
        /\ ~IsEmpty(queue[w])
        /\ Die("set depth of non-empty deque")
     \/ /\ join[f].right # Nil
        /\ IsFree(join[f].right)
        /\ IsEmpty(queue[w])
        /\ queue' = [queue EXCEPT ![w] = AtDepth(Depth(w) - 1)]
        /\ Joined(Current(w), f)
        /\ join' = [join EXCEPT ![f].how = "joined"]
        /\ UNCHANGED <<worker, gcTask, gcRuns, status>>

(* The current thread leaves its processor, which goes to its scheduler    *)
(* thread; when it is resumed it goes on at pc.                            *)
ReturnToSched(w, pc) ==
  /\ thread' = [thread EXCEPT ![Current(w)].pc = pc, ![Current(w)].proc = Nil]
  /\ worker' = [worker EXCEPT ![w] = [at |-> "back", thread |-> Nil, gc |-> Nil]]
  /\ UNCHANGED <<queue, gcTask, join, gcRuns, status>>

SyncWait(w) == At(w, "wait") /\ ReturnToSched(w, "join")

-------------------------------------------------------------------------------
(* syncGC, after the join of a fork that came with a collection            *)

(* The box through which syncGC tells the scheduler thread.                *)
BugNoMessage(w, f) == UNCHANGED gcTask
SetGCTask(w, f) == gcTask' = [gcTask EXCEPT ![w] = f]

(* Unstolen, the collection is left to this worker's scheduler, and the    *)
(* thread offers its own continuation to the thieves meanwhile; stolen, a  *)
(* thief runs it.                                                          *)
SyncGC(w) ==
  LET t == Current(w) IN
  /\ At(w, "syncGC")
  /\ IF IsEmpty(queue[w])
     THEN /\ queue' = [queue EXCEPT ![w] = AtDepth(Depth(w) - 1)]
          /\ thread' = [thread EXCEPT ![t].pc = "run", ![t].gc = Nil, ![t].depth = @ - 1]
          /\ UNCHANGED gcTask
     ELSE /\ SetGCTask(w, thread[t].gc)
          /\ queue' = [queue EXCEPT ![w] =
               PushBot(PopBot(@), Continuation(t, Depth(w) - 1))]
          /\ Goto(w, "offered")
  /\ UNCHANGED <<worker, join, gcRuns, status>>

SyncGCLeave(w) == At(w, "offered") /\ ReturnToSched(w, "resumed")

SyncGCResume(w) ==
  /\ At(w, "resumed")
  /\ thread' = [thread EXCEPT ![Current(w)].pc = "run", ![Current(w)].gc = Nil,
                              ![Current(w)].depth = @ - 1]
  /\ UNCHANGED <<queue, worker, gcTask, join, gcRuns, status>>

-------------------------------------------------------------------------------
(* The end of a right side that was stolen (spwn')                         *)

RightDone(w) ==
  LET f == Current(w) IN
  /\ At(w, "run")
  /\ f # Root
  /\ thread[f].open = <<>>
  /\ IF Depth(w) # join[f].depth + 1 THEN Die("rightside depth mismatch")
     ELSE /\ join' = [join EXCEPT ![f].right = f]
          /\ Goto(w, "done")
          /\ UNCHANGED <<queue, worker, gcTask, gcRuns, status>>

RightDecrement(w) ==
  LET f == Current(w) IN
  /\ At(w, "done")
  /\ IF ~HitsZero(f)
     THEN Decrement(f) /\ Goto(w, "leave") /\ UNCHANGED <<queue, worker, gcTask, gcRuns, status>>
     ELSE IF ~IsEmpty(queue[w]) THEN Die("set depth of non-empty deque")
     ELSE /\ Decrement(f)
          /\ queue' = [queue EXCEPT ![w] = AtDepth(Depth(w))]
          /\ Goto(w, "toLeft")
          /\ UNCHANGED <<worker, gcTask, gcRuns, status>>

RightLeave(w) == At(w, "leave") /\ ReturnToSched(w, "gone")

(* The right side was last: its worker goes on with the left side, as soon *)
(* as that has left its processor.                                         *)
RightToLeft(w) ==
  LET f == Current(w) IN
  /\ At(w, "toLeft")
  /\ thread' = [thread EXCEPT ![f].pc = "gone", ![f].proc = Nil]
  /\ worker' = [worker EXCEPT ![w] =
       [at |-> "switch", thread |-> join[f].left, gc |-> Nil]]
  /\ UNCHANGED <<queue, gcTask, join, gcRuns, status>>

SwitchToThread(w) ==
  /\ Running
  /\ worker[w].at = "switch"
  /\ IsFree(Current(w))
  /\ thread' = [thread EXCEPT ![Current(w)].proc = w]
  /\ worker' = [worker EXCEPT ![w].at = "user"]
  /\ UNCHANGED <<queue, gcTask, join, gcRuns, status>>

-------------------------------------------------------------------------------
(* The scheduler loop *)

(* afterReturnToSched without a collection to do, or done with it; the     *)
(* worker's deque goes back to depth 1 before it looks for work.           *)
Rest(w) ==
  IF ~IsEmpty(queue[w]) THEN Die("set depth of non-empty deque")
  ELSE /\ queue' = [queue EXCEPT ![w] = AtDepth(1)]
       /\ worker' = [worker EXCEPT ![w].at = "steal"]
       /\ UNCHANGED <<gcTask, thread, join, gcRuns, status>>

BackInSched(w) ==
  /\ Running
  /\ worker[w].at = "back"
  /\ gcTask[w] = Nil
  /\ Rest(w)

(* The box is emptied before the collection starts.                        *)
BugKeepBox(w) == UNCHANGED gcTask
EmptyBox(w) == gcTask' = [gcTask EXCEPT ![w] = Nil]

BackWithGC(w) ==
  /\ Running
  /\ worker[w].at = "back"
  /\ gcTask[w] # Nil
  /\ EmptyBox(w)
  /\ worker' = [worker EXCEPT ![w].at = "collect", ![w].gc = gcTask[w]]
  /\ UNCHANGED <<queue, thread, join, gcRuns, status>>

(* collectThreadRoot, of a collection that was unstolen or that was stolen *)
(* from another worker.                                                    *)
Collect(w) ==
  /\ Running
  /\ worker[w].at \in {"collect", "collectStolen"}
  /\ gcRuns' = [gcRuns EXCEPT ![worker[w].gc] = @ + 1]
  /\ worker' = [worker EXCEPT
       ![w].at = IF worker[w].at = "collect" THEN "pop" ELSE "steal",
       ![w].gc = Nil]
  /\ UNCHANGED <<queue, gcTask, thread, join, status>>

(* Back from the collection: the thread's continuation may have been       *)
(* stolen.                                                                 *)
PopContinuation(w) ==
  /\ Running
  /\ worker[w].at = "pop"
  /\ IF IsEmpty(queue[w]) THEN Rest(w)
     ELSE IF Last(queue[w].tasks).kind # "Continuation"
     THEN Die("afterReturnToSched: impossible")
     ELSE /\ queue' = [queue EXCEPT ![w] = PopBot(@)]
          /\ worker' = [worker EXCEPT ![w].at = "switch",
                                      ![w].thread = Last(queue[w].tasks).id]
          /\ UNCHANGED <<gcTask, thread, join, gcRuns, status>>

(* acquireWork, after trySteal answered a task of the victim v             *)
Acquire(w, v, kind) ==
  /\ Running
  /\ worker[w].at = "steal"
  /\ v # w
  /\ ~IsEmpty(queue[v])
  /\ Head(queue[v].tasks).kind = kind

(* trySteal answered NONE: the loop tries again.                           *)
StealNothing(w, v) ==
  /\ Running
  /\ worker[w].at = "steal"
  /\ v # w
  /\ IsEmpty(queue[v])
  /\ UNCHANGED vars

StealGCTask(w, v) ==
  /\ Acquire(w, v, "GCTask")
  /\ queue' = [queue EXCEPT ![v] = PopTop(@)]
  /\ worker' = [worker EXCEPT ![w].at = "collectStolen",
                              ![w].gc = Head(queue[v].tasks).id]
  /\ UNCHANGED <<gcTask, thread, join, gcRuns, status>>

(* The thief's deque starts at the depth at which the task will go on.     *)
BugDepthOfTask(task) == task.depth
StartDepth(task) == IF task.kind = "NewThread" THEN task.depth + 1 ELSE task.depth

StealContinuation(w, v) ==
  LET task == Head(queue[v].tasks) IN
  /\ Acquire(w, v, "Continuation")
  /\ queue' = [queue EXCEPT ![v] = PopTop(@), ![w] = AtDepth(StartDepth(task))]
  /\ worker' = [worker EXCEPT ![w].at = "switch", ![w].thread = task.id]
  /\ UNCHANGED <<gcTask, thread, join, gcRuns, status>>

(* The task becomes a thread one level deeper than the fork.               *)
StealNewThread(w, v) ==
  LET task == Head(queue[v].tasks) IN
  /\ Acquire(w, v, "NewThread")
  /\ queue' = [queue EXCEPT ![v] = PopTop(@), ![w] = AtDepth(StartDepth(task))]
  /\ thread' = [thread EXCEPT ![task.id].pc = "run",
                              ![task.id].depth = task.depth + 1]
  /\ worker' = [worker EXCEPT ![w].at = "switch", ![w].thread = task.id]
  /\ UNCHANGED <<gcTask, join, gcRuns, status>>

-------------------------------------------------------------------------------
(* The main program ends and with it the process.                          *)
Exit(w) ==
  /\ At(w, "run")
  /\ Current(w) = Root
  /\ thread[Root].open = <<>>
  /\ status' = "exited"
  /\ UNCHANGED <<queue, worker, gcTask, thread, join, gcRuns>>

UserStep(w) ==
  \/ \E f \in Forks : SpawnAlone(w, f) \/ SpawnWithGC(w, f)
  \/ DoSpawn(w)
  \/ SyncPop(w) \/ SyncDecrement(w) \/ SyncWait(w) \/ SyncJoin(w)
  \/ SyncGC(w) \/ SyncGCLeave(w) \/ SyncGCResume(w)
  \/ RightDone(w) \/ RightDecrement(w) \/ RightLeave(w) \/ RightToLeft(w)
  \/ Exit(w)

SchedStep(w) ==
  \/ SwitchToThread(w)
  \/ BackInSched(w) \/ BackWithGC(w)
  \/ Collect(w) \/ PopContinuation(w)

StealStep(w, v) ==
  \/ StealNothing(w, v)
  \/ StealGCTask(w, v) \/ StealContinuation(w, v) \/ StealNewThread(w, v)

(* The process is gone.                                                    *)
Ended == ~Running /\ UNCHANGED vars

Next ==
  \/ Ended
  \/ \E w \in Workers :
       UserStep(w) \/ SchedStep(w) \/ \E v \in Workers : StealStep(w, v)

(* Every processor keeps running.  A steal is never promised: the victims  *)
(* are drawn at random.                                                    *)
Fairness == \A w \in Workers : WF_vars(UserStep(w) \/ SchedStep(w))

Spec == Init /\ [][Next]_vars /\ Fairness

-------------------------------------------------------------------------------
(* Properties *)

Statuses ==
  {"running", "exited", "exceeded max fork depth", "join failed",
   "set depth of non-empty deque", "rightside depth mismatch",
   "afterReturnToSched: impossible"}

Tasks ==
  [kind : {"NewThread", "GCTask", "Continuation"}, id : Threads, depth : 0 .. Capacity]

TypeOK ==
  /\ \A w \in Workers :
       /\ queue[w].lo \in 0 .. Capacity
       /\ queue[w].tasks \in Seq(Tasks)
       /\ Bot(queue[w]) <= Capacity
  /\ worker \in [Workers ->
       [at : {"user", "switch", "back", "collect", "pop", "steal", "collectStolen"},
        thread : Threads \union {Nil}, gc : Forks \union {Nil}]]
  /\ gcTask \in [Workers -> Forks \union {Nil}]
  /\ thread \in [Threads ->
       [pc : {"unborn", "run", "spawn", "decrement", "wait", "join", "syncGC",
              "offered", "resumed", "done", "leave", "toLeft", "gone"},
        depth : 0 .. Capacity, open : Seq(Forks), gc : Forks \union {Nil},
        proc : Workers \union {Nil}]]
  /\ join \in [Forks ->
       [left : Threads \union {Nil}, depth : 0 .. Capacity, incounter : 0 .. 2,
        right : Forks \union {Nil}, gc : BOOLEAN,
        how : {"none", "forked", "inlined", "dropped", "joined"}]]
  /\ gcRuns \in [Forks -> Nat]
  /\ status \in Statuses

(* None of the scheduler's "bug" exits is reached: a join always finds the *)
(* right side's thread, setDepth always finds an empty deque, the task on  *)
(* top after a collection is the continuation, a right side ends at the    *)
(* depth it started at, and maybeSpawn's one check of the depth covers     *)
(* both tasks that a spawn pushes.                                         *)
NeverDies == status \in {"running", "exited"}

(* No thread is on two processors: a worker that takes a thread over waits *)
(* for the worker that gave it up between a decrement, or an offered       *)
(* continuation, and the switch to the scheduler.                          *)
OneProcessorPerThread ==
  \A w \in Workers, v \in Workers :
    worker[w].at = "user" /\ worker[v].at = "user" /\ Current(w) = Current(v) => w = v

(* Task x at depth d is one that fork f pushed.                             *)
PushedBy(f, x, d) ==
  \/ x = NewThread(f) /\ d = join[f].depth
  \/ x = GCTask(f) /\ join[f].gc /\ d = join[f].depth - 1

(* While a worker runs user code its deque holds exactly the tasks of its  *)
(* thread's open forks that were not stolen, at the depths of the heaps    *)
(* they belong to.  A pop at a sync, which discards what it finds, rests   *)
(* on it: it always discards the right side of this very fork.             *)
DequeMatchesForks ==
  \A w \in Workers : At(w, "run") =>
    LET q == queue[w]
        open == thread[Current(w)].open
    IN /\ Bot(q) = Depth(w)
       /\ \A i \in 1 .. Len(q.tasks) :
            \E k \in 1 .. Len(open) : PushedBy(open[k], q.tasks[i], q.lo + i - 1)
       /\ \A k \in 1 .. Len(open) : thread[open[k]].pc = "unborn" =>
            \E i \in 1 .. Len(q.tasks) : q.tasks[i] = NewThread(open[k])

(* The collection of a fork is run at most once, by a thief or by the      *)
(* worker that joined the fork.                                            *)
CollectedOnce == \A f \in Forks : gcRuns[f] <= 1

\* Whatever is taken up is taken up by one worker: threads and collections.
RunsOnce == OneProcessorPerThread /\ CollectedOnce

(* Every program ends: no fork waits forever for its other side, and no    *)
(* offered continuation is forgotten.                                      *)
Terminates == <>(status = "exited")

(* A collection that was pushed is not dropped on its way, which leads      *)
(* through the fork's deque, a thief or the popDiscard of syncGC, and the  *)
(* gcTask box: until it has been run it is in a deque, and then its fork   *)
(* is open or about to pop it, or a worker has it in hand.  So a program   *)
(* that exits has run it, but for what a worker outside user code has      *)
(* taken up and not finished.                                              *)
AwaitsGC(t, f) ==
  \/ f \in ToSet(thread[t].open)
  \/ thread[t].pc = "syncGC" /\ thread[t].gc = f
QueuedGC(f) == \E w \in Workers : GCTask(f) \in ToSet(queue[w].tasks)
HasGC(w, f) ==
  \/ worker[w].at \in {"collect", "collectStolen"} /\ worker[w].gc = f
  \/ worker[w].at = "back" /\ gcTask[w] = f
OffersGC(w, f) ==
  worker[w].at = "user" /\ thread[Current(w)].pc = "offered" /\ gcTask[w] = f
CollectionsAreKept ==
  \A f \in Forks : join[f].gc /\ gcRuns[f] = 0 =>
    \/ \E w \in Workers : HasGC(w, f)
    \/ /\ status # "exited"
       /\ \/ \E w \in Workers : OffersGC(w, f)
          \/ QueuedGC(f) /\ \E t \in Threads : AwaitsGC(t, f)

(* The protocol implements fork-join.                                      *)
Phase(f) ==
  IF join[f].how # "forked" THEN join[f].how
  ELSE IF thread[f].pc = "unborn" THEN "forked"
  ELSE IF join[f].right = Nil THEN "running" ELSE "done"

Abstract == INSTANCE ForkJoin WITH
  phase <- [f \in Forks |-> Phase(f)],
  open <- [t \in Threads |-> thread[t].open]

ImplementsForkJoin == Abstract!Init /\ [][Abstract!Next]_(Abstract!vars)

===============================================================================
