------------------------------ MODULE WorkDeque ------------------------------
(***************************************************************************)
(* What the work-stealing deque of one worker promises to its clients, the *)
(* SML scheduler of schedulers/spork (DequeABP.sml is the interface): a    *)
(* stack of tasks indexed by fork depth.  The worker that owns the deque   *)
(* pushes and pops at the deep end, other workers take the shallowest task *)
(* and a task is handed to exactly one caller.                             *)
(*                                                                         *)
(* ABPDeque describes the C code and is shown to implement this module.    *)
(***************************************************************************)
EXTENDS Integers

CONSTANTS
  Task,      \* the tasks that may be pushed, each at most once
  Owner,     \* the worker that owns the deque
  Thieves,   \* the other workers
  Capacity   \* DequeABP.capacity: depths are 0 .. Capacity - 1

VARIABLES
  items,     \* the tasks in the deque: a function whose domain is lo..hi-1
  delivered  \* how often each task was handed to each worker

vars == <<items, delivered>>

Workers == {Owner} \union Thieves

Depths == DOMAIN items

Init ==
  /\ items = [i \in {} |-> 0]
  /\ delivered = [t \in Task |-> [w \in Workers |-> 0]]

(* The task at depth d leaves the deque and goes to worker w.              *)
Take(w, d) ==
  /\ items' = [i \in Depths \ {d} |-> items[i]]
  /\ delivered' = [delivered EXCEPT ![items[d]][w] = @ + 1]

(* pushBot puts a task one level below the deepest one; an empty deque may *)
(* start at any depth, which the owner chooses with setDepth.              *)
Push(t, d) ==
  /\ \A i \in Depths : i < d
  /\ Depths # {} => d - 1 \in Depths
  /\ items' = [i \in Depths \union {d} |-> IF i = d THEN t ELSE items[i]]
  /\ UNCHANGED delivered

(* popBot takes the deepest task.                                          *)
PopBot(d) ==
  /\ \A i \in Depths : i <= d
  /\ Take(Owner, d)

(* tryPopTop takes the shallowest task: a thief always gets the oldest     *)
(* fork of its victim.                                                     *)
PopTop(w, d) ==
  /\ \A i \in Depths : d <= i
  /\ Take(w, d)

Next ==
  \/ \E t \in Task, d \in 0 .. Capacity - 1 : Push(t, d)
  \/ \E d \in Depths : PopBot(d)
  \/ \E w \in Thieves, d \in Depths : PopTop(w, d)

Spec == Init /\ [][Next]_vars

==============================================================================
