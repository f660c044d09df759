----------------------------- MODULE Heartbeat -----------------------------
(***************************************************************************)
(* Heartbeat scheduling: when a spork becomes a task                       *)
(* (schedulers/spork/Scheduler.sml, the promotion stack of                 *)
(* runtime/gc/stack.c and thread.c, the calls that the C codegen makes).   *)
(*                                                                         *)
(* A spork only notes on the stack that its right side could run in        *)
(* parallel.  Every heartbeat gives a thread tokens, and a token pays for  *)
(* the promotion of its oldest spork.  The promotion stack finds the       *)
(* oldest one without a walk: it has an entry for each suspended call      *)
(* frame that is inside sporks, and entries below promoStackBot hold       *)
(* nothing to promote.                                                     *)
(*                                                                         *)
(* A frame is the sequence of the sporks it is inside, outermost first.    *)
(* The last frame runs.  Frames stand for their addresses.  Which worker   *)
(* runs a thread, and the race at a join, are SporkJoin's concern.         *)
(***************************************************************************)
EXTENDS Naturals, FiniteSets, Sequences, SequencesExt

CONSTANTS
  Threads, Root,    \* user threads, and the main program's
  None,             \* no thread: the spork is not promoted
  HeartbeatTokens,  \* tokens of a beat, and the most addSpare leaves
  MaxDepth,         \* Queue.capacity, and the depths decheck can tell apart
  MaxFrames, MaxNest, MaxSporks, MaxBeats, MaxRaises    \* bounds

ASSUME ThreadsAssumption ==
  /\ Root \in Threads /\ None \notin Threads
  /\ IsFiniteSet(Threads) /\ MaxSporks < Cardinality(Threads)
ASSUME TokensAssumption == HeartbeatTokens \in Nat \ {0}
ASSUME BoundsAssumption ==
  /\ {MaxDepth, MaxFrames} \subseteq Nat \ {0}
  /\ {MaxNest, MaxSporks, MaxBeats, MaxRaises} \subseteq Nat

VARIABLES
  thread,    \* the threads
  sporks,    \* sporks entered so far
  beats,     \* heartbeats so far
  raises,    \* exceptions so far
  spawned,   \* history: promotions so far
  status     \* "running", or the message the program died with

vars == <<thread, sporks, beats, raises, spawned, status>>

Policies == {"fair", "keep", "give"}
Running == status = "running"
At(t, pc) == Running /\ thread[t].pc = pc

\* Outside atomic sections a signal is handled at the next runtime call.
Interruptible == {"run", "eager", "tryPromote", "giveBack"}

NewThread(pc, depth, given) ==
  [pc |-> pc, depth |-> depth, tokens |-> 0,
   stack |-> <<(<<>>)>>, promoStack |-> <<>>, promoBot |-> 0,
   given |-> given,     \* spareHeartbeatsGiven of its joinpoint
   owed |-> 0,          \* what a join that was not stolen still gives back
   beat |-> [back |-> "run", hadEnough |-> FALSE, numSpawned |-> 0]]

Init ==
  /\ thread = [t \in Threads |-> NewThread(IF t = Root THEN "run" ELSE "none", 1, 0)]
  /\ sporks = 0 /\ beats = 0 /\ raises = 0 /\ spawned = 0
  /\ status = "running"

Die(message) == status' = message /\ UNCHANGED <<thread, sporks, beats, raises, spawned>>

Set(t, th) ==
  /\ thread' = [thread EXCEPT ![t] = th]
  /\ UNCHANGED <<sporks, beats, raises, spawned, status>>

-----------------------------------------------------------------------------
(* Tokens *)

Least(a, b) == IF a < b THEN a ELSE b

AddSpare(tokens, more) == Least(tokens + more, HeartbeatTokens)

EnoughToSpawn(th) == th.tokens >= 1

Share(policy, tokens) ==
  CASE policy = "fair" -> tokens \div 2
    [] policy = "keep" -> 0
    [] policy = "give" -> tokens

-----------------------------------------------------------------------------
(* Frames and the promotion stack *)

Promotable(slot) == slot.right = None
FrameIsPromotable(frame) == \E k \in DOMAIN frame : Promotable(frame[k])
OldestSpork(frame) == SelectInSeq(frame, Promotable)

\* While the running frame calls the runtime it has its entry, too.
Entries(th) ==
  IF Last(th.stack) = <<>> THEN th.promoStack ELSE Append(th.promoStack, Len(th.stack))

\* The first entry from promoStackBot on whose frame can be promoted, or 0.
FirstEntry(th) ==
  LET e == Entries(th)
      live(i) == i <= Len(th.stack) /\ FrameIsPromotable(th.stack[i])
  IN  SelectInSubSeq(e, th.promoBot + 1, Len(e), live)

Skipped(th) ==
  (IF FirstEntry(th) = 0 THEN Len(Entries(th)) ELSE FirstEntry(th) - 1) - th.promoBot

OldestPromotableFrame(th) ==
  IF FirstEntry(th) = 0 THEN 0 ELSE Entries(th)[FirstEntry(th)]

\* The walks over the whole stack that the assertions compare with.
FindPromotableFrame(th) == SelectInSeq(th.stack, FrameIsPromotable)
FindYoungestPromotableFrame(th) == SelectLastInSeq(th.stack, FrameIsPromotable)

\* A return takes the entry of the frame it returns to.
Chopped(th, promoStack) ==
  [th EXCEPT !.promoStack = promoStack, !.promoBot = Least(@, Len(promoStack))]

Returned(th) == Chopped(th, th.promoStack)

Call(t) ==
  LET th == thread[t]
  IN  /\ At(t, "run")
      /\ Len(th.stack) < MaxFrames
      /\ Set(t, [th EXCEPT !.promoStack = Entries(th), !.stack = Append(@, <<>>)])

\* Mutant: the bottom stays above the top.
BugReturn(t) ==
  LET th == thread[t]
      popped == [th EXCEPT !.stack = Front(@)]
  IN  /\ At(t, "run")
      /\ Len(th.stack) > 1 /\ Last(th.stack) = <<>>
      /\ Set(t, IF Last(popped.stack) = <<>> THEN popped
                ELSE [popped EXCEPT !.promoStack = Front(@)])

Return(t) ==
  LET th == thread[t]
      popped == [th EXCEPT !.stack = Front(@)]
  IN  /\ At(t, "run")
      /\ Len(th.stack) > 1 /\ Last(th.stack) = <<>>
      /\ Set(t, IF Last(popped.stack) = <<>> THEN popped
                ELSE Chopped(popped, Front(th.promoStack)))

\* An exception unwinds to a handler, of a spork or of the program, in the
\* innermost frame with sporks: no function is left from inside a spork.  The
\* handler pops the call stack only.
Raise(t) ==
  LET th == thread[t]
      handler == SelectLastInSeq(th.stack, LAMBDA frame : frame # <<>>)
  IN  /\ At(t, "run")
      /\ raises < MaxRaises
      /\ Last(th.stack) = <<>> /\ handler # 0
      /\ thread' = [thread EXCEPT ![t].stack = SubSeq(@, 1, handler)]
      /\ raises' = raises + 1
      /\ UNCHANGED <<sporks, beats, spawned, status>>

-----------------------------------------------------------------------------
(* Promotion *)

\* Mutant: the innermost spork of the frame is promoted.
BugInnermost(th, r) ==
  LET i == OldestPromotableFrame(th)
      k == SelectLastInSeq(th.stack[i], Promotable)
      rest == th.tokens - 1
      marked == [th EXCEPT !.stack[i][k].right = r]
  IN  [marked EXCEPT !.tokens = rest - Share(th.stack[i][k].policy, rest),
                     !.depth = @ + 1,
                     !.promoBot = @ + Skipped(marked)]

\* The thread after the promotion of its oldest spork for right side r.
Promoted(th, r) ==
  LET i == OldestPromotableFrame(th)
      k == OldestSpork(th.stack[i])
      rest == th.tokens - 1
      marked == [th EXCEPT !.stack[i][k].right = r]
  IN  [marked EXCEPT !.tokens = rest - Share(th.stack[i][k].policy, rest),
                     !.depth = @ + 1,
                     !.promoBot = @ + Skipped(marked)]

MaySpawn(th) == th.depth < MaxDepth /\ OldestPromotableFrame(th) # 0

\* The assertions of findNextPromotableFrame, reached at an allowed depth.
Confused(th) ==
  /\ th.depth < MaxDepth
  /\ \/ OldestPromotableFrame(th) # FindPromotableFrame(th)
     \/ Skipped(th) >= 2

\* doSpawn, continued as th with the right side's task offered.
DoSpawn(t, th) ==
  LET fresh == {r \in Threads : thread[r].pc = "none"}
      r == CHOOSE r \in fresh : TRUE
      after == Promoted(th, r)
  IN  /\ fresh # {}
      /\ IF after.promoBot - th.promoBot >= 3
           THEN Die("updatePromoStackOldestPromotableFrame")
           ELSE /\ thread' = [thread EXCEPT
                     ![t] = IF th.pc = "handler" THEN after ELSE Returned(after),
                     ![r] = NewThread("offered", th.depth + 1,
                                      th.tokens - 1 - after.tokens)]
                /\ spawned' = spawned + 1
                /\ UNCHANGED <<sporks, beats, raises, status>>

\* Mutant: as if every spork were found only by later beats.
BugSpork(t, policy) ==
  LET th == thread[t]
  IN  /\ At(t, "run")
      /\ sporks < MaxSporks /\ Len(Last(th.stack)) < MaxNest
      /\ thread' = [thread EXCEPT ![t].stack[Len(th.stack)] =
                      Append(@, [policy |-> policy, right |-> None])]
      /\ sporks' = sporks + 1
      /\ UNCHANGED <<beats, raises, spawned, status>>

\* A spork: an entry of its frame's nest, then the eager check of body'.
Spork(t, policy) ==
  LET th == thread[t]
  IN  /\ At(t, "run")
      /\ sporks < MaxSporks /\ Len(Last(th.stack)) < MaxNest
      /\ thread' = [thread EXCEPT
           ![t] = [th EXCEPT !.pc = "eager",
                     !.stack[Len(th.stack)] =
                       Append(@, [policy |-> policy, right |-> None])]]
      /\ sporks' = sporks + 1
      /\ UNCHANGED <<beats, raises, spawned, status>>

CheckEager(t) ==
  LET th == thread[t]
  IN  /\ At(t, "eager")
      /\ Set(t, [th EXCEPT !.pc = IF EnoughToSpawn(th) THEN "tryPromote" ELSE "run"])

\* The assertions of the youngest optimization.
OnlyOne(th) == /\ OldestPromotableFrame(th) = FindYoungestPromotableFrame(th)
               /\ Len(Entries(th)) - th.promoBot <= 2

\* tryPromoteNow, in an atomic section.
TryPromoteNow(t) ==
  LET th == [thread[t] EXCEPT !.pc = "run"]
  IN  /\ At(t, "tryPromote")
      /\ IF EnoughToSpawn(th) /\ (Confused(th) \/ (MaySpawn(th) /\ ~OnlyOne(th)))
           THEN Die("findNextPromotableFrame")
         ELSE IF EnoughToSpawn(th) /\ MaySpawn(th) THEN DoSpawn(t, th)
         ELSE Set(t, Returned(th))

-----------------------------------------------------------------------------
(* The heartbeat handler, in an atomic section of the interrupted thread *)

Beat(t) ==
  LET th == thread[t]
  IN  /\ Running /\ th.pc \in Interruptible
      /\ beats < MaxBeats
      /\ thread' = [thread EXCEPT ![t] =
           [th EXCEPT !.pc = "handler",
                      !.tokens = AddSpare(@, HeartbeatTokens),
                      !.beat = [back |-> th.pc, hadEnough |-> EnoughToSpawn(th),
                                numSpawned |-> 0]]]
      /\ beats' = beats + 1
      /\ UNCHANGED <<sporks, raises, spawned, status>>

HandlerSpawns(t) ==
  LET th == [thread[t] EXCEPT !.beat.numSpawned = @ + 1]
  IN  /\ At(t, "handler")
      /\ EnoughToSpawn(th)
      /\ IF Confused(th) THEN Die("findNextPromotableFrame")
                         ELSE MaySpawn(th) /\ DoSpawn(t, th)

HandlerEnds(t) ==
  LET th == thread[t]
  IN  /\ At(t, "handler")
      /\ EnoughToSpawn(th) => ~Confused(th) /\ ~MaySpawn(th)
      /\ IF th.beat.hadEnough /\ th.beat.numSpawned > 1
           THEN Die("more than one eager fork was missed")
           ELSE Set(t, Returned([th EXCEPT !.pc = th.beat.back,
                                           !.beat = NewThread("run", 1, 0).beat]))

-----------------------------------------------------------------------------
(* The end of a spork, and the right side *)

\* The spork t is about to leave, and the thread without it.
Innermost(t) == Last(Last(thread[t].stack))
Left(t) == [thread[t] EXCEPT !.stack[Len(thread[t].stack)] = Front(@)]

MayLeave(t) == At(t, "run") /\ Last(thread[t].stack) # <<>>

SpoinSeq(t) ==
  /\ MayLeave(t) /\ Promotable(Innermost(t))
  /\ Set(t, Left(t))

\* popDiscard finds the right side in the deque: nobody stole it.
JoinUnstolen(t) ==
  /\ MayLeave(t)
  /\ \E r \in Threads :
       /\ Innermost(t).right = r /\ thread[r].pc = "offered"
       /\ thread' = [thread EXCEPT
            ![t] = [Left(t) EXCEPT
                      !.pc = "giveBack", !.depth = @ - 1,
                      !.owed = IF Innermost(t).policy = "give"
                                 THEN thread[r].given ELSE 0],
            ![r] = NewThread("none", 1, 0)]
       /\ UNCHANGED <<sporks, beats, raises, spawned, status>>

GiveBack(t) ==
  LET th == thread[t]
  IN  /\ At(t, "giveBack")
      /\ Set(t, [th EXCEPT !.pc = "run", !.tokens = AddSpare(@, th.owed), !.owed = 0])

\* HM_HH_merge adds the tokens of the right side, whatever the sum.
Join(t) ==
  /\ MayLeave(t)
  /\ \E r \in Threads :
       /\ Innermost(t).right = r /\ thread[r].pc = "done"
       /\ thread' = [thread EXCEPT
            ![t] = [Left(t) EXCEPT !.depth = @ - 1, !.tokens = @ + thread[r].tokens],
            ![r] = NewThread("none", 1, 0)]
       /\ UNCHANGED <<sporks, beats, raises, spawned, status>>

Rights(t) == {r \in Threads : \E i \in DOMAIN thread[t].stack :
                \E k \in DOMAIN thread[t].stack[i] : thread[t].stack[i][k].right = r}

\* Mutant: a new thread starts with a beat's tokens.
BugSteal(r) ==
  LET th == thread[r]
  IN  /\ At(r, "offered")
      /\ \A t, q \in Threads : {r, q} \subseteq Rights(t) /\ thread[q].pc = "offered"
                                => thread[q].depth >= th.depth
      /\ Set(r, [th EXCEPT !.pc = "run", !.tokens = HeartbeatTokens, !.given = 0])

\* A thief takes the oldest task; spwn' sets off with the tokens it was given.
Steal(r) ==
  LET th == thread[r]
  IN  /\ At(r, "offered")
      /\ \A t, q \in Threads : {r, q} \subseteq Rights(t) /\ thread[q].pc = "offered"
                                => thread[q].depth >= th.depth
      /\ Set(r, [th EXCEPT !.pc = "run", !.tokens = AddSpare(@, th.given), !.given = 0])

Finish(r) ==
  LET th == thread[r]
  IN  /\ r # Root
      /\ At(r, "run") /\ th.stack = <<(<<>>)>>
      /\ Set(r, [th EXCEPT !.pc = "done"])

\* The program is over, or it died.
Stop ==
  /\ \/ ~Running
     \/ At(Root, "run") /\ thread[Root].stack = <<(<<>>)>>
  /\ UNCHANGED vars

Next ==
  \/ \E t \in Threads :
       \/ Call(t) \/ Return(t) \/ Raise(t)
       \/ \E policy \in Policies : Spork(t, policy)
       \/ CheckEager(t) \/ TryPromoteNow(t)
       \/ Beat(t) \/ HandlerSpawns(t) \/ HandlerEnds(t)
       \/ SpoinSeq(t) \/ JoinUnstolen(t) \/ GiveBack(t) \/ Join(t)
       \/ Steal(t) \/ Finish(t)
  \/ Stop

Spec == Init /\ [][Next]_vars

-----------------------------------------------------------------------------

Control == Interruptible \cup {"none", "offered", "handler", "done"}
Slots == [policy : Policies, right : Threads \cup {None}]
ThreadStates ==
  [pc : Control, depth : 1..MaxDepth, tokens : Nat, given : Nat, owed : Nat,
   stack : Seq(Seq(Slots)), promoStack : Seq(1..MaxFrames), promoBot : Nat,
   beat : [back : Interruptible, hadEnough : BOOLEAN, numSpawned : Nat]]

Statuses ==
  {"running", "updatePromoStackOldestPromotableFrame", "findNextPromotableFrame",
   "more than one eager fork was missed"}

\* The state has the shape the code's types give it.
TypeOK ==
  /\ thread \in [Threads -> ThreadStates]
  /\ \A t \in Threads :
       /\ Len(thread[t].stack) \in 1..MaxFrames
       /\ \A i \in DOMAIN thread[t].stack : Len(thread[t].stack[i]) <= MaxNest
       /\ thread[t].promoBot <= Len(thread[t].promoStack) + 1
  /\ sporks \in 0..MaxSporks /\ beats \in 0..MaxBeats /\ raises \in 0..MaxRaises
  /\ spawned \in 0..sporks
  /\ status \in Statuses

Live == {t \in Threads : thread[t].pc \notin {"none", "offered", "done"}}

\* Where the sporks of a thread are, from the oldest to the youngest.
Places(th) == UNION {{<<i, k>> : k \in DOMAIN th.stack[i]} : i \in DOMAIN th.stack}
SlotAt(th, p) == th.stack[p[1]][p[2]]
Older(p, q) == p[1] < q[1] \/ (p[1] = q[1] /\ p[2] < q[2])
OlderThan(th, q) == {p \in Places(th) : Older(p, q)}
ToPromote(th) == {p \in Places(th) : Promotable(SlotAt(th, p))}
AreForks(th) == Places(th) \ ToPromote(th)

\* The scheduler's and the runtime's assertions hold: no promotion fails, the
\* eager check never meets an older spork than its own, and a beat never finds
\* two sporks that a token at hand should have promoted.  An exception leaves
\* stale entries in the promotion stack: what is said of it holds before one.
NeverDies == raises = 0 => Running

\* The promotion stack leads to the frame that the walk over the whole stack
\* finds: thread.c asserts it before every promotion, exception or not.
PromoStackFindsOldest ==
  \A t \in Live : OldestPromotableFrame(thread[t]) = FindPromotableFrame(thread[t])

\* Calls, returns, promotions, beats and joins leave it so, in any order.
FindsOldestBeforeRaise == raises = 0 => PromoStackFindsOldest

\* assertTokenInvariants, at every point outside a handler: a thread that has
\* a token and could still fork has promoted everything, but for the spork it
\* just entered and has not checked for yet.
TokensAreSpent ==
  \A t \in Live :
    LET th == thread[t]
    IN  EnoughToSpawn(th) /\ th.depth < MaxDepth /\ th.pc # "handler" =>
          \A p \in ToPromote(th) :
            th.pc \in {"eager", "tryPromote"} /\ \A q \in Places(th) : ~Older(p, q)

\* Sporks are promoted oldest first, and the depth of a thread counts them: at
\* a join both threads are at the depth HM_HH_merge asserts.
ForkDepth(th) == th.depth - Cardinality(AreForks(th))
OldestFirst ==
  \A t \in Live : \A p \in AreForks(thread[t]) :
    LET th == thread[t]
        older == OlderThan(th, p)
    IN  /\ older \subseteq AreForks(th)
        /\ ForkDepth(thread[SlotAt(th, p).right]) = ForkDepth(th) + Cardinality(older) + 1

\* No token is made up: what was spent on promotions and what threads, tasks
\* and joins hold came from the heartbeats.
TokensAreBacked ==
  spawned + SumFunction([t \in Threads |->
              thread[t].tokens + thread[t].given + thread[t].owed])
    <= beats * HeartbeatTokens

\* The frame that is promoted is the one with the oldest spork: the promotion
\* stack finds it, and what was promoted lies below what was not.
PromotesOldest == OldestFirst /\ FindsOldestBeforeRaise /\ NeverDies

\* Tokens are neither kept back nor made up.
TokensAreKept == TypeOK /\ TokensAreSpent /\ TokensAreBacked

=============================================================================
