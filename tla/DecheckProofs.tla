---------------------------- MODULE DecheckProofs ----------------------------
(***************************************************************************)
(* The entanglement check is exact for any number of threads and objects   *)
(* and any depth of forks: it reports what a thread should not have seen,  *)
(* and nothing else.                                                       *)
(*                                                                         *)
(* The argument is about the strand that each thread is at, or will start  *)
(* at (pos), and the depth at which it was forked (base).  The strands of  *)
(* two threads are apart: they differ at a bit that both have (ApartInv).  *)
(* A fork or a join changes the dag depth of strands that one thread alone *)
(* leads through, so that every table of depths stays true (ThreadInv).    *)
(* Below the depth of its heap, the tid of an object's chunk is that of    *)
(* its owner, and its dag depth is between that of the heap's strand and   *)
(* that of the strand above (Placed).  So the check finds the strand where *)
(* reader and object part, and the dag depth there tells which side it is. *)
(***************************************************************************)
EXTENDS Decheck, SequenceTheorems, NaturalsInduction, WellFoundedInduction, TLAPS

(* Two words have the same bits below n.                                   *)
Agree(T, U, n) == \A b \in 0 .. TreeDepth : b < n => (b \in T.path <=> b \in U.path)

(* The strand of depth d on the way to a tid, and its depth in the dag.    *)
Strand(T, d) == {b \in T.path : b < d} \union {d}
Dag(T, d) == synch_depths[Strand(T, d)]

Live(u) == thread[u].state # "unused"
Started(u) == thread[u].state \in {"running", "done"}

(* What the words of a thread say: pos[u] is its tid, or the one that it   *)
(* is going to start with, and base[u] is the depth at which it was forked.*)
StrandInv(pos, base) ==
  \A u \in Threads : Live(u) =>
    /\ pos[u].tree \in pos[u].path
    /\ base[u] <= pos[u].tree
    /\ pos[u].dag + pos[u].tree <= DagDepth
    /\ Dag(pos[u], pos[u].tree) = pos[u].dag
    /\ \A d, e \in 0 .. pos[u].tree : d < e => Dag(pos[u], d) < Dag(pos[u], e)

(* No thread's strand leads to that of another.                            *)
Apart(T, U) ==
  \E b \in 0 .. TreeDepth :
    b < T.tree /\ b < U.tree /\ ~(b \in T.path <=> b \in U.path)
ApartInv(pos) ==
  \A u, v \in Threads : Live(u) /\ Live(v) /\ u # v => Apart(pos[u], pos[v])

ThreadInv(pos, base) ==
  \A t \in Threads :
    /\ Started(t) =>
         /\ thread[t].tid = pos[t]
         /\ pos[t].tree = base[t] + Len(join[t])
         /\ \A d \in 0 .. pos[t].tree : thread[t].sync[d] = Dag(pos[t], d)
    /\ join[t] # <<>> => Running(t)

(* A fork that waits to be joined: r is its right side, with the tid R, and *)
(* i its number.                                                           *)
Forked(pos, base, t, i, r, R) ==
  /\ Live(r)
  /\ base[r] = base[t] + i
  /\ Agree(pos[r], pos[t], base[r] - 1)
  /\ base[r] - 1 \in pos[r].path
  /\ base[r] - 1 \notin pos[t].path
  /\ thread[r].state = "ready" =>
       /\ pos[r] = R
       /\ pos[r].tree = base[r]
       /\ thread[r].parent = t
       /\ thread[r].kind = "spork" =>
            \A d \in 0 .. TreeDepth : d < base[r] => thread[r].sync[d] = Dag(pos[r], d)

ForkInv(pos, base) ==
  /\ \A t \in Threads : \A i \in 1 .. Len(join[t]) :
       Forked(pos, base, t, i, join[t][i].thread, join[t][i].tidRight)
  /\ \A t, u \in Threads : \A i \in 1 .. Len(join[t]), j \in 1 .. Len(join[u]) :
       join[t][i].thread = join[u][j].thread => t = u /\ i = j

(* An object is in a heap that its owner has now, and the tid of its chunk *)
(* is one of a strand at that depth or deeper, that began after the strand *)
(* above.                                                                  *)
Placed(pos, base, a, D, K) ==
  /\ Started(a)
  /\ base[a] < D
  /\ D <= pos[a].tree + 1
  /\ K.tree \in K.path
  /\ D - 1 <= K.tree
  /\ Agree(K, pos[a], D - 1)
  /\ K.dag <= Dag(pos[a], D - 1)
  /\ D >= 2 => Dag(pos[a], D - 2) < K.dag

ObjectInv(pos, base) ==
  \A o \in Items : object[o] # Bogus =>
    Placed(pos, base, object[o].owner, object[o].depth, object[o].tid)

(* The heap of depth D of the thread at A is one of U's, or of its         *)
(* ancestors.                                                              *)
Above(A, D, U) == D - 1 <= U.tree /\ Agree(A, U, D - 1)

BeforeInv(pos) ==
  \A u \in Threads : Live(u) => \A o \in Items :
    o \in before[u] <=>
      object[o] # Bogus /\ Above(pos[object[o].owner], object[o].depth, pos[u])

Inv(pos, base) ==
  /\ StrandInv(pos, base)
  /\ ApartInv(pos)
  /\ ThreadInv(pos, base)
  /\ ForkInv(pos, base)
  /\ ObjectInv(pos, base)
  /\ BeforeInv(pos)

(* A thread that was forked has its entry in the thread that forked it; the*)
(* program's own always runs.                                              *)
IsChild(base, u, t) ==
  /\ t \in Threads
  /\ \E i \in 1 .. Len(join[t]) :
       join[t][i].thread = u /\ join[t][i].tidRight.tree = base[u]
ParentInv(base) ==
  /\ Running(RootThread) /\ base[RootThread] = 0
  /\ \A u \in Threads :
       IF Live(u) /\ u # RootThread THEN IsChild(base, u, thread[u].parent)
       ELSE thread[u].parent = Bogus

(* Two threads already differ where one of them was forked.                *)
Part(pos, base, u, v) ==
  \E b \in 0 .. TreeDepth :
    /\ b < pos[u].tree /\ b < pos[v].tree /\ (b < base[u] \/ b < base[v])
    /\ ~(b \in pos[u].path <=> b \in pos[v].path)
PartInv(pos, base) ==
  \A u, v \in Threads : Live(u) /\ Live(v) /\ u # v => Part(pos, base, u, v)

LineInv(pos, base) == ParentInv(base) /\ PartInv(pos, base)

Positions == [Threads -> Tids]
Depths == [Threads -> 0 .. TreeDepth]

IInv ==
  /\ DecheckTypeOK
  /\ \E pos \in Positions, base \in Depths : Inv(pos, base) /\ LineInv(pos, base)

-------------------------------------------------------------------------------
(* Words *)

LEMMA AgreeFacts ==
  ASSUME NEW T, NEW U, NEW V, NEW n \in Int, NEW m \in Int, Agree(T, U, n)
  PROVE  /\ Agree(U, T, n)
         /\ m <= n => Agree(T, U, m) /\ Agree(U, T, m)
         /\ Agree(U, V, n) => Agree(T, V, n)
<1>1. \A b \in 0 .. TreeDepth : b < m /\ m <= n => b < n
  BY DEF DecheckAssumption
<1> QED
  BY <1>1 DEF Agree

LEMMA ApartFacts ==
  ASSUME DecheckAssumption, NEW T \in Tids, NEW U \in Tids, Apart(T, U),
         NEW n \in Int, T.tree <= n \/ U.tree <= n
  PROVE  ~Agree(T, U, n) /\ ~Agree(U, T, n)
<1>1. /\ T.tree \in 0 .. TreeDepth /\ U.tree \in 0 .. TreeDepth /\ TreeDepth \in Nat
  BY DEF Tids, DecheckAssumption
<1>2. PICK b \in 0 .. TreeDepth :
        b < T.tree /\ b < U.tree /\ ~(b \in T.path <=> b \in U.path)
  BY DEF Apart
<1>3. b < n
  BY <1>1, <1>2
<1> QED
  BY <1>2, <1>3 DEF Agree

LEMMA StrandFacts ==
  ASSUME DecheckAssumption, NEW T \in Tids, NEW d \in 0 .. TreeDepth
  PROVE  /\ Strand(T, d) \in Words
         /\ d = T.tree /\ d \in T.path => Strand(T, d) = norm_path(T)
         /\ LcaPath(T, d) = {b \in norm_path(T) : b < d} \union {d}
<1>1. T.path \subseteq 0 .. TreeDepth /\ T.tree \in 0 .. TreeDepth /\ TreeDepth \in Nat
  BY DEF Tids, Words, DecheckAssumption
<1>2. Strand(T, d) \in Words
  BY <1>1 DEF Strand, Words
<1>3. ASSUME d = T.tree, d \in T.path PROVE Strand(T, d) = norm_path(T)
  <2>1. \A b \in T.path : b <= T.tree <=> b < d \/ b = d
    BY <1>1, <1>3
  <2> QED
    BY <2>1, <1>3 DEF Strand, norm_path
<1> QED
  BY <1>2, <1>3 DEF LcaPath

\* Two strands are one when they have the same depth, and the same bits below.
LEMMA SameStrand ==
  ASSUME DecheckAssumption, NEW T \in Tids, NEW U \in Tids,
         NEW d \in 0 .. TreeDepth, NEW e \in 0 .. TreeDepth
  PROVE  Strand(T, d) = Strand(U, e) <=> d = e /\ Agree(T, U, d)
<1>1. /\ T.path \subseteq 0 .. TreeDepth /\ U.path \subseteq 0 .. TreeDepth
      /\ TreeDepth \in Nat /\ d \in Nat /\ e \in Nat
  BY DEF Tids, Words, DecheckAssumption
<1>2. ASSUME d = e, Agree(T, U, d) PROVE Strand(T, d) = Strand(U, e)
  <2>1. \A b : b \in T.path /\ b < d <=> b \in U.path /\ b < d
    BY <1>1, <1>2 DEF Agree
  <2> QED
    BY <2>1, <1>2 DEF Strand
<1>3. ASSUME Strand(T, d) = Strand(U, e) PROVE d = e /\ Agree(T, U, d)
  <2>1. d \in Strand(U, e) /\ e \in Strand(T, d)
    BY <1>3 DEF Strand
  <2>2. d = e
    BY <2>1, <1>1 DEF Strand
  <2>3. \A b \in 0 .. TreeDepth : b < d => b # d
    BY <1>1
  <2>4. \A b \in 0 .. TreeDepth : b < d => (b \in Strand(T, d) <=> b \in T.path)
    BY <2>3 DEF Strand
  <2>5. \A b \in 0 .. TreeDepth : b < d => (b \in Strand(U, d) <=> b \in U.path)
    BY <2>3 DEF Strand
  <2> QED
    BY <2>2, <2>4, <2>5, <1>3 DEF Agree
<1> QED
  BY <1>2, <1>3

\* The tids of the sides of a fork.
LEMMA SideFacts ==
  ASSUME DecheckAssumption, NEW T \in Tids, T.tree < TreeDepth, T.dag < DagDepth,
         NEW L, NEW R, L = LeftTid(T), R = RightTid(T)
  PROVE  /\ L \in Tids /\ R \in Tids
         /\ L.tree = T.tree + 1 /\ L.dag = T.dag + 1 /\ L.tree \in L.path
         /\ R.tree = T.tree + 1 /\ R.dag = T.dag + 1 /\ R.tree \in R.path
         /\ T.tree \notin L.path /\ T.tree \in R.path
         /\ Agree(L, T, T.tree) /\ Agree(R, T, T.tree)
<1>1. /\ T.path \subseteq 0 .. TreeDepth /\ T.tree \in 0 .. TreeDepth /\ T.dag \in 0 .. DagDepth
      /\ TreeDepth \in Nat /\ DagDepth \in Nat
  BY DEF Tids, Words, DecheckAssumption
<1>2. T.tree + 1 \in 0 .. TreeDepth /\ T.dag + 1 \in 0 .. DagDepth /\ T.tree # T.tree + 1
  BY <1>1
<1>3. /\ L.path = (T.path \ {T.tree}) \union {T.tree + 1}
      /\ L.tree = T.tree + 1 /\ L.dag = T.dag + 1
      /\ R.path = T.path \union {T.tree, T.tree + 1}
      /\ R.tree = T.tree + 1 /\ R.dag = T.dag + 1
  BY DEF LeftTid, RightTid, Tid
<1>4. L.path \in Words /\ R.path \in Words
  BY <1>1, <1>2, <1>3 DEF Words
<1>5. L \in Tids /\ R \in Tids
  BY <1>2, <1>3, <1>4 DEF LeftTid, RightTid, Tid, Tids
<1>6. \A b \in 0 .. TreeDepth : b < T.tree => b # T.tree /\ b # T.tree + 1
  BY <1>1
<1>7. Agree(L, T, T.tree) /\ Agree(R, T, T.tree)
  BY <1>3, <1>6 DEF Agree
<1> QED
  BY <1>2, <1>3, <1>5, <1>7

LEMMA MaxOfTwo ==
  ASSUME NEW a \in Int, NEW b \in Int
  PROVE  Max({a, b}) \in {a, b} /\ a <= Max({a, b}) /\ b <= Max({a, b})
<1>1. \E x \in {a, b} : \A y \in {a, b} : x >= y
  <2>1. CASE a <= b
    BY <2>1
  <2>2. CASE ~(a <= b)
    BY <2>2
  <2> QED
    BY <2>1, <2>2
<1>2. Max({a, b}) \in {a, b} /\ \A y \in {a, b} : Max({a, b}) >= y
  BY <1>1 DEF Max
<1> QED
  BY <1>2

LEMMA JoinedFacts ==
  ASSUME DecheckAssumption, NEW T \in Tids, NEW R \in Tids, T.tree > 0,
         T.dag < DagDepth, R.dag < DagDepth, NEW J, J = JoinTid(T, R)
  PROVE  /\ J \in Tids /\ J.tree = T.tree - 1 /\ J.tree \in J.path
         /\ T.dag < J.dag /\ R.dag < J.dag
         /\ J.dag = T.dag + 1 \/ J.dag = R.dag + 1
         /\ Agree(J, T, J.tree)
<1>1. /\ T.path \subseteq 0 .. TreeDepth /\ T.tree \in 0 .. TreeDepth /\ T.dag \in 0 .. DagDepth
      /\ R.dag \in 0 .. DagDepth
      /\ TreeDepth \in Nat /\ DagDepth \in Nat
  BY DEF Tids, Words, DecheckAssumption
<1>2. T.tree - 1 \in 0 .. TreeDepth
  BY <1>1
<1> DEFINE m == Max({T.dag, R.dag})
<1>3. m \in {T.dag, R.dag} /\ T.dag <= m /\ R.dag <= m
  <2>1. T.dag \in Int /\ R.dag \in Int
    BY <1>1
  <2> QED
    BY <2>1, MaxOfTwo, Zenon
<1>4. J.path = T.path \union {T.tree - 1} /\ J.tree = T.tree - 1 /\ J.dag = m + 1
  BY DEF JoinTid, Tid
<1>5. J = [path |-> T.path \union {T.tree - 1}, tree |-> T.tree - 1, dag |-> m + 1]
  BY DEF JoinTid, Tid
<1> HIDE DEF m
<1>6. m + 1 \in 0 .. DagDepth /\ T.dag < m + 1 /\ R.dag < m + 1
  BY <1>1, <1>3
<1>7. J.path \in Words
  BY <1>1, <1>2, <1>4 DEF Words
<1>8. J \in Tids
  BY <1>2, <1>4, <1>5, <1>6, <1>7 DEF Tids
<1>9. \A b \in 0 .. TreeDepth : b < J.tree => b # T.tree - 1
  BY <1>1, <1>4
<1>10. Agree(J, T, J.tree)
  BY <1>4, <1>9 DEF Agree
<1> QED
  BY <1>2, <1>3, <1>4, <1>6, <1>8, <1>10

-------------------------------------------------------------------------------
(* Fork: the left side stays with t, the right side is that of r. *)

LEMMA TypesOf ==
  ASSUME DecheckTypeOK, NEW u \in Threads
  PROVE  /\ thread[u].tid \in Tids
         /\ thread[u].sync \in [0 .. TreeDepth -> 0 .. DagDepth]
         /\ join[u] \in Seq(Forks)
         /\ Len(join[u]) \in Nat
BY DEF DecheckTypeOK, Strands

\* What a fork does to each variable.
ForkEffect(t, r, kind, T, L, R) ==
  /\ t # r /\ Running(t) /\ ~Live(r) /\ join[r] = <<>>
  /\ T.tree < TreeDepth /\ T.dag < DagDepth /\ T.dag + T.tree + 2 <= DagDepth
  /\ thread' \in [Threads -> Strands]
  /\ thread'[t].state = "running" /\ thread'[t].tid = L
  /\ thread'[t].parent = thread[t].parent
  /\ thread'[t].sync = [thread[t].sync EXCEPT ![L.tree] = L.dag]
  /\ thread'[r].state = "ready" /\ thread'[r].parent = t /\ thread'[r].kind = kind
  /\ kind = "spork" => thread'[r].sync = thread[t].sync
  /\ \A u \in Threads : u # t /\ u # r => thread'[u] = thread[u]
  /\ join' \in [Threads -> Seq(Forks)]
  /\ Len(join'[t]) = Len(join[t]) + 1
  /\ join'[t][Len(join[t]) + 1] = [thread |-> r, tidRight |-> R]
  /\ \A i \in 1 .. Len(join[t]) : join'[t][i] = join[t][i]
  /\ \A u \in Threads : u # t => join'[u] = join[u]
  /\ before' = [before EXCEPT ![r] = before[t]]
  /\ synch_depths' \in [Words -> 0 .. DagDepth]
  /\ \A w \in Words :
       synch_depths'[w] = IF w \in {Strand(L, L.tree), Strand(R, R.tree)} THEN L.dag
                          ELSE synch_depths[w]
  /\ object' = object

LEMMA ForkFacts ==
  ASSUME DecheckAssumption, DecheckTypeOK,
         NEW pos \in Positions, NEW base \in Depths, Inv(pos, base),
         NEW t \in Threads, NEW r \in Threads, NEW kind \in {"spork", "function"},
         Fork(t, r, kind),
         NEW T, T = thread[t].tid, NEW L, L = LeftTid(T), NEW R, R = RightTid(T)
  PROVE  /\ ForkEffect(t, r, kind, T, L, R)
         /\ T \in Tids /\ T = pos[t] /\ L \in Tids /\ R \in Tids
<1>1. T \in Tids /\ T.tree \in 0 .. TreeDepth /\ T.dag \in 0 .. DagDepth
  BY TypesOf DEF Tids
<1>2. TreeDepth \in Nat /\ DagDepth \in Nat
  BY DEF DecheckAssumption
<1>3. /\ thread[t].state = "running" /\ thread[r].state = "unused" /\ t # r
      /\ T.tree < TreeDepth /\ T.dag + T.tree + 2 <= DagDepth
  BY DEF Fork, Running
<1>4. T.dag < DagDepth
  BY <1>1, <1>2, <1>3
<1>5. T = pos[t] /\ join[r] = <<>>
  <2>1. Started(t) /\ ~Running(r)
    BY <1>3 DEF Started, Running
  <2> QED
    BY <2>1 DEF Inv, ThreadInv
<1>6. /\ L \in Tids /\ R \in Tids
      /\ L.tree = T.tree + 1 /\ L.dag = T.dag + 1 /\ L.tree \in L.path
      /\ R.tree = T.tree + 1 /\ R.dag = T.dag + 1 /\ R.tree \in R.path
  BY <1>1, <1>3, <1>4, SideFacts
<1>7. L.tree \in 0 .. TreeDepth /\ L.dag \in 0 .. DagDepth
  BY <1>6 DEF Tids
<1>8. PICK S : S = thread[t].sync
  OBVIOUS
<1>9. S \in [0 .. TreeDepth -> 0 .. DagDepth]
  BY <1>8, TypesOf
<1>10. PICK X : X = [thread[t] EXCEPT !.tid = L, !.sync = [S EXCEPT ![L.tree] = L.dag]]
  OBVIOUS
<1>11. PICK Y : Y = [thread[r] EXCEPT !.state = "ready", !.parent = t, !.kind = kind,
                                      !.sync = IF kind = "spork" THEN S ELSE thread[r].sync]
  OBVIOUS
<1>12. /\ thread \in [Threads -> Strands]
       /\ thread[t] \in Strands /\ thread[r] \in Strands
  BY DEF DecheckTypeOK
<1>13. [S EXCEPT ![L.tree] = L.dag] \in [0 .. TreeDepth -> 0 .. DagDepth]
  BY <1>7, <1>9
<1>14. X \in Strands /\ X.state = "running" /\ X.tid = L /\ X.parent = thread[t].parent
         /\ X.sync = [S EXCEPT ![L.tree] = L.dag]
  BY <1>3, <1>6, <1>10, <1>12, <1>13 DEF Strands
<1>15. Y \in Strands /\ Y.state = "ready" /\ Y.parent = t /\ Y.kind = kind
         /\ (kind = "spork" => Y.sync = S)
  BY <1>9, <1>11, <1>12 DEF Strands
<1>28. thread' = [thread EXCEPT ![t] = X, ![r] = Y]
  <2>1. X = SetTid(thread[t], L)
    BY <1>8, <1>10 DEF SetTid
  <2>2. X = SetTid(thread[t], LeftTid(thread[t].tid))
    BY <2>1
  <2>3. Y = [thread[r] EXCEPT !.state = "ready", !.parent = t, !.kind = kind,
                    !.sync = IF kind = "spork" THEN thread[t].sync ELSE thread[r].sync]
    BY <1>8, <1>11
  <2>4. [thread EXCEPT ![t] = X] = [thread EXCEPT ![t] = SetTid(@, LeftTid(thread[t].tid))]
    BY <2>2
  <2>5. [thread EXCEPT ![t] = X][r] = thread[r]
    BY <1>3, <1>12
  <2> QED
    BY <2>2, <2>3, <2>5, Zenon DEF Fork
<1>16. thread' \in [Threads -> Strands] /\ thread'[t] = X /\ thread'[r] = Y
       /\ \A u \in Threads : u # t /\ u # r => thread'[u] = thread[u]
  BY <1>3, <1>12, <1>14, <1>15, <1>28
<1>17. PICK last : last = [thread |-> r, tidRight |-> R]
  OBVIOUS
<1>18. last \in Forks
  BY <1>6, <1>17 DEF Forks
<1>19. /\ join \in [Threads -> Seq(Forks)]
       /\ join' = [join EXCEPT ![t] = Append(@, last)]
  BY <1>17 DEF DecheckTypeOK, Fork
<1>20. /\ join'[t] = Append(join[t], last)
       /\ \A u \in Threads : u # t => join'[u] = join[u]
  BY <1>19
<1>21. /\ join'[t] \in Seq(Forks)
       /\ Len(join'[t]) = Len(join[t]) + 1
       /\ join'[t][Len(join[t]) + 1] = last
       /\ \A i \in 1 .. Len(join[t]) : join'[t][i] = join[t][i]
  BY <1>18, <1>19, <1>20, AppendProperties
<1>22. join' \in [Threads -> Seq(Forks)]
  BY <1>18, <1>19, <1>21
<1>23. /\ norm_path(L) = Strand(L, L.tree) /\ norm_path(R) = Strand(R, R.tree)
       /\ norm_path(L) \in Words /\ norm_path(R) \in Words
  BY <1>6, <1>7, StrandFacts
<1>24. /\ synch_depths \in [Words -> 0 .. DagDepth]
       /\ synch_depths' = [synch_depths EXCEPT ![norm_path(L)] = L.dag, ![norm_path(R)] = L.dag]
  BY <1>6 DEF Fork, DecheckTypeOK
<1>25. /\ synch_depths' \in [Words -> 0 .. DagDepth]
       /\ \A w \in Words :
            synch_depths'[w] = IF w \in {norm_path(L), norm_path(R)} THEN L.dag
                               ELSE synch_depths[w]
  BY <1>7, <1>23, <1>24
<1>26. /\ object' = object /\ before' = [before EXCEPT ![r] = before[t]]
  BY DEF Fork
<1>27. Running(t) /\ ~Live(r)
  BY <1>3 DEF Running, Live
<1> QED
  BY <1>1, <1>3, <1>4, <1>5, <1>6, <1>8, <1>14, <1>15, <1>16, <1>17, <1>20, <1>21,
     <1>22, <1>23, <1>25, <1>26, <1>27 DEF ForkEffect

LEMMA Numbers ==
  ASSUME DecheckAssumption, NEW U \in Tids
  PROVE  U.tree \in 0 .. TreeDepth /\ U.dag \in 0 .. DagDepth /\ TreeDepth \in Nat /\ DagDepth \in Nat
BY DEF DecheckAssumption, Tids

\* Both sides go on from the strand of t, whose own depths stay, and lead
\* through new strands, which no other thread's does.
LEMMA ForkDags ==
  ASSUME DecheckAssumption, NEW pos \in Positions, NEW base \in Depths, Inv(pos, base),
         NEW t \in Threads, NEW r \in Threads, NEW kind \in {"spork", "function"},
         NEW T \in Tids, T = pos[t], NEW L, L = LeftTid(T), NEW R, R = RightTid(T),
         ForkEffect(t, r, kind, T, L, R)
  PROVE  /\ \A u \in Threads : Live(u) /\ u # t => ~Agree(pos[u], T, T.tree)
         /\ \A u \in Threads : Live(u) =>
              \A d \in 0 .. pos[u].tree : Dag(pos[u], d)' = Dag(pos[u], d)
         /\ \A d \in 0 .. T.tree :
              /\ Dag(L, d)' = Dag(T, d) /\ Dag(R, d)' = Dag(T, d)
              /\ Strand(L, d) = Strand(T, d) /\ Strand(R, d) = Strand(T, d)
         /\ Dag(L, L.tree)' = L.dag /\ Dag(R, R.tree)' = L.dag
<1>1. T.tree < TreeDepth /\ T.dag < DagDepth /\ Running(t) /\ Live(t)
  BY DEF ForkEffect, Running, Live
<1>2. /\ L \in Tids /\ R \in Tids
      /\ L.tree = T.tree + 1 /\ L.dag = T.dag + 1 /\ L.tree \in L.path
      /\ R.tree = T.tree + 1 /\ R.dag = T.dag + 1 /\ R.tree \in R.path
      /\ Agree(L, T, T.tree) /\ Agree(R, T, T.tree)
  BY <1>1, SideFacts
<1>3. /\ T.tree \in 0 .. TreeDepth /\ L.tree \in 0 .. TreeDepth /\ R.tree \in 0 .. TreeDepth
      /\ TreeDepth \in Nat /\ T.tree \in Int /\ L.tree \in Int /\ R.tree \in Int
  BY <1>2, Numbers
<1>4. \A w \in Words :
        synch_depths'[w] = IF w \in {Strand(L, L.tree), Strand(R, R.tree)} THEN L.dag
                           ELSE synch_depths[w]
  BY DEF ForkEffect
<1>5. ASSUME NEW U \in Tids, NEW d \in 0 .. TreeDepth,
             d # T.tree + 1 \/ ~Agree(U, T, T.tree)
      PROVE  Dag(U, d)' = Dag(U, d)
  <2>1. Strand(U, d) # Strand(L, L.tree)
    <3>1. ASSUME d = L.tree, Agree(U, L, d) PROVE FALSE
      <4>1. d \in Int /\ T.tree <= d
        BY <1>2, <1>3, <3>1
      <4>2. Agree(U, L, T.tree)
        BY <1>3, <3>1, <4>1, AgreeFacts
      <4>3. Agree(U, T, T.tree)
        BY <1>2, <1>3, <4>2, AgreeFacts
      <4> QED
        BY <1>2, <1>5, <3>1, <4>3
    <3> QED
      BY <1>2, <1>3, <3>1, SameStrand
  <2>2. Strand(U, d) # Strand(R, R.tree)
    <3>1. ASSUME d = R.tree, Agree(U, R, d) PROVE FALSE
      <4>1. d \in Int /\ T.tree <= d
        BY <1>2, <1>3, <3>1
      <4>2. Agree(U, R, T.tree)
        BY <1>3, <3>1, <4>1, AgreeFacts
      <4>3. Agree(U, T, T.tree)
        BY <1>2, <1>3, <4>2, AgreeFacts
      <4> QED
        BY <1>2, <1>5, <3>1, <4>3
    <3> QED
      BY <1>2, <1>3, <3>1, SameStrand
  <2>3. Strand(U, d) \in Words
    BY StrandFacts
  <2> QED
    BY <1>4, <2>1, <2>2, <2>3 DEF Dag
<1>6. ASSUME NEW u \in Threads, Live(u), u # t PROVE ~Agree(pos[u], T, T.tree)
  <2>1. Apart(pos[u], T)
    BY <1>1, <1>6 DEF Inv, ApartInv
  <2> QED
    BY <2>1 DEF Apart, Agree
<1>7. ASSUME NEW u \in Threads, Live(u), NEW d \in 0 .. pos[u].tree
      PROVE  Dag(pos[u], d)' = Dag(pos[u], d)
  <2>1. pos[u] \in Tids
    BY DEF Positions
  <2>2. pos[u].tree \in 0 .. TreeDepth
    BY <2>1, Numbers
  <2>3. d \in 0 .. TreeDepth
    BY <1>3, <2>2
  <2>4. u = t => d # T.tree + 1
    BY <1>3, <2>2
  <2> QED
    BY <1>5, <1>6, <1>7, <2>1, <2>3, <2>4
<1>8. ASSUME NEW d \in 0 .. T.tree
      PROVE  /\ Dag(L, d)' = Dag(T, d) /\ Dag(R, d)' = Dag(T, d)
             /\ Strand(L, d) = Strand(T, d) /\ Strand(R, d) = Strand(T, d)
  <2>1. d \in 0 .. TreeDepth /\ d # T.tree + 1 /\ d \in Int /\ d <= T.tree
    BY <1>3
  <2>2. Agree(L, T, d) /\ Agree(R, T, d)
    BY <1>2, <1>3, <2>1, AgreeFacts
  <2>3. Strand(L, d) = Strand(T, d) /\ Strand(R, d) = Strand(T, d)
    BY <1>2, <2>1, <2>2, SameStrand
  <2>4. Dag(L, d)' = Dag(L, d) /\ Dag(R, d)' = Dag(R, d)
    BY <1>2, <1>5, <2>1
  <2> QED
    BY <2>3, <2>4 DEF Dag
<1>9. Dag(L, L.tree)' = L.dag /\ Dag(R, R.tree)' = L.dag
  <2>1. Strand(L, L.tree) \in Words /\ Strand(R, R.tree) \in Words
    BY <1>2, <1>3, StrandFacts
  <2> QED
    BY <1>4, <2>1 DEF Dag
<1> QED
  BY <1>6, <1>7, <1>8, <1>9

(* Where the threads are after a fork.                                     *)
Moved(p, b, pos, base, t, r, T, L, R) ==
  /\ p = [pos EXCEPT ![t] = L, ![r] = R]
  /\ b = [base EXCEPT ![r] = T.tree + 1]

LEMMA ForkKeeps ==
  ASSUME DecheckAssumption, DecheckTypeOK,
         NEW pos \in Positions, NEW base \in Depths, Inv(pos, base),
         NEW t \in Threads, NEW r \in Threads, NEW kind \in {"spork", "function"},
         NEW T \in Tids, T = pos[t], NEW L, L = LeftTid(T), NEW R, R = RightTid(T),
         ForkEffect(t, r, kind, T, L, R),
         NEW p, NEW b, Moved(p, b, pos, base, t, r, T, L, R)
  PROVE  p \in Positions /\ b \in Depths /\ Inv(p, b)'
<1>1. /\ T.tree < TreeDepth /\ T.dag < DagDepth /\ T.dag + T.tree + 2 <= DagDepth
      /\ Running(t) /\ Live(t) /\ Started(t) /\ ~Live(r) /\ t # r /\ join[r] = <<>>
  BY DEF ForkEffect, Running, Live, Started
<1>2. /\ L \in Tids /\ R \in Tids
      /\ L.tree = T.tree + 1 /\ L.dag = T.dag + 1 /\ L.tree \in L.path
      /\ R.tree = T.tree + 1 /\ R.dag = T.dag + 1 /\ R.tree \in R.path
      /\ T.tree \notin L.path /\ T.tree \in R.path
      /\ Agree(L, T, T.tree) /\ Agree(R, T, T.tree)
  BY <1>1, SideFacts
<1>3. /\ T.tree \in 0 .. TreeDepth /\ L.tree \in 0 .. TreeDepth /\ R.tree \in 0 .. TreeDepth
      /\ T.dag \in 0 .. DagDepth
      /\ TreeDepth \in Nat /\ DagDepth \in Nat
      /\ T.tree \in Int /\ L.tree \in Int /\ R.tree \in Int /\ T.dag \in Int
  BY <1>2, Numbers
<1>4. /\ p \in Positions /\ p[t] = L /\ p[r] = R
      /\ \A u \in Threads : u # t /\ u # r => p[u] = pos[u]
  BY <1>1, <1>2 DEF Positions, Moved
<1>5. /\ b \in Depths /\ b[r] = T.tree + 1
      /\ \A u \in Threads : u # r => b[u] = base[u]
  BY <1>2, <1>3 DEF Depths, Moved
<1>6. \A u \in Threads : pos[u] \in Tids /\ base[u] \in 0 .. TreeDepth
  BY DEF Positions, Depths
<1>7. \A u \in Threads : Live(u) /\ u # t => ~Agree(pos[u], T, T.tree)
  BY ForkDags
<1>8. \A u \in Threads : Live(u) =>
        \A d \in 0 .. pos[u].tree : Dag(pos[u], d)' = Dag(pos[u], d)
  BY ForkDags
<1>9. /\ \A d \in 0 .. T.tree :
           /\ Dag(L, d)' = Dag(T, d) /\ Dag(R, d)' = Dag(T, d)
           /\ Strand(L, d) = Strand(T, d) /\ Strand(R, d) = Strand(T, d)
      /\ Dag(L, L.tree)' = L.dag /\ Dag(R, R.tree)' = L.dag
  BY ForkDags
<1>10. /\ thread'[t].state = "running" /\ thread'[r].state = "ready"
       /\ \A u \in Threads : u # t /\ u # r => thread'[u] = thread[u]
  BY DEF ForkEffect
<1>11. \A u \in Threads : u # r =>
         /\ Live(u)' <=> Live(u)
         /\ Started(u)' <=> Started(u)
         /\ Running(u)' <=> Running(u)
         /\ thread'[u].state = "ready" <=> thread[u].state = "ready"
  BY <1>1, <1>10 DEF Live, Started, Running
<1>12. ~Started(r)' /\ ~Running(r)' /\ Live(r)' /\ ~Started(r)
  BY <1>1, <1>10 DEF Live, Started, Running
<1>13. StrandInv(p, b)'
  <2> SUFFICES ASSUME NEW u \in Threads, Live(u)'
               PROVE  /\ p[u].tree \in p[u].path
                      /\ b[u] <= p[u].tree
                      /\ p[u].dag + p[u].tree <= DagDepth
                      /\ Dag(p[u], p[u].tree)' = p[u].dag
                      /\ \A d, e \in 0 .. p[u].tree : d < e => Dag(p[u], d)' < Dag(p[u], e)'
    BY DEF StrandInv
  <2>1. /\ T.tree \in T.path /\ base[t] <= T.tree /\ Dag(T, T.tree) = T.dag
        /\ \A d, e \in 0 .. T.tree : d < e => Dag(T, d) < Dag(T, e)
    BY <1>1 DEF Inv, StrandInv
  <2>2. ASSUME NEW U \in {L, R}
        PROVE  \A d, e \in 0 .. U.tree : d < e => Dag(U, d)' < Dag(U, e)'
    <3> SUFFICES ASSUME NEW d \in 0 .. U.tree, NEW e \in 0 .. U.tree, d < e
                 PROVE  Dag(U, d)' < Dag(U, e)'
      OBVIOUS
    <3>1. U.tree = T.tree + 1 /\ d \in 0 .. T.tree
      BY <1>2, <1>3
    <3>2. Dag(U, d)' = Dag(T, d) /\ Dag(U, U.tree)' = T.dag + 1
      BY <1>2, <1>9, <3>1
    <3>3. Dag(T, d) \in Int
      <4>1. Strand(T, d) \in Words
        BY <1>3, <3>1, StrandFacts
      <4>2. Dag(T, d) \in 0 .. DagDepth
        BY <4>1 DEF Dag, DecheckTypeOK
      <4> QED
        BY <4>2
    <3>4. CASE e = T.tree + 1
      <4>1. d = T.tree \/ d < T.tree
        BY <1>3, <3>1
      <4>2. Dag(T, d) < T.dag + 1
        BY <1>3, <2>1, <3>1, <3>3, <4>1
      <4> QED
        BY <3>1, <3>2, <3>4, <4>2
    <3>5. CASE e # T.tree + 1
      <4>1. e \in 0 .. T.tree
        BY <1>3, <3>1, <3>5
      <4>2. Dag(U, e)' = Dag(T, e)
        BY <1>9, <4>1
      <4> QED
        BY <2>1, <3>1, <3>2, <4>1, <4>2
    <3> QED
      BY <3>4, <3>5
  <2>3. CASE u = t
    <3>1. b[t] <= L.tree /\ L.dag + L.tree <= DagDepth
      <4>1. b[t] = base[t] /\ base[t] \in Int
        BY <1>1, <1>5, <1>6
      <4>2. b[t] <= L.tree
        BY <1>2, <1>3, <2>1, <4>1
      <4>3. L.dag + L.tree = T.dag + T.tree + 2
        BY <1>2, <1>3
      <4> QED
        BY <1>1, <4>2, <4>3
    <3>2. p[u] = L /\ b[u] = b[t]
      BY <1>4, <2>3
    <3>3. \A d, e \in 0 .. L.tree : d < e => Dag(L, d)' < Dag(L, e)'
      BY <2>2
    <3>4. L.tree \in L.path /\ Dag(L, L.tree)' = L.dag
      BY <1>2, <1>9
    <3> QED
      BY <3>1, <3>2, <3>3, <3>4
  <2>4. CASE u = r
    <3>1. b[r] <= R.tree /\ R.dag + R.tree <= DagDepth
      <4>1. b[r] = R.tree
        BY <1>2, <1>5
      <4>2. R.dag + R.tree = T.dag + T.tree + 2
        BY <1>2, <1>3
      <4> QED
        BY <1>1, <1>3, <4>1, <4>2
    <3>2. p[u] = R /\ b[u] = b[r]
      BY <1>4, <2>4
    <3>3. \A d, e \in 0 .. R.tree : d < e => Dag(R, d)' < Dag(R, e)'
      BY <2>2
    <3>4. R.tree \in R.path /\ Dag(R, R.tree)' = R.dag
      BY <1>2, <1>9
    <3> QED
      BY <3>1, <3>2, <3>3, <3>4
  <2>5. CASE u # t /\ u # r
    <3>1. Live(u) /\ p[u] = pos[u] /\ b[u] = base[u]
      BY <1>4, <1>5, <1>11, <2>5
    <3>2. /\ p[u].tree \in p[u].path
          /\ b[u] <= p[u].tree
          /\ p[u].dag + p[u].tree <= DagDepth
          /\ Dag(p[u], p[u].tree) = p[u].dag
          /\ \A d, e \in 0 .. p[u].tree : d < e => Dag(p[u], d) < Dag(p[u], e)
      BY <3>1 DEF Inv, StrandInv
    <3>3. p[u].tree \in 0 .. p[u].tree
      <4>1. p[u].tree \in 0 .. TreeDepth
        BY <1>6, <3>1, Numbers
      <4> QED
        BY <4>1
    <3>4. \A d \in 0 .. p[u].tree : Dag(p[u], d)' = Dag(p[u], d)
      BY <1>8, <3>1
    <3>5. Dag(p[u], p[u].tree)' = p[u].dag
      BY <3>2, <3>3, <3>4
    <3>6. ASSUME NEW d \in 0 .. p[u].tree, NEW e \in 0 .. p[u].tree, d < e
          PROVE  Dag(p[u], d)' < Dag(p[u], e)'
      BY <3>2, <3>4, <3>6
    <3>7. \A d, e \in 0 .. p[u].tree : d < e => Dag(p[u], d)' < Dag(p[u], e)'
      BY <3>6
    <3>8. p[u].tree \in p[u].path /\ b[u] <= p[u].tree /\ p[u].dag + p[u].tree <= DagDepth
      BY <3>2
    <3> QED
      BY <3>5, <3>7, <3>8
  <2> QED
    BY <2>3, <2>4, <2>5
<1>14. ApartInv(p)'
  <2>1. Apart(L, R) /\ Apart(R, L)
    <3>1. T.tree < L.tree /\ T.tree < R.tree
      BY <1>2, <1>3
    <3> QED
      BY <1>2, <1>3, <3>1 DEF Apart
  <2>2. ASSUME NEW u \in Threads, Live(u), u # t, NEW U \in {L, R}
        PROVE  Apart(U, pos[u]) /\ Apart(pos[u], U)
    <3>1. Apart(pos[u], T)
      BY <1>1, <2>2 DEF Inv, ApartInv
    <3>2. PICK c \in 0 .. TreeDepth :
            c < T.tree /\ c < pos[u].tree /\ ~(c \in pos[u].path <=> c \in T.path)
      BY <3>1 DEF Apart
    <3>3. c < U.tree /\ (c \in U.path <=> c \in T.path)
      <4>1. c < T.tree + 1
        BY <1>3, <3>2
      <4> QED
        BY <1>2, <3>2, <4>1 DEF Agree
    <3> QED
      BY <3>2, <3>3 DEF Apart
  <2>3. ASSUME NEW u \in Threads, NEW v \in Threads, Live(u)', Live(v)', u # v
        PROVE  Apart(p[u], p[v])
    <3>1. CASE u \in {t, r} /\ v \in {t, r}
      <4>1. (u = t /\ v = r) \/ (u = r /\ v = t)
        BY <2>3, <3>1
      <4> QED
        BY <1>4, <2>1, <4>1
    <3>2. CASE u \in {t, r} /\ v \notin {t, r}
      <4>1. Live(v) /\ p[v] = pos[v] /\ p[u] \in {L, R}
        BY <1>4, <1>11, <2>3, <3>2
      <4> QED
        BY <2>2, <3>2, <4>1
    <3>3. CASE u \notin {t, r} /\ v \in {t, r}
      <4>1. Live(u) /\ p[u] = pos[u] /\ p[v] \in {L, R}
        BY <1>4, <1>11, <2>3, <3>3
      <4> QED
        BY <2>2, <3>3, <4>1
    <3>4. CASE u \notin {t, r} /\ v \notin {t, r}
      <4>1. Live(u) /\ Live(v) /\ p[u] = pos[u] /\ p[v] = pos[v]
        BY <1>4, <1>11, <2>3, <3>4
      <4> QED
        BY <2>3, <4>1 DEF Inv, ApartInv
    <3> QED
      BY <3>1, <3>2, <3>3, <3>4
  <2> QED
    BY <2>3 DEF ApartInv
<1>15. ThreadInv(p, b)'
  <2>1. ASSUME NEW u \in Threads, u # t, u # r
        PROVE  /\ Started(u)' =>
                    /\ thread'[u].tid = p[u]
                    /\ p[u].tree = b[u] + Len(join'[u])
                    /\ \A d \in 0 .. p[u].tree : thread'[u].sync[d] = Dag(p[u], d)'
               /\ join'[u] # <<>> => Running(u)'
    <3>1. thread'[u] = thread[u] /\ join'[u] = join[u] /\ p[u] = pos[u] /\ b[u] = base[u]
      BY <1>4, <1>5, <1>10, <2>1 DEF ForkEffect
    <3>2. /\ Started(u) =>
               /\ thread[u].tid = p[u]
               /\ p[u].tree = b[u] + Len(join[u])
               /\ \A d \in 0 .. p[u].tree : thread[u].sync[d] = Dag(p[u], d)
          /\ join[u] # <<>> => Running(u)
      BY <3>1 DEF Inv, ThreadInv
    <3>3. Started(u) => \A d \in 0 .. p[u].tree : Dag(p[u], d)' = Dag(p[u], d)
      <4>1. Started(u) => Live(u)
        BY DEF Started, Live
      <4> QED
        BY <1>8, <3>1, <4>1
    <3> QED
      BY <1>11, <2>1, <3>1, <3>2, <3>3
  <2>2. /\ thread'[t].tid = p[t]
        /\ p[t].tree = b[t] + Len(join'[t])
        /\ \A d \in 0 .. p[t].tree : thread'[t].sync[d] = Dag(p[t], d)'
        /\ Running(t)'
    <3>1. /\ T.tree = base[t] + Len(join[t])
          /\ \A d \in 0 .. T.tree : thread[t].sync[d] = Dag(T, d)
      BY <1>1 DEF Inv, ThreadInv
    <3>2. /\ thread'[t].tid = L /\ Len(join'[t]) = Len(join[t]) + 1
          /\ thread'[t].sync = [thread[t].sync EXCEPT ![L.tree] = L.dag]
      BY DEF ForkEffect
    <3>3. L.tree = b[t] + Len(join'[t])
      <4>1. Len(join[t]) \in Nat /\ base[t] \in Nat
        BY <1>6, TypesOf
      <4> QED
        BY <1>1, <1>2, <1>5, <3>1, <3>2, <4>1
    <3>4. ASSUME NEW d \in 0 .. L.tree PROVE thread'[t].sync[d] = Dag(L, d)'
      <4>1. d \in 0 .. TreeDepth /\ (d = L.tree \/ (d # L.tree /\ d \in 0 .. T.tree))
        BY <1>2, <1>3
      <4>2. thread[t].sync \in [0 .. TreeDepth -> 0 .. DagDepth]
        BY TypesOf
      <4>3. thread'[t].sync[d] = IF d = L.tree THEN L.dag ELSE thread[t].sync[d]
        BY <3>2, <4>1, <4>2
      <4> QED
        BY <1>9, <3>1, <4>1, <4>3
    <3>5. Running(t)'
      BY <1>10 DEF Running
    <3> QED
      BY <1>4, <3>2, <3>3, <3>4, <3>5
  <2>3. ~Started(r)' /\ join'[r] = <<>>
    BY <1>1, <1>12 DEF ForkEffect
  <2> QED
    BY <2>1, <2>2, <2>3 DEF ThreadInv
<1>16. \A u \in Threads : u # r =>
         \A c \in 0 .. TreeDepth :
           c < T.tree \/ u # t => (c \in p[u].path <=> c \in pos[u].path)
  BY <1>2, <1>4 DEF Agree
<1>17. ASSUME NEW u \in Threads, NEW i \in 1 .. Len(join[u])
       PROVE  /\ u # r /\ join[u][i].thread \in Threads /\ join[u][i].thread # r
              /\ join'[u][i] = join[u][i]
              /\ Forked(pos, base, u, i, join[u][i].thread, join[u][i].tidRight)
  <2>1. join[u] \in Seq(Forks)
    BY TypesOf
  <2>2. join[u][i] \in Forks
    BY <2>1, ElementOfSeq
  <2>3. Forked(pos, base, u, i, join[u][i].thread, join[u][i].tidRight)
    BY DEF Inv, ForkInv
  <2>4. Live(join[u][i].thread)
    BY <2>3 DEF Forked
  <2>5. u # r
    BY <1>1
  <2>6. join'[u][i] = join[u][i]
    <3>1. /\ \A j \in 1 .. Len(join[t]) : join'[t][j] = join[t][j]
          /\ \A v \in Threads : v # t => join'[v] = join[v]
      BY Zenon DEF ForkEffect
    <3>2. CASE u = t
      BY <3>1, <3>2
    <3>3. CASE u # t
      BY <3>1, <3>3
    <3> QED
      BY <3>2, <3>3
  <2> QED
    BY <1>1, <2>2, <2>3, <2>4, <2>5, <2>6 DEF Forks
<1>18. /\ Len(join'[t]) = Len(join[t]) + 1
       /\ join'[t][Len(join[t]) + 1] = [thread |-> r, tidRight |-> R]
       /\ \A u \in Threads : u # t => join'[u] = join[u]
  BY DEF ForkEffect
<1>19. \A u \in Threads : \A i \in 1 .. Len(join'[u]) :
         i \in 1 .. Len(join[u]) \/ (u = t /\ i = Len(join[t]) + 1)
  <2>1. Len(join[t]) \in Nat
    BY TypesOf
  <2> QED
    BY <1>18, <2>1
<1>20. ForkInv(p, b)'
  <2>1. ASSUME NEW u \in Threads, NEW i \in 1 .. Len(join[u]),
               NEW s, s = join[u][i].thread, NEW S, S = join[u][i].tidRight
        PROVE  Forked(p, b, u, i, s, S)'
    <3>2. u # r /\ s \in Threads /\ s # r /\ join'[u][i] = join[u][i]
      BY <1>17, <2>1
    <3>3. /\ Live(s) /\ base[s] = base[u] + i
          /\ Agree(pos[s], pos[u], base[s] - 1)
          /\ base[s] - 1 \in pos[s].path
          /\ base[s] - 1 \notin pos[u].path
          /\ thread[s].state = "ready" =>
               /\ pos[s] = S
               /\ pos[s].tree = base[s]
               /\ thread[s].parent = u
               /\ thread[s].kind = "spork" =>
                   \A d \in 0 .. TreeDepth : d < base[s] => thread[s].sync[d] = Dag(pos[s], d)
      <4>1. Forked(pos, base, u, i, s, S)
        BY <1>17, <2>1
      <4> QED
        BY <4>1 DEF Forked
    <3>4. b[s] = base[s] /\ b[u] = base[u] /\ Live(s)'
      BY <1>5, <1>11, <3>2, <3>3
    <3>5. base[s] \in 0 .. TreeDepth /\ base[u] \in 0 .. TreeDepth /\ i \in Int /\ i >= 1
      BY <1>6, <3>2
    <3>6. base[s] - 1 \in 0 .. TreeDepth
      BY <1>3, <3>3, <3>5
    <3>7. u = t => base[s] <= T.tree
      <4>1. T.tree = base[t] + Len(join[t]) /\ Len(join[t]) \in Nat
        BY <1>1, TypesOf DEF Inv, ThreadInv
      <4>2. u = t => i <= Len(join[t])
        BY <4>1
      <4> QED
        BY <1>3, <3>3, <3>5, <4>1, <4>2
    <3>8. s = t => base[s] <= T.tree
      BY <1>1 DEF Inv, StrandInv
    <3>9. ASSUME NEW c \in 0 .. TreeDepth, c <= base[s] - 1
          PROVE  /\ c \in p[s].path <=> c \in pos[s].path
                 /\ c \in p[u].path <=> c \in pos[u].path
      <4>1. u = t => c < T.tree
        BY <1>3, <3>5, <3>7, <3>9
      <4>2. s = t => c < T.tree
        BY <1>3, <3>5, <3>8, <3>9
      <4> QED
        BY <1>16, <3>2, <4>1, <4>2
    <3>10. /\ Agree(p[s], p[u], b[s] - 1)
           /\ b[s] - 1 \in p[s].path
           /\ b[s] - 1 \notin p[u].path
      <4>1. \A c \in 0 .. TreeDepth : c < base[s] - 1 => c <= base[s] - 1
        BY <3>5
      <4>2. Agree(p[s], p[u], base[s] - 1)
        BY <3>3, <3>9, <4>1 DEF Agree
      <4>3. base[s] - 1 <= base[s] - 1
        BY <3>5
      <4> QED
        BY <3>3, <3>4, <3>6, <3>9, <4>2, <4>3
    <3>11. ASSUME thread'[s].state = "ready"
           PROVE  /\ p[s] = S
                  /\ p[s].tree = b[s]
                  /\ thread'[s].parent = u
                  /\ thread'[s].kind = "spork" =>
                      \A d \in 0 .. TreeDepth : d < b[s] => thread'[s].sync[d] = Dag(p[s], d)'
      <4>1. s # t
        BY <1>10, <3>11
      <4>2. thread'[s] = thread[s] /\ p[s] = pos[s]
        BY <1>4, <1>10, <3>2, <4>1
      <4>3. ASSUME NEW d \in 0 .. TreeDepth, d < b[s] PROVE Dag(p[s], d)' = Dag(p[s], d)
        <5>1. d \in 0 .. pos[s].tree
          BY <3>3, <3>4, <3>5, <3>11, <4>2, <4>3
        <5> QED
          BY <1>8, <3>2, <3>3, <4>2, <5>1
      <4> QED
        BY <3>2, <3>3, <3>4, <3>11, <4>2, <4>3
    <3> QED
      BY <3>3, <3>4, <3>10, <3>11 DEF Forked
  <2>2. ASSUME NEW i, i = Len(join[t]) + 1 PROVE Forked(p, b, t, i, r, R)'
    <3>1. T.tree = base[t] + Len(join[t]) /\ Len(join[t]) \in Nat /\ base[t] \in Int
      BY <1>1, <1>6, TypesOf DEF Inv, ThreadInv
    <3>2. b[r] = b[t] + i /\ b[r] - 1 = T.tree
      <4>1. b[t] = base[t]
        BY <1>1, <1>5
      <4>2. b[r] = T.tree + 1
        BY <1>5
      <4> QED
        BY <1>3, <2>2, <3>1, <4>1, <4>2
    <3>3. Agree(R, L, T.tree)
      BY <1>2, <1>3, AgreeFacts
    <3>4. /\ thread'[r].parent = t /\ thread'[r].kind = kind
          /\ kind = "spork" => thread'[r].sync = thread[t].sync
      BY DEF ForkEffect
    <3>5. ASSUME kind = "spork", NEW d \in 0 .. TreeDepth, d < b[r]
          PROVE  thread'[r].sync[d] = Dag(R, d)'
      <4>1. d \in 0 .. T.tree
        BY <1>3, <1>5, <3>5
      <4>2. thread[t].sync[d] = Dag(T, d)
        BY <1>1, <4>1 DEF Inv, ThreadInv
      <4> QED
        BY <1>9, <3>4, <3>5, <4>1, <4>2
    <3> QED
      BY <1>2, <1>4, <1>5, <1>12, <3>2, <3>3, <3>4, <3>5 DEF Forked
  <2>3. ASSUME NEW u \in Threads, NEW i \in 1 .. Len(join'[u]),
               NEW s, s = join'[u][i].thread, NEW S, S = join'[u][i].tidRight
        PROVE  Forked(p, b, u, i, s, S)'
    <3>1. CASE i \in 1 .. Len(join[u])
      <4>1. join'[u][i] = join[u][i]
        BY <1>17, <3>1
      <4> QED
        BY <2>1, <2>3, <3>1, <4>1
    <3>2. CASE u = t /\ i = Len(join[t]) + 1
      <4>1. s = r /\ S = R
        BY <1>18, <2>3, <3>2
      <4> QED
        BY <2>2, <3>2, <4>1
    <3> QED
      BY <1>19, <3>1, <3>2
  <2>4. ASSUME NEW u \in Threads, NEW v \in Threads,
               NEW i \in 1 .. Len(join'[u]), NEW j \in 1 .. Len(join'[v]),
               join'[u][i].thread = join'[v][j].thread
        PROVE  u = v /\ i = j
    <3>1. join'[t][Len(join[t]) + 1].thread = r
      BY <1>18
    <3>2. CASE i \in 1 .. Len(join[u]) /\ j \in 1 .. Len(join[v])
      <4>1. join[u][i].thread = join[v][j].thread
        BY <1>17, <2>4, <3>2
      <4> QED
        BY <3>2, <4>1 DEF Inv, ForkInv
    <3>3. CASE i \in 1 .. Len(join[u]) /\ v = t /\ j = Len(join[t]) + 1
      <4>1. join'[u][i].thread # r
        BY <1>17, <3>3
      <4> QED
        BY <2>4, <3>1, <3>3, <4>1
    <3>4. CASE j \in 1 .. Len(join[v]) /\ u = t /\ i = Len(join[t]) + 1
      <4>1. join'[v][j].thread # r
        BY <1>17, <3>4
      <4> QED
        BY <2>4, <3>1, <3>4, <4>1
    <3>5. CASE u = t /\ v = t /\ i = Len(join[t]) + 1 /\ j = Len(join[t]) + 1
      BY <3>5
    <3> QED
      BY <1>19, <3>2, <3>3, <3>4, <3>5
  <2> QED
    BY <2>3, <2>4 DEF ForkInv
<1>21. ASSUME NEW o \in Items, object[o] # Bogus
       PROVE  /\ object[o].owner \in Threads /\ object[o].owner # r
              /\ object[o].depth - 1 \in 0 .. pos[object[o].owner].tree
              /\ object[o].depth \in 1 .. TreeDepth + 1
              /\ Agree(p[object[o].owner], pos[object[o].owner], object[o].depth - 1)
              /\ Placed(pos, base, object[o].owner, object[o].depth, object[o].tid)
  <2>1. PICK a, D, K : a = object[o].owner /\ D = object[o].depth /\ K = object[o].tid
    OBVIOUS
  <2>2. a \in Threads /\ D \in 1 .. TreeDepth + 1 /\ K \in Tids
    BY <1>21, <2>1 DEF DecheckTypeOK, Places
  <2>3. Placed(pos, base, a, D, K)
    BY <1>21, <2>1 DEF Inv, ObjectInv
  <2>4. Started(a) /\ D <= pos[a].tree + 1
    BY <2>3 DEF Placed
  <2>5. pos[a].tree \in 0 .. TreeDepth
    BY <1>6, <2>2, Numbers
  <2>6. D - 1 \in 0 .. pos[a].tree /\ D - 1 \in Int
    BY <1>3, <2>2, <2>4, <2>5
  <2>7. Agree(p[a], pos[a], D - 1)
    <3>1. \A c \in 0 .. TreeDepth : c < D - 1 /\ a = t => c < T.tree
      BY <1>3, <2>6
    <3> QED
      BY <1>12, <1>16, <2>2, <2>4, <3>1 DEF Agree
  <2> QED
    BY <1>12, <2>1, <2>2, <2>3, <2>4, <2>6, <2>7
<1>22. ObjectInv(p, b)'
  <2> SUFFICES ASSUME NEW o \in Items, object[o] # Bogus
               PROVE  Placed(p, b, object[o].owner, object[o].depth, object[o].tid)'
    BY DEF ObjectInv, ForkEffect
  <2>1. PICK a, D, K : a = object[o].owner /\ D = object[o].depth /\ K = object[o].tid
    OBVIOUS
  <2>2. /\ a \in Threads /\ a # r /\ D - 1 \in 0 .. pos[a].tree /\ Agree(p[a], pos[a], D - 1)
        /\ D \in 1 .. TreeDepth + 1
    BY <1>21, <2>1
  <2>3. /\ Started(a) /\ base[a] < D /\ D <= pos[a].tree + 1
        /\ K.tree \in K.path /\ D - 1 <= K.tree
        /\ Agree(K, pos[a], D - 1)
        /\ K.dag <= Dag(pos[a], D - 1)
        /\ D >= 2 => Dag(pos[a], D - 2) < K.dag
    BY <1>21, <2>1 DEF Placed
  <2>4. pos[a].tree \in 0 .. TreeDepth /\ D \in Int /\ D - 1 \in Int
    BY <1>3, <1>6, <2>2, Numbers
  <2>5. D >= 2 => D - 2 \in 0 .. pos[a].tree
    BY <2>3, <2>4
  <2>6. Live(a)
    BY <2>3 DEF Started, Live
  <2>7. /\ Dag(pos[a], D - 1)' = Dag(pos[a], D - 1)
        /\ D >= 2 => Dag(pos[a], D - 2)' = Dag(pos[a], D - 2)
    BY <1>8, <2>2, <2>5, <2>6
  <2>8. /\ Strand(p[a], D - 1) = Strand(pos[a], D - 1)
        /\ D >= 2 => Strand(p[a], D - 2) = Strand(pos[a], D - 2)
    <3>1. D - 1 \in 0 .. TreeDepth /\ (D >= 2 => D - 2 \in 0 .. TreeDepth)
      BY <1>3, <2>2, <2>4
    <3>2. p[a] \in Tids /\ pos[a] \in Tids
      BY <1>4, <2>2 DEF Positions
    <3>3. D - 2 \in Int /\ D - 2 <= D - 1
      BY <2>4
    <3>4. Agree(p[a], pos[a], D - 2)
      BY <2>2, <2>4, <3>3, AgreeFacts
    <3> QED
      BY <2>2, <3>1, <3>2, <3>4, SameStrand
  <2>9. K.dag <= Dag(p[a], D - 1)' /\ (D >= 2 => Dag(p[a], D - 2)' < K.dag)
    BY <2>3, <2>7, <2>8 DEF Dag
  <2>10. Agree(K, p[a], D - 1)
    <3>1. Agree(pos[a], p[a], D - 1)
      BY <2>2, <2>4, AgreeFacts
    <3> QED
      BY <2>3, <2>4, <3>1, AgreeFacts
  <2>11. D <= p[a].tree + 1
    <3>1. CASE a = t
      <4>1. D <= T.tree + 1 /\ p[a].tree = T.tree + 1
        BY <1>2, <1>4, <2>3, <3>1
      <4> QED
        BY <1>3, <2>4, <4>1
    <3>2. CASE a # t
      BY <1>4, <2>2, <2>3, <3>2
    <3> QED
      BY <3>1, <3>2
  <2>12. Started(a)' /\ b[a] = base[a]
    BY <1>5, <1>11, <2>2, <2>3
  <2>13. Placed(p, b, a, D, K)'
    BY <2>3, <2>9, <2>10, <2>11, <2>12 DEF Placed
  <2>14. object'[o] = object[o]
    BY DEF ForkEffect
  <2> QED
    BY <2>1, <2>13, <2>14
<1>23. ASSUME NEW o \in Items, object[o] # Bogus, NEW U \in {L, R}
       PROVE  Above(p[object[o].owner], object[o].depth, U)
                <=> Above(pos[object[o].owner], object[o].depth, T)
  <2>1. PICK a, D : a = object[o].owner /\ D = object[o].depth
    OBVIOUS
  <2>2. /\ a \in Threads /\ a # r /\ D - 1 \in 0 .. pos[a].tree /\ Agree(p[a], pos[a], D - 1)
        /\ D \in 1 .. TreeDepth + 1 /\ Started(a)
    <3>1. Placed(pos, base, object[o].owner, object[o].depth, object[o].tid)
      BY <1>21, <1>23
    <3>2. Started(a)
      BY <2>1, <3>1 DEF Placed
    <3> QED
      BY <1>21, <1>23, <2>1, <3>2
  <2>3. pos[a].tree \in 0 .. TreeDepth /\ D \in Int /\ D - 1 \in Int
    BY <1>3, <1>6, <2>2, Numbers
  <2>4. U.tree = T.tree + 1 /\ Agree(U, T, T.tree) /\ Agree(T, U, T.tree)
    BY <1>2, <1>3, AgreeFacts
  <2>5. ASSUME Above(pos[a], D, T) PROVE Above(p[a], D, U)
    <3>1. D - 1 <= T.tree /\ Agree(pos[a], T, D - 1)
      BY <2>5 DEF Above
    <3>2. Agree(T, U, D - 1)
      BY <1>3, <2>3, <2>4, <3>1, AgreeFacts
    <3>3. Agree(p[a], U, D - 1)
      BY <2>2, <2>3, <3>1, <3>2, AgreeFacts
    <3> QED
      BY <1>3, <2>3, <2>4, <3>1, <3>3 DEF Above
  <2>6. ASSUME Above(p[a], D, U) PROVE Above(pos[a], D, T)
    <3>1. D - 1 <= T.tree + 1 /\ Agree(p[a], U, D - 1)
      BY <2>4, <2>6 DEF Above
    <3>2. Agree(pos[a], U, D - 1)
      BY <2>2, <2>3, <3>1, AgreeFacts
    <3>3. CASE D - 1 <= T.tree
      <4>1. Agree(U, T, D - 1)
        BY <1>3, <2>3, <2>4, <3>3, AgreeFacts
      <4>2. Agree(pos[a], T, D - 1)
        BY <2>3, <3>2, <4>1, AgreeFacts
      <4> QED
        BY <3>3, <4>2 DEF Above
    <3>4. CASE ~(D - 1 <= T.tree)
      <4>1. T.tree <= D - 1 /\ a # t
        BY <1>3, <2>2, <2>3, <3>4
      <4>2. Agree(pos[a], U, T.tree)
        BY <1>3, <2>3, <3>2, <4>1, AgreeFacts
      <4>3. Agree(pos[a], T, T.tree)
        BY <1>3, <2>4, <4>2, AgreeFacts
      <4>4. Live(a)
        BY <2>2 DEF Started, Live
      <4> QED
        BY <1>7, <2>2, <4>1, <4>3, <4>4
    <3> QED
      BY <3>3, <3>4
  <2> QED
    BY <2>1, <2>5, <2>6
<1>24. BeforeInv(p)'
  <2>1. /\ object' = object /\ before' = [before EXCEPT ![r] = before[t]]
        /\ before \in [Threads -> SUBSET Items]
    BY DEF ForkEffect, DecheckTypeOK
  <2>2. \A u \in Threads : before'[u] = IF u = r THEN before[t] ELSE before[u]
    BY <2>1
  <2>3. \A o \in Items :
          o \in before[t] <=>
            object[o] # Bogus /\ Above(pos[object[o].owner], object[o].depth, T)
    BY <1>1 DEF Inv, BeforeInv
  <2>4. ASSUME NEW u \in Threads, Live(u)', NEW o \in Items
        PROVE  o \in before'[u] <=>
                 object[o] # Bogus /\ Above(p[object[o].owner], object[o].depth, p[u])
    <3>1. CASE u \in {t, r}
      <4>1. before'[u] = before[t] /\ p[u] \in {L, R}
        BY <1>1, <1>4, <2>2, <3>1
      <4> QED
        BY <1>23, <2>3, <4>1
    <3>2. CASE u \notin {t, r}
      <4>1. before'[u] = before[u] /\ p[u] = pos[u] /\ Live(u)
        BY <1>4, <1>11, <2>2, <2>4, <3>2
      <4>2. o \in before[u] <=>
              object[o] # Bogus /\ Above(pos[object[o].owner], object[o].depth, pos[u])
        BY <4>1 DEF Inv, BeforeInv
      <4>3. ASSUME object[o] # Bogus
            PROVE  Above(p[object[o].owner], object[o].depth, pos[u])
                     <=> Above(pos[object[o].owner], object[o].depth, pos[u])
        <5>1. PICK a, D : a = object[o].owner /\ D = object[o].depth
          OBVIOUS
        <5>2. Agree(p[a], pos[a], D - 1) /\ D \in 1 .. TreeDepth + 1
          BY <1>21, <4>3, <5>1
        <5>3. D - 1 \in Int
          BY <1>3, <5>2
        <5>4. Agree(p[a], pos[u], D - 1) <=> Agree(pos[a], pos[u], D - 1)
          BY <5>2, <5>3, AgreeFacts
        <5> QED
          BY <5>1, <5>4 DEF Above
      <4> QED
        BY <4>1, <4>2, <4>3
    <3> QED
      BY <3>1, <3>2
  <2> QED
    BY <2>1, <2>4 DEF BeforeInv
<1> QED
  BY <1>4, <1>5, <1>13, <1>14, <1>15, <1>20, <1>22, <1>24 DEF Inv

-------------------------------------------------------------------------------
(* Join: t goes on from the strand before the fork, and r is free again. *)

\* The last fork of t is joined, with the right side not stolen or at its end.
Joins(t, r, R) ==
  /\ Running(t)
  /\ join[t] # <<>>
  /\ r = join[t][Len(join[t])].thread
  /\ \/ thread[r].state = "ready" /\ R = join[t][Len(join[t])].tidRight
     \/ thread[r].state = "done" /\ R = thread[r].tid
  /\ JoinWith(t, R)

LEMMA JoinsAll ==
  ASSUME DecheckTypeOK, NEW t \in Threads, FastJoin(t) \/ SlowJoin(t)
  PROVE  \E r \in Threads, R \in Tids : Joins(t, r, R)
<1>1. Running(t) /\ join[t] # <<>>
  BY DEF FastJoin, SlowJoin
<1>2. join[t] \in Seq(Forks) /\ Len(join[t]) \in 1 .. Len(join[t])
  BY <1>1, TypesOf
<1>3. join[t][Len(join[t])] \in Forks
  BY <1>2, ElementOfSeq
<1>4. PICK x : x = join[t][Len(join[t])]
  OBVIOUS
<1>5. x.thread \in Threads /\ x.tidRight \in Tids
  BY <1>3, <1>4 DEF Forks
<1>6. CASE FastJoin(t)
  <2>1. thread[x.thread].state = "ready" /\ JoinWith(t, x.tidRight)
    BY <1>4, <1>6 DEF FastJoin
  <2>2. Joins(t, x.thread, x.tidRight)
    BY <1>1, <1>4, <2>1 DEF Joins
  <2> QED
    BY <1>5, <2>2
<1>7. CASE SlowJoin(t)
  <2>1. thread[x.thread].state = "done" /\ JoinWith(t, thread[x.thread].tid)
    BY <1>4, <1>7 DEF SlowJoin
  <2>2. Joins(t, x.thread, thread[x.thread].tid)
    BY <1>1, <1>4, <2>1 DEF Joins
  <2> QED
    BY <1>5, <2>2, TypesOf
<1> QED
  BY <1>6, <1>7

\* What a join finds, and what it does to each variable.
JoinFound(pos, base, t, r, T, R) ==
  /\ t # r /\ Running(t) /\ Live(r) /\ join[r] = <<>>
  /\ Len(join[t]) \in 1 .. Len(join[t]) /\ join[t][Len(join[t])].thread = r
  /\ base[r] = base[t] + Len(join[t]) /\ T.tree = base[r] /\ R.tree = base[r] /\ T.tree > 0
  /\ R = pos[r]
  /\ T.dag + T.tree <= DagDepth /\ R.dag + R.tree <= DagDepth
  /\ Agree(R, T, T.tree - 1) /\ T.tree - 1 \in R.path /\ T.tree - 1 \notin T.path

JoinEffect(t, r, T, J) ==
  /\ thread' \in [Threads -> Strands]
  /\ thread'[t].state = "running" /\ thread'[t].tid = J
  /\ thread'[t].parent = thread[t].parent
  /\ thread'[t].sync = [thread[t].sync EXCEPT ![J.tree] = J.dag]
  /\ thread'[r].state = "unused" /\ thread'[r].parent = Bogus
  /\ \A u \in Threads : u # t /\ u # r => thread'[u] = thread[u]
  /\ join' \in [Threads -> Seq(Forks)]
  /\ Len(join'[t]) = Len(join[t]) - 1
  /\ \A i \in 1 .. Len(join[t]) - 1 : join'[t][i] = join[t][i]
  /\ \A u \in Threads : u # t => join'[u] = join[u]
  /\ object' = Promoted(t, r, T.tree + 1)
  /\ before' = [before EXCEPT ![t] = @ \union before[r], ![r] = {}]
  /\ synch_depths' \in [Words -> 0 .. DagDepth]
  /\ \A w \in Words :
       synch_depths'[w] = IF w = Strand(J, J.tree) THEN J.dag ELSE synch_depths[w]

LEMMA JoinFinds ==
  ASSUME DecheckAssumption, DecheckTypeOK,
         NEW pos \in Positions, NEW base \in Depths, Inv(pos, base),
         NEW t \in Threads, NEW r \in Threads, NEW R \in Tids, Joins(t, r, R),
         NEW T, T = thread[t].tid
  PROVE  T \in Tids /\ T = pos[t] /\ JoinFound(pos, base, t, r, T, R)
<1>1. T \in Tids
  BY TypesOf
<1>2. Running(t) /\ Started(t) /\ Live(t)
  BY DEF Joins, Running, Started, Live
<1>3. T = pos[t] /\ T.tree = base[t] + Len(join[t])
  BY <1>2 DEF Inv, ThreadInv
<1>4. PICK n : n = Len(join[t])
  OBVIOUS
<1>5. n \in 1 .. Len(join[t]) /\ n \in Nat /\ n >= 1
  <2>1. join[t] # <<>> /\ join[t] \in Seq(Forks)
    BY TypesOf DEF Joins
  <2> QED
    BY <1>4, <2>1
<1>6. /\ r = join[t][n].thread
      /\ \/ thread[r].state = "ready" /\ R = join[t][n].tidRight
         \/ thread[r].state = "done" /\ R = thread[r].tid
  BY <1>4 DEF Joins
<1>7. Forked(pos, base, t, n, r, join[t][n].tidRight)
  BY <1>5, <1>6 DEF Inv, ForkInv
<1>8. /\ Live(r) /\ base[r] = base[t] + n
      /\ Agree(pos[r], T, base[r] - 1)
      /\ base[r] - 1 \in pos[r].path
      /\ base[r] - 1 \notin T.path
      /\ thread[r].state = "ready" => pos[r] = join[t][n].tidRight /\ pos[r].tree = base[r]
  BY <1>3, <1>7 DEF Forked
<1>9. t # r /\ ~Running(r)
  BY <1>2, <1>6 DEF Running
<1>10. join[r] = <<>>
  BY <1>9 DEF Inv, ThreadInv
<1>11. R = pos[r] /\ R.tree = base[r]
  <2>1. CASE thread[r].state = "ready"
    BY <1>6, <1>8, <2>1
  <2>2. CASE thread[r].state = "done"
    <3>1. Started(r)
      BY <2>2 DEF Started
    <3>2. thread[r].tid = pos[r] /\ pos[r].tree = base[r] + Len(join[r])
      BY <3>1 DEF Inv, ThreadInv
    <3>3. Len(join[r]) = 0 /\ base[r] \in Int
      BY <1>10 DEF Depths
    <3>4. R = thread[r].tid
      BY <1>6, <2>2
    <3> QED
      BY <3>2, <3>3, <3>4
  <2> QED
    BY <1>6, <2>1, <2>2
<1>12. T.dag + T.tree <= DagDepth /\ R.dag + R.tree <= DagDepth
  BY <1>2, <1>3, <1>8, <1>11 DEF Inv, StrandInv
<1>13. base[t] \in Nat
  BY DEF Depths
<1>14. T.tree > 0 /\ T.tree = base[r]
  BY <1>3, <1>4, <1>5, <1>8, <1>13
<1> QED
  BY <1>1, <1>2, <1>3, <1>4, <1>5, <1>6, <1>8, <1>9, <1>10, <1>11, <1>12, <1>14 DEF JoinFound

LEMMA JoinActs ==
  ASSUME DecheckAssumption, DecheckTypeOK,
         NEW pos \in Positions, NEW base \in Depths,
         NEW t \in Threads, NEW r \in Threads, NEW R \in Tids, Joins(t, r, R),
         NEW T \in Tids, T = thread[t].tid, JoinFound(pos, base, t, r, T, R),
         NEW J, J = JoinTid(T, R)
  PROVE  JoinEffect(t, r, T, J)
<1>1. /\ t # r /\ T.tree > 0 /\ T.dag + T.tree <= DagDepth /\ R.dag + R.tree <= DagDepth
      /\ R.tree = T.tree
  BY DEF JoinFound
<1>2. T.tree \in 0 .. TreeDepth /\ T.dag \in 0 .. DagDepth /\ R.dag \in 0 .. DagDepth
      /\ TreeDepth \in Nat /\ DagDepth \in Nat
  BY Numbers
<1>3. T.dag < DagDepth /\ R.dag < DagDepth
  BY <1>1, <1>2
<1>4. J \in Tids /\ J.tree \in J.path
  BY <1>1, <1>3, JoinedFacts
<1>5. J.tree \in 0 .. TreeDepth /\ J.dag \in 0 .. DagDepth
  BY <1>4, Numbers
<1>6. PICK S : S = thread[t].sync
  OBVIOUS
<1>7. S \in [0 .. TreeDepth -> 0 .. DagDepth]
  BY <1>6, TypesOf
<1>8. PICK X : X = [thread[t] EXCEPT !.tid = J, !.sync = [S EXCEPT ![J.tree] = J.dag]]
  OBVIOUS
<1>9. thread \in [Threads -> Strands] /\ thread[t] \in Strands
  BY DEF DecheckTypeOK
<1>10. [S EXCEPT ![J.tree] = J.dag] \in [0 .. TreeDepth -> 0 .. DagDepth]
  BY <1>5, <1>7
<1>11. thread[t].state = "running"
  BY DEF JoinFound, Running
<1>12. X \in Strands /\ X.state = "running" /\ X.tid = J /\ X.parent = thread[t].parent
       /\ X.sync = [S EXCEPT ![J.tree] = J.dag]
  BY <1>4, <1>8, <1>9, <1>10, <1>11 DEF Strands
<1>13. Unused \in Strands /\ Unused.state = "unused" /\ Unused.parent = Bogus
  <2>1. Tid({}, 0, 0) \in Tids /\ [d \in 0 .. TreeDepth |-> 0] \in [0 .. TreeDepth -> 0 .. DagDepth]
    <3>1. 0 \in 0 .. TreeDepth /\ 0 \in 0 .. DagDepth /\ {} \in Words
      BY <1>2 DEF Words
    <3> QED
      BY <3>1 DEF Tid, Tids
  <2> QED
    BY <2>1 DEF Unused, Strands
<1>14. thread' = [thread EXCEPT ![t] = X, ![r] = Unused]
  <2>1. X = SetTid(thread[t], J)
    BY <1>6, <1>8 DEF SetTid
  <2>2. X = SetTid(thread[t], JoinTid(thread[t].tid, R))
    BY <2>1
  <2>3. r = join[t][Len(join[t])].thread /\ JoinWith(t, R)
    BY DEF Joins
  <2> QED
    BY <2>2, <2>3, Zenon DEF JoinWith
<1>15. thread' \in [Threads -> Strands] /\ thread'[t] = X /\ thread'[r] = Unused
       /\ \A u \in Threads : u # t /\ u # r => thread'[u] = thread[u]
  BY <1>1, <1>9, <1>12, <1>13, <1>14
<1>16. /\ join \in [Threads -> Seq(Forks)] /\ join[t] \in Seq(Forks) /\ join[t] # <<>>
       /\ join' = [join EXCEPT ![t] = SubSeq(@, 1, Len(@) - 1)]
  BY DEF DecheckTypeOK, Joins, JoinWith
<1>17. PICK Q : Q = SubSeq(join[t], 1, Len(join[t]) - 1)
  OBVIOUS
<1>18. /\ Q \in Seq(Forks) /\ Len(Q) = Len(join[t]) - 1
       /\ \A i \in 1 .. Len(join[t]) - 1 : Q[i] = join[t][i]
  <2>1. Len(join[t]) \in Nat /\ Len(join[t]) >= 1
    BY <1>16
  <2>0. Len(join[t]) - 1 \in Nat
    BY <2>1
  <2>2. PICK n \in Nat : n = Len(join[t]) - 1
    BY <2>0
  <2>3. \A i \in 1 .. n : i \in 1 .. Len(join[t]) /\ 1 + i - 1 = i
    BY <2>1, <2>2
  <2>4. \A i \in 1 .. n : join[t][i] \in Forks
    BY <1>16, <2>3, ElementOfSeq
  <2>5. n - 1 + 1 = n /\ (IF 1 <= n THEN n - 1 + 1 ELSE 0) = n
    BY <2>2
  <2>6. /\ Q \in Seq(Forks) /\ Len(Q) = IF 1 <= n THEN n - 1 + 1 ELSE 0
        /\ \A i \in 1 .. n - 1 + 1 : Q[i] = join[t][1 + i - 1]
    BY <1>17, <2>2, <2>4, SubSeqProperties
  <2> QED
    BY <2>2, <2>3, <2>5, <2>6
<1>19. join'[t] = Q /\ join' \in [Threads -> Seq(Forks)]
       /\ \A u \in Threads : u # t => join'[u] = join[u]
  BY <1>16, <1>17, <1>18
<1>20. norm_path(J) = Strand(J, J.tree) /\ norm_path(J) \in Words
  BY <1>4, <1>5, StrandFacts
<1>21. /\ synch_depths \in [Words -> 0 .. DagDepth]
       /\ synch_depths' = [synch_depths EXCEPT ![norm_path(J)] = J.dag]
  BY DEF Joins, JoinWith, DecheckTypeOK
<1>22. /\ synch_depths' \in [Words -> 0 .. DagDepth]
       /\ \A w \in Words :
            synch_depths'[w] = IF w = norm_path(J) THEN J.dag ELSE synch_depths[w]
  BY <1>5, <1>20, <1>21
<1>23. /\ object' = Promoted(t, r, T.tree + 1)
       /\ before' = [before EXCEPT ![t] = @ \union before[r], ![r] = {}]
  BY DEF Joins, JoinWith
<1> QED
  BY <1>6, <1>12, <1>13, <1>15, <1>18, <1>19, <1>20, <1>22, <1>23 DEF JoinEffect

\* Only t and r lead through the strand before the fork.
LEMMA JoinDags ==
  ASSUME DecheckAssumption, NEW pos \in Positions, NEW base \in Depths, Inv(pos, base),
         NEW t \in Threads, NEW r \in Threads,
         NEW T \in Tids, T = pos[t], NEW R \in Tids, JoinFound(pos, base, t, r, T, R),
         NEW J, J = JoinTid(T, R), JoinEffect(t, r, T, J)
  PROVE  /\ \A u \in Threads : Live(u) /\ u # t /\ u # r =>
              ~(J.tree <= pos[u].tree /\ Agree(pos[u], T, J.tree))
         /\ \A u \in Threads : Live(u) /\ u # t /\ u # r =>
              \A d \in 0 .. pos[u].tree : Dag(pos[u], d)' = Dag(pos[u], d)
         /\ \A d \in 0 .. J.tree :
              Strand(J, d) = Strand(T, d) /\ Strand(R, d) = Strand(T, d)
         /\ \A d \in 0 .. J.tree - 1 : Dag(J, d)' = Dag(T, d)
         /\ Dag(J, J.tree)' = J.dag
<1>1. /\ t # r /\ T.tree > 0 /\ T.dag + T.tree <= DagDepth /\ R.dag + R.tree <= DagDepth
      /\ R.tree = T.tree /\ R = pos[r] /\ Live(r)
      /\ Agree(R, T, T.tree - 1) /\ T.tree - 1 \in R.path /\ T.tree - 1 \notin T.path
  BY DEF JoinFound
<1>2. T.tree \in 0 .. TreeDepth /\ T.dag \in 0 .. DagDepth /\ R.dag \in 0 .. DagDepth
      /\ TreeDepth \in Nat /\ DagDepth \in Nat /\ T.tree \in Int
  BY Numbers
<1>3. T.dag < DagDepth /\ R.dag < DagDepth
  BY <1>1, <1>2
<1>4. J \in Tids /\ J.tree = T.tree - 1 /\ J.tree \in J.path /\ Agree(J, T, J.tree)
  BY <1>1, <1>3, JoinedFacts
<1>5. J.tree \in 0 .. TreeDepth /\ J.dag \in 0 .. DagDepth /\ J.tree \in Int
  BY <1>4, Numbers
<1>6. Live(t)
  BY DEF JoinFound, Running, Live
<1>7. \A w \in Words :
        synch_depths'[w] = IF w = Strand(J, J.tree) THEN J.dag ELSE synch_depths[w]
  BY DEF JoinEffect
<1>8. ASSUME NEW u \in Threads, Live(u), u # t, u # r,
             J.tree <= pos[u].tree, Agree(pos[u], T, J.tree)
      PROVE  FALSE
  <2>1. Apart(pos[u], T) /\ Apart(pos[u], R)
    BY <1>1, <1>6, <1>8 DEF Inv, ApartInv
  <2>2. PICK c \in 0 .. TreeDepth :
          c < T.tree /\ ~(c \in pos[u].path <=> c \in T.path)
    BY <2>1 DEF Apart
  <2>3. PICK e \in 0 .. TreeDepth :
          e < R.tree /\ ~(e \in pos[u].path <=> e \in R.path)
    BY <2>1 DEF Apart
  <2>4. ~(c < J.tree)
    BY <1>8, <2>2 DEF Agree
  <2>5. c = T.tree - 1
    BY <1>2, <1>4, <2>2, <2>4
  <2>6. ~(e < J.tree)
    BY <1>1, <1>4, <1>8, <2>3 DEF Agree
  <2>7. e = T.tree - 1
    BY <1>1, <1>2, <1>4, <2>3, <2>6
  <2> QED
    BY <1>1, <2>2, <2>3, <2>5, <2>7
<1>9. ASSUME NEW U \in Tids, NEW d \in 0 .. TreeDepth, d # J.tree \/ ~Agree(U, T, J.tree)
      PROVE  Dag(U, d)' = Dag(U, d)
  <2>1. Strand(U, d) # Strand(J, J.tree)
    <3>1. ASSUME d = J.tree, Agree(U, J, d) PROVE FALSE
      <4>1. Agree(U, T, J.tree)
        BY <1>4, <1>5, <3>1, AgreeFacts
      <4> QED
        BY <1>9, <3>1, <4>1
    <3> QED
      BY <1>4, <1>5, <3>1, SameStrand
  <2>2. Strand(U, d) \in Words
    BY StrandFacts
  <2> QED
    BY <1>7, <2>1, <2>2 DEF Dag
<1>10. ASSUME NEW u \in Threads, Live(u), u # t, u # r, NEW d \in 0 .. pos[u].tree
       PROVE  Dag(pos[u], d)' = Dag(pos[u], d)
  <2>1. pos[u] \in Tids
    BY DEF Positions
  <2>2. pos[u].tree \in 0 .. TreeDepth
    BY <2>1, Numbers
  <2>3. d \in 0 .. TreeDepth /\ (d = J.tree => J.tree <= pos[u].tree)
    BY <1>2, <2>2
  <2> QED
    BY <1>8, <1>9, <1>10, <2>1, <2>3
<1>11. ASSUME NEW d \in 0 .. J.tree
       PROVE  Strand(J, d) = Strand(T, d) /\ Strand(R, d) = Strand(T, d)
  <2>1. d \in 0 .. TreeDepth /\ d \in Int /\ d <= J.tree
    BY <1>2, <1>5
  <2>2. Agree(J, T, d) /\ Agree(R, T, d)
    BY <1>1, <1>4, <1>5, <2>1, AgreeFacts
  <2> QED
    BY <1>4, <2>1, <2>2, SameStrand
<1>12. ASSUME NEW d \in 0 .. J.tree - 1 PROVE Dag(J, d)' = Dag(T, d)
  <2>1. d \in 0 .. TreeDepth /\ d # J.tree /\ d \in 0 .. J.tree
    BY <1>2, <1>5
  <2>2. Dag(J, d)' = Dag(J, d)
    BY <1>4, <1>9, <2>1
  <2> QED
    BY <1>11, <2>1, <2>2 DEF Dag
<1>13. Dag(J, J.tree)' = J.dag
  <2>1. Strand(J, J.tree) \in Words
    BY <1>4, <1>5, StrandFacts
  <2> QED
    BY <1>7, <2>1 DEF Dag
<1> QED
  BY <1>8, <1>10, <1>11, <1>12, <1>13

LEMMA PromotedAt ==
  ASSUME DecheckAssumption, NEW t \in Threads, NEW r, NEW e, e - 1 \in 1 .. TreeDepth + 1,
         NEW o \in Items, object[o] \in Places,
         NEW x, x = Promoted(t, r, e)[o]
  PROVE  /\ object[o].owner \in {t, r} /\ object[o].depth = e =>
              x \in Places /\ x.owner = t /\ x.depth = e - 1 /\ x.tid = object[o].tid
         /\ ~(object[o].owner \in {t, r} /\ object[o].depth = e) => x = object[o]
<1>1. object[o] # Bogus /\ object[o].tid \in Tids
  BY DEF DecheckAssumption, Places
<1>2. ASSUME object[o].owner \in {t, r}, object[o].depth = e
      PROVE  x \in Places /\ x.owner = t /\ x.depth = e - 1 /\ x.tid = object[o].tid
  <2>1. x = [owner |-> t, depth |-> e - 1, tid |-> object[o].tid]
    BY <1>1, <1>2 DEF Promoted
  <2> QED
    BY <1>1, <2>1 DEF Places
<1>3. ASSUME ~(object[o].owner \in {t, r} /\ object[o].depth = e) PROVE x = object[o]
  BY <1>3 DEF Promoted
<1> QED
  BY <1>2, <1>3

LEMMA JoinKeeps ==
  ASSUME DecheckAssumption, DecheckTypeOK,
         NEW pos \in Positions, NEW base \in Depths, Inv(pos, base),
         NEW t \in Threads, NEW r \in Threads,
         NEW T \in Tids, T = pos[t], NEW R \in Tids, JoinFound(pos, base, t, r, T, R),
         NEW J, J = JoinTid(T, R), JoinEffect(t, r, T, J),
         NEW p, p = [pos EXCEPT ![t] = J]
  PROVE  p \in Positions /\ Inv(p, base)'
<1>1. /\ t # r /\ T.tree > 0 /\ T.dag + T.tree <= DagDepth /\ R.dag + R.tree <= DagDepth
      /\ R.tree = T.tree /\ R = pos[r] /\ Live(r) /\ base[r] = T.tree /\ join[r] = <<>>
      /\ T.tree = base[t] + Len(join[t])
      /\ Agree(R, T, T.tree - 1) /\ T.tree - 1 \in R.path /\ T.tree - 1 \notin T.path
  BY DEF JoinFound
<1>2. /\ T.tree \in 0 .. TreeDepth /\ T.dag \in 0 .. DagDepth /\ R.dag \in 0 .. DagDepth
      /\ TreeDepth \in Nat /\ DagDepth \in Nat /\ T.tree \in Int /\ T.dag \in Int /\ R.dag \in Int
      /\ T.tree - 1 \in 0 .. TreeDepth
  BY <1>1, Numbers
<1>3. T.dag < DagDepth /\ R.dag < DagDepth
  BY <1>1, <1>2
<1>4. /\ J \in Tids /\ J.tree = T.tree - 1 /\ J.tree \in J.path /\ Agree(J, T, J.tree)
      /\ T.dag < J.dag /\ R.dag < J.dag /\ (J.dag = T.dag + 1 \/ J.dag = R.dag + 1)
  BY <1>1, <1>3, JoinedFacts
<1>5. J.tree \in 0 .. TreeDepth /\ J.dag \in 0 .. DagDepth /\ J.tree \in Int /\ J.dag \in Int
  BY <1>4, Numbers
<1>6. /\ p \in Positions /\ p[t] = J
      /\ \A u \in Threads : u # t => p[u] = pos[u]
  BY <1>4 DEF Positions
<1>7. \A u \in Threads : pos[u] \in Tids /\ base[u] \in 0 .. TreeDepth
  BY DEF Positions, Depths
<1>8. Running(t) /\ Live(t) /\ Started(t)
  BY DEF JoinFound, Running, Live, Started
<1>9. \A u \in Threads : Live(u) /\ u # t /\ u # r =>
        ~(J.tree <= pos[u].tree /\ Agree(pos[u], T, J.tree))
  BY JoinDags
<1>10. \A u \in Threads : Live(u) /\ u # t /\ u # r =>
         \A d \in 0 .. pos[u].tree : Dag(pos[u], d)' = Dag(pos[u], d)
  BY JoinDags
<1>11. /\ \A d \in 0 .. J.tree :
            Strand(J, d) = Strand(T, d) /\ Strand(R, d) = Strand(T, d)
       /\ \A d \in 0 .. J.tree - 1 : Dag(J, d)' = Dag(T, d)
       /\ Dag(J, J.tree)' = J.dag
  BY JoinDags
<1>12. /\ thread'[t].state = "running" /\ thread'[r].state = "unused"
       /\ \A u \in Threads : u # t /\ u # r => thread'[u] = thread[u]
  BY DEF JoinEffect
<1>13. \A u \in Threads : u # r =>
         /\ Live(u)' <=> Live(u)
         /\ Started(u)' <=> Started(u)
         /\ Running(u)' <=> Running(u)
         /\ thread'[u].state = "ready" <=> thread[u].state = "ready"
  BY <1>8, <1>12 DEF Live, Started, Running
<1>14. ~Live(r)' /\ ~Started(r)' /\ ~Running(r)'
  BY <1>12 DEF Live, Started, Running
<1>15. /\ T.tree \in T.path /\ base[t] <= T.tree /\ Dag(T, T.tree) = T.dag
       /\ \A d, e \in 0 .. T.tree : d < e => Dag(T, d) < Dag(T, e)
       /\ R.tree \in R.path /\ Dag(R, R.tree) = R.dag
       /\ \A d, e \in 0 .. R.tree : d < e => Dag(R, d) < Dag(R, e)
  BY <1>1, <1>8 DEF Inv, StrandInv
<1>16. \A U \in Tids : \A d \in 0 .. TreeDepth : Dag(U, d) \in 0 .. DagDepth /\ Dag(U, d) \in Int
  <2> SUFFICES ASSUME NEW U \in Tids, NEW d \in 0 .. TreeDepth
               PROVE  Dag(U, d) \in 0 .. DagDepth /\ Dag(U, d) \in Int
    OBVIOUS
  <2>1. Strand(U, d) \in Words
    BY StrandFacts
  <2>2. Dag(U, d) \in 0 .. DagDepth
    BY <2>1 DEF Dag, DecheckTypeOK
  <2> QED
    BY <2>2
<1>17. base[t] <= J.tree
  <2>1. Len(join[t]) \in Nat /\ Len(join[t]) # 0
    <3>1. Len(join'[t]) \in Nat /\ Len(join'[t]) = Len(join[t]) - 1 /\ Len(join[t]) \in Nat
      <4>1. join'[t] \in Seq(Forks) /\ Len(join'[t]) = Len(join[t]) - 1
        BY DEF JoinEffect
      <4> QED
        BY <4>1, TypesOf
    <3> QED
      BY <3>1
  <2>2. base[t] \in Int
    BY <1>7
  <2> QED
    BY <1>1, <1>2, <1>4, <2>1, <2>2
<1>18. StrandInv(p, base)'
  <2> SUFFICES ASSUME NEW u \in Threads, Live(u)'
               PROVE  /\ p[u].tree \in p[u].path
                      /\ base[u] <= p[u].tree
                      /\ p[u].dag + p[u].tree <= DagDepth
                      /\ Dag(p[u], p[u].tree)' = p[u].dag
                      /\ \A d, e \in 0 .. p[u].tree : d < e => Dag(p[u], d)' < Dag(p[u], e)'
    BY DEF StrandInv
  <2>1. CASE u = t
    <3>1. J.dag + J.tree <= DagDepth
      <4>1. /\ T.dag + T.tree <= DagDepth /\ R.dag + T.tree <= DagDepth
            /\ J.tree = T.tree - 1 /\ (J.dag = T.dag + 1 \/ J.dag = R.dag + 1)
        BY <1>1, <1>4
      <4>2. T.tree \in Int /\ T.dag \in Int /\ R.dag \in Int /\ DagDepth \in Int
        BY <1>2
      <4> QED
        BY <4>1, <4>2
    <3>2. ASSUME NEW d \in 0 .. J.tree, NEW e \in 0 .. J.tree, d < e
          PROVE  Dag(J, d)' < Dag(J, e)'
      <4>1. d \in 0 .. J.tree - 1 /\ d \in 0 .. T.tree /\ e \in 0 .. T.tree
            /\ T.tree \in 0 .. T.tree /\ d < T.tree
        BY <1>2, <1>4, <1>5, <3>2
      <4>2. Dag(J, d)' = Dag(T, d)
        BY <1>11, <4>1
      <4>3. CASE e = J.tree
        <5>1. Dag(T, d) < T.dag
          BY <1>15, <4>1
        <5>2. Dag(T, d) \in Int
          BY <1>2, <1>16, <4>1
        <5>3. Dag(T, d) < J.dag
          BY <1>2, <1>4, <1>5, <5>1, <5>2
        <5> QED
          BY <1>11, <4>2, <4>3, <5>3
      <4>4. CASE e # J.tree
        <5>1. e \in 0 .. J.tree - 1
          BY <1>5, <3>2, <4>4
        <5>2. Dag(J, e)' = Dag(T, e)
          BY <1>11, <5>1
        <5> QED
          BY <1>15, <3>2, <4>1, <4>2, <5>2
      <4> QED
        BY <4>3, <4>4
    <3>3. \A d, e \in 0 .. J.tree : d < e => Dag(J, d)' < Dag(J, e)'
      BY <3>2
    <3>4. p[u] = J /\ base[u] = base[t]
      BY <1>6, <2>1
    <3>5. J.tree \in J.path /\ base[t] <= J.tree /\ Dag(J, J.tree)' = J.dag
      BY <1>4, <1>11, <1>17
    <3> QED
      BY <3>1, <3>3, <3>4, <3>5
  <2>2. CASE u # t
    <3>1. Live(u) /\ u # r /\ p[u] = pos[u]
      BY <1>6, <1>13, <1>14, <2>2
    <3>2. /\ p[u].tree \in p[u].path
          /\ base[u] <= p[u].tree
          /\ p[u].dag + p[u].tree <= DagDepth
          /\ Dag(p[u], p[u].tree) = p[u].dag
          /\ \A d, e \in 0 .. p[u].tree : d < e => Dag(p[u], d) < Dag(p[u], e)
      BY <3>1 DEF Inv, StrandInv
    <3>3. p[u].tree \in 0 .. p[u].tree
      <4>1. p[u].tree \in 0 .. TreeDepth
        BY <1>7, <3>1, Numbers
      <4> QED
        BY <4>1
    <3>4. \A d \in 0 .. p[u].tree : Dag(p[u], d)' = Dag(p[u], d)
      BY <1>10, <2>2, <3>1
    <3>5. Dag(p[u], p[u].tree)' = p[u].dag
      BY <3>2, <3>3, <3>4
    <3>6. ASSUME NEW d \in 0 .. p[u].tree, NEW e \in 0 .. p[u].tree, d < e
          PROVE  Dag(p[u], d)' < Dag(p[u], e)'
      BY <3>2, <3>4, <3>6
    <3>7. \A d, e \in 0 .. p[u].tree : d < e => Dag(p[u], d)' < Dag(p[u], e)'
      BY <3>6
    <3>8. p[u].tree \in p[u].path /\ base[u] <= p[u].tree /\ p[u].dag + p[u].tree <= DagDepth
      BY <3>2
    <3> QED
      BY <3>5, <3>7, <3>8
  <2> QED
    BY <2>1, <2>2
<1>19. ASSUME NEW u \in Threads, Live(u), u # t, u # r
       PROVE  Apart(J, pos[u]) /\ Apart(pos[u], J)
  <2>1. Apart(pos[u], T)
    BY <1>8, <1>19 DEF Inv, ApartInv
  <2>2. PICK c \in 0 .. TreeDepth :
          c < T.tree /\ c < pos[u].tree /\ ~(c \in pos[u].path <=> c \in T.path)
    BY <2>1 DEF Apart
  <2>3. CASE c < J.tree
    <3>1. c \in J.path <=> c \in T.path
      BY <1>4, <2>3 DEF Agree
    <3> QED
      BY <2>2, <2>3, <3>1 DEF Apart
  <2>4. CASE ~(c < J.tree)
    <3>1. J.tree <= pos[u].tree
      <4>1. pos[u].tree \in 0 .. TreeDepth
        BY <1>7, Numbers
      <4> QED
        BY <1>2, <1>5, <2>2, <2>4, <4>1
    <3>2. ~Agree(pos[u], T, J.tree)
      BY <1>9, <1>19, <3>1
    <3>3. PICK e \in 0 .. TreeDepth : e < J.tree /\ ~(e \in pos[u].path <=> e \in T.path)
      BY <3>2 DEF Agree
    <3>4. e \in J.path <=> e \in T.path
      BY <1>4, <3>3 DEF Agree
    <3>5. e < pos[u].tree
      <4>1. pos[u].tree \in 0 .. TreeDepth
        BY <1>7, Numbers
      <4> QED
        BY <1>2, <1>5, <3>1, <3>3, <4>1
    <3> QED
      BY <3>3, <3>4, <3>5 DEF Apart
  <2> QED
    BY <2>3, <2>4
<1>20. ApartInv(p)'
  <2>1. ASSUME NEW u \in Threads, NEW v \in Threads, Live(u)', Live(v)', u # v
        PROVE  Apart(p[u], p[v])
    <3>1. Live(u) /\ Live(v) /\ u # r /\ v # r
      BY <1>13, <1>14, <2>1
    <3>2. CASE u = t
      BY <1>6, <1>19, <2>1, <3>1, <3>2
    <3>3. CASE v = t
      BY <1>6, <1>19, <2>1, <3>1, <3>3
    <3>4. CASE u # t /\ v # t
      <4>1. p[u] = pos[u] /\ p[v] = pos[v]
        BY <1>6, <3>4
      <4> QED
        BY <2>1, <3>1, <4>1 DEF Inv, ApartInv
    <3> QED
      BY <3>2, <3>3, <3>4
  <2> QED
    BY <2>1 DEF ApartInv
<1>21. /\ Len(join'[t]) = Len(join[t]) - 1
       /\ \A i \in 1 .. Len(join[t]) - 1 : join'[t][i] = join[t][i]
       /\ \A u \in Threads : u # t => join'[u] = join[u]
  BY DEF JoinEffect
<1>22. ThreadInv(p, base)'
  <2>1. ASSUME NEW u \in Threads, u # t, u # r
        PROVE  /\ Started(u)' =>
                    /\ thread'[u].tid = p[u]
                    /\ p[u].tree = base[u] + Len(join'[u])
                    /\ \A d \in 0 .. p[u].tree : thread'[u].sync[d] = Dag(p[u], d)'
               /\ join'[u] # <<>> => Running(u)'
    <3>1. thread'[u] = thread[u] /\ join'[u] = join[u] /\ p[u] = pos[u]
      BY <1>6, <1>12, <1>21, <2>1
    <3>2. /\ Started(u) =>
               /\ thread[u].tid = p[u]
               /\ p[u].tree = base[u] + Len(join[u])
               /\ \A d \in 0 .. p[u].tree : thread[u].sync[d] = Dag(p[u], d)
          /\ join[u] # <<>> => Running(u)
      BY <3>1 DEF Inv, ThreadInv
    <3>3. Started(u) => \A d \in 0 .. p[u].tree : Dag(p[u], d)' = Dag(p[u], d)
      <4>1. Started(u) => Live(u)
        BY DEF Started, Live
      <4> QED
        BY <1>10, <2>1, <3>1, <4>1
    <3> QED
      BY <1>13, <2>1, <3>1, <3>2, <3>3
  <2>2. /\ thread'[t].tid = p[t]
        /\ p[t].tree = base[t] + Len(join'[t])
        /\ \A d \in 0 .. p[t].tree : thread'[t].sync[d] = Dag(p[t], d)'
        /\ Running(t)'
    <3>1. \A d \in 0 .. T.tree : thread[t].sync[d] = Dag(T, d)
      BY <1>8 DEF Inv, ThreadInv
    <3>2. /\ thread'[t].tid = J
          /\ thread'[t].sync = [thread[t].sync EXCEPT ![J.tree] = J.dag]
      BY DEF JoinEffect
    <3>3. J.tree = base[t] + Len(join'[t])
      <4>1. Len(join[t]) \in Nat /\ base[t] \in Nat
        BY <1>7, TypesOf
      <4> QED
        BY <1>1, <1>2, <1>4, <1>21, <4>1
    <3>4. ASSUME NEW d \in 0 .. J.tree PROVE thread'[t].sync[d] = Dag(J, d)'
      <4>1. /\ d \in 0 .. TreeDepth /\ d \in 0 .. T.tree
            /\ (d = J.tree \/ (d # J.tree /\ d \in 0 .. J.tree - 1))
        BY <1>2, <1>4, <1>5
      <4>2. thread[t].sync \in [0 .. TreeDepth -> 0 .. DagDepth]
        BY TypesOf
      <4>3. thread'[t].sync[d] = IF d = J.tree THEN J.dag ELSE thread[t].sync[d]
        BY <3>2, <4>1, <4>2
      <4> QED
        BY <1>11, <3>1, <4>1, <4>3
    <3>5. Running(t)'
      BY <1>12 DEF Running
    <3> QED
      BY <1>6, <3>2, <3>3, <3>4, <3>5
  <2>3. ~Started(r)' /\ join'[r] = <<>>
    BY <1>1, <1>14, <1>21
  <2> QED
    BY <2>1, <2>2, <2>3 DEF ThreadInv
<1>23. ASSUME NEW u \in Threads, NEW i \in 1 .. Len(join'[u])
       PROVE  /\ i \in 1 .. Len(join[u]) /\ join'[u][i] = join[u][i] /\ u # r
              /\ u = t => i < Len(join[t])
  <2>1. u # r
    BY <1>1, <1>21
  <2>2. CASE u = t
    <3>1. Len(join[t]) \in Nat
      BY TypesOf
    <3>2. i \in 1 .. Len(join[t]) - 1 /\ i \in 1 .. Len(join[t]) /\ i < Len(join[t])
      BY <1>21, <2>2, <3>1
    <3> QED
      BY <1>21, <2>1, <2>2, <3>2
  <2>3. CASE u # t
    BY <1>21, <2>1, <2>3
  <2> QED
    BY <2>2, <2>3
<1>24. \A u \in Threads :
         \A c \in 0 .. TreeDepth :
           c < J.tree \/ u # t => (c \in p[u].path <=> c \in pos[u].path)
  BY <1>4, <1>6 DEF Agree
<1>25. ASSUME NEW u \in Threads, NEW i \in 1 .. Len(join'[u]),
              NEW s, s = join'[u][i].thread, NEW S, S = join'[u][i].tidRight
       PROVE  Forked(p, base, u, i, s, S)'
  <2>1. /\ u # r /\ i \in 1 .. Len(join[u]) /\ s = join[u][i].thread /\ S = join[u][i].tidRight
        /\ u = t => i < Len(join[t])
    BY <1>23, <1>25
  <2>2. s \in Threads
    <3>1. join[u] \in Seq(Forks)
      BY TypesOf
    <3>2. join[u][i] \in Forks
      BY <2>1, <3>1, ElementOfSeq
    <3> QED
      BY <2>1, <3>2 DEF Forks
  <2>3. s # r
    <3>1. join[t][Len(join[t])].thread = r /\ Len(join[t]) \in 1 .. Len(join[t])
      BY DEF JoinFound
    <3>2. ASSUME s = r PROVE u = t /\ i = Len(join[t])
      BY <2>1, <3>1, <3>2 DEF Inv, ForkInv
    <3>3. Len(join[t]) \in Int /\ i \in Int
      BY <3>1
    <3> QED
      BY <2>1, <3>2, <3>3
  <2>4. Forked(pos, base, u, i, s, S)
    BY <2>1 DEF Inv, ForkInv
  <2>5. /\ Live(s) /\ base[s] = base[u] + i
        /\ Agree(pos[s], pos[u], base[s] - 1)
        /\ base[s] - 1 \in pos[s].path
        /\ base[s] - 1 \notin pos[u].path
        /\ thread[s].state = "ready" =>
             /\ pos[s] = S
             /\ pos[s].tree = base[s]
             /\ thread[s].parent = u
             /\ thread[s].kind = "spork" =>
                 \A d \in 0 .. TreeDepth : d < base[s] => thread[s].sync[d] = Dag(pos[s], d)
    BY <2>4 DEF Forked
  <2>6. Live(s)'
    BY <1>13, <2>2, <2>3, <2>5
  <2>7. base[s] \in 0 .. TreeDepth /\ base[u] \in 0 .. TreeDepth /\ i \in Int /\ i >= 1
    BY <1>7, <2>1, <2>2
  <2>8. base[s] - 1 \in 0 .. TreeDepth
    BY <1>2, <2>5, <2>7
  <2>9. u = t => base[s] <= J.tree
    <3>1. Len(join[t]) \in Nat
      BY TypesOf
    <3>2. ASSUME u = t PROVE base[s] <= J.tree
      <4>1. i < Len(join[t]) /\ base[s] = base[t] + i /\ base[t] \in Int /\ base[s] \in Int
        BY <2>1, <2>5, <2>7, <3>2
      <4>2. T.tree = base[t] + Len(join[t]) /\ J.tree = T.tree - 1
        BY <1>1, <1>4
      <4> QED
        BY <1>2, <2>7, <3>1, <4>1, <4>2
    <3> QED
      BY <3>2
  <2>10. ASSUME NEW c \in 0 .. TreeDepth, c <= base[s] - 1
         PROVE  /\ c \in p[s].path <=> c \in pos[s].path
                /\ c \in p[u].path <=> c \in pos[u].path
    <3>1. u = t => c < J.tree
      BY <1>5, <2>7, <2>9, <2>10
    <3>2. s = t => c < J.tree
      BY <1>5, <1>17, <2>7, <2>10
    <3> QED
      BY <1>24, <2>2, <3>1, <3>2
  <2>11. /\ Agree(p[s], p[u], base[s] - 1)
         /\ base[s] - 1 \in p[s].path
         /\ base[s] - 1 \notin p[u].path
    <3>1. \A c \in 0 .. TreeDepth : c < base[s] - 1 => c <= base[s] - 1
      BY <2>7
    <3>2. Agree(p[s], p[u], base[s] - 1)
      BY <2>5, <2>10, <3>1 DEF Agree
    <3>3. base[s] - 1 <= base[s] - 1
      BY <2>7
    <3> QED
      BY <2>5, <2>8, <2>10, <3>2, <3>3
  <2>12. ASSUME thread'[s].state = "ready"
         PROVE  /\ p[s] = S
                /\ p[s].tree = base[s]
                /\ thread'[s].parent = u
                /\ thread'[s].kind = "spork" =>
                    \A d \in 0 .. TreeDepth : d < base[s] => thread'[s].sync[d] = Dag(p[s], d)'
    <3>1. s # t
      BY <1>12, <2>12
    <3>2. thread'[s] = thread[s] /\ p[s] = pos[s]
      BY <1>6, <1>12, <2>2, <2>3, <3>1
    <3>3. ASSUME NEW d \in 0 .. TreeDepth, d < base[s] PROVE Dag(p[s], d)' = Dag(p[s], d)
      <4>1. d \in 0 .. pos[s].tree
        BY <2>5, <2>7, <2>12, <3>2, <3>3
      <4> QED
        BY <1>10, <2>2, <2>3, <2>5, <3>1, <3>2, <4>1
    <3> QED
      BY <2>5, <2>12, <3>2, <3>3
  <2> QED
    BY <2>5, <2>6, <2>11, <2>12 DEF Forked
<1>26. ForkInv(p, base)'
  <2>1. ASSUME NEW u \in Threads, NEW v \in Threads,
               NEW i \in 1 .. Len(join'[u]), NEW j \in 1 .. Len(join'[v]),
               join'[u][i].thread = join'[v][j].thread
        PROVE  u = v /\ i = j
    <3>1. i \in 1 .. Len(join[u]) /\ j \in 1 .. Len(join[v])
          /\ join[u][i].thread = join[v][j].thread
      BY <1>23, <2>1
    <3> QED
      BY <3>1 DEF Inv, ForkInv
  <2> QED
    BY <1>25, <2>1 DEF ForkInv
\* The objects of r, and those of t at the same depth, change their heap.
<1>27. ASSUME NEW o \in Items, object[o] # Bogus,
              NEW a, a = object[o].owner, NEW D, D = object[o].depth,
              NEW K, K = object[o].tid
       PROVE  /\ a \in Threads /\ D \in 1 .. TreeDepth + 1 /\ K \in Tids
              /\ Started(a) /\ D <= pos[a].tree + 1 /\ D - 1 \in 0 .. pos[a].tree
              /\ Placed(pos, base, a, D, K)
              /\ \/ /\ a = t \/ a = r
                    /\ D = T.tree + 1
                    /\ object'[o] # Bogus
                    /\ object'[o].owner = t /\ object'[o].depth = T.tree /\ object'[o].tid = K
                 \/ /\ a # r /\ (a = t => D <= T.tree)
                    /\ object'[o] = object[o]
  <2>1. object[o] \in Places
    BY <1>27 DEF DecheckTypeOK
  <2>2. a \in Threads /\ D \in 1 .. TreeDepth + 1 /\ K \in Tids
    BY <1>27, <2>1 DEF Places
  <2>3. Placed(pos, base, a, D, K)
    BY <1>27 DEF Inv, ObjectInv
  <2>4. Started(a) /\ base[a] < D /\ D <= pos[a].tree + 1
    BY <2>3 DEF Placed
  <2>5. pos[a].tree \in 0 .. TreeDepth
    BY <1>7, <2>2, Numbers
  <2>6. D - 1 \in 0 .. pos[a].tree
    BY <1>2, <2>2, <2>4, <2>5
  <2>7. PICK e : e = T.tree + 1
    OBVIOUS
  <2>10. PICK x : x = Promoted(t, r, e)[o]
    OBVIOUS
  <2>11. object'[o] = x
    BY <2>7, <2>10 DEF JoinEffect
  <2>12. e - 1 = T.tree /\ e - 1 \in 1 .. TreeDepth + 1
    BY <1>1, <1>2, <2>7
  <2>13. /\ a \in {t, r} /\ D = e =>
              x \in Places /\ x.owner = t /\ x.depth = e - 1 /\ x.tid = K
         /\ ~(a \in {t, r} /\ D = e) => x = object[o]
    BY <1>27, <2>1, <2>10, <2>12, PromotedAt
  <2>8. CASE a \in {t, r} /\ D = T.tree + 1
    <3>1. x \in Places /\ x.owner = t /\ x.depth = T.tree /\ x.tid = K
      BY <2>7, <2>8, <2>12, <2>13
    <3>2. x # Bogus
      BY <3>1 DEF DecheckAssumption
    <3> QED
      BY <2>2, <2>3, <2>4, <2>6, <2>8, <2>11, <3>1, <3>2
  <2>9. CASE ~(a \in {t, r} /\ D = T.tree + 1)
    <3>1. object'[o] = object[o]
      BY <2>7, <2>9, <2>11, <2>13
    <3>2. a = r => D = T.tree + 1
      BY <1>1, <1>2, <2>2, <2>4
    <3>3. a = t => D <= T.tree
      BY <1>2, <2>2, <2>4, <2>9
    <3> QED
      BY <2>2, <2>3, <2>4, <2>6, <2>9, <3>1, <3>2, <3>3
  <2> QED
    BY <2>8, <2>9
<1>28. \A o \in Items : object'[o] # Bogus => object[o] # Bogus
  BY DEF JoinEffect, Promoted
<1>29. ObjectInv(p, base)'
  <2>1. ASSUME NEW o \in Items, object'[o] # Bogus,
               NEW b, b = object'[o].owner, NEW E, E = object'[o].depth,
               NEW K, K = object'[o].tid
        PROVE  Placed(p, base, b, E, K)'
    <3>1. object[o] # Bogus
      BY <1>28, <2>1
    <3>2. PICK a, D, M : a = object[o].owner /\ D = object[o].depth /\ M = object[o].tid
      OBVIOUS
    <3>3. /\ a \in Threads /\ D \in 1 .. TreeDepth + 1 /\ M \in Tids
          /\ Started(a) /\ D <= pos[a].tree + 1 /\ D - 1 \in 0 .. pos[a].tree
          /\ Placed(pos, base, a, D, M)
          /\ \/ /\ a = t \/ a = r
                /\ D = T.tree + 1
                /\ b = t /\ E = T.tree /\ K = M
             \/ /\ a # r /\ (a = t => D <= T.tree)
                /\ b = a /\ E = D /\ K = M
      BY <1>27, <2>1, <3>1, <3>2
    <3>4. /\ base[a] < D /\ K.tree \in K.path /\ D - 1 <= K.tree
          /\ Agree(K, pos[a], D - 1)
          /\ K.dag <= Dag(pos[a], D - 1)
          /\ D >= 2 => Dag(pos[a], D - 2) < K.dag
      BY <3>3 DEF Placed
    <3>5. pos[a].tree \in 0 .. TreeDepth /\ K.tree \in 0 .. TreeDepth /\ K.dag \in 0 .. DagDepth
          /\ K \in Tids
      BY <1>7, <3>3, Numbers
    <3>6. D \in Int /\ D - 1 \in Int /\ D >= 1 /\ D - 1 \in 0 .. TreeDepth
      BY <1>2, <3>3
    <3>7. CASE (a = t \/ a = r) /\ D = T.tree + 1 /\ b = t /\ E = T.tree
      <4>1. /\ E - 1 = J.tree /\ D - 1 = T.tree /\ D - 2 = J.tree /\ D >= 2 /\ J.tree <= D - 1
            /\ E \in Int
        BY <1>1, <1>2, <1>4, <3>7
      <4>2. Agree(pos[a], T, J.tree)
        <5>1. Agree(R, T, J.tree) /\ Agree(T, T, J.tree)
          BY <1>1, <1>4 DEF Agree
        <5> QED
          BY <1>1, <3>7, <5>1
      <4>3. Agree(K, J, J.tree)
        <5>1. Agree(K, pos[a], J.tree)
          BY <1>5, <3>4, <3>6, <4>1, AgreeFacts
        <5>2. Agree(K, T, J.tree)
          BY <1>5, <4>2, <5>1, AgreeFacts
        <5>3. Agree(T, J, J.tree)
          BY <1>4, <1>5, AgreeFacts
        <5> QED
          BY <1>5, <5>2, <5>3, AgreeFacts
      <4>4. K.dag <= Dag(J, J.tree)'
        <5>1. Dag(pos[a], D - 1) < J.dag
          BY <1>1, <1>4, <1>15, <3>7, <4>1
        <5>2. Dag(pos[a], D - 1) \in Int /\ K.dag \in Int
          BY <1>7, <1>16, <3>3, <3>5, <3>6
        <5>3. K.dag <= J.dag
          BY <1>5, <3>4, <5>1, <5>2
        <5> QED
          BY <1>11, <5>3
      <4>5. ASSUME E >= 2 PROVE Dag(J, E - 2)' < K.dag
        <5>1. /\ E - 2 \in 0 .. J.tree - 1 /\ E - 2 \in 0 .. J.tree /\ J.tree \in 0 .. J.tree
              /\ E - 2 \in 0 .. T.tree /\ J.tree \in 0 .. T.tree /\ E - 2 < J.tree
              /\ E - 2 \in 0 .. TreeDepth
          BY <1>2, <1>4, <1>5, <3>7, <4>1, <4>5
        <5>2. Dag(J, E - 2)' = Dag(T, E - 2)
          BY <1>11, <5>1
        <5>3. Dag(R, E - 2) = Dag(T, E - 2) /\ Dag(R, J.tree) = Dag(T, J.tree)
          BY <1>11, <5>1 DEF Dag
        <5>4. Dag(T, E - 2) < Dag(T, J.tree)
          BY <1>15, <5>1
        <5>5. Dag(pos[a], D - 2) = Dag(T, J.tree)
          BY <1>1, <3>7, <4>1, <5>3
        <5>6. Dag(T, E - 2) \in Int /\ Dag(T, J.tree) \in Int /\ K.dag \in Int
          BY <1>5, <1>16, <3>5, <5>1
        <5> QED
          BY <3>4, <4>1, <5>2, <5>4, <5>5, <5>6
      <4>6. E - 1 <= K.tree /\ base[t] < E /\ E <= J.tree + 1
        BY <1>2, <1>4, <1>5, <1>7, <1>17, <3>4, <3>5, <3>7, <4>1
      <4>7. Started(t)'
        BY <1>1, <1>8, <1>13
      <4> QED
        BY <1>6, <3>4, <3>7, <4>1, <4>3, <4>4, <4>5, <4>6, <4>7 DEF Placed
    <3>8. CASE a = t /\ D <= T.tree /\ b = t /\ E = D
      <4>1. D - 1 <= J.tree /\ D - 1 \in 0 .. J.tree /\ D <= J.tree + 1
        BY <1>2, <1>4, <1>5, <3>6, <3>8
      <4>2. Agree(K, J, D - 1)
        <5>1. Agree(T, J, D - 1)
          BY <1>4, <1>5, <3>6, <4>1, AgreeFacts
        <5> QED
          BY <3>4, <3>6, <3>8, <5>1, AgreeFacts
      <4>3. K.dag <= Dag(J, D - 1)'
        <5>1. CASE D - 1 = J.tree
          <6>1. Dag(T, D - 1) < T.dag
            <7>1. D - 1 \in 0 .. T.tree /\ T.tree \in 0 .. T.tree /\ D - 1 < T.tree
              BY <1>2, <1>4, <5>1, <3>6
            <7> QED
              BY <1>15, <7>1
          <6>2. Dag(T, D - 1) \in Int /\ K.dag \in Int
            BY <1>16, <3>5, <3>6
          <6>3. K.dag <= J.dag
            BY <1>2, <1>4, <1>5, <3>4, <3>8, <6>1, <6>2
          <6> QED
            BY <1>11, <5>1, <6>3
        <5>2. CASE D - 1 # J.tree
          <6>1. D - 1 \in 0 .. J.tree - 1
            BY <1>5, <3>6, <4>1, <5>2
          <6> QED
            BY <1>11, <3>4, <3>8, <6>1
        <5> QED
          BY <5>1, <5>2
      <4>4. ASSUME D >= 2 PROVE Dag(J, D - 2)' < K.dag
        <5>1. D - 2 \in 0 .. J.tree - 1
          BY <1>5, <3>6, <4>1, <4>4
        <5> QED
          BY <1>11, <3>4, <3>8, <4>4, <5>1
      <4>5. Started(t)'
        BY <1>1, <1>8, <1>13
      <4> QED
        BY <1>6, <3>4, <3>8, <4>1, <4>2, <4>3, <4>4, <4>5 DEF Placed
    <3>9. CASE a # r /\ a # t /\ b = a /\ E = D
      <4>1. Live(a) /\ Started(a)' /\ p[a] = pos[a]
        BY <1>6, <1>13, <3>3, <3>9 DEF Started, Live
      <4>2. D >= 2 => D - 2 \in 0 .. pos[a].tree
        BY <3>3, <3>5, <3>6
      <4>3. /\ Dag(pos[a], D - 1)' = Dag(pos[a], D - 1)
            /\ D >= 2 => Dag(pos[a], D - 2)' = Dag(pos[a], D - 2)
        BY <1>10, <3>3, <3>9, <4>1, <4>2
      <4> QED
        BY <3>3, <3>4, <3>9, <4>1, <4>3 DEF Placed
    <3> QED
      BY <3>3, <3>7, <3>8, <3>9
  <2> QED
    BY <2>1 DEF ObjectInv
<1>30. BeforeInv(p)'
  <2>1. /\ before \in [Threads -> SUBSET Items]
        /\ before' = [before EXCEPT ![t] = @ \union before[r], ![r] = {}]
    BY DEF JoinEffect, DecheckTypeOK
  <2>2. \A u \in Threads : u # r =>
          before'[u] = IF u = t THEN before[t] \union before[r] ELSE before[u]
    BY <1>1, <2>1
  <2>3. \A u \in Threads : Live(u) => \A o \in Items :
          o \in before[u] <=>
            object[o] # Bogus /\ Above(pos[object[o].owner], object[o].depth, pos[u])
    BY DEF Inv, BeforeInv
  <2>4. ASSUME NEW o \in Items, object[o] # Bogus,
               NEW a, a = object[o].owner, NEW D, D = object[o].depth
        PROVE  \A u \in Threads : Live(u) =>
                 (o \in before[u] <=> Above(pos[a], D, pos[u]))
    BY <2>3, <2>4
  <2>5. ASSUME NEW u \in Threads, Live(u)', NEW o \in Items, object'[o] # Bogus,
               NEW b, b = object'[o].owner, NEW E, E = object'[o].depth
        PROVE  o \in before'[u] <=> Above(p[b], E, p[u])
    <3>1. object[o] # Bogus
      BY <1>28, <2>5
    <3>2. PICK a, D, K : a = object[o].owner /\ D = object[o].depth /\ K = object[o].tid
      OBVIOUS
    <3>3. /\ a \in Threads /\ D \in 1 .. TreeDepth + 1
          /\ Started(a) /\ D - 1 \in 0 .. pos[a].tree
          /\ \/ /\ a = t \/ a = r
                /\ D = T.tree + 1
                /\ b = t /\ E = T.tree
             \/ /\ a # r /\ (a = t => D <= T.tree)
                /\ b = a /\ E = D
      BY <1>27, <2>5, <3>1, <3>2
    <3>4. \A v \in Threads : Live(v) => (o \in before[v] <=> Above(pos[a], D, pos[v]))
      BY <2>4, <3>1, <3>2
    <3>5. D \in Int /\ D - 1 \in Int /\ Live(a) /\ Live(u) /\ u # r
      BY <1>2, <1>13, <1>14, <2>5, <3>3 DEF Live, Started
    <3>6. \A v, w \in Threads : Live(v) /\ Live(w) /\ v # w => Apart(pos[v], pos[w])
      BY DEF Inv, ApartInv
    <3>7. CASE (a = t \/ a = r) /\ D = T.tree + 1 /\ b = t /\ E = T.tree
      <4>1. E - 1 = J.tree /\ D - 1 = T.tree /\ D - 1 = R.tree /\ p[b] = J
        BY <1>1, <1>2, <1>4, <1>6, <3>7
      <4>2. CASE u = t
        <5>1. Above(J, E, J)
          BY <1>5, <4>1 DEF Above, Agree
        <5>2. Above(pos[a], D, pos[a])
          BY <1>1, <1>2, <3>7, <4>1 DEF Above, Agree
        <5>3. o \in before[a]
          BY <3>3, <3>4, <3>5, <5>2
        <5> QED
          BY <1>6, <2>2, <3>5, <3>7, <4>1, <4>2, <5>1, <5>3
      <4>3. CASE u # t
        <5>1. ~Above(J, E, pos[u])
          <6>1. ASSUME J.tree <= pos[u].tree, Agree(J, pos[u], J.tree) PROVE FALSE
            <7>1. Agree(pos[u], J, J.tree)
              BY <1>5, <6>1, AgreeFacts
            <7>2. Agree(pos[u], T, J.tree)
              BY <1>4, <1>5, <7>1, AgreeFacts
            <7> QED
              BY <1>9, <3>5, <4>3, <6>1, <7>2
          <6> QED
            BY <4>1, <6>1 DEF Above
        <5>2. ~Above(pos[a], D, pos[u])
          <6>1. Apart(pos[a], pos[u])
            BY <3>3, <3>5, <3>6, <3>7, <4>3
          <6>2. pos[a].tree <= D - 1
            BY <1>1, <1>2, <3>7, <4>1
          <6>3. ~Agree(pos[a], pos[u], D - 1)
            BY <1>7, <3>3, <3>5, <6>1, <6>2, ApartFacts
          <6> QED
            BY <6>3 DEF Above
        <5>3. before'[u] = before[u] /\ p[u] = pos[u]
          BY <1>6, <2>2, <3>5, <4>3
        <5> QED
          BY <3>4, <3>5, <4>1, <5>1, <5>2, <5>3
      <4> QED
        BY <4>2, <4>3
    <3>8. CASE a # r /\ (a = t => D <= T.tree) /\ b = a /\ E = D
      <4>1. Agree(p[a], pos[a], D - 1)
        <5>1. \A c \in 0 .. TreeDepth : c < D - 1 /\ a = t => c < J.tree
          BY <1>2, <1>4, <1>5, <3>5, <3>8
        <5> QED
          BY <1>24, <3>3, <5>1 DEF Agree
      <4>2. \A U : Agree(p[a], U, D - 1) <=> Agree(pos[a], U, D - 1)
        BY <3>5, <4>1, AgreeFacts
      <4>3. CASE u # t
        <5>1. before'[u] = before[u] /\ p[u] = pos[u]
          BY <1>6, <2>2, <3>5, <4>3
        <5> QED
          BY <3>4, <3>5, <3>8, <4>2, <5>1 DEF Above
      <4>4. CASE u = t
        <5>1. o \in before'[t] <=> Above(pos[a], D, T) \/ Above(pos[a], D, R)
          <6>1. before'[t] = before[t] \union before[r]
            BY <1>1, <2>2
          <6> QED
            BY <1>1, <1>8, <3>4, <6>1
        <5>2. CASE D - 1 <= J.tree
          <6>1. Agree(T, J, D - 1) /\ Agree(J, T, D - 1)
            BY <1>4, <1>5, <3>5, <5>2, AgreeFacts
          <6>2. Agree(T, R, D - 1) /\ Agree(R, T, D - 1)
            BY <1>1, <1>4, <1>5, <3>5, <5>2, AgreeFacts
          <6>3. Agree(pos[a], T, D - 1) <=> Agree(pos[a], J, D - 1)
            BY <3>5, <6>1, AgreeFacts
          <6>4. Agree(pos[a], T, D - 1) <=> Agree(pos[a], R, D - 1)
            BY <3>5, <6>2, AgreeFacts
          <6>5. D - 1 <= T.tree /\ D - 1 <= R.tree
            BY <1>1, <1>2, <1>4, <1>5, <3>5, <5>2
          <6>6. Above(pos[a], D, T) <=> Above(p[a], D, J)
            BY <4>2, <5>2, <6>3, <6>5 DEF Above
          <6>7. Above(pos[a], D, R) <=> Above(pos[a], D, T)
            BY <6>4, <6>5 DEF Above
          <6> QED
            BY <1>6, <3>8, <4>4, <5>1, <6>6, <6>7
        <5>3. CASE ~(D - 1 <= J.tree)
          <6>1. T.tree <= D - 1 /\ R.tree <= D - 1 /\ a # t
            BY <1>1, <1>2, <1>4, <1>5, <3>5, <3>8, <5>3
          <6>2. Apart(pos[a], T) /\ Apart(pos[a], R)
            BY <1>1, <1>8, <3>3, <3>5, <3>6, <3>8, <6>1
          <6>3. ~Agree(pos[a], T, D - 1) /\ ~Agree(pos[a], R, D - 1)
            BY <1>7, <3>3, <3>5, <6>1, <6>2, ApartFacts
          <6>4. ~Above(pos[a], D, T) /\ ~Above(pos[a], D, R) /\ ~Above(p[a], D, J)
            BY <5>3, <6>3 DEF Above
          <6> QED
            BY <1>6, <3>8, <4>4, <5>1, <6>4
        <5> QED
          BY <5>2, <5>3
      <4> QED
        BY <4>3, <4>4
    <3> QED
      BY <3>3, <3>7, <3>8
  <2>6. ASSUME NEW u \in Threads, Live(u)', NEW o \in Items, object'[o] = Bogus
        PROVE  o \notin before'[u]
    <3>1. object[o] = Bogus
      <4>1. ASSUME object[o] # Bogus PROVE FALSE
        <5>1. PICK a, D, K : a = object[o].owner /\ D = object[o].depth /\ K = object[o].tid
          OBVIOUS
        <5> QED
          BY <1>27, <2>6, <4>1, <5>1
      <4> QED
        BY <4>1
    <3>2. o \notin before[t] /\ o \notin before[r]
      BY <1>1, <1>8, <2>3, <3>1
    <3>3. Live(u) /\ u # r
      BY <1>13, <1>14, <2>6
    <3>4. o \notin before[u]
      BY <2>3, <3>1, <3>3
    <3> QED
      BY <2>2, <3>2, <3>3, <3>4
  <2> QED
    BY <2>5, <2>6 DEF BeforeInv
<1> QED
  BY <1>6, <1>18, <1>20, <1>22, <1>26, <1>29, <1>30 DEF Inv

-------------------------------------------------------------------------------
(* The other actions leave every thread at its strand. *)

LEMMA EntryTypes ==
  ASSUME DecheckTypeOK, NEW u \in Threads, NEW i \in 1 .. Len(join[u])
  PROVE  join[u][i].thread \in Threads /\ join[u][i].tidRight \in Tids
<1>1. join[u] \in Seq(Forks)
  BY TypesOf
<1>2. join[u][i] \in Forks
  BY <1>1, ElementOfSeq
<1> QED
  BY <1>2 DEF Forks

LEMMA ThreadStep ==
  ASSUME DecheckTypeOK, NEW pos \in Positions, NEW base \in Depths, Inv(pos, base),
         NEW r \in Threads, Live(r), Started(r)',
         UNCHANGED <<join, object, before, synch_depths>>,
         \A u \in Threads : u # r => thread'[u] = thread[u],
         thread'[r].tid = pos[r], pos[r].tree = base[r] + Len(join[r]),
         \A d \in 0 .. pos[r].tree : thread'[r].sync[d] = Dag(pos[r], d),
         join[r] = <<>>
  PROVE  Inv(pos, base)'
<1>1. \A U, d : Dag(U, d)' = Dag(U, d)
  BY DEF Dag
<1>2. Live(r)' /\ thread'[r].state # "ready"
  BY DEF Started, Live
<1>3. \A u \in Threads :
        /\ Live(u)' <=> Live(u)
        /\ Started(u) => Started(u)'
        /\ u # r => (Started(u)' <=> Started(u)) /\ (Running(u)' <=> Running(u))
  BY <1>2 DEF Live, Started, Running
<1>4. StrandInv(pos, base)'
  BY <1>1, <1>3 DEF Inv, StrandInv
<1>5. ApartInv(pos)'
  BY <1>3 DEF Inv, ApartInv
<1>6. ThreadInv(pos, base)'
  <2>1. ASSUME NEW u \in Threads, u # r
        PROVE  /\ Started(u)' =>
                    /\ thread'[u].tid = pos[u]
                    /\ pos[u].tree = base[u] + Len(join'[u])
                    /\ \A d \in 0 .. pos[u].tree : thread'[u].sync[d] = Dag(pos[u], d)'
               /\ join'[u] # <<>> => Running(u)'
    <3>1. thread'[u] = thread[u] /\ join' = join
      BY <2>1
    <3>2. /\ Started(u) =>
               /\ thread[u].tid = pos[u]
               /\ pos[u].tree = base[u] + Len(join[u])
               /\ \A d \in 0 .. pos[u].tree : thread[u].sync[d] = Dag(pos[u], d)
          /\ join[u] # <<>> => Running(u)
      BY DEF Inv, ThreadInv
    <3> QED
      BY <1>1, <1>3, <2>1, <3>1, <3>2
  <2>2. /\ thread'[r].tid = pos[r]
        /\ pos[r].tree = base[r] + Len(join'[r])
        /\ \A d \in 0 .. pos[r].tree : thread'[r].sync[d] = Dag(pos[r], d)'
        /\ join'[r] = <<>>
    BY <1>1
  <2> QED
    BY <2>1, <2>2 DEF ThreadInv
<1>7. ForkInv(pos, base)'
  <2>1. join' = join
    OBVIOUS
  <2>2. ASSUME NEW u \in Threads, NEW i \in 1 .. Len(join[u]),
               NEW s, s = join[u][i].thread, NEW S, S = join[u][i].tidRight
        PROVE  Forked(pos, base, u, i, s, S)'
    <3>1. Forked(pos, base, u, i, s, S)
      BY <2>2 DEF Inv, ForkInv
    <3>2. s \in Threads
      BY <2>2, EntryTypes
    <3>3. CASE s = r
      BY <1>2, <3>1, <3>3 DEF Forked
    <3>4. CASE s # r
      <4>1. thread'[s] = thread[s] /\ (Live(s)' <=> Live(s))
        BY <1>3, <3>2, <3>4
      <4> QED
        BY <1>1, <3>1, <4>1 DEF Forked
    <3> QED
      BY <3>3, <3>4
  <2> QED
    BY <2>1, <2>2 DEF Inv, ForkInv
<1>8. ObjectInv(pos, base)'
  <2>1. ASSUME NEW o \in Items, object[o] # Bogus,
               NEW a, a = object[o].owner, NEW D, D = object[o].depth,
               NEW K, K = object[o].tid
        PROVE  Placed(pos, base, a, D, K)'
    <3>1. Placed(pos, base, a, D, K)
      BY <2>1 DEF Inv, ObjectInv
    <3>2. a \in Threads
      BY <2>1 DEF DecheckTypeOK, Places
    <3> QED
      BY <1>1, <1>3, <3>1, <3>2 DEF Placed
  <2>2. object' = object
    OBVIOUS
  <2> QED
    BY <2>1, <2>2 DEF ObjectInv
<1>9. BeforeInv(pos)'
  BY <1>3 DEF Inv, BeforeInv
<1> QED
  BY <1>4, <1>5, <1>6, <1>7, <1>8, <1>9 DEF Inv

LEMMA StealKeeps ==
  ASSUME DecheckAssumption, DecheckTypeOK,
         NEW pos \in Positions, NEW base \in Depths, Inv(pos, base),
         NEW t \in Threads, NEW i \in 1 .. Len(join[t]), Steal(t, i)
  PROVE  Inv(pos, base)' /\ DecheckTypeOK'
<1>1. PICK r, R : r = join[t][i].thread /\ R = join[t][i].tidRight
  OBVIOUS
<1>2. r \in Threads /\ R \in Tids
  BY <1>1, EntryTypes
<1>3. i \in 1 .. i /\ Len(join[t]) \in Nat
  BY TypesOf
<1>4. thread[r].state = "ready"
  BY <1>1, <1>3 DEF Steal
<1>5. Forked(pos, base, t, i, r, R)
  BY <1>1 DEF Inv, ForkInv
<1>6. /\ Live(r) /\ base[r] = base[t] + i
      /\ Agree(pos[r], pos[t], base[r] - 1)
      /\ pos[r] = R /\ R.tree = base[r] /\ thread[r].parent = t
      /\ thread[r].kind = "spork" =>
           \A d \in 0 .. TreeDepth : d < base[r] => thread[r].sync[d] = Dag(R, d)
  BY <1>4, <1>5 DEF Forked
<1>7. /\ R.tree \in 0 .. TreeDepth /\ R.dag \in 0 .. DagDepth /\ TreeDepth \in Nat
      /\ R.tree \in Int /\ pos[t] \in Tids
  BY <1>2, Numbers DEF Positions
<1>8. Running(t) /\ Started(t)
  <2>1. join[t] # <<>>
    <3>1. Len(join[t]) # 0
      BY <1>3
    <3> QED
      BY <3>1
  <2>2. Running(t)
    BY <2>1 DEF Inv, ThreadInv
  <2> QED
    BY <2>2 DEF Running, Started
<1>9. ~Running(r) /\ ~Started(r) /\ t # r /\ join[r] = <<>>
  <2>1. ~Running(r) /\ ~Started(r)
    BY <1>4 DEF Running, Started
  <2> QED
    BY <1>2, <1>8, <2>1 DEF Inv, ThreadInv
<1>10. PICK S : S = StartDepths(r)
  OBVIOUS
<1>11. S \in [0 .. TreeDepth -> 0 .. DagDepth]
  BY <1>2, <1>6, <1>10, TypesOf DEF StartDepths
<1>12. ASSUME NEW d \in 0 .. TreeDepth, d < R.tree PROVE S[d] = Dag(R, d)
  <2>1. CASE thread[r].kind = "spork"
    BY <1>6, <1>10, <1>12, <2>1 DEF StartDepths
  <2>2. CASE thread[r].kind # "spork"
    <3>1. S = thread[t].sync
      BY <1>6, <1>10, <2>2 DEF StartDepths
    <3>2. pos[t].tree = base[t] + Len(join[t]) /\ base[t] \in Int
          /\ \A e \in 0 .. pos[t].tree : thread[t].sync[e] = Dag(pos[t], e)
      BY <1>8 DEF Inv, ThreadInv, Depths
    <3>3. d \in 0 .. pos[t].tree /\ d <= base[r] - 1 /\ d \in Int /\ base[r] - 1 \in Int
      BY <1>3, <1>6, <1>7, <1>12, <3>2
    <3>4. Agree(R, pos[t], d)
      BY <1>6, <3>3, AgreeFacts
    <3>5. Strand(R, d) = Strand(pos[t], d)
      BY <1>2, <1>7, <3>4, SameStrand
    <3> QED
      BY <3>1, <3>2, <3>3, <3>5 DEF Dag
  <2> QED
    BY <2>1, <2>2
<1>13. PICK X : X = [[thread[r] EXCEPT !.state = "running", !.sync = S]
                       EXCEPT !.tid = R, !.sync[R.tree] = R.dag]
  OBVIOUS
<1>14. PICK Q : Q = [S EXCEPT ![R.tree] = R.dag]
  OBVIOUS
<1>15. Q \in [0 .. TreeDepth -> 0 .. DagDepth]
  BY <1>7, <1>11, <1>14
<1>16. thread \in [Threads -> Strands] /\ thread[r] \in Strands
  BY <1>2 DEF DecheckTypeOK
<1>17. PICK Y : Y = [thread[r] EXCEPT !.state = "running", !.sync = S]
  OBVIOUS
<1>18. Y \in Strands /\ Y.state = "running" /\ Y.sync = S
  BY <1>11, <1>16, <1>17 DEF Strands
<1>19. X = [Y EXCEPT !.tid = R, !.sync = Q]
  BY <1>13, <1>14, <1>17, <1>18
<1>20. X \in Strands /\ X.state = "running" /\ X.tid = R /\ X.sync = Q
  BY <1>2, <1>15, <1>18, <1>19 DEF Strands
<1>21. thread' = [thread EXCEPT ![r] = X]
  <2>1. X = SetTid([thread[r] EXCEPT !.state = "running", !.sync = StartDepths(r)],
                   join[t][i].tidRight)
    BY <1>1, <1>10, <1>13, Zenon DEF SetTid
  <2> QED
    BY <1>1, <2>1, Zenon DEF Steal
<1>22. /\ thread' \in [Threads -> Strands] /\ thread'[r] = X
       /\ \A u \in Threads : u # r => thread'[u] = thread[u]
  BY <1>2, <1>16, <1>20, <1>21
<1>23. UNCHANGED <<join, object, before, synch_depths>>
  BY DEF Steal
<1>24. DecheckTypeOK'
  BY <1>22, <1>23 DEF DecheckTypeOK
<1>25. Started(r)'
  BY <1>20, <1>22 DEF Started
<1>26. ASSUME NEW d \in 0 .. pos[r].tree PROVE thread'[r].sync[d] = Dag(pos[r], d)
  <2>1. d \in 0 .. TreeDepth /\ (d = R.tree \/ (d # R.tree /\ d < R.tree))
    BY <1>6, <1>7
  <2>2. thread'[r].sync[d] = IF d = R.tree THEN R.dag ELSE S[d]
    <3>1. thread'[r].sync = Q
      BY <1>20, <1>22
    <3>2. Q[d] = IF d = R.tree THEN R.dag ELSE S[d]
      BY <1>11, <1>14, <2>1
    <3> QED
      BY <3>1, <3>2
  <2>3. Dag(R, R.tree) = R.dag
    BY <1>2, <1>6 DEF Inv, StrandInv
  <2> QED
    BY <1>6, <1>12, <2>1, <2>2, <2>3
<1>27. pos[r].tree = base[r] + Len(join[r])
  <2>1. Len(join[r]) = 0
    BY <1>9
  <2> QED
    BY <1>6, <1>7, <2>1
<1>28. thread'[r].tid = pos[r]
  BY <1>6, <1>20, <1>22
<1>29. Inv(pos, base)'
  BY <1>2, <1>6, <1>9, <1>22, <1>23, <1>25, <1>26, <1>27, <1>28, ThreadStep
<1> QED
  BY <1>24, <1>29

LEMMA FinishKeeps ==
  ASSUME DecheckAssumption, DecheckTypeOK,
         NEW pos \in Positions, NEW base \in Depths, Inv(pos, base),
         NEW r \in Threads, FinishRight(r)
  PROVE  Inv(pos, base)' /\ DecheckTypeOK'
<1>1. Running(r) /\ join[r] = <<>> /\ Live(r) /\ Started(r)
  BY DEF FinishRight, Running, Live, Started
<1>2. thread \in [Threads -> Strands] /\ thread[r] \in Strands
  BY DEF DecheckTypeOK
<1>3. PICK X : X = [thread[r] EXCEPT !.state = "done"]
  OBVIOUS
<1>4. /\ X \in Strands /\ X.state = "done" /\ X.tid = thread[r].tid
      /\ X.sync = thread[r].sync
  BY <1>2, <1>3 DEF Strands
<1>5. thread' = [thread EXCEPT ![r] = X]
  BY <1>3 DEF FinishRight
<1>6. /\ thread' \in [Threads -> Strands] /\ thread'[r] = X
      /\ \A u \in Threads : u # r => thread'[u] = thread[u]
  BY <1>2, <1>4, <1>5
<1>7. UNCHANGED <<join, object, before, synch_depths>>
  BY DEF FinishRight
<1>8. Started(r)'
  BY <1>4, <1>6 DEF Started
<1>9. /\ thread[r].tid = pos[r] /\ pos[r].tree = base[r] + Len(join[r])
      /\ \A d \in 0 .. pos[r].tree : thread[r].sync[d] = Dag(pos[r], d)
  BY <1>1 DEF Inv, ThreadInv
<1>10. Inv(pos, base)'
  BY <1>1, <1>4, <1>6, <1>7, <1>8, <1>9, ThreadStep
<1>11. DecheckTypeOK'
  BY <1>6, <1>7 DEF DecheckTypeOK
<1> QED
  BY <1>10, <1>11

LEMMA PlaceStep ==
  ASSUME DecheckTypeOK, NEW pos \in Positions, NEW base \in Depths, Inv(pos, base),
         UNCHANGED <<thread, join, synch_depths>>,
         NEW x \in Items, NEW X \in Places, object' = [object EXCEPT ![x] = X],
         Placed(pos, base, X.owner, X.depth, X.tid), BeforeInv(pos)'
  PROVE  Inv(pos, base)'
<1>1. \A U, d : Dag(U, d)' = Dag(U, d)
  BY DEF Dag
<1>2. \A u : (Live(u)' <=> Live(u)) /\ (Started(u)' <=> Started(u)) /\ (Running(u)' <=> Running(u))
  BY DEF Live, Started, Running
<1>3. StrandInv(pos, base)'
  BY <1>1, <1>2 DEF Inv, StrandInv
<1>4. ApartInv(pos)'
  BY <1>2 DEF Inv, ApartInv
<1>5. ThreadInv(pos, base)'
  BY <1>1, <1>2 DEF Inv, ThreadInv
<1>6. ForkInv(pos, base)'
  <2>1. \A u, i, s, S : Forked(pos, base, u, i, s, S)' <=> Forked(pos, base, u, i, s, S)
    BY <1>1, <1>2 DEF Forked
  <2> QED
    BY <2>1 DEF Inv, ForkInv
<1>7. ObjectInv(pos, base)'
  <2>1. \A a, D, K : Placed(pos, base, a, D, K)' <=> Placed(pos, base, a, D, K)
    BY <1>1, <1>2 DEF Placed
  <2>2. object' \in [Items -> {Bogus} \union Places] /\ object'[x] = X
        /\ \A o \in Items : o # x => object'[o] = object[o]
    BY DEF DecheckTypeOK
  <2>3. ASSUME NEW o \in Items, object'[o] # Bogus,
               NEW a, a = object'[o].owner, NEW D, D = object'[o].depth,
               NEW K, K = object'[o].tid
        PROVE  Placed(pos, base, a, D, K)'
    <3>1. CASE o = x
      BY <2>1, <2>2, <2>3, <3>1
    <3>2. CASE o # x
      <4>1. Placed(pos, base, a, D, K)
        BY <2>2, <2>3, <3>2 DEF Inv, ObjectInv
      <4> QED
        BY <2>1, <4>1
    <3> QED
      BY <3>1, <3>2
  <2> QED
    BY <2>3 DEF ObjectInv
<1> QED
  BY <1>3, <1>4, <1>5, <1>6, <1>7 DEF Inv

LEMMA AllocateKeeps ==
  ASSUME DecheckAssumption, DecheckTypeOK,
         NEW pos \in Positions, NEW base \in Depths, Inv(pos, base),
         NEW t \in Threads, NEW o \in Items, AllocateObject(t, o)
  PROVE  Inv(pos, base)' /\ DecheckTypeOK'
<1>1. PICK T : T = thread[t].tid
  OBVIOUS
<1>2. Running(t) /\ Started(t) /\ Live(t) /\ object[o] = Bogus
  BY DEF AllocateObject, Running, Started, Live
<1>3. /\ T \in Tids /\ T = pos[t] /\ T.tree \in 0 .. TreeDepth /\ T.dag \in 0 .. DagDepth
      /\ TreeDepth \in Nat /\ DagDepth \in Nat /\ T.tree \in Int /\ T.dag \in Int
  <2>1. T \in Tids /\ T = pos[t]
    BY <1>1, <1>2, TypesOf DEF Inv, ThreadInv
  <2> QED
    BY <2>1, Numbers
<1>4. T.tree + 1 \in 1 .. TreeDepth + 1 /\ T.tree + 1 - 1 = T.tree /\ T.tree + 1 - 2 = T.tree - 1
  BY <1>3
<1>5. /\ T.tree \in T.path /\ base[t] <= T.tree /\ Dag(T, T.tree) = T.dag
      /\ \A d, e \in 0 .. T.tree : d < e => Dag(T, d) < Dag(T, e)
  BY <1>2, <1>3 DEF Inv, StrandInv
<1>6. base[t] \in Int
  BY DEF Depths
<1>7. \E X \in Places :
        /\ object' = [object EXCEPT ![o] = X]
        /\ X.owner = t /\ X.depth = T.tree + 1
        /\ Placed(pos, base, t, T.tree + 1, X.tid)
  <2>1. PICK heap : heap = [owner |-> t, depth |-> T.tree + 1, tid |-> T]
    OBVIOUS
  <2>2. heap \in Places /\ heap.owner = t /\ heap.depth = T.tree + 1 /\ heap.tid = T
    BY <1>3, <1>4, <2>1 DEF Places
  <2>3. CASE object' = [object EXCEPT ![o] = heap]
    <3>1. T.tree + 1 >= 2 => Dag(T, T.tree - 1) < T.dag
      <4>1. T.tree + 1 >= 2 =>
              T.tree - 1 \in 0 .. T.tree /\ T.tree \in 0 .. T.tree /\ T.tree - 1 < T.tree
        BY <1>3
      <4> QED
        BY <1>5, <4>1
    <3>2. Agree(T, pos[t], T.tree)
      BY <1>3 DEF Agree
    <3>3. base[t] < T.tree + 1 /\ T.tree + 1 <= T.tree + 1 /\ T.tree <= T.tree /\ T.dag <= T.dag
      BY <1>3, <1>5, <1>6
    <3>4. Placed(pos, base, t, T.tree + 1, T)
      BY <1>2, <1>3, <1>4, <1>5, <3>1, <3>2, <3>3 DEF Placed
    <3> QED
      BY <2>2, <2>3, <3>4
  <2>4. CASE \E other \in Items :
               /\ object[other] # Bogus
               /\ object[other].owner = heap.owner /\ object[other].depth = heap.depth
               /\ object' = [object EXCEPT ![o] = object[other]]
    <3>1. PICK other \in Items :
               /\ object[other] # Bogus
               /\ object[other].owner = heap.owner /\ object[other].depth = heap.depth
               /\ object' = [object EXCEPT ![o] = object[other]]
      BY <2>4
    <3>2. PICK X : X = object[other]
      OBVIOUS
    <3>3. X \in Places
      BY <3>1, <3>2 DEF DecheckTypeOK
    <3>4. Placed(pos, base, X.owner, X.depth, X.tid)
      BY <3>1, <3>2 DEF Inv, ObjectInv
    <3> QED
      BY <2>2, <3>1, <3>2, <3>3, <3>4
  <2> QED
    BY <1>1, <2>1, <2>3, <2>4 DEF AllocateObject
<1>8. PICK X \in Places :
        /\ object' = [object EXCEPT ![o] = X]
        /\ X.owner = t /\ X.depth = T.tree + 1
        /\ Placed(pos, base, t, T.tree + 1, X.tid)
  BY <1>7
<1>9. /\ UNCHANGED <<thread, join, synch_depths>>
      /\ before' = [before EXCEPT ![t] = @ \union {o}]
  BY DEF AllocateObject
<1>10. X # Bogus
  BY DEF DecheckAssumption
<1>11. /\ object' \in [Items -> {Bogus} \union Places] /\ object'[o] = X
       /\ \A x \in Items : x # o => object'[x] = object[x]
  BY <1>8 DEF DecheckTypeOK
<1>12. /\ before' \in [Threads -> SUBSET Items] /\ before'[t] = before[t] \union {o}
       /\ \A u \in Threads : u # t => before'[u] = before[u]
  BY <1>9 DEF DecheckTypeOK
<1>13. BeforeInv(pos)'
  <2>1. ASSUME NEW u \in Threads, Live(u), NEW x \in Items, x # o
        PROVE  x \in before'[u] <=>
                 object'[x] # Bogus /\ Above(pos[object'[x].owner], object'[x].depth, pos[u])
    <3>1. x \in before'[u] <=> x \in before[u]
      BY <1>12, <2>1
    <3>2. object'[x] = object[x]
      BY <1>11, <2>1
    <3> QED
      BY <2>1, <3>1, <3>2 DEF Inv, BeforeInv
  <2>2. ASSUME NEW u \in Threads, Live(u)
        PROVE  o \in before'[u] <=> Above(T, T.tree + 1, pos[u])
    <3>1. CASE u = t
      <4>1. Above(T, T.tree + 1, T)
        BY <1>3, <1>4 DEF Above, Agree
      <4> QED
        BY <1>3, <1>12, <3>1, <4>1
    <3>2. CASE u # t
      <4>1. o \notin before[u]
        BY <1>2, <2>2 DEF Inv, BeforeInv
      <4>2. Apart(T, pos[u])
        BY <1>2, <1>3, <2>2, <3>2 DEF Inv, ApartInv
      <4>3. T.tree <= T.tree /\ pos[u] \in Tids
        BY <1>3 DEF Positions
      <4>4. ~Agree(T, pos[u], T.tree)
        BY <1>3, <4>2, <4>3, ApartFacts
      <4>5. ~Above(T, T.tree + 1, pos[u])
        <5>1. PICK n, m : n = T.tree + 1 /\ m = n - 1
          OBVIOUS
        <5>2. m = T.tree
          BY <1>3, <5>1
        <5>3. ~Agree(T, pos[u], m)
          BY <4>4, <5>2
        <5>4. ~Above(T, n, pos[u])
          BY <5>1, <5>3 DEF Above
        <5> QED
          BY <5>1, <5>4
      <4> QED
        BY <1>12, <3>2, <4>1, <4>5
    <3> QED
      BY <3>1, <3>2
  <2>3. ASSUME NEW u \in Threads, Live(u)
        PROVE  o \in before'[u] <=>
                 object'[o] # Bogus /\ Above(pos[object'[o].owner], object'[o].depth, pos[u])
    BY <1>3, <1>8, <1>10, <1>11, <2>2, <2>3
  <2>4. \A u : Live(u)' <=> Live(u)
    BY <1>9 DEF Live
  <2> QED
    BY <2>1, <2>3, <2>4 DEF BeforeInv
<1>14. Inv(pos, base)'
  BY <1>8, <1>9, <1>13, PlaceStep
<1>15. DecheckTypeOK'
  BY <1>9, <1>11, <1>12 DEF DecheckTypeOK
<1> QED
  BY <1>14, <1>15

LEMMA CollectKeeps ==
  ASSUME DecheckAssumption, DecheckTypeOK,
         NEW pos \in Positions, NEW base \in Depths, Inv(pos, base),
         NEW t \in Threads, NEW o \in Items, CollectObject(t, o)
  PROVE  Inv(pos, base)' /\ DecheckTypeOK'
<1>1. PICK other \in Items :
        SameHeap(o, other) /\ object' = [object EXCEPT ![o].tid = object[other].tid]
  BY DEF CollectObject
<1>2. PICK K : K = object[other].tid
  OBVIOUS
<1>3. /\ object[o] \in Places /\ object[other] \in Places /\ object[other] # Bogus
      /\ object[o] # Bogus
      /\ object[o].owner = object[other].owner /\ object[o].depth = object[other].depth
  BY <1>1 DEF SameHeap, DecheckTypeOK
<1>4. PICK X : X = [object[o] EXCEPT !.tid = K]
  OBVIOUS
<1>5. /\ X \in Places /\ X.owner = object[o].owner /\ X.depth = object[o].depth /\ X.tid = K
  BY <1>2, <1>3, <1>4 DEF Places
<1>6. object' = [object EXCEPT ![o] = X]
  BY <1>1, <1>2, <1>4
<1>7. Placed(pos, base, X.owner, X.depth, X.tid)
  <2>1. Placed(pos, base, object[other].owner, object[other].depth, K)
    BY <1>2, <1>3 DEF Inv, ObjectInv
  <2> QED
    BY <1>3, <1>5, <2>1
<1>8. UNCHANGED <<thread, join, before, synch_depths>>
  BY DEF CollectObject
<1>9. X # Bogus
  BY <1>5 DEF DecheckAssumption
<1>10. /\ object' \in [Items -> {Bogus} \union Places] /\ object'[o] = X
       /\ \A x \in Items : x # o => object'[x] = object[x]
  BY <1>5, <1>6 DEF DecheckTypeOK
<1>11. BeforeInv(pos)'
  <2>1. ASSUME NEW x \in Items
        PROVE  /\ object'[x] # Bogus <=> object[x] # Bogus
               /\ object[x] # Bogus =>
                    /\ object'[x].owner = object[x].owner
                    /\ object'[x].depth = object[x].depth
    <3>1. CASE x = o
      BY <1>3, <1>5, <1>9, <1>10, <3>1
    <3>2. CASE x # o
      BY <1>10, <3>2
    <3> QED
      BY <3>1, <3>2
  <2>2. ASSUME NEW u \in Threads, Live(u), NEW x \in Items
        PROVE  x \in before[u] <=>
                 object'[x] # Bogus /\ Above(pos[object'[x].owner], object'[x].depth, pos[u])
    <3>1. x \in before[u] <=>
            object[x] # Bogus /\ Above(pos[object[x].owner], object[x].depth, pos[u])
      BY <2>2 DEF Inv, BeforeInv
    <3>2. CASE object[x] = Bogus
      BY <2>1, <3>1, <3>2
    <3>3. CASE object[x] # Bogus
      BY <2>1, <3>1, <3>3
    <3> QED
      BY <3>2, <3>3
  <2>3. before' = before /\ \A u : Live(u)' <=> Live(u)
    BY <1>8 DEF Live
  <2> QED
    BY <2>2, <2>3 DEF BeforeInv
<1>12. Inv(pos, base)'
  BY <1>5, <1>6, <1>7, <1>8, <1>11, PlaceStep
<1>13. DecheckTypeOK'
  BY <1>8, <1>10 DEF DecheckTypeOK
<1> QED
  BY <1>12, <1>13

-------------------------------------------------------------------------------
(* The line of threads from one to the program's own *)

LEMMA PartFacts ==
  ASSUME NEW pos, NEW base, NEW u, NEW v, Part(pos, base, u, v)
  PROVE  Part(pos, base, v, u)
BY DEF Part

\* After a fork the right side differs from the left where it was forked.
LEMMA ForkLine ==
  ASSUME DecheckAssumption, DecheckTypeOK,
         NEW pos \in Positions, NEW base \in Depths, Inv(pos, base), LineInv(pos, base),
         NEW t \in Threads, NEW r \in Threads, NEW kind \in {"spork", "function"},
         NEW T \in Tids, T = pos[t], NEW L, L = LeftTid(T), NEW R, R = RightTid(T),
         ForkEffect(t, r, kind, T, L, R),
         NEW p, NEW b, Moved(p, b, pos, base, t, r, T, L, R)
  PROVE  LineInv(p, b)'
<1>1. /\ T.tree < TreeDepth /\ T.dag < DagDepth
      /\ Running(t) /\ Live(t) /\ Started(t) /\ ~Live(r) /\ t # r /\ join[r] = <<>>
  BY DEF ForkEffect, Running, Live, Started
<1>2. /\ L \in Tids /\ R \in Tids /\ L.tree = T.tree + 1 /\ R.tree = T.tree + 1
      /\ T.tree \notin L.path /\ T.tree \in R.path
      /\ Agree(L, T, T.tree) /\ Agree(R, T, T.tree)
  BY <1>1, SideFacts
<1>3. T.tree \in 0 .. TreeDepth /\ TreeDepth \in Nat /\ T.tree \in Int
  BY Numbers
<1>4. /\ p[t] = L /\ p[r] = R /\ b[r] = T.tree + 1
      /\ \A u \in Threads : u # t /\ u # r => p[u] = pos[u]
      /\ \A u \in Threads : u # r => b[u] = base[u]
  BY <1>1 DEF Moved, Positions, Depths
<1>5. /\ thread'[t].state = "running" /\ thread'[t].parent = thread[t].parent
      /\ thread'[r].state = "ready" /\ thread'[r].parent = t
      /\ \A u \in Threads : u # t /\ u # r => thread'[u] = thread[u]
      /\ Len(join'[t]) = Len(join[t]) + 1
      /\ join'[t][Len(join[t]) + 1] = [thread |-> r, tidRight |-> R]
      /\ \A i \in 1 .. Len(join[t]) : join'[t][i] = join[t][i]
      /\ \A u \in Threads : u # t => join'[u] = join[u]
  BY DEF ForkEffect
<1>6. \A u \in Threads : u # r =>
        (Live(u)' <=> Live(u)) /\ thread'[u].parent = thread[u].parent
          /\ (Running(u) => Running(u)')
  BY <1>1, <1>5 DEF Live, Running
<1>7. ParentInv(b)'
  <2>1. RootThread \in Threads /\ RootThread # r
    BY <1>1 DEF LineInv, ParentInv, Running, Live, DecheckAssumption
  <2>2. Running(RootThread)' /\ b[RootThread] = 0
    BY <1>4, <1>6, <2>1 DEF LineInv, ParentInv
  <2>3. IsChild(b, r, t)'
    <3>1. Len(join[t]) + 1 \in 1 .. Len(join'[t])
      BY <1>5, TypesOf
    <3>2. /\ join'[t][Len(join[t]) + 1].thread = r
          /\ join'[t][Len(join[t]) + 1].tidRight.tree = b[r]
      BY <1>2, <1>4, <1>5
    <3> QED
      BY <1>5, <3>1, <3>2 DEF IsChild
  <2>4. ASSUME NEW u \in Threads, Live(u), u # r, u # RootThread
        PROVE  \E x : x = thread'[u].parent /\ IsChild(b, u, x)'
    <3>1. PICK x : x = thread[u].parent
      OBVIOUS
    <3>2. IsChild(base, u, x)
      BY <2>4, <3>1 DEF LineInv, ParentInv
    <3>3. x \in Threads
      BY <3>2 DEF IsChild
    <3>4. PICK i \in 1 .. Len(join[x]) :
            join[x][i].thread = u /\ join[x][i].tidRight.tree = base[u]
      BY <3>2 DEF IsChild
    <3>5. i \in 1 .. Len(join'[x]) /\ join'[x][i] = join[x][i]
      <4>1. CASE x = t
        <5>1. Len(join[t]) \in Nat
          BY TypesOf
        <5> QED
          BY <1>5, <3>4, <4>1, <5>1
      <4>2. CASE x # t
        BY <1>5, <3>3, <3>4, <4>2
      <4> QED
        BY <4>1, <4>2
    <3>6. thread'[u].parent = x /\ b[u] = base[u]
      BY <1>4, <1>6, <2>4, <3>1
    <3>7. IsChild(b, u, x)'
      BY <3>3, <3>4, <3>5, <3>6 DEF IsChild
    <3> QED
      BY <3>6, <3>7
  <2>5. thread'[RootThread].parent = Bogus
    <3>1. Live(RootThread)
      BY DEF LineInv, ParentInv, Running, Live
    <3> QED
      BY <1>6, <2>1, <3>1 DEF LineInv, ParentInv
  <2>6. ASSUME NEW u \in Threads, ~(Live(u)' /\ u # RootThread)
        PROVE  thread'[u].parent = Bogus
    BY <1>5, <1>6, <2>5, <2>6 DEF LineInv, ParentInv, Live
  <2>7. ASSUME NEW u \in Threads, Live(u)', u # RootThread
        PROVE  /\ thread'[u].parent \in Threads
               /\ \E i \in 1 .. Len(join'[thread'[u].parent]) :
                    /\ join'[thread'[u].parent][i].thread = u
                    /\ join'[thread'[u].parent][i].tidRight.tree = b[u]
    <3>1. PICK x : x = thread'[u].parent /\ IsChild(b, u, x)'
      BY <1>5, <1>6, <2>3, <2>4, <2>7
    <3> QED
      BY <3>1 DEF IsChild
  <2> QED
    BY <2>1, <2>2, <2>6, <2>7 DEF ParentInv, IsChild
<1>8. PartInv(p, b)'
  <2>1. \A u \in Threads : pos[u].tree \in Int /\ base[u] \in Int
    BY Numbers DEF Positions, Depths
  <2>2. base[t] <= T.tree
    BY <1>1 DEF Inv, StrandInv
  <2>3. ASSUME NEW v \in Threads, Live(v), v # t
        PROVE  Part(p, b, t, v) /\ Part(p, b, r, v)
    <3>1. PICK c \in 0 .. TreeDepth :
            /\ c < T.tree /\ c < pos[v].tree /\ (c < base[t] \/ c < base[v])
            /\ ~(c \in T.path <=> c \in pos[v].path)
      BY <1>1, <2>3 DEF LineInv, PartInv, Part
    <3>2. c < L.tree /\ c < R.tree /\ c < T.tree + 1
      BY <1>2, <1>3, <3>1
    <3>3. (c \in L.path <=> c \in T.path) /\ (c \in R.path <=> c \in T.path)
      BY <1>2, <3>1 DEF Agree
    <3>4. v # r /\ p[v] = pos[v] /\ b[v] = base[v] /\ b[t] = base[t]
      BY <1>1, <1>4, <2>3
    <3> QED
      BY <1>4, <3>1, <3>2, <3>3, <3>4 DEF Part
  <2>4. Part(p, b, r, t)
    <3>1. T.tree < L.tree /\ T.tree < R.tree /\ T.tree < b[r]
      BY <1>2, <1>3, <1>4
    <3> QED
      BY <1>2, <1>3, <1>4, <3>1 DEF Part
  <2>5. ASSUME NEW u \in Threads, NEW v \in Threads, Live(u), Live(v), u # t, v # t, u # v
        PROVE  Part(p, b, u, v)
    <3>1. Part(pos, base, u, v)
      BY <2>5 DEF LineInv, PartInv
    <3>2. u # r /\ v # r
      BY <1>1, <2>5
    <3>3. p[u] = pos[u] /\ p[v] = pos[v] /\ b[u] = base[u] /\ b[v] = base[v]
      BY <1>4, <2>5, <3>2
    <3> QED
      BY <3>1, <3>3 DEF Part
  <2>6. ASSUME NEW u \in Threads, NEW v \in Threads, Live(u)', Live(v)', u # v
        PROVE  Part(p, b, u, v)
    <3>1. (u = r \/ Live(u)) /\ (v = r \/ Live(v))
      BY <1>6, <2>6
    <3>2. CASE u = r
      BY <2>3, <2>4, <2>6, <3>1, <3>2
    <3>3. CASE v = r
      BY <2>3, <2>4, <2>6, <3>1, <3>3, PartFacts
    <3>4. CASE u # r /\ v # r
      BY <2>3, <2>5, <2>6, <3>1, <3>4, PartFacts
    <3> QED
      BY <3>2, <3>3, <3>4
  <2> QED
    BY <2>6 DEF PartInv, Part
<1> QED
  BY <1>7, <1>8 DEF LineInv

\* A join forgets the bit in which the left side and the right one differ;
\* who differs from the left side there alone does not differ from the right.
LEMMA JoinLine ==
  ASSUME DecheckAssumption, DecheckTypeOK,
         NEW pos \in Positions, NEW base \in Depths, Inv(pos, base), LineInv(pos, base),
         NEW t \in Threads, NEW r \in Threads,
         NEW T \in Tids, T = pos[t], NEW R \in Tids, JoinFound(pos, base, t, r, T, R),
         NEW J, J = JoinTid(T, R), JoinEffect(t, r, T, J),
         NEW p, p = [pos EXCEPT ![t] = J]
  PROVE  LineInv(p, base)'
<1>1. /\ t # r /\ T.tree > 0 /\ T.dag + T.tree <= DagDepth /\ R.dag + R.tree <= DagDepth
      /\ R.tree = T.tree /\ R = pos[r] /\ Live(r) /\ base[r] = T.tree /\ join[r] = <<>>
      /\ base[r] = base[t] + Len(join[t]) /\ Running(t) /\ Live(t)
      /\ Len(join[t]) \in 1 .. Len(join[t]) /\ join[t][Len(join[t])].thread = r
      /\ Agree(R, T, T.tree - 1) /\ T.tree - 1 \in R.path /\ T.tree - 1 \notin T.path
  BY DEF JoinFound, Running, Live
<1>2. /\ T.tree \in 0 .. TreeDepth /\ T.dag \in 0 .. DagDepth /\ R.dag \in 0 .. DagDepth
      /\ TreeDepth \in Nat /\ T.tree \in Int /\ T.tree - 1 \in 0 .. TreeDepth
  BY <1>1, Numbers
<1>3. J.tree = T.tree - 1 /\ Agree(J, T, T.tree - 1)
  <2>1. T.dag < DagDepth /\ R.dag < DagDepth
    BY <1>1, <1>2, Numbers
  <2>2. /\ J \in Tids /\ J.tree = T.tree - 1 /\ J.tree \in J.path /\ Agree(J, T, J.tree)
        /\ T.dag < J.dag /\ R.dag < J.dag /\ (J.dag = T.dag + 1 \/ J.dag = R.dag + 1)
    <3>1. T.tree > 0
      BY <1>1
    <3> QED
      BY <2>1, <3>1, JoinedFacts
  <2> QED
    BY <2>2
<1>4. p[t] = J /\ \A u \in Threads : u # t => p[u] = pos[u]
  BY DEF Positions
<1>5. /\ thread'[t].state = "running" /\ thread'[t].parent = thread[t].parent
      /\ thread'[r].state = "unused" /\ thread'[r].parent = Bogus
      /\ \A u \in Threads : u # t /\ u # r => thread'[u] = thread[u]
      /\ Len(join'[t]) = Len(join[t]) - 1
      /\ \A i \in 1 .. Len(join[t]) - 1 : join'[t][i] = join[t][i]
      /\ \A u \in Threads : u # t => join'[u] = join[u]
  BY DEF JoinEffect
<1>6. \A u \in Threads : u # r =>
        (Live(u)' <=> Live(u)) /\ thread'[u].parent = thread[u].parent
          /\ (Running(u) => Running(u)')
  BY <1>1, <1>5 DEF Live, Running
<1>7. ~Live(r)'
  BY <1>5 DEF Live
<1>8. ParentInv(base)'
  <2>1. RootThread \in Threads /\ RootThread # r
    BY <1>1, <1>2 DEF LineInv, ParentInv, DecheckAssumption
  <2>2. Running(RootThread)' /\ base[RootThread] = 0
    BY <1>6, <2>1 DEF LineInv, ParentInv
  <2>3. ASSUME NEW u \in Threads, Live(u), u # r, u # RootThread
        PROVE  \E x : x = thread'[u].parent /\ IsChild(base, u, x)'
    <3>1. PICK x : x = thread[u].parent
      OBVIOUS
    <3>2. IsChild(base, u, x)
      BY <2>3, <3>1 DEF LineInv, ParentInv
    <3>3. x \in Threads
      BY <3>2 DEF IsChild
    <3>4. PICK i \in 1 .. Len(join[x]) :
            join[x][i].thread = u /\ join[x][i].tidRight.tree = base[u]
      BY <3>2 DEF IsChild
    <3>5. i \in 1 .. Len(join'[x]) /\ join'[x][i] = join[x][i]
      <4>1. CASE x = t
        <5>1. Len(join[t]) \in Nat
          BY TypesOf
        <5>2. i # Len(join[t])
          BY <1>1, <2>3, <3>4, <4>1
        <5>3. i \in 1 .. Len(join[t]) - 1
          BY <3>4, <4>1, <5>1, <5>2
        <5> QED
          BY <1>5, <4>1, <5>3
      <4>2. CASE x # t
        BY <1>5, <3>3, <3>4, <4>2
      <4> QED
        BY <4>1, <4>2
    <3>6. thread'[u].parent = x
      BY <1>6, <2>3, <3>1
    <3>7. IsChild(base, u, x)'
      BY <3>3, <3>4, <3>5 DEF IsChild
    <3> QED
      BY <3>6, <3>7
  <2>5. thread'[RootThread].parent = Bogus
    <3>1. Live(RootThread)
      BY DEF LineInv, ParentInv, Running, Live
    <3> QED
      BY <1>6, <2>1, <3>1 DEF LineInv, ParentInv
  <2>6. ASSUME NEW u \in Threads, ~(Live(u)' /\ u # RootThread)
        PROVE  thread'[u].parent = Bogus
    BY <1>5, <1>6, <2>5, <2>6 DEF LineInv, ParentInv, Live
  <2>7. ASSUME NEW u \in Threads, Live(u)', u # RootThread
        PROVE  /\ thread'[u].parent \in Threads
               /\ \E i \in 1 .. Len(join'[thread'[u].parent]) :
                    /\ join'[thread'[u].parent][i].thread = u
                    /\ join'[thread'[u].parent][i].tidRight.tree = base[u]
    <3>1. PICK x : x = thread'[u].parent /\ IsChild(base, u, x)'
      BY <1>6, <1>7, <2>3, <2>7
    <3> QED
      BY <3>1 DEF IsChild
  <2> QED
    BY <2>1, <2>2, <2>6, <2>7 DEF ParentInv, IsChild
<1>9. PartInv(p, base)'
  <2>1. \A u \in Threads : pos[u].tree \in Int /\ base[u] \in Int
    BY Numbers DEF Positions, Depths
  <2>2. base[t] <= T.tree - 1
    BY <1>1, <1>2, <2>1
  <2>3. ASSUME NEW v \in Threads, Live(v), v # t, v # r PROVE Part(p, base, t, v)
    <3>1. p[v] = pos[v]
      BY <1>4, <2>3
    <3>2. PICK c \in 0 .. TreeDepth :
            /\ c < T.tree /\ c < pos[v].tree /\ (c < base[t] \/ c < base[v])
            /\ ~(c \in T.path <=> c \in pos[v].path)
      BY <1>1, <2>3 DEF LineInv, PartInv, Part
    <3>3. CASE c < T.tree - 1
      <4>1. c < J.tree /\ (c \in J.path <=> c \in T.path)
        BY <1>3, <3>3 DEF Agree
      <4> QED
        BY <1>4, <3>1, <3>2, <4>1 DEF Part
    <3>4. CASE c = T.tree - 1
      <4>1. c < base[v] /\ base[r] <= base[v]
        <5>1. base[t] \in Int /\ base[v] \in Int /\ base[r] = T.tree /\ T.tree \in Int
          BY <1>1, <1>2, <2>1
        <5>2. ~(c < base[t])
          BY <2>2, <3>4, <5>1
        <5> QED
          BY <3>2, <3>4, <5>1, <5>2
      <4>2. c \in pos[v].path
        BY <1>1, <3>2, <3>4
      <4>3. PICK e \in 0 .. TreeDepth :
              /\ e < R.tree /\ e < pos[v].tree /\ (e < base[r] \/ e < base[v])
              /\ ~(e \in R.path <=> e \in pos[v].path)
        BY <1>1, <2>3 DEF LineInv, PartInv, Part
      <4>4. e # T.tree - 1
        BY <1>1, <3>4, <4>2, <4>3
      <4>5. e < T.tree - 1 /\ e < base[v]
        <5>1. base[v] \in Int /\ base[r] = T.tree /\ R.tree = T.tree /\ T.tree \in Int /\ e \in Int
          BY <1>1, <1>2, <2>1
        <5> QED
          BY <4>1, <4>3, <4>4, <5>1
      <4>6. (e \in R.path <=> e \in T.path) /\ (e \in J.path <=> e \in T.path) /\ e < J.tree
        BY <1>1, <1>3, <4>5 DEF Agree
      <4> QED
        BY <1>4, <3>1, <4>3, <4>5, <4>6 DEF Part
    <3> QED
      BY <1>2, <3>2, <3>3, <3>4
  <2>4. ASSUME NEW u \in Threads, NEW v \in Threads, Live(u), Live(v), u # t, v # t, u # v
        PROVE  Part(p, base, u, v)
    <3>1. Part(pos, base, u, v)
      BY <2>4 DEF LineInv, PartInv
    <3>2. p[u] = pos[u] /\ p[v] = pos[v]
      BY <1>4, <2>4
    <3> QED
      BY <3>1, <3>2 DEF Part
  <2>5. ASSUME NEW u \in Threads, NEW v \in Threads, Live(u)', Live(v)', u # v
        PROVE  Part(p, base, u, v)
    <3>1. u # r /\ v # r /\ Live(u) /\ Live(v)
      BY <1>6, <1>7, <2>5
    <3> QED
      BY <2>3, <2>4, <2>5, <3>1, PartFacts
  <2> QED
    BY <2>5 DEF PartInv, Part
<1> QED
  BY <1>8, <1>9 DEF LineInv

\* What else threads do leaves their line as it is.
LEMMA LineKept ==
  ASSUME NEW pos, NEW base, LineInv(pos, base), join' = join, Running(RootThread)',
         \A u \in Threads : (Live(u)' <=> Live(u)) /\ thread'[u].parent = thread[u].parent
  PROVE  LineInv(pos, base)'
BY DEF LineInv, ParentInv, PartInv, Part, IsChild

LEMMA StealTakes ==
  ASSUME DecheckTypeOK, NEW t \in Threads, NEW i \in 1 .. Len(join[t]), Steal(t, i)
  PROVE  thread[join[t][i].thread].state = "ready" /\ join' = join
<1>1. PICK r : r = join[t][i].thread
  OBVIOUS
<1>2. i \in 1 .. i /\ Len(join[t]) \in Nat
  BY TypesOf
<1>3. thread[r].state = "ready"
  BY <1>1, <1>2 DEF Steal
<1> QED
  BY <1>1, <1>3 DEF Steal

LEMMA LineSteps ==
  ASSUME DecheckAssumption, DecheckTypeOK, NEW pos, NEW base, LineInv(pos, base),
         NEW t \in Threads,
         \/ \E i \in 1 .. Len(join[t]) : Steal(t, i)
         \/ FinishRight(t)
         \/ \E o \in Items : AllocateObject(t, o) \/ CollectObject(t, o)
  PROVE  LineInv(pos, base)'
<1>1. thread \in [Threads -> Strands] /\ \A u \in Threads : thread[u] \in Strands
  BY DEF DecheckTypeOK
<1>2. RootThread \in Threads /\ thread[RootThread].state = "running"
  BY DEF DecheckAssumption, LineInv, ParentInv, Running
<1>3. ASSUME NEW i \in 1 .. Len(join[t]), Steal(t, i) PROVE LineInv(pos, base)'
  <2>1. PICK r, R, S : /\ r = join[t][i].thread /\ R = join[t][i].tidRight
                       /\ S = StartDepths(r)
    OBVIOUS
  <2>2. r \in Threads
    BY <2>1, EntryTypes
  <2>3. thread[r].state = "ready" /\ join' = join
    BY <1>3, <2>1, StealTakes
  <2>4. PICK X : X = SetTid([thread[r] EXCEPT !.state = "running", !.sync = S], R)
    OBVIOUS
  <2>5. X.state = "running" /\ X.parent = thread[r].parent
    BY <1>1, <2>2, <2>4 DEF SetTid, Strands
  <2>6. thread' = [thread EXCEPT ![r] = X]
    BY <1>3, <2>1, <2>4, Zenon DEF Steal
  <2>7. thread'[r] = X /\ \A u \in Threads : u # r => thread'[u] = thread[u]
    BY <1>1, <2>2, <2>6
  <2>8. \A u \in Threads : (Live(u)' <=> Live(u)) /\ thread'[u].parent = thread[u].parent
    BY <2>3, <2>5, <2>7 DEF Live
  <2>9. Running(RootThread)'
    BY <1>2, <2>5, <2>7 DEF Running
  <2> QED
    BY <2>3, <2>8, <2>9, LineKept
<1>4. ASSUME FinishRight(t) PROVE LineInv(pos, base)'
  <2>1. PICK X : X = [thread[t] EXCEPT !.state = "done"]
    OBVIOUS
  <2>2. X.state = "done" /\ X.parent = thread[t].parent
    BY <1>1, <2>1 DEF Strands
  <2>3. /\ thread' = [thread EXCEPT ![t] = X] /\ join' = join
        /\ t # RootThread /\ thread[t].state = "running"
    BY <1>4, <2>1 DEF FinishRight, Running
  <2>4. thread'[t] = X /\ \A u \in Threads : u # t => thread'[u] = thread[u]
    BY <1>1, <2>3
  <2>5. \A u \in Threads : (Live(u)' <=> Live(u)) /\ thread'[u].parent = thread[u].parent
    BY <2>2, <2>3, <2>4 DEF Live
  <2>6. Running(RootThread)'
    BY <1>2, <2>3, <2>4 DEF Running
  <2> QED
    BY <2>3, <2>5, <2>6, LineKept
<1>5. ASSUME NEW o \in Items, AllocateObject(t, o) \/ CollectObject(t, o)
      PROVE  LineInv(pos, base)'
  <2>1. join' = join /\ thread' = thread
    BY <1>5 DEF AllocateObject, CollectObject
  <2>2. \A u \in Threads : (Live(u)' <=> Live(u)) /\ thread'[u].parent = thread[u].parent
    BY <2>1 DEF Live
  <2>3. Running(RootThread)'
    BY <1>2, <2>1 DEF Running
  <2> QED
    BY <2>1, <2>2, <2>3, LineKept
<1> QED
  BY <1>3, <1>4, <1>5

-------------------------------------------------------------------------------
(* The inductive invariant *)

LEMMA InitInv == ASSUME DecheckAssumption, DecheckInit PROVE IInv
<1>1. TreeDepth \in Nat /\ DagDepth \in Nat /\ RootThread \in Threads
  BY DEF DecheckAssumption
<1>2. 0 \in 0 .. TreeDepth /\ 0 \in 0 .. DagDepth /\ {0} \in Words /\ {} \in Words
  BY <1>1 DEF Words
<1>3. /\ FirstTid \in Tids /\ FirstTid.tree = 0 /\ FirstTid.dag = 0 /\ 0 \in FirstTid.path
      /\ Tid({}, 0, 0) \in Tids
  BY <1>2 DEF FirstTid, Tid, Tids
<1>4. Unused \in Strands /\ Unused.state = "unused" /\ Unused.sync = [d \in 0 .. TreeDepth |-> 0]
  <2>1. [d \in 0 .. TreeDepth |-> 0] \in [0 .. TreeDepth -> 0 .. DagDepth]
    BY <1>2
  <2> QED
    BY <1>3, <2>1 DEF Unused, Strands
<1>5. PICK first : first = [Unused EXCEPT !.state = "running", !.tid = FirstTid]
  OBVIOUS
<1>6. /\ first \in Strands /\ first.state = "running" /\ first.tid = FirstTid
      /\ first.sync = [d \in 0 .. TreeDepth |-> 0]
  BY <1>3, <1>4, <1>5 DEF Strands
<1>7. /\ thread = [t \in Threads |-> IF t = RootThread THEN first ELSE Unused]
      /\ join = [t \in Threads |-> <<>>]
      /\ object = [o \in Items |-> Bogus]
      /\ before = [t \in Threads |-> {}]
      /\ synch_depths = [w \in Words |-> 0]
  BY <1>5 DEF DecheckInit
<1>8. DecheckTypeOK
  BY <1>2, <1>4, <1>6, <1>7 DEF DecheckTypeOK
<1>9. PICK pos, base : pos = [u \in Threads |-> FirstTid] /\ base = [u \in Threads |-> 0]
  OBVIOUS
<1>10. pos \in Positions /\ base \in Depths
  BY <1>2, <1>3, <1>9 DEF Positions, Depths
<1>11. \A u \in Threads : Live(u) => u = RootThread
  BY <1>4, <1>7 DEF Live
<1>12. \A d \in 0 .. TreeDepth : Dag(FirstTid, d) = 0
  BY <1>3, <1>7, StrandFacts DEF Dag
<1>13. StrandInv(pos, base)
  <2>1. \A d, e \in 0 .. 0 : ~(d < e)
    OBVIOUS
  <2>2. FirstTid.tree <= 0 /\ FirstTid.dag + FirstTid.tree <= DagDepth
    BY <1>1, <1>3
  <2>3. 0 <= FirstTid.tree
    BY <1>3
  <2> QED
    BY <1>2, <1>3, <1>9, <1>12, <2>1, <2>2, <2>3 DEF StrandInv
<1>14. ApartInv(pos)
  BY <1>11 DEF ApartInv
<1>15. ThreadInv(pos, base)
  <2>1. ASSUME NEW t \in Threads, Started(t)
        PROVE  /\ thread[t].tid = pos[t]
               /\ pos[t].tree = base[t] + Len(join[t])
               /\ \A d \in 0 .. pos[t].tree : thread[t].sync[d] = Dag(pos[t], d)
    <3>1. t = RootThread
      BY <1>11, <2>1 DEF Started, Live
    <3>2. thread[t] = first /\ pos[t] = FirstTid /\ base[t] = 0 /\ join[t] = <<>>
      BY <1>7, <1>9, <3>1
    <3>3. Len(join[t]) = 0
      BY <3>2
    <3>4. \A d \in 0 .. 0 : d \in 0 .. TreeDepth
      BY <1>2
    <3>5. \A d \in 0 .. FirstTid.tree : first.sync[d] = Dag(FirstTid, d)
      BY <1>3, <1>6, <1>12, <3>4
    <3> QED
      BY <1>3, <1>6, <3>2, <3>3, <3>5
  <2>2. \A t \in Threads : join[t] = <<>>
    BY <1>7
  <2> QED
    BY <2>1, <2>2 DEF ThreadInv
<1>16. ForkInv(pos, base)
  <2>1. \A t \in Threads : 1 .. Len(join[t]) = {}
    BY <1>7
  <2> QED
    BY <2>1 DEF ForkInv
<1>17. ObjectInv(pos, base)
  BY <1>7 DEF ObjectInv
<1>18. BeforeInv(pos)
  BY <1>7 DEF BeforeInv
<1>19. LineInv(pos, base)
  <2>1. Running(RootThread) /\ base[RootThread] = 0 /\ thread[RootThread].parent = Bogus
    <3>1. first.parent = Bogus
      BY <1>4, <1>5 DEF Unused
    <3> QED
      BY <1>1, <1>6, <1>7, <1>9, <3>1 DEF Running
  <2> QED
    BY <1>1, <1>4, <1>7, <1>11, <2>1 DEF LineInv, ParentInv, PartInv, Unused
<1> QED
  BY <1>8, <1>10, <1>13, <1>14, <1>15, <1>16, <1>17, <1>18, <1>19 DEF IInv, Inv

LEMMA StepInv ==
  ASSUME DecheckAssumption, IInv, [DecheckNext]_decheckVars PROVE IInv'
<1>1. DecheckTypeOK
  BY DEF IInv
<1>2. PICK pos \in Positions, base \in Depths : Inv(pos, base) /\ LineInv(pos, base)
  BY DEF IInv
<1>3. ASSUME NEW t \in Threads, NEW r \in Threads, NEW kind \in {"spork", "function"},
             Fork(t, r, kind)
      PROVE  IInv'
  <2>1. PICK T : T = thread[t].tid
    OBVIOUS
  <2>2. PICK L, R : L = LeftTid(T) /\ R = RightTid(T)
    OBVIOUS
  <2>3. ForkEffect(t, r, kind, T, L, R) /\ T \in Tids /\ T = pos[t]
    BY <1>1, <1>2, <1>3, <2>1, <2>2, ForkFacts
  <2>4. PICK p : p = [pos EXCEPT ![t] = L, ![r] = R]
    OBVIOUS
  <2>7. PICK b : b = [base EXCEPT ![r] = T.tree + 1]
    OBVIOUS
  <2>5. p \in Positions /\ b \in Depths /\ Inv(p, b)' /\ LineInv(p, b)'
    <3>1. L = LeftTid(T)
      BY <2>2
    <3>2. R = RightTid(T)
      BY <2>2
    <3>3. ForkEffect(t, r, kind, T, L, R)
      BY <2>3
    <3>4. T = pos[t] /\ T \in Tids
      BY <2>3
    <3>5. Moved(p, b, pos, base, t, r, T, L, R)
      BY <2>4, <2>7 DEF Moved
    <3> QED
      BY <1>1, <1>2, <3>1, <3>2, <3>3, <3>4, <3>5, ForkKeeps, ForkLine
  <2>6. DecheckTypeOK'
    <3>1. before' \in [Threads -> SUBSET Items]
      BY <1>1, <2>3 DEF ForkEffect, DecheckTypeOK
    <3>2. object' \in [Items -> {Bogus} \union Places]
      BY <1>1, <2>3 DEF ForkEffect, DecheckTypeOK
    <3> QED
      BY <2>3, <3>1, <3>2 DEF ForkEffect, DecheckTypeOK
  <2> QED
    BY <2>5, <2>6 DEF IInv
<1>4. ASSUME NEW t \in Threads, FastJoin(t) \/ SlowJoin(t) PROVE IInv'
  <2>1. PICK r \in Threads, R \in Tids : Joins(t, r, R)
    BY <1>1, <1>4, JoinsAll
  <2>2. PICK T : T = thread[t].tid
    OBVIOUS
  <2>3. PICK J : J = JoinTid(T, R)
    OBVIOUS
  <2>4. T \in Tids /\ T = pos[t] /\ JoinFound(pos, base, t, r, T, R)
    BY <1>1, <1>2, <2>1, <2>2, JoinFinds
  <2>5. JoinEffect(t, r, T, J)
    BY <1>1, <1>2, <2>1, <2>2, <2>3, <2>4, JoinActs
  <2>6. PICK p : p = [pos EXCEPT ![t] = J]
    OBVIOUS
  <2>7. p \in Positions /\ Inv(p, base)' /\ LineInv(p, base)'
    BY <1>1, <1>2, <2>3, <2>4, <2>5, <2>6, JoinKeeps, JoinLine
  <2>8. DecheckTypeOK'
    <3>1. before' \in [Threads -> SUBSET Items]
      <4>1. /\ before \in [Threads -> SUBSET Items]
            /\ before' = [before EXCEPT ![t] = @ \union before[r], ![r] = {}]
        BY <1>1, <2>5 DEF JoinEffect, DecheckTypeOK
      <4>2. before[t] \union before[r] \in SUBSET Items /\ {} \in SUBSET Items
        BY <4>1
      <4> QED
        BY <4>1, <4>2
    <3>2. object' \in [Items -> {Bogus} \union Places]
      <4>1. PICK e, Q : e = T.tree + 1 /\ Q = Promoted(t, r, e)
        OBVIOUS
      <4>2. e - 1 \in 1 .. TreeDepth + 1
        <5>1. T.tree \in 0 .. TreeDepth /\ TreeDepth \in Nat /\ T.tree > 0
          BY <2>4, Numbers DEF JoinFound
        <5> QED
          BY <4>1, <5>1
      <4>3. ASSUME NEW o \in Items PROVE Q[o] \in {Bogus} \union Places
        <5>1. CASE object[o] = Bogus
          <6>1. Q[o] = object[o]
            BY <4>1, <5>1 DEF Promoted
          <6> QED
            BY <5>1, <6>1
        <5>2. CASE object[o] # Bogus
          <6>1. object[o] \in Places
            BY <1>1, <5>2 DEF DecheckTypeOK
          <6>2. PICK x : x = Q[o]
            OBVIOUS
          <6>3. x \in Places \/ x = object[o]
            BY <4>1, <4>2, <6>1, <6>2, PromotedAt
          <6> QED
            BY <6>1, <6>2, <6>3
        <5> QED
          BY <5>1, <5>2
      <4>4. Q = [o \in Items |-> Q[o]]
        BY <4>1 DEF Promoted
      <4>5. object' = Q
        BY <2>5, <4>1 DEF JoinEffect
      <4> QED
        BY <4>3, <4>4, <4>5
    <3> QED
      BY <2>5, <3>1, <3>2 DEF JoinEffect, DecheckTypeOK
  <2> QED
    BY <1>2, <2>7, <2>8 DEF IInv
<1>5. ASSUME NEW t \in Threads, NEW i \in 1 .. Len(join[t]), Steal(t, i) PROVE IInv'
  BY <1>1, <1>2, <1>5, StealKeeps, LineSteps DEF IInv
<1>6. ASSUME NEW t \in Threads, FinishRight(t) PROVE IInv'
  BY <1>1, <1>2, <1>6, FinishKeeps, LineSteps DEF IInv
<1>7. ASSUME NEW t \in Threads, NEW o \in Items, AllocateObject(t, o) PROVE IInv'
  BY <1>1, <1>2, <1>7, AllocateKeeps, LineSteps DEF IInv
<1>8. ASSUME NEW t \in Threads, NEW o \in Items, CollectObject(t, o) PROVE IInv'
  BY <1>1, <1>2, <1>8, CollectKeeps, LineSteps DEF IInv
<1>9. CASE UNCHANGED decheckVars
  <2>1. DecheckTypeOK'
    BY <1>1, <1>9 DEF decheckVars, DecheckTypeOK
  <2>2. Inv(pos, base)'
    BY <1>2, <1>9 DEF decheckVars, Inv, StrandInv, ApartInv, ThreadInv, ForkInv, ObjectInv,
       BeforeInv, Forked, Placed, Live, Started, Running, Dag
  <2>3. LineInv(pos, base)'
    BY <1>2, <1>9 DEF decheckVars, LineInv, ParentInv, PartInv, Part, IsChild, Live, Running
  <2> QED
    BY <1>2, <2>1, <2>2, <2>3 DEF IInv
<1>10. CASE AtBound
  BY <1>9, <1>10 DEF AtBound
<1> QED
  BY <1>3, <1>4, <1>5, <1>6, <1>7, <1>8, <1>9, <1>10 DEF DecheckNext

-------------------------------------------------------------------------------
(* The common length of two paths *)

Below == {p \in Nat \X Nat : p[1] < p[2]}

\* The order of the numbers is well-founded.
LEMMA BelowIsWellFounded == IsWellFoundedOn(Below, Nat)
<1>1. Below = OpToRel(<, Nat)
  BY DEF Below, OpToRel
<1> QED
  BY <1>1, NatLessThanWellFounded, Zenon

\* The least member of a nonempty set of numbers.
LEMMA MinFacts ==
  ASSUME NEW S \in SUBSET Nat, S # {}
  PROVE  Min(S) \in S /\ \A y \in S : Min(S) <= y
<1>1. PICK x \in S : \A y \in S : <<y, x>> \notin Below
  BY BelowIsWellFounded, WFMin
<1>2. ASSUME NEW y \in S, ~(x <= y) PROVE FALSE
  <2>1. y \in Nat /\ x \in Nat /\ y < x
    BY <1>2
  <2>2. <<y, x>> \in Below
    BY <2>1 DEF Below
  <2> QED
    BY <1>1, <2>2
<1>3. \E z \in S : \A y \in S : z <= y
  BY <1>2
<1> QED
  BY <1>3 DEF Min

\* Below the common length the paths have the same bits; there they differ,
\* if both go on.
LEMMA CommonFacts ==
  ASSUME DecheckAssumption, NEW K \in Tids, NEW T \in Tids, NEW n, n = CommonLength(K, T)
  PROVE  /\ n \in 0 .. TreeDepth /\ n <= K.tree /\ n <= T.tree
         /\ Agree(K, T, n)
         /\ \A b \in 0 .. TreeDepth :
              b < K.tree /\ b < T.tree /\ ~(b \in K.path <=> b \in T.path) => n <= b
         /\ n < K.tree /\ n < T.tree => ~(n \in K.path <=> n \in T.path)
<1>1. /\ K.tree \in 0 .. TreeDepth /\ T.tree \in 0 .. TreeDepth /\ TreeDepth \in Nat
      /\ K.path \subseteq 0 .. TreeDepth /\ T.path \subseteq 0 .. TreeDepth
  BY Numbers DEF Tids, Words
<1> DEFINE both == Min({K.tree, T.tree})
           Differ == {b \in norm_path(K) \ norm_path(T) : b < both} \union
                     {b \in norm_path(T) \ norm_path(K) : b < both}
<1>2. both \in {K.tree, T.tree} /\ both <= K.tree /\ both <= T.tree
  <2>1. {K.tree, T.tree} \in SUBSET Nat
    BY <1>1
  <2> QED
    BY <2>1, MinFacts
<1>3. n = Min(Differ \union {both})
  BY DEF CommonLength
<1> HIDE DEF both
<1>4. both \in 0 .. TreeDepth
  BY <1>1, <1>2
<1>5. \A b : b \in Differ <=>
               /\ b \in 0 .. TreeDepth /\ b < both
               /\ ~(b \in K.path <=> b \in T.path)
  <2>1. ASSUME NEW b \in 0 .. TreeDepth, b < both PROVE b <= K.tree /\ b <= T.tree
    BY <1>1, <1>2, <1>4, <2>1
  <2> QED
    BY <1>1, <2>1 DEF norm_path
<1> HIDE DEF Differ
<1>6. n \in Differ \union {both} /\ \A b \in Differ \union {both} : n <= b
  <2>1. Differ \union {both} \in SUBSET Nat
    BY <1>1, <1>4, <1>5
  <2> QED
    BY <1>3, <2>1, MinFacts
<1>7. n \in 0 .. TreeDepth /\ n <= both
  BY <1>4, <1>5, <1>6
<1>8. n <= K.tree /\ n <= T.tree
  BY <1>1, <1>2, <1>4, <1>7
<1>9. Agree(K, T, n)
  <2>1. ASSUME NEW b \in 0 .. TreeDepth, b < n PROVE b < both /\ ~(n <= b)
    BY <1>4, <1>7, <2>1
  <2> QED
    BY <1>5, <1>6, <2>1 DEF Agree
<1>10. ASSUME NEW b \in 0 .. TreeDepth, b < K.tree, b < T.tree,
              ~(b \in K.path <=> b \in T.path)
       PROVE  n <= b
  <2>1. b < both
    BY <1>2, <1>10
  <2> QED
    BY <1>5, <1>6, <1>10, <2>1
<1>11. ASSUME n < K.tree, n < T.tree PROVE ~(n \in K.path <=> n \in T.path)
  <2>1. n # both
    BY <1>1, <1>2, <1>7, <1>11
  <2> QED
    BY <1>5, <1>6, <2>1
<1> QED
  BY <1>7, <1>8, <1>9, <1>10, <1>11

-------------------------------------------------------------------------------
(* The check *)

\* What the invariant says of a running thread and an object.
LEMMA Looked ==
  ASSUME DecheckAssumption, DecheckTypeOK,
         NEW pos \in Positions, NEW base \in Depths, Inv(pos, base),
         NEW t \in Threads, Running(t), NEW o \in Items, object[o] # Bogus,
         NEW T, T = thread[t].tid, NEW K, K = object[o].tid,
         NEW a, a = object[o].owner, NEW D, D = object[o].depth
  PROVE  /\ T \in Tids /\ T = pos[t] /\ K \in Tids /\ a \in Threads /\ D \in 1 .. TreeDepth + 1
         /\ Live(t) /\ Live(a) /\ Placed(pos, base, a, D, K)
         /\ \A d \in 0 .. T.tree : thread[t].sync[d] = Dag(T, d)
         /\ \A u \in Threads : Live(u) =>
              \A d, e \in 0 .. pos[u].tree : d < e => Dag(pos[u], d) < Dag(pos[u], e)
<1>1. Started(t) /\ Live(t)
  BY DEF Running, Started, Live
<1>2. object[o] \in Places
  BY DEF DecheckTypeOK
<1>3. K \in Tids /\ a \in Threads /\ D \in 1 .. TreeDepth + 1
  BY <1>2 DEF Places
<1>4. Placed(pos, base, a, D, K)
  BY DEF Inv, ObjectInv
<1>5. Live(a)
  BY <1>4 DEF Placed, Started, Live
<1>6. T = pos[t] /\ \A d \in 0 .. T.tree : thread[t].sync[d] = Dag(T, d)
  BY <1>1 DEF Inv, ThreadInv
<1>7. T \in Tids
  BY <1>6 DEF Positions
<1>8. \A u \in Threads : Live(u) =>
        \A d, e \in 0 .. pos[u].tree : d < e => Dag(pos[u], d) < Dag(pos[u], e)
  BY DEF Inv, StrandInv
<1> QED
  BY <1>1, <1>3, <1>4, <1>5, <1>6, <1>7, <1>8

LEMMA DagIsNumber ==
  ASSUME DecheckAssumption, DecheckTypeOK, NEW U \in Tids, NEW d \in 0 .. TreeDepth
  PROVE  Dag(U, d) \in Int
<1>1. Strand(U, d) \in Words
  BY StrandFacts
<1>2. Dag(U, d) \in 0 .. DagDepth
  BY <1>1 DEF Dag, DecheckTypeOK
<1> QED
  BY <1>2

\* A strand's depths in the dag grow along its path.
LEMMA DagGrows ==
  ASSUME DecheckAssumption, DecheckTypeOK, NEW U \in Tids,
         \A d, e \in 0 .. U.tree : d < e => Dag(U, d) < Dag(U, e),
         NEW m \in 0 .. U.tree, NEW n \in 0 .. U.tree, m <= n
  PROVE  Dag(U, m) <= Dag(U, n)
<1>1. m \in 0 .. TreeDepth /\ n \in 0 .. TreeDepth /\ m \in Int /\ n \in Int
  BY Numbers
<1>2. Dag(U, m) \in Int /\ Dag(U, n) \in Int
  BY <1>1, DagIsNumber
<1>3. m = n \/ Dag(U, m) < Dag(U, n)
  BY <1>1
<1> QED
  BY <1>2, <1>3

\* The table of the thread agrees with the depths of all strands where the
\* check looks.
LEMMA SyncLooked ==
  ASSUME DecheckAssumption, NEW T \in Tids, NEW K \in Tids,
         NEW n, n = CommonLength(K, T)
  PROVE  Dag(T, n) = synch_depths[LcaPath(K, n)] /\ Dag(T, n) = Dag(K, n)
<1>1. n \in 0 .. TreeDepth /\ n <= K.tree /\ Agree(K, T, n)
  BY CommonFacts
<1>2. K.tree \in 0 .. TreeDepth /\ TreeDepth \in Nat
  BY Numbers
<1>3. Strand(K, n) = Strand(T, n)
  BY <1>1, SameStrand
<1>4. \A b \in 0 .. TreeDepth : b < n => b <= K.tree
  BY <1>1, <1>2
<1>5. K.path \subseteq 0 .. TreeDepth
  BY DEF Tids, Words
<1>6. LcaPath(K, n) = Strand(K, n)
  BY <1>4, <1>5 DEF LcaPath, Strand, norm_path
<1> QED
  BY <1>3, <1>6 DEF Dag

\* The common length does not depend on the order of the two.
LEMMA CommonSymmetric ==
  ASSUME NEW T \in Tids, NEW K \in Tids
  PROVE  CommonLength(T, K) = CommonLength(K, T)
<1>1. {T.tree, K.tree} = {K.tree, T.tree}
  OBVIOUS
<1>2. PICK both : both = Min({T.tree, K.tree})
  OBVIOUS
<1>3. {b \in norm_path(T) \ norm_path(K) : b < both} \union
      {b \in norm_path(K) \ norm_path(T) : b < both} \union {both} =
      {b \in norm_path(K) \ norm_path(T) : b < both} \union
      {b \in norm_path(T) \ norm_path(K) : b < both} \union {both}
  OBVIOUS
<1> QED
  BY <1>1, <1>2, <1>3, Zenon DEF CommonLength

\* The strand of an object that was not allocated before parts from that of
\* the thread above the depth of its heap.
LEMMA PartBelow ==
  ASSUME DecheckAssumption, DecheckTypeOK,
         NEW pos \in Positions, NEW base \in Depths, Inv(pos, base),
         NEW t \in Threads, Running(t), NEW o \in Items, object[o] # Bogus,
         NEW T, T = thread[t].tid, NEW K, K = object[o].tid,
         NEW a, a = object[o].owner, NEW D, D = object[o].depth,
         ~Above(pos[a], D, T), NEW n, n = CommonLength(K, T)
  PROVE  n < D - 1 /\ n < K.tree /\ n < T.tree
<1>1. /\ T \in Tids /\ T = pos[t] /\ K \in Tids /\ a \in Threads /\ D \in 1 .. TreeDepth + 1
      /\ Live(t) /\ Live(a) /\ Placed(pos, base, a, D, K)
  BY Looked
<1>2. PICK A, m : A = pos[a] /\ m = D - 1
  OBVIOUS
<1>3. /\ A \in Tids /\ A.tree \in 0 .. TreeDepth /\ T.tree \in 0 .. TreeDepth
      /\ K.tree \in 0 .. TreeDepth /\ TreeDepth \in Nat
  <2>1. A \in Tids
    BY <1>1, <1>2 DEF Positions
  <2> QED
    BY <1>1, <2>1, Numbers
<1>4. m \in 0 .. TreeDepth /\ m \in Int
  BY <1>1, <1>2, <1>3
<1>5. m <= A.tree /\ m <= K.tree /\ Agree(K, A, m)
  <2>1. D <= A.tree + 1 /\ D - 1 <= K.tree /\ Agree(K, A, D - 1)
    BY <1>1, <1>2 DEF Placed
  <2>2. m <= A.tree
    BY <1>1, <1>2, <1>3, <2>1
  <2> QED
    BY <1>2, <2>1, <2>2
<1>7. /\ n \in 0 .. TreeDepth
      /\ \A b \in 0 .. TreeDepth :
           b < K.tree /\ b < T.tree /\ ~(b \in K.path <=> b \in T.path) => n <= b
  BY <1>1, CommonFacts
<1>11. ~(m <= T.tree /\ Agree(A, T, m))
  BY <1>2 DEF Above
<1>12. n < m /\ n < K.tree /\ n < T.tree
  <2>1. a # t
    <3>1. ASSUME a = t PROVE FALSE
      <4>1. A = T
        BY <1>1, <1>2, <3>1
      <4> QED
        BY <1>5, <1>11, <4>1 DEF Agree
    <3> QED
      BY <3>1
  <2>2. PICK c \in 0 .. TreeDepth : c < m /\ c < T.tree /\ ~(c \in A.path <=> c \in T.path)
    <3>1. CASE m <= T.tree
      <4>1. PICK c \in 0 .. TreeDepth : c < m /\ ~(c \in A.path <=> c \in T.path)
        BY <1>11, <3>1 DEF Agree
      <4>2. c < T.tree
        BY <1>3, <1>4, <3>1, <4>1
      <4> QED
        BY <4>1, <4>2
    <3>2. CASE ~(m <= T.tree)
      <4>1. Apart(A, T)
        BY <1>1, <1>2, <2>1 DEF Inv, ApartInv
      <4>2. PICK c \in 0 .. TreeDepth : c < T.tree /\ ~(c \in A.path <=> c \in T.path)
        BY <4>1 DEF Apart
      <4>3. c < m
        BY <1>3, <1>4, <3>2, <4>2
      <4> QED
        BY <4>2, <4>3
    <3> QED
      BY <3>1, <3>2
  <2>3. c < K.tree /\ ~(c \in K.path <=> c \in T.path)
    <3>1. c < K.tree
      BY <1>3, <1>4, <1>5, <2>2
    <3> QED
      BY <1>5, <2>2, <3>1 DEF Agree
  <2>4. n <= c
    BY <1>7, <2>2, <2>3
  <2> QED
    BY <1>3, <1>4, <1>5, <1>7, <2>2, <2>3, <2>4
<1> QED
  BY <1>2, <1>12

\* The check says what BeforeInv says of the objects allocated before.
LEMMA OrderedIsAbove ==
  ASSUME DecheckAssumption, DecheckTypeOK,
         NEW pos \in Positions, NEW base \in Depths, Inv(pos, base),
         NEW t \in Threads, Running(t), NEW o \in Items, object[o] # Bogus,
         NEW T, T = thread[t].tid, NEW K, K = object[o].tid,
         NEW a, a = object[o].owner, NEW D, D = object[o].depth
  PROVE  decheckIsOrdered(t, K) <=> Above(pos[a], D, T)
<1>1. /\ T \in Tids /\ T = pos[t] /\ K \in Tids /\ a \in Threads /\ D \in 1 .. TreeDepth + 1
      /\ Live(t) /\ Live(a) /\ Placed(pos, base, a, D, K)
      /\ \A d \in 0 .. T.tree : thread[t].sync[d] = Dag(T, d)
      /\ \A u \in Threads : Live(u) =>
           \A d, e \in 0 .. pos[u].tree : d < e => Dag(pos[u], d) < Dag(pos[u], e)
  BY Looked
<1>2. PICK A, m : A = pos[a] /\ m = D - 1
  OBVIOUS
<1>3. /\ A \in Tids /\ A.tree \in 0 .. TreeDepth /\ T.tree \in 0 .. TreeDepth
      /\ K.tree \in 0 .. TreeDepth /\ K.dag \in 0 .. DagDepth /\ TreeDepth \in Nat /\ DagDepth \in Nat
  <2>1. A \in Tids
    BY <1>1, <1>2 DEF Positions
  <2> QED
    BY <1>1, <2>1, Numbers
<1>4. m \in 0 .. TreeDepth /\ D - 2 = m - 1 /\ (D >= 2 <=> m >= 1) /\ m \in Int
  BY <1>1, <1>2, <1>3
<1>5. /\ m <= A.tree /\ K.tree \in K.path /\ m <= K.tree /\ Agree(K, A, m)
      /\ K.dag <= Dag(A, m)
      /\ m >= 1 => Dag(A, m - 1) < K.dag
  <2>1. /\ D <= A.tree + 1 /\ K.tree \in K.path /\ D - 1 <= K.tree /\ Agree(K, A, D - 1)
        /\ K.dag <= Dag(A, D - 1)
        /\ D >= 2 => Dag(A, D - 2) < K.dag
    BY <1>1, <1>2 DEF Placed
  <2>2. m <= A.tree
    BY <1>1, <1>2, <1>3, <2>1
  <2> QED
    BY <1>2, <1>4, <2>1, <2>2
<1>6. PICK n : n = CommonLength(K, T)
  OBVIOUS
<1>7. /\ n \in 0 .. TreeDepth /\ n <= K.tree /\ n <= T.tree
      /\ Agree(K, T, n)
      /\ \A b \in 0 .. TreeDepth :
           b < K.tree /\ b < T.tree /\ ~(b \in K.path <=> b \in T.path) => n <= b
      /\ n < K.tree /\ n < T.tree => ~(n \in K.path <=> n \in T.path)
  BY <1>1, <1>6, CommonFacts
<1>8. n \in Int /\ n \in 0 .. T.tree /\ thread[t].sync[n] = Dag(T, n) /\ Dag(T, n) = Dag(K, n)
  <2>1. n \in Int /\ n \in 0 .. T.tree
    BY <1>3, <1>7
  <2>2. Dag(T, n) = Dag(K, n)
    BY <1>1, <1>6, SyncLooked
  <2> QED
    BY <1>1, <2>1, <2>2
<1>9. decheckIsOrdered(t, K) <=>
        \/ norm_path(K) = norm_path(T)
        \/ norm_path(K) = LcaPath(K, n)
        \/ K.dag <= thread[t].sync[n]
  BY <1>6 DEF decheckIsOrdered
<1>10. ASSUME m <= T.tree, Agree(A, T, m) PROVE K.dag <= thread[t].sync[n]
  <2>1. Agree(K, T, m)
    BY <1>4, <1>5, <1>10, AgreeFacts
  <2>2. m <= n
    <3>1. CASE n < m
      <4>1. n < K.tree /\ n < T.tree
        BY <1>3, <1>4, <1>5, <1>8, <1>10, <3>1
      <4> QED
        BY <1>7, <2>1, <3>1, <4>1 DEF Agree
    <3> QED
      BY <1>4, <1>8, <3>1
  <2>3. m \in 0 .. T.tree
    BY <1>3, <1>4, <1>10
  <2>4. Dag(T, m) <= Dag(T, n)
    <3>1. \A d, e \in 0 .. T.tree : d < e => Dag(T, d) < Dag(T, e)
      BY <1>1
    <3> QED
      BY <1>1, <1>8, <2>2, <2>3, <3>1, DagGrows
  <2>5. Dag(A, m) = Dag(T, m)
    <3>1. Strand(A, m) = Strand(T, m)
      BY <1>1, <1>3, <1>4, <1>10, SameStrand
    <3> QED
      BY <3>1 DEF Dag
  <2>6. Dag(A, m) \in Int /\ Dag(T, n) \in Int /\ K.dag \in Int
    BY <1>1, <1>3, <1>4, <1>7, DagIsNumber
  <2> QED
    BY <1>5, <1>8, <2>4, <2>5, <2>6
<1>11. ASSUME ~(m <= T.tree /\ Agree(A, T, m)) PROVE ~decheckIsOrdered(t, K)
  <2>1. ~Above(A, D, T)
    BY <1>2, <1>11 DEF Above
  <2>5. n < m /\ n < K.tree /\ n < T.tree /\ m >= 1 /\ n <= m - 1
    <3>1. n < m /\ n < K.tree /\ n < T.tree
      BY <1>1, <1>2, <1>6, <2>1, PartBelow
    <3> QED
      BY <1>4, <1>7, <3>1
  <2>6. norm_path(K) # norm_path(T)
    <3>1. n <= K.tree /\ n <= T.tree /\ ~(n \in K.path <=> n \in T.path)
      BY <1>7, <2>5
    <3> QED
      BY <3>1 DEF norm_path
  <2>7. norm_path(K) # LcaPath(K, n)
    <3>1. K.tree \in norm_path(K)
      BY <1>3, <1>5 DEF norm_path
    <3>2. ~(K.tree < n) /\ K.tree # n
      BY <1>3, <1>8, <2>5
    <3> QED
      BY <3>1, <3>2 DEF LcaPath
  <2>8. Dag(K, n) = Dag(A, n)
    <3>1. Agree(K, A, n)
      <4>1. n <= m
        BY <1>4, <1>8, <2>5
      <4> QED
        BY <1>4, <1>5, <1>8, <4>1, AgreeFacts
    <3>2. Strand(K, n) = Strand(A, n)
      BY <1>1, <1>3, <1>7, <3>1, SameStrand
    <3> QED
      BY <3>2 DEF Dag
  <2>9. Dag(A, n) <= Dag(A, m - 1)
    <3>1. \A d, e \in 0 .. A.tree : d < e => Dag(A, d) < Dag(A, e)
      BY <1>1, <1>2
    <3>2. PICK k : k = m - 1
      OBVIOUS
    <3>3. n \in 0 .. A.tree /\ k \in 0 .. A.tree /\ n <= k
      BY <1>3, <1>4, <1>5, <1>7, <2>5, <3>2
    <3>4. Dag(A, n) <= Dag(A, k)
      BY <1>3, <3>1, <3>3, DagGrows
    <3> QED
      BY <3>2, <3>4
  <2>10. ~(K.dag <= Dag(A, n))
    <3>1. PICK k : k = m - 1
      OBVIOUS
    <3>2. k \in 0 .. TreeDepth
      BY <1>4, <2>5, <3>1
    <3>3. Dag(A, k) \in Int /\ Dag(A, n) \in Int /\ K.dag \in Int
      BY <1>3, <1>7, <3>2, DagIsNumber
    <3>4. Dag(A, k) < K.dag /\ Dag(A, n) <= Dag(A, k)
      BY <1>5, <2>5, <2>9, <3>1
    <3> QED
      BY <3>3, <3>4
  <2> QED
    BY <1>8, <1>9, <2>6, <2>7, <2>8, <2>10
<1>12. Above(A, D, T) <=> m <= T.tree /\ Agree(A, T, m)
  BY <1>2 DEF Above
<1> QED
  BY <1>2, <1>9, <1>10, <1>11, <1>12

\* What the check does not find ordered parts there.
LEMMA NotOrdered ==
  ASSUME DecheckAssumption, DecheckTypeOK,
         NEW pos \in Positions, NEW base \in Depths, Inv(pos, base),
         NEW t \in Threads, Running(t), NEW o \in Items, object[o] # Bogus,
         NEW T, T = thread[t].tid, NEW K, K = object[o].tid, NEW D, D = object[o].depth,
         ~decheckIsOrdered(t, K), NEW n, n = CommonLength(K, T)
  PROVE  n < D - 1 /\ n < K.tree /\ n < T.tree
<1>1. PICK a : a = object[o].owner
  OBVIOUS
<1>2. ~Above(pos[a], D, T)
  BY <1>1, OrderedIsAbove
<1> QED
  BY <1>1, <1>2, PartBelow

\* The invariant implies that the check is exact, and its assertion.
LEMMA InvOrders == ASSUME DecheckAssumption, IInv PROVE OrderedIsBefore
<1>1. DecheckTypeOK
  BY DEF IInv
<1>2. PICK pos \in Positions, base \in Depths : Inv(pos, base)
  BY DEF IInv
<1>3. ASSUME NEW t \in Threads, Running(t), NEW o \in Allocated
      PROVE  decheckIsOrdered(t, object[o].tid) <=> o \in before[t]
  <2>1. PICK T, K, a, D : /\ T = thread[t].tid /\ K = object[o].tid
                          /\ a = object[o].owner /\ D = object[o].depth
    OBVIOUS
  <2>2. o \in Items /\ object[o] # Bogus
    BY DEF Allocated
  <2>3. decheckIsOrdered(t, K) <=> Above(pos[a], D, T)
    BY <1>1, <1>2, <1>3, <2>1, <2>2, OrderedIsAbove
  <2>4. T = pos[t] /\ Live(t)
    BY <1>1, <1>2, <1>3, <2>1, <2>2, Looked
  <2>5. o \in before[t] <=> Above(pos[a], D, T)
    BY <1>2, <2>1, <2>2, <2>4 DEF Inv, BeforeInv
  <2> QED
    BY <2>1, <2>3, <2>5
<1>4. ASSUME NEW t \in Threads, Running(t), NEW o \in Allocated,
             NEW n, n = CommonLength(object[o].tid, thread[t].tid)
      PROVE  thread[t].sync[n] = synch_depths[LcaPath(object[o].tid, n)]
  <2>1. PICK T, K, a, D : /\ T = thread[t].tid /\ K = object[o].tid
                          /\ a = object[o].owner /\ D = object[o].depth
    OBVIOUS
  <2>2. o \in Items /\ object[o] # Bogus
    BY DEF Allocated
  <2>3. /\ T \in Tids /\ K \in Tids
        /\ \A d \in 0 .. T.tree : thread[t].sync[d] = Dag(T, d)
    BY <1>1, <1>2, <1>4, <2>1, <2>2, Looked
  <2>4. n = CommonLength(K, T)
    BY <1>4, <2>1
  <2>5. n \in 0 .. TreeDepth /\ n <= T.tree
    BY <2>3, <2>4, CommonFacts
  <2>6. n \in 0 .. T.tree
    BY <2>3, <2>5, Numbers
  <2>7. Dag(T, n) = synch_depths[LcaPath(K, n)]
    BY <2>3, <2>4, SyncLooked
  <2> QED
    BY <2>1, <2>3, <2>6, <2>7
<1>5. OrderedExactly
  BY <1>3 DEF OrderedExactly
<1>6. SyncDepthsAgree
  BY <1>4 DEF SyncDepthsAgree
<1> QED
  BY <1>5, <1>6 DEF OrderedIsBefore

-------------------------------------------------------------------------------
(* The heaps that a thread sees *)

HeapDepths == 1 .. TreeDepth + 2
AllDepths == 0 .. TreeDepth + 2    \* as HeapAt has them

\* Whether t is the thread that has the heap of depth d for u.
Has(pos, base, t, d, u) == Live(t) /\ base[t] < d /\ Agree(pos[t], pos[u], d - 1)

\* A thread sees its own heaps below the depth at which it was forked.
LEMMA OwnFacts ==
  ASSUME DecheckAssumption, DecheckTypeOK,
         NEW pos \in Positions, NEW base \in Depths, Inv(pos, base), LineInv(pos, base),
         NEW u \in Threads, Live(u), NEW d \in AllDepths
  PROVE  /\ u # RootThread \/ d # 0 => (IsOwn(u, d) <=> base[u] < d)
         /\ u = RootThread => IsOwn(u, d)
         /\ ~IsOwn(u, d) => \E x \in Threads :
              x = thread[u].parent /\ Live(x) /\ base[x] < base[u] /\ Agree(pos[x], pos[u], d - 1)
<1>1. d \in Nat /\ base[u] \in 0 .. TreeDepth /\ TreeDepth \in Nat
  BY DEF AllDepths, Depths, DecheckAssumption
<1>2. CASE u = RootThread
  <2>1. thread[u].parent = Bogus /\ base[u] = 0
    BY <1>2 DEF LineInv, ParentInv
  <2>2. IsOwn(u, d)
    BY <2>1 DEF IsOwn
  <2>3. d # 0 => base[u] < d
    BY <1>1, <2>1
  <2> QED
    BY <1>2, <2>2, <2>3
<1>3. CASE u # RootThread
  <2>1. PICK x : x = thread[u].parent
    OBVIOUS
  <2>2. IsChild(base, u, x)
    BY <1>3, <2>1 DEF LineInv, ParentInv
  <2>3. x \in Threads
    BY <2>2 DEF IsChild
  <2>4. PICK i \in 1 .. Len(join[x]) :
          join[x][i].thread = u /\ join[x][i].tidRight.tree = base[u]
    BY <2>2 DEF IsChild
  <2>5. PICK k : k = CHOOSE j \in 1 .. Len(join[x]) : join[x][j].thread = u
    OBVIOUS
  <2>6. k \in 1 .. Len(join[x]) /\ join[x][k].thread = u
    BY <2>4, <2>5, Zenon
  <2>7. k = i
    BY <2>3, <2>4, <2>6 DEF Inv, ForkInv
  <2>8. x # Bogus
    BY <2>3 DEF DecheckAssumption
  <2>9. IsOwn(u, d) <=> base[u] < d
    BY <2>1, <2>4, <2>5, <2>7, <2>8 DEF IsOwn
  <2>10. PICK W : W = join[x][i].tidRight
    OBVIOUS
  <2>11. Forked(pos, base, x, i, u, W)
    BY <2>3, <2>4, <2>10 DEF Inv, ForkInv
  <2>12. base[u] = base[x] + i /\ Agree(pos[u], pos[x], base[u] - 1)
    BY <2>11 DEF Forked
  <2>13. base[x] < base[u]
    <3>1. base[x] \in Int /\ i \in Int /\ i >= 1
      BY <2>3 DEF Depths
    <3> QED
      BY <2>12, <3>1
  <2>14. Live(x)
    <3>1. join[x] # <<>>
      <4>1. Len(join[x]) \in Nat
        BY <2>3, TypesOf
      <4>2. Len(join[x]) # 0
        BY <4>1, <2>4
      <4> QED
        BY <4>2
    <3> QED
      BY <2>3, <3>1 DEF Inv, ThreadInv, Running, Live
  <2>15. ASSUME ~(base[u] < d) PROVE Agree(pos[x], pos[u], d - 1)
    <3>1. d - 1 <= base[u] - 1 /\ d - 1 \in Int /\ base[u] - 1 \in Int
      BY <1>1, <2>15
    <3> QED
      BY <2>12, <3>1, AgreeFacts
  <2> QED
    BY <1>3, <2>1, <2>3, <2>9, <2>13, <2>14, <2>15
<1> QED
  BY <1>2, <1>3

\* Every thread has, for every depth, one thread that has its heap.
LEMMA SomeoneHas ==
  ASSUME DecheckAssumption, DecheckTypeOK,
         NEW pos \in Positions, NEW base \in Depths, Inv(pos, base), LineInv(pos, base),
         NEW u \in Threads, Live(u), NEW d \in HeapDepths
  PROVE  \E t \in Threads : Has(pos, base, t, d, u)
<1>1. PICK S : S = {n \in Nat : \E t \in Threads :
                      Live(t) /\ Agree(pos[t], pos[u], d - 1) /\ base[t] = n}
  OBVIOUS
<1>2. base[u] \in S
  BY <1>1 DEF Agree, Depths
<1>3. PICK m : m \in S /\ \A y \in S : m <= y
  <2>1. S \in SUBSET Nat /\ S # {}
    BY <1>1, <1>2
  <2> QED
    BY <2>1, MinFacts
<1>4. PICK t \in Threads : Live(t) /\ Agree(pos[t], pos[u], d - 1) /\ base[t] = m
  BY <1>1, <1>3
<1>5. ASSUME ~(base[t] < d) PROVE FALSE
  <2>1. PICK x \in Threads : Live(x) /\ base[x] < base[t] /\ Agree(pos[x], pos[t], d - 1)
    <3>1. d \in AllDepths /\ d # 0
      BY DEF AllDepths, HeapDepths, DecheckAssumption
    <3> QED
      BY <1>4, <1>5, <3>1, OwnFacts
  <2>2. d - 1 \in Int
    BY DEF HeapDepths, DecheckAssumption
  <2>3. Agree(pos[x], pos[u], d - 1)
    BY <1>4, <2>1, <2>2, AgreeFacts
  <2>4. base[x] \in Nat /\ base[t] \in Nat
    BY DEF Depths
  <2>5. base[x] \in S
    BY <1>1, <2>1, <2>3, <2>4
  <2> QED
    BY <1>3, <1>4, <2>1, <2>4, <2>5
<1> QED
  BY <1>4, <1>5 DEF Has

LEMMA NobodyElseHas ==
  ASSUME DecheckAssumption, NEW pos \in Positions, NEW base \in Depths,
         LineInv(pos, base),
         NEW u \in Threads, NEW v \in Threads, NEW d \in HeapDepths,
         NEW s \in Threads, NEW t \in Threads,
         Has(pos, base, s, d, u), Has(pos, base, t, d, v), Agree(pos[u], pos[v], d - 1)
  PROVE  s = t
<1>1. d \in Nat /\ d - 1 \in Int
  BY DEF HeapDepths, DecheckAssumption
<1>2. Agree(pos[s], pos[t], d - 1)
  <2>1. Agree(pos[s], pos[u], d - 1) /\ Agree(pos[t], pos[v], d - 1)
    BY DEF Has
  <2>2. Agree(pos[s], pos[v], d - 1)
    BY <1>1, <2>1, AgreeFacts
  <2>3. Agree(pos[v], pos[t], d - 1)
    BY <1>1, <2>1, AgreeFacts
  <2> QED
    BY <1>1, <2>2, <2>3, AgreeFacts
<1>3. ASSUME s # t PROVE FALSE
  <2>1. Part(pos, base, s, t)
    BY <1>3 DEF Has, LineInv, PartInv
  <2>2. PICK b \in 0 .. TreeDepth :
          /\ b < base[s] \/ b < base[t]
          /\ ~(b \in pos[s].path <=> b \in pos[t].path)
    BY <2>1 DEF Part
  <2>3. base[s] \in Int /\ base[t] \in Int /\ base[s] < d /\ base[t] < d
    BY DEF Depths, Has
  <2>4. b < d - 1
    BY <1>1, <2>2, <2>3
  <2> QED
    BY <1>2, <2>2, <2>4 DEF Agree
<1> QED
  BY <1>3

\* The recursion of HeapAt has a solution, so HeapAt is one.
HeapStep(F, t, depth) == IF IsOwn(t, depth) THEN t ELSE F[thread[t].parent][depth]
IsSolution(F) ==
  F = [t \in Threads |-> [depth \in 0 .. TreeDepth + 2 |-> HeapStep(F, t, depth)]]

LEMMA HeapAtChosen == HeapAt = CHOOSE F : IsSolution(F)
BY DEF HeapAt, IsSolution, HeapStep

LEMMA HeapAtSolves ==
  ASSUME DecheckAssumption, DecheckTypeOK,
         NEW pos \in Positions, NEW base \in Depths, Inv(pos, base), LineInv(pos, base),
         \A u \in Threads : ~Live(u) => thread[u].parent = Bogus
  PROVE  IsSolution(HeapAt)
<1> DEFINE Owner(u, d) ==
             IF ~Live(u) THEN u
             ELSE IF d = 0 THEN RootThread
             ELSE CHOOSE t \in Threads : Has(pos, base, t, d, u)
<1>1. PICK F : F = [u \in Threads |-> [d \in AllDepths |-> Owner(u, d)]]
  OBVIOUS
<1>2. ASSUME NEW u \in Threads, NEW d \in AllDepths PROVE Owner(u, d) = HeapStep(F, u, d)
  <2>1. CASE ~Live(u)
    <3>1. IsOwn(u, d)
      BY <2>1 DEF IsOwn
    <3> QED
      BY <2>1, <3>1 DEF HeapStep
  <2>3. CASE Live(u) /\ d = 0
    <3>1. CASE u = RootThread
      <4>1. IsOwn(u, d)
        BY <2>3, <3>1, OwnFacts
      <4> QED
        BY <2>3, <3>1, <4>1 DEF HeapStep
    <3>2. CASE u # RootThread
      <4>1. ~(base[u] < 0)
        BY DEF Depths
      <4>2. ~IsOwn(u, d)
        BY <2>3, <3>2, <4>1, OwnFacts
      <4>3. PICK x \in Threads : x = thread[u].parent /\ Live(x)
        BY <2>3, <4>2, OwnFacts
      <4>4. F[x][d] = RootThread
        BY <1>1, <2>3, <4>3
      <4> QED
        BY <2>3, <4>2, <4>3, <4>4 DEF HeapStep
    <3> QED
      BY <3>1, <3>2
  <2>2. CASE Live(u) /\ d # 0
    <3>d. d \in HeapDepths
      BY <2>2 DEF AllDepths, HeapDepths, DecheckAssumption
    <3>1. Owner(u, d) \in Threads /\ Has(pos, base, Owner(u, d), d, u)
      BY <2>2, <3>d, SomeoneHas
    <3>2. d - 1 \in Int
      BY DEF AllDepths, DecheckAssumption
    <3>3. CASE IsOwn(u, d)
      <4>1. Has(pos, base, u, d, u)
        BY <2>2, <3>3, OwnFacts DEF Has, Agree
      <4>2. Agree(pos[u], pos[u], d - 1)
        BY DEF Agree
      <4>3. Owner(u, d) = u
        <5> HIDE DEF Owner
        <5> QED
          BY <3>d, <3>1, <4>1, <4>2, NobodyElseHas
      <4> QED
        BY <3>3, <4>3 DEF HeapStep
    <3>4. CASE ~IsOwn(u, d)
      <4>1. PICK x \in Threads : x = thread[u].parent /\ Live(x) /\ Agree(pos[x], pos[u], d - 1)
        BY <2>2, <3>4, OwnFacts
      <4>2. Owner(x, d) \in Threads /\ Has(pos, base, Owner(x, d), d, x)
        BY <2>2, <3>d, <4>1, SomeoneHas
      <4>3. Owner(x, d) = Owner(u, d)
        <5> HIDE DEF Owner
        <5> QED
          BY <3>d, <3>1, <4>1, <4>2, NobodyElseHas
      <4>4. F[x][d] = Owner(x, d)
        BY <1>1
      <4> QED
        BY <3>4, <4>1, <4>3, <4>4 DEF HeapStep
    <3> QED
      BY <3>3, <3>4
  <2> QED
    BY <2>1, <2>2, <2>3
<1> HIDE DEF Owner
<1>3. IsSolution(F)
  BY <1>1, <1>2 DEF IsSolution, AllDepths
<1> QED
  BY <1>3, HeapAtChosen

\* HeapAt leads to the thread that has the heap.
LEMMA HeapAtHas ==
  ASSUME DecheckAssumption, DecheckTypeOK,
         NEW pos \in Positions, NEW base \in Depths, Inv(pos, base), LineInv(pos, base),
         IsSolution(HeapAt), NEW d \in HeapDepths, NEW u \in Threads, Live(u)
  PROVE  HeapAt[u][d] \in Threads /\ Has(pos, base, HeapAt[u][d], d, u)
<1>0. d \in AllDepths /\ d # 0
  BY DEF AllDepths, HeapDepths, DecheckAssumption
<1> DEFINE Good(v) == HeapAt[v][d] \in Threads /\ Has(pos, base, HeapAt[v][d], d, v)
<1>1. PICK S : S = {n \in Nat : \E v \in Threads : Live(v) /\ ~Good(v) /\ base[v] = n}
  OBVIOUS
<1>2. S = {}
  <2> SUFFICES ASSUME S # {} PROVE FALSE
    OBVIOUS
  <2>1. PICK m : m \in S /\ \A y \in S : m <= y
    <3>1. S \in SUBSET Nat
      BY <1>1
    <3> QED
      BY <3>1, MinFacts
  <2>2. PICK v \in Threads : Live(v) /\ ~Good(v) /\ base[v] = m
    BY <1>1, <2>1
  <2>3. HeapAt[v][d] = HeapStep(HeapAt, v, d)
    <3>1. PICK H : H = [t \in Threads |-> [depth \in AllDepths |-> HeapStep(HeapAt, t, depth)]]
      OBVIOUS
    <3>2. HeapAt = H
      BY <3>1 DEF IsSolution, AllDepths
    <3>3. H[v][d] = HeapStep(HeapAt, v, d)
      BY <1>0, <3>1
    <3> QED
      BY <3>2, <3>3, Zenon
  <2>4. CASE IsOwn(v, d)
    <3>1. HeapAt[v][d] = v
      BY <2>3, <2>4 DEF HeapStep
    <3>2. Has(pos, base, v, d, v)
      BY <1>0, <2>2, <2>4, OwnFacts DEF Has, Agree
    <3> QED
      BY <2>2, <3>1, <3>2
  <2>5. CASE ~IsOwn(v, d)
    <3>1. PICK x \in Threads : /\ x = thread[v].parent /\ Live(x) /\ base[x] < base[v]
                               /\ Agree(pos[x], pos[v], d - 1)
      BY <1>0, <2>2, <2>5, OwnFacts
    <3>2. HeapAt[v][d] = HeapAt[x][d]
      BY <2>3, <2>5, <3>1 DEF HeapStep
    <3>3. base[x] \in Nat /\ base[v] \in Nat
      BY DEF Depths
    <3>4. ~(base[x] \in S)
      BY <2>1, <2>2, <3>1, <3>3
    <3>5. Good(x)
      BY <1>1, <3>1, <3>3, <3>4
    <3>6. d - 1 \in Int
      BY DEF HeapDepths, DecheckAssumption
    <3>7. PICK y : y = HeapAt[v][d]
      OBVIOUS
    <3>8. y \in Threads /\ Has(pos, base, y, d, x)
      BY <3>2, <3>5, <3>7
    <3>9. Has(pos, base, y, d, v)
      BY <3>1, <3>6, <3>8, AgreeFacts DEF Has
    <3> QED
      BY <2>2, <3>7, <3>8, <3>9
  <2> QED
    BY <2>4, <2>5
<1>3. base[u] \in Nat
  BY DEF Depths
<1> QED
  BY <1>1, <1>2, <1>3

-------------------------------------------------------------------------------
(* The depth at which an entangled object is pinned *)

\* Reader and owner see the same heap at the depth at which the object is
\* pinned, and no longer below.
LEMMA LcaOf ==
  ASSUME DecheckAssumption, DecheckTypeOK,
         NEW pos \in Positions, NEW base \in Depths, Inv(pos, base), LineInv(pos, base),
         IsSolution(HeapAt),
         NEW t \in Threads, Running(t), NEW o \in Items, object[o] # Bogus,
         NEW T, T = thread[t].tid, NEW K, K = object[o].tid,
         NEW a, a = object[o].owner, ~decheckIsOrdered(t, K),
         NEW d, d = lcaHeapDepth(T, K)
  PROVE  HeapAt[t][d] = HeapAt[a][d] /\ HeapAt[t][d + 1] # HeapAt[a][d + 1]
<1>1. PICK D, A, n : D = object[o].depth /\ A = pos[a] /\ n = CommonLength(K, T)
  OBVIOUS
<1>2. /\ T \in Tids /\ T = pos[t] /\ K \in Tids /\ a \in Threads /\ D \in 1 .. TreeDepth + 1
      /\ Live(t) /\ Live(a) /\ Placed(pos, base, a, D, K)
  BY <1>1, Looked
<1>3. A \in Tids
  BY <1>1, <1>2 DEF Positions
<1>4. /\ T.tree \in 0 .. TreeDepth /\ K.tree \in 0 .. TreeDepth /\ A.tree \in 0 .. TreeDepth
      /\ TreeDepth \in Nat
  BY <1>2, <1>3, Numbers
<1>5. D <= A.tree + 1 /\ Agree(K, A, D - 1)
  BY <1>1, <1>2 DEF Placed
<1>6. /\ n \in 0 .. TreeDepth /\ Agree(K, T, n)
      /\ n < K.tree /\ n < T.tree => ~(n \in K.path <=> n \in T.path)
      /\ \A b \in 0 .. TreeDepth :
           b < K.tree /\ b < T.tree /\ ~(b \in K.path <=> b \in T.path) => n <= b
  BY <1>1, <1>2, CommonFacts
<1>7. n < D - 1 /\ n < K.tree /\ n < T.tree
  BY <1>1, <1>2, NotOrdered
<1>8. d = n + 1 /\ d \in HeapDepths /\ d + 1 \in HeapDepths /\ d - 1 = n /\ (d + 1) - 1 = n + 1
  <2>1. norm_path(T) # norm_path(K)
    BY DEF decheckIsOrdered
  <2>2. CommonLength(T, K) = n
    BY <1>1, <1>2, CommonSymmetric
  <2>3. d = n + 1
    BY <2>1, <2>2 DEF lcaHeapDepth
  <2> QED
    BY <1>4, <1>6, <2>3 DEF HeapDepths
<1>9. Agree(T, A, n)
  <2>1. n <= D - 1 /\ D - 1 \in Int /\ n \in Int
    BY <1>2, <1>4, <1>6, <1>7
  <2> QED
    BY <1>5, <1>6, <2>1, AgreeFacts
<1>10. ~Agree(T, A, n + 1)
  <2>1. n \in K.path <=> n \in A.path
    BY <1>5, <1>6, <1>7 DEF Agree
  <2>2. ~(n \in T.path <=> n \in A.path)
    BY <1>6, <1>7, <2>1
  <2>3. n < n + 1
    BY <1>6
  <2> QED
    BY <1>6, <2>2, <2>3 DEF Agree
<1>11. HeapAt[t][d] = HeapAt[a][d]
  <2>1. PICK x, y : x = HeapAt[t][d] /\ y = HeapAt[a][d]
    OBVIOUS
  <2>2. x \in Threads /\ y \in Threads /\ Has(pos, base, x, d, t) /\ Has(pos, base, y, d, a)
    BY <1>2, <1>8, <2>1, HeapAtHas
  <2>3. Agree(pos[t], pos[a], d - 1)
    BY <1>1, <1>2, <1>8, <1>9
  <2>4. x = y
    BY <1>2, <1>8, <2>2, <2>3, NobodyElseHas
  <2> QED
    BY <2>1, <2>4
<1>12. ASSUME HeapAt[t][d + 1] = HeapAt[a][d + 1] PROVE FALSE
  <2>1. PICK x, e : x = HeapAt[t][d + 1] /\ e = d + 1
    OBVIOUS
  <2>2. x \in Threads /\ Has(pos, base, x, e, t) /\ Has(pos, base, x, e, a)
    BY <1>2, <1>8, <1>12, <2>1, HeapAtHas
  <2>3. Agree(pos[x], T, n + 1) /\ Agree(pos[x], A, n + 1)
    BY <1>1, <1>2, <1>8, <2>1, <2>2 DEF Has
  <2>4. n + 1 \in Int
    BY <1>6
  <2>5. Agree(T, pos[x], n + 1)
    BY <2>3, <2>4, AgreeFacts
  <2>6. Agree(T, A, n + 1)
    BY <2>3, <2>4, <2>5, AgreeFacts
  <2> QED
    BY <1>10, <2>6
<1> QED
  BY <1>11, <1>12

LEMMA InvLca == ASSUME DecheckAssumption, IInv PROVE LcaIsShared
<1>1. DecheckTypeOK
  BY DEF IInv
<1>2. PICK pos \in Positions, base \in Depths : Inv(pos, base) /\ LineInv(pos, base)
  BY DEF IInv
<1>3. IsSolution(HeapAt)
  <2>1. \A u \in Threads : ~Live(u) => thread[u].parent = Bogus
    BY <1>2 DEF LineInv, ParentInv
  <2> QED
    BY <1>1, <1>2, <2>1, HeapAtSolves
<1>4. ASSUME NEW t \in Threads, Running(t), NEW o \in Allocated \ before[t],
             NEW d, d = lcaHeapDepth(thread[t].tid, object[o].tid)
      PROVE  /\ HeapAt[t][d] = HeapAt[object[o].owner][d]
             /\ HeapAt[t][d + 1] # HeapAt[object[o].owner][d + 1]
  <2>1. PICK T, K, a : T = thread[t].tid /\ K = object[o].tid /\ a = object[o].owner
    OBVIOUS
  <2>2. o \in Items /\ object[o] # Bogus
    BY DEF Allocated
  <2>3. ~decheckIsOrdered(t, K)
    <3>1. OrderedIsBefore
      BY InvOrders
    <3> QED
      BY <1>4, <2>1, <3>1 DEF OrderedIsBefore, OrderedExactly
  <2>4. d = lcaHeapDepth(T, K)
    BY <1>4, <2>1
  <2>5. HeapAt[t][d] = HeapAt[a][d] /\ HeapAt[t][d + 1] # HeapAt[a][d + 1]
    BY <1>1, <1>2, <1>3, <1>4, <2>1, <2>2, <2>3, <2>4, LcaOf
  <2> QED
    BY <2>1, <2>5
<1> QED
  BY <1>4 DEF LcaIsShared

-------------------------------------------------------------------------------
(* The theorems *)

\* In every behaviour the words of the threads name their strands in the
\* tree of forks, and the tid of a chunk one of those of its heap.
THEOREM InvHolds == ASSUME DecheckAssumption PROVE DecheckSpec => []IInv
<1>1. DecheckInit => IInv
  BY InitInv
<1>2. IInv /\ [DecheckNext]_decheckVars => IInv'
  BY StepInv
<1> QED
  BY <1>1, <1>2, PTL DEF DecheckSpec

\* In every behaviour the fields of the threads, the tids of the chunks and
\* the tables of depths have the values of their C types, within the bounds.
THEOREM TypeCorrect == ASSUME DecheckAssumption PROVE DecheckSpec => []DecheckTypeOK
<1>1. IInv => DecheckTypeOK
  BY DEF IInv
<1> QED
  BY <1>1, InvHolds, PTL

\* decheckIsOrdered is exact, for any number of threads and of objects and
\* any depth of forks: whatever was forked, stolen, joined, allocated and
\* collected, it says that an object is ordered just when its allocation
\* precedes what the thread runs, and its assertion on the depths holds.
THEOREM OrderedIsBeforeHolds ==
  ASSUME DecheckAssumption PROVE DecheckSpec => []OrderedIsBefore
<1>1. IInv => OrderedIsBefore
  BY InvOrders
<1> QED
  BY <1>1, InvHolds, PTL

\* lcaHeapDepth, with which manage_entangled pins: at that depth the reader
\* and the owner of an object that is not ordered see one heap, and at the
\* next one they do not.
THEOREM LcaIsSharedHolds ==
  ASSUME DecheckAssumption PROVE DecheckSpec => []LcaIsShared
<1>1. IInv => LcaIsShared
  BY InvLca
<1> QED
  BY <1>1, InvHolds, PTL
===============================================================================
