------------------------ MODULE BlockAllocatorProofs ------------------------
(***************************************************************************)
(* Proofs about BlockAllocator, for any number of processors, superblocks  *)
(* and megablocks, any thresholds and any behaviour of the callers.        *)
(*                                                                         *)
(* IInv says of every superblock that the groups that are away and those   *)
(* in the free list tile what lies before the frontier, of every list that *)
(* it holds the superblocks that belong there, and of every processor in a *)
(* call what it has with it.  The groups that are away are found in one    *)
(* place each, so that each step moves one of them.                        *)
(***************************************************************************)
EXTENDS BlockAllocator, FiniteSetTheorems, SequenceTheorems, NaturalsInduction,
        WellFoundedInduction, TLAPS

-----------------------------------------------------------------------------
(* Lists *)

\* What is in a list.
LEMMA Listed ==
  ASSUME NEW S, NEW s \in Seq(S)
  PROVE  /\ \A x : x \in ToSet(s) <=> \E i \in 1 .. Len(s) : s[i] = x
         /\ \A x : Contains(s, x) <=> x \in ToSet(s)
         /\ ToSet(s) \subseteq S /\ Len(s) \in Nat
<1>1. Len(s) \in Nat /\ DOMAIN s = 1 .. Len(s) /\ s \in [1 .. Len(s) -> S]
  BY LenProperties
<1> QED
  BY <1>1 DEF ToSet, Contains

\* An empty list.
LEMMA EmptyList ==
  /\ ToSet(<<>>) = {} /\ Distinct(<<>>) /\ Len(<<>>) = 0
  /\ \A S : <<>> \in Seq(S)
<1>1. Len(<<>>) = 0 /\ DOMAIN <<>> = {}
  OBVIOUS
<1> QED
  BY <1>1, EmptySeq DEF ToSet, Distinct

\* A list with one more in front, and what is in it.
InFront(x, s) == <<x>> \o s
LEMMA PrependedSet ==
  ASSUME NEW S, NEW s \in Seq(S), NEW x \in S, NEW t, t = InFront(x, s)
  PROVE  \A y : y \in ToSet(t) <=> y \in ToSet(s) \/ y = x
<1>1. <<x>> \in Seq(S) /\ Len(<<x>>) = 1 /\ <<x>>[1] = x /\ Len(s) \in Nat
  BY LenProperties
<1>2. /\ t \in Seq(S) /\ Len(t) = Len(s) + 1
      /\ t[1] = x /\ \A i \in 2 .. Len(s) + 1 : t[i] = s[i - 1]
  <2>1. t = <<x>> \o s
    BY DEF InFront
  <2> QED
    BY <1>1, <2>1, ConcatProperties
<1>a. \A z : z \in ToSet(t) <=> \E i \in 1 .. Len(t) : t[i] = z
  <2>1. t \in Seq(S)
    BY <1>2
  <2> QED
    BY <2>1, Listed, Zenon
<1>3. ASSUME NEW y PROVE y \in ToSet(t) <=> y \in ToSet(s) \/ y = x
  <2>1. ASSUME NEW i \in 1 .. Len(s) PROVE i + 1 \in 2 .. Len(s) + 1 /\ t[i + 1] = s[i]
    BY <1>1, <1>2
  <2>2. ASSUME y \in ToSet(s) PROVE y \in ToSet(t)
    <3>1. PICK i \in 1 .. Len(s) : s[i] = y
      BY <2>2, Listed
    <3>2. i + 1 \in 1 .. Len(t) /\ t[i + 1] = y
      BY <3>1, <2>1, <1>1, <1>2
    <3>3. \E k \in 1 .. Len(t) : t[k] = y
      BY <3>2
    <3> QED
      BY <3>3, <1>a, Zenon
  <2>3. ASSUME y = x PROVE y \in ToSet(t)
    <3>1. 1 \in 1 .. Len(t) /\ t[1] = y
      BY <1>1, <1>2, <2>3
    <3>2. \E i \in 1 .. Len(t) : t[i] = y
      BY <3>1
    <3> QED
      BY <3>2, <1>a, Zenon
  <2>4. ASSUME y \in ToSet(t), y # x PROVE y \in ToSet(s)
    <3>1. PICK i \in 1 .. Len(t) : t[i] = y
      BY <2>4, <1>a
    <3>2. i - 1 \in 1 .. Len(s) /\ s[i - 1] = y
      BY <3>1, <2>4, <1>1, <1>2
    <3> QED
      BY <3>2, Listed
  <2> QED
    BY <2>2, <2>3, <2>4
<1> QED
  BY <1>3

\* Its type, and that it is without repetitions still.
LEMMA Prepended ==
  ASSUME NEW S, NEW s \in Seq(S), NEW x \in S, NEW t, t = InFront(x, s)
  PROVE  /\ t \in Seq(S) /\ Len(t) = Len(s) + 1
         /\ \A y : y \in ToSet(t) <=> y \in ToSet(s) \/ y = x
         /\ Distinct(s) /\ x \notin ToSet(s) => Distinct(t)
<1>1. <<x>> \in Seq(S) /\ Len(<<x>>) = 1 /\ <<x>>[1] = x /\ Len(s) \in Nat
  BY LenProperties
<1>2. /\ t \in Seq(S) /\ Len(t) = Len(s) + 1
      /\ t[1] = x /\ \A i \in 2 .. Len(s) + 1 : t[i] = s[i - 1]
  <2>1. t = <<x>> \o s
    BY DEF InFront
  <2> QED
    BY <1>1, <2>1, ConcatProperties
<1>3. \A y : y \in ToSet(t) <=> y \in ToSet(s) \/ y = x
  BY PrependedSet
<1>4. ASSUME Distinct(s), x \notin ToSet(s) PROVE Distinct(t)
  <2> SUFFICES ASSUME NEW i \in 1 .. Len(t), NEW j \in 1 .. Len(t), t[i] = t[j], i # j
               PROVE  FALSE
    BY DEF Distinct
  <2>0. \A k \in 1 .. Len(s) : s[k] # x
    BY <1>4, Listed
  <2>1. CASE i = 1
    <3>1. j - 1 \in 1 .. Len(s) /\ s[j - 1] = x
      BY <2>1, <1>1, <1>2
    <3> QED
      BY <3>1, <2>0
  <2>2. CASE j = 1
    <3>1. i - 1 \in 1 .. Len(s) /\ s[i - 1] = x
      BY <2>2, <1>1, <1>2
    <3> QED
      BY <3>1, <2>0
  <2>3. CASE i # 1 /\ j # 1
    <3>1. /\ i - 1 \in 1 .. Len(s) /\ j - 1 \in 1 .. Len(s) /\ s[i - 1] = s[j - 1]
          /\ i - 1 # j - 1
      BY <2>3, <1>1, <1>2
    <3> QED
      BY <3>1, <1>4 DEF Distinct
  <2> QED
    BY <2>1, <2>2, <2>3
<1> QED
  BY <1>2, <1>3, <1>4

\* A list without the place i.
LEMMA Removed ==
  ASSUME NEW S, NEW s \in Seq(S), NEW i \in 1 .. Len(s), Distinct(s), NEW t, t = RemoveAt(s, i)
  PROVE  /\ t \in Seq(S) /\ Distinct(t) /\ Len(t) = Len(s) - 1
         /\ ToSet(t) = ToSet(s) \ {s[i]}
<1>0. Len(s) \in Nat /\ \A k \in 1 .. Len(s) : s[k] \in S
  BY LenProperties, ElementOfSeq
<1>1. PICK u : u = SubSeq(s, 1, i - 1)
  OBVIOUS
<1>2. PICK v : v = SubSeq(s, i + 1, Len(s))
  OBVIOUS
<1>3. u \in Seq(S) /\ Len(u) = i - 1 /\ \A k \in 1 .. i - 1 : u[k] = s[k]
  <2>1. /\ 1 \in Int /\ i - 1 \in Int /\ \A k \in 1 .. i - 1 : s[k] \in S
    BY <1>0
  <2>2. /\ u \in Seq(S) /\ Len(u) = (IF 1 <= i - 1 THEN i - 1 - 1 + 1 ELSE 0)
        /\ \A k \in 1 .. i - 1 - 1 + 1 : u[k] = s[1 + k - 1]
    BY <1>1, <2>1, SubSeqProperties
  <2>3. i - 1 - 1 + 1 = i - 1 /\ \A k \in 1 .. i - 1 : 1 + k - 1 = k
    BY <1>0
  <2> QED
    BY <2>2, <2>3
<1>4. v \in Seq(S) /\ Len(v) = Len(s) - i /\ \A k \in 1 .. Len(s) - i : v[k] = s[i + k]
  <2>1. /\ i + 1 \in Int /\ Len(s) \in Int /\ \A k \in i + 1 .. Len(s) : s[k] \in S
    BY <1>0
  <2>2. /\ v \in Seq(S) /\ Len(v) = (IF i + 1 <= Len(s) THEN Len(s) - (i + 1) + 1 ELSE 0)
        /\ \A k \in 1 .. Len(s) - (i + 1) + 1 : v[k] = s[i + 1 + k - 1]
    BY <1>2, <2>1, SubSeqProperties
  <2>3. Len(s) - (i + 1) + 1 = Len(s) - i /\ \A k \in 1 .. Len(s) - i : i + 1 + k - 1 = i + k
    BY <1>0
  <2> QED
    <3>1. Len(v) = Len(s) - i
      <4>1. CASE i + 1 <= Len(s)
        BY <4>1, <2>2, <2>3
      <4>2. CASE ~(i + 1 <= Len(s))
        <5>1. Len(v) = 0
          BY <4>2, <2>2
        <5>2. Len(s) = i
          BY <4>2, <1>0
        <5> QED
          BY <5>1, <5>2
      <4> QED
        BY <4>1, <4>2
    <3>2. ASSUME NEW k \in 1 .. Len(s) - i PROVE v[k] = s[i + k]
      BY <2>2, <2>3
    <3> QED
      BY <3>1, <3>2, <2>2
<1>5. t = u \o v
  BY <1>1, <1>2 DEF RemoveAt
<1>6. /\ t \in Seq(S) /\ Len(t) = Len(u) + Len(v)
      /\ \A k \in 1 .. Len(u) + Len(v) : t[k] = IF k <= Len(u) THEN u[k] ELSE v[k - Len(u)]
  <2>1. u \in Seq(S) /\ v \in Seq(S)
    BY <1>3, <1>4
  <2> QED
    BY <2>1, <1>5, ConcatProperties
<1>7. Len(t) = Len(s) - 1
  BY <1>3, <1>4, <1>6, <1>0
<1>8. ASSUME NEW k \in 1 .. Len(t)
      PROVE  /\ k < i => k \in 1 .. Len(s) /\ t[k] = s[k]
             /\ ~(k < i) => k + 1 \in 1 .. Len(s) /\ t[k] = s[k + 1]
  <2>1. CASE k < i
    BY <2>1, <1>0, <1>3, <1>4, <1>6, <1>7
  <2>2. CASE ~(k < i)
    <3>1. k - (i - 1) \in 1 .. Len(s) - i /\ i + (k - (i - 1)) = k + 1 /\ ~(k <= Len(u))
      BY <2>2, <1>0, <1>3, <1>7
    <3>2. t[k] = v[k - (i - 1)]
      BY <3>1, <1>3, <1>4, <1>6
    <3> QED
      BY <3>1, <3>2, <1>4, <1>7, <1>0, <2>2
  <2> QED
    BY <2>1, <2>2
<1>9. Distinct(t)
  <2> SUFFICES ASSUME NEW k \in 1 .. Len(t), NEW l \in 1 .. Len(t), t[k] = t[l]
               PROVE  k = l
    BY DEF Distinct
  <2>1. CASE k < i /\ l < i
    BY <2>1, <1>8 DEF Distinct
  <2>2. CASE k < i /\ ~(l < i)
    <3>1. k = l + 1
      BY <2>2, <1>8 DEF Distinct
    <3> QED
      BY <3>1, <2>2, <1>0, <1>7
  <2>3. CASE ~(k < i) /\ l < i
    <3>1. k + 1 = l
      BY <2>3, <1>8 DEF Distinct
    <3> QED
      BY <3>1, <2>3, <1>0, <1>7
  <2>4. CASE ~(k < i) /\ ~(l < i)
    <3>1. k + 1 = l + 1
      BY <2>4, <1>8 DEF Distinct
    <3> QED
      BY <3>1, <1>0, <1>7
  <2> QED
    BY <2>1, <2>2, <2>3, <2>4
<1>10. ASSUME NEW x \in ToSet(t) PROVE x \in ToSet(s) /\ x # s[i]
  <2>1. PICK k \in 1 .. Len(t) : t[k] = x
    BY <1>6, <1>10, Listed
  <2>2. CASE k < i
    <3>1. k \in 1 .. Len(s) /\ s[k] = x /\ k # i
      BY <2>1, <2>2, <1>8, <1>0
    <3> QED
      BY <3>1, Listed DEF Distinct
  <2>3. CASE ~(k < i)
    <3>1. k + 1 \in 1 .. Len(s) /\ s[k + 1] = x /\ k + 1 # i
      BY <2>1, <2>3, <1>8, <1>0, <1>7
    <3> QED
      BY <3>1, Listed DEF Distinct
  <2> QED
    BY <2>2, <2>3
<1>11. ASSUME NEW x \in ToSet(s), x # s[i] PROVE x \in ToSet(t)
  <2>1. PICK k \in 1 .. Len(s) : s[k] = x
    BY <1>11, Listed
  <2>2. CASE k < i
    <3>1. k \in 1 .. Len(t) /\ t[k] = x
      BY <2>1, <2>2, <1>8, <1>0, <1>7
    <3> QED
      BY <3>1, <1>6, Listed
  <2>3. CASE k > i
    <3>1. k - 1 \in 1 .. Len(t) /\ ~(k - 1 < i) /\ k - 1 + 1 = k
      BY <2>3, <1>0, <1>7
    <3>2. t[k - 1] = x
      BY <3>1, <2>1, <1>8
    <3> QED
      BY <3>1, <3>2, <1>6, Listed
  <2> QED
    BY <2>1, <2>2, <2>3, <1>11, <1>0
<1> QED
  BY <1>6, <1>7, <1>9, <1>10, <1>11

\* A list without its head.
LEMMA WithoutHead ==
  ASSUME NEW S, NEW s \in Seq(S), s # <<>>
  PROVE  /\ Head(s) \in S /\ Head(s) = s[1] /\ Head(s) \in ToSet(s)
         /\ Tail(s) \in Seq(S) /\ Len(Tail(s)) = Len(s) - 1 /\ Len(s) \in Nat \ {0}
         /\ Distinct(s) => Distinct(Tail(s)) /\ ToSet(Tail(s)) = ToSet(s) \ {Head(s)}
<1>1. Len(s) \in Nat \ {0} /\ Head(s) = s[1]
  BY EmptySeq
<1>2. /\ Head(s) \in S /\ Tail(s) \in Seq(S) /\ Len(Tail(s)) = Len(s) - 1
      /\ \A i \in 1 .. Len(Tail(s)) : Tail(s)[i] = s[i + 1]
  BY HeadTailProperties
<1>3. PICK t : t = Tail(s)
  OBVIOUS
<1>4. ASSUME NEW i \in 1 .. Len(t) PROVE i + 1 \in 1 .. Len(s) /\ t[i] = s[i + 1] /\ i + 1 # 1
  BY <1>1, <1>2, <1>3
<1>5. Head(s) \in ToSet(s)
  <2>1. 1 \in 1 .. Len(s)
    BY <1>1
  <2> QED
    BY <2>1, <1>1, Listed
<1>6. ASSUME Distinct(s) PROVE Distinct(t) /\ ToSet(t) = ToSet(s) \ {Head(s)}
  <2>1. ASSUME NEW k \in 1 .. Len(t), NEW l \in 1 .. Len(t), t[k] = t[l] PROVE k = l
    <3>1. k + 1 = l + 1
      BY <2>1, <1>4, <1>6 DEF Distinct
    <3> QED
      BY <3>1, <1>1, <1>2, <1>3
  <2>2. ASSUME NEW x \in ToSet(t) PROVE x \in ToSet(s) /\ x # Head(s)
    <3>1. PICK k \in 1 .. Len(t) : t[k] = x
      BY <2>2, <1>2, <1>3, Listed
    <3>2. k + 1 \in 1 .. Len(s) /\ s[k + 1] = x /\ k + 1 # 1 /\ 1 \in 1 .. Len(s)
      BY <3>1, <1>4, <1>1
    <3> QED
      BY <3>2, <1>1, <1>6, Listed DEF Distinct
  <2>3. ASSUME NEW x \in ToSet(s), x # Head(s) PROVE x \in ToSet(t)
    <3>1. PICK k \in 1 .. Len(s) : s[k] = x
      BY <2>3, Listed
    <3>2. k - 1 \in 1 .. Len(t) /\ k - 1 + 1 = k
      BY <3>1, <2>3, <1>1, <1>2, <1>3
    <3>3. t[k - 1] = x
      BY <3>1, <3>2, <1>4
    <3> QED
      BY <3>2, <3>3, <1>2, <1>3, Listed
  <2> QED
    BY <2>1, <2>2, <2>3 DEF Distinct
<1> QED
  BY <1>1, <1>2, <1>3, <1>5, <1>6

-----------------------------------------------------------------------------
(* One superblock *)

SuperRecords ==
  [owner : BlockProcs \cup {BlockNil}, sizeClass : SizeClasses,
   numBlocksFree : 0 .. SuperSize, firstFree : Seq(Starts), frontier : 0 .. SuperSize]

\* Sizes are at least one, and at most that of a superblock.
LEMMA Sizes ==
  /\ SuperSize \in Nat \ {0} /\ Starts \subseteq Nat
  /\ \A c \in SizeClasses : c \in Nat /\ GroupSize(c) \in 1 .. SuperSize
<1>1. superblockThreshold \in Nat \ {0}
  BY BlockAssumption
<1>2. superblockThreshold \in 0 .. superblockThreshold /\ 0 \in 0 .. superblockThreshold
  BY <1>1
<1>3. SuperSize \in Nat \ {0}
  <2>1. 2 ^ superblockThreshold \in Nat /\ 2 ^ superblockThreshold \in 1 .. 2 ^ superblockThreshold
    BY <1>2, PowersAssumption
  <2> QED
    BY <2>1 DEF SuperSize, GroupSize
<1>4. ASSUME NEW c \in SizeClasses PROVE c \in Nat /\ GroupSize(c) \in 1 .. SuperSize
  <2>1. c \in Nat /\ c \in 0 .. superblockThreshold
    BY <1>1 DEF SizeClasses
  <2>2. 2 ^ c \in 1 .. 2 ^ superblockThreshold
    BY <2>1, PowersAssumption
  <2> QED
    BY <2>1, <2>2 DEF SuperSize, GroupSize
<1> QED
  BY <1>3, <1>4 DEF Starts

\* Arithmetic of multiples.
LEMMA Times ==
  ASSUME NEW k \in Int, NEW m \in Nat
  PROVE  /\ (k + 1) * m = k * m + m /\ (k - 1) * m = k * m - m
         /\ 0 * m = 0 /\ (k \in Nat => k * m \in Nat)
<1>1. (k + 1) * m = k * m + m /\ (k - 1) * m = k * m - m
  OBVIOUS
<1>2. 0 * m = 0
  OBVIOUS
<1>3. k \in Nat => k * m \in Nat
  OBVIOUS
<1> QED
  BY <1>1, <1>2, <1>3

\* IsTiled of the fields of a superblock.
Cover(size, frontier, groups) ==
  /\ \A a \in groups : a + size <= frontier
  /\ \A a, b \in groups : a < b => a + size <= b
  /\ \A i \in 0 .. frontier - 1 : \E a \in groups : a <= i /\ i < a + size
Counts(size, frontier, free, list, away) ==
  /\ free + Cardinality(away) * size = SuperSize
  /\ frontier + free = SuperSize + Len(list) * size

\* IsTiled in two parts: where the groups lie, and what is counted.
LEMMA TiledFields ==
  ASSUME NEW s, NEW A
  PROVE  IsTiled(s, A) <=>
           /\ Distinct(s.firstFree) /\ A \cap ToSet(s.firstFree) = {}
           /\ Cover(GroupSize(s.sizeClass), s.frontier, A \cup ToSet(s.firstFree))
           /\ Counts(GroupSize(s.sizeClass), s.frontier, s.numBlocksFree, s.firstFree, A)
BY DEF IsTiled, Cover, Counts

\* A set of groups of a superblock is finite.
LEMMA FewStarts ==
  ASSUME NEW A \in SUBSET Starts
  PROVE  IsFiniteSet(A) /\ Cardinality(A) \in Nat
<1>1. IsFiniteSet(Starts)
  BY Sizes, FS_Interval DEF Starts
<1> QED
  BY <1>1, FS_Subset, FS_CardinalityType

\* deallocateInSuperBlock: the group goes from those that are away to the
\* free list.
LEMMA Deallocated ==
  ASSUME NEW s \in SuperRecords, NEW A \in SUBSET Starts, NEW a \in A, IsTiled(s, A),
         NEW n, n = deallocateInSuperBlock(s, a)
  PROVE  /\ n \in SuperRecords /\ n.owner = s.owner /\ n.sizeClass = s.sizeClass
         /\ IsTiled(n, A \ {a})
<1> PICK size : size = GroupSize(s.sizeClass)
  OBVIOUS
<1>1. /\ s.sizeClass \in SizeClasses /\ s.numBlocksFree \in 0 .. SuperSize
      /\ s.firstFree \in Seq(Starts) /\ s.frontier \in 0 .. SuperSize
      /\ s.owner \in BlockProcs \cup {BlockNil}
  BY DEF SuperRecords
<1>2. size \in 1 .. SuperSize /\ SuperSize \in Nat \ {0} /\ Starts \subseteq Nat
  BY <1>1, Sizes
<1>3. /\ n.sizeClass = s.sizeClass /\ n.owner = s.owner /\ n.frontier = s.frontier
      /\ n.firstFree = <<a>> \o s.firstFree /\ n.numBlocksFree = s.numBlocksFree + size
  BY DEF deallocateInSuperBlock, SuperRecords
<1>4. /\ Distinct(s.firstFree) /\ A \cap ToSet(s.firstFree) = {}
      /\ Cover(size, s.frontier, A \cup ToSet(s.firstFree))
      /\ Counts(size, s.frontier, s.numBlocksFree, s.firstFree, A)
  BY TiledFields
<1>5. /\ n.firstFree \in Seq(Starts) /\ Len(n.firstFree) = Len(s.firstFree) + 1
      /\ ToSet(n.firstFree) = ToSet(s.firstFree) \cup {a} /\ Distinct(n.firstFree)
      /\ Len(s.firstFree) \in Nat
  <2>1. /\ a \in Starts /\ a \notin ToSet(s.firstFree) /\ Distinct(s.firstFree)
        /\ s.firstFree \in Seq(Starts) /\ n.firstFree = <<a>> \o s.firstFree
    BY <1>1, <1>3, <1>4
  <2>2. PICK f : f = s.firstFree
    OBVIOUS
  <2>3. PICK g : g = n.firstFree
    OBVIOUS
  <2>4. /\ a \in Starts /\ a \notin ToSet(f) /\ Distinct(f)
        /\ f \in Seq(Starts) /\ g = InFront(a, f)
    BY <2>1, <2>2, <2>3 DEF InFront
  <2>5. g \in Seq(Starts) /\ Len(g) = Len(f) + 1 /\ Distinct(g)
    BY <2>4, Prepended
  <2>6. ASSUME NEW y PROVE y \in ToSet(g) <=> y \in ToSet(f) \/ y = a
    BY <2>4, Prepended
  <2>7. ToSet(g) = ToSet(f) \cup {a}
    BY <2>6
  <2> QED
    BY <2>2, <2>3, <2>4, <2>5, <2>7, LenProperties
<1>6. /\ Cardinality(A \ {a}) = Cardinality(A) - 1 /\ Cardinality(A) \in Nat
      /\ Cardinality(A \ {a}) \in Nat
  <2>1. IsFiniteSet(A) /\ A \ {a} \in SUBSET Starts
    BY FewStarts
  <2> QED
    BY <2>1, FewStarts, FS_RemoveElement
<1>7. Counts(size, n.frontier, n.numBlocksFree, n.firstFree, A \ {a})
      /\ n.numBlocksFree \in 0 .. SuperSize
  <2>1. PICK k \in Nat : k = Cardinality(A)
    BY <1>6
  <2>2. PICK l \in Nat : l = Len(s.firstFree)
    BY <1>5
  <2>3. PICK km \in Int : km = k * size
    BY <1>2
  <2>4. PICK lm \in Int : lm = l * size
    BY <1>2
  <2>5. (k - 1) * size = km - size /\ (l + 1) * size = lm + size /\ (k - 1) * size \in Nat
    <3>1. k - 1 \in Nat
      BY <2>1, <1>6
    <3> QED
      BY <3>1, <2>3, <2>4, <1>2, Times
  <2>6. s.numBlocksFree + km = SuperSize /\ s.frontier + s.numBlocksFree = SuperSize + lm
    BY <2>1, <2>2, <2>3, <2>4, <1>4 DEF Counts
  <2>7. Cardinality(A \ {a}) * size = km - size /\ Len(n.firstFree) * size = lm + size
    BY <2>1, <2>2, <2>5, <1>5, <1>6
  <2>8. n.numBlocksFree + (km - size) = SuperSize /\ n.frontier + n.numBlocksFree = SuperSize + (lm + size)
    <3>1. /\ n.numBlocksFree = s.numBlocksFree + size /\ n.frontier = s.frontier
          /\ s.numBlocksFree \in Nat /\ s.frontier \in Nat /\ size \in Nat /\ SuperSize \in Nat
      BY <1>1, <1>2, <1>3
    <3> QED
      BY <3>1, <2>6
  <2>9. n.numBlocksFree \in 0 .. SuperSize
    <3>1. n.numBlocksFree \in Nat
      BY <1>1, <1>2, <1>3
    <3>2. km - size \in Nat
      BY <2>5
    <3> QED
      BY <3>1, <3>2, <2>8, <1>2
  <2> QED
    BY <2>7, <2>8, <2>9 DEF Counts
<1>8. (A \ {a}) \cup ToSet(n.firstFree) = A \cup ToSet(s.firstFree)
      /\ (A \ {a}) \cap ToSet(n.firstFree) = {}
  BY <1>4, <1>5
<1>9. IsTiled(n, A \ {a})
  BY <1>3, <1>4, <1>5, <1>7, <1>8, TiledFields
<1>10. n \in SuperRecords
  BY <1>1, <1>3, <1>5, <1>7 DEF deallocateInSuperBlock, SuperRecords
<1> QED
  BY <1>3, <1>9, <1>10

\* The room at the frontier, when the free list is empty.
LEMMA AtFrontier ==
  ASSUME NEW size \in Nat \ {0}, NEW fr \in Nat, NEW A \in SUBSET Nat, Cover(size, fr, A)
  PROVE  fr \notin A /\ Cover(size, fr + size, A \cup {fr})
<1>1. ASSUME NEW a \in A \cup {fr} PROVE a \in Nat /\ a + size <= fr + size /\ (a # fr => a + size <= fr)
  BY <1>1 DEF Cover
<1>2. ASSUME NEW a \in A \cup {fr}, NEW b \in A \cup {fr}, a < b PROVE a + size <= b
  <2>1. CASE b = fr
    BY <2>1, <1>1, <1>2
  <2>2. CASE b # fr
    <3>1. b + size <= fr /\ b \in Nat /\ a \in Nat
      BY <2>2, <1>1
    <3>2. a # fr /\ b # fr
      BY <3>1, <2>2, <1>2
    <3> QED
      BY <3>2, <1>2 DEF Cover
  <2> QED
    BY <2>1, <2>2
<1>3. ASSUME NEW i \in 0 .. fr + size - 1
      PROVE  \E a \in A \cup {fr} : a <= i /\ i < a + size
  <2>1. CASE i < fr
    <3>1. i \in 0 .. fr - 1
      BY <2>1
    <3> QED
      BY <3>1 DEF Cover
  <2>2. CASE i >= fr
    BY <2>2
  <2> QED
    BY <2>1, <2>2
<1>4. fr \notin A
  <2>1. ASSUME fr \in A PROVE FALSE
    <3>1. fr + size <= fr
      BY <2>1 DEF Cover
    <3> QED
      BY <3>1
  <2> QED
    BY <2>1
<1> QED
  BY <1>1, <1>2, <1>3, <1>4 DEF Cover

\* allocateInSuperBlock hands out a group that was not away.
LEMMA Allocated ==
  ASSUME NEW s \in SuperRecords, NEW A \in SUBSET Starts, IsTiled(s, A),
         GroupSize(s.sizeClass) <= s.numBlocksFree,
         NEW n, n = allocateInSuperBlock(s), NEW a, a = StartIn(s)
  PROVE  /\ n \in SuperRecords /\ n.owner = s.owner /\ n.sizeClass = s.sizeClass
         /\ a \in Starts \ A /\ IsTiled(n, A \cup {a})
         /\ n.numBlocksFree < s.numBlocksFree
<1> PICK size : size = GroupSize(s.sizeClass)
  OBVIOUS
<1>1. /\ s.sizeClass \in SizeClasses /\ s.numBlocksFree \in 0 .. SuperSize
      /\ s.firstFree \in Seq(Starts) /\ s.frontier \in 0 .. SuperSize
      /\ s.owner \in BlockProcs \cup {BlockNil}
  BY DEF SuperRecords
<1>2. size \in 1 .. SuperSize /\ SuperSize \in Nat \ {0} /\ Starts \subseteq Nat
  BY <1>1, Sizes
<1>3. /\ n.sizeClass = s.sizeClass /\ n.owner = s.owner
      /\ n.numBlocksFree = s.numBlocksFree - size
      /\ s.firstFree = <<>> => a = s.frontier /\ n.frontier = s.frontier + size
                               /\ n.firstFree = s.firstFree
      /\ s.firstFree # <<>> => a = Head(s.firstFree) /\ n.frontier = s.frontier
                               /\ n.firstFree = Tail(s.firstFree)
  BY DEF allocateInSuperBlock, StartIn, SuperRecords
<1>4. /\ Distinct(s.firstFree) /\ A \cap ToSet(s.firstFree) = {}
      /\ Cover(size, s.frontier, A \cup ToSet(s.firstFree))
      /\ Counts(size, s.frontier, s.numBlocksFree, s.firstFree, A)
  BY TiledFields
<1>5. /\ n.numBlocksFree \in 0 .. SuperSize /\ n.numBlocksFree < s.numBlocksFree
      /\ s.numBlocksFree \in Nat /\ s.frontier \in Nat /\ Len(s.firstFree) \in Nat
  BY <1>1, <1>2, <1>3, LenProperties
<1>6. ASSUME a \in Starts \ A
      PROVE  /\ A \cup {a} \in SUBSET Starts
             /\ Cardinality(A \cup {a}) * size = Cardinality(A) * size + size
             /\ Cardinality(A) * size \in Nat
  <2>1. IsFiniteSet(A) /\ Cardinality(A) \in Nat /\ A \cup {a} \in SUBSET Starts
    BY <1>6, FewStarts
  <2>2. Cardinality(A \cup {a}) = Cardinality(A) + 1
    BY <2>1, <1>6, FS_AddElement
  <2> QED
    BY <2>1, <2>2, <1>2, Times
<1>7. CASE s.firstFree = <<>>
  <2>1. ToSet(s.firstFree) = {} /\ Len(s.firstFree) = 0 /\ Distinct(s.firstFree)
    BY <1>7, EmptyList
  <2>2. s.frontier + s.numBlocksFree = SuperSize
    <3>1. 0 * size = 0
      BY <1>2, Times
    <3> QED
      BY <3>1, <2>1, <1>4, <1>2 DEF Counts
  <2>3. s.frontier + size <= SuperSize /\ a \in Starts /\ n.frontier \in 0 .. SuperSize
    BY <2>2, <1>1, <1>2, <1>3, <1>7 DEF Starts
  <2>4. A \in SUBSET Nat /\ Cover(size, s.frontier, A)
    BY <1>2, <1>4, <2>1
  <2>5. a \notin A /\ Cover(size, n.frontier, A \cup {a})
    <3>1. size \in Nat \ {0} /\ s.frontier \in Nat /\ a = s.frontier /\ n.frontier = s.frontier + size
      BY <1>2, <1>3, <1>5, <1>7
    <3>2. PICK fr : fr = s.frontier
      OBVIOUS
    <3>3. size \in Nat \ {0} /\ fr \in Nat /\ A \in SUBSET Nat /\ Cover(size, fr, A)
      BY <3>1, <3>2, <2>4
    <3>4. fr \notin A /\ Cover(size, fr + size, A \cup {fr})
      BY <3>3, AtFrontier
    <3> QED
      BY <3>1, <3>2, <3>4
  <2>6. Counts(size, n.frontier, n.numBlocksFree, n.firstFree, A \cup {a})
    <3>1. PICK km \in Nat : km = Cardinality(A) * size
      BY <1>6, <2>3, <2>5
    <3>2. Cardinality(A \cup {a}) * size = km + size
      BY <1>6, <2>3, <2>5, <3>1
    <3>3. s.numBlocksFree + km = SuperSize
      BY <1>4, <3>1 DEF Counts
    <3>4. /\ n.numBlocksFree + (km + size) = SuperSize
          /\ n.frontier + n.numBlocksFree = SuperSize
      BY <3>3, <2>2, <1>1, <1>2, <1>3, <1>7
    <3>5. Len(n.firstFree) * size = 0
      BY <2>1, <1>3, <1>7, <1>2, Times
    <3> QED
      BY <3>2, <3>4, <3>5, <1>2 DEF Counts
  <2>7. IsTiled(n, A \cup {a})
    <3>1. ToSet(n.firstFree) = {} /\ Distinct(n.firstFree)
      BY <2>1, <1>3, <1>7
    <3>2. Cover(size, n.frontier, (A \cup {a}) \cup ToSet(n.firstFree))
      BY <3>1, <2>5
    <3>3. (A \cup {a}) \cap ToSet(n.firstFree) = {}
      BY <3>1
    <3> QED
      BY <3>1, <3>2, <3>3, <2>6, <1>3, TiledFields
  <2>8. n \in SuperRecords
    BY <1>1, <1>3, <1>5, <1>7, <2>3 DEF allocateInSuperBlock, SuperRecords
  <2> QED
    BY <2>3, <2>5, <2>7, <2>8, <1>3, <1>5
<1>8. CASE s.firstFree # <<>>
  <2>1. /\ a \in Starts /\ a \in ToSet(s.firstFree)
        /\ n.firstFree \in Seq(Starts) /\ Len(n.firstFree) = Len(s.firstFree) - 1
        /\ Distinct(n.firstFree) /\ ToSet(n.firstFree) = ToSet(s.firstFree) \ {a}
    <3>1. PICK f : f = s.firstFree
      OBVIOUS
    <3>2. f \in Seq(Starts) /\ f # <<>> /\ Distinct(f) /\ a = Head(f) /\ n.firstFree = Tail(f)
      BY <3>1, <1>1, <1>3, <1>4, <1>8
    <3>3. /\ Head(f) \in Starts /\ Head(f) \in ToSet(f)
          /\ Tail(f) \in Seq(Starts) /\ Len(Tail(f)) = Len(f) - 1
          /\ Distinct(Tail(f)) /\ ToSet(Tail(f)) = ToSet(f) \ {Head(f)}
      BY <3>2, WithoutHead
    <3> QED
      BY <3>1, <3>2, <3>3
  <2>2. a \notin A
    BY <2>1, <1>4
  <2>3. Counts(size, n.frontier, n.numBlocksFree, n.firstFree, A \cup {a})
    <3>1. PICK km \in Nat : km = Cardinality(A) * size
      BY <1>6, <2>1, <2>2
    <3>2. Cardinality(A \cup {a}) * size = km + size
      BY <1>6, <2>1, <2>2, <3>1
    <3>3. PICK lm \in Int : lm = Len(s.firstFree) * size
      BY <1>2, <1>5
    <3>4. Len(n.firstFree) * size = lm - size
      BY <3>3, <2>1, <1>2, <1>5, Times
    <3>5. s.numBlocksFree + km = SuperSize /\ s.frontier + s.numBlocksFree = SuperSize + lm
      BY <1>4, <3>1, <3>3 DEF Counts
    <3>6. /\ n.numBlocksFree + (km + size) = SuperSize
          /\ n.frontier + n.numBlocksFree = SuperSize + (lm - size)
      <4>1. /\ n.numBlocksFree = s.numBlocksFree - size /\ n.frontier = s.frontier
            /\ s.numBlocksFree \in Nat /\ s.frontier \in Nat /\ size \in Nat /\ SuperSize \in Nat
        BY <1>1, <1>2, <1>3, <1>8
      <4> QED
        BY <4>1, <3>5
    <3> QED
      BY <3>2, <3>4, <3>6 DEF Counts
  <2>4. /\ (A \cup {a}) \cup ToSet(n.firstFree) = A \cup ToSet(s.firstFree)
        /\ (A \cup {a}) \cap ToSet(n.firstFree) = {}
    BY <2>1, <1>4
  <2>5. IsTiled(n, A \cup {a})
    BY <2>1, <2>3, <2>4, <1>3, <1>4, <1>8, TiledFields
  <2>6. n \in SuperRecords
    BY <1>1, <1>3, <1>5, <1>8, <2>1 DEF allocateInSuperBlock, SuperRecords
  <2> QED
    BY <2>1, <2>2, <2>5, <2>6, <1>3, <1>5
<1> QED
  BY <1>7, <1>8

\* Nothing of a completely empty superblock is away.
LEMMA NoneAway ==
  ASSUME NEW s \in SuperRecords, NEW A \in SUBSET Starts, IsTiled(s, A)
  PROVE  s.numBlocksFree = SuperSize <=> A = {}
<1> PICK size : size = GroupSize(s.sizeClass)
  OBVIOUS
<1>1. size \in 1 .. SuperSize /\ SuperSize \in Nat \ {0} /\ s.numBlocksFree \in 0 .. SuperSize
  BY Sizes DEF SuperRecords
<1>2. IsFiniteSet(A) /\ Cardinality(A) \in Nat
  BY FewStarts
<1>3. s.numBlocksFree + Cardinality(A) * size = SuperSize
  BY TiledFields DEF Counts
<1>4. CASE A = {}
  <2>1. Cardinality(A) = 0
    BY <1>4, FS_EmptySet
  <2>2. 0 * size = 0
    BY <1>1, Times
  <2> QED
    BY <2>1, <2>2, <1>1, <1>3, <1>4
<1>5. CASE A # {}
  <2>1. Cardinality(A) - 1 \in Nat
    BY <1>2, <1>5, FS_EmptySet
  <2>2. PICK km \in Int : km = Cardinality(A) * size
    BY <1>1, <1>2
  <2>3. km - size \in Nat
    <3>1. (Cardinality(A) - 1) * size = km - size
      BY <2>2, <1>1, <1>2, Times
    <3>2. (Cardinality(A) - 1) * size \in Nat
      BY <2>1, <1>1, Times
    <3> QED
      BY <3>1, <3>2
  <2> QED
    BY <2>2, <2>3, <1>1, <1>3, <1>5
<1> QED
  BY <1>4, <1>5

\* setSuperBlockSizeClass of a superblock that is completely empty.
LEMMA ForClassFacts ==
  ASSUME NEW s \in SuperRecords, NEW A \in SUBSET Starts, IsTiled(s, A),
         NEW class \in SizeClasses, NEW r, r = ForClass(s, class),
         s.numBlocksFree # SuperSize => s.sizeClass = class
  PROVE  /\ r \in SuperRecords /\ r.owner = s.owner /\ r.sizeClass = class
         /\ r.numBlocksFree = s.numBlocksFree /\ IsTiled(r, A)
<1>1. CASE s.numBlocksFree # SuperSize
  BY <1>1 DEF ForClass
<1>2. CASE s.numBlocksFree = SuperSize
  <2>1. /\ r.sizeClass = class /\ r.owner = s.owner /\ r.numBlocksFree = SuperSize
        /\ r.firstFree = <<>> /\ r.frontier = 0
    BY <1>2 DEF ForClass, setSuperBlockSizeClass, SuperRecords
  <2>2. A = {}
    BY <1>2, NoneAway
  <2>3. r \in SuperRecords
    <3>1. r = [s EXCEPT !.sizeClass = class, !.firstFree = <<>>, !.frontier = 0]
      BY <1>2 DEF ForClass, setSuperBlockSizeClass
    <3>2. <<>> \in Seq(Starts) /\ 0 \in 0 .. SuperSize
      BY Sizes, EmptyList
    <3> QED
      BY <3>1, <3>2 DEF SuperRecords
  <2>4. IsTiled(r, {})
    <3>1. ToSet(r.firstFree) = {} /\ Distinct(r.firstFree) /\ Len(r.firstFree) = 0
      BY <2>1, EmptyList
    <3>2. PICK size \in Nat : size = GroupSize(class)
      BY Sizes
    <3>3. Cover(size, 0, {})
      BY DEF Cover
    <3>4. Counts(size, 0, SuperSize, r.firstFree, {})
      BY <3>1, <3>2, Times, Sizes, FS_EmptySet DEF Counts
    <3>5. {} \cup ToSet(r.firstFree) = {} /\ {} \cap ToSet(r.firstFree) = {}
      BY <3>1
    <3> QED
      BY <3>1, <3>2, <3>3, <3>4, <3>5, <2>1, TiledFields
  <2> QED
    BY <2>1, <2>2, <2>3, <2>4, <1>2
<1> QED
  BY <1>1, <1>2

-----------------------------------------------------------------------------
(* The lists of superblocks of one processor *)

Supers == [SuperBlocks -> SuperRecords]
Lists == [Groups -> Seq(SuperBlocks)]

\* The list in which a superblock belongs.
Belongs(s) == GroupOf(s.sizeClass, fullness(s))

\* GroupsAreRight, of one processor.
Fit(p, super, groups) ==
  \A g \in Groups :
    /\ Distinct(groups[g])
    /\ \A sb \in SuperBlocks : sb \in ToSet(groups[g]) <=> super[sb].owner = p /\ g = Belongs(super[sb])

\* The first and the last of the groups by fullness.
LEMMA FullnessFacts ==
  ASSUME NEW s \in SuperRecords
  PROVE  /\ fullness(s) \in 0 .. 4
         /\ fullness(s) = COMPLETELY_EMPTY <=> s.numBlocksFree = SuperSize
         /\ fullness(s) = COMPLETELY_FULL <=> s.numBlocksFree < GroupSize(s.sizeClass)
         /\ Belongs(s) \in Groups
<1>1. /\ s.sizeClass \in SizeClasses /\ s.numBlocksFree \in 0 .. SuperSize
      /\ GroupSize(s.sizeClass) \in 1 .. SuperSize /\ SuperSize \in Nat \ {0}
  BY Sizes DEF SuperRecords
<1>2. /\ fullness(s) \in 0 .. 4
      /\ fullness(s) = 4 <=> s.numBlocksFree = SuperSize
      /\ fullness(s) = 0 <=> s.numBlocksFree < GroupSize(s.sizeClass)
  BY <1>1 DEF fullness, COMPLETELY_EMPTY, COMPLETELY_FULL, NEARLY_FULL, SOMEWHAT_FULL, NEARLY_EMPTY
<1>3. Belongs(s) \in Groups
  BY <1>1, <1>2 DEF Belongs, Groups, GroupOf, COMPLETELY_EMPTY, COMPLETELY_FULL, NEARLY_EMPTY
<1> QED
  BY <1>2, <1>3 DEF COMPLETELY_EMPTY, COMPLETELY_FULL

\* unlinkSuperBlock of a superblock that is in the list.
LEMMA Unlinked ==
  ASSUME NEW s \in Seq(SuperBlocks), Distinct(s), NEW sb \in ToSet(s), NEW t, t = unlinkSuperBlock(s, sb)
  PROVE  /\ t \in Seq(SuperBlocks) /\ Distinct(t)
         /\ \A x : x \in ToSet(t) <=> x \in ToSet(s) /\ x # sb
<1>1. \E i \in 1 .. Len(s) : s[i] = sb
  BY Listed
<1>2. PICK i : i = CHOOSE j \in 1 .. Len(s) : s[j] = sb
  OBVIOUS
<1>3. i \in 1 .. Len(s) /\ s[i] = sb
  BY <1>1, <1>2
<1>4. t = RemoveAt(s, i)
  BY <1>2 DEF unlinkSuperBlock
<1>5. t \in Seq(SuperBlocks) /\ Distinct(t) /\ ToSet(t) = ToSet(s) \ {s[i]}
  BY <1>3, <1>4, Removed
<1> QED
  BY <1>3, <1>5

\* prependSuperBlock of one that is not in it.
LEMMA Linked ==
  ASSUME NEW s \in Seq(SuperBlocks), Distinct(s), NEW sb \in SuperBlocks, sb \notin ToSet(s),
         NEW t, t = prependSuperBlock(s, sb)
  PROVE  /\ t \in Seq(SuperBlocks) /\ Distinct(t)
         /\ \A x : x \in ToSet(t) <=> x \in ToSet(s) \/ x = sb
<1>1. t = InFront(sb, s)
  BY DEF InFront, prependSuperBlock
<1>2. t \in Seq(SuperBlocks) /\ Distinct(t)
  BY <1>1, Prepended
<1>3. ASSUME NEW x PROVE x \in ToSet(t) <=> x \in ToSet(s) \/ x = sb
  BY <1>1, Prepended
<1> QED
  BY <1>2, <1>3

\* A superblock is moved to the list in which it belongs now.
LEMMA RelinkFits ==
  ASSUME NEW p \in BlockProcs, NEW super \in Supers, NEW groups \in Lists, Fit(p, super, groups),
         NEW sb \in SuperBlocks, super[sb].owner = p, NEW n \in SuperRecords, n.owner = p,
         NEW from, from = Belongs(super[sb]), NEW to, to = Belongs(n),
         NEW new, new = Relink(groups, sb, from, to),
         NEW next, next = [super EXCEPT ![sb] = n]
  PROVE  new \in Lists /\ Fit(p, next, new)
<1>1. /\ from \in Groups /\ to \in Groups /\ super[sb] \in SuperRecords
      /\ \A g \in Groups : groups[g] \in Seq(SuperBlocks) /\ Distinct(groups[g])
      /\ \A t \in SuperBlocks : next[t] = IF t = sb THEN n ELSE super[t]
  BY FullnessFacts DEF Supers, Lists, Fit
<1>2. PICK cut : cut = unlinkSuperBlock(groups[from], sb)
  OBVIOUS
<1>3. /\ sb \in ToSet(groups[from])
      /\ \A g \in Groups : sb \in ToSet(groups[g]) <=> g = from
  BY <1>1 DEF Fit
<1>4. /\ cut \in Seq(SuperBlocks) /\ Distinct(cut)
      /\ \A x : x \in ToSet(cut) <=> x \in ToSet(groups[from]) /\ x # sb
  BY <1>1, <1>2, <1>3, Unlinked
<1>5. PICK mid : mid = [groups EXCEPT ![from] = cut]
  OBVIOUS
<1>6. /\ mid \in Lists /\ \A g \in Groups : mid[g] = IF g = from THEN cut ELSE groups[g]
  BY <1>1, <1>4, <1>5 DEF Lists
<1>7. ASSUME NEW g \in Groups
      PROVE  /\ mid[g] \in Seq(SuperBlocks) /\ Distinct(mid[g])
             /\ \A x : x \in ToSet(mid[g]) <=> x \in ToSet(groups[g]) /\ x # sb
  <2>1. CASE g = from
    BY <2>1, <1>4, <1>6
  <2>2. CASE g # from
    BY <2>2, <1>1, <1>3, <1>6
  <2> QED
    BY <2>1, <2>2
<1>8. PICK put : put = prependSuperBlock(mid[to], sb)
  OBVIOUS
<1>9. /\ put \in Seq(SuperBlocks) /\ Distinct(put)
      /\ \A x : x \in ToSet(put) <=> x \in ToSet(mid[to]) \/ x = sb
  <2>1. mid[to] \in Seq(SuperBlocks) /\ Distinct(mid[to]) /\ sb \notin ToSet(mid[to])
    BY <1>1, <1>7
  <2> QED
    BY <2>1, <1>8, Linked
<1>10. new = [mid EXCEPT ![to] = put]
  BY <1>2, <1>5, <1>8 DEF Relink
<1>11. /\ new \in Lists /\ \A g \in Groups : new[g] = IF g = to THEN put ELSE mid[g]
  BY <1>1, <1>6, <1>9, <1>10 DEF Lists
<1>12. ASSUME NEW g \in Groups
       PROVE  /\ Distinct(new[g])
              /\ \A x : x \in ToSet(new[g]) <=> (x \in ToSet(groups[g]) /\ x # sb) \/ (g = to /\ x = sb)
  <2>1. CASE g = to
    BY <2>1, <1>1, <1>7, <1>9, <1>11
  <2>2. CASE g # to
    BY <2>2, <1>7, <1>11
  <2> QED
    BY <2>1, <2>2
<1>13. ASSUME NEW g \in Groups, NEW t \in SuperBlocks
       PROVE  t \in ToSet(new[g]) <=> next[t].owner = p /\ g = Belongs(next[t])
  <2>1. CASE t = sb
    BY <2>1, <1>1, <1>12
  <2>2. CASE t # sb
    <3>1. next[t] = super[t]
      BY <2>2, <1>1
    <3>2. t \in ToSet(new[g]) <=> t \in ToSet(groups[g])
      BY <2>2, <1>12
    <3>3. t \in ToSet(groups[g]) <=> super[t].owner = p /\ g = Belongs(super[t])
      BY DEF Fit
    <3> QED
      BY <3>1, <3>2, <3>3
  <2> QED
    BY <2>1, <2>2
<1> QED
  BY <1>11, <1>12, <1>13 DEF Fit

\* A superblock changes and belongs in the same list.
LEMMA StayFits ==
  ASSUME NEW p, NEW super \in Supers, NEW groups, Fit(p, super, groups),
         NEW sb \in SuperBlocks, NEW n, n.owner = super[sb].owner, Belongs(n) = Belongs(super[sb]),
         NEW next, next = [super EXCEPT ![sb] = n]
  PROVE  Fit(p, next, groups)
<1>1. \A t \in SuperBlocks : next[t] = IF t = sb THEN n ELSE super[t]
  BY DEF Supers
<1> QED
  BY <1>1 DEF Fit

\* A superblock that is not p's does not matter to p.
LEMMA OthersFit ==
  ASSUME NEW p, NEW super \in Supers, NEW groups, Fit(p, super, groups), NEW next,
         \A t \in SuperBlocks : next[t] = super[t] \/ (super[t].owner # p /\ next[t].owner # p)
  PROVE  Fit(p, next, groups)
BY DEF Fit

OwnedBy(s, p) == [s EXCEPT !.owner = p]
Put(f, x, v) == [f EXCEPT ![x] = v]

\* mmapNewSuperBlocks: a new superblock is in the list of the empty ones.
LEMMA NewFits ==
  ASSUME NEW p \in BlockProcs, NEW super \in Supers, NEW groups \in Lists, Fit(p, super, groups),
         NEW sb \in SuperBlocks, super[sb].owner = BlockNil, super[sb].numBlocksFree = SuperSize,
         NEW n, n = OwnedBy(super[sb], p), NEW next, next = Put(super, sb, n),
         NEW empty, empty = <<0, COMPLETELY_EMPTY>>,
         NEW put, put = prependSuperBlock(groups[empty], sb),
         NEW new, new = Put(groups, empty, put)
  PROVE  /\ next \in Supers /\ new \in Lists /\ Fit(p, next, new)
         /\ sb \in ToSet(new[empty]) /\ empty \in Groups
<1>1. /\ super[sb] \in SuperRecords /\ n \in SuperRecords /\ n.owner = p
      /\ n.numBlocksFree = SuperSize /\ p # BlockNil
  BY BlockAssumption DEF Supers, SuperRecords, OwnedBy
<1>2. next \in Supers /\ \A t \in SuperBlocks : next[t] = IF t = sb THEN n ELSE super[t]
  BY <1>1 DEF Supers, Put
<1>3. empty \in Groups /\ Belongs(n) = empty
  <2>1. fullness(n) = COMPLETELY_EMPTY
    BY <1>1, FullnessFacts
  <2> QED
    BY <2>1 DEF Belongs, GroupOf, Groups, COMPLETELY_EMPTY
<1>4. put = prependSuperBlock(groups[empty], sb)
  OBVIOUS
<1>5. \A g \in Groups : /\ groups[g] \in Seq(SuperBlocks) /\ Distinct(groups[g])
                        /\ sb \notin ToSet(groups[g])
  BY <1>1 DEF Lists, Fit
<1>6. /\ put \in Seq(SuperBlocks) /\ Distinct(put)
      /\ \A x : x \in ToSet(put) <=> x \in ToSet(groups[empty]) \/ x = sb
  BY <1>3, <1>4, <1>5, Linked
<1>7. new = [groups EXCEPT ![empty] = put]
  BY <1>4 DEF Put
<1>8. new \in Lists /\ \A g \in Groups : new[g] = IF g = empty THEN put ELSE groups[g]
  BY <1>3, <1>6, <1>7 DEF Lists
<1>9. ASSUME NEW g \in Groups, NEW t \in SuperBlocks
      PROVE  t \in ToSet(new[g]) <=> next[t].owner = p /\ g = Belongs(next[t])
  <2>1. CASE t = sb
    BY <2>1, <1>1, <1>2, <1>3, <1>5, <1>6, <1>8
  <2>2. CASE t # sb
    <3>1. next[t] = super[t]
      BY <2>2, <1>2
    <3>2. t \in ToSet(new[g]) <=> t \in ToSet(groups[g])
      BY <2>2, <1>6, <1>8
    <3>3. t \in ToSet(groups[g]) <=> super[t].owner = p /\ g = Belongs(super[t])
      BY DEF Fit
    <3> QED
      BY <3>1, <3>2, <3>3
  <2> QED
    BY <2>1, <2>2
<1>10. ASSUME NEW g \in Groups PROVE Distinct(new[g])
  BY <1>5, <1>6, <1>8
<1>11. sb \in ToSet(new[empty])
  BY <1>3, <1>6, <1>8
<1> QED
  BY <1>2, <1>3, <1>8, <1>9, <1>10, <1>11 DEF Fit

-----------------------------------------------------------------------------
(* What a processor does with its superblocks *)

\* AW says for each superblock what is away of it.
Tiled(super, AW) == \A t \in SuperBlocks : AW[t] \in SUBSET Starts /\ IsTiled(super[t], AW[t])

\* localFreeBlocks.
LEMMA LocalFreed ==
  ASSUME NEW p \in BlockProcs, NEW super \in Supers, NEW groups \in Lists, Fit(p, super, groups),
         NEW AW, Tiled(super, AW), NEW b \in BlockGroups, b.start \in AW[b.sb],
         super[b.sb].owner = p,
         NEW after, after = localFreeBlocks([super |-> super, groups |-> groups], b)
  PROVE  /\ after.super \in Supers /\ after.groups \in Lists /\ Fit(p, after.super, after.groups)
         /\ \A t \in SuperBlocks : t # b.sb => after.super[t] = super[t]
         /\ after.super[b.sb].owner = p
         /\ IsTiled(after.super[b.sb], AW[b.sb] \ {b.start})
<1>1. b.sb \in SuperBlocks /\ b.start \in Starts
  BY DEF BlockGroups
<1> PICK sb \in SuperBlocks : sb = b.sb
  BY <1>1
<1> PICK a \in AW[sb] : a = b.start
  OBVIOUS
<1> PICK n : n = deallocateInSuperBlock(super[sb], a)
  OBVIOUS
<1>2. super[sb] \in SuperRecords /\ AW[sb] \in SUBSET Starts /\ IsTiled(super[sb], AW[sb])
  BY DEF Supers, Tiled
<1>3. n \in SuperRecords /\ n.owner = p /\ IsTiled(n, AW[sb] \ {a})
  BY <1>2, Deallocated
<1> PICK next : next = [super EXCEPT ![sb] = n]
  OBVIOUS
<1> PICK new : new = Relink(groups, sb, Belongs(super[sb]), Belongs(n))
  OBVIOUS
<1>5. next \in Supers /\ \A t \in SuperBlocks : next[t] = IF t = sb THEN n ELSE super[t]
  BY <1>3 DEF Supers
<1>6. new \in Lists /\ Fit(p, next, new)
  BY <1>3, RelinkFits
<1>7. after.super = next /\ after.groups = new
  BY DEF localFreeBlocks, Belongs
<1>8. /\ \A t \in SuperBlocks : t # sb => next[t] = super[t]
      /\ next[sb].owner = p /\ IsTiled(next[sb], AW[sb] \ {a})
  BY <1>3, <1>5
<1> QED
  BY <1>5, <1>6, <1>7, <1>8

\* The list that tryAllocateAndAdjustSuperBlocks uses.
LEMMA Target ==
  ASSUME NEW p \in BlockProcs, NEW super \in Supers, NEW groups \in Lists, Fit(p, super, groups),
         NEW class \in SizeClasses, Usable(groups, class) # {},
         NEW list, list = TargetList(groups, class), NEW id, id = Head(groups[list])
  PROVE  /\ id \in SuperBlocks /\ super[id].owner = p /\ list = Belongs(super[id])
         /\ super[id].numBlocksFree # SuperSize => super[id].sizeClass = class
         /\ GroupSize(class) <= super[id].numBlocksFree
<1>1. Usable(groups, class) \subseteq 1 .. 4
  BY DEF Usable
<1>2. \E i \in Usable(groups, class) : \A j \in Usable(groups, class) : i <= j
  <2>1. CASE 1 \in Usable(groups, class)
    BY <2>1, <1>1
  <2>2. CASE 1 \notin Usable(groups, class) /\ 2 \in Usable(groups, class)
    BY <2>2, <1>1
  <2>3. CASE 1 \notin Usable(groups, class) /\ 2 \notin Usable(groups, class)
             /\ 3 \in Usable(groups, class)
    BY <2>3, <1>1
  <2>4. CASE Usable(groups, class) \subseteq {4}
    BY <2>4
  <2> QED
    BY <2>1, <2>2, <2>3, <2>4, <1>1
<1>3. PICK i : i = CHOOSE k \in Usable(groups, class) : \A j \in Usable(groups, class) : k <= j
  OBVIOUS
<1>4. i \in Usable(groups, class)
  BY <1>2, <1>3
<1>5. i \in 1 .. 4 /\ list = SearchOrder(class)[i] /\ groups[list] # <<>>
  BY <1>3, <1>4 DEF TargetList, Usable
<1>6. \/ list \in {<<class, 1>>, <<class, 2>>, <<class, 3>>}
      \/ list = <<0, 4>>
  BY <1>5 DEF SearchOrder, NEARLY_FULL, SOMEWHAT_FULL, NEARLY_EMPTY, COMPLETELY_EMPTY
<1>7. list \in Groups
  BY <1>6 DEF Groups, NEARLY_EMPTY, COMPLETELY_EMPTY, COMPLETELY_FULL
<1>8. id \in SuperBlocks /\ id \in ToSet(groups[list])
  <2>1. groups[list] \in Seq(SuperBlocks)
    BY <1>7 DEF Lists
  <2> QED
    BY <2>1, <1>5, WithoutHead
<1>9. super[id].owner = p /\ list = Belongs(super[id])
  BY <1>7, <1>8 DEF Fit
<1>10. /\ super[id] \in SuperRecords /\ fullness(super[id]) \in 0 .. 4
       /\ fullness(super[id]) = 4 <=> super[id].numBlocksFree = SuperSize
       /\ fullness(super[id]) = 0 <=> super[id].numBlocksFree < GroupSize(super[id].sizeClass)
  BY <1>8, FullnessFacts DEF Supers, COMPLETELY_EMPTY, COMPLETELY_FULL
<1>11. /\ super[id].numBlocksFree \in 0 .. SuperSize /\ GroupSize(class) \in 1 .. SuperSize
       /\ super[id].sizeClass \in SizeClasses /\ SuperSize \in Nat
  BY <1>10, Sizes DEF SuperRecords
<1>12. list = IF fullness(super[id]) = 4 THEN <<0, 4>> ELSE <<super[id].sizeClass, fullness(super[id])>>
  BY <1>9 DEF Belongs, GroupOf, COMPLETELY_EMPTY
<1>13. CASE fullness(super[id]) = 4
  <2>1. super[id].numBlocksFree = SuperSize
    BY <1>13, <1>10
  <2>2. GroupSize(class) <= SuperSize
    BY <1>11
  <2> QED
    BY <2>1, <2>2, <1>8, <1>9
<1>14. CASE fullness(super[id]) # 4
  <2>1. list = <<super[id].sizeClass, fullness(super[id])>>
    BY <1>12, <1>14
  <2>2. list[2] # 4 /\ list[1] = super[id].sizeClass /\ list[2] = fullness(super[id])
    <3>1. PICK f : f = fullness(super[id])
      OBVIOUS
    <3>2. PICK c : c = super[id].sizeClass
      OBVIOUS
    <3>3. list = <<c, f>>
      BY <2>1, <3>1, <3>2
    <3>4. list[1] = c /\ list[2] = f
      BY <3>3
    <3>5. f # 4
      BY <1>14, <3>1
    <3> QED
      BY <3>1, <3>2, <3>4, <3>5
  <2>3. list # <<0, 4>>
    BY <2>2
  <2>4. super[id].sizeClass = class /\ fullness(super[id]) # 0
    BY <2>2, <2>3, <1>6
  <2> QED
    <3>1. GroupSize(class) <= super[id].numBlocksFree
      <4>1. ~(super[id].numBlocksFree < GroupSize(class))
        BY <2>4, <1>10
      <4>2. super[id].numBlocksFree \in Int /\ GroupSize(class) \in Int
        BY <1>11
      <4> QED
        BY <4>1, <4>2
    <3> QED
      BY <3>1, <2>4, <1>8, <1>9
<1> QED
  BY <1>13, <1>14

Pair(super, groups) == [super |-> super, groups |-> groups]

\* What it leaves: one group more is away.
HandedOut(p, super, AW, after) ==
  \E b \in BlockGroups :
    /\ after.result = b /\ b.start \notin AW[b.sb]
    /\ after.super \in Supers /\ after.groups \in Lists
    /\ Fit(p, after.super, after.groups)
    /\ \A t \in SuperBlocks : t # b.sb => after.super[t] = super[t]
    /\ super[b.sb].owner = p /\ after.super[b.sb].owner = p
    /\ IsTiled(after.super[b.sb], AW[b.sb] \cup {b.start})

\* tryAllocateAndAdjustSuperBlocks, when a list can be used.
LEMMA TryAllocates ==
  ASSUME NEW p \in BlockProcs, NEW super \in Supers, NEW groups \in Lists, Fit(p, super, groups),
         NEW AW, Tiled(super, AW), NEW class \in SizeClasses, Usable(groups, class) # {},
         NEW after, after = tryAllocateAndAdjustSuperBlocks(Pair(super, groups), class)
  PROVE  HandedOut(p, super, AW, after)
<1> PICK list : list = TargetList(groups, class)
  OBVIOUS
<1> PICK id : id = Head(groups[list])
  OBVIOUS
<1>1. /\ id \in SuperBlocks /\ super[id].owner = p /\ list = Belongs(super[id])
      /\ super[id].numBlocksFree # SuperSize => super[id].sizeClass = class
      /\ GroupSize(class) <= super[id].numBlocksFree
  BY Target
<1> PICK old : old = super[id]
  OBVIOUS
<1> PICK ready : ready = ForClass(old, class)
  OBVIOUS
<1> PICK n : n = allocateInSuperBlock(ready)
  OBVIOUS
<1> PICK a : a = StartIn(ready)
  OBVIOUS
<1>2. old \in SuperRecords /\ AW[id] \in SUBSET Starts /\ IsTiled(old, AW[id]) /\ old.owner = p
  BY <1>1 DEF Supers, Tiled
<1>3. /\ ready \in SuperRecords /\ ready.owner = p /\ ready.sizeClass = class
      /\ ready.numBlocksFree = old.numBlocksFree /\ IsTiled(ready, AW[id])
  <2>1. old.numBlocksFree # SuperSize => old.sizeClass = class
    BY <1>1
  <2>2. PICK A \in SUBSET Starts : A = AW[id]
    BY <1>2
  <2>3. IsTiled(old, A)
    BY <1>2, <2>2
  <2>4. /\ ready \in SuperRecords /\ ready.owner = old.owner /\ ready.sizeClass = class
        /\ ready.numBlocksFree = old.numBlocksFree /\ IsTiled(ready, A)
    BY <1>2, <2>1, <2>3, ForClassFacts
  <2> QED
    BY <1>2, <2>2, <2>4
<1>4. /\ n \in SuperRecords /\ n.owner = p /\ n.sizeClass = class
      /\ a \in Starts \ AW[id] /\ IsTiled(n, AW[id] \cup {a})
      /\ n.numBlocksFree < old.numBlocksFree
  <2>1. GroupSize(ready.sizeClass) <= ready.numBlocksFree
    BY <1>1, <1>3
  <2>2. /\ n \in SuperRecords /\ n.owner = ready.owner /\ n.sizeClass = ready.sizeClass
        /\ a \in Starts \ AW[id] /\ IsTiled(n, AW[id] \cup {a})
        /\ n.numBlocksFree < ready.numBlocksFree
    BY <2>1, <1>2, <1>3, Allocated
  <2> QED
    BY <2>2, <1>3
<1> PICK next : next = [super EXCEPT ![id] = n]
  OBVIOUS
<1>5. next \in Supers /\ \A t \in SuperBlocks : next[t] = IF t = id THEN n ELSE super[t]
  BY <1>1, <1>4 DEF Supers
<1>6. /\ after.super = next /\ after.result = [sb |-> id, start |-> a]
      /\ after.groups = IF fullness(old) = fullness(n) THEN groups
                        ELSE Relink(groups, id, list, GroupOf(class, fullness(n)))
  BY DEF tryAllocateAndAdjustSuperBlocks, Pair
<1>7. after.groups \in Lists /\ Fit(p, next, after.groups)
  <2>1. CASE fullness(old) = fullness(n)
    <3>1. n.numBlocksFree # SuperSize
      BY <1>2, <1>4, Sizes DEF SuperRecords
    <3>2. fullness(n) # COMPLETELY_EMPTY /\ old.numBlocksFree # SuperSize
      BY <3>1, <2>1, <1>2, <1>4, FullnessFacts
    <3>3. Belongs(n) = Belongs(old)
      BY <3>2, <2>1, <1>1, <1>4 DEF Belongs
    <3>4. Fit(p, next, groups)
      BY <3>3, <1>1, <1>2, <1>4, StayFits
    <3> QED
      BY <3>4, <2>1, <1>6
  <2>2. CASE fullness(old) # fullness(n)
    <3>1. after.groups = Relink(groups, id, list, Belongs(n))
      BY <2>2, <1>4, <1>6 DEF Belongs
    <3>2. super[id].owner = p /\ list = Belongs(super[id]) /\ n \in SuperRecords /\ n.owner = p
      BY <1>1, <1>4
    <3>3. PICK new : new = Relink(groups, id, list, Belongs(n))
      OBVIOUS
    <3>4. new \in Lists /\ Fit(p, next, new)
      BY ZenonT(30), <3>2, <3>3, <1>1, RelinkFits
    <3> QED
      BY <3>1, <3>3, <3>4
  <2> QED
    BY <2>1, <2>2
<1>8. PICK b \in BlockGroups : b = [sb |-> id, start |-> a]
  BY <1>1, <1>4 DEF BlockGroups
<1>9. b.sb = id /\ b.start = a
  BY <1>8
<1>10. /\ after.result = b /\ a \notin AW[id] /\ after.super = next
       /\ \A t \in SuperBlocks : t # id => next[t] = super[t]
       /\ next[id].owner = p /\ IsTiled(next[id], AW[id] \cup {a})
  BY <1>1, <1>4, <1>5, <1>6, <1>8
<1> QED
  BY <1>1, <1>5, <1>7, <1>9, <1>10 DEF HandedOut

-----------------------------------------------------------------------------
(* Size classes *)

Below == OpToRel(<, Nat)

\* Numbers are well-founded.
LEMMA BelowIsWellFounded == IsWellFoundedOn(Below, Nat)
BY NatLessThanWellFounded, Zenon DEF Below

\* A set of numbers has a least one.
LEMMA Least ==
  ASSUME NEW S \in SUBSET Nat, S # {}
  PROVE  \E x \in S : \A y \in S : x <= y
<1>1. PICK x \in S : \A y \in S : <<y, x>> \notin Below
  BY BelowIsWellFounded, WFMin
<1>2. ASSUME NEW y \in S, ~(x <= y) PROVE FALSE
  <2>1. y \in Nat /\ x \in Nat /\ y < x
    BY <1>2
  <2>2. <<y, x>> \in Below
    BY <2>1 DEF Below, OpToRel
  <2> QED
    BY <1>1, <2>2
<1> QED
  BY <1>2

\* computeSizeClass finds a class.
LEMMA HasClass ==
  ASSUME NEW n \in UNION RequestSets
  PROVE  computeSizeClass(n) \in Nat
<1>1. n \in Nat
  BY BlockAssumption
<1>2. GroupSize(n) >= n /\ \A c \in 0 .. n : GroupSize(c) \in Nat
  <2>1. n <= 2 ^ n /\ \A c \in 0 .. n : 2 ^ c \in Nat
    BY PowersAssumption
  <2>2. n \in 0 .. n
    BY <1>1
  <2>3. PICK k \in Nat : k = 2 ^ n
    BY <2>1, <2>2
  <2>4. k >= n
    BY <2>1, <2>3, <1>1
  <2> QED
    BY <2>1, <2>3, <2>4 DEF GroupSize
<1>3. PICK S : S = {c \in 0 .. n : GroupSize(c) >= n}
  OBVIOUS
<1>4. S \in SUBSET Nat /\ n \in S
  BY <1>1, <1>2, <1>3
<1>5. PICK c \in S : \A d \in S : c <= d
  BY <1>4, Least
<1>6. c \in 0 .. n /\ GroupSize(c) >= n
  BY <1>3
<1>7. ASSUME NEW d \in 0 .. c - 1 PROVE GroupSize(d) < n
  <2>1. d \in 0 .. n /\ ~(c <= d)
    BY <1>1, <1>6
  <2>2. d \notin S
    BY <2>1, <1>5
  <2>3. ~(GroupSize(d) >= n) /\ GroupSize(d) \in Nat
    BY <2>1, <2>2, <1>2, <1>3
  <2> QED
    BY <2>3, <1>1
<1>8. \E k \in 0 .. n : GroupSize(k) >= n /\ \A d \in 0 .. k - 1 : GroupSize(d) < n
  BY <1>6, <1>7
<1>9. computeSizeClass(n) \in 0 .. n
  BY <1>8 DEF computeSizeClass
<1> QED
  BY <1>1, <1>9

-----------------------------------------------------------------------------
(* The invariant *)

CallerRecords ==
  [pc : {"idle", "take", "return", "local", "push"}, n : {0} \cup requests,
   topElem : BlockGroups \cup {BlockNil}, taken : Seq(BlockGroups),
   elem : BlockGroups \cup {BlockNil}, oldVal : BlockGroups \cup {BlockNil}]

\* What a processor that is in a call has with it.
CallerOk(c) ==
  /\ c.pc \in {"take", "return", "local"} =>
       c.n \in requests /\ computeSizeClass(c.n) \in SizeClasses
  /\ c.pc = "push" => c.elem \in BlockGroups
  /\ c.pc # "return" => c.taken = <<>>
CallersInv == \A p \in BlockProcs : CallerOk(caller[p])

\* Nothing was handed out of a superblock that was not mapped.
OwnedInv ==
  \A sb \in SuperBlocks : superBlock[sb].owner = BlockNil => superBlock[sb].numBlocksFree = SuperSize

AW == [sb \in SuperBlocks |-> Away(sb)]

\* BlocksAreWhole in the terms of the lemmas.
SuperInv == Tiled(superBlock, AW) /\ \A p \in BlockProcs : Fit(p, superBlock, fullnessGroup[p])
IInv ==
  /\ BlockTypeOK /\ InOnePlace /\ SuperInv /\ MegaBlocksAreWhole
  /\ CallersInv /\ OwnedInv

\* BlockTypeOK in the names used here.
LEMMA Types ==
  ASSUME BlockTypeOK
  PROVE  /\ superBlock \in Supers
         /\ caller \in [BlockProcs -> CallerRecords]
         /\ \A p \in BlockProcs :
              /\ fullnessGroup[p] \in Lists
              /\ firstFreedByOther[p] \in Seq(BlockGroups)
              /\ caller[p] \in CallerRecords /\ caller[p].taken \in Seq(BlockGroups)
         /\ held \subseteq BlockGroups /\ requests \in SUBSET UNION RequestSets
BY DEF BlockTypeOK, Supers, SuperRecords, Lists, CallerRecords

\* A group is away when its start is among those of its superblock.
LEMMA AwayFacts ==
  /\ \A sb \in SuperBlocks : AW[sb] = Away(sb)
  /\ \A b \in BlockGroups : b.sb \in SuperBlocks /\ b.start \in Starts
                            /\ (b.start \in AW[b.sb] <=> IsAway(b))
<1>1. \A sb \in SuperBlocks : AW[sb] = Away(sb)
  BY DEF AW
<1>2. ASSUME NEW b \in BlockGroups
      PROVE  b.sb \in SuperBlocks /\ b.start \in Starts /\ b = [sb |-> b.sb, start |-> b.start]
  BY DEF BlockGroups
<1>3. ASSUME NEW b \in BlockGroups PROVE b.start \in AW[b.sb] <=> IsAway(b)
  BY <1>1, <1>2 DEF Away
<1> QED
  BY <1>1, <1>2, <1>3

\* SuperInv says what the properties say.
LEMMA SuperProperties ==
  ASSUME BlockTypeOK
  PROVE  SuperInv <=> SuperBlocksAreTiled /\ GroupsAreRight
<1>1. Tiled(superBlock, AW) <=> SuperBlocksAreTiled
  BY AwayFacts DEF Tiled, SuperBlocksAreTiled, Away
<1>2. ASSUME NEW p \in BlockProcs, NEW g \in Groups
      PROVE  \A x : Contains(fullnessGroup[p][g], x) <=> x \in ToSet(fullnessGroup[p][g])
  <2>1. fullnessGroup[p][g] \in Seq(SuperBlocks)
    BY Types DEF Lists
  <2> QED
    BY <2>1, Listed
<1>3. ASSUME NEW p \in BlockProcs
      PROVE  Fit(p, superBlock, fullnessGroup[p]) <=>
             \A g \in Groups :
               /\ Distinct(fullnessGroup[p][g])
               /\ \A sb \in SuperBlocks : Contains(fullnessGroup[p][g], sb) <=>
                    superBlock[sb].owner = p /\ g = Belongs(superBlock[sb])
  BY <1>2 DEF Fit
<1>4. GroupsAreRight <=> \A p \in BlockProcs : Fit(p, superBlock, fullnessGroup[p])
  BY <1>3 DEF GroupsAreRight, Belongs
<1> QED
  BY <1>1, <1>4 DEF SuperInv

-----------------------------------------------------------------------------
(* What steps leave alone *)

\* A step that leaves the superblocks alone and moves groups from place to place.
LEMMA SupersKept ==
  ASSUME SuperInv, OwnedInv, UNCHANGED <<superBlock, fullnessGroup>>,
         \A b \in BlockGroups : IsAway(b)' <=> IsAway(b)
  PROVE  SuperInv' /\ OwnedInv'
<1>1. ASSUME NEW sb \in SuperBlocks PROVE Away(sb)' = Away(sb)
  <2>1. \A a \in Starts : [sb |-> sb, start |-> a] \in BlockGroups
    BY DEF BlockGroups
  <2> QED
    BY <2>1 DEF Away
<1>2. AW' = AW
  BY <1>1 DEF AW
<1>3. SuperInv'
  BY <1>2 DEF SuperInv
<1> QED
  BY <1>3 DEF OwnedInv

\* A step that leaves the megablocks alone.
LEMMA MegasKept ==
  ASSUME MegaBlocksAreWhole, UNCHANGED <<megaBlockList, numBlocks, heldMega>>
  PROVE  MegaBlocksAreWhole'
BY DEF MegaBlocksAreWhole

\* A step of one processor changes what it has with it.
LEMMA CallerSteps ==
  ASSUME BlockTypeOK, CallersInv, NEW p \in BlockProcs, NEW c \in CallerRecords, CallerOk(c),
         caller' = [caller EXCEPT ![p] = c], requests' = requests
  PROVE  /\ CallersInv' /\ caller' \in [BlockProcs -> CallerRecords]
         /\ CallerRecords' = CallerRecords
         /\ \A q \in BlockProcs : caller'[q] = IF q = p THEN c ELSE caller[q]
<1>1. CallerRecords' = CallerRecords
  BY DEF CallerRecords
<1>2. caller \in [BlockProcs -> CallerRecords]
  BY Types
<1>3. /\ caller' \in [BlockProcs -> CallerRecords]
      /\ \A q \in BlockProcs : caller'[q] = IF q = p THEN c ELSE caller[q]
  BY <1>2
<1>4. ASSUME NEW q \in BlockProcs PROVE CallerOk(caller[q])'
  <2>1. CallerOk(caller[q]) /\ CallerOk(c)
    BY DEF CallersInv
  <2>2. CASE q = p
    BY <2>1, <2>2, <1>3 DEF CallerOk
  <2>3. CASE q # p
    BY <2>1, <2>3, <1>3 DEF CallerOk
  <2> QED
    BY <2>2, <2>3
<1> QED
  BY <1>1, <1>3, <1>4 DEF CallersInv

\* The places of groups after a step that changes only what is named.
LEMMA SamePlaces ==
  ASSUME NEW p \in BlockProcs, InOnePlace, UNCHANGED <<held, firstFreedByOther>>,
         \A q \in BlockProcs : q # p => caller'[q] = caller[q],
         caller'[p].taken = caller[p].taken,
         caller'[p].pc = "push" <=> caller[p].pc = "push",
         caller'[p].pc = "push" => caller'[p].elem = caller[p].elem,
         \A sb \in SuperBlocks : superBlock'[sb].owner = superBlock[sb].owner,
         BlockTypeOK
  PROVE  InOnePlace' /\ \A b \in BlockGroups : IsAway(b)' <=> IsAway(b)
<1>1. Pushing' = Pushing /\ \A q \in Pushing : caller'[q].elem = caller[q].elem
  BY DEF Pushing
<1>2. \A q \in BlockProcs : caller'[q].taken = caller[q].taken /\ firstFreedByOther'[q] = firstFreedByOther[q]
  OBVIOUS
<1>3. ASSUME NEW q \in BlockProcs PROVE Returned(q)' = Returned(q) /\ Returned(q) \subseteq BlockGroups
  <2>1. Returned(q)' = Returned(q)
    BY <1>2 DEF Returned
  <2>2. Returned(q) \subseteq BlockGroups
    BY Types, Listed DEF Returned
  <2> QED
    BY <2>1, <2>2
<1>4. InOnePlace'
  <2>1. \A b \in BlockGroups : superBlock'[b.sb].owner = superBlock[b.sb].owner
    BY AwayFacts
  <2> QED
    BY <2>1, <1>1, <1>2, <1>3 DEF InOnePlace
<1>5. \A b \in BlockGroups : IsAway(b)' <=> IsAway(b)
  BY <1>1, <1>3 DEF IsAway
<1> QED
  BY <1>4, <1>5

-----------------------------------------------------------------------------
(* What steps change *)

\* The parts of BlockTypeOK.
LEMMA TypesNext ==
  ASSUME BlockTypeOK, requests' = requests, superBlock' \in Supers,
         fullnessGroup' \in [BlockProcs -> Lists],
         firstFreedByOther' \in [BlockProcs -> Seq(BlockGroups)],
         caller' \in [BlockProcs -> CallerRecords],
         megaBlockList' \in [MegaClasses -> Seq(MegaBlocks)],
         numBlocks' \in [MegaBlocks -> {0} \cup requests], allocations' \in Nat,
         held' \subseteq BlockGroups, heldMega' \subseteq [mega : MegaBlocks, asked : requests],
         outOfSpace' \in BOOLEAN
  PROVE  BlockTypeOK'
<1>1. superBlock' \in [SuperBlocks ->
       [owner : BlockProcs \cup {BlockNil}, sizeClass : SizeClasses,
        numBlocksFree : 0 .. SuperSize, firstFree : Seq(Starts), frontier : 0 .. SuperSize]]
  BY DEF Supers, SuperRecords
<1>2. caller' \in [BlockProcs ->
       [pc : {"idle", "take", "return", "local", "push"}, n : {0} \cup requests,
        topElem : BlockGroups \cup {BlockNil}, taken : Seq(BlockGroups),
        elem : BlockGroups \cup {BlockNil}, oldVal : BlockGroups \cup {BlockNil}]]
  BY DEF CallerRecords
<1>3. fullnessGroup' \in [BlockProcs -> [Groups -> Seq(SuperBlocks)]]
  BY DEF Lists
<1>4. requests' \in RequestSets
  BY DEF BlockTypeOK
<1> QED
  BY <1>1, <1>2, <1>3, <1>4 DEF BlockTypeOK

\* One group is not away any more, or one more is.
LEMMA AwayChanges ==
  ASSUME NEW b \in BlockGroups
  PROVE  /\ (\A c \in BlockGroups : IsAway(c)' <=> IsAway(c) /\ c # b) =>
              Away(b.sb)' = Away(b.sb) \ {b.start}
         /\ (\A c \in BlockGroups : IsAway(c)' <=> IsAway(c) \/ c = b) =>
              Away(b.sb)' = Away(b.sb) \cup {b.start}
<1>1. b.sb \in SuperBlocks /\ b.start \in Starts /\ b = [sb |-> b.sb, start |-> b.start]
  BY DEF BlockGroups
<1>2. ASSUME NEW a \in Starts
      PROVE  /\ [sb |-> b.sb, start |-> a] \in BlockGroups
             /\ [sb |-> b.sb, start |-> a] = b <=> a = b.start
  <2>1. [sb |-> b.sb, start |-> a] \in BlockGroups
    BY <1>1 DEF BlockGroups
  <2>2. [sb |-> b.sb, start |-> a] = b => a = b.start
    <3>1. [sb |-> b.sb, start |-> a].start = a
      OBVIOUS
    <3> QED
      BY <3>1
  <2>3. a = b.start => [sb |-> b.sb, start |-> a] = b
    BY <1>1
  <2> QED
    BY <2>1, <2>2, <2>3
<1>3. ASSUME \A c \in BlockGroups : IsAway(c)' <=> IsAway(c) /\ c # b
      PROVE  Away(b.sb)' = Away(b.sb) \ {b.start}
  <2>1. ASSUME NEW a \in Starts
        PROVE  IsAway([sb |-> b.sb, start |-> a])' <=> IsAway([sb |-> b.sb, start |-> a]) /\ a # b.start
    BY <1>2, <1>3
  <2> QED
    BY <2>1 DEF Away
<1>4. ASSUME \A c \in BlockGroups : IsAway(c)' <=> IsAway(c) \/ c = b
      PROVE  Away(b.sb)' = Away(b.sb) \cup {b.start}
  <2>1. ASSUME NEW a \in Starts
        PROVE  IsAway([sb |-> b.sb, start |-> a])' <=> IsAway([sb |-> b.sb, start |-> a]) \/ a = b.start
    BY <1>2, <1>4
  <2> QED
    BY <2>1, <1>1 DEF Away
<1> QED
  BY <1>3, <1>4

\* A step of p that changes superblocks which are p's now, and the groups of
\* one of them that are away.
LEMMA SuperChanges ==
  ASSUME BlockTypeOK, SuperInv, OwnedInv, NEW p \in BlockProcs, NEW x \in SuperBlocks,
         NEW next \in Supers, superBlock' = next, NEW lists \in Lists,
         fullnessGroup' = [fullnessGroup EXCEPT ![p] = lists], Fit(p, next, lists),
         \A t \in SuperBlocks :
           next[t] = superBlock[t] \/ (superBlock[t].owner \in {p, BlockNil} /\ next[t].owner = p),
         IsTiled(next[x], Away(x)'), \A t \in SuperBlocks : t # x => IsTiled(next[t], Away(t)),
         \A b \in BlockGroups : b.sb # x => (IsAway(b)' <=> IsAway(b))
  PROVE  SuperInv' /\ OwnedInv' /\ fullnessGroup' \in [BlockProcs -> Lists]
<1>1. superBlock \in Supers /\ fullnessGroup \in [BlockProcs -> Lists]
  BY Types DEF BlockTypeOK, Lists
<1>2. /\ fullnessGroup' \in [BlockProcs -> Lists]
      /\ \A q \in BlockProcs : fullnessGroup'[q] = IF q = p THEN lists ELSE fullnessGroup[q]
  BY <1>1
<1>3. p # BlockNil
  BY BlockAssumption
<1>4. OwnedInv'
  BY <1>3 DEF OwnedInv
<1>5. ASSUME NEW q \in BlockProcs PROVE Fit(q, next, fullnessGroup'[q])
  <2>1. CASE q = p
    BY <2>1, <1>2
  <2>2. CASE q # p
    <3>1. Fit(q, superBlock, fullnessGroup[q])
      BY DEF SuperInv
    <3>2. \A t \in SuperBlocks :
            next[t] = superBlock[t] \/ (superBlock[t].owner # q /\ next[t].owner # q)
      BY <2>2, BlockAssumption
    <3>3. Fit(q, next, fullnessGroup[q])
      BY <3>1, <3>2, <1>1, OthersFit
    <3> QED
      BY <3>3, <2>2, <1>2
  <2> QED
    BY <2>1, <2>2
<1>6. ASSUME NEW t \in SuperBlocks PROVE Away(t)' \in SUBSET Starts /\ IsTiled(next[t], Away(t)')
  <2>1. Away(t)' \in SUBSET Starts
    BY DEF Away
  <2>2. CASE t # x
    <3>1. \A a \in Starts : [sb |-> t, start |-> a] \in BlockGroups /\ [sb |-> t, start |-> a].sb = t
      BY DEF BlockGroups
    <3>2. Away(t)' = Away(t)
      BY <2>2, <3>1 DEF Away
    <3>3. IsTiled(next[t], Away(t))
      BY <2>2
    <3> QED
      BY <2>1, <3>2, <3>3
  <2> QED
    BY <2>1, <2>2
<1>7. AW' = [t \in SuperBlocks |-> Away(t)']
  BY DEF AW
<1>8. Tiled(superBlock', AW')
  BY <1>6, <1>7 DEF Tiled
<1>9. SuperInv'
  BY <1>5, <1>8 DEF SuperInv
<1> QED
  BY <1>2, <1>4, <1>9

\* The owner of a superblock of which a group is away is a processor.
LEMMA AwayIsOwned ==
  ASSUME BlockTypeOK, SuperInv, OwnedInv, NEW b \in BlockGroups, IsAway(b)
  PROVE  superBlock[b.sb].owner \in BlockProcs /\ b.start \in AW[b.sb]
<1>1. b.sb \in SuperBlocks /\ b.start \in AW[b.sb]
  BY AwayFacts
<1>2. superBlock[b.sb] \in SuperRecords /\ AW[b.sb] \in SUBSET Starts
      /\ IsTiled(superBlock[b.sb], AW[b.sb])
  BY <1>1, Types DEF Supers, SuperInv, Tiled
<1>3. superBlock[b.sb].numBlocksFree # SuperSize
  BY <1>1, <1>2, NoneAway
<1>4. superBlock[b.sb].owner # BlockNil
  BY <1>1, <1>3 DEF OwnedInv
<1> QED
  BY <1>1, <1>2, <1>4 DEF SuperRecords

-----------------------------------------------------------------------------
(* The places of groups *)

\* A superblock that has an owner keeps it.
KeptOwners == \A sb \in SuperBlocks : superBlock[sb].owner # BlockNil => superBlock'[sb].owner = superBlock[sb].owner

\* What was returned to a processor is groups.
LEMMA ReturnedTypes ==
  ASSUME BlockTypeOK, NEW q \in BlockProcs
  PROVE  /\ Returned(q) \subseteq BlockGroups /\ q # BlockNil
         /\ firstFreedByOther[q] \in Seq(BlockGroups) /\ caller[q].taken \in Seq(BlockGroups)
<1>1. firstFreedByOther[q] \in Seq(BlockGroups) /\ caller[q].taken \in Seq(BlockGroups)
  BY Types
<1>2. Returned(q) \subseteq BlockGroups
  BY <1>1, Listed DEF Returned
<1> QED
  BY <1>1, <1>2, BlockAssumption

\* TakeOtherFrees: the whole list is taken.
LEMMA PlacesTaken ==
  ASSUME NEW p \in BlockProcs, BlockTypeOK, InOnePlace, caller[p].taken = <<>>,
         UNCHANGED <<superBlock, held>>, firstFreedByOther' = [firstFreedByOther EXCEPT ![p] = <<>>],
         \A q \in BlockProcs : q # p => caller'[q] = caller[q],
         caller'[p].taken = firstFreedByOther[p], caller'[p].pc # "push", caller[p].pc # "push"
  PROVE  InOnePlace' /\ \A b \in BlockGroups : IsAway(b)' <=> IsAway(b)
<1>1. Pushing' = Pushing /\ p \notin Pushing /\ \A q \in Pushing : caller'[q].elem = caller[q].elem
  BY DEF Pushing
<1>2. firstFreedByOther'[p] = <<>> /\ \A q \in BlockProcs : q # p => firstFreedByOther'[q] = firstFreedByOther[q]
  BY DEF BlockTypeOK
<1>3. ASSUME NEW q \in BlockProcs
      PROVE  /\ Returned(q)' = Returned(q)
             /\ Distinct(firstFreedByOther'[q]) /\ Distinct(caller'[q].taken)
             /\ ToSet(firstFreedByOther'[q]) \cap ToSet(caller'[q].taken) = {}
  <2>1. /\ Distinct(firstFreedByOther[q]) /\ Distinct(caller[q].taken)
        /\ ToSet(firstFreedByOther[q]) \cap ToSet(caller[q].taken) = {}
    BY DEF InOnePlace
  <2>2. CASE q = p
    BY <2>1, <2>2, <1>2, EmptyList DEF Returned
  <2>3. CASE q # p
    BY <2>1, <2>3, <1>2 DEF Returned
  <2> QED
    BY <2>2, <2>3
<1>4. InOnePlace'
  BY <1>1, <1>3 DEF InOnePlace
<1>5. \A b \in BlockGroups : IsAway(b)' <=> IsAway(b)
  BY <1>1, <1>3 DEF IsAway
<1> QED
  BY <1>4, <1>5

\* ReturnTaken: the head of the list goes back.
LEMMA PlacesReturned ==
  ASSUME NEW p \in BlockProcs, BlockTypeOK, InOnePlace, caller[p].taken # <<>>,
         UNCHANGED <<held, firstFreedByOther>>, KeptOwners,
         \A q \in BlockProcs : q # p => caller'[q] = caller[q],
         caller'[p].taken = Tail(caller[p].taken), caller'[p].pc # "push", caller[p].pc # "push",
         NEW b, b = Head(caller[p].taken)
  PROVE  /\ b \in BlockGroups /\ IsAway(b) /\ superBlock[b.sb].owner = p
         /\ InOnePlace' /\ \A c \in BlockGroups : IsAway(c)' <=> IsAway(c) /\ c # b
<1>1. Pushing' = Pushing /\ p \notin Pushing /\ \A q \in Pushing : caller'[q].elem = caller[q].elem
  BY DEF Pushing
<1>2. caller[p].taken \in Seq(BlockGroups) /\ Distinct(caller[p].taken)
      /\ ToSet(firstFreedByOther[p]) \cap ToSet(caller[p].taken) = {}
  BY ReturnedTypes DEF InOnePlace
<1>3. /\ b \in BlockGroups /\ b \in ToSet(caller[p].taken)
      /\ Distinct(caller'[p].taken) /\ ToSet(caller'[p].taken) = ToSet(caller[p].taken) \ {b}
  BY <1>2, WithoutHead
<1>4. b \in Returned(p) /\ b \notin ToSet(firstFreedByOther[p])
  BY <1>2, <1>3 DEF Returned
<1>5. /\ superBlock[b.sb].owner = p /\ b \notin held
      /\ \A q \in Pushing : caller[q].elem # b
  BY <1>4 DEF InOnePlace
<1>6. \A q \in BlockProcs : b \in Returned(q) => q = p
  BY <1>5 DEF InOnePlace
<1>7. ASSUME NEW q \in BlockProcs
      PROVE  /\ \A c : c \in Returned(q)' <=> c \in Returned(q) /\ c # b
             /\ Distinct(firstFreedByOther'[q]) /\ Distinct(caller'[q].taken)
             /\ ToSet(firstFreedByOther'[q]) \cap ToSet(caller'[q].taken) = {}
  <2>1. /\ Distinct(firstFreedByOther[q]) /\ Distinct(caller[q].taken)
        /\ ToSet(firstFreedByOther[q]) \cap ToSet(caller[q].taken) = {}
    BY DEF InOnePlace
  <2>2. CASE q = p
    <3>1. \A c : c \in Returned(p)' <=> c \in Returned(p) /\ c # b
      BY <1>3, <1>4 DEF Returned
    <3> QED
      BY <3>1, <2>1, <2>2, <1>3
  <2>3. CASE q # p
    <3>1. Returned(q)' = Returned(q)
      BY <2>3 DEF Returned
    <3>2. b \notin Returned(q)
      BY <2>3, <1>6
    <3> QED
      BY <3>1, <3>2, <2>1, <2>3
  <2> QED
    BY <2>2, <2>3
<1>8. ASSUME NEW q \in BlockProcs, NEW c \in Returned(q)' PROVE superBlock'[c.sb].owner = q
  <2>1. c \in Returned(q) /\ q # BlockNil /\ c \in BlockGroups
    BY <1>7, <1>8, ReturnedTypes
  <2>2. superBlock[c.sb].owner = q /\ c.sb \in SuperBlocks
    BY <2>1, AwayFacts DEF InOnePlace
  <2> QED
    BY <2>1, <2>2 DEF KeptOwners
<1>9. InOnePlace'
  BY SMTT(30), <1>1, <1>7, <1>8 DEF InOnePlace
<1>10. ASSUME NEW c \in BlockGroups PROVE IsAway(c)' <=> IsAway(c) /\ c # b
  BY <1>1, <1>5, <1>7 DEF IsAway
<1>11. IsAway(b)
  BY <1>4 DEF IsAway
<1> QED
  BY <1>3, <1>5, <1>9, <1>10, <1>11

\* HandOutBlocks: a group that is not away is in use.
LEMMA PlacesHandedOut ==
  ASSUME NEW p \in BlockProcs, BlockTypeOK, InOnePlace, NEW b \in BlockGroups, ~IsAway(b),
         held' = held \cup {b}, UNCHANGED firstFreedByOther, KeptOwners,
         \A q \in BlockProcs : q # p => caller'[q] = caller[q],
         caller'[p].taken = caller[p].taken, caller'[p].pc # "push", caller[p].pc # "push"
  PROVE  InOnePlace' /\ \A c \in BlockGroups : IsAway(c)' <=> IsAway(c) \/ c = b
<1>1. Pushing' = Pushing /\ p \notin Pushing /\ \A q \in Pushing : caller'[q].elem = caller[q].elem
  BY DEF Pushing
<1>2. \A q \in BlockProcs : caller'[q].taken = caller[q].taken
  OBVIOUS
<1>3. \A q \in BlockProcs : Returned(q)' = Returned(q)
  BY <1>2 DEF Returned
<1>4. /\ \A q \in BlockProcs : b \notin Returned(q)
      /\ \A q \in Pushing : caller[q].elem # b
  BY DEF IsAway
<1>5. ASSUME NEW q \in BlockProcs, NEW c \in Returned(q)' PROVE superBlock'[c.sb].owner = q
  <2>1. c \in Returned(q) /\ q # BlockNil /\ c \in BlockGroups
    BY <1>3, <1>5, ReturnedTypes
  <2>2. superBlock[c.sb].owner = q /\ c.sb \in SuperBlocks
    BY <2>1, AwayFacts DEF InOnePlace
  <2> QED
    BY <2>1, <2>2 DEF KeptOwners
<1>6. InOnePlace'
  BY SMTT(30), <1>1, <1>2, <1>3, <1>4, <1>5 DEF InOnePlace
<1>7. ASSUME NEW c \in BlockGroups PROVE IsAway(c)' <=> IsAway(c) \/ c = b
  BY <1>1, <1>3 DEF IsAway
<1> QED
  BY <1>6, <1>7

\* FreeOwn: a group in use goes back.
LEMMA PlacesFreed ==
  ASSUME BlockTypeOK, InOnePlace, NEW b \in held,
         held' = held \ {b}, UNCHANGED <<firstFreedByOther, caller>>, KeptOwners
  PROVE  InOnePlace' /\ \A c \in BlockGroups : IsAway(c)' <=> IsAway(c) /\ c # b
<1>1. Pushing' = Pushing /\ \A q \in BlockProcs : Returned(q)' = Returned(q)
  BY DEF Pushing, Returned
<1>2. /\ \A q \in BlockProcs : b \notin Returned(q)
      /\ \A q \in Pushing : caller[q].elem # b
  BY DEF InOnePlace
<1>3. ASSUME NEW q \in BlockProcs, NEW c \in Returned(q)' PROVE superBlock'[c.sb].owner = q
  <2>1. c \in Returned(q) /\ q # BlockNil /\ c \in BlockGroups
    BY <1>1, <1>3, ReturnedTypes
  <2>2. superBlock[c.sb].owner = q /\ c.sb \in SuperBlocks
    BY <2>1, AwayFacts DEF InOnePlace
  <2> QED
    BY <2>1, <2>2 DEF KeptOwners
<1>4. InOnePlace'
  BY <1>1, <1>3 DEF InOnePlace
<1>5. ASSUME NEW c \in BlockGroups PROVE IsAway(c)' <=> IsAway(c) /\ c # b
  BY <1>1, <1>2 DEF IsAway
<1> QED
  BY <1>4, <1>5

\* FreeOther: a group in use is on its way to the owner's list.
LEMMA PlacesPushing ==
  ASSUME NEW p \in BlockProcs, BlockTypeOK, InOnePlace, NEW b \in held,
         held' = held \ {b}, UNCHANGED <<superBlock, firstFreedByOther>>,
         \A q \in BlockProcs : q # p => caller'[q] = caller[q],
         caller'[p].taken = caller[p].taken, caller[p].pc # "push",
         caller'[p].pc = "push", caller'[p].elem = b
  PROVE  InOnePlace' /\ \A c \in BlockGroups : IsAway(c)' <=> IsAway(c)
<1>1. /\ \A q : q \in Pushing' <=> q \in Pushing \/ q = p
      /\ p \notin Pushing /\ \A q \in Pushing : caller'[q].elem = caller[q].elem
  BY DEF Pushing
<1>2. \A q \in BlockProcs : caller'[q].taken = caller[q].taken
  OBVIOUS
<1>3. \A q \in BlockProcs : Returned(q)' = Returned(q)
  BY <1>2 DEF Returned
<1>4. /\ \A q \in BlockProcs : b \notin Returned(q)
      /\ \A q \in Pushing : caller[q].elem # b
  BY DEF InOnePlace
<1>5. ASSUME NEW q \in Pushing', NEW r \in Pushing', caller'[q].elem = caller'[r].elem PROVE q = r
  BY <1>1, <1>4, <1>5 DEF InOnePlace
<1>6. ASSUME NEW q \in Pushing' PROVE caller'[q].elem \notin held'
  BY <1>1, <1>6 DEF InOnePlace
<1>7. ASSUME NEW q \in BlockProcs, NEW c \in Returned(q)', NEW r \in Pushing' PROVE caller'[r].elem # c
  BY <1>1, <1>3, <1>4, <1>7 DEF InOnePlace
<1>8. InOnePlace'
  BY <1>2, <1>3, <1>5, <1>6, <1>7 DEF InOnePlace
<1>9. ASSUME NEW c \in BlockGroups PROVE IsAway(c)' <=> IsAway(c)
  <2>1. (\E q \in Pushing' : caller'[q].elem = c) <=> c = b \/ \E q \in Pushing : caller[q].elem = c
    BY <1>1
  <2> QED
    BY <2>1, <1>3 DEF IsAway
<1> QED
  BY <1>8, <1>9

\* PushFreed: the group is in the owner's list.
LEMMA PlacesPushed ==
  ASSUME NEW p \in BlockProcs, BlockTypeOK, InOnePlace, caller[p].pc = "push",
         NEW b \in BlockGroups, b = caller[p].elem, NEW o \in BlockProcs, superBlock[b.sb].owner = o,
         UNCHANGED <<superBlock, held>>,
         firstFreedByOther' = [firstFreedByOther EXCEPT ![o] = <<b>> \o @],
         \A q \in BlockProcs : q # p => caller'[q] = caller[q],
         caller'[p].taken = caller[p].taken, caller'[p].pc # "push"
  PROVE  /\ InOnePlace' /\ firstFreedByOther' \in [BlockProcs -> Seq(BlockGroups)]
         /\ \A c \in BlockGroups : IsAway(c)' <=> IsAway(c)
<1>1. /\ \A q : q \in Pushing' <=> q \in Pushing /\ q # p
      /\ p \in Pushing /\ \A q \in Pushing' : caller'[q].elem = caller[q].elem
  BY DEF Pushing
<1>2. \A q \in BlockProcs : caller'[q].taken = caller[q].taken
  BY DEF BlockTypeOK
<1>3. PICK list : list = InFront(b, firstFreedByOther[o])
  OBVIOUS
<1>4. /\ \A q \in BlockProcs : b \notin Returned(q)
      /\ b \notin held /\ \A q \in Pushing : caller[q].elem = b => q = p
  BY <1>1 DEF InOnePlace
<1>5. /\ Distinct(firstFreedByOther[o]) /\ b \notin ToSet(firstFreedByOther[o])
      /\ b \notin ToSet(caller[o].taken) /\ firstFreedByOther[o] \in Seq(BlockGroups)
  BY <1>4, ReturnedTypes DEF InOnePlace, Returned
<1>6. list \in Seq(BlockGroups) /\ Distinct(list)
  BY SMTT(30), <1>3, <1>5, Prepended
<1>7. ASSUME NEW c PROVE c \in ToSet(list) <=> c \in ToSet(firstFreedByOther[o]) \/ c = b
  <2>1. PICK s \in Seq(BlockGroups) : s = firstFreedByOther[o]
    BY <1>5
  <2>2. \A y : y \in ToSet(InFront(b, s)) <=> y \in ToSet(s) \/ y = b
    BY PrependedSet
  <2> QED
    BY <2>1, <2>2, <1>3
<1>8. /\ firstFreedByOther' \in [BlockProcs -> Seq(BlockGroups)]
      /\ \A q \in BlockProcs : firstFreedByOther'[q] = IF q = o THEN list ELSE firstFreedByOther[q]
  <2>1. firstFreedByOther' = [firstFreedByOther EXCEPT ![o] = list]
    BY <1>3 DEF InFront
  <2>2. firstFreedByOther \in [BlockProcs -> Seq(BlockGroups)]
    BY DEF BlockTypeOK
  <2> QED
    BY ZenonT(30), <2>1, <2>2, <1>6
<1>9. ASSUME NEW q \in BlockProcs
      PROVE  /\ \A c : c \in Returned(q)' <=> c \in Returned(q) \/ (q = o /\ c = b)
             /\ Distinct(firstFreedByOther'[q]) /\ Distinct(caller'[q].taken)
             /\ ToSet(firstFreedByOther'[q]) \cap ToSet(caller'[q].taken) = {}
  <2>1. /\ Distinct(firstFreedByOther[q]) /\ Distinct(caller[q].taken)
        /\ ToSet(firstFreedByOther[q]) \cap ToSet(caller[q].taken) = {}
    BY DEF InOnePlace
  <2>2. CASE q = o
    <3>1. \A c : c \in Returned(o)' <=> c \in Returned(o) \/ c = b
      BY <1>2, <1>7, <1>8 DEF Returned
    <3>2. ToSet(list) \cap ToSet(caller[o].taken) = {}
      BY <2>1, <2>2, <1>5, <1>7
    <3> QED
      BY <3>1, <3>2, <2>1, <2>2, <1>2, <1>6, <1>8
  <2>3. CASE q # o
    <3>1. Returned(q)' = Returned(q)
      BY <2>3, <1>2, <1>8 DEF Returned
    <3> QED
      BY <3>1, <2>1, <2>3, <1>2, <1>8
  <2> QED
    BY <2>2, <2>3
<1>10. ASSUME NEW q \in BlockProcs, NEW c \in Returned(q)'
       PROVE  /\ superBlock'[c.sb].owner = q /\ c \notin held'
              /\ \A r \in Pushing' : caller'[r].elem # c
  <2>1. CASE c \in Returned(q)
    BY <2>1, <1>1 DEF InOnePlace
  <2>2. CASE q = o /\ c = b
    BY <2>2, <1>1, <1>4
  <2> QED
    BY <2>1, <2>2, <1>9, <1>10
<1>11. /\ \A q, r \in Pushing' : caller'[q].elem = caller'[r].elem => q = r
       /\ \A q \in Pushing' : caller'[q].elem \notin held'
  BY <1>1 DEF InOnePlace
<1>12. InOnePlace'
  BY <1>9, <1>10, <1>11 DEF InOnePlace
<1>13. ASSUME NEW c \in BlockGroups PROVE IsAway(c)' <=> IsAway(c)
  <2>1. (\E q \in Pushing : caller[q].elem = c) <=> c = b \/ \E q \in Pushing' : caller'[q].elem = c
    BY <1>1
  <2>2. (\E q \in BlockProcs : c \in Returned(q)') <=> c = b \/ \E q \in BlockProcs : c \in Returned(q)
    BY <1>9
  <2> QED
    BY <2>1, <2>2 DEF IsAway
<1> QED
  BY <1>8, <1>12, <1>13

-----------------------------------------------------------------------------
(* Every step preserves the invariant *)

OwnersKept == \A sb \in SuperBlocks : superBlock'[sb].owner = superBlock[sb].owner

\* The top of a list is a group or NULL.
LEMMA HeadOfType ==
  ASSUME NEW list \in Seq(BlockGroups)
  PROVE  HeadOf(list) \in BlockGroups \cup {BlockNil}
BY WithoutHead DEF HeadOf

\* A step of p that changes no superblock and no megablock.
LEMMA PlainStep ==
  ASSUME IInv, NEW p \in BlockProcs, NEW c \in CallerRecords, CallerOk(c),
         caller' = [caller EXCEPT ![p] = c],
         UNCHANGED <<superBlock, fullnessGroup, megaBlockList, numBlocks, requests, heldMega>>,
         allocations' \in Nat, outOfSpace' \in BOOLEAN, held' \subseteq BlockGroups,
         firstFreedByOther' \in [BlockProcs -> Seq(BlockGroups)],
         InOnePlace', \A b \in BlockGroups : IsAway(b)' <=> IsAway(b)
  PROVE  IInv' /\ OwnersKept
<1>1. BlockTypeOK /\ SuperInv /\ MegaBlocksAreWhole /\ CallersInv /\ OwnedInv
  BY DEF IInv
<1>2. SuperInv' /\ OwnedInv'
  BY <1>1, SupersKept
<1>3. MegaBlocksAreWhole'
  BY <1>1, MegasKept
<1>4. CallersInv' /\ caller' \in [BlockProcs -> CallerRecords]
  BY <1>1, CallerSteps
<1>5. /\ superBlock \in Supers /\ fullnessGroup \in [BlockProcs -> Lists]
      /\ megaBlockList \in [MegaClasses -> Seq(MegaBlocks)]
      /\ numBlocks \in [MegaBlocks -> {0} \cup requests]
      /\ heldMega \subseteq [mega : MegaBlocks, asked : requests]
  BY <1>1, Types DEF BlockTypeOK, Lists
<1>6. BlockTypeOK'
  BY <1>1, <1>4, <1>5, TypesNext
<1> QED
  BY <1>2, <1>3, <1>4, <1>6 DEF IInv, OwnersKept

\* The look at the top of the list of the others' frees.
LEMMA AllocateBlocksKeeps ==
  ASSUME IInv, NEW p \in BlockProcs, NEW n \in requests, AllocateBlocks(p, n)
  PROVE  IInv' /\ OwnersKept
<1>1. BlockTypeOK /\ InOnePlace /\ CallersInv
  BY DEF IInv
<1>2. /\ firstFreedByOther[p] \in Seq(BlockGroups) /\ caller \in [BlockProcs -> CallerRecords]
      /\ CallerOk(caller[p]) /\ n \in UNION RequestSets
  BY <1>1, Types DEF CallersInv
<1>3. PICK c : c = [IdleCaller EXCEPT !.n = n, !.topElem = HeadOf(firstFreedByOther[p]),
                      !.pc = IF firstFreedByOther[p] = <<>> THEN "local" ELSE "take"]
  OBVIOUS
<1>4. /\ caller[p].pc = "idle" /\ allocations' = allocations + 1 /\ requests' = requests
      /\ computeSizeClass(n) < superblockThreshold /\ caller' = [caller EXCEPT ![p] = c]
      /\ UNCHANGED <<superBlock, fullnessGroup, firstFreedByOther, megaBlockList,
                     numBlocks, held, heldMega, outOfSpace>>
  BY <1>3 DEF AllocateBlocks, MayAllocateBlocks, CallerAt
<1>5. /\ c = [pc |-> IF firstFreedByOther[p] = <<>> THEN "local" ELSE "take", n |-> n,
              topElem |-> HeadOf(firstFreedByOther[p]), taken |-> <<>>,
              elem |-> BlockNil, oldVal |-> BlockNil]
  BY <1>3 DEF IdleCaller
<1>6. /\ c.pc \in {"local", "take"} /\ c.taken = <<>> /\ c.n = n
      /\ c \in CallerRecords
  BY <1>2, <1>5, HeadOfType, EmptyList DEF CallerRecords
<1>7. computeSizeClass(n) \in SizeClasses
  BY <1>2, <1>4, HasClass, BlockAssumption DEF SizeClasses
<1>8. CallerOk(c) /\ caller[p].taken = <<>>
  BY <1>2, <1>4, <1>6, <1>7 DEF CallerOk
<1>9. \A q \in BlockProcs : caller'[q] = IF q = p THEN c ELSE caller[q]
  BY <1>2, <1>4
<1>10. InOnePlace' /\ \A b \in BlockGroups : IsAway(b)' <=> IsAway(b)
  <2>1. /\ \A q \in BlockProcs : q # p => caller'[q] = caller[q]
        /\ caller'[p].taken = caller[p].taken /\ caller'[p].pc # "push" /\ caller[p].pc # "push"
    BY <1>4, <1>6, <1>8, <1>9
  <2> QED
    BY <1>1, <1>4, <2>1, SamePlaces
<1>11. /\ allocations' \in Nat /\ outOfSpace' \in BOOLEAN /\ held' \subseteq BlockGroups
       /\ firstFreedByOther' \in [BlockProcs -> Seq(BlockGroups)]
  BY <1>1, <1>4 DEF BlockTypeOK
<1> QED
  BY <1>4, <1>6, <1>8, <1>10, <1>11, PlainStep

\* The whole list is taken, or its top was another.
LEMMA TakeOtherFreesKeeps ==
  ASSUME IInv, NEW p \in BlockProcs, TakeOtherFrees(p)
  PROVE  IInv' /\ OwnersKept
<1>1. BlockTypeOK /\ InOnePlace /\ CallersInv
  BY DEF IInv
<1>2. /\ firstFreedByOther[p] \in Seq(BlockGroups) /\ caller \in [BlockProcs -> CallerRecords]
      /\ caller[p] \in CallerRecords /\ CallerOk(caller[p])
      /\ firstFreedByOther \in [BlockProcs -> Seq(BlockGroups)]
  BY <1>1, Types DEF CallersInv, BlockTypeOK
<1>3. /\ caller[p].pc = "take" /\ requests' = requests /\ allocations' = allocations
      /\ UNCHANGED <<superBlock, fullnessGroup, megaBlockList, numBlocks, held, heldMega, outOfSpace>>
  BY DEF TakeOtherFrees, CallerAt, program
<1>4. caller[p].taken = <<>>
  BY <1>2, <1>3 DEF CallerOk
<1>5. allocations' \in Nat /\ outOfSpace' \in BOOLEAN /\ held' \subseteq BlockGroups
  BY <1>1, <1>3 DEF BlockTypeOK
<1>6. CASE /\ firstFreedByOther' = [firstFreedByOther EXCEPT ![p] = <<>>]
           /\ caller' = [caller EXCEPT ![p].pc = "return", ![p].taken = firstFreedByOther[p]]
  <2>1. PICK c : c = [caller[p] EXCEPT !.pc = "return", !.taken = firstFreedByOther[p]]
    OBVIOUS
  <2>2. /\ c.pc = "return" /\ c.taken = firstFreedByOther[p] /\ c.n = caller[p].n
        /\ c \in CallerRecords
    BY <1>2, <2>1 DEF CallerRecords
  <2>3. caller' = [caller EXCEPT ![p] = c]
    BY <1>2, <1>6, <2>1
  <2>4. CallerOk(c)
    BY <1>2, <1>3, <2>2 DEF CallerOk
  <2>5. \A q \in BlockProcs : caller'[q] = IF q = p THEN c ELSE caller[q]
    BY <1>2, <2>3
  <2>6. InOnePlace' /\ \A b \in BlockGroups : IsAway(b)' <=> IsAway(b)
    <3>1. /\ \A q \in BlockProcs : q # p => caller'[q] = caller[q]
          /\ caller'[p].taken = firstFreedByOther[p]
          /\ caller'[p].pc # "push" /\ caller[p].pc # "push"
      BY <1>3, <2>2, <2>5
    <3>2. firstFreedByOther' = [firstFreedByOther EXCEPT ![p] = <<>>]
      BY <1>6
    <3> QED
      BY <1>1, <1>3, <1>4, <3>1, <3>2, PlacesTaken
  <2>7. firstFreedByOther' \in [BlockProcs -> Seq(BlockGroups)]
    BY <1>2, <1>6, EmptyList
  <2> QED
    BY <1>3, <1>5, <2>2, <2>3, <2>4, <2>6, <2>7, PlainStep
<1>7. CASE /\ caller' = [caller EXCEPT ![p].topElem = HeadOf(firstFreedByOther[p])]
           /\ UNCHANGED firstFreedByOther
  <2>1. PICK c : c = [caller[p] EXCEPT !.topElem = HeadOf(firstFreedByOther[p])]
    OBVIOUS
  <2>2. /\ c.pc = "take" /\ c.taken = <<>> /\ c.n = caller[p].n
        /\ c \in CallerRecords
    BY <1>2, <1>3, <1>4, <2>1, HeadOfType DEF CallerRecords
  <2>3. caller' = [caller EXCEPT ![p] = c]
    BY <1>2, <1>7, <2>1
  <2>4. CallerOk(c)
    BY <1>2, <1>3, <2>2 DEF CallerOk
  <2>5. \A q \in BlockProcs : caller'[q] = IF q = p THEN c ELSE caller[q]
    BY <1>2, <2>3
  <2>6. InOnePlace' /\ \A b \in BlockGroups : IsAway(b)' <=> IsAway(b)
    <3>1. /\ \A q \in BlockProcs : q # p => caller'[q] = caller[q]
          /\ caller'[p].taken = caller[p].taken
          /\ caller'[p].pc # "push" /\ caller[p].pc # "push"
      BY <1>3, <1>4, <2>2, <2>5
    <3> QED
      BY <1>1, <1>3, <1>7, <3>1, SamePlaces
  <2>7. firstFreedByOther' \in [BlockProcs -> Seq(BlockGroups)]
    BY <1>2, <1>7
  <2> QED
    BY <1>3, <1>5, <2>2, <2>3, <2>4, <2>6, <2>7, PlainStep
<1> QED
  BY <1>6, <1>7 DEF TakeOtherFrees

\* What was taken is back.
LEMMA AllReturnedKeeps ==
  ASSUME IInv, NEW p \in BlockProcs, AllReturned(p)
  PROVE  IInv' /\ OwnersKept
<1>1. BlockTypeOK /\ InOnePlace /\ CallersInv
  BY DEF IInv
<1>2. /\ caller \in [BlockProcs -> CallerRecords]
      /\ caller[p] \in CallerRecords /\ CallerOk(caller[p])
      /\ firstFreedByOther \in [BlockProcs -> Seq(BlockGroups)]
  BY <1>1, Types DEF CallersInv, BlockTypeOK
<1>3. /\ caller[p].pc = "return" /\ caller[p].taken = <<>>
      /\ requests' = requests /\ allocations' = allocations
      /\ UNCHANGED <<superBlock, fullnessGroup, firstFreedByOther, megaBlockList, numBlocks, held,
                     heldMega, outOfSpace>>
  BY DEF AllReturned, CallerAt, program
<1>4. PICK c : c = [caller[p] EXCEPT !.pc = "local"]
  OBVIOUS
<1>5. c.pc = "local" /\ c.taken = <<>> /\ c.n = caller[p].n /\ c \in CallerRecords
  BY <1>2, <1>3, <1>4 DEF CallerRecords
<1>6. caller' = [caller EXCEPT ![p] = c]
  BY <1>2, <1>4 DEF AllReturned
<1>7. CallerOk(c)
  BY <1>2, <1>3, <1>5 DEF CallerOk
<1>8. \A q \in BlockProcs : caller'[q] = IF q = p THEN c ELSE caller[q]
  BY <1>2, <1>6
<1>9. InOnePlace' /\ \A b \in BlockGroups : IsAway(b)' <=> IsAway(b)
  <2>1. /\ \A q \in BlockProcs : q # p => caller'[q] = caller[q]
        /\ caller'[p].taken = caller[p].taken
        /\ caller'[p].pc # "push" /\ caller[p].pc # "push"
    BY <1>3, <1>5, <1>8
  <2> QED
    BY <1>1, <1>3, <2>1, SamePlaces
<1>10. /\ allocations' \in Nat /\ outOfSpace' \in BOOLEAN /\ held' \subseteq BlockGroups
       /\ firstFreedByOther' \in [BlockProcs -> Seq(BlockGroups)]
  BY <1>1, <1>2, <1>3 DEF BlockTypeOK
<1> QED
  BY <1>3, <1>5, <1>6, <1>7, <1>9, <1>10, PlainStep

\* A group of another processor's superblock is freed.
LEMMA FreeOtherKeeps ==
  ASSUME IInv, NEW p \in BlockProcs, NEW b \in held, FreeOther(p, b)
  PROVE  IInv' /\ OwnersKept
<1>1. BlockTypeOK /\ InOnePlace /\ CallersInv /\ SuperInv /\ OwnedInv
  BY DEF IInv
<1>2. /\ caller \in [BlockProcs -> CallerRecords] /\ b \in BlockGroups
      /\ caller[p] \in CallerRecords /\ CallerOk(caller[p])
      /\ firstFreedByOther \in [BlockProcs -> Seq(BlockGroups)]
  BY <1>1, Types DEF CallersInv, BlockTypeOK
<1>3. PICK o : o = superBlock[b.sb].owner
  OBVIOUS
<1>4. o \in BlockProcs
  <2>1. IsAway(b)
    BY DEF IsAway
  <2> QED
    BY <2>1, <1>1, <1>2, <1>3, AwayIsOwned
<1>5. PICK c : c = [IdleCaller EXCEPT !.pc = "push", !.elem = b, !.oldVal = HeadOf(firstFreedByOther[o])]
  OBVIOUS
<1>6. /\ caller[p].pc = "idle" /\ held' = held \ {b} /\ caller' = [caller EXCEPT ![p] = c]
      /\ requests' = requests /\ allocations' = allocations
      /\ UNCHANGED <<superBlock, fullnessGroup, firstFreedByOther, megaBlockList, numBlocks,
                     heldMega, outOfSpace>>
  BY <1>3, <1>5 DEF FreeOther, CallerAt, program
<1>7. c = [pc |-> "push", n |-> 0, topElem |-> BlockNil, taken |-> <<>>,
           elem |-> b, oldVal |-> HeadOf(firstFreedByOther[o])]
  BY <1>5 DEF IdleCaller
<1>8. c.pc = "push" /\ c.taken = <<>> /\ c.elem = b /\ c \in CallerRecords
  BY <1>2, <1>4, <1>7, HeadOfType, EmptyList DEF CallerRecords
<1>9. CallerOk(c) /\ caller[p].taken = <<>>
  BY <1>2, <1>6, <1>8 DEF CallerOk
<1>10. \A q \in BlockProcs : caller'[q] = IF q = p THEN c ELSE caller[q]
  BY <1>2, <1>6
<1>11. InOnePlace' /\ \A d \in BlockGroups : IsAway(d)' <=> IsAway(d)
  <2>1. /\ \A q \in BlockProcs : q # p => caller'[q] = caller[q]
        /\ caller'[p].taken = caller[p].taken /\ caller[p].pc # "push"
        /\ caller'[p].pc = "push" /\ caller'[p].elem = b
    BY <1>6, <1>8, <1>9, <1>10
  <2> QED
    BY <1>1, <1>6, <2>1, PlacesPushing
<1>12. /\ allocations' \in Nat /\ outOfSpace' \in BOOLEAN /\ held' \subseteq BlockGroups
       /\ firstFreedByOther' \in [BlockProcs -> Seq(BlockGroups)]
  BY <1>1, <1>2, <1>6 DEF BlockTypeOK
<1> QED
  BY <1>6, <1>8, <1>9, <1>11, <1>12, PlainStep

\* It is pushed, or the top was another.
LEMMA PushFreedKeeps ==
  ASSUME IInv, NEW p \in BlockProcs, PushFreed(p)
  PROVE  IInv' /\ OwnersKept
<1>1. BlockTypeOK /\ InOnePlace /\ CallersInv /\ SuperInv /\ OwnedInv
  BY DEF IInv
<1>2. /\ caller \in [BlockProcs -> CallerRecords]
      /\ caller[p] \in CallerRecords /\ CallerOk(caller[p])
      /\ firstFreedByOther \in [BlockProcs -> Seq(BlockGroups)]
  BY <1>1, Types DEF CallersInv, BlockTypeOK
<1>3. /\ caller[p].pc = "push" /\ requests' = requests /\ allocations' = allocations
      /\ UNCHANGED <<superBlock, fullnessGroup, megaBlockList, numBlocks, held,
                     heldMega, outOfSpace>>
  BY DEF PushFreed, CallerAt, program
<1>4. caller[p].taken = <<>> /\ caller[p].elem \in BlockGroups
  BY <1>2, <1>3 DEF CallerOk
<1>5. PICK b \in BlockGroups : b = caller[p].elem
  BY <1>4
<1>6. PICK o : o = superBlock[b.sb].owner
  OBVIOUS
<1>7. o \in BlockProcs
  <2>1. IsAway(b)
    BY <1>3, <1>5 DEF IsAway, Pushing
  <2> QED
    BY <2>1, <1>1, <1>6, AwayIsOwned
<1>8. allocations' \in Nat /\ outOfSpace' \in BOOLEAN /\ held' \subseteq BlockGroups
  BY <1>1, <1>3 DEF BlockTypeOK
<1>9. CASE /\ firstFreedByOther' = [firstFreedByOther EXCEPT ![o] = <<b>> \o @]
           /\ caller' = [caller EXCEPT ![p] = IdleCaller]
  <2>1. /\ IdleCaller \in CallerRecords /\ CallerOk(IdleCaller)
        /\ IdleCaller.pc = "idle" /\ IdleCaller.taken = <<>>
    BY EmptyList DEF IdleCaller, CallerRecords, CallerOk
  <2>2. \A q \in BlockProcs : caller'[q] = IF q = p THEN IdleCaller ELSE caller[q]
    BY <1>2, <1>9
  <2>3. /\ InOnePlace' /\ firstFreedByOther' \in [BlockProcs -> Seq(BlockGroups)]
        /\ \A c \in BlockGroups : IsAway(c)' <=> IsAway(c)
    <3>1. /\ \A q \in BlockProcs : q # p => caller'[q] = caller[q]
          /\ caller'[p].taken = caller[p].taken /\ caller'[p].pc # "push"
      BY <1>4, <2>1, <2>2
    <3>2. /\ firstFreedByOther' = [firstFreedByOther EXCEPT ![o] = <<b>> \o @]
          /\ superBlock[b.sb].owner = o
      BY <1>6, <1>9
    <3> QED
      BY <1>1, <1>3, <1>5, <1>7, <3>1, <3>2, PlacesPushed
  <2>4. caller' = [caller EXCEPT ![p] = IdleCaller]
    BY <1>9
  <2>5. PICK c \in CallerRecords : c = IdleCaller
    BY <2>1
  <2> QED
    BY <1>3, <1>8, <2>1, <2>3, <2>4, <2>5, PlainStep
<1>10. CASE /\ caller' = [caller EXCEPT ![p].oldVal = HeadOf(firstFreedByOther[o])]
            /\ UNCHANGED firstFreedByOther
  <2>1. PICK c : c = [caller[p] EXCEPT !.oldVal = HeadOf(firstFreedByOther[o])]
    OBVIOUS
  <2>2. c.pc = "push" /\ c.taken = <<>> /\ c.elem = caller[p].elem /\ c \in CallerRecords
    BY <1>2, <1>3, <1>4, <1>7, <2>1, HeadOfType DEF CallerRecords
  <2>3. caller' = [caller EXCEPT ![p] = c]
    BY <1>2, <1>10, <2>1
  <2>4. CallerOk(c)
    BY <1>4, <2>2 DEF CallerOk
  <2>5. \A q \in BlockProcs : caller'[q] = IF q = p THEN c ELSE caller[q]
    BY <1>2, <2>3
  <2>6. InOnePlace' /\ \A d \in BlockGroups : IsAway(d)' <=> IsAway(d)
    <3>1. /\ \A q \in BlockProcs : q # p => caller'[q] = caller[q]
          /\ caller'[p].taken = caller[p].taken
          /\ caller'[p].pc = "push" /\ caller[p].pc = "push" /\ caller'[p].elem = caller[p].elem
      BY <1>3, <1>4, <2>2, <2>5
    <3> QED
      BY <1>1, <1>3, <1>10, <3>1, SamePlaces
  <2>7. firstFreedByOther' \in [BlockProcs -> Seq(BlockGroups)]
    BY <1>2, <1>10
  <2> QED
    BY <1>3, <1>8, <2>2, <2>3, <2>4, <2>6, <2>7, PlainStep
<1> QED
  BY <1>5, <1>6, <1>9, <1>10 DEF PushFreed

\* The program dies.
LEMMA Dies ==
  ASSUME IInv, NEW p \in BlockProcs, outOfSpace' = TRUE, requests' = requests, allocations' \in Nat,
         UNCHANGED <<superBlock, fullnessGroup, firstFreedByOther, caller, megaBlockList, numBlocks,
                     held, heldMega>>
  PROVE  IInv' /\ OwnersKept
<1>1. BlockTypeOK /\ InOnePlace /\ CallersInv
  BY DEF IInv
<1>2. /\ caller \in [BlockProcs -> CallerRecords] /\ caller[p] \in CallerRecords /\ CallerOk(caller[p])
  BY <1>1, Types DEF CallersInv
<1>3. UNCHANGED <<superBlock, fullnessGroup, firstFreedByOther, caller, megaBlockList, numBlocks,
                  held, heldMega>>
  OBVIOUS
<1>4. PICK c \in CallerRecords : c = caller[p]
  BY <1>2
<1>5. caller' = [caller EXCEPT ![p] = c] /\ CallerOk(c)
  BY <1>2, <1>3, <1>4
<1>6. InOnePlace' /\ \A b \in BlockGroups : IsAway(b)' <=> IsAway(b)
  BY <1>1, <1>3, SamePlaces
<1>7. /\ allocations' \in Nat /\ outOfSpace' \in BOOLEAN /\ held' \subseteq BlockGroups
      /\ firstFreedByOther' \in [BlockProcs -> Seq(BlockGroups)]
  BY <1>1, <1>3 DEF BlockTypeOK
<1> QED
  BY <1>3, <1>5, <1>6, <1>7, PlainStep

\* It dies when no superblock can be mapped,
LEMMA RunOutOfSpaceKeeps ==
  ASSUME IInv, NEW p \in BlockProcs, RunOutOfSpace(p)
  PROVE  IInv' /\ OwnersKept
<1>1. allocations \in Nat
  BY DEF IInv, BlockTypeOK
<1>2. /\ outOfSpace' = TRUE /\ requests' = requests /\ allocations' = allocations
      /\ UNCHANGED <<superBlock, fullnessGroup, firstFreedByOther, caller, megaBlockList, numBlocks,
                     held, heldMega>>
  BY DEF RunOutOfSpace, program
<1> QED
  BY <1>1, <1>2, Dies

\* or no megablock.
LEMMA RunOutOfMegaKeeps ==
  ASSUME IInv, NEW p \in BlockProcs, NEW n \in requests, RunOutOfMega(p, n)
  PROVE  IInv' /\ OwnersKept
<1>1. allocations \in Nat
  BY DEF IInv, BlockTypeOK
<1>2. /\ outOfSpace' = TRUE /\ requests' = requests /\ allocations' = allocations + 1
      /\ UNCHANGED <<superBlock, fullnessGroup, firstFreedByOther, caller, megaBlockList, numBlocks,
                     held, heldMega>>
  BY DEF RunOutOfMega, MayAllocateBlocks
<1>3. allocations' \in Nat
  BY <1>1, <1>2
<1> QED
  BY <1>2, <1>3, Dies

\* A step of p that changes no megablock and no list of the others.
LEMMA SuperStep ==
  ASSUME IInv, NEW p \in BlockProcs, NEW c \in CallerRecords, CallerOk(c),
         caller' = [caller EXCEPT ![p] = c],
         UNCHANGED <<firstFreedByOther, megaBlockList, numBlocks, requests, allocations,
                     heldMega, outOfSpace>>,
         held' \subseteq BlockGroups, superBlock' \in Supers,
         fullnessGroup' \in [BlockProcs -> Lists], InOnePlace', SuperInv', OwnedInv'
  PROVE  IInv'
<1>1. BlockTypeOK /\ MegaBlocksAreWhole /\ CallersInv
  BY DEF IInv
<1>2. MegaBlocksAreWhole'
  BY <1>1, MegasKept
<1>3. CallersInv' /\ caller' \in [BlockProcs -> CallerRecords]
  BY <1>1, CallerSteps
<1>4. /\ megaBlockList \in [MegaClasses -> Seq(MegaBlocks)]
      /\ numBlocks \in [MegaBlocks -> {0} \cup requests]
      /\ heldMega \subseteq [mega : MegaBlocks, asked : requests]
      /\ firstFreedByOther \in [BlockProcs -> Seq(BlockGroups)]
      /\ allocations \in Nat /\ outOfSpace \in BOOLEAN
  BY <1>1 DEF BlockTypeOK
<1>5. BlockTypeOK'
  BY <1>1, <1>3, <1>4, TypesNext
<1> QED
  BY <1>2, <1>3, <1>5 DEF IInv

\* localFreeBlocks, of a group that is away and of the processor's own.
LEMMA FreesLocally ==
  ASSUME IInv, NEW p \in BlockProcs, NEW b \in BlockGroups, IsAway(b), superBlock[b.sb].owner = p,
         Store(p, localFreeBlocks(Local(p), b))
  PROVE  /\ OwnersKept /\ KeptOwners /\ superBlock' \in Supers
         /\ (\A c \in BlockGroups : IsAway(c)' <=> IsAway(c) /\ c # b) =>
              SuperInv' /\ OwnedInv' /\ fullnessGroup' \in [BlockProcs -> Lists]
<1>1. BlockTypeOK /\ SuperInv /\ OwnedInv
  BY DEF IInv
<1>2. /\ superBlock \in Supers /\ fullnessGroup[p] \in Lists /\ Fit(p, superBlock, fullnessGroup[p])
      /\ Tiled(superBlock, AW)
  BY <1>1, Types DEF SuperInv
<1>3. b.start \in AW[b.sb] /\ b.sb \in SuperBlocks
  BY <1>1, AwayFacts
<1>4. PICK after : after = localFreeBlocks([super |-> superBlock, groups |-> fullnessGroup[p]], b)
  OBVIOUS
<1>5. PICK A : A = AW
  OBVIOUS
<1>6. Tiled(superBlock, A) /\ b.start \in A[b.sb]
  BY <1>2, <1>3, <1>5
<1>7. /\ after.super \in Supers /\ after.groups \in Lists /\ Fit(p, after.super, after.groups)
      /\ \A t \in SuperBlocks : t # b.sb => after.super[t] = superBlock[t]
      /\ after.super[b.sb].owner = p
      /\ IsTiled(after.super[b.sb], A[b.sb] \ {b.start})
  <2>1. PICK super \in Supers : super = superBlock
    BY <1>2
  <2>2. PICK groups \in Lists : groups = fullnessGroup[p]
    BY <1>2
  <2>3. /\ Fit(p, super, groups) /\ Tiled(super, A) /\ super[b.sb].owner = p
        /\ after = localFreeBlocks([super |-> super, groups |-> groups], b)
    BY <1>2, <1>4, <1>6, <2>1, <2>2
  <2>4. /\ after.super \in Supers /\ after.groups \in Lists /\ Fit(p, after.super, after.groups)
        /\ \A t \in SuperBlocks : t # b.sb => after.super[t] = super[t]
        /\ after.super[b.sb].owner = p
        /\ IsTiled(after.super[b.sb], A[b.sb] \ {b.start})
    BY <1>6, <2>3, LocalFreed
  <2> QED
    BY <2>1, <2>4
<1>8. /\ superBlock' = after.super /\ fullnessGroup' = [fullnessGroup EXCEPT ![p] = after.groups]
  BY <1>4 DEF Store, Local
<1>9. OwnersKept
  BY <1>7, <1>8 DEF OwnersKept
<1>10. KeptOwners
  BY <1>9 DEF OwnersKept, KeptOwners
<1>11. ASSUME \A c \in BlockGroups : IsAway(c)' <=> IsAway(c) /\ c # b
       PROVE  SuperInv' /\ OwnedInv' /\ fullnessGroup' \in [BlockProcs -> Lists]
  <2>1. Away(b.sb)' = Away(b.sb) \ {b.start}
    BY <1>11, AwayChanges
  <2>2. IsTiled(after.super[b.sb], Away(b.sb)')
    BY <2>1, <1>3, <1>5, <1>7, AwayFacts
  <2>3. ASSUME NEW t \in SuperBlocks, t # b.sb PROVE IsTiled(after.super[t], Away(t))
    BY <2>3, <1>2, <1>7, AwayFacts DEF Tiled
  <2>4. \A t \in SuperBlocks :
           \/ after.super[t] = superBlock[t]
           \/ superBlock[t].owner \in {p, BlockNil} /\ after.super[t].owner = p
    BY <1>7
  <2>5. ASSUME NEW c \in BlockGroups, c.sb # b.sb PROVE IsAway(c)' <=> IsAway(c)
    BY <2>5, <1>11
  <2>6. PICK next \in Supers : next = after.super
    BY <1>7
  <2>7. PICK lists \in Lists : lists = after.groups
    BY <1>7
  <2>8. PICK x \in SuperBlocks : x = b.sb
    BY <1>3
  <2>9. /\ superBlock' = next /\ fullnessGroup' = [fullnessGroup EXCEPT ![p] = lists]
        /\ Fit(p, next, lists)
        /\ \A t \in SuperBlocks :
             next[t] = superBlock[t] \/ (superBlock[t].owner \in {p, BlockNil} /\ next[t].owner = p)
        /\ IsTiled(next[x], Away(x)')
        /\ \A t \in SuperBlocks : t # x => IsTiled(next[t], Away(t))
        /\ \A c \in BlockGroups : c.sb # x => (IsAway(c)' <=> IsAway(c))
    <3>1. IsTiled(next[x], Away(x)')
      BY <2>2, <2>6, <2>8
    <3>2. \A t \in SuperBlocks : t # x => IsTiled(next[t], Away(t))
      BY <2>3, <2>6, <2>8
    <3>3. \A c \in BlockGroups : c.sb # x => (IsAway(c)' <=> IsAway(c))
      BY <2>5, <2>8
    <3>4. \A t \in SuperBlocks :
             next[t] = superBlock[t] \/ (superBlock[t].owner \in {p, BlockNil} /\ next[t].owner = p)
      BY <2>4, <2>6
    <3> QED
      BY <3>1, <3>2, <3>3, <3>4, <1>7, <1>8, <2>6, <2>7
  <2> QED
    BY <2>9, <1>1, SuperChanges
<1> QED
  BY <1>7, <1>8, <1>9, <1>10, <1>11

\* A group that was taken goes back to its superblock.
LEMMA ReturnTakenKeeps ==
  ASSUME IInv, NEW p \in BlockProcs, ReturnTaken(p)
  PROVE  IInv' /\ OwnersKept
<1>1. BlockTypeOK /\ InOnePlace /\ CallersInv
  BY DEF IInv
<1>2. /\ caller \in [BlockProcs -> CallerRecords] /\ caller[p] \in CallerRecords
      /\ CallerOk(caller[p]) /\ caller[p].taken \in Seq(BlockGroups)
  BY <1>1, Types DEF CallersInv
<1>3. PICK b : b = Head(caller[p].taken)
  OBVIOUS
<1>4. /\ caller[p].pc = "return" /\ caller[p].taken # <<>>
      /\ Store(p, localFreeBlocks(Local(p), b))
      /\ UNCHANGED <<firstFreedByOther, megaBlockList, numBlocks, requests, allocations,
                     held, heldMega, outOfSpace>>
  BY <1>3 DEF ReturnTaken, CallerAt, program
<1>5. b \in BlockGroups /\ IsAway(b) /\ superBlock[b.sb].owner = p
  <2>1. b \in BlockGroups /\ b \in ToSet(caller[p].taken)
    BY <1>2, <1>3, <1>4, WithoutHead
  <2>2. b \in Returned(p)
    BY <2>1 DEF Returned
  <2> QED
    BY <2>1, <2>2, <1>1 DEF InOnePlace, IsAway
<1>6. PICK c : c = [caller[p] EXCEPT !.taken = Tail(@)]
  OBVIOUS
<1>7. c.pc = "return" /\ c.taken = Tail(caller[p].taken) /\ c.n = caller[p].n /\ c \in CallerRecords
  <2>1. Tail(caller[p].taken) \in Seq(BlockGroups)
    BY <1>2, <1>4, WithoutHead
  <2> QED
    BY <2>1, <1>2, <1>4, <1>6 DEF CallerRecords
<1>8. caller' = [caller EXCEPT ![p] = c]
  BY <1>2, <1>6 DEF ReturnTaken
<1>9. CallerOk(c)
  BY <1>2, <1>4, <1>7 DEF CallerOk
<1>10. \A q \in BlockProcs : caller'[q] = IF q = p THEN c ELSE caller[q]
  BY <1>2, <1>8
<1>11. OwnersKept /\ KeptOwners /\ superBlock' \in Supers
  BY <1>4, <1>5, FreesLocally
<1>12. InOnePlace' /\ \A d \in BlockGroups : IsAway(d)' <=> IsAway(d) /\ d # b
  <2>1. /\ \A q \in BlockProcs : q # p => caller'[q] = caller[q]
        /\ caller'[p].taken = Tail(caller[p].taken)
        /\ caller'[p].pc # "push" /\ caller[p].pc # "push"
    BY <1>4, <1>7, <1>10
  <2> QED
    BY <1>1, <1>3, <1>4, <1>11, <2>1, PlacesReturned
<1>13. SuperInv' /\ OwnedInv' /\ fullnessGroup' \in [BlockProcs -> Lists]
  BY <1>4, <1>5, <1>12, FreesLocally
<1>14. held' \subseteq BlockGroups
  BY <1>1, <1>4 DEF BlockTypeOK
<1> QED
  BY <1>4, <1>7, <1>8, <1>9, <1>11, <1>12, <1>13, <1>14, SuperStep

\* A group of an own superblock is freed.
LEMMA FreeOwnKeeps ==
  ASSUME IInv, NEW p \in BlockProcs, NEW b \in held, FreeOwn(p, b)
  PROVE  IInv' /\ OwnersKept
<1>1. BlockTypeOK /\ InOnePlace /\ CallersInv
  BY DEF IInv
<1>2. /\ caller \in [BlockProcs -> CallerRecords] /\ caller[p] \in CallerRecords
      /\ CallerOk(caller[p]) /\ b \in BlockGroups
  BY <1>1, Types DEF CallersInv
<1>3. /\ superBlock[b.sb].owner = p /\ held' = held \ {b}
      /\ Store(p, localFreeBlocks(Local(p), b))
      /\ UNCHANGED <<firstFreedByOther, caller, megaBlockList, numBlocks, requests, allocations,
                     heldMega, outOfSpace>>
  BY DEF FreeOwn, program
<1>4. IsAway(b)
  BY DEF IsAway
<1>5. OwnersKept /\ KeptOwners /\ superBlock' \in Supers
  BY <1>2, <1>3, <1>4, FreesLocally
<1>6. InOnePlace' /\ \A d \in BlockGroups : IsAway(d)' <=> IsAway(d) /\ d # b
  BY <1>1, <1>3, <1>5, PlacesFreed
<1>7. SuperInv' /\ OwnedInv' /\ fullnessGroup' \in [BlockProcs -> Lists]
  BY <1>2, <1>3, <1>4, <1>6, FreesLocally
<1>8. held' \subseteq BlockGroups
  BY <1>1, <1>3 DEF BlockTypeOK
<1>9. PICK c \in CallerRecords : c = caller[p]
  BY <1>2
<1>10. caller' = [caller EXCEPT ![p] = c] /\ CallerOk(c)
  BY <1>2, <1>3, <1>9
<1> QED
  BY <1>3, <1>5, <1>6, <1>7, <1>8, <1>10, SuperStep

\* HandOutBlocks, from the superblocks and groups that p has then.
LEMMA HandsOut ==
  ASSUME IInv, NEW p \in BlockProcs, caller[p].pc = "local",
         NEW super \in Supers, NEW groups \in Lists, Fit(p, super, groups), Tiled(super, AW),
         \A t \in SuperBlocks :
           super[t] = superBlock[t] \/ (superBlock[t].owner = BlockNil /\ super[t].owner = p),
         Usable(groups, computeSizeClass(caller[p].n)) # {},
         NEW local, local = [super |-> super, groups |-> groups], HandOutBlocks(p, local)
  PROVE  /\ IInv' /\ \A t \in SuperBlocks : superBlock'[t].owner = super[t].owner
<1>1. BlockTypeOK /\ InOnePlace /\ CallersInv /\ SuperInv /\ OwnedInv
  BY DEF IInv
<1>2. /\ caller \in [BlockProcs -> CallerRecords] /\ caller[p] \in CallerRecords
      /\ CallerOk(caller[p]) /\ p # BlockNil /\ superBlock \in Supers
  BY <1>1, Types, BlockAssumption DEF CallersInv
<1>3. PICK class \in SizeClasses : class = computeSizeClass(caller[p].n)
  BY <1>2 DEF CallerOk
<1>4. PICK A : A = AW
  OBVIOUS
<1>5. PICK after : after = tryAllocateAndAdjustSuperBlocks([super |-> super, groups |-> groups], class)
  OBVIOUS
<1>6. PICK b \in BlockGroups :
           /\ after.result = b /\ b.start \notin A[b.sb]
           /\ after.super \in Supers /\ after.groups \in Lists
           /\ Fit(p, after.super, after.groups)
           /\ \A t \in SuperBlocks : t # b.sb => after.super[t] = super[t]
           /\ super[b.sb].owner = p /\ after.super[b.sb].owner = p
           /\ IsTiled(after.super[b.sb], A[b.sb] \cup {b.start})
  <2>1. /\ super \in Supers /\ groups \in Lists /\ Fit(p, super, groups)
        /\ Tiled(super, A) /\ Usable(groups, class) # {} /\ class \in SizeClasses
        /\ after = tryAllocateAndAdjustSuperBlocks(Pair(super, groups), class)
    BY <1>3, <1>4, <1>5 DEF Pair
  <2>2. HandedOut(p, super, A, after)
    BY <2>1, TryAllocates
  <2> QED
    BY <2>2 DEF HandedOut
<1>7. /\ superBlock' = after.super /\ fullnessGroup' = [fullnessGroup EXCEPT ![p] = after.groups]
      /\ held' = held \cup {b} /\ caller' = [caller EXCEPT ![p] = IdleCaller]
      /\ UNCHANGED <<firstFreedByOther, megaBlockList, numBlocks, requests, allocations,
                     heldMega, outOfSpace>>
  BY <1>3, <1>5, <1>6 DEF HandOutBlocks, Store, program
<1>8. ~IsAway(b) /\ b.sb \in SuperBlocks
  BY <1>4, <1>6, AwayFacts
<1>9. /\ IdleCaller \in CallerRecords /\ CallerOk(IdleCaller)
      /\ IdleCaller.pc = "idle" /\ IdleCaller.taken = <<>>
  BY EmptyList DEF IdleCaller, CallerRecords, CallerOk
<1>10. \A q \in BlockProcs : caller'[q] = IF q = p THEN IdleCaller ELSE caller[q]
  BY <1>2, <1>7
<1>11. \A t \in SuperBlocks : superBlock'[t].owner = super[t].owner
  BY <1>6, <1>7
<1>12. KeptOwners
  BY <1>11 DEF KeptOwners
<1>13. InOnePlace' /\ \A c \in BlockGroups : IsAway(c)' <=> IsAway(c) \/ c = b
  <2>1. /\ \A q \in BlockProcs : q # p => caller'[q] = caller[q]
        /\ caller'[p].taken = caller[p].taken /\ caller'[p].pc # "push" /\ caller[p].pc # "push"
    BY <1>2, <1>9, <1>10 DEF CallerOk
  <2> QED
    BY <1>1, <1>7, <1>8, <1>12, <2>1, PlacesHandedOut
<1>14. PICK next \in Supers : next = after.super
  BY <1>6
<1>15. PICK lists \in Lists : lists = after.groups
  BY <1>6
<1>16. PICK x \in SuperBlocks : x = b.sb
  BY <1>8
<1>17. IsTiled(next[x], Away(x)')
  <2>1. Away(b.sb)' = Away(b.sb) \cup {b.start}
    BY <1>13, AwayChanges
  <2> QED
    BY <2>1, <1>4, <1>6, <1>8, <1>14, <1>16, AwayFacts
<1>18. ASSUME NEW t \in SuperBlocks, t # x PROVE IsTiled(next[t], Away(t))
  <2>1. next[t] = super[t] /\ IsTiled(super[t], AW[t])
    BY <1>6, <1>14, <1>16, <1>18 DEF Tiled
  <2> QED
    BY <2>1, AwayFacts
<1>19. ASSUME NEW t \in SuperBlocks
       PROVE  next[t] = superBlock[t] \/ (superBlock[t].owner \in {p, BlockNil} /\ next[t].owner = p)
  <2>1. CASE t = x
    BY <2>1, <1>6, <1>14, <1>16
  <2>2. CASE t # x
    BY <2>2, <1>6, <1>14, <1>16
  <2> QED
    BY <2>1, <2>2
<1>20. ASSUME NEW c \in BlockGroups, c.sb # x PROVE IsAway(c)' <=> IsAway(c)
  BY <1>13, <1>16, <1>20
<1>21. SuperInv' /\ OwnedInv' /\ fullnessGroup' \in [BlockProcs -> Lists]
  <2>1. /\ superBlock' = next /\ fullnessGroup' = [fullnessGroup EXCEPT ![p] = lists]
        /\ Fit(p, next, lists)
    BY <1>6, <1>7, <1>14, <1>15
  <2> QED
    BY <2>1, <1>1, <1>17, <1>18, <1>19, <1>20, SuperChanges
<1>22. held' \subseteq BlockGroups /\ superBlock' \in Supers
  BY <1>1, <1>6, <1>7 DEF BlockTypeOK
<1>23. PICK c \in CallerRecords : c = IdleCaller
  BY <1>9
<1>24. CallerOk(c) /\ caller' = [caller EXCEPT ![p] = c]
  BY <1>7, <1>9, <1>23
<1>25. IInv'
  BY <1>7, <1>13, <1>21, <1>22, <1>24, SuperStep
<1> QED
  BY <1>11, <1>25

\* A group is handed out.
LEMMA AllocateInOwnKeeps ==
  ASSUME IInv, NEW p \in BlockProcs, AllocateInOwn(p)
  PROVE  IInv' /\ OwnersKept
<1>1. /\ superBlock \in Supers /\ fullnessGroup[p] \in Lists /\ Fit(p, superBlock, fullnessGroup[p])
      /\ Tiled(superBlock, AW)
  BY Types DEF IInv, SuperInv
<1>2. /\ caller[p].pc = "local" /\ Usable(fullnessGroup[p], computeSizeClass(caller[p].n)) # {}
      /\ HandOutBlocks(p, Local(p))
  BY DEF AllocateInOwn, CallerAt
<1>3. PICK local : local = [super |-> superBlock, groups |-> fullnessGroup[p]]
  OBVIOUS
<1>4. HandOutBlocks(p, local)
  BY <1>2, <1>3 DEF Local
<1>5. PICK super \in Supers : super = superBlock
  BY <1>1
<1>6. PICK groups \in Lists : groups = fullnessGroup[p]
  BY <1>1
<1>7. /\ Fit(p, super, groups) /\ Tiled(super, AW)
      /\ \A t \in SuperBlocks :
           super[t] = superBlock[t] \/ (superBlock[t].owner = BlockNil /\ super[t].owner = p)
      /\ Usable(groups, computeSizeClass(caller[p].n)) # {}
      /\ local = [super |-> super, groups |-> groups]
  BY <1>1, <1>2, <1>3, <1>5, <1>6
<1>8. IInv' /\ \A t \in SuperBlocks : superBlock'[t].owner = super[t].owner
  BY <1>2, <1>4, <1>7, HandsOut
<1> QED
  BY <1>5, <1>8 DEF OwnersKept

\* A superblock is mapped and a group of it handed out.
LEMMA MapNewSuperBlockKeeps ==
  ASSUME IInv, NEW p \in BlockProcs, MapNewSuperBlock(p)
  PROVE  IInv' /\ \A t \in SuperBlocks :
                    superBlock'[t].owner = superBlock[t].owner \/ superBlock'[t].owner = p
<1>1. /\ superBlock \in Supers /\ fullnessGroup[p] \in Lists /\ Fit(p, superBlock, fullnessGroup[p])
      /\ Tiled(superBlock, AW) /\ OwnedInv
  BY Types DEF IInv, SuperInv
<1>2. PICK sb \in SuperBlocks : superBlock[sb].owner = BlockNil /\ HandOutBlocks(p, WithNew(p, sb))
  BY DEF MapNewSuperBlock
<1>3. superBlock[sb].numBlocksFree = SuperSize /\ caller[p].pc = "local"
  BY <1>1, <1>2 DEF OwnedInv, MapNewSuperBlock, CallerAt
<1>4. PICK n : n = [superBlock[sb] EXCEPT !.owner = p]
  OBVIOUS
<1>5. PICK super : super = [superBlock EXCEPT ![sb] = n]
  OBVIOUS
<1>6. PICK empty : empty = <<0, COMPLETELY_EMPTY>>
  OBVIOUS
<1>7. PICK groups : groups = [fullnessGroup[p] EXCEPT ![empty] = prependSuperBlock(@, sb)]
  OBVIOUS
<1>8. PICK local : local = [super |-> super, groups |-> groups]
  OBVIOUS
<1>9. HandOutBlocks(p, local)
  <2>1. super = [superBlock EXCEPT ![sb].owner = p]
    BY <1>1, <1>4, <1>5 DEF Supers
  <2> QED
    BY <2>1, <1>2, <1>6, <1>7, <1>8 DEF WithNew
<1>10. /\ super \in Supers /\ groups \in Lists /\ Fit(p, super, groups)
       /\ sb \in ToSet(groups[empty]) /\ empty \in Groups
  <2>1. PICK old \in Supers : old = superBlock
    BY <1>1
  <2>2. PICK lists \in Lists : lists = fullnessGroup[p]
    BY <1>1
  <2>3. PICK put : put = prependSuperBlock(lists[empty], sb)
    OBVIOUS
  <2>4. /\ Fit(p, old, lists) /\ old[sb].owner = BlockNil /\ old[sb].numBlocksFree = SuperSize
        /\ n = OwnedBy(old[sb], p) /\ super = Put(old, sb, n)
        /\ empty = <<0, COMPLETELY_EMPTY>> /\ put = prependSuperBlock(lists[empty], sb)
        /\ groups = Put(lists, empty, put)
    BY <1>1, <1>2, <1>3, <1>4, <1>5, <1>6, <1>7, <2>1, <2>2, <2>3 DEF OwnedBy, Put
  <2> QED
    BY <2>4, NewFits
<1>11. \A t \in SuperBlocks : super[t] = IF t = sb THEN n ELSE superBlock[t]
  BY <1>1, <1>5 DEF Supers
<1>12. n.owner = p /\ n.sizeClass = superBlock[sb].sizeClass /\ n.firstFree = superBlock[sb].firstFree
       /\ n.frontier = superBlock[sb].frontier /\ n.numBlocksFree = superBlock[sb].numBlocksFree
  BY <1>1, <1>4 DEF Supers, SuperRecords
<1>13. Tiled(super, AW)
  <2>1. ASSUME NEW t \in SuperBlocks PROVE AW[t] \in SUBSET Starts /\ IsTiled(super[t], AW[t])
    <3>1. AW[t] \in SUBSET Starts /\ IsTiled(superBlock[t], AW[t])
      BY <1>1 DEF Tiled
    <3>2. CASE t = sb
      <4>1. IsTiled(n, AW[t])
        BY <3>1, <3>2, <1>12 DEF IsTiled
      <4> QED
        BY <3>1, <3>2, <4>1, <1>11
    <3>3. CASE t # sb
      BY <3>1, <3>3, <1>11
    <3> QED
      BY <3>2, <3>3
  <2> QED
    BY <2>1 DEF Tiled
<1>14. Usable(groups, computeSizeClass(caller[p].n)) # {}
  <2>1. PICK class : class = computeSizeClass(caller[p].n)
    OBVIOUS
  <2>2. groups[empty] # <<>>
    BY <1>10, EmptyList
  <2>3. SearchOrder(class)[4] = empty
    BY <1>6 DEF SearchOrder
  <2>4. 4 \in Usable(groups, class)
    BY <2>2, <2>3 DEF Usable
  <2> QED
    BY <2>1, <2>4
<1>15. \A t \in SuperBlocks :
         super[t] = superBlock[t] \/ (superBlock[t].owner = BlockNil /\ super[t].owner = p)
  BY <1>2, <1>11, <1>12
<1>16. IInv' /\ \A t \in SuperBlocks : superBlock'[t].owner = super[t].owner
  BY <1>3, <1>8, <1>9, <1>10, <1>13, <1>14, <1>15, HandsOut
<1> QED
  BY <1>15, <1>16

-----------------------------------------------------------------------------
(* Megablocks *)

\* A step that changes only megablocks.
LEMMA MegaStep ==
  ASSUME IInv,
         UNCHANGED <<superBlock, fullnessGroup, firstFreedByOther, caller, requests, held, outOfSpace>>,
         megaBlockList' \in [MegaClasses -> Seq(MegaBlocks)],
         numBlocks' \in [MegaBlocks -> {0} \cup requests], allocations' \in Nat,
         heldMega' \subseteq [mega : MegaBlocks, asked : requests], MegaBlocksAreWhole'
  PROVE  IInv' /\ OwnersKept
<1>1. BlockTypeOK /\ InOnePlace /\ CallersInv /\ SuperInv /\ OwnedInv
  BY DEF IInv
<1>2. InOnePlace' /\ \A b \in BlockGroups : IsAway(b)' <=> IsAway(b)
  BY <1>1 DEF InOnePlace, IsAway, Pushing, Returned
<1>3. SuperInv' /\ OwnedInv'
  BY <1>1, <1>2, SupersKept
<1>4. CallersInv'
  BY <1>1 DEF CallersInv, CallerOk
<1>5. BlockTypeOK'
  BY <1>1 DEF BlockTypeOK
<1> QED
  BY <1>2, <1>3, <1>4, <1>5 DEF IInv, OwnersKept

MegaRecords == [mega : MegaBlocks, asked : requests]

\* What the invariant says of the megablocks.
LEMMA MegaTypes ==
  ASSUME IInv
  PROVE  /\ megaBlockList \in [MegaClasses -> Seq(MegaBlocks)]
         /\ numBlocks \in [MegaBlocks -> {0} \cup requests]
         /\ heldMega \subseteq MegaRecords /\ allocations \in Nat
         /\ requests \subseteq Nat \ {0}
         /\ \A n \in requests : n \in UNION RequestSets
         /\ MegaBlocksAreWhole
<1>1. requests \in RequestSets
  BY DEF IInv, BlockTypeOK
<1>2. requests \subseteq Nat \ {0} /\ \A n \in requests : n \in UNION RequestSets
  BY <1>1, BlockAssumption
<1> QED
  BY <1>2 DEF IInv, BlockTypeOK, MegaRecords

\* A megablock in use, with what was asked for.
LEMMA MegaHeldFields ==
  ASSUME NEW m \in MegaBlocks, NEW n \in requests
  PROVE  MegaHeld(m, n) \in MegaRecords /\ MegaHeld(m, n).mega = m /\ MegaHeld(m, n).asked = n
BY DEF MegaHeld, MegaRecords

\* A megablock is used again.
LEMMA ReuseMegaKeeps ==
  ASSUME IInv, NEW p \in BlockProcs, NEW n \in requests, ReuseMega(p, n)
  PROVE  IInv' /\ OwnersKept
<1>0. PICK class \in MegaClasses : \E j \in 1 .. Len(megaBlockList[class]) :
        /\ tryFindMegaBlock(n, class, j)
        /\ megaBlockList' = [megaBlockList EXCEPT ![class] = RemoveAt(@, j)]
        /\ heldMega' = heldMega \cup {MegaHeld(megaBlockList[class][j], n)}
  BY DEF ReuseMega
<1>1. PICK i \in 1 .. Len(megaBlockList[class]) :
        /\ tryFindMegaBlock(n, class, i)
        /\ megaBlockList' = [megaBlockList EXCEPT ![class] = RemoveAt(@, i)]
        /\ heldMega' = heldMega \cup {MegaHeld(megaBlockList[class][i], n)}
  BY <1>0
<1>2. /\ allocations' = allocations + 1
      /\ UNCHANGED <<superBlock, fullnessGroup, firstFreedByOther, caller, numBlocks, requests, held,
                     outOfSpace>>
  BY DEF ReuseMega, MayAllocateBlocks
<1>3. PICK list : list = megaBlockList[class]
  OBVIOUS
<1>4. PICK m : m = list[i]
  OBVIOUS
<1>5. PICK rest : rest = RemoveAt(list, i)
  OBVIOUS
<1>6. list \in Seq(MegaBlocks) /\ Distinct(list) /\ i \in 1 .. Len(list)
  BY <1>3, MegaTypes DEF MegaBlocksAreWhole
<1>7. /\ rest \in Seq(MegaBlocks) /\ Distinct(rest) /\ ToSet(rest) = ToSet(list) \ {m}
  BY <1>4, <1>5, <1>6, Removed
<1>8. m \in ToSet(list) /\ m \in MegaBlocks
  <2>1. \E k \in 1 .. Len(list) : list[k] = m
    BY <1>4, <1>6
  <2> QED
    BY <2>1, <1>6, Listed
<1>9. /\ numBlocks[m] # 0 /\ computeSizeClass(numBlocks[m]) = class
      /\ \A b \in heldMega : b.mega # m
  BY <1>3, <1>8, MegaTypes DEF MegaBlocksAreWhole
<1>10. numBlocks[m] >= n
  BY <1>1, <1>3, <1>4 DEF tryFindMegaBlock, LargeEnough
<1>11. /\ megaBlockList' \in [MegaClasses -> Seq(MegaBlocks)]
       /\ \A c \in MegaClasses : megaBlockList'[c] = IF c = class THEN rest ELSE megaBlockList[c]
  BY <1>1, <1>3, <1>5, <1>7, MegaTypes
<1>12. PICK h \in MegaRecords : h = MegaHeld(m, n) /\ h.mega = m /\ h.asked = n
  BY <1>8, MegaHeldFields
<1>13. heldMega' \subseteq MegaRecords /\ \A b : b \in heldMega' <=> b \in heldMega \/ b = h
  BY <1>1, <1>3, <1>4, <1>12, MegaTypes
<1>14. ASSUME NEW c \in MegaClasses
       PROVE  /\ Distinct(megaBlockList'[c])
              /\ \A x : x \in ToSet(megaBlockList'[c]) => x \in ToSet(megaBlockList[c]) /\ x # m
              /\ \A x : x \in ToSet(megaBlockList[c]) /\ x # m => x \in ToSet(megaBlockList'[c])
  <2>1. CASE c = class
    BY <2>1, <1>3, <1>7, <1>11
  <2>2. CASE c # class
    <3>1. m \notin ToSet(megaBlockList[c])
      BY <2>2, <1>9, MegaTypes DEF MegaBlocksAreWhole
    <3>2. megaBlockList'[c] = megaBlockList[c] /\ Distinct(megaBlockList[c])
      BY <2>2, <1>11, MegaTypes DEF MegaBlocksAreWhole
    <3> QED
      BY <3>1, <3>2
  <2> QED
    BY <2>1, <2>2
<1>15. MegaBlocksAreWhole'
  <2>1. ASSUME NEW b \in heldMega', NEW c \in heldMega', b.mega = c.mega PROVE b = c
    BY <2>1, <1>9, <1>12, <1>13, MegaTypes DEF MegaBlocksAreWhole
  <2>2. ASSUME NEW b \in heldMega' PROVE numBlocks'[b.mega] >= b.asked
    BY <1>2, <1>10, <1>12, <1>13, MegaTypes DEF MegaBlocksAreWhole
  <2>3. ASSUME NEW c \in MegaClasses, NEW x \in ToSet(megaBlockList'[c])
        PROVE  /\ numBlocks'[x] # 0 /\ computeSizeClass(numBlocks'[x]) = c
               /\ \A b \in heldMega' : b.mega # x
    <3>1. x \in ToSet(megaBlockList[c]) /\ x # m
      BY <1>14
    <3> QED
      BY <3>1, <1>2, <1>12, <1>13, MegaTypes DEF MegaBlocksAreWhole
  <2>4. ASSUME NEW x \in MegaBlocks, numBlocks'[x] # 0
        PROVE  /\ computeSizeClass(numBlocks'[x]) >= superblockThreshold
               /\ \/ \E b \in heldMega' : b.mega = x
                  \/ \E c \in MegaClasses : x \in ToSet(megaBlockList'[c])
    <3>1. /\ computeSizeClass(numBlocks[x]) >= superblockThreshold
          /\ \/ \E b \in heldMega : b.mega = x
             \/ \E c \in MegaClasses : x \in ToSet(megaBlockList[c])
      BY <2>4, <1>2, MegaTypes DEF MegaBlocksAreWhole
    <3>2. CASE x = m
      BY <3>1, <3>2, <1>2, <1>12, <1>13
    <3>3. CASE x # m
      BY <3>1, <3>3, <1>2, <1>13, <1>14
    <3> QED
      BY <3>2, <3>3
  <2> QED
    BY <2>1, <2>2, <2>3, <2>4, <1>14 DEF MegaBlocksAreWhole
<1>16. /\ allocations' \in Nat /\ numBlocks' \in [MegaBlocks -> {0} \cup requests]
       /\ heldMega' \subseteq [mega : MegaBlocks, asked : requests]
  BY <1>2, <1>13, MegaTypes DEF MegaRecords
<1> QED
  BY <1>2, <1>11, <1>15, <1>16, MegaStep

\* A megablock is mapped.
LEMMA MapMegaKeeps ==
  ASSUME IInv, NEW p \in BlockProcs, NEW n \in requests, MapMega(p, n)
  PROVE  IInv' /\ OwnersKept
<1>1. PICK m \in MegaBlocks :
        /\ numBlocks[m] = 0
        /\ numBlocks' = [numBlocks EXCEPT ![m] = n]
        /\ heldMega' = heldMega \cup {MegaHeld(m, n)}
  BY DEF MapMega
<1>2. /\ allocations' = allocations + 1 /\ computeSizeClass(n) >= superblockThreshold
      /\ UNCHANGED <<superBlock, fullnessGroup, firstFreedByOther, caller, megaBlockList, requests,
                     held, outOfSpace>>
  BY DEF MapMega, MayAllocateBlocks
<1>3. n \in Nat \ {0}
  BY MegaTypes
<1>4. /\ numBlocks' \in [MegaBlocks -> {0} \cup requests]
      /\ \A x \in MegaBlocks : numBlocks'[x] = IF x = m THEN n ELSE numBlocks[x]
  BY <1>1, MegaTypes
<1>5. PICK h \in MegaRecords : h = MegaHeld(m, n) /\ h.mega = m /\ h.asked = n
  BY MegaHeldFields
<1>6. heldMega' \subseteq MegaRecords /\ \A b : b \in heldMega' <=> b \in heldMega \/ b = h
  BY <1>1, <1>5, MegaTypes
<1>7. ASSUME NEW b \in heldMega PROVE b.mega # m /\ b.mega \in MegaBlocks
  <2>1. b.asked \in Nat \ {0} /\ b.mega \in MegaBlocks /\ numBlocks[b.mega] >= b.asked
    BY MegaTypes DEF MegaBlocksAreWhole, MegaRecords
  <2> QED
    BY <2>1, <1>1
<1>8. \A c \in MegaClasses : m \notin ToSet(megaBlockList[c])
  BY <1>1, MegaTypes DEF MegaBlocksAreWhole
<1>9. \A c \in MegaClasses : \A x \in ToSet(megaBlockList[c]) : x \in MegaBlocks
  BY MegaTypes, Listed
<1>10. MegaBlocksAreWhole'
  <2>1. ASSUME NEW b \in heldMega', NEW c \in heldMega', b.mega = c.mega PROVE b = c
    BY <2>1, <1>5, <1>6, <1>7, MegaTypes DEF MegaBlocksAreWhole
  <2>2. ASSUME NEW b \in heldMega' PROVE numBlocks'[b.mega] >= b.asked
    <3>1. CASE b \in heldMega
      BY <3>1, <1>4, <1>7, MegaTypes DEF MegaBlocksAreWhole
    <3>2. CASE b = h
      BY <3>2, <1>3, <1>4, <1>5
    <3> QED
      BY <3>1, <3>2, <1>6
  <2>3. ASSUME NEW c \in MegaClasses, NEW x \in ToSet(megaBlockList'[c])
        PROVE  /\ numBlocks'[x] # 0 /\ computeSizeClass(numBlocks'[x]) = c
               /\ \A b \in heldMega' : b.mega # x
    <3>1. x \in ToSet(megaBlockList[c])
      BY <1>2
    <3>2. x \in MegaBlocks /\ x # m
      BY <3>1, <1>8, <1>9
    <3> QED
      BY <3>1, <3>2, <1>4, <1>5, <1>6, MegaTypes DEF MegaBlocksAreWhole
  <2>4. ASSUME NEW x \in MegaBlocks, numBlocks'[x] # 0
        PROVE  /\ computeSizeClass(numBlocks'[x]) >= superblockThreshold
               /\ \/ \E b \in heldMega' : b.mega = x
                  \/ \E c \in MegaClasses : x \in ToSet(megaBlockList'[c])
    <3>1. CASE x = m
      BY <3>1, <1>2, <1>4, <1>5, <1>6
    <3>2. CASE x # m
      <4>1. /\ computeSizeClass(numBlocks[x]) >= superblockThreshold
            /\ \/ \E b \in heldMega : b.mega = x
               \/ \E c \in MegaClasses : x \in ToSet(megaBlockList[c])
        BY <2>4, <3>2, <1>4, MegaTypes DEF MegaBlocksAreWhole
      <4> QED
        BY <4>1, <3>2, <1>2, <1>4, <1>6
    <3> QED
      BY <3>1, <3>2
  <2>5. \A c \in MegaClasses : Distinct(megaBlockList'[c])
    BY <1>2, MegaTypes DEF MegaBlocksAreWhole
  <2> QED
    BY <2>1, <2>2, <2>3, <2>4, <2>5 DEF MegaBlocksAreWhole
<1>11. /\ allocations' \in Nat /\ megaBlockList' \in [MegaClasses -> Seq(MegaBlocks)]
       /\ heldMega' \subseteq [mega : MegaBlocks, asked : requests]
  BY <1>2, <1>6, MegaTypes DEF MegaRecords
<1> QED
  BY <1>2, <1>4, <1>10, <1>11, MegaStep

\* A megablock is freed: back to the system, or into a list.
LEMMA FreeMegaKeeps ==
  ASSUME IInv, NEW p \in BlockProcs, NEW b \in heldMega, FreeMega(p, b)
  PROVE  IInv' /\ OwnersKept
<1>1. PICK m \in MegaBlocks : m = b.mega
  BY MegaTypes DEF MegaRecords
<1>2. PICK class : class = computeSizeClass(numBlocks[m])
  OBVIOUS
<1>3. /\ heldMega' = heldMega \ {b} /\ allocations' = allocations
      /\ UNCHANGED <<superBlock, fullnessGroup, firstFreedByOther, caller, requests, held, outOfSpace>>
  BY DEF FreeMega, program
<1>4. numBlocks[m] # 0 /\ numBlocks[m] \in requests
  <2>1. b.asked \in Nat \ {0} /\ numBlocks[m] >= b.asked
    BY <1>1, MegaTypes DEF MegaBlocksAreWhole, MegaRecords
  <2>2. numBlocks[m] \in {0} \cup requests
    BY MegaTypes
  <2> QED
    BY <2>1, <2>2
<1>5. class \in Nat /\ class >= superblockThreshold
  BY <1>2, <1>4, HasClass, MegaTypes DEF MegaBlocksAreWhole
<1>6. \A c \in heldMega' : c.mega # m /\ c \in heldMega
  BY <1>1, <1>3, MegaTypes DEF MegaBlocksAreWhole
<1>7. \A c \in MegaClasses : m \notin ToSet(megaBlockList[c])
  BY <1>1, MegaTypes DEF MegaBlocksAreWhole
<1>8. \A c \in MegaClasses : /\ megaBlockList[c] \in Seq(MegaBlocks) /\ Distinct(megaBlockList[c])
                             /\ \A x \in ToSet(megaBlockList[c]) : x \in MegaBlocks
  BY MegaTypes, Listed DEF MegaBlocksAreWhole
<1>9. \A c \in heldMega : c.mega = m => c = b
  BY <1>1, MegaTypes DEF MegaBlocksAreWhole
<1>10. /\ allocations' \in Nat /\ heldMega' \subseteq [mega : MegaBlocks, asked : requests]
  BY <1>3, MegaTypes DEF MegaRecords
<1>11. \A c, d \in heldMega' : c.mega = d.mega => c = d
  BY <1>6, MegaTypes DEF MegaBlocksAreWhole
<1>12. CASE numBlocks' = [numBlocks EXCEPT ![m] = 0] /\ megaBlockList' = megaBlockList
  <2>1. /\ numBlocks' \in [MegaBlocks -> {0} \cup requests]
        /\ \A x \in MegaBlocks : numBlocks'[x] = IF x = m THEN 0 ELSE numBlocks[x]
    BY <1>12, MegaTypes
  <2>2. ASSUME NEW c \in heldMega' PROVE numBlocks'[c.mega] >= c.asked
    <3>1. c \in heldMega /\ c.mega # m /\ c.mega \in MegaBlocks
      BY <1>6, MegaTypes DEF MegaRecords
    <3> QED
      BY <3>1, <2>1, MegaTypes DEF MegaBlocksAreWhole
  <2>3. ASSUME NEW c \in MegaClasses, NEW x \in ToSet(megaBlockList'[c])
        PROVE  /\ numBlocks'[x] # 0 /\ computeSizeClass(numBlocks'[x]) = c
               /\ \A d \in heldMega' : d.mega # x
    <3>1. x \in ToSet(megaBlockList[c]) /\ x \in MegaBlocks /\ x # m
      BY <1>7, <1>8, <1>12
    <3> QED
      BY <3>1, <2>1, <1>6, MegaTypes DEF MegaBlocksAreWhole
  <2>4. ASSUME NEW x \in MegaBlocks, numBlocks'[x] # 0
        PROVE  /\ computeSizeClass(numBlocks'[x]) >= superblockThreshold
               /\ \/ \E d \in heldMega' : d.mega = x
                  \/ \E c \in MegaClasses : x \in ToSet(megaBlockList'[c])
    <3>1. x # m /\ numBlocks'[x] = numBlocks[x]
      BY <2>1, <2>4
    <3>2. /\ computeSizeClass(numBlocks[x]) >= superblockThreshold
          /\ \/ \E d \in heldMega : d.mega = x
             \/ \E c \in MegaClasses : x \in ToSet(megaBlockList[c])
      BY <3>1, <2>4, MegaTypes DEF MegaBlocksAreWhole
    <3>3. \A d \in heldMega : d.mega = x => d \in heldMega'
      BY <3>1, <1>1, <1>3
    <3> QED
      BY <3>1, <3>2, <3>3, <1>12
  <2>5. \A c \in MegaClasses : Distinct(megaBlockList'[c])
    BY <1>8, <1>12
  <2>6. MegaBlocksAreWhole'
    BY <2>2, <2>3, <2>4, <2>5, <1>11 DEF MegaBlocksAreWhole
  <2>7. megaBlockList' \in [MegaClasses -> Seq(MegaBlocks)]
    BY <1>12, MegaTypes
  <2> QED
    BY <2>1, <2>6, <2>7, <1>3, <1>10, MegaStep
<1>13. CASE /\ class < megablockThreshold /\ numBlocks' = numBlocks
            /\ megaBlockList' = [megaBlockList EXCEPT ![class] = <<m>> \o @]
  <2>1. class \in MegaClasses
    BY <1>5, <1>13, BlockAssumption DEF MegaClasses
  <2>2. PICK list : list = InFront(m, megaBlockList[class])
    OBVIOUS
  <2>3. list \in Seq(MegaBlocks) /\ Distinct(list)
    BY <2>1, <2>2, <1>7, <1>8, Prepended
  <2>4. \A x : x \in ToSet(list) <=> x \in ToSet(megaBlockList[class]) \/ x = m
    <3>1. megaBlockList[class] \in Seq(MegaBlocks)
      BY <2>1, <1>8
    <3> QED
      BY <3>1, <2>2, PrependedSet
  <2>5. /\ megaBlockList' \in [MegaClasses -> Seq(MegaBlocks)]
        /\ \A c \in MegaClasses : megaBlockList'[c] = IF c = class THEN list ELSE megaBlockList[c]
    <3>1. megaBlockList' = [megaBlockList EXCEPT ![class] = list]
      BY <1>13, <2>2 DEF InFront
    <3> QED
      BY <3>1, <2>3, MegaTypes
  <2>6. ASSUME NEW c \in MegaClasses
        PROVE  /\ Distinct(megaBlockList'[c])
               /\ \A x : x \in ToSet(megaBlockList'[c]) <=>
                           x \in ToSet(megaBlockList[c]) \/ (c = class /\ x = m)
    <3>1. CASE c = class
      BY <3>1, <2>3, <2>4, <2>5
    <3>2. CASE c # class
      BY <3>2, <2>5, <1>8
    <3> QED
      BY <3>1, <3>2
  <2>7. ASSUME NEW c \in heldMega' PROVE numBlocks'[c.mega] >= c.asked
    BY <1>6, <1>13, MegaTypes DEF MegaBlocksAreWhole
  <2>8. ASSUME NEW c \in MegaClasses, NEW x \in ToSet(megaBlockList'[c])
        PROVE  /\ numBlocks'[x] # 0 /\ computeSizeClass(numBlocks'[x]) = c
               /\ \A d \in heldMega' : d.mega # x
    <3>1. CASE x \in ToSet(megaBlockList[c])
      BY <3>1, <1>6, <1>13, MegaTypes DEF MegaBlocksAreWhole
    <3>2. CASE c = class /\ x = m
      BY <3>2, <1>2, <1>4, <1>6, <1>13
    <3> QED
      BY <3>1, <3>2, <2>6, <2>8
  <2>9. ASSUME NEW x \in MegaBlocks, numBlocks'[x] # 0
        PROVE  /\ computeSizeClass(numBlocks'[x]) >= superblockThreshold
               /\ \/ \E d \in heldMega' : d.mega = x
                  \/ \E c \in MegaClasses : x \in ToSet(megaBlockList'[c])
    <3>1. /\ computeSizeClass(numBlocks[x]) >= superblockThreshold
          /\ \/ \E d \in heldMega : d.mega = x
             \/ \E c \in MegaClasses : x \in ToSet(megaBlockList[c])
      BY <2>9, <1>13, MegaTypes DEF MegaBlocksAreWhole
    <3>2. CASE x = m
      BY <3>1, <3>2, <2>1, <2>6, <1>13
    <3>3. CASE x # m
      <4>1. \A d \in heldMega : d.mega = x => d \in heldMega'
        BY <3>3, <1>1, <1>3
      <4> QED
        BY <3>1, <4>1, <2>6, <1>13
    <3> QED
      BY <3>2, <3>3
  <2>10. MegaBlocksAreWhole'
    BY <2>6, <2>7, <2>8, <2>9, <1>11 DEF MegaBlocksAreWhole
  <2>11. numBlocks' \in [MegaBlocks -> {0} \cup requests]
    BY <1>13, MegaTypes
  <2> QED
    BY <2>5, <2>10, <2>11, <1>3, <1>10, MegaStep
<1> QED
  BY <1>1, <1>2, <1>12, <1>13 DEF FreeMega

-----------------------------------------------------------------------------
(* The theorems *)

\* Nothing is mapped at first.
LEMMA InitHolds ==
  ASSUME BlockInit
  PROVE  IInv
<1>1. /\ SuperSize \in Nat \ {0} /\ 0 \in SizeClasses /\ \A p \in BlockProcs : p # BlockNil
      /\ GroupSize(0) \in Nat
  BY Sizes, BlockAssumption DEF SizeClasses
<1>2. /\ superBlock \in Supers /\ \A sb \in SuperBlocks : superBlock[sb] = Unmapped
  BY <1>1, EmptyList DEF BlockInit, Unmapped, Supers, SuperRecords
<1>3. /\ fullnessGroup \in [BlockProcs -> Lists]
      /\ \A p \in BlockProcs : \A g \in Groups : fullnessGroup[p][g] = <<>>
  BY EmptyList DEF BlockInit, Lists
<1>4. /\ IdleCaller \in CallerRecords /\ CallerOk(IdleCaller)
      /\ IdleCaller.pc = "idle" /\ IdleCaller.taken = <<>>
  BY EmptyList DEF IdleCaller, CallerRecords, CallerOk
<1>5. /\ caller \in [BlockProcs -> CallerRecords]
      /\ \A p \in BlockProcs : caller[p] = IdleCaller
  BY <1>4 DEF BlockInit
<1>6. /\ firstFreedByOther \in [BlockProcs -> Seq(BlockGroups)]
      /\ \A p \in BlockProcs : firstFreedByOther[p] = <<>>
  BY EmptyList DEF BlockInit
<1>7. /\ megaBlockList \in [MegaClasses -> Seq(MegaBlocks)]
      /\ \A c \in MegaClasses : megaBlockList[c] = <<>>
  BY EmptyList DEF BlockInit
<1>8. /\ numBlocks \in [MegaBlocks -> {0} \cup requests]
      /\ \A m \in MegaBlocks : numBlocks[m] = 0
  BY DEF BlockInit
<1>9. BlockTypeOK
  <2>1. superBlock \in [SuperBlocks ->
         [owner : BlockProcs \cup {BlockNil}, sizeClass : SizeClasses,
          numBlocksFree : 0 .. SuperSize, firstFree : Seq(Starts), frontier : 0 .. SuperSize]]
    BY <1>2 DEF Supers, SuperRecords
  <2>2. caller \in [BlockProcs ->
         [pc : {"idle", "take", "return", "local", "push"}, n : {0} \cup requests,
          topElem : BlockGroups \cup {BlockNil}, taken : Seq(BlockGroups),
          elem : BlockGroups \cup {BlockNil}, oldVal : BlockGroups \cup {BlockNil}]]
    BY <1>5 DEF CallerRecords
  <2>3. fullnessGroup \in [BlockProcs -> [Groups -> Seq(SuperBlocks)]]
    BY <1>3 DEF Lists
  <2>4. /\ requests \in RequestSets /\ allocations = 0 /\ held = {} /\ heldMega = {}
        /\ outOfSpace = FALSE
    BY DEF BlockInit
  <2> QED
    BY <2>1, <2>2, <2>3, <2>4, <1>6, <1>7, <1>8 DEF BlockTypeOK
<1>10. Pushing = {} /\ \A p \in BlockProcs : Returned(p) = {}
  BY <1>4, <1>5, <1>6, EmptyList DEF Pushing, Returned
<1>11. InOnePlace
  BY <1>4, <1>5, <1>6, <1>10, EmptyList DEF InOnePlace
<1>12. \A b : ~IsAway(b)
  BY <1>10 DEF IsAway, BlockInit
<1>13. \A sb \in SuperBlocks : AW[sb] = {}
  BY <1>12 DEF AW, Away
<1>14. IsTiled(Unmapped, {})
  <2>1. /\ Unmapped.firstFree = <<>> /\ Unmapped.sizeClass = 0
        /\ Unmapped.numBlocksFree = SuperSize /\ Unmapped.frontier = 0
    BY DEF Unmapped
  <2>2. Cardinality({}) = 0 /\ {} \cup ToSet(<<>>) = {}
    BY FS_EmptySet, EmptyList
  <2>3. Cover(GroupSize(0), 0, {} \cup ToSet(<<>>))
    BY <2>2, <1>1 DEF Cover
  <2>4. Counts(GroupSize(0), 0, SuperSize, <<>>, {})
    <3>1. 0 * GroupSize(0) = 0
      BY <1>1, Times
    <3> QED
      BY <3>1, <2>2, <1>1, EmptyList DEF Counts
  <2> QED
    BY <2>1, <2>2, <2>3, <2>4, EmptyList, TiledFields
<1>15. ASSUME NEW p \in BlockProcs PROVE Fit(p, superBlock, fullnessGroup[p])
  <2>1. \A sb \in SuperBlocks : superBlock[sb].owner # p
    BY <1>1, <1>2 DEF Unmapped
  <2> QED
    BY <2>1, <1>3, EmptyList DEF Fit
<1>16. SuperInv
  BY <1>2, <1>13, <1>14, <1>15 DEF SuperInv, Tiled
<1>17. MegaBlocksAreWhole
  <2>1. heldMega = {}
    BY DEF BlockInit
  <2> QED
    BY <2>1, <1>7, <1>8, EmptyList DEF MegaBlocksAreWhole
<1>18. CallersInv
  BY <1>4, <1>5 DEF CallersInv
<1>19. OwnedInv
  BY <1>2 DEF OwnedInv, Unmapped
<1> QED
  BY <1>9, <1>11, <1>16, <1>17, <1>18, <1>19 DEF IInv

\* A step of p gives a superblock to nobody but p, and does so only when it
\* maps a new one.
LEMMA StepHolds ==
  ASSUME IInv, NEW p \in BlockProcs, BlockStep(p)
  PROVE  /\ IInv'
         /\ \/ OwnersKept
            \/ /\ MapNewSuperBlock(p)
               /\ \A t \in SuperBlocks :
                    superBlock'[t].owner = superBlock[t].owner \/ superBlock'[t].owner = p
<1>1. CASE \E n \in requests : AllocateBlocks(p, n)
  BY <1>1, AllocateBlocksKeeps
<1>2. CASE TakeOtherFrees(p)
  BY <1>2, TakeOtherFreesKeeps
<1>3. CASE ReturnTaken(p)
  BY <1>3, ReturnTakenKeeps
<1>4. CASE AllReturned(p)
  BY <1>4, AllReturnedKeeps
<1>5. CASE AllocateInOwn(p)
  BY <1>5, AllocateInOwnKeeps
<1>6. CASE MapNewSuperBlock(p)
  BY <1>6, MapNewSuperBlockKeeps
<1>7. CASE RunOutOfSpace(p)
  BY <1>7, RunOutOfSpaceKeeps
<1>8. CASE \E b \in held : FreeOwn(p, b)
  BY <1>8, FreeOwnKeeps
<1>9. CASE \E b \in held : FreeOther(p, b)
  BY <1>9, FreeOtherKeeps
<1>10. CASE PushFreed(p)
  BY <1>10, PushFreedKeeps
<1>11. CASE \E n \in requests : ReuseMega(p, n)
  BY <1>11, ReuseMegaKeeps
<1>12. CASE \E n \in requests : MapMega(p, n)
  BY <1>12, MapMegaKeeps
<1>13. CASE \E n \in requests : RunOutOfMega(p, n)
  BY <1>13, RunOutOfMegaKeeps
<1>14. CASE \E b \in heldMega : FreeMega(p, b)
  BY <1>14, FreeMegaKeeps
<1> QED
  BY <1>1, <1>2, <1>3, <1>4, <1>5, <1>6, <1>7, <1>8, <1>9, <1>10, <1>11, <1>12, <1>13, <1>14
  DEF BlockStep

\* A step that changes nothing.
LEMMA StutterHolds ==
  ASSUME IInv, UNCHANGED blockVars
  PROVE  IInv' /\ OwnersKept
<1>1. /\ UNCHANGED <<superBlock, fullnessGroup, firstFreedByOther, caller, megaBlockList>>
      /\ UNCHANGED <<numBlocks, requests, allocations, held, heldMega, outOfSpace>>
  BY DEF blockVars
<1>2. /\ megaBlockList' \in [MegaClasses -> Seq(MegaBlocks)]
      /\ numBlocks' \in [MegaBlocks -> {0} \cup requests] /\ allocations' \in Nat
      /\ heldMega' \subseteq [mega : MegaBlocks, asked : requests] /\ MegaBlocksAreWhole'
  BY <1>1, MegaTypes, MegasKept DEF MegaRecords
<1> QED
  BY <1>1, <1>2, MegaStep

\* Every step, of any processor, preserves the invariant.
LEMMA NextHolds ==
  IInv /\ [BlockNext]_blockVars => IInv'
BY StepHolds, StutterHolds DEF BlockNext, BlockRest

\* The inductive invariant holds in every reachable state.
THEOREM Invariant == BlockSpec => []IInv
<1>1. BlockInit => IInv
  BY InitHolds
<1> QED
  BY <1>1, NextHolds, PTL DEF BlockSpec

\* No block is in two groups and none is lost (BlocksAreWhole).
THEOREM BlocksAreWholeHolds == BlockSpec => []BlocksAreWhole
<1>1. IInv => BlocksAreWhole
  BY SuperProperties DEF IInv, BlocksAreWhole
<1> QED
  BY <1>1, Invariant, PTL

\* The state has the shape the code's types give it (BlockTypeOK).
THEOREM BlockTypesKept == BlockSpec => []BlockTypeOK
<1>1. IInv => BlockTypeOK
  BY DEF IInv
<1> QED
  BY <1>1, Invariant, PTL

\* A superblock with room is in one of the lists that are searched.
LEMMA RoomIsUsable ==
  ASSUME NEW p \in BlockProcs, NEW super \in Supers, NEW groups \in Lists, Fit(p, super, groups),
         NEW class \in SizeClasses, NEW t \in SuperBlocks, super[t].owner = p,
         \/ super[t].numBlocksFree = SuperSize
         \/ super[t].sizeClass = class /\ super[t].numBlocksFree >= GroupSize(class)
  PROVE  Usable(groups, class) # {}
<1>1. PICK s \in SuperRecords : s = super[t]
  BY DEF Supers
<1>2. PICK g \in Groups : g = Belongs(s)
  BY FullnessFacts
<1>3. t \in ToSet(groups[g])
  BY <1>1, <1>2 DEF Fit
<1>4. groups[g] # <<>>
  BY <1>3, EmptyList
<1>5. /\ fullness(s) \in 0 .. 4
      /\ fullness(s) = 4 <=> s.numBlocksFree = SuperSize
      /\ fullness(s) = 0 <=> s.numBlocksFree < GroupSize(s.sizeClass)
  BY FullnessFacts DEF COMPLETELY_EMPTY, COMPLETELY_FULL
<1>6. /\ s.numBlocksFree \in 0 .. SuperSize /\ GroupSize(class) \in 1 .. SuperSize /\ SuperSize \in Nat
      /\ s.sizeClass \in SizeClasses
  BY Sizes DEF SuperRecords
<1>7. g = IF fullness(s) = 4 THEN <<0, 4>> ELSE <<s.sizeClass, fullness(s)>>
  BY <1>2 DEF Belongs, GroupOf, COMPLETELY_EMPTY
<1>8. /\ SearchOrder(class)[1] = <<class, 1>> /\ SearchOrder(class)[2] = <<class, 2>>
      /\ SearchOrder(class)[3] = <<class, 3>> /\ SearchOrder(class)[4] = <<0, 4>>
  BY DEF SearchOrder, NEARLY_FULL, SOMEWHAT_FULL, NEARLY_EMPTY, COMPLETELY_EMPTY
<1>9. \E i \in 1 .. 4 : g = SearchOrder(class)[i]
  <2>1. CASE fullness(s) = 4
    BY <2>1, <1>7, <1>8
  <2>2. CASE fullness(s) # 4
    <3>1. s.sizeClass = class /\ ~(s.numBlocksFree < GroupSize(s.sizeClass))
      BY <2>2, <1>1, <1>5, <1>6
    <3>2. fullness(s) \in {1, 2, 3} /\ g = <<class, fullness(s)>>
      BY <3>1, <2>2, <1>5, <1>7
    <3> QED
      BY <3>2, <1>8
  <2> QED
    BY <2>1, <2>2
<1> QED
  BY <1>4, <1>9 DEF Usable

\* A superblock is mapped only when none that the processor owns has room.
THEOREM MapsOnlyWhenFullHolds == BlockSpec => MapsOnlyWhenFull
<1>1. ASSUME IInv, [BlockNext]_blockVars, NEW p \in BlockProcs, NEW sb \in SuperBlocks,
             superBlock[sb].owner = BlockNil, superBlock'[sb].owner = p,
             NEW t \in SuperBlocks, superBlock[t].owner = p
      PROVE  ~HasRoom(t, computeSizeClass(caller[p].n))
  <2>1. p # BlockNil
    BY BlockAssumption
  <2>2. ~OwnersKept
    BY <2>1, <1>1 DEF OwnersKept
  <2>3. PICK q \in BlockProcs : BlockStep(q)
    BY <2>2, <1>1, StutterHolds DEF BlockNext, BlockRest
  <2>4. /\ MapNewSuperBlock(q)
        /\ \A x \in SuperBlocks :
             superBlock'[x].owner = superBlock[x].owner \/ superBlock'[x].owner = q
    BY <2>2, <2>3, <1>1, StepHolds
  <2>5. q = p
    BY <2>1, <2>4, <1>1
  <2>6. Usable(fullnessGroup[p], computeSizeClass(caller[p].n)) = {} /\ caller[p].pc = "local"
    BY <2>4, <2>5 DEF MapNewSuperBlock, CallerAt
  <2>7. PICK class \in SizeClasses : class = computeSizeClass(caller[p].n)
    BY <2>6, <1>1 DEF IInv, CallersInv, CallerOk
  <2>8. /\ superBlock \in Supers /\ fullnessGroup[p] \in Lists
        /\ Fit(p, superBlock, fullnessGroup[p])
    BY <1>1, Types DEF IInv, SuperInv
  <2>9. ~(\/ superBlock[t].numBlocksFree = SuperSize
          \/ superBlock[t].sizeClass = class /\ superBlock[t].numBlocksFree >= GroupSize(class))
    BY <2>6, <2>7, <2>8, <1>1, RoomIsUsable
  <2> QED
    BY <2>7, <2>9 DEF HasRoom
<1>2. IInv /\ [BlockNext]_blockVars =>
        [\A p \in BlockProcs : \A sb \in SuperBlocks :
           superBlock[sb].owner = BlockNil /\ superBlock'[sb].owner = p =>
             \A t \in SuperBlocks :
               superBlock[t].owner = p => ~HasRoom(t, computeSizeClass(caller[p].n))]_blockVars
  BY <1>1
<1> QED
  BY <1>2, Invariant, PTL DEF BlockSpec, MapsOnlyWhenFull
=============================================================================
