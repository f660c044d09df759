-------------------------- MODULE HeartbeatProofs --------------------------
(***************************************************************************)
(* Heartbeat scheduling (Heartbeat.tla), for any number of threads, frames *)
(* and sporks, any depth and any number of tokens of a beat.               *)
(*                                                                         *)
(* The inductive invariant has a part for each thread and one for all of   *)
(* them.  A thread (Local) has its forks before what is not promoted, and  *)
(* with a token at hand only its youngest spork is not.  Until an          *)
(* exception the entries of its promotion stack are its frames with        *)
(* sporks, in order; those up to the bottom have nothing to promote, and   *)
(* of those above the next one everything is (PromoInv): a promotion looks *)
(* at two entries at most.  Together (Global) no thread is the right side  *)
(* of two forks, and the fork depths of right sides count the forks they   *)
(* came from.  At last, the sporks not promoted and the promotions are no  *)
(* more than the sporks, and the tokens held and spent no more than the    *)
(* beats gave (Good).                                                      *)
(***************************************************************************)
EXTENDS Heartbeat, FiniteSetTheorems, SequenceTheorems, NaturalsInduction,
        WellFoundedInduction, TLAPS

-----------------------------------------------------------------------------
(* Sporks and their order *)

NoneLeft(th) == ToPromote(th) = {}
OnlyYoungest(th) == \A p \in ToPromote(th), q \in Places(th) : ~Older(p, q)
ForksFirst(th) == \A p \in AreForks(th) : OlderThan(th, p) \subseteq AreForks(th)

Stacks == {s \in Seq(Seq(Slots)) : s # <<>>}

SamePlaces(th, n) ==
  /\ Places(n) = Places(th)
  /\ \A p \in Places(th) : SlotAt(n, p) = SlotAt(th, p)
Gained(th, n, p) ==
  /\ Places(n) = Places(th) \cup {p} /\ p \notin Places(th)
  /\ \A q \in Places(th) : Older(q, p) /\ SlotAt(n, q) = SlotAt(th, q)
  /\ SlotAt(n, p).right = None
Lost(th, n, p) ==
  /\ p \in Places(th) /\ Places(n) = Places(th) \ {p}
  /\ \A q \in Places(n) : Older(q, p) /\ SlotAt(n, q) = SlotAt(th, q)
Marked(th, n, p, r) ==
  /\ Places(n) = Places(th) /\ p \in ToPromote(th)
  /\ \A q \in Places(th) \ {p} : SlotAt(n, q) = SlotAt(th, q)
  /\ SlotAt(n, p).right = r /\ r # None
  /\ \A q \in ToPromote(th) : q = p \/ Older(p, q)

\* A place is a frame and a spork of it.
LEMMA InPlaces ==
  ASSUME NEW th, th.stack \in Seq(Seq(Slots)), NEW p, p \in Places(th)
  PROVE  /\ p = <<p[1], p[2]>>
         /\ p[1] \in 1 .. Len(th.stack) /\ p[2] \in 1 .. Len(th.stack[p[1]])
         /\ SlotAt(th, p) = th.stack[p[1]][p[2]] /\ SlotAt(th, p) \in Slots
<1>1. PICK i \in DOMAIN th.stack : p \in {<<i, k>> : k \in DOMAIN th.stack[i]}
  BY DEF Places
<1>2. PICK k \in DOMAIN th.stack[i] : p = <<i, k>>
  BY <1>1
<1>3. th.stack[i] \in Seq(Slots) /\ i \in 1 .. Len(th.stack)
  BY <1>1, ElementOfSeq
<1>4. k \in 1 .. Len(th.stack[i]) /\ th.stack[i][k] \in Slots
  BY <1>2, <1>3, ElementOfSeq
<1> QED
  BY <1>2, <1>3, <1>4 DEF SlotAt

\* ... and each such pair is one.
LEMMA PlaceIn ==
  ASSUME NEW th, th.stack \in Seq(Seq(Slots)),
         NEW i \in 1 .. Len(th.stack), NEW k \in 1 .. Len(th.stack[i])
  PROVE  <<i, k>> \in Places(th) /\ SlotAt(th, <<i, k>>) = th.stack[i][k]
<1>1. th.stack[i] \in Seq(Slots) /\ i \in DOMAIN th.stack
  BY ElementOfSeq
<1>2. k \in DOMAIN th.stack[i]
  BY <1>1
<1> QED
  BY <1>1, <1>2 DEF Places, SlotAt

\* Places are ordered.
LEMMA OlderIsTotal ==
  ASSUME NEW th, th.stack \in Seq(Seq(Slots)), NEW p \in Places(th), NEW q \in Places(th)
  PROVE  /\ p = q \/ Older(p, q) \/ Older(q, p)
         /\ ~(Older(p, q) /\ Older(q, p)) /\ ~Older(p, p)
<1>1. p = <<p[1], p[2]>> /\ q = <<q[1], q[2]>>
  BY InPlaces
<1>2. p[1] \in Nat /\ p[2] \in Nat /\ q[1] \in Nat /\ q[2] \in Nat
  BY InPlaces
<1> QED
  BY <1>1, <1>2 DEF Older

\* What follows when no spork changes.
LEMMA SameFacts ==
  ASSUME NEW th, NEW n, SamePlaces(th, n)
  PROVE  /\ ToPromote(n) = ToPromote(th) /\ AreForks(n) = AreForks(th)
         /\ \A q : OlderThan(n, q) = OlderThan(th, q)
         /\ ForksFirst(th) => ForksFirst(n)
         /\ OnlyYoungest(th) => OnlyYoungest(n)
<1>1. ToPromote(n) = ToPromote(th)
  BY DEF SamePlaces, ToPromote
<1>2. AreForks(n) = AreForks(th)
  BY <1>1 DEF SamePlaces, AreForks
<1>3. \A q : OlderThan(n, q) = OlderThan(th, q)
  BY DEF SamePlaces, OlderThan
<1> QED
  BY <1>1, <1>2, <1>3 DEF ForksFirst, OnlyYoungest, SamePlaces

\* ... when a spork is entered,
LEMMA GainedFacts ==
  ASSUME NEW th, th.stack \in Seq(Seq(Slots)), NEW n, n.stack \in Seq(Seq(Slots)),
         NEW p, Gained(th, n, p)
  PROVE  /\ ToPromote(n) = ToPromote(th) \cup {p} /\ AreForks(n) = AreForks(th)
         /\ p \notin ToPromote(th)
         /\ \A q \in Places(th) : OlderThan(n, q) = OlderThan(th, q)
         /\ ForksFirst(th) => ForksFirst(n)
         /\ NoneLeft(th) => OnlyYoungest(n)
<1>1. ToPromote(n) = ToPromote(th) \cup {p} /\ p \notin ToPromote(th)
  BY DEF Gained, ToPromote, Promotable
<1>2. AreForks(n) = AreForks(th)
  BY <1>1 DEF Gained, AreForks
<1>3. ASSUME NEW q \in Places(th)
      PROVE  OlderThan(n, q) = OlderThan(th, q)
  <2>1. p \in Places(n) /\ q \in Places(n) /\ Older(q, p)
    BY <1>3 DEF Gained
  <2>2. ~Older(p, q)
    BY <2>1, OlderIsTotal
  <2> QED
    BY <2>2 DEF OlderThan, Gained
<1>4. ForksFirst(th) => ForksFirst(n)
  BY <1>2, <1>3 DEF ForksFirst, AreForks
<1>5. NoneLeft(th) => OnlyYoungest(n)
  <2>1. ASSUME NEW q \in Places(n) PROVE ~Older(p, q)
    <3>1. p \in Places(n) /\ (q = p \/ Older(q, p))
      BY <2>1 DEF Gained
    <3> QED
      BY <3>1, <2>1, OlderIsTotal
  <2> QED
    BY <2>1, <1>1 DEF NoneLeft, OnlyYoungest
<1> QED
  BY <1>1, <1>2, <1>3, <1>4, <1>5

\* ... when one is left,
LEMMA LostFacts ==
  ASSUME NEW th, th.stack \in Seq(Seq(Slots)), NEW n, NEW p, Lost(th, n, p)
  PROVE  /\ ToPromote(n) = ToPromote(th) \ {p} /\ AreForks(n) = AreForks(th) \ {p}
         /\ \A q \in Places(n) : OlderThan(n, q) = OlderThan(th, q)
         /\ ForksFirst(th) => ForksFirst(n)
         /\ OnlyYoungest(th) => OnlyYoungest(n)
         /\ ForksFirst(th) /\ p \in AreForks(th) => NoneLeft(th) /\ NoneLeft(n)
         /\ ForksFirst(th) /\ p \in AreForks(th) => OlderThan(th, p) = AreForks(n)
<1>1. ToPromote(n) = ToPromote(th) \ {p}
  BY DEF Lost, ToPromote
<1>2. AreForks(n) = AreForks(th) \ {p}
  BY <1>1 DEF Lost, AreForks
<1>3. ASSUME NEW q \in Places(n)
      PROVE  OlderThan(n, q) = OlderThan(th, q)
  <2>1. p \in Places(th) /\ q \in Places(th) /\ Older(q, p)
    BY <1>3 DEF Lost
  <2>2. ~Older(p, q)
    BY <2>1, OlderIsTotal
  <2> QED
    BY <2>2 DEF OlderThan, Lost
<1>4. ForksFirst(th) => ForksFirst(n)
  <2>1. SUFFICES ASSUME ForksFirst(th), NEW q \in AreForks(n), NEW o \in OlderThan(n, q)
                 PROVE  o \in AreForks(n)
    BY DEF ForksFirst
  <2>2. q \in AreForks(th) /\ q \in Places(n) /\ o \in Places(n)
    BY <1>2, <2>1 DEF AreForks, OlderThan
  <2>3. o \in AreForks(th)
    BY <2>1, <2>2, <1>3 DEF ForksFirst
  <2> QED
    BY <2>2, <2>3, <1>2 DEF Lost
<1>5. OnlyYoungest(th) => OnlyYoungest(n)
  BY <1>1 DEF OnlyYoungest, Lost
<1>6. ASSUME ForksFirst(th), p \in AreForks(th)
      PROVE  NoneLeft(th) /\ NoneLeft(n) /\ OlderThan(th, p) = AreForks(n)
  <2>1. \A q \in Places(th) : q = p \/ q \in OlderThan(th, p)
    BY DEF Lost, OlderThan
  <2>2. Places(th) \subseteq AreForks(th)
    BY <1>6, <2>1 DEF ForksFirst
  <2>3. ~Older(p, p)
    BY OlderIsTotal DEF Lost
  <2> QED
    BY <2>1, <2>2, <2>3, <1>1, <1>2 DEF AreForks, ToPromote, NoneLeft, OlderThan
<1> QED
  BY <1>1, <1>2, <1>3, <1>4, <1>5, <1>6

\* ... and when the oldest one is promoted: all forks are older than it.
LEMMA MarkedFacts ==
  ASSUME NEW th, th.stack \in Seq(Seq(Slots)), NEW n, NEW p, NEW r, Marked(th, n, p, r),
         ForksFirst(th)
  PROVE  /\ ToPromote(n) = ToPromote(th) \ {p} /\ AreForks(n) = AreForks(th) \cup {p}
         /\ p \notin AreForks(th) /\ p \in ToPromote(th)
         /\ \A q : OlderThan(n, q) = OlderThan(th, q)
         /\ OlderThan(n, p) = AreForks(th)
         /\ ForksFirst(n)
         /\ OnlyYoungest(th) => NoneLeft(n)
<1>1. ToPromote(n) = ToPromote(th) \ {p}
  BY DEF Marked, ToPromote, Promotable
<1>2. AreForks(n) = AreForks(th) \cup {p} /\ p \notin AreForks(th) /\ p \in Places(th)
  BY <1>1 DEF Marked, AreForks, ToPromote
<1>3. \A q : OlderThan(n, q) = OlderThan(th, q)
  BY DEF Marked, OlderThan
<1>4. OlderThan(th, p) = AreForks(th)
  <2>1. ASSUME NEW q \in OlderThan(th, p) PROVE q \in AreForks(th)
    <3>1. q \in Places(th) /\ Older(q, p)
      BY DEF OlderThan
    <3>2. q # p /\ ~Older(p, q)
      BY <1>2, <3>1, OlderIsTotal
    <3> QED
      BY <3>1, <3>2 DEF Marked, AreForks
  <2>2. ASSUME NEW q \in AreForks(th) PROVE q \in OlderThan(th, p)
    <3>1. q \in Places(th) /\ q # p
      BY <1>2 DEF AreForks
    <3>2. ~Older(p, q)
      BY <1>2 DEF ForksFirst, OlderThan
    <3> QED
      BY <1>2, <3>1, <3>2, OlderIsTotal DEF OlderThan
  <2> QED
    BY <2>1, <2>2
<1>5. ForksFirst(n)
  BY <1>2, <1>3, <1>4 DEF ForksFirst
<1>6. OnlyYoungest(th) => NoneLeft(n)
  <2>1. SUFFICES ASSUME OnlyYoungest(th), NEW q \in ToPromote(th), q # p PROVE FALSE
    BY <1>1 DEF NoneLeft
  <2>2. q \in Places(th) /\ Older(p, q)
    BY <2>1 DEF Marked, ToPromote
  <2> QED
    BY <2>1, <2>2 DEF OnlyYoungest, Marked
<1> QED
  BY <1>1, <1>2, <1>3, <1>4, <1>5, <1>6 DEF Marked

-----------------------------------------------------------------------------
(* What steps do to the stack *)

\* A call adds a frame without sporks.
LEMMA AppendKeeps ==
  ASSUME NEW th, th.stack \in Seq(Seq(Slots)), NEW n, n.stack = Append(th.stack, <<>>)
  PROVE  n.stack \in Seq(Seq(Slots)) /\ SamePlaces(th, n)
<1>1. <<>> \in Seq(Slots) /\ n.stack \in Seq(Seq(Slots)) /\ Len(n.stack) = Len(th.stack) + 1
      /\ \A i \in 1 .. Len(th.stack) : n.stack[i] = th.stack[i]
  BY AppendProperties
<1>2. n.stack[Len(n.stack)] = <<>>
  BY <1>1, AppendProperties
<1>3. ASSUME NEW p \in Places(th) PROVE p \in Places(n) /\ SlotAt(n, p) = SlotAt(th, p)
  <2>1. p = <<p[1], p[2]>> /\ p[1] \in 1 .. Len(th.stack) /\ p[2] \in 1 .. Len(th.stack[p[1]])
    BY InPlaces
  <2>2. p[1] \in 1 .. Len(n.stack) /\ p[2] \in 1 .. Len(n.stack[p[1]])
    BY <2>1, <1>1
  <2> QED
    BY ZenonT(30), <2>1, <2>2, <1>1, PlaceIn DEF SlotAt
<1>4. ASSUME NEW p \in Places(n) PROVE p \in Places(th)
  <2>1. p = <<p[1], p[2]>> /\ p[1] \in 1 .. Len(n.stack) /\ p[2] \in 1 .. Len(n.stack[p[1]])
    BY <1>1, InPlaces
  <2>2. p[1] # Len(n.stack)
    BY <2>1, <1>2
  <2>3. p[1] \in 1 .. Len(th.stack)
    BY <2>1, <2>2, <1>1
  <2>4. p[2] \in 1 .. Len(th.stack[p[1]])
    BY <2>1, <2>3, <1>1
  <2> QED
    BY <2>1, <2>3, <2>4, PlaceIn
<1> QED
  BY <1>1, <1>3, <1>4 DEF SamePlaces

\* A return or an exception takes frames without sporks away.
LEMMA CutKeeps ==
  ASSUME NEW th, th.stack \in Seq(Seq(Slots)), NEW n, NEW h \in 1 .. Len(th.stack),
         \A i \in 1 .. Len(th.stack) : i > h => th.stack[i] = <<>>,
         n.stack = SubSeq(th.stack, 1, h)
  PROVE  /\ n.stack \in Seq(Seq(Slots)) /\ Len(n.stack) = h
         /\ \A i \in 1 .. h : n.stack[i] = th.stack[i]
         /\ SamePlaces(th, n)
<1>1. n.stack \in Seq(Seq(Slots)) /\ Len(n.stack) = h
      /\ \A i \in 1 .. h : n.stack[i] = th.stack[i]
  BY SubSeqProperties
<1>3. ASSUME NEW p \in Places(n) PROVE p \in Places(th) /\ SlotAt(n, p) = SlotAt(th, p)
  <2>1. p = <<p[1], p[2]>> /\ p[1] \in 1 .. Len(n.stack) /\ p[2] \in 1 .. Len(n.stack[p[1]])
    BY <1>1, InPlaces
  <2>2. p[1] \in 1 .. Len(th.stack) /\ p[2] \in 1 .. Len(th.stack[p[1]])
    BY <2>1, <1>1
  <2> QED
    BY <2>1, <2>2, <1>1, PlaceIn DEF SlotAt
<1>4. ASSUME NEW p \in Places(th) PROVE p \in Places(n)
  <2>1. p = <<p[1], p[2]>> /\ p[1] \in 1 .. Len(th.stack) /\ p[2] \in 1 .. Len(th.stack[p[1]])
    BY InPlaces
  <2>2. ~(p[1] > h)
    BY <2>1
  <2>3. p[1] \in 1 .. Len(n.stack)
    BY <2>1, <2>2, <1>1
  <2>4. p[2] \in 1 .. Len(n.stack[p[1]])
    BY <2>1, <2>3, <1>1
  <2> QED
    BY <2>1, <2>3, <2>4, <1>1, PlaceIn
<1> QED
  BY <1>1, <1>3, <1>4 DEF SamePlaces

(* The last frame becomes g.                                               *)
TopIs(th, n, g) == n.stack = [th.stack EXCEPT ![Len(th.stack)] = g]

\* The other frames stay as they are.
LEMMA TopChanged ==
  ASSUME NEW th, th.stack \in Stacks, NEW n, NEW g \in Seq(Slots), TopIs(th, n, g)
  PROVE  /\ n.stack \in Stacks /\ Len(n.stack) = Len(th.stack)
         /\ Len(th.stack) \in 1 .. Len(th.stack)
         /\ n.stack[Len(th.stack)] = g
         /\ \A i \in 1 .. Len(th.stack) : i # Len(th.stack) => n.stack[i] = th.stack[i]
<1>1. Len(th.stack) \in 1 .. Len(th.stack)
  BY EmptySeq DEF Stacks
<1>2. n.stack \in Seq(Seq(Slots)) /\ Len(n.stack) = Len(th.stack)
  BY <1>1, ExceptSeq DEF Stacks, TopIs
<1>3. n.stack[Len(th.stack)] = g
  BY <1>1 DEF Stacks, TopIs
<1>4. \A i \in 1 .. Len(th.stack) : i # Len(th.stack) => n.stack[i] = th.stack[i]
  BY <1>1 DEF Stacks, TopIs
<1> QED
  BY <1>1, <1>2, <1>3, <1>4, EmptySeq DEF Stacks

SporkStack(th, n, s) == n.stack = [th.stack EXCEPT ![Len(th.stack)] = Append(@, s)]
LeaveStack(th, n) == n.stack = [th.stack EXCEPT ![Len(th.stack)] = Front(@)]
MarkStack(th, n, i, k, r) == n.stack = [th.stack EXCEPT ![i][k].right = r]

\* A spork adds one place, the youngest.
LEMMA SporkGains ==
  ASSUME NEW th, th.stack \in Stacks, NEW n, NEW s \in Slots, s.right = None,
         SporkStack(th, n, s)
  PROVE  /\ n.stack \in Stacks /\ Len(n.stack) = Len(th.stack)
         /\ Last(n.stack) = Append(Last(th.stack), s)
         /\ \A i \in 1 .. Len(th.stack) : i # Len(th.stack) => n.stack[i] = th.stack[i]
         /\ Gained(th, n, <<Len(th.stack), Len(Last(th.stack)) + 1>>)
<1> DEFINE l == Len(th.stack)  f == Last(th.stack)  g == Append(f, s)
           p == <<l, Len(f) + 1>>
<1>0. l \in 1 .. l
  BY EmptySeq DEF Stacks
<1>1. f \in Seq(Slots) /\ f = th.stack[l]
  BY <1>0, ElementOfSeq DEF Stacks, Last
<1>2. g \in Seq(Slots) /\ Len(g) = Len(f) + 1 /\ g[Len(f) + 1] = s
      /\ \A k \in 1 .. Len(f) : g[k] = f[k]
  BY <1>1, AppendProperties
<1>3. TopIs(th, n, g)
  BY <1>1 DEF TopIs, SporkStack, LeaveStack
<1>4. /\ n.stack \in Stacks /\ Len(n.stack) = l
      /\ n.stack[l] = g
      /\ \A i \in 1 .. l : i # l => n.stack[i] = th.stack[i]
  BY ZenonT(30), <1>2, <1>3, TopChanged
<1>s. n.stack \in Seq(Seq(Slots)) /\ th.stack \in Seq(Seq(Slots))
  BY <1>4 DEF Stacks
<1>5. ASSUME NEW q \in Places(th)
      PROVE  q \in Places(n) /\ SlotAt(n, q) = SlotAt(th, q) /\ Older(q, p) /\ q # p
  <2>1. q = <<q[1], q[2]>> /\ q[1] \in 1 .. l /\ q[2] \in 1 .. Len(th.stack[q[1]])
        /\ SlotAt(th, q) = th.stack[q[1]][q[2]]
    BY <1>s, InPlaces
  <2>2. q[2] \in 1 .. Len(n.stack[q[1]]) /\ n.stack[q[1]][q[2]] = th.stack[q[1]][q[2]]
    <3>1. CASE q[1] = l
      BY <3>1, <2>1, <1>1, <1>2, <1>4
    <3>2. CASE q[1] # l
      BY <3>2, <2>1, <1>4
    <3> QED
      BY <3>1, <3>2
  <2>3. q \in Places(n) /\ SlotAt(n, q) = n.stack[q[1]][q[2]]
    BY SMTT(30), <2>1, <2>2, <1>4, <1>s, PlaceIn
  <2>4. q[1] < l \/ (q[1] = l /\ q[2] < Len(f) + 1)
    BY <2>1, <1>1
  <2>5. q # p
    BY <2>1, <2>4, <1>1 DEF Stacks
  <2> QED
    BY <2>1, <2>2, <2>3, <2>4, <2>5 DEF Older
<1>6. p \in Places(n) /\ SlotAt(n, p) = s
  <2>1. Len(f) + 1 \in 1 .. Len(n.stack[l])
    BY <1>1, <1>2, <1>4
  <2>2. l \in 1 .. Len(n.stack)
    BY <1>0, <1>4
  <2>3. <<l, Len(f) + 1>> \in Places(n)
        /\ SlotAt(n, <<l, Len(f) + 1>>) = n.stack[l][Len(f) + 1]
    BY <2>1, <2>2, <1>s, PlaceIn
  <2> QED
    BY <2>3, <1>2, <1>4
<1>7. ASSUME NEW q \in Places(n), q # p PROVE q \in Places(th)
  <2>1. q = <<q[1], q[2]>> /\ q[1] \in 1 .. l /\ q[2] \in 1 .. Len(n.stack[q[1]])
    BY <1>4, <1>s, InPlaces
  <2>2. q[2] \in 1 .. Len(th.stack[q[1]])
    <3>1. CASE q[1] = l
      <4>1. q[2] # Len(f) + 1
        BY <3>1, <2>1, <1>7
      <4> QED
        BY <4>1, <3>1, <2>1, <1>1, <1>2, <1>4
    <3>2. CASE q[1] # l
      BY <3>2, <2>1, <1>4
    <3> QED
      BY <3>1, <3>2
  <2> QED
    BY <2>1, <2>2, <1>s, PlaceIn
<1>8. Places(n) = Places(th) \cup {p}
  BY <1>5, <1>6, <1>7
<1>9. p \notin Places(th)
  BY <1>5
<1>10. Gained(th, n, p)
  BY <1>5, <1>6, <1>8, <1>9 DEF Gained
<1>11. Last(n.stack) = g
  BY <1>4 DEF Last
<1> QED
  BY <1>4, <1>10, <1>11

\* The end of a spork takes the youngest place away.
LEMMA LeaveLoses ==
  ASSUME NEW th, th.stack \in Stacks, Last(th.stack) # <<>>, NEW n,
         LeaveStack(th, n)
  PROVE  /\ n.stack \in Stacks /\ Len(n.stack) = Len(th.stack)
         /\ Last(n.stack) \in Seq(Slots) /\ Last(th.stack) \in Seq(Slots)
         /\ Len(Last(n.stack)) = Len(Last(th.stack)) - 1
         /\ \A k \in 1 .. Len(Last(n.stack)) : Last(n.stack)[k] = Last(th.stack)[k]
         /\ \A i \in 1 .. Len(th.stack) : i # Len(th.stack) => n.stack[i] = th.stack[i]
         /\ Lost(th, n, <<Len(th.stack), Len(Last(th.stack))>>)
         /\ SlotAt(th, <<Len(th.stack), Len(Last(th.stack))>>) = Last(Last(th.stack))
<1> DEFINE l == Len(th.stack)  f == Last(th.stack)  g == Front(f)  p == <<l, Len(f)>>
<1>0. l \in 1 .. l
  BY EmptySeq DEF Stacks
<1>1. f \in Seq(Slots) /\ f = th.stack[l] /\ Len(f) \in 1 .. Len(f)
  BY <1>0, ElementOfSeq, EmptySeq DEF Stacks, Last
<1>2. g \in Seq(Slots) /\ Len(g) = Len(f) - 1 /\ \A k \in 1 .. Len(g) : g[k] = f[k]
  <2>1. g = SubSeq(f, 1, Len(f) - 1) /\ Len(f) - 1 \in 0 .. Len(f) /\ 1 \in 1 .. Len(f) + 1
    BY <1>1 DEF Front
  <2> QED
    BY <2>1, <1>1, SubSeqProperties
<1>3. TopIs(th, n, g)
  BY <1>1 DEF TopIs, SporkStack, LeaveStack
<1>4. /\ n.stack \in Stacks /\ Len(n.stack) = l
      /\ n.stack[l] = g
      /\ \A i \in 1 .. l : i # l => n.stack[i] = th.stack[i]
  BY <1>2, <1>3, TopChanged
<1>s. n.stack \in Seq(Seq(Slots)) /\ th.stack \in Seq(Seq(Slots))
  BY <1>4 DEF Stacks
<1>5. ASSUME NEW q \in Places(n)
      PROVE  q \in Places(th) /\ SlotAt(n, q) = SlotAt(th, q) /\ Older(q, p) /\ q # p
  <2>1. q = <<q[1], q[2]>> /\ q[1] \in 1 .. l /\ q[2] \in 1 .. Len(n.stack[q[1]])
        /\ SlotAt(n, q) = n.stack[q[1]][q[2]]
    BY <1>4, <1>s, InPlaces
  <2>2. q[2] \in 1 .. Len(th.stack[q[1]]) /\ n.stack[q[1]][q[2]] = th.stack[q[1]][q[2]]
    <3>1. CASE q[1] = l
      BY <3>1, <2>1, <1>1, <1>2, <1>4
    <3>2. CASE q[1] # l
      BY <3>2, <2>1, <1>4
    <3> QED
      BY <3>1, <3>2
  <2>3. q \in Places(th) /\ SlotAt(th, q) = th.stack[q[1]][q[2]]
    BY <2>1, <2>2, <1>s, PlaceIn
  <2>4. q[1] < l \/ (q[1] = l /\ q[2] < Len(f))
    BY <2>1, <1>1, <1>2, <1>4
  <2>5. q # p
    BY <2>1, <2>4, <1>1 DEF Stacks
  <2> QED
    BY <2>1, <2>2, <2>3, <2>4, <2>5 DEF Older
<1>6. p \in Places(th) /\ SlotAt(th, p) = Last(f)
  BY <1>0, <1>1, <1>s, PlaceIn DEF Last
<1>7. ASSUME NEW q \in Places(th), q # p PROVE q \in Places(n)
  <2>1. q = <<q[1], q[2]>> /\ q[1] \in 1 .. l /\ q[2] \in 1 .. Len(th.stack[q[1]])
    BY <1>s, InPlaces
  <2>2. q[2] \in 1 .. Len(n.stack[q[1]])
    <3>1. CASE q[1] = l
      <4>1. q[2] # Len(f)
        BY <3>1, <2>1, <1>7
      <4> QED
        BY <4>1, <3>1, <2>1, <1>1, <1>2, <1>4
    <3>2. CASE q[1] # l
      BY <3>2, <2>1, <1>4
    <3> QED
      BY <3>1, <3>2
  <2> QED
    BY <2>1, <2>2, <1>4, <1>s, PlaceIn
<1>8. Places(n) = Places(th) \ {p}
  BY <1>5, <1>6, <1>7
<1>9. Lost(th, n, p)
  BY <1>5, <1>6, <1>8 DEF Lost
<1>10. Last(n.stack) = g
  BY <1>4 DEF Last
<1> QED
  BY <1>1, <1>2, <1>4, <1>6, <1>9, <1>10

\* A promotion changes what is at one place.
LEMMA MarkMarks ==
  ASSUME NEW th, th.stack \in Stacks, NEW n, NEW r \in Threads, None \notin Threads,
         NEW i \in 1 .. Len(th.stack), NEW k \in 1 .. Len(th.stack[i]),
         MarkStack(th, n, i, k, r),
         Promotable(th.stack[i][k]),
         \A j \in 1 .. Len(th.stack) : \A m \in 1 .. Len(th.stack[j]) :
           Promotable(th.stack[j][m]) => i < j \/ (i = j /\ k <= m)
  PROVE  /\ n.stack \in Stacks /\ Len(n.stack) = Len(th.stack)
         /\ \A j \in 1 .. Len(th.stack) : Len(n.stack[j]) = Len(th.stack[j])
         /\ \A j \in 1 .. Len(th.stack) : j # i => n.stack[j] = th.stack[j]
         /\ n.stack[i] \in Seq(Slots) /\ n.stack[i][k].right = r
         /\ \A m \in 1 .. Len(th.stack[i]) : m # k => n.stack[i][m] = th.stack[i][m]
         /\ Marked(th, n, <<i, k>>, r)
<1> DEFINE f == th.stack[i]  s == [f[k] EXCEPT !.right = r]  g == [f EXCEPT ![k] = s]
           p == <<i, k>>
<1>1. f \in Seq(Slots) /\ f[k] \in Slots
  BY ElementOfSeq DEF Stacks
<1>2. s \in Slots /\ s.right = r
  BY <1>1 DEF Slots
<1>3. g \in Seq(Slots) /\ Len(g) = Len(f) /\ g[k] = s /\ \A m \in 1 .. Len(f) : m # k => g[m] = f[m]
  BY <1>1, <1>2, ExceptSeq
<1>4. n.stack = [th.stack EXCEPT ![i] = g]
  BY DEF MarkStack
<1>5. n.stack \in Seq(Seq(Slots)) /\ Len(n.stack) = Len(th.stack)
  BY <1>3, <1>4, ExceptSeq DEF Stacks
<1>6. n.stack[i] = g /\ \A j \in 1 .. Len(th.stack) : j # i => n.stack[j] = th.stack[j]
  BY <1>4 DEF Stacks
<1>s. n.stack \in Seq(Seq(Slots)) /\ th.stack \in Seq(Seq(Slots))
  BY <1>5 DEF Stacks
<1>7. n.stack \in Stacks
  BY <1>5, EmptySeq DEF Stacks
<1>8. \A j \in 1 .. Len(th.stack) : Len(n.stack[j]) = Len(th.stack[j])
  BY <1>3, <1>6
<1>9. ASSUME NEW q \in Places(th) PROVE q \in Places(n) /\ (q # p => SlotAt(n, q) = SlotAt(th, q))
  <2>1. q = <<q[1], q[2]>> /\ q[1] \in 1 .. Len(th.stack) /\ q[2] \in 1 .. Len(th.stack[q[1]])
        /\ SlotAt(th, q) = th.stack[q[1]][q[2]]
    BY <1>s, InPlaces
  <2>2. q \in Places(n) /\ SlotAt(n, q) = n.stack[q[1]][q[2]]
    BY <2>1, <1>5, <1>8, PlaceIn
  <2>3. ASSUME q # p PROVE n.stack[q[1]][q[2]] = th.stack[q[1]][q[2]]
    <3>1. CASE q[1] # i
      BY <3>1, <2>1, <1>6
    <3>2. CASE q[1] = i
      <4>1. q[2] # k
        BY <2>1, <2>3, <3>2
      <4> QED
        BY <4>1, <3>2, <2>1, <1>3, <1>6
    <3> QED
      BY <3>1, <3>2
  <2> QED
    BY <2>1, <2>2, <2>3
<1>10. ASSUME NEW q \in Places(n) PROVE q \in Places(th)
  <2>1. q = <<q[1], q[2]>> /\ q[1] \in 1 .. Len(th.stack) /\ q[2] \in 1 .. Len(th.stack[q[1]])
    BY <1>5, <1>8, InPlaces
  <2> QED
    BY <2>1, <1>s, PlaceIn
<1>11. p \in Places(th) /\ SlotAt(th, p) = f[k]
  BY <1>s, PlaceIn
<1>12. SlotAt(n, p).right = r
  BY <1>2, <1>3, <1>6 DEF SlotAt
<1>13. ASSUME NEW q \in ToPromote(th) PROVE q = p \/ Older(p, q)
  <2>1. q \in Places(th) /\ Promotable(SlotAt(th, q))
    BY DEF ToPromote
  <2>2. q = <<q[1], q[2]>> /\ q[1] \in 1 .. Len(th.stack) /\ q[2] \in 1 .. Len(th.stack[q[1]])
        /\ SlotAt(th, q) = th.stack[q[1]][q[2]]
    BY <2>1, <1>s, InPlaces
  <2>3. i < q[1] \/ (i = q[1] /\ k <= q[2])
    BY <2>1, <2>2
  <2>4. CASE i = q[1] /\ k = q[2]
    BY <2>4, <2>2
  <2>5. CASE ~(i = q[1] /\ k = q[2])
    BY <2>5, <2>3, <2>2 DEF Older
  <2> QED
    BY <2>4, <2>5
<1>14. p \in ToPromote(th)
  BY <1>11 DEF ToPromote
<1>15. r # None
  OBVIOUS
<1>16. Marked(th, n, p, r)
  BY <1>9, <1>10, <1>12, <1>13, <1>14, <1>15 DEF Marked
<1> QED
  BY <1>2, <1>3, <1>5, <1>6, <1>7, <1>8, <1>16

-----------------------------------------------------------------------------
(* The promotion stack *)

Below == {p \in Nat \X Nat : p[1] < p[2]}

\* Every set of naturals has a least element.
LEMMA BelowIsWellFounded == IsWellFoundedOn(Below, Nat)
<1>1. Below = OpToRel(<, Nat)
  BY DEF Below, OpToRel
<1> QED
  BY <1>1, NatLessThanWellFounded, Zenon

\* Min is that element.
LEMMA MinFacts ==
  ASSUME NEW S \in SUBSET Nat, S # {}
  PROVE  Min(S) \in S /\ \A y \in S : Min(S) <= y
<1>1. PICK x \in S : \A y \in S : <<y, x>> \notin Below
  BY BelowIsWellFounded, WFMin
<1>2. ASSUME NEW y \in S, ~(x <= y) PROVE FALSE
  <2>1. y \in Nat /\ x \in Nat /\ y < x
    BY <1>2
  <2>2. <<y, x>> \in Below
    BY <2>1 DEF Below
  <2> QED
    BY <1>1, <2>2
<1>3. \E z \in S : \A y \in S : z <= y
  BY <1>2
<1> QED
  BY <1>3 DEF Min

(* The greatest is the least of the upper bounds.                          *)
LEMMA MaxFacts ==
  ASSUME NEW n \in Nat, NEW S \in SUBSET (0 .. n), S # {}
  PROVE  Max(S) \in S /\ \A y \in S : Max(S) >= y
<1> DEFINE B == {b \in Nat : \A y \in S : y <= b}
<1>1. n \in B /\ B \in SUBSET Nat
  OBVIOUS
<1>2. PICK m \in B : m = Min(B)
  BY <1>1, MinFacts
<1>3. \A b \in B : m <= b
  BY <1>1, <1>2, MinFacts
<1>4. m \in S
  <2>1. SUFFICES ASSUME m \notin S PROVE FALSE
    OBVIOUS
  <2>2. PICK y \in S : TRUE
    OBVIOUS
  <2>3. y \in Nat /\ y <= m /\ y # m /\ m \in Nat
    BY <2>1, <2>2, <1>2
  <2>4. m - 1 \in Nat
    BY <2>3
  <2>5. ASSUME NEW z \in S PROVE z <= m - 1
    <3>1. z \in Nat /\ z <= m /\ z # m
      BY <2>1, <1>2
    <3> QED
      BY <3>1, <2>3
  <2>6. m - 1 \in B
    BY <2>4, <2>5
  <2> QED
    BY <2>3, <2>6, <1>3
<1>5. \E z \in S : \A y \in S : z >= y
  BY <1>4, <1>2
<1> QED
  BY <1>5 DEF Max

Typed(th) ==
  /\ th \in ThreadStates
  /\ Len(th.stack) \in 1 .. MaxFrames
  /\ \A i \in DOMAIN th.stack : Len(th.stack[i]) <= MaxNest
  /\ th.promoBot <= Len(Entries(th))

Sorted(e) == \A i, j \in 1 .. Len(e) : i < j => e[i] < e[j]
PromoAt(e, s, b) ==
  /\ Sorted(e)
  /\ \A i \in 1 .. Len(e) : e[i] \in 1 .. Len(s) /\ s[e[i]] # <<>>
  /\ \A f \in 1 .. Len(s) : s[f] # <<>> => \E i \in 1 .. Len(e) : e[i] = f
  /\ \A i \in 1 .. Len(e) : \A k \in 1 .. Len(s[e[i]]) :
       /\ i <= b => ~Promotable(s[e[i]][k])
       /\ i >= b + 2 => Promotable(s[e[i]][k])

\* What the type of a thread says of its stacks.
LEMMA TypedFacts ==
  ASSUME NEW th, Typed(th)
  PROVE  /\ th.stack \in Stacks /\ th.stack \in Seq(Seq(Slots)) /\ th.promoBot \in Nat
         /\ th.promoStack \in Seq(1 .. MaxFrames) /\ Len(th.stack) \in 1 .. MaxFrames
         /\ MaxFrames \in Nat
         /\ Len(th.promoStack) \in Nat /\ Len(th.stack) \in Nat
         /\ Last(th.stack) \in Seq(Slots) /\ Last(th.stack) = th.stack[Len(th.stack)]
         /\ Entries(th) \in Seq(1 .. MaxFrames) /\ Len(Entries(th)) \in Nat
         /\ th.promoBot <= Len(Entries(th))
         /\ \A i \in 1 .. Len(th.stack) : th.stack[i] \in Seq(Slots)
         /\ Last(th.stack) = <<>> => Entries(th) = th.promoStack
         /\ Last(th.stack) # <<>> =>
              /\ Entries(th) = Append(th.promoStack, Len(th.stack))
              /\ Len(Entries(th)) = Len(th.promoStack) + 1
              /\ Entries(th)[Len(th.promoStack) + 1] = Len(th.stack)
              /\ \A i \in 1 .. Len(th.promoStack) : Entries(th)[i] = th.promoStack[i]
         /\ Len(th.promoStack) <= Len(Entries(th))
         /\ Len(Entries(th)) <= Len(th.promoStack) + 1
<1>1. /\ th.stack \in Seq(Seq(Slots)) /\ th.promoBot \in Nat
      /\ th.promoStack \in Seq(1 .. MaxFrames) /\ Len(th.stack) \in 1 .. MaxFrames
      /\ MaxFrames \in Nat /\ th.promoBot <= Len(Entries(th))
  BY BoundsAssumption DEF Typed, ThreadStates
<1>2. th.stack \in Stacks /\ Len(th.stack) \in 1 .. Len(th.stack) /\ Len(th.stack) \in Nat
  BY <1>1, EmptySeq DEF Stacks
<1>3. \A i \in 1 .. Len(th.stack) : th.stack[i] \in Seq(Slots)
  BY <1>1, ElementOfSeq
<1>4. Last(th.stack) \in Seq(Slots) /\ Last(th.stack) = th.stack[Len(th.stack)]
  BY <1>2, <1>3 DEF Last
<1>5. Len(th.promoStack) \in Nat
  BY <1>1, LenProperties
<1>6. CASE Last(th.stack) = <<>>
  BY <1>6, <1>1, <1>2, <1>3, <1>4, <1>5 DEF Entries
<1>7. CASE Last(th.stack) # <<>>
  <2>1. Entries(th) = Append(th.promoStack, Len(th.stack))
    BY <1>7 DEF Entries
  <2>2. /\ Entries(th) \in Seq(1 .. MaxFrames)
        /\ Len(Entries(th)) = Len(th.promoStack) + 1
        /\ Entries(th)[Len(th.promoStack) + 1] = Len(th.stack)
        /\ \A i \in 1 .. Len(th.promoStack) : Entries(th)[i] = th.promoStack[i]
    BY <2>1, <1>1, AppendProperties
  <2> QED
    BY <2>1, <2>2, <1>7, <1>1, <1>2, <1>3, <1>4, <1>5
<1> QED
  BY <1>6, <1>7

LiveFrame(s, j) == j <= Len(s) /\ FrameIsPromotable(s[j])

\* The first entry of the promotion stack that can be promoted.
LEMMA FirstEntryFacts ==
  ASSUME NEW th, Typed(th), NEW e, e = Entries(th), NEW f, f = FirstEntry(th)
  PROVE  /\ f = 0 => \A i \in th.promoBot + 1 .. Len(e) : ~LiveFrame(th.stack, e[i])
         /\ f # 0 => /\ f \in th.promoBot + 1 .. Len(e) /\ LiveFrame(th.stack, e[f])
                     /\ \A i \in th.promoBot + 1 .. Len(e) :
                          LiveFrame(th.stack, e[i]) => f <= i
         /\ f \in 0 .. Len(e)
<1> DEFINE b == th.promoBot + 1
           I == {i \in b .. Len(e) : LiveFrame(th.stack, e[i])}
<1>1. f = IF I # {} THEN Min(I) ELSE 0
  BY DEF FirstEntry, SelectInSubSeq, LiveFrame
<1>2. b \in Nat /\ b > 0 /\ Len(e) \in Nat /\ I \in SUBSET Nat
  BY TypedFacts
<1>3. CASE I = {}
  BY <1>1, <1>2, <1>3
<1>4. CASE I # {}
  <2>1. f \in I /\ \A i \in I : f <= i
    BY ZenonT(30), <1>1, <1>2, <1>4, MinFacts
  <2>2. f # 0 /\ f \in 0 .. Len(e)
    BY <2>1, <1>2
  <2> QED
    BY <2>1, <2>2
<1> QED
  BY <1>3, <1>4

\* What the walk over the stack finds.
LEMMA FindFacts ==
  ASSUME NEW th, Typed(th), NEW f, f = FindPromotableFrame(th)
  PROVE  /\ f = 0 => \A i \in 1 .. Len(th.stack) : ~FrameIsPromotable(th.stack[i])
         /\ f # 0 => /\ f \in 1 .. Len(th.stack) /\ FrameIsPromotable(th.stack[f])
                     /\ \A i \in 1 .. Len(th.stack) :
                          FrameIsPromotable(th.stack[i]) => f <= i
<1> DEFINE I == {i \in 1 .. Len(th.stack) : FrameIsPromotable(th.stack[i])}
<1>1. f = IF I # {} THEN Min(I) ELSE 0
  BY DEF FindPromotableFrame, SelectInSeq
<1>2. Len(th.stack) \in Nat /\ I \in SUBSET Nat
  BY TypedFacts
<1>3. CASE I = {}
  BY <1>1, <1>2, <1>3
<1>4. CASE I # {}
  <2>1. f \in I /\ \A i \in I : f <= i
    BY <1>1, <1>2, <1>4, MinFacts
  <2> QED
    BY <2>1, <1>2
<1> QED
  BY <1>3, <1>4

\* ... and the one that begins at its end.
LEMMA YoungestFacts ==
  ASSUME NEW th, Typed(th), NEW f, f = FindYoungestPromotableFrame(th)
  PROVE  /\ f = 0 => \A i \in 1 .. Len(th.stack) : ~FrameIsPromotable(th.stack[i])
         /\ f # 0 => /\ f \in 1 .. Len(th.stack) /\ FrameIsPromotable(th.stack[f])
                     /\ \A i \in 1 .. Len(th.stack) :
                          FrameIsPromotable(th.stack[i]) => f >= i
<1> DEFINE I == {i \in 1 .. Len(th.stack) : FrameIsPromotable(th.stack[i])}
<1>1. f = IF I # {} THEN Max(I) ELSE 0
  BY DEF FindYoungestPromotableFrame, SelectLastInSeq
<1>2. Len(th.stack) \in Nat /\ I \in SUBSET (0 .. Len(th.stack))
  BY TypedFacts
<1>3. CASE I = {}
  BY <1>1, <1>2, <1>3
<1>4. CASE I # {}
  <2>1. f \in I /\ \A i \in I : f >= i
    BY <1>1, <1>2, <1>4, MaxFacts
  <2> QED
    BY <2>1, <1>2
<1> QED
  BY <1>3, <1>4

\* The oldest spork of a frame.
LEMMA InnerFacts ==
  ASSUME NEW s \in Seq(Slots), NEW k, k = OldestSpork(s), FrameIsPromotable(s)
  PROVE  k \in 1 .. Len(s) /\ Promotable(s[k])
         /\ \A m \in 1 .. Len(s) : Promotable(s[m]) => k <= m
<1> DEFINE I == {i \in 1 .. Len(s) : Promotable(s[i])}
<1>1. k = IF I # {} THEN Min(I) ELSE 0
  BY DEF SelectInSeq, OldestSpork
<1>2. I # {} /\ I \in SUBSET Nat
  BY LenProperties DEF FrameIsPromotable
<1>3. k \in I /\ \A i \in I : k <= i
  BY <1>1, <1>2, MinFacts
<1> QED
  BY <1>3

(* The promotion stack finds the oldest frame, next to its bottom.         *)
LEMMA FindsOldest ==
  ASSUME NEW th, Typed(th), NEW e, e = Entries(th), PromoAt(e, th.stack, th.promoBot),
         NEW f, f = FirstEntry(th)
  PROVE  /\ OldestPromotableFrame(th) = FindPromotableFrame(th)
         /\ f # 0 => f \in {th.promoBot + 1, th.promoBot + 2}
         /\ f = 0 => Len(e) <= th.promoBot + 1
         /\ Skipped(th) \in 0 .. 1
<1> DEFINE b == th.promoBot  s == th.stack  g == FindPromotableFrame(th)
<1>1. b \in Nat /\ Len(e) \in Nat /\ b <= Len(e) /\ f \in 0 .. Len(e) /\ Len(s) \in Nat
      /\ \A i \in 1 .. Len(e) : e[i] \in 1 .. Len(s)
  BY TypedFacts, FirstEntryFacts DEF PromoAt
<1>2. ASSUME NEW j \in 1 .. Len(s), FrameIsPromotable(s[j])
      PROVE  \E i \in b + 1 .. Len(e) : e[i] = j /\ LiveFrame(s, e[i])
  <2>1. PICK k \in 1 .. Len(s[j]) : Promotable(s[j][k])
    <3>1. s[j] \in Seq(Slots)
      BY TypedFacts
    <3> QED
      BY <1>2, <3>1 DEF FrameIsPromotable
  <2>2. s[j] # <<>>
    BY <2>1
  <2>3. PICK i \in 1 .. Len(e) : e[i] = j
    BY <2>2 DEF PromoAt
  <2>4. ~(i <= b)
    BY <2>1, <2>3 DEF PromoAt
  <2>5. i \in b + 1 .. Len(e)
    BY <2>3, <2>4, <1>1
  <2>6. LiveFrame(s, e[i])
    BY <2>3, <1>2, <1>1 DEF LiveFrame
  <2> QED
    BY <2>3, <2>5, <2>6
<1>3. ASSUME NEW i \in b + 2 .. Len(e) PROVE LiveFrame(s, e[i])
  <2>1. i \in 1 .. Len(e) /\ i >= b + 2
    BY <1>1
  <2>2. e[i] \in 1 .. Len(s) /\ s[e[i]] # <<>>
    BY <2>1 DEF PromoAt
  <2>3. s[e[i]] \in Seq(Slots)
    BY <2>2, TypedFacts
  <2>4. 1 \in 1 .. Len(s[e[i]]) /\ 1 \in DOMAIN s[e[i]]
    BY <2>2, <2>3, EmptySeq
  <2>5. Promotable(s[e[i]][1])
    BY <2>1, <2>4 DEF PromoAt
  <2> QED
    BY <2>2, <2>4, <2>5, <1>1 DEF LiveFrame, FrameIsPromotable
<1>4. CASE f = 0
  <2>1. \A i \in b + 1 .. Len(e) : ~LiveFrame(s, e[i])
    BY <1>4, FirstEntryFacts
  <2>2. \A j \in 1 .. Len(s) : ~FrameIsPromotable(s[j])
    BY <1>2, <2>1
  <2>3. g = 0
    BY <2>2, FindFacts
  <2>4. Len(e) <= b + 1
    <3>1. ASSUME Len(e) >= b + 2 PROVE FALSE
      <4>1. b + 2 \in b + 2 .. Len(e) /\ b + 2 \in b + 1 .. Len(e)
        BY <3>1, <1>1
      <4> QED
        BY <4>1, <1>3, <2>1
    <3> QED
      BY <3>1, <1>1
  <2>5. OldestPromotableFrame(th) = 0 /\ Skipped(th) = Len(e) - b
    BY <1>4 DEF OldestPromotableFrame, Skipped
  <2> QED
    BY <2>3, <2>4, <2>5, <1>4, <1>1
<1>5. CASE f # 0
  <2>1. /\ f \in b + 1 .. Len(e) /\ LiveFrame(s, e[f])
        /\ \A i \in b + 1 .. Len(e) : LiveFrame(s, e[i]) => f <= i
    BY <1>5, FirstEntryFacts
  <2>2. f <= b + 2
    <3>1. ASSUME f > b + 2 PROVE FALSE
      <4>1. b + 2 \in b + 2 .. Len(e) /\ b + 2 \in b + 1 .. Len(e)
        BY <3>1, <2>1, <1>1
      <4>2. f <= b + 2
        BY <4>1, <1>3, <2>1
      <4> QED
        BY <4>2, <3>1, <2>1, <1>1
    <3> QED
      BY <3>1, <1>1
  <2>3. OldestPromotableFrame(th) = e[f] /\ Skipped(th) = f - 1 - b
    BY <1>5 DEF OldestPromotableFrame, Skipped
  <2>4. e[f] \in 1 .. Len(s) /\ FrameIsPromotable(s[e[f]])
    BY <2>1, <1>1 DEF LiveFrame
  <2>5. g # 0 /\ g \in 1 .. Len(s) /\ FrameIsPromotable(s[g]) /\ g <= e[f]
    BY <2>4, FindFacts
  <2>6. PICK i \in b + 1 .. Len(e) : e[i] = g /\ LiveFrame(s, e[i])
    BY <2>5, <1>2
  <2>7. f <= i
    BY <2>6, <2>1
  <2>8. e[f] <= e[i]
    <3>1. CASE f = i
      BY <3>1, <2>4
    <3>2. CASE f # i
      <4>1. f < i /\ f \in 1 .. Len(e) /\ i \in 1 .. Len(e)
        BY <3>2, <2>7, <2>6, <2>1, <1>1
      <4>2. e[f] < e[i]
        BY <4>1 DEF PromoAt, Sorted
      <4> QED
        BY <4>1, <4>2, <1>1
    <3> QED
      BY <3>1, <3>2
  <2>9. e[f] = g
    BY <2>4, <2>5, <2>6, <2>8
  <2>10. f \in {b + 1, b + 2} /\ f - 1 - b \in 0 .. 1
    BY <2>1, <2>2, <1>1
  <2> QED
    BY <2>3, <2>9, <2>10, <1>5
<1> QED
  BY <1>4, <1>5

\* The entries skipped are above the bottom.
LEMMA SkippedFacts ==
  ASSUME NEW th, Typed(th)
  PROVE  Skipped(th) \in Nat /\ th.promoBot + Skipped(th) \in 0 .. Len(Entries(th))
<1> DEFINE e == Entries(th)  b == th.promoBot
<1>1. PICK f : f = FirstEntry(th)
  OBVIOUS
<1>2. b \in Nat /\ Len(e) \in Nat /\ b <= Len(e) /\ f \in 0 .. Len(e)
      /\ (f # 0 => f \in b + 1 .. Len(e))
  BY <1>1, TypedFacts, FirstEntryFacts
<1>3. Skipped(th) = (IF f = 0 THEN Len(e) ELSE f - 1) - b
  BY <1>1 DEF Skipped
<1> QED
  BY <1>2, <1>3

\* A frame can be promoted when one of its sporks can.
LEMMA NotPromotable ==
  ASSUME NEW s \in Seq(Slots)
  PROVE  FrameIsPromotable(s) <=> \E k \in 1 .. Len(s) : Promotable(s[k])
BY DEF FrameIsPromotable

\* The frame that is found is on the stack.
LEMMA OldestIsThere ==
  ASSUME NEW th, Typed(th), NEW i, i = OldestPromotableFrame(th), i # 0
  PROVE  /\ FirstEntry(th) # 0 /\ i = Entries(th)[FirstEntry(th)]
         /\ i \in 1 .. Len(th.stack) /\ th.stack[i] \in Seq(Slots)
         /\ FrameIsPromotable(th.stack[i])
<1>1. FirstEntry(th) # 0 /\ i = Entries(th)[FirstEntry(th)]
  BY DEF OldestPromotableFrame
<1>2. i <= Len(th.stack) /\ FrameIsPromotable(th.stack[i])
      /\ FirstEntry(th) \in 1 .. Len(Entries(th))
  BY <1>1, FirstEntryFacts, TypedFacts DEF LiveFrame
<1>3. i \in 1 .. MaxFrames
  BY <1>1, <1>2, TypedFacts, ElementOfSeq
<1>4. i \in 1 .. Len(th.stack)
  BY <1>2, <1>3, TypedFacts
<1> QED
  BY <1>1, <1>2, <1>4, TypedFacts

MarkEffect(th, n, i, k, r) ==
  /\ i \in 1 .. Len(th.stack) /\ k \in 1 .. Len(th.stack[i])
  /\ Promotable(th.stack[i][k])
  /\ n.stack \in Stacks /\ Len(n.stack) = Len(th.stack)
  /\ \A j \in 1 .. Len(th.stack) : Len(n.stack[j]) = Len(th.stack[j])
  /\ \A j \in 1 .. Len(th.stack) : j # i => n.stack[j] = th.stack[j]
  /\ n.stack[i] \in Seq(Slots) /\ n.stack[i][k].right = r
  /\ \A m \in 1 .. Len(th.stack[i]) : m # k => n.stack[i][m] = th.stack[i][m]
  /\ Marked(th, n, <<i, k>>, r)

(* The oldest spork of the oldest frame is promoted.                       *)
LEMMA MarksOldest ==
  ASSUME NEW th, Typed(th), NEW n, NEW r \in Threads, NEW i, NEW k,
         i = OldestPromotableFrame(th), i # 0, i = FindPromotableFrame(th),
         k = OldestSpork(th.stack[i]), MarkStack(th, n, i, k, r)
  PROVE  MarkEffect(th, n, i, k, r)
<1>1. i \in 1 .. Len(th.stack) /\ th.stack[i] \in Seq(Slots)
      /\ FrameIsPromotable(th.stack[i])
  BY OldestIsThere
<1>2. k \in 1 .. Len(th.stack[i]) /\ Promotable(th.stack[i][k])
      /\ \A m \in 1 .. Len(th.stack[i]) : Promotable(th.stack[i][m]) => k <= m
  BY <1>1, InnerFacts
<1>3. ASSUME NEW j \in 1 .. Len(th.stack), NEW m \in 1 .. Len(th.stack[j]),
             Promotable(th.stack[j][m])
      PROVE  i < j \/ (i = j /\ k <= m)
  <2>1. FrameIsPromotable(th.stack[j])
    <3>1. th.stack[j] \in Seq(Slots)
      BY TypedFacts
    <3> QED
      BY <3>1, <1>3, NotPromotable
  <2>2. i <= j
    BY <2>1, FindFacts
  <2>3. i = j => k <= m
    BY <1>2, <1>3
  <2>4. i \in Nat /\ j \in Nat
    BY <1>1
  <2> QED
    BY <2>2, <2>3, <2>4
<1>4. th.stack \in Stacks /\ None \notin Threads
  BY TypedFacts, ThreadsAssumption
<1>5. \A j \in 1 .. Len(th.stack) : \A m \in 1 .. Len(th.stack[j]) :
        Promotable(th.stack[j][m]) => i < j \/ (i = j /\ k <= m)
  BY <1>3
<1>6. /\ n.stack \in Stacks /\ Len(n.stack) = Len(th.stack)
      /\ \A j \in 1 .. Len(th.stack) : Len(n.stack[j]) = Len(th.stack[j])
      /\ \A j \in 1 .. Len(th.stack) : j # i => n.stack[j] = th.stack[j]
      /\ n.stack[i] \in Seq(Slots) /\ n.stack[i][k].right = r
      /\ \A m \in 1 .. Len(th.stack[i]) : m # k => n.stack[i][m] = th.stack[i][m]
      /\ Marked(th, n, <<i, k>>, r)
  BY ZenonT(30), <1>1, <1>2, <1>4, <1>5, MarkMarks
<1> QED
  BY <1>1, <1>2, <1>6 DEF MarkEffect

\* The running frame has its entry as before.
LEMMA EntriesKept ==
  ASSUME NEW th, Typed(th), NEW n, n.stack \in Stacks, Len(n.stack) = Len(th.stack),
         Last(n.stack) = <<>> <=> Last(th.stack) = <<>>, n.promoStack = th.promoStack
  PROVE  Entries(n) = Entries(th)
BY DEF Entries

(* What is counted as skipped leaves the pointer below the next frame.     *)
LEMMA PromotionPays ==
  ASSUME NEW th, Typed(th), NEW n, Typed(n), NEW r \in Threads, NEW i, NEW k, NEW e,
         i = OldestPromotableFrame(th), i # 0,
         k = OldestSpork(th.stack[i]), MarkStack(th, n, i, k, r),
         n.promoBot = th.promoBot, e = Entries(th), e = Entries(n),
         PromoAt(e, th.stack, th.promoBot)
  PROVE  /\ Skipped(n) \in 0 .. 2
         /\ PromoAt(e, n.stack, th.promoBot + Skipped(n))
<1> DEFINE b == th.promoBot  s == th.stack  c == b + Skipped(n)
<1>1. PICK f : f = FirstEntry(th)
  OBVIOUS
<1>2. PICK h : h = FirstEntry(n)
  OBVIOUS
<1>3. f # 0 /\ i = e[f] /\ i \in 1 .. Len(s)
  BY <1>1, OldestIsThere
<1>4. f \in {b + 1, b + 2} /\ i = FindPromotableFrame(th)
  BY <1>1, <1>3, FindsOldest
<1>5. /\ f \in b + 1 .. Len(e) /\ LiveFrame(s, e[f])
      /\ \A x \in b + 1 .. Len(e) : LiveFrame(s, e[x]) => f <= x
  BY <1>1, <1>3, FirstEntryFacts
<1>6. b \in Nat /\ Len(e) \in Nat /\ b <= Len(e) /\ Len(s) \in Nat
  BY TypedFacts
<1>7. /\ n.stack \in Stacks /\ Len(n.stack) = Len(s)
      /\ \A j \in 1 .. Len(s) : Len(n.stack[j]) = Len(s[j])
      /\ \A j \in 1 .. Len(s) : j # i => n.stack[j] = s[j]
      /\ k \in 1 .. Len(s[i])
  <2>1. i # 0 /\ i = FindPromotableFrame(th)
    BY <1>4
  <2>2. MarkEffect(th, n, i, k, r)
    BY <2>1, MarksOldest
  <2> QED
    BY <2>2 DEF MarkEffect
<1>8. ASSUME NEW x \in 1 .. Len(e), x # f PROVE n.stack[e[x]] = s[e[x]] /\ e[x] # i
  <2>1. f \in 1 .. Len(e) /\ e[x] \in 1 .. Len(s) /\ e[f] \in 1 .. Len(s)
    BY <1>5, <1>6 DEF PromoAt
  <2>2. x < f \/ f < x
    BY <1>8, <2>1
  <2>3. e[x] < e[f] \/ e[f] < e[x]
    BY <2>1, <2>2 DEF PromoAt, Sorted
  <2>4. e[x] # i
    BY <2>1, <2>3, <1>3
  <2> QED
    BY <2>1, <2>4, <1>7
<1>9. ASSUME NEW x \in 1 .. Len(e), x < f, NEW m \in 1 .. Len(n.stack[e[x]])
      PROVE  ~Promotable(n.stack[e[x]][m])
  <2>0. n.stack[e[x]] = s[e[x]]
    BY <1>8, <1>9
  <2>1. CASE x <= b
    BY <2>0, <2>1, <1>9 DEF PromoAt
  <2>2. CASE ~(x <= b)
    <3>1. x \in b + 1 .. Len(e) /\ ~LiveFrame(s, e[x])
      BY <2>2, <1>5, <1>6, <1>9
    <3>2. e[x] \in 1 .. Len(s) /\ s[e[x]] \in Seq(Slots)
      BY TypedFacts DEF PromoAt
    <3>3. ~FrameIsPromotable(s[e[x]])
      BY <3>1, <3>2, <1>6 DEF LiveFrame
    <3> QED
      BY <3>2, <3>3, <2>0, <1>9, NotPromotable
  <2> QED
    BY <2>1, <2>2
<1>10. ASSUME NEW x \in 1 .. Len(e), x > f, NEW m \in 1 .. Len(n.stack[e[x]])
       PROVE  Promotable(n.stack[e[x]][m])
  <2>0. n.stack[e[x]] = s[e[x]]
    BY <1>8, <1>10, <1>5, <1>6
  <2>1. x >= b + 2
    BY <1>5, <1>6, <1>10
  <2> QED
    BY <2>0, <2>1, <1>10 DEF PromoAt
<1>11. ASSUME NEW x \in 1 .. Len(e) PROVE e[x] \in 1 .. Len(n.stack) /\ n.stack[e[x]] # <<>>
                                          /\ n.stack[e[x]] \in Seq(Slots)
  <2>1. e[x] \in 1 .. Len(s) /\ s[e[x]] # <<>> /\ s[e[x]] \in Seq(Slots)
    BY TypedFacts DEF PromoAt
  <2>2. n.stack[e[x]] \in Seq(Slots) /\ Len(n.stack[e[x]]) = Len(s[e[x]])
    BY <2>1, <1>7, TypedFacts
  <2>3. Len(s[e[x]]) # 0
    BY <2>1, EmptySeq
  <2> QED
    BY <2>1, <2>2, <2>3, <1>7, EmptySeq
<1>12. ASSUME NEW j \in 1 .. Len(n.stack), n.stack[j] # <<>>
       PROVE  \E x \in 1 .. Len(e) : e[x] = j
  <2>1. j \in 1 .. Len(s)
    BY <1>7
  <2>2. CASE j = i
    BY <2>2, <1>3, <1>5, <1>6
  <2>3. CASE j # i
    BY <2>1, <2>3, <1>7, <1>12 DEF PromoAt
  <2> QED
    BY <2>2, <2>3
<1>13. ASSUME NEW d \in Nat, d = f - 1 \/ d = f,
              d = f => ~FrameIsPromotable(n.stack[i])
       PROVE  PromoAt(e, n.stack, d)
  <2>1. ASSUME NEW x \in 1 .. Len(e), NEW m \in 1 .. Len(n.stack[e[x]])
        PROVE  /\ x <= d => ~Promotable(n.stack[e[x]][m])
               /\ x >= d + 2 => Promotable(n.stack[e[x]][m])
    <3>1. CASE x < f
      BY SMTT(30), <3>1, <1>9, <2>1, <1>13, <1>5, <1>6
    <3>2. CASE x > f
      BY <3>2, <1>10, <2>1, <1>13, <1>5, <1>6
    <3>3. CASE x = f
      <4>1. ~(x >= d + 2)
        BY <3>3, <1>13, <1>5, <1>6
      <4>2. x <= d => ~FrameIsPromotable(n.stack[i])
        BY <3>3, <1>13, <1>5, <1>6
      <4>3. n.stack[e[x]] \in Seq(Slots)
        BY <1>11
      <4> QED
        BY <4>1, <4>2, <4>3, <3>3, <1>3, <2>1, NotPromotable
    <3> QED
      BY <3>1, <3>2, <3>3, <1>5, <1>6
  <2> QED
    BY <2>1, <1>11, <1>12 DEF PromoAt
<1>14. /\ h = 0 => \A x \in b + 1 .. Len(e) : ~LiveFrame(n.stack, e[x])
       /\ h # 0 => /\ h \in b + 1 .. Len(e) /\ LiveFrame(n.stack, e[h])
                   /\ \A x \in b + 1 .. Len(e) : LiveFrame(n.stack, e[x]) => h <= x
       /\ h \in 0 .. Len(e)
  BY <1>2, FirstEntryFacts
<1>15. Skipped(n) = (IF h = 0 THEN Len(e) ELSE h - 1) - b
  BY <1>2 DEF Skipped
<1>16. ASSUME NEW x \in 1 .. Len(e), x < f PROVE ~LiveFrame(n.stack, e[x])
  BY <1>9, <1>11, <1>16, NotPromotable DEF LiveFrame
<1>17. ASSUME NEW x \in 1 .. Len(e), x > f PROVE LiveFrame(n.stack, e[x])
  <2>1. e[x] \in 1 .. Len(n.stack) /\ n.stack[e[x]] # <<>> /\ n.stack[e[x]] \in Seq(Slots)
    BY <1>11
  <2>2. 1 \in 1 .. Len(n.stack[e[x]])
    BY <2>1, EmptySeq
  <2>3. Promotable(n.stack[e[x]][1])
    BY <2>2, <1>10, <1>17
  <2> QED
    BY <2>1, <2>2, <2>3, <1>6, <1>7, NotPromotable DEF LiveFrame
<1>18. CASE FrameIsPromotable(n.stack[i])
  <2>1. LiveFrame(n.stack, e[f])
    BY <1>18, <1>3, <1>6, <1>7 DEF LiveFrame
  <2>2. h # 0 /\ h <= f
    BY <2>1, <1>14, <1>5
  <2>3. ~(h < f)
    BY <2>2, <1>14, <1>16, <1>6
  <2>4. h = f
    BY <2>2, <2>3, <1>14, <1>5, <1>6
  <2>5. Skipped(n) = f - 1 - b /\ c = f - 1
    BY <2>4, <2>2, <1>15, <1>5, <1>6
  <2>6. PromoAt(e, n.stack, f - 1)
    BY <1>13, <1>5, <1>6
  <2> QED
    BY <2>5, <2>6, <1>4, <1>6
<1>19. CASE ~FrameIsPromotable(n.stack[i])
  <2>1. ~LiveFrame(n.stack, e[f])
    BY <1>19, <1>3 DEF LiveFrame
  <2>2. PromoAt(e, n.stack, f)
    BY <1>13, <1>5, <1>6, <1>19
  <2>3. h # 0 => h = f + 1
    <3>1. SUFFICES ASSUME h # 0 PROVE h = f + 1
      OBVIOUS
    <3>2. h \in b + 1 .. Len(e) /\ LiveFrame(n.stack, e[h]) /\ h \in 1 .. Len(e)
      BY <3>1, <1>14, <1>6
    <3>3. ~(h < f) /\ h # f
      BY <3>2, <2>1, <1>16
    <3>4. h > f /\ f + 1 \in b + 1 .. Len(e) /\ f + 1 \in 1 .. Len(e) /\ f + 1 > f
      BY <3>2, <3>3, <1>5, <1>6
    <3>5. h <= f + 1
      BY <3>1, <3>4, <1>17, <1>14
    <3> QED
      BY <3>4, <3>5, <3>2, <1>5, <1>6
  <2>4. h = 0 => f = Len(e)
    <3>1. SUFFICES ASSUME h = 0, f # Len(e) PROVE FALSE
      OBVIOUS
    <3>2. f + 1 \in b + 1 .. Len(e) /\ f + 1 \in 1 .. Len(e) /\ f + 1 > f
      BY <3>1, <1>5, <1>6
    <3> QED
      BY <3>1, <3>2, <1>14, <1>17
  <2>5. Skipped(n) = f - b /\ c = f
    BY <2>3, <2>4, <1>14, <1>15, <1>5, <1>6
  <2> QED
    BY <2>2, <2>5, <1>4, <1>6
<1> QED
  BY <1>18, <1>19

(* A call returns to the one below.                                        *)
LEMMA BotLowered ==
  ASSUME NEW e \in Seq(1 .. MaxFrames), NEW s \in Seq(Seq(Slots)), NEW b \in Nat, b <= Len(e),
         PromoAt(e, s, b), NEW m \in Nat, m + 1 >= Len(e)
  PROVE  PromoAt(e, s, Least(b, m)) /\ Least(b, m) \in Nat /\ Least(b, m) <= m /\ Least(b, m) <= b
<1>1. Len(e) \in Nat
  BY LenProperties
<1>2. CASE b < m
  BY <1>2 DEF Least
<1>3. CASE ~(b < m)
  <2>1. Least(b, m) = m /\ m <= b
    BY <1>3 DEF Least
  <2>2. ASSUME NEW x \in 1 .. Len(e), NEW k \in 1 .. Len(s[e[x]])
        PROVE  /\ x <= m => ~Promotable(s[e[x]][k])
               /\ x >= m + 2 => Promotable(s[e[x]][k])
    <3>1. x <= m => x <= b
      BY <2>1, <2>2
    <3>2. ~(x >= m + 2)
      BY <1>1, <2>2
    <3> QED
      BY <2>2, <3>1, <3>2 DEF PromoAt
  <2>3. PromoAt(e, s, m)
    BY <2>2 DEF PromoAt
  <2> QED
    BY <2>1, <2>3
<1> QED
  BY <1>2, <1>3

\* What is left of a sequence without its last element.
LEMMA FrontFacts ==
  ASSUME NEW S, NEW s \in Seq(S)
  PROVE  /\ Front(s) \in Seq(S) /\ Len(Front(s)) \in Nat
         /\ s # <<>> => Len(Front(s)) = Len(s) - 1
         /\ s = <<>> => Front(s) = <<>> /\ Len(Front(s)) = 0
         /\ \A i \in 1 .. Len(Front(s)) : Front(s)[i] = s[i]
<1>1. CASE s = <<>>
  <2>1. Front(s) = <<>>
    BY <1>1 DEF Front
  <2> QED
    BY <2>1, <1>1, EmptySeq
<1>2. CASE s # <<>>
  <2>1. Len(s) \in Nat \ {0}
    BY <1>2, EmptySeq
  <2>2. 1 \in 1 .. Len(s) + 1 /\ Len(s) - 1 \in 0 .. Len(s)
    BY <2>1
  <2>3. /\ SubSeq(s, 1, Len(s) - 1) \in Seq(S)
        /\ Len(SubSeq(s, 1, Len(s) - 1)) = Len(s) - 1
        /\ \A i \in 1 .. Len(s) - 1 : SubSeq(s, 1, Len(s) - 1)[i] = s[i]
    <3>1. PICK m : m = Len(s) - 1
      OBVIOUS
    <3>2. m \in 0 .. Len(s) /\ m = 1 + m - 1 /\ m \in Nat
      BY <2>1, <2>2, <3>1
    <3>3. /\ SubSeq(s, 1, m) \in Seq(S) /\ Len(SubSeq(s, 1, m)) = m
          /\ \A i \in 1 .. m : SubSeq(s, 1, m)[i] = s[i]
      BY <3>2, <2>2, SubSeqProperties
    <3> QED
      BY <3>1, <3>3
  <2> QED
    BY <2>1, <2>3, <1>2 DEF Front
<1> QED
  BY <1>1, <1>2

\* A call keeps the promotion stack right,
LEMMA CallPromo ==
  ASSUME NEW th, Typed(th), NEW n, n.stack = Append(th.stack, <<>>),
         n.promoStack = Entries(th), NEW e, e = Entries(th), NEW b,
         PromoAt(e, th.stack, b)
  PROVE  Entries(n) = e /\ PromoAt(e, n.stack, b)
<1>1. /\ n.stack \in Seq(Seq(Slots)) /\ Len(n.stack) = Len(th.stack) + 1
      /\ \A i \in 1 .. Len(th.stack) : n.stack[i] = th.stack[i]
      /\ n.stack[Len(n.stack)] = <<>> /\ Len(th.stack) \in Nat
  <2>1. <<>> \in Seq(Slots) /\ th.stack \in Seq(Seq(Slots)) /\ Len(th.stack) \in Nat
    BY TypedFacts
  <2> QED
    BY <2>1, AppendProperties
<1>2. Entries(n) = e
  BY <1>1 DEF Entries, Last
<1>3. ASSUME NEW i \in 1 .. Len(e)
      PROVE  e[i] \in 1 .. Len(n.stack) /\ n.stack[e[i]] = th.stack[e[i]]
             /\ th.stack[e[i]] # <<>>
  BY <1>1 DEF PromoAt
<1>4. ASSUME NEW f \in 1 .. Len(n.stack), n.stack[f] # <<>>
      PROVE  \E i \in 1 .. Len(e) : e[i] = f
  <2>1. f \in 1 .. Len(th.stack)
    BY <1>1, <1>4
  <2> QED
    BY <2>1, <1>1, <1>4 DEF PromoAt
<1>5. PromoAt(e, n.stack, b)
  BY <1>3, <1>4 DEF PromoAt
<1> QED
  BY <1>2, <1>5

(* The frames that are cut off have no sporks.                             *)
LEMMA CutPromo ==
  ASSUME NEW s \in Seq(Seq(Slots)), NEW n \in Seq(Seq(Slots)), NEW e, NEW b,
         Len(n) <= Len(s), \A i \in 1 .. Len(n) : n[i] = s[i],
         \A i \in 1 .. Len(s) : i > Len(n) => s[i] = <<>>,
         PromoAt(e, s, b)
  PROVE  PromoAt(e, n, b)
<1>1. Len(s) \in Nat /\ Len(n) \in Nat
  BY LenProperties
<1>3. ASSUME NEW i \in 1 .. Len(e)
      PROVE  e[i] \in 1 .. Len(n) /\ n[e[i]] = s[e[i]] /\ s[e[i]] # <<>>
  <2>1. e[i] \in 1 .. Len(s) /\ s[e[i]] # <<>>
    BY DEF PromoAt
  <2>2. ~(e[i] > Len(n))
    BY <2>1
  <2>3. e[i] \in 1 .. Len(n)
    BY <2>1, <2>2, <1>1
  <2> QED
    BY <2>1, <2>3
<1>4. ASSUME NEW f \in 1 .. Len(n), n[f] # <<>> PROVE \E i \in 1 .. Len(e) : e[i] = f
  <2>1. f \in 1 .. Len(s) /\ n[f] = s[f]
    BY <1>1
  <2>2. s[f] # <<>>
    BY <2>1, <1>4
  <2> QED
    BY <2>1, <2>2 DEF PromoAt
<1> QED
  BY <1>3, <1>4 DEF PromoAt

(* The last entry is the frame that is returned to.                        *)
LEMMA ReturnPromo ==
  ASSUME NEW th, Typed(th), NEW n, NEW e, e = Entries(th), NEW b,
         Last(th.stack) = <<>>, Len(th.stack) > 1, n.stack = Front(th.stack),
         n.promoStack = IF Last(n.stack) = <<>> THEN th.promoStack ELSE Front(th.promoStack),
         PromoAt(e, th.stack, b)
  PROVE  Entries(n) = e /\ PromoAt(e, n.stack, b) /\ Len(n.promoStack) + 1 >= Len(e)
<1> DEFINE l == Len(th.stack)
<1>1. /\ n.stack \in Seq(Seq(Slots)) /\ Len(n.stack) = l - 1 /\ l \in Nat
      /\ \A i \in 1 .. l - 1 : n.stack[i] = th.stack[i]
      /\ th.stack \in Seq(Seq(Slots)) /\ th.stack[l] = <<>>
  <2>1. th.stack \in Seq(Seq(Slots)) /\ l \in Nat /\ th.stack # <<>> /\ th.stack[l] = <<>>
    BY TypedFacts DEF Stacks
  <2>2. /\ Front(th.stack) \in Seq(Seq(Slots)) /\ Len(Front(th.stack)) = l - 1
        /\ \A i \in 1 .. Len(Front(th.stack)) : Front(th.stack)[i] = th.stack[i]
    BY <2>1, FrontFacts
  <2> QED
    BY <2>1, <2>2
<1>2. \A i \in 1 .. l : i > Len(n.stack) => th.stack[i] = <<>>
  BY <1>1
<1>3. PromoAt(e, n.stack, b)
  <2>1. Len(n.stack) <= l /\ \A i \in 1 .. Len(n.stack) : n.stack[i] = th.stack[i]
    BY <1>1
  <2> QED
    BY <2>1, <1>1, <1>2, CutPromo
<1>4. e = th.promoStack /\ e \in Seq(1 .. MaxFrames) /\ Len(e) \in Nat
  BY TypedFacts
<1>5. CASE Last(n.stack) = <<>>
  <2>1. n.promoStack = e
    BY <1>4, <1>5
  <2> QED
    BY <2>1, <1>3, <1>4, <1>5 DEF Entries
<1>6. CASE Last(n.stack) # <<>>
  <2>1. n.promoStack = Front(e) /\ Entries(n) = Append(Front(e), l - 1)
    BY <1>1, <1>4, <1>6 DEF Entries
  <2>2. l - 1 \in 1 .. Len(n.stack) /\ n.stack[l - 1] # <<>>
    BY <1>1, <1>6 DEF Last
  <2>3. PICK i \in 1 .. Len(e) : e[i] = l - 1
    BY <2>2, <1>3 DEF PromoAt
  <2>4. i = Len(e)
    <3>1. SUFFICES ASSUME i < Len(e) PROVE FALSE
      BY <1>4
    <3>2. e[i] < e[Len(e)] /\ e[Len(e)] \in 1 .. Len(n.stack)
      BY <3>1, <1>3, <1>4 DEF PromoAt, Sorted
    <3> QED
      BY <3>2, <2>3, <1>1
  <2>5. /\ Front(e) \in Seq(1 .. MaxFrames) /\ Len(Front(e)) = Len(e) - 1
        /\ \A j \in 1 .. Len(e) - 1 : Front(e)[j] = e[j]
    <3>1. e # <<>>
      BY <2>3, <1>4
    <3> QED
      BY <3>1, <1>4, FrontFacts
  <2>6. l - 1 \in 1 .. MaxFrames
    BY <2>3, <2>4, <1>4, ElementOfSeq
  <2>7. /\ Append(Front(e), l - 1) \in Seq(1 .. MaxFrames)
        /\ Len(Append(Front(e), l - 1)) = Len(e)
        /\ Append(Front(e), l - 1)[Len(e)] = l - 1
        /\ \A j \in 1 .. Len(e) - 1 : Append(Front(e), l - 1)[j] = e[j]
    BY <2>5, <2>6, <1>4, AppendProperties
  <2>8. ASSUME NEW j \in 1 .. Len(e) PROVE Append(Front(e), l - 1)[j] = e[j]
    <3>1. CASE j = Len(e)
      BY <3>1, <2>7, <2>3, <2>4
    <3>2. CASE j # Len(e)
      BY <3>2, <2>7, <1>4
    <3> QED
      BY <3>1, <3>2
  <2>9. Append(Front(e), l - 1) = e
    BY <2>7, <2>8, <1>4, SeqEqual
  <2> QED
    BY <2>1, <2>5, <2>9, <1>3, <1>4
<1> QED
  BY <1>5, <1>6

SporkEffect(th, n, s) ==
  /\ n.stack \in Stacks /\ Len(n.stack) = Len(th.stack)
  /\ Last(n.stack) = Append(Last(th.stack), s)
  /\ \A i \in 1 .. Len(th.stack) : i # Len(th.stack) => n.stack[i] = th.stack[i]
  /\ Gained(th, n, <<Len(th.stack), Len(Last(th.stack)) + 1>>)

\* ... a spork is the youngest of the frame that runs,
LEMMA SporkPromo ==
  ASSUME NEW th, Typed(th), NEW n, NEW s \in Slots, s.right = None, SporkEffect(th, n, s),
         n.promoStack = th.promoStack, NEW b \in Nat, b <= Len(th.promoStack),
         PromoAt(Entries(th), th.stack, b)
  PROVE  PromoAt(Entries(n), n.stack, b)
<1> DEFINE l == Len(th.stack)  e == Entries(th)  f == Last(th.stack)  p == th.promoStack
<1>1. /\ th.stack \in Stacks /\ l \in Nat /\ l >= 1 /\ l \in 1 .. MaxFrames
      /\ f \in Seq(Slots) /\ f = th.stack[l]
      /\ p \in Seq(1 .. MaxFrames) /\ Len(p) \in Nat
  BY TypedFacts
<1>2. /\ Len(n.stack) = l /\ n.stack[l] = Append(f, s)
      /\ \A i \in 1 .. l : i # l => n.stack[i] = th.stack[i]
  BY DEF SporkEffect, Last
<1>3. /\ Append(f, s) # <<>> /\ Len(Append(f, s)) = Len(f) + 1 /\ Append(f, s)[Len(f) + 1] = s
      /\ \A k \in 1 .. Len(f) : Append(f, s)[k] = f[k]
      /\ Len(f) \in Nat
  <2>1. PICK h \in Seq(Slots) : h = f
    BY <1>1
  <2>2. /\ Append(h, s) # <<>> /\ Len(Append(h, s)) = Len(h) + 1 /\ Append(h, s)[Len(h) + 1] = s
        /\ \A k \in 1 .. Len(h) : Append(h, s)[k] = h[k]
        /\ Len(h) \in Nat
    BY AppendProperties, LenProperties
  <2> QED
    BY <2>1, <2>2
<1>4. Entries(n) = Append(p, l)
  BY <1>2, <1>3 DEF Entries, Last
<1>5. PICK g : g = Append(p, l)
  OBVIOUS
<1>6. /\ g \in Seq(1 .. MaxFrames) /\ Len(g) = Len(p) + 1 /\ g[Len(p) + 1] = l
      /\ \A i \in 1 .. Len(p) : g[i] = p[i]
  BY <1>1, <1>5, AppendProperties
<1>7. /\ Len(e) = Len(p) \/ Len(e) = Len(p) + 1
      /\ \A i \in 1 .. Len(p) : e[i] = p[i]
      /\ Len(e) = Len(p) + 1 => e[Len(p) + 1] = l
      /\ Len(e) = Len(p) => f = <<>>
  BY SMTT(30), <1>1, TypedFacts
<1>8. ASSUME NEW i \in 1 .. Len(p) PROVE g[i] \in 1 .. l - 1 /\ i \in 1 .. Len(e) /\ g[i] = e[i]
                                         /\ n.stack[g[i]] = th.stack[g[i]]
  <2>1. g[i] = p[i] /\ e[i] = p[i] /\ i \in 1 .. Len(e)
    BY <1>1, <1>6, <1>7
  <2>2. e[i] \in 1 .. l /\ th.stack[e[i]] # <<>>
    BY <2>1 DEF PromoAt
  <2>3. e[i] # l
    <3>1. CASE Len(e) = Len(p)
      BY <3>1, <2>2, <1>1, <1>7
    <3>2. CASE Len(e) = Len(p) + 1
      <4>1. i < Len(p) + 1 /\ Len(p) + 1 \in 1 .. Len(e)
        BY <3>2, <1>1
      <4>2. e[i] < e[Len(p) + 1]
        BY <4>1, <2>1 DEF PromoAt, Sorted
      <4> QED
        BY <4>2, <3>2, <1>7, <2>2
    <3> QED
      BY <3>1, <3>2, <1>7
  <2>4. e[i] \in 1 .. l - 1
    BY <2>2, <2>3, <1>1
  <2> QED
    BY <2>1, <2>2, <2>3, <2>4, <1>2
<1>9. Sorted(g)
  <2>1. SUFFICES ASSUME NEW i \in 1 .. Len(g), NEW j \in 1 .. Len(g), i < j PROVE g[i] < g[j]
    BY DEF Sorted
  <2>2. i \in 1 .. Len(p)
    BY <2>1, <1>6, <1>1
  <2>3. CASE j = Len(p) + 1
    BY <2>2, <2>3, <1>8, <1>6, <1>1
  <2>4. CASE j # Len(p) + 1
    <3>1. j \in 1 .. Len(p)
      BY <2>4, <1>6, <1>1
    <3>2. e[i] < e[j]
      BY <3>1, <2>1, <2>2, <1>8 DEF PromoAt, Sorted
    <3> QED
      BY <3>1, <3>2, <2>2, <1>8
  <2> QED
    BY <2>3, <2>4
<1>10. ASSUME NEW i \in 1 .. Len(g) PROVE g[i] \in 1 .. Len(n.stack) /\ n.stack[g[i]] # <<>>
  <2>1. CASE i = Len(p) + 1
    BY <2>1, <1>1, <1>2, <1>3, <1>6
  <2>2. CASE i # Len(p) + 1
    <3>1. i \in 1 .. Len(p)
      BY <2>2, <1>6, <1>1
    <3>2. th.stack[e[i]] # <<>>
      BY <3>1, <1>8 DEF PromoAt
    <3> QED
      BY <3>1, <3>2, <1>1, <1>2, <1>8
  <2> QED
    BY <2>1, <2>2
<1>11. ASSUME NEW j \in 1 .. Len(n.stack), n.stack[j] # <<>> PROVE \E i \in 1 .. Len(g) : g[i] = j
  <2>1. CASE j = l
    BY <2>1, <1>1, <1>6
  <2>2. CASE j # l
    <3>1. th.stack[j] # <<>> /\ j \in 1 .. l
      BY <2>2, <1>2, <1>11
    <3>2. PICK i \in 1 .. Len(e) : e[i] = j
      BY <3>1 DEF PromoAt
    <3>3. i \in 1 .. Len(p)
      BY <3>2, <2>2, <1>1, <1>7
    <3> QED
      BY SMTT(30), <3>2, <3>3, <1>8, <1>6, <1>1
  <2> QED
    BY <2>1, <2>2
<1>12. ASSUME NEW i \in 1 .. Len(g), NEW k \in 1 .. Len(n.stack[g[i]])
       PROVE  /\ i <= b => ~Promotable(n.stack[g[i]][k])
              /\ i >= b + 2 => Promotable(n.stack[g[i]][k])
  <2>1. CASE i # Len(p) + 1
    <3>1. i \in 1 .. Len(p)
      BY <2>1, <1>6, <1>1
    <3>2. i \in 1 .. Len(e) /\ n.stack[g[i]] = th.stack[e[i]]
      BY <3>1, <1>8
    <3>3. k \in 1 .. Len(th.stack[e[i]])
      BY <3>2, <1>12
    <3> QED
      BY <3>2, <3>3 DEF PromoAt
  <2>2. CASE i = Len(p) + 1
    <3>1. ~(i <= b)
      BY <2>2, <1>1
    <3>2. g[i] = l /\ n.stack[g[i]] = Append(f, s)
      BY <2>2, <1>6, <1>2
    <3>3. ASSUME i >= b + 2 PROVE Promotable(Append(f, s)[k])
      <4>1. CASE k = Len(f) + 1
        BY <4>1, <1>3 DEF Promotable
      <4>2. CASE k # Len(f) + 1
        <5>1. k \in 1 .. Len(f) /\ Append(f, s)[k] = f[k]
          BY <4>2, <3>2, <1>3, <1>12
        <5>2. Len(e) = Len(p) + 1
          BY <5>1, <1>7, EmptySeq
        <5>3. Len(p) + 1 \in 1 .. Len(e) /\ e[Len(p) + 1] = l
          BY <5>2, <1>7, <1>1
        <5>4. Promotable(f[k])
          BY <5>1, <5>3, <3>3, <2>2, <1>1 DEF PromoAt
        <5> QED
          BY <5>1, <5>4
      <4> QED
        BY <4>1, <4>2
    <3> QED
      BY <3>1, <3>2, <3>3
  <2> QED
    BY <2>1, <2>2
<1>13. PromoAt(g, n.stack, b)
  BY <1>9, <1>10, <1>11, <1>12 DEF PromoAt
<1> QED
  BY <1>13, <1>4, <1>5

LeaveEffect(th, n) ==
  /\ n.stack \in Stacks /\ Len(n.stack) = Len(th.stack)
  /\ Last(n.stack) \in Seq(Slots) /\ Last(th.stack) \in Seq(Slots)
  /\ Len(Last(n.stack)) = Len(Last(th.stack)) - 1
  /\ \A k \in 1 .. Len(Last(n.stack)) : Last(n.stack)[k] = Last(th.stack)[k]
  /\ \A i \in 1 .. Len(th.stack) : i # Len(th.stack) => n.stack[i] = th.stack[i]
  /\ Lost(th, n, <<Len(th.stack), Len(Last(th.stack))>>)
  /\ SlotAt(th, <<Len(th.stack), Len(Last(th.stack))>>) = Last(Last(th.stack))

\* ... and the end of a spork leaves the others.
LEMMA LeavePromo ==
  ASSUME NEW th, Typed(th), NEW n, Last(th.stack) # <<>>, LeaveEffect(th, n),
         n.promoStack = th.promoStack, NEW b \in Nat, b <= Len(th.promoStack),
         PromoAt(Entries(th), th.stack, b)
  PROVE  PromoAt(Entries(n), n.stack, b)
<1> DEFINE l == Len(th.stack)  f == Last(th.stack)  p == th.promoStack
<1>0. PICK e : e = Entries(th)
  OBVIOUS
<1>1. /\ th.stack \in Stacks /\ l \in Nat /\ l >= 1 /\ l \in 1 .. MaxFrames
      /\ f \in Seq(Slots) /\ f = th.stack[l]
      /\ p \in Seq(1 .. MaxFrames) /\ Len(p) \in Nat
      /\ e = Append(p, l) /\ Len(e) = Len(p) + 1 /\ e[Len(p) + 1] = l
      /\ \A i \in 1 .. Len(p) : e[i] = p[i]
  BY SMTT(30), <1>0, TypedFacts
<1>2. PICK g : g = Last(n.stack)
  OBVIOUS
<1>3. /\ Len(n.stack) = l /\ n.stack[l] = g /\ g \in Seq(Slots) /\ Len(g) = Len(f) - 1
      /\ \A i \in 1 .. l : i # l => n.stack[i] = th.stack[i]
      /\ \A k \in 1 .. Len(g) : g[k] = f[k]
      /\ Len(f) \in Nat
  BY <1>1, <1>2, LenProperties DEF LeaveEffect, Last
<1>4. ASSUME NEW i \in 1 .. Len(p)
      PROVE  e[i] \in 1 .. l - 1 /\ i \in 1 .. Len(e) /\ p[i] = e[i]
             /\ n.stack[e[i]] = th.stack[e[i]] /\ th.stack[e[i]] # <<>>
  <2>1. i \in 1 .. Len(e) /\ i < Len(p) + 1 /\ Len(p) + 1 \in 1 .. Len(e)
    BY <1>1
  <2>2. e[i] < e[Len(p) + 1] /\ e[i] \in 1 .. l /\ th.stack[e[i]] # <<>>
    BY <2>1, <1>0 DEF PromoAt, Sorted
  <2>3. e[i] \in 1 .. l - 1 /\ e[i] # l
    BY <2>2, <1>1
  <2> QED
    BY <2>1, <2>2, <2>3, <1>1, <1>3
<1>5. ASSUME NEW j \in 1 .. l, j # l, n.stack[j] # <<>>
      PROVE  \E i \in 1 .. Len(p) : e[i] = j
  <2>1. PICK i \in 1 .. Len(e) : e[i] = j
    BY <1>0, <1>3, <1>5 DEF PromoAt
  <2>2. i \in 1 .. Len(p)
    BY <2>1, <1>1, <1>5
  <2> QED
    BY <2>1, <2>2
<1>6. CASE g = <<>>
  <2>1. Entries(n) = p
    BY <1>2, <1>6 DEF Entries
  <2>2. Sorted(p)
    <3>1. SUFFICES ASSUME NEW i \in 1 .. Len(p), NEW j \in 1 .. Len(p), i < j PROVE p[i] < p[j]
      BY DEF Sorted
    <3>2. e[i] < e[j]
      BY <3>1, <1>4, <1>0 DEF PromoAt, Sorted
    <3> QED
      BY <3>2, <1>4
  <2>3. ASSUME NEW i \in 1 .. Len(p)
        PROVE  p[i] \in 1 .. Len(n.stack) /\ n.stack[p[i]] # <<>>
    BY SMTT(30), <1>1, <1>3, <1>4
  <2>4. ASSUME NEW j \in 1 .. Len(n.stack), n.stack[j] # <<>> PROVE \E i \in 1 .. Len(p) : p[i] = j
    BY <2>4, <1>3, <1>4, <1>5, <1>6
  <2>5. ASSUME NEW i \in 1 .. Len(p), NEW k \in 1 .. Len(n.stack[p[i]])
        PROVE  /\ i <= b => ~Promotable(n.stack[p[i]][k])
               /\ i >= b + 2 => Promotable(n.stack[p[i]][k])
    <3>1. i \in 1 .. Len(e) /\ n.stack[p[i]] = th.stack[e[i]]
      BY <1>4
    <3>2. k \in 1 .. Len(th.stack[e[i]])
      BY <3>1, <2>5
    <3> QED
      BY <3>1, <3>2, <1>0 DEF PromoAt
  <2>6. PromoAt(p, n.stack, b)
    BY <2>2, <2>3, <2>4, <2>5 DEF PromoAt
  <2> QED
    BY <2>1, <2>6
<1>7. CASE g # <<>>
  <2>1. Entries(n) = e
    BY <1>1, <1>2, <1>3, <1>7 DEF Entries
  <2>3. ASSUME NEW i \in 1 .. Len(e)
        PROVE  e[i] \in 1 .. Len(n.stack) /\ n.stack[e[i]] # <<>>
    <3>1. CASE i = Len(p) + 1
      BY <3>1, <1>1, <1>3, <1>7
    <3>2. CASE i # Len(p) + 1
      <4>1. i \in 1 .. Len(p)
        BY SMTT(30), <3>2, <1>1
      <4> QED
        BY <4>1, <1>1, <1>3, <1>4
    <3> QED
      BY <3>1, <3>2
  <2>4. ASSUME NEW j \in 1 .. Len(n.stack), n.stack[j] # <<>> PROVE \E i \in 1 .. Len(e) : e[i] = j
    <3>1. CASE j = l
      <4>1. Len(p) + 1 \in 1 .. Len(e)
        BY <1>1
      <4> QED
        BY <4>1, <3>1, <1>1
    <3>2. CASE j # l
      <4>1. \E i \in 1 .. Len(p) : e[i] = j
        BY <2>4, <3>2, <1>3, <1>5
      <4> QED
        BY <4>1, <1>4
    <3> QED
      BY <3>1, <3>2
  <2>5. ASSUME NEW i \in 1 .. Len(e), NEW k \in 1 .. Len(n.stack[e[i]])
        PROVE  /\ i <= b => ~Promotable(n.stack[e[i]][k])
               /\ i >= b + 2 => Promotable(n.stack[e[i]][k])
    <3>1. CASE i = Len(p) + 1
      <4>1. e[i] = l /\ n.stack[e[i]] = g /\ th.stack[e[i]] = f
        BY <3>1, <1>1, <1>3
      <4>2. k \in 1 .. Len(f) /\ g[k] = f[k]
        BY <4>1, <2>5, <1>3
      <4> QED
        BY <4>1, <4>2, <2>5, <1>0 DEF PromoAt
    <3>2. CASE i # Len(p) + 1
      <4>1. i \in 1 .. Len(p)
        BY <3>2, <1>1
      <4> QED
        BY <4>1, <2>5, <1>0, <1>4 DEF PromoAt
    <3> QED
      BY <3>1, <3>2
  <2>6. Sorted(e)
    BY <1>0 DEF PromoAt
  <2>7. PromoAt(e, n.stack, b)
    BY <2>3, <2>4, <2>5, <2>6 DEF PromoAt
  <2> QED
    BY <2>1, <2>7
<1> QED
  BY <1>6, <1>7

-----------------------------------------------------------------------------
(* What is known of a thread *)

Idle(th) == th.pc \in {"none", "offered", "done"} => th.stack = <<(<<>>)>>

SpentInv(th) ==
  /\ EnoughToSpawn(th) /\ th.depth < MaxDepth /\ th.pc # "handler" =>
       OnlyYoungest(th) /\ (NoneLeft(th) \/ th.pc \in {"eager", "tryPromote"})
  /\ th.pc = "giveBack" \/ (th.pc = "handler" /\ th.beat.back = "giveBack") => NoneLeft(th)
  /\ th.pc = "handler" /\ th.beat.hadEnough =>
       \/ th.beat.numSpawned = 0 /\ (th.depth < MaxDepth => OnlyYoungest(th))
       \/ th.beat.numSpawned = 1 /\ NoneLeft(th)

Local(th) ==
  /\ Typed(th) /\ Idle(th) /\ ForksFirst(th) /\ SpentInv(th)
  /\ th.pc # "handler" => th.promoBot <= Len(th.promoStack)

PromoInv(th) == PromoAt(Entries(th), th.stack, th.promoBot)

SameTokens(th, n) == n.tokens = th.tokens /\ n.given = th.given /\ n.owed = th.owed

\* The fields of a thread.
LEMMA Fields ==
  ASSUME NEW th \in ThreadStates
  PROVE  /\ th.pc \in Control /\ th.depth \in 1 .. MaxDepth /\ th.depth \in Nat
         /\ th.tokens \in Nat /\ th.given \in Nat /\ th.owed \in Nat
         /\ th.stack \in Seq(Seq(Slots)) /\ th.promoStack \in Seq(1 .. MaxFrames)
         /\ th.promoBot \in Nat
         /\ th.beat \in [back : Interruptible, hadEnough : BOOLEAN, numSpawned : Nat]
         /\ MaxDepth \in Nat /\ MaxFrames \in Nat /\ MaxNest \in Nat
  BY BoundsAssumption DEF ThreadStates

\* Frames that keep their lengths stay in bounds.
LEMMA NestKept ==
  ASSUME NEW th, Typed(th), NEW n, Len(n.stack) = Len(th.stack), n.stack \in Seq(Seq(Slots)),
         \A j \in 1 .. Len(th.stack) : Len(n.stack[j]) = Len(th.stack[j])
  PROVE  \A j \in DOMAIN n.stack : Len(n.stack[j]) <= MaxNest
<1>1. DOMAIN n.stack = DOMAIN th.stack /\ DOMAIN th.stack = 1 .. Len(th.stack)
  BY TypedFacts, LenProperties
<1> QED
  BY <1>1 DEF Typed

MarkedRecord(th, m, i, k, r) == m = [th EXCEPT !.stack[i][k].right = r]

\* A promotion keeps the type of its thread.
LEMMA MarkedIsTyped ==
  ASSUME NEW th, Typed(th), NEW m, NEW r \in Threads, NEW i, NEW k,
         MarkedRecord(th, m, i, k, r),
         i = OldestPromotableFrame(th), i # 0, i = FindPromotableFrame(th),
         k = OldestSpork(th.stack[i])
  PROVE  /\ MarkEffect(th, m, i, k, r) /\ MarkStack(th, m, i, k, r)
         /\ m = [th EXCEPT !.stack = m.stack]
         /\ m.promoStack = th.promoStack /\ m.promoBot = th.promoBot
         /\ m \in ThreadStates /\ Typed(m) /\ Entries(m) = Entries(th)
<1>1. m = [th EXCEPT !.stack = [th.stack EXCEPT ![i][k].right = r]]
  BY DEF MarkedRecord
<1>2. th \in ThreadStates
  BY DEF Typed
<1>3. m.stack = [th.stack EXCEPT ![i][k].right = r] /\ m.promoStack = th.promoStack
      /\ m.promoBot = th.promoBot /\ m = [th EXCEPT !.stack = m.stack]
  BY <1>1, <1>2 DEF ThreadStates
<1>4. MarkStack(th, m, i, k, r)
  BY <1>3 DEF MarkStack
<1>5. MarkEffect(th, m, i, k, r)
  BY <1>4, MarksOldest
<1>6. m.stack \in Stacks /\ m.stack \in Seq(Seq(Slots)) /\ Len(m.stack) = Len(th.stack)
      /\ \A j \in 1 .. Len(th.stack) : Len(m.stack[j]) = Len(th.stack[j])
  BY <1>5 DEF MarkEffect, Stacks
<1>7. m \in ThreadStates
  BY <1>2, <1>3, <1>6 DEF ThreadStates
<1>8. Last(m.stack) = <<>> <=> Last(th.stack) = <<>>
  <2>1. Len(th.stack) \in 1 .. Len(th.stack) /\ Last(th.stack) \in Seq(Slots)
        /\ Last(th.stack) = th.stack[Len(th.stack)]
    BY TypedFacts
  <2>2. Last(m.stack) = m.stack[Len(th.stack)] /\ Last(m.stack) \in Seq(Slots)
        /\ Len(Last(m.stack)) = Len(Last(th.stack))
    <3>1. Last(m.stack) = m.stack[Len(th.stack)]
      BY <1>6 DEF Last
    <3>2. m.stack[Len(th.stack)] \in Seq(Slots)
      BY <2>1, <1>6, ElementOfSeq
    <3> QED
      BY <3>1, <3>2, <2>1, <1>6
  <2> QED
    BY <2>1, <2>2, EmptySeq
<1>9. Entries(m) = Entries(th)
  BY <1>3, <1>6, <1>8, EntriesKept
<1>10. \A j \in DOMAIN m.stack : Len(m.stack[j]) <= MaxNest
  BY <1>6, NestKept
<1>11. Typed(m)
  BY <1>3, <1>6, <1>7, <1>9, <1>10 DEF Typed
<1> QED
  BY <1>3, <1>4, <1>5, <1>7, <1>9, <1>11

PromotedEffect(th, n, r) ==
  /\ n \in ThreadStates /\ Typed(n)
  /\ n.pc = th.pc /\ n.beat = th.beat /\ n.depth = th.depth + 1
  /\ n.tokens \in Nat /\ n.tokens <= th.tokens - 1
  /\ n.given = th.given /\ n.owed = th.owed /\ n.promoStack = th.promoStack
  /\ n.promoBot >= th.promoBot
  /\ \E p : Marked(th, n, p, r)
  /\ PromoInv(th) => PromoInv(n) /\ n.promoBot <= th.promoBot + 2

\* All that a promotion does to its thread.
LEMMA PromotedFacts ==
  ASSUME NEW th, Typed(th), NEW n, NEW r \in Threads, n = Promoted(th, r),
         EnoughToSpawn(th), MaySpawn(th), OldestPromotableFrame(th) = FindPromotableFrame(th)
  PROVE  PromotedEffect(th, n, r)
<1>1. PICK i : i = OldestPromotableFrame(th)
  OBVIOUS
<1>2. PICK k : k = OldestSpork(th.stack[i])
  OBVIOUS
<1>3. PICK m : m = [th EXCEPT !.stack[i][k].right = r]
  OBVIOUS
<1>4. i # 0 /\ i = FindPromotableFrame(th) /\ th.depth < MaxDepth /\ th.tokens >= 1
  BY <1>1 DEF MaySpawn, EnoughToSpawn
<1>5. /\ MarkEffect(th, m, i, k, r) /\ MarkStack(th, m, i, k, r)
      /\ m = [th EXCEPT !.stack = m.stack]
      /\ m.promoStack = th.promoStack /\ m.promoBot = th.promoBot
      /\ m \in ThreadStates /\ Typed(m) /\ Entries(m) = Entries(th)
  <2>1. MarkedRecord(th, m, i, k, r)
    BY <1>3 DEF MarkedRecord
  <2> QED
    BY <2>1, <1>1, <1>2, <1>4, MarkedIsTyped
<1>6. PICK rest : rest = th.tokens - 1
  OBVIOUS
<1>7. PICK share : share = Share(th.stack[i][k].policy, rest)
  OBVIOUS
<1>8. PICK sk : sk = Skipped(m)
  OBVIOUS
<1>9. n = [m EXCEPT !.tokens = rest - share, !.depth = @ + 1, !.promoBot = @ + sk]
  BY <1>1, <1>2, <1>3, <1>6, <1>7, <1>8 DEF Promoted
<1>10. th \in ThreadStates
  BY DEF Typed
<1>11. rest \in Nat /\ share \in 0 .. rest
  <2>1. th.tokens \in Nat /\ rest \in Nat
    BY <1>10, <1>4, <1>6, Fields
  <2>2. th.stack[i][k] \in Slots
    <3>1. i \in 1 .. Len(th.stack) /\ k \in 1 .. Len(th.stack[i])
      BY <1>5 DEF MarkEffect
    <3>2. th.stack[i] \in Seq(Slots)
      BY <3>1, TypedFacts
    <3> QED
      BY <3>1, <3>2, ElementOfSeq
  <2>3. th.stack[i][k].policy \in {"fair", "keep", "give"}
    BY <2>2 DEF Slots, Policies
  <2>4. PICK po \in {"fair", "keep", "give"} : po = th.stack[i][k].policy
    BY <2>3
  <2>5. share = Share(po, rest)
    BY <2>4, <1>7
  <2>6. CASE po = "fair"
    BY <2>1, <2>5, <2>6 DEF Share
  <2>7. CASE po = "keep"
    BY <2>1, <2>5, <2>7 DEF Share
  <2>8. CASE po = "give"
    BY <2>1, <2>5, <2>8 DEF Share
  <2> QED
    BY <2>1, <2>4, <2>6, <2>7, <2>8
<1>12. rest - share \in Nat /\ rest - share <= rest /\ th.tokens \in Nat
  BY <1>11, <1>10, Fields
<1>13. sk \in Nat /\ th.promoBot + sk \in 0 .. Len(Entries(th)) /\ th.promoBot \in Nat
       /\ Len(Entries(th)) \in Nat
  BY <1>5, <1>8, SkippedFacts, TypedFacts
<1>14. /\ n.pc = m.pc /\ n.beat = m.beat /\ n.depth = m.depth + 1 /\ n.stack = m.stack
       /\ n.tokens = rest - share /\ n.given = m.given /\ n.owed = m.owed
       /\ n.promoStack = m.promoStack /\ n.promoBot = m.promoBot + sk
  BY <1>9, <1>5 DEF ThreadStates
<1>15. /\ m.pc = th.pc /\ m.beat = th.beat /\ m.depth = th.depth /\ m.given = th.given
       /\ m.owed = th.owed
  BY <1>5, <1>10 DEF ThreadStates
<1>16. n \in ThreadStates
  <2>1. m.depth + 1 \in 1 .. MaxDepth
    BY <1>4, <1>15, <1>10, Fields
  <2>2. m.promoBot + sk \in Nat
    BY <1>5, <1>13
  <2> QED
    BY <1>9, <1>5, <1>12, <2>1, <2>2 DEF ThreadStates
<1>17. Entries(n) = Entries(th)
  BY <1>14, <1>5 DEF Entries
<1>18. Typed(n)
  <2>1. n.promoBot <= Len(Entries(n))
    BY <1>14, <1>17, <1>13, <1>5
  <2>2. Len(n.stack) \in 1 .. MaxFrames /\ \A j \in DOMAIN n.stack : Len(n.stack[j]) <= MaxNest
    BY <1>14, <1>5 DEF Typed
  <2> QED
    BY <2>1, <2>2, <1>16 DEF Typed
<1>19. Marked(th, n, <<i, k>>, r)
  <2>1. Marked(th, m, <<i, k>>, r)
    BY <1>5 DEF MarkEffect
  <2> QED
    BY <2>1, <1>14 DEF Marked, Places, SlotAt
<1>20. ASSUME PromoInv(th) PROVE PromoInv(n) /\ n.promoBot <= th.promoBot + 2
  <2>1. PICK e : e = Entries(th)
    OBVIOUS
  <2>2. sk \in 0 .. 2 /\ PromoAt(e, m.stack, th.promoBot + sk)
    <3>1. PromoAt(e, th.stack, th.promoBot) /\ e = Entries(m)
      BY <2>1, <1>5, <1>20 DEF PromoInv
    <3> QED
      BY <3>1, <2>1, <1>1, <1>2, <1>4, <1>5, <1>8, PromotionPays
  <2> QED
    BY <2>1, <2>2, <1>14, <1>5, <1>13, <1>17 DEF PromoInv
<1> QED
  BY <1>5, <1>6, <1>12, <1>13, <1>14, <1>15, <1>16, <1>18, <1>19, <1>20 DEF PromotedEffect

Kept(th, n) == Local(n) /\ (PromoInv(th) => PromoInv(n))

\* The sporks are those of the stack.
LEMMA StackKept ==
  ASSUME NEW th, NEW n, n.stack = th.stack
  PROVE  SamePlaces(th, n)
BY DEF SamePlaces, Places, SlotAt

\* What a return from the runtime does to the promotion stack.
LEMMA ReturnedFacts ==
  ASSUME NEW x, Typed(x), NEW n, n = Returned(x)
  PROVE  /\ n \in ThreadStates /\ Typed(n)
         /\ n.pc = x.pc /\ n.beat = x.beat /\ n.depth = x.depth /\ n.stack = x.stack
         /\ SameTokens(x, n) /\ n.promoStack = x.promoStack
         /\ n.promoBot <= Len(n.promoStack) /\ n.promoBot <= x.promoBot
         /\ SamePlaces(x, n)
         /\ PromoInv(x) => PromoInv(n)
<1>0. x \in ThreadStates
  BY DEF Typed
<1>1. PICK b : b = Least(x.promoBot, Len(x.promoStack))
  OBVIOUS
<1>2. n = [x EXCEPT !.promoStack = x.promoStack, !.promoBot = b]
  BY <1>1 DEF Returned, Chopped
<1>3. /\ n.pc = x.pc /\ n.beat = x.beat /\ n.depth = x.depth /\ n.stack = x.stack
      /\ SameTokens(x, n) /\ n.promoStack = x.promoStack /\ n.promoBot = b
  BY <1>0, <1>2 DEF ThreadStates, SameTokens
<1>4. x.promoBot \in Nat /\ Len(x.promoStack) \in Nat /\ x.promoBot <= Len(Entries(x))
  BY TypedFacts
<1>5. b \in Nat /\ b <= Len(x.promoStack) /\ b <= x.promoBot
  BY <1>1, <1>4 DEF Least
<1>6. n \in ThreadStates
  BY <1>0, <1>2, <1>5 DEF ThreadStates
<1>7. Entries(n) = Entries(x)
  BY <1>3 DEF Entries
<1>8. Typed(n)
  <2>1. n.promoBot <= Len(Entries(n))
    <3>1. Len(Entries(x)) \in Nat
      BY TypedFacts
    <3> QED
      BY <3>1, <1>3, <1>4, <1>5, <1>7
  <2> QED
    BY <2>1, <1>3, <1>6 DEF Typed
<1>9. ASSUME PromoInv(x) PROVE PromoInv(n)
  <2>1. PICK e : e = Entries(x)
    OBVIOUS
  <2>2. e \in Seq(1 .. MaxFrames) /\ x.stack \in Seq(Seq(Slots))
        /\ Len(x.promoStack) + 1 >= Len(e)
    <3>1. e \in Seq(1 .. MaxFrames) /\ x.stack \in Seq(Seq(Slots))
          /\ Len(e) <= Len(x.promoStack) + 1 /\ Len(e) \in Nat
      BY <2>1, TypedFacts
    <3> QED
      BY <3>1, <1>4
  <2>3. PromoAt(e, x.stack, x.promoBot) /\ x.promoBot <= Len(e)
    BY <2>1, <1>4, <1>9 DEF PromoInv
  <2>4. PromoAt(e, x.stack, b)
    BY <2>2, <2>3, <1>1, <1>4, BotLowered
  <2> QED
    BY <2>1, <2>4, <1>3, <1>7 DEF PromoInv
<1>10. SamePlaces(x, n)
  BY <1>3, StackKept
<1> QED
  BY <1>3, <1>5, <1>6, <1>8, <1>9, <1>10

\* The frames that are left stay in bounds.
LEMMA NestCut ==
  ASSUME NEW th, Typed(th), NEW n, n.stack \in Seq(Seq(Slots)), NEW h \in 1 .. Len(th.stack),
         Len(n.stack) = h, \A i \in 1 .. h : n.stack[i] = th.stack[i]
  PROVE  \A j \in DOMAIN n.stack : Len(n.stack[j]) <= MaxNest
<1>1. DOMAIN n.stack = 1 .. h /\ DOMAIN th.stack = 1 .. Len(th.stack)
      /\ Len(th.stack) \in Nat
  BY TypedFacts, LenProperties
<1>2. ASSUME NEW j \in 1 .. h PROVE Len(n.stack[j]) <= MaxNest
  <2>1. j \in DOMAIN th.stack /\ n.stack[j] = th.stack[j]
    BY <1>1
  <2> QED
    BY <2>1 DEF Typed
<1> QED
  BY <1>1, <1>2

CallRecord(th, n) == n = [th EXCEPT !.promoStack = Entries(th), !.stack = Append(@, <<>>)]
ReturnRecord(th, n) ==
  \E popped : /\ popped = [th EXCEPT !.stack = Front(@)]
              /\ n = IF Last(popped.stack) = <<>> THEN popped
                     ELSE Chopped(popped, Front(th.promoStack))
RaiseRecord(th, n, h) ==
  /\ h = SelectLastInSeq(th.stack, LAMBDA frame : frame # <<>>) /\ h # 0
  /\ n = [th EXCEPT !.stack = SubSeq(@, 1, h)]

\* A call.
LEMMA CallStep ==
  ASSUME NEW th, Local(th), th.pc = "run", Len(th.stack) < MaxFrames, NEW n,
         CallRecord(th, n)
  PROVE  Kept(th, n) /\ SamePlaces(th, n) /\ n.pc = "run" /\ n.depth = th.depth
         /\ SameTokens(th, n)
<1>1. Typed(th) /\ th \in ThreadStates /\ ForksFirst(th) /\ SpentInv(th)
  BY DEF Local, Typed
<1>2. PICK e : e = Entries(th)
  OBVIOUS
<1>3. PICK s : s = Append(th.stack, <<>>)
  OBVIOUS
<1>4. n = [th EXCEPT !.promoStack = e, !.stack = s]
  BY <1>2, <1>3 DEF CallRecord
<1>5. /\ n.pc = th.pc /\ n.beat = th.beat /\ n.depth = th.depth /\ n.stack = s
      /\ SameTokens(th, n) /\ n.promoStack = e /\ n.promoBot = th.promoBot
  BY <1>1, <1>4 DEF ThreadStates, SameTokens
<1>6. n.stack \in Seq(Seq(Slots)) /\ SamePlaces(th, n)
  BY <1>1, <1>3, <1>5, AppendKeeps, TypedFacts
<1>7. /\ Len(n.stack) = Len(th.stack) + 1 /\ n.stack[Len(n.stack)] = <<>>
      /\ \A i \in 1 .. Len(th.stack) : n.stack[i] = th.stack[i]
      /\ Len(th.stack) \in 1 .. MaxFrames /\ MaxFrames \in Nat
      /\ DOMAIN n.stack = 1 .. Len(n.stack) /\ DOMAIN th.stack = 1 .. Len(th.stack)
  <2>1. <<>> \in Seq(Slots) /\ th.stack \in Seq(Seq(Slots)) /\ Len(th.stack) \in Nat
        /\ Len(th.stack) \in 1 .. MaxFrames /\ MaxFrames \in Nat
    BY <1>1, TypedFacts
  <2> QED
    BY <2>1, <1>3, <1>5, <1>6, AppendProperties, LenProperties
<1>8. Entries(n) = e
  BY <1>5, <1>7 DEF Entries, Last
<1>9. /\ e \in Seq(1 .. MaxFrames) /\ th.promoBot <= Len(e)
  BY <1>1, <1>2, TypedFacts
<1>10. n \in ThreadStates
  BY <1>1, <1>4, <1>5, <1>6, <1>9 DEF ThreadStates
<1>11. \A j \in DOMAIN n.stack : Len(n.stack[j]) <= MaxNest
  <2>1. SUFFICES ASSUME NEW j \in 1 .. Len(n.stack) PROVE Len(n.stack[j]) <= MaxNest
    BY <1>7
  <2>2. CASE j \in 1 .. Len(th.stack)
    BY <2>2, <1>1, <1>7 DEF Typed
  <2>3. CASE j \notin 1 .. Len(th.stack)
    <3>1. n.stack[j] = <<>>
      BY <2>3, <1>7
    <3> QED
      BY <3>1, BoundsAssumption, EmptySeq
  <2> QED
    BY <2>2, <2>3
<1>12. Typed(n)
  BY <1>5, <1>7, <1>8, <1>9, <1>10, <1>11 DEF Typed
<1>13. PromoInv(th) => PromoInv(n)
  <2>1. SUFFICES ASSUME PromoAt(e, th.stack, th.promoBot)
                 PROVE  PromoAt(e, n.stack, n.promoBot)
    BY <1>2, <1>8 DEF PromoInv
  <2> QED
    BY <2>1, <1>1, <1>2, <1>3, <1>5, CallPromo
<1>14. /\ ToPromote(n) = ToPromote(th) /\ ForksFirst(n)
       /\ OnlyYoungest(th) => OnlyYoungest(n)
  BY <1>1, <1>6, SameFacts
<1>15. SpentInv(n)
  BY <1>1, <1>5, <1>14 DEF SpentInv, NoneLeft, EnoughToSpawn, SameTokens
<1>16. Idle(n)
  BY <1>5 DEF Idle
<1> QED
  BY <1>5, <1>6, <1>9, <1>12, <1>13, <1>14, <1>15, <1>16 DEF Kept, Local

\* The end of a call.
LEMMA ReturnStep ==
  ASSUME NEW th, Local(th), th.pc = "run", Len(th.stack) > 1, Last(th.stack) = <<>>,
         NEW n, ReturnRecord(th, n)
  PROVE  Kept(th, n) /\ SamePlaces(th, n) /\ n.pc = "run" /\ n.depth = th.depth
         /\ SameTokens(th, n)
<1>1. Typed(th) /\ th \in ThreadStates /\ ForksFirst(th) /\ SpentInv(th)
      /\ th.promoBot <= Len(th.promoStack)
  BY DEF Local, Typed
<1>2. PICK s : s = Front(th.stack)
  OBVIOUS
<1>3. [th EXCEPT !.stack = s].stack = s
  BY <1>1, <1>2 DEF ThreadStates
<1>4. PICK p : p = IF Last(s) = <<>> THEN th.promoStack ELSE Front(th.promoStack)
  OBVIOUS
<1>5. PICK b : b = Least(th.promoBot, Len(p))
  OBVIOUS
<1>6. /\ th.promoStack \in Seq(1 .. MaxFrames) /\ Len(th.promoStack) \in Nat
      /\ th.promoBot \in Nat /\ th.stack \in Seq(Seq(Slots)) /\ th.stack # <<>>
      /\ Len(th.stack) \in 1 .. MaxFrames /\ MaxFrames \in Nat
      /\ th.stack[Len(th.stack)] = <<>> /\ Entries(th) = th.promoStack
  BY <1>1, TypedFacts DEF Stacks
<1>7. p \in Seq(1 .. MaxFrames) /\ Len(p) \in Nat
  BY <1>4, <1>6, FrontFacts
<1>8. b \in Nat /\ b <= Len(p)
  BY <1>5, <1>6, <1>7 DEF Least
<1>9. n = [th EXCEPT !.stack = s, !.promoStack = p, !.promoBot = b]
  <2>0. PICK popped : popped = [th EXCEPT !.stack = s] /\ popped.stack = s
                      /\ n = IF Last(s) = <<>> THEN popped
                             ELSE Chopped(popped, Front(th.promoStack))
    BY <1>2, <1>3 DEF ReturnRecord
  <2>1. CASE Last(s) = <<>>
    <3>1. p = th.promoStack /\ b = th.promoBot
      BY <2>1, <1>1, <1>4, <1>5, <1>6 DEF Least
    <3>2. n = popped
      BY <2>0, <2>1
    <3>3. n = [th EXCEPT !.stack = s]
      BY <3>2, <2>0
    <3>4. [th EXCEPT !.stack = s]
            = [th EXCEPT !.stack = s, !.promoStack = th.promoStack, !.promoBot = th.promoBot]
      BY <1>1 DEF ThreadStates
    <3> QED
      BY <3>1, <3>3, <3>4
  <2>2. CASE Last(s) # <<>>
    <3>1. p = Front(th.promoStack)
      BY <2>2, <1>4
    <3>2. n = Chopped(popped, p)
      BY <2>0, <2>2, <3>1
    <3>3. popped = [th EXCEPT !.stack = s] /\ popped.promoBot = th.promoBot
      BY <2>0, <1>1 DEF ThreadStates
    <3>4. n = [popped EXCEPT !.promoStack = p, !.promoBot = b]
      BY <3>2, <3>3, <1>5 DEF Chopped
    <3> QED
      BY <3>3, <3>4, <1>1 DEF ThreadStates
  <2> QED
    BY <2>1, <2>2
<1>10. /\ n.pc = th.pc /\ n.beat = th.beat /\ n.depth = th.depth /\ n.stack = s
       /\ SameTokens(th, n) /\ n.promoStack = p /\ n.promoBot = b
  BY <1>1, <1>9 DEF ThreadStates, SameTokens
<1>11. PICK h : h = Len(th.stack) - 1
  OBVIOUS
<1>12. h \in 1 .. Len(th.stack) /\ h \in Nat
  BY <1>6, <1>11
<1>13. s = SubSeq(th.stack, 1, h)
  BY <1>2, <1>11 DEF Front
<1>14. \A i \in 1 .. Len(th.stack) : i > h => th.stack[i] = <<>>
  <2>1. ASSUME NEW i \in 1 .. Len(th.stack), i > h PROVE i = Len(th.stack)
    BY <2>1, <1>6, <1>11
  <2> QED
    BY <2>1, <1>6
<1>15. /\ n.stack \in Seq(Seq(Slots)) /\ Len(n.stack) = h
       /\ \A i \in 1 .. h : n.stack[i] = th.stack[i]
       /\ SamePlaces(th, n)
  BY <1>6, <1>10, <1>12, <1>13, <1>14, CutKeeps
<1>16. n \in ThreadStates
  BY <1>1, <1>7, <1>8, <1>9, <1>10, <1>15 DEF ThreadStates
<1>17. \A j \in DOMAIN n.stack : Len(n.stack[j]) <= MaxNest
  BY <1>1, <1>12, <1>15, NestCut
<1>18. Len(p) <= Len(Entries(n))
  <2>1. Entries(n) = p \/ Entries(n) = Append(p, Len(n.stack))
    BY <1>10 DEF Entries
  <2>2. Len(n.stack) \in 1 .. MaxFrames
    BY <1>6, <1>12, <1>15
  <2> QED
    BY <2>1, <2>2, <1>7, AppendProperties
<1>19. Typed(n)
  <2>1. Len(Entries(n)) \in Nat
    <3>1. Entries(n) = p \/ Entries(n) = Append(p, Len(n.stack))
      BY <1>10 DEF Entries
    <3>2. Len(n.stack) \in 1 .. MaxFrames
      BY <1>6, <1>12, <1>15
    <3> QED
      BY <3>1, <3>2, <1>7, AppendProperties
  <2>2. n.promoBot <= Len(Entries(n))
    BY <2>1, <1>7, <1>8, <1>10, <1>18
  <2>3. Len(n.stack) \in 1 .. MaxFrames
    BY <1>6, <1>12, <1>15
  <2> QED
    BY <2>2, <2>3, <1>16, <1>17 DEF Typed
<1>20. ASSUME PromoInv(th) PROVE PromoInv(n)
  <2>1. PICK e : e = Entries(th)
    OBVIOUS
  <2>2. PromoAt(e, th.stack, th.promoBot)
    BY <2>1, <1>20 DEF PromoInv
  <2>3. n.promoStack = IF Last(n.stack) = <<>> THEN th.promoStack ELSE Front(th.promoStack)
    BY <1>4, <1>10
  <2>4. n.stack = Front(th.stack)
    BY <1>2, <1>10
  <2>5. Entries(n) = e /\ PromoAt(e, n.stack, th.promoBot) /\ Len(p) + 1 >= Len(e)
    BY <2>1, <2>2, <2>3, <2>4, <1>1, <1>10, ReturnPromo
  <2>6. e \in Seq(1 .. MaxFrames) /\ th.promoBot <= Len(e)
    BY <2>1, <1>1, <1>6 DEF Typed
  <2>7. PromoAt(e, n.stack, b)
    BY <2>5, <2>6, <1>5, <1>6, <1>7, <1>15, BotLowered
  <2> QED
    BY <2>5, <2>7, <1>10 DEF PromoInv
<1>21. /\ ToPromote(n) = ToPromote(th) /\ ForksFirst(n)
       /\ OnlyYoungest(th) => OnlyYoungest(n)
  BY <1>1, <1>15, SameFacts
<1>22. SpentInv(n)
  BY <1>1, <1>10, <1>21 DEF SpentInv, NoneLeft, EnoughToSpawn, SameTokens
<1>23. Idle(n)
  BY <1>10 DEF Idle
<1>24. n.promoBot <= Len(n.promoStack)
  BY <1>8, <1>10
<1> QED
  BY <1>10, <1>15, <1>19, <1>20, <1>21, <1>22, <1>23, <1>24 DEF Kept, Local

\* An exception.
LEMMA RaiseStep ==
  ASSUME NEW th, Local(th), th.pc = "run", NEW h, NEW n, RaiseRecord(th, n, h)
  PROVE  Local(n) /\ SamePlaces(th, n) /\ n.pc = "run" /\ n.depth = th.depth
         /\ SameTokens(th, n)
<1>1. Typed(th) /\ th \in ThreadStates /\ ForksFirst(th) /\ SpentInv(th)
      /\ th.promoBot <= Len(th.promoStack)
  BY DEF Local, Typed
<1>2. PICK s : s = SubSeq(th.stack, 1, h)
  OBVIOUS
<1>3. n = [th EXCEPT !.stack = s]
  BY <1>2 DEF RaiseRecord
<1>4. /\ n.pc = th.pc /\ n.beat = th.beat /\ n.depth = th.depth /\ n.stack = s
      /\ SameTokens(th, n) /\ n.promoStack = th.promoStack /\ n.promoBot = th.promoBot
  BY <1>1, <1>3 DEF ThreadStates, SameTokens
<1>5. /\ th.promoStack \in Seq(1 .. MaxFrames) /\ Len(th.promoStack) \in Nat
      /\ th.promoBot \in Nat /\ th.stack \in Seq(Seq(Slots))
      /\ Len(th.stack) \in 1 .. MaxFrames /\ MaxFrames \in Nat
  BY <1>1, TypedFacts
<1>6. /\ h \in 1 .. Len(th.stack)
      /\ \A i \in 1 .. Len(th.stack) : i > h => th.stack[i] = <<>>
  <2> DEFINE I == {i \in 1 .. Len(th.stack) : th.stack[i] # <<>>}
  <2>1. h = IF I # {} THEN Max(I) ELSE 0
    BY DEF SelectLastInSeq, RaiseRecord
  <2>2. I # {} /\ I \in SUBSET (0 .. Len(th.stack)) /\ Len(th.stack) \in Nat
    BY <2>1, <1>5 DEF RaiseRecord
  <2>3. h \in I /\ \A i \in I : h >= i
    BY <2>1, <2>2, MaxFacts
  <2>4. ASSUME NEW i \in 1 .. Len(th.stack), i > h PROVE th.stack[i] = <<>>
    <3>1. ASSUME th.stack[i] # <<>> PROVE FALSE
      <4>1. i \in I
        BY <3>1
      <4>2. h >= i /\ h \in Nat /\ i \in Nat
        BY <4>1, <2>3, <1>5
      <4> QED
        BY <4>2, <2>4
    <3> QED
      BY <3>1
  <2> QED
    BY <2>3, <2>4
<1>7. /\ n.stack \in Seq(Seq(Slots)) /\ Len(n.stack) = h
      /\ \A i \in 1 .. h : n.stack[i] = th.stack[i]
      /\ SamePlaces(th, n)
  BY <1>2, <1>4, <1>5, <1>6, CutKeeps
<1>8. n \in ThreadStates
  BY <1>1, <1>3, <1>4, <1>7 DEF ThreadStates
<1>9. \A j \in DOMAIN n.stack : Len(n.stack[j]) <= MaxNest
  BY <1>1, <1>6, <1>7, NestCut
<1>10. Typed(n)
  <2>1. Entries(n) = th.promoStack \/ Entries(n) = Append(th.promoStack, Len(n.stack))
    BY <1>4 DEF Entries
  <2>2. Len(n.stack) \in 1 .. MaxFrames
    BY <1>5, <1>6, <1>7
  <2>3. Len(Entries(n)) \in Nat /\ Len(th.promoStack) <= Len(Entries(n))
    BY <2>1, <2>2, <1>5, AppendProperties
  <2>4. n.promoBot <= Len(Entries(n))
    BY <2>3, <1>1, <1>4, <1>5
  <2> QED
    BY <2>2, <2>4, <1>8, <1>9 DEF Typed
<1>11. /\ ToPromote(n) = ToPromote(th) /\ ForksFirst(n)
       /\ OnlyYoungest(th) => OnlyYoungest(n)
  BY <1>1, <1>7, SameFacts
<1>12. SpentInv(n)
  BY <1>1, <1>4, <1>11 DEF SpentInv, NoneLeft, EnoughToSpawn, SameTokens
<1>13. Idle(n)
  BY <1>4 DEF Idle
<1> QED
  BY <1>1, <1>4, <1>7, <1>10, <1>11, <1>12, <1>13 DEF Local

-----------------------------------------------------------------------------
(* Steps of one thread *)

\* With the stacks as they were, all that is said of them still holds.
LEMMA SameStacks ==
  ASSUME NEW th, Typed(th), NEW n \in ThreadStates, n.stack = th.stack,
         n.promoStack = th.promoStack, n.promoBot = th.promoBot
  PROVE  /\ Typed(n) /\ SamePlaces(th, n)
         /\ ToPromote(n) = ToPromote(th) /\ (ForksFirst(th) => ForksFirst(n))
         /\ OnlyYoungest(th) => OnlyYoungest(n)
         /\ PromoInv(th) => PromoInv(n)
<1>1. Entries(n) = Entries(th)
  BY DEF Entries
<1>2. Typed(n)
  BY <1>1 DEF Typed
<1>3. PromoInv(th) => PromoInv(n)
  BY <1>1 DEF PromoInv
<1>4. SamePlaces(th, n)
  BY StackKept
<1>5. /\ ToPromote(n) = ToPromote(th) /\ (ForksFirst(th) => ForksFirst(n))
      /\ OnlyYoungest(th) => OnlyYoungest(n)
  BY <1>4, SameFacts
<1> QED
  BY <1>2, <1>3, <1>4, <1>5

\* When the walk finds no frame there is nothing to promote.
LEMMA NoneFound ==
  ASSUME NEW th, Typed(th), FindPromotableFrame(th) = 0
  PROVE  NoneLeft(th)
<1>1. SUFFICES ASSUME NEW p \in ToPromote(th) PROVE FALSE
  BY DEF NoneLeft
<1>2. p \in Places(th) /\ Promotable(SlotAt(th, p))
  BY DEF ToPromote
<1>3. /\ p[1] \in 1 .. Len(th.stack) /\ p[2] \in 1 .. Len(th.stack[p[1]])
      /\ Promotable(th.stack[p[1]][p[2]])
  BY <1>2, InPlaces, TypedFacts
<1>4. ~FrameIsPromotable(th.stack[p[1]])
  BY <1>3, FindFacts
<1>5. th.stack[p[1]] \in Seq(Slots)
  BY <1>3, TypedFacts
<1> QED
  BY <1>3, <1>4, <1>5, NotPromotable

\* With nothing more to promote, and no confusion about it.
LEMMA NotConfused ==
  ASSUME NEW th, Typed(th), ~Confused(th), ~MaySpawn(th), th.depth < MaxDepth
  PROVE  NoneLeft(th)
<1>1. OldestPromotableFrame(th) = 0 /\ FindPromotableFrame(th) = 0
  BY DEF Confused, MaySpawn
<1> QED
  BY <1>1, NoneFound

\* A spork.
SporkRecord(th, n, s) ==
  n = [th EXCEPT !.pc = "eager", !.stack[Len(th.stack)] = Append(@, s)]

\* A spork keeps what is known of its thread.
LEMMA SporkStep ==
  ASSUME NEW th, Local(th), th.pc = "run", Len(Last(th.stack)) < MaxNest,
         NEW policy \in Policies, NEW s, s = [policy |-> policy, right |-> None],
         NEW n, SporkRecord(th, n, s)
  PROVE  Kept(th, n) /\ (\E p : Gained(th, n, p)) /\ n.pc = "eager" /\ n.depth = th.depth
         /\ SameTokens(th, n)
<1>1. Typed(th) /\ th \in ThreadStates /\ ForksFirst(th) /\ SpentInv(th)
      /\ th.promoBot <= Len(th.promoStack)
  BY DEF Local, Typed
<1>2. PICK l : l = Len(th.stack)
  OBVIOUS
<1>3. PICK st : st = [th.stack EXCEPT ![l] = Append(@, s)]
  OBVIOUS
<1>4. n = [th EXCEPT !.pc = "eager", !.stack = st]
  BY <1>2, <1>3 DEF SporkRecord
<1>5. /\ n.pc = "eager" /\ n.beat = th.beat /\ n.depth = th.depth /\ n.stack = st
      /\ SameTokens(th, n) /\ n.promoStack = th.promoStack /\ n.promoBot = th.promoBot
  BY <1>1, <1>4 DEF ThreadStates, SameTokens
<1>6. s \in Slots /\ s.right = None
  BY DEF Slots
<1>7. SporkEffect(th, n, s)
  <2>1. SporkStack(th, n, s)
    BY <1>2, <1>3, <1>5 DEF SporkStack
  <2>2. th.stack \in Stacks
    BY <1>1, TypedFacts
  <2> QED
    BY <2>1, <2>2, <1>6, SporkGains DEF SporkEffect
<1>8. n.stack \in Stacks /\ n.stack \in Seq(Seq(Slots)) /\ Len(n.stack) = l
      /\ \A i \in 1 .. l : i # l => n.stack[i] = th.stack[i]
  BY <1>2, <1>7 DEF SporkEffect, Stacks
<1>9. n \in ThreadStates
  BY <1>1, <1>4, <1>5, <1>8 DEF ThreadStates, Control, Interruptible
<1>10. /\ Last(th.stack) \in Seq(Slots) /\ Len(Last(n.stack)) = Len(Last(th.stack)) + 1
       /\ n.stack[l] = Last(n.stack) /\ Last(n.stack) # <<>> /\ Len(Last(th.stack)) \in Nat
       /\ Last(n.stack) = Append(Last(th.stack), s)
  <2>1. Last(th.stack) \in Seq(Slots) /\ Last(n.stack) = Append(Last(th.stack), s)
    BY <1>1, <1>7, TypedFacts DEF SporkEffect
  <2>2. PICK f \in Seq(Slots) : f = Last(th.stack)
    BY <2>1
  <2>3. Len(Append(f, s)) = Len(f) + 1 /\ Append(f, s) # <<>> /\ Len(f) \in Nat
    BY <1>6, AppendProperties, LenProperties
  <2>4. n.stack[l] = Last(n.stack)
    BY <1>8 DEF Last
  <2> QED
    BY <2>1, <2>2, <2>3, <2>4
<1>11. \A j \in DOMAIN n.stack : Len(n.stack[j]) <= MaxNest
  <2>1. DOMAIN n.stack = 1 .. l /\ DOMAIN th.stack = 1 .. l
    BY <1>1, <1>2, <1>8, TypedFacts, LenProperties
  <2>2. ASSUME NEW j \in 1 .. l PROVE Len(n.stack[j]) <= MaxNest
    <3>1. CASE j = l
      BY <3>1, <1>10, BoundsAssumption
    <3>2. CASE j # l
      BY <3>2, <2>1, <1>1, <1>8 DEF Typed
    <3> QED
      BY <3>1, <3>2
  <2> QED
    BY <2>1, <2>2
<1>12. Typed(n)
  <2>1. Entries(n) = Append(th.promoStack, l)
    BY <1>5, <1>8, <1>10 DEF Entries
  <2>2. /\ th.promoStack \in Seq(1 .. MaxFrames) /\ l \in 1 .. MaxFrames
        /\ Len(th.promoStack) \in Nat /\ th.promoBot \in Nat
    BY <1>1, <1>2, TypedFacts
  <2>3. n.promoBot <= Len(Entries(n))
    BY <2>1, <2>2, <1>1, <1>5, AppendProperties
  <2> QED
    BY <2>2, <2>3, <1>8, <1>9, <1>11 DEF Typed
<1>13. PromoInv(th) => PromoInv(n)
  <2>1. th.promoBot \in Nat
    BY <1>1, TypedFacts
  <2> QED
    BY <2>1, <1>1, <1>5, <1>6, <1>7, SporkPromo DEF PromoInv
<1>14. PICK p : Gained(th, n, p)
  BY <1>7 DEF SporkEffect
<1>15. th.stack \in Seq(Seq(Slots))
  BY <1>1, TypedFacts
<1>16. ForksFirst(n) /\ (NoneLeft(th) => OnlyYoungest(n))
  BY <1>1, <1>8, <1>14, <1>15, GainedFacts
<1>17. SpentInv(n)
  BY <1>1, <1>5, <1>16 DEF SpentInv, EnoughToSpawn, SameTokens
<1>18. Idle(n)
  BY <1>5 DEF Idle
<1> QED
  BY <1>1, <1>5, <1>12, <1>13, <1>14, <1>16, <1>17, <1>18 DEF Kept, Local

\* The eager check.
LEMMA CheckStep ==
  ASSUME NEW th, Local(th), th.pc = "eager", NEW n,
         n = [th EXCEPT !.pc = IF EnoughToSpawn(th) THEN "tryPromote" ELSE "run"]
  PROVE  Kept(th, n) /\ SamePlaces(th, n) /\ n.pc \in {"tryPromote", "run"}
         /\ n.depth = th.depth /\ SameTokens(th, n)
<1>1. Typed(th) /\ th \in ThreadStates /\ ForksFirst(th) /\ SpentInv(th)
      /\ th.promoBot <= Len(th.promoStack)
  BY DEF Local, Typed
<1>2. PICK pc \in {"tryPromote", "run"} :
             /\ n = [th EXCEPT !.pc = pc]
             /\ EnoughToSpawn(th) => pc = "tryPromote"
  BY DEF EnoughToSpawn
<1>3. /\ n.pc = pc /\ n.beat = th.beat /\ n.depth = th.depth /\ n.stack = th.stack
      /\ SameTokens(th, n) /\ n.promoStack = th.promoStack /\ n.promoBot = th.promoBot
  BY <1>1, <1>2 DEF ThreadStates, SameTokens
<1>4. n \in ThreadStates
  BY <1>1, <1>2 DEF ThreadStates, Control, Interruptible
<1>5. /\ Typed(n) /\ SamePlaces(th, n)
      /\ ToPromote(n) = ToPromote(th) /\ ForksFirst(n)
      /\ OnlyYoungest(th) => OnlyYoungest(n)
      /\ PromoInv(th) => PromoInv(n)
  BY <1>1, <1>3, <1>4, SameStacks
<1>6. SpentInv(n)
  BY <1>1, <1>2, <1>3, <1>5 DEF SpentInv, NoneLeft, EnoughToSpawn, SameTokens
<1>7. Idle(n)
  BY <1>3 DEF Idle
<1> QED
  BY <1>1, <1>3, <1>5, <1>6, <1>7 DEF Kept, Local

\* tryPromoteNow without a promotion.
LEMMA TryIdleStep ==
  ASSUME NEW th, Local(th), th.pc = "tryPromote", NEW x, x = [th EXCEPT !.pc = "run"],
         ~(EnoughToSpawn(x) /\ Confused(x)), ~(EnoughToSpawn(x) /\ MaySpawn(x)),
         NEW n, n = Returned(x)
  PROVE  Kept(th, n) /\ SamePlaces(th, n) /\ n.pc = "run"
         /\ n.depth = th.depth /\ SameTokens(th, n)
<1>1. Typed(th) /\ th \in ThreadStates /\ ForksFirst(th) /\ SpentInv(th)
  BY DEF Local, Typed
<1>2. /\ x.pc = "run" /\ x.beat = th.beat /\ x.depth = th.depth /\ x.stack = th.stack
      /\ SameTokens(th, x) /\ x.promoStack = th.promoStack /\ x.promoBot = th.promoBot
      /\ x \in ThreadStates
  BY <1>1 DEF ThreadStates, SameTokens, Control, Interruptible
<1>3. /\ Typed(x) /\ SamePlaces(th, x) /\ ForksFirst(x)
      /\ PromoInv(th) => PromoInv(x)
  BY <1>1, <1>2, SameStacks
<1>4. /\ n \in ThreadStates /\ Typed(n)
      /\ n.pc = x.pc /\ n.beat = x.beat /\ n.depth = x.depth /\ n.stack = x.stack
      /\ SameTokens(x, n) /\ n.promoStack = x.promoStack
      /\ n.promoBot <= Len(n.promoStack)
      /\ SamePlaces(x, n)
      /\ PromoInv(x) => PromoInv(n)
  BY ZenonT(30), <1>3, ReturnedFacts
<1>5. ForksFirst(n) /\ ToPromote(n) = ToPromote(x)
  BY <1>3, <1>4, SameFacts
<1>6. EnoughToSpawn(x) /\ x.depth < MaxDepth => NoneLeft(x)
  BY <1>3, NotConfused
<1>7. NoneLeft(n) => OnlyYoungest(n)
  BY DEF NoneLeft, OnlyYoungest
<1>8. SpentInv(n)
  BY <1>2, <1>4, <1>5, <1>6, <1>7 DEF SpentInv, NoneLeft, EnoughToSpawn, SameTokens
<1>9. Idle(n)
  BY <1>2, <1>4 DEF Idle
<1>10. SamePlaces(th, n) /\ SameTokens(th, n)
  BY <1>2, <1>3, <1>4 DEF SamePlaces, SameTokens
<1> QED
  BY <1>2, <1>3, <1>4, <1>5, <1>8, <1>9, <1>10 DEF Kept, Local

SpawnEffect(th, n, r) ==
  /\ Kept(th, n) /\ \E p : Marked(th, n, p, r)
  /\ n.depth = th.depth + 1 /\ n.given = th.given /\ n.owed = th.owed
  /\ n.tokens \in Nat /\ n.tokens <= th.tokens - 1

\* tryPromoteNow with a promotion.
LEMMA EagerStep ==
  ASSUME NEW th, Local(th), th.pc = "tryPromote", NEW x, x = [th EXCEPT !.pc = "run"],
         EnoughToSpawn(x), ~Confused(x), MaySpawn(x), NEW r \in Threads,
         NEW y, y = Promoted(x, r), NEW n, n = Returned(y)
  PROVE  SpawnEffect(th, n, r) /\ n.pc = "run" /\ n.tokens = y.tokens /\ y.promoBot \in Nat
         /\ (PromoInv(th) => y.promoBot <= th.promoBot + 2)
<1>1. Typed(th) /\ th \in ThreadStates /\ ForksFirst(th) /\ SpentInv(th)
  BY DEF Local, Typed
<1>2. /\ x.pc = "run" /\ x.beat = th.beat /\ x.depth = th.depth /\ x.stack = th.stack
      /\ SameTokens(th, x) /\ x.promoStack = th.promoStack /\ x.promoBot = th.promoBot
      /\ x \in ThreadStates
  BY <1>1 DEF ThreadStates, SameTokens, Control, Interruptible
<1>3. /\ Typed(x) /\ SamePlaces(th, x) /\ ForksFirst(x) /\ ToPromote(x) = ToPromote(th)
      /\ PromoInv(th) => PromoInv(x)
      /\ OnlyYoungest(th) => OnlyYoungest(x)
  BY <1>1, <1>2, SameStacks
<1>4. x.depth < MaxDepth /\ OldestPromotableFrame(x) = FindPromotableFrame(x)
  BY DEF Confused, MaySpawn
<1>5. PromotedEffect(x, y, r)
  BY <1>3, <1>4, PromotedFacts
<1>6. /\ n \in ThreadStates /\ Typed(n)
      /\ n.pc = y.pc /\ n.beat = y.beat /\ n.depth = y.depth /\ n.stack = y.stack
      /\ SameTokens(y, n) /\ n.promoStack = y.promoStack
      /\ n.promoBot <= Len(n.promoStack)
      /\ SamePlaces(y, n)
      /\ PromoInv(y) => PromoInv(n)
  BY <1>5, ReturnedFacts DEF PromotedEffect
<1>7. PICK p : Marked(x, y, p, r)
  BY <1>5 DEF PromotedEffect
<1>8. OnlyYoungest(x)
  BY <1>1, <1>2, <1>3, <1>4 DEF SpentInv, EnoughToSpawn, SameTokens
<1>9. ForksFirst(y) /\ NoneLeft(y)
  BY <1>3, <1>7, <1>8, MarkedFacts, TypedFacts
<1>10. ForksFirst(n) /\ NoneLeft(n) /\ OnlyYoungest(n)
  BY <1>6, <1>9, SameFacts DEF NoneLeft, OnlyYoungest
<1>11. SpentInv(n)
  <2>1. n.pc = "run"
    BY <1>2, <1>5, <1>6 DEF PromotedEffect
  <2> QED
    BY <2>1, <1>10 DEF SpentInv
<1>12. Idle(n)
  BY <1>2, <1>5, <1>6 DEF Idle, PromotedEffect
<1>13. Marked(th, n, p, r)
  <2>1. Places(x) = Places(th) /\ \A q \in Places(th) : SlotAt(x, q) = SlotAt(th, q)
    BY <1>3 DEF SamePlaces
  <2>2. Places(n) = Places(th) /\ p \in ToPromote(th) /\ p \in Places(th)
    BY <2>1, <1>3, <1>6, <1>7 DEF Marked, SamePlaces, ToPromote
  <2>3. \A q \in Places(th) \ {p} : SlotAt(n, q) = SlotAt(th, q)
    BY <2>1, <2>2, <1>6, <1>7 DEF Marked, SamePlaces
  <2>4. SlotAt(n, p).right = r /\ r # None
    BY <2>1, <2>2, <1>6, <1>7 DEF Marked, SamePlaces
  <2>5. \A q \in ToPromote(th) : q = p \/ Older(p, q)
    BY <1>3, <1>7 DEF Marked
  <2> QED
    BY <2>2, <2>3, <2>4, <2>5 DEF Marked
<1>14. y.promoBot \in Nat
  BY <1>5, TypedFacts DEF PromotedEffect
<1> QED
  BY <1>2, <1>3, <1>5, <1>6, <1>10, <1>11, <1>12, <1>13, <1>14
     DEF Kept, Local, SpawnEffect, PromotedEffect, SameTokens

\* A heartbeat.
LEMMA BeatStep ==
  ASSUME NEW th, Local(th), th.pc \in Interruptible, NEW n,
         n = [th EXCEPT !.pc = "handler",
                        !.tokens = AddSpare(@, HeartbeatTokens),
                        !.beat = [back |-> th.pc, hadEnough |-> EnoughToSpawn(th),
                                  numSpawned |-> 0]]
  PROVE  Kept(th, n) /\ SamePlaces(th, n) /\ n.pc = "handler" /\ n.depth = th.depth
         /\ n.tokens <= th.tokens + HeartbeatTokens /\ n.given = th.given /\ n.owed = th.owed
<1>1. Typed(th) /\ th \in ThreadStates /\ ForksFirst(th) /\ SpentInv(th)
  BY DEF Local, Typed
<1>2. PICK tokens : tokens = AddSpare(th.tokens, HeartbeatTokens)
  OBVIOUS
<1>3. tokens \in Nat /\ tokens <= th.tokens + HeartbeatTokens
  BY <1>1, <1>2, Fields, TokensAssumption DEF AddSpare, Least
<1>e. PICK enough \in BOOLEAN : enough = EnoughToSpawn(th)
  <2>1. PICK m \in Nat : m = th.tokens
    BY <1>1, Fields
  <2>2. (m >= 1) \in BOOLEAN
    BY <2>1
  <2>3. EnoughToSpawn(th) = (m >= 1)
    BY <2>1 DEF EnoughToSpawn
  <2> QED
    BY <2>2, <2>3
<1>4. PICK beat : beat = [back |-> th.pc, hadEnough |-> enough, numSpawned |-> 0]
  OBVIOUS
<1>5. beat \in [back : Interruptible, hadEnough : BOOLEAN, numSpawned : Nat]
      /\ beat.back = th.pc /\ (beat.hadEnough <=> EnoughToSpawn(th)) /\ beat.numSpawned = 0
  <2>1. beat.back = th.pc /\ beat.hadEnough = enough /\ beat.numSpawned = 0
    BY <1>4
  <2>2. beat \in [back : Interruptible, hadEnough : BOOLEAN, numSpawned : Nat]
    BY <1>4
  <2> QED
    BY <2>1, <2>2, <1>e
<1>6. n = [th EXCEPT !.pc = "handler", !.tokens = tokens, !.beat = beat]
  BY <1>2, <1>4, <1>e
<1>7. /\ n.pc = "handler" /\ n.beat = beat /\ n.depth = th.depth /\ n.stack = th.stack
      /\ n.tokens = tokens /\ n.given = th.given /\ n.owed = th.owed
      /\ n.promoStack = th.promoStack /\ n.promoBot = th.promoBot
  BY <1>1, <1>6 DEF ThreadStates
<1>8. n \in ThreadStates
  BY <1>1, <1>3, <1>5, <1>6 DEF ThreadStates, Control, Interruptible
<1>9. /\ Typed(n) /\ SamePlaces(th, n)
      /\ ToPromote(n) = ToPromote(th) /\ ForksFirst(n)
      /\ OnlyYoungest(th) => OnlyYoungest(n)
      /\ PromoInv(th) => PromoInv(n)
  BY <1>1, <1>7, <1>8, SameStacks
<1>10. th.pc # "handler"
  BY DEF Interruptible
<1>11. SpentInv(n)
  BY <1>1, <1>5, <1>7, <1>9, <1>10 DEF SpentInv, NoneLeft
<1>12. Idle(n)
  BY <1>7 DEF Idle
<1> QED
  BY <1>3, <1>7, <1>9, <1>11, <1>12 DEF Kept, Local

\* The handler promotes.
HandlerRecord(th, x) == x = [th EXCEPT !.beat.numSpawned = @ + 1]

\* So does a promotion in the handler.
LEMMA HandlerSpawnStep ==
  ASSUME NEW th, Local(th), th.pc = "handler", NEW x, HandlerRecord(th, x),
         EnoughToSpawn(x), ~Confused(x), MaySpawn(x), NEW r \in Threads,
         NEW n, n = Promoted(x, r)
  PROVE  SpawnEffect(th, n, r) /\ n.pc = "handler"
         /\ (PromoInv(th) => n.promoBot <= th.promoBot + 2)
<1>1. Typed(th) /\ th \in ThreadStates /\ ForksFirst(th) /\ SpentInv(th)
  BY DEF Local, Typed
<1>2. PICK beat : beat = [th.beat EXCEPT !.numSpawned = @ + 1]
  OBVIOUS
<1>3. th.beat \in [back : Interruptible, hadEnough : BOOLEAN, numSpawned : Nat]
  BY <1>1, Fields
<1>4. /\ beat \in [back : Interruptible, hadEnough : BOOLEAN, numSpawned : Nat]
      /\ beat.back = th.beat.back /\ beat.hadEnough = th.beat.hadEnough
      /\ beat.numSpawned = th.beat.numSpawned + 1
  BY <1>2, <1>3
<1>5. x = [th EXCEPT !.beat = beat]
  BY <1>2 DEF HandlerRecord
<1>6. /\ x.pc = "handler" /\ x.beat = beat /\ x.depth = th.depth /\ x.stack = th.stack
      /\ SameTokens(th, x) /\ x.promoStack = th.promoStack /\ x.promoBot = th.promoBot
      /\ x \in ThreadStates
  BY <1>1, <1>4, <1>5 DEF ThreadStates, SameTokens
<1>7. /\ Typed(x) /\ SamePlaces(th, x) /\ ForksFirst(x) /\ ToPromote(x) = ToPromote(th)
      /\ PromoInv(th) => PromoInv(x)
      /\ OnlyYoungest(th) => OnlyYoungest(x)
  BY <1>1, <1>6, SameStacks
<1>8. x.depth < MaxDepth /\ OldestPromotableFrame(x) = FindPromotableFrame(x)
  BY DEF Confused, MaySpawn
<1>9. PromotedEffect(x, n, r)
  BY <1>7, <1>8, PromotedFacts
<1>10. PICK p : Marked(x, n, p, r)
  BY <1>9 DEF PromotedEffect
<1>11. ForksFirst(n) /\ ToPromote(n) = ToPromote(x) \ {p} /\ p \in ToPromote(x)
       /\ (OnlyYoungest(x) => NoneLeft(n))
  BY <1>7, <1>10, MarkedFacts, TypedFacts
<1>12. ~NoneLeft(th)
  BY <1>7, <1>11 DEF NoneLeft
<1>13. n.pc = "handler" /\ n.beat = beat
  BY <1>6, <1>9 DEF PromotedEffect
<1>14. SpentInv(n)
  <2>1. th.beat.back # "giveBack"
    BY <1>1, <1>12 DEF SpentInv
  <2>2. th.beat.hadEnough => th.beat.numSpawned = 0 /\ OnlyYoungest(th)
    BY <1>1, <1>12, <1>6, <1>8 DEF SpentInv
  <2> QED
    BY <2>1, <2>2, <1>4, <1>7, <1>11, <1>13 DEF SpentInv
<1>15. Idle(n)
  BY <1>13 DEF Idle
<1>16. Marked(th, n, p, r)
  BY <1>7, <1>10 DEF Marked, SamePlaces
<1> QED
  BY <1>6, <1>7, <1>9, <1>11, <1>13, <1>14, <1>15, <1>16
     DEF Kept, Local, SpawnEffect, PromotedEffect, SameTokens

\* The handler is over.
LEMMA HandlerEndStep ==
  ASSUME NEW th, Local(th), th.pc = "handler",
         EnoughToSpawn(th) => ~Confused(th) /\ ~MaySpawn(th), NEW x,
         x = [th EXCEPT !.pc = th.beat.back, !.beat = NewThread("run", 1, 0).beat],
         NEW n, n = Returned(x)
  PROVE  Kept(th, n) /\ SamePlaces(th, n) /\ n.pc \in Interruptible
         /\ n.depth = th.depth /\ SameTokens(th, n)
<1>1. Typed(th) /\ th \in ThreadStates /\ ForksFirst(th) /\ SpentInv(th)
  BY DEF Local, Typed
<1>2. PICK back \in Interruptible : back = th.beat.back
  BY <1>1, Fields
<1>3. PICK beat : beat = NewThread("run", 1, 0).beat
  OBVIOUS
<1>4. beat \in [back : Interruptible, hadEnough : BOOLEAN, numSpawned : Nat]
  BY <1>3 DEF NewThread, Interruptible
<1>5. x = [th EXCEPT !.pc = back, !.beat = beat]
  BY <1>2, <1>3
<1>6. /\ x.pc = back /\ x.beat = beat /\ x.depth = th.depth /\ x.stack = th.stack
      /\ SameTokens(th, x) /\ x.promoStack = th.promoStack /\ x.promoBot = th.promoBot
      /\ x \in ThreadStates
  BY <1>1, <1>4, <1>5 DEF ThreadStates, SameTokens, Control
<1>7. /\ Typed(x) /\ SamePlaces(th, x) /\ ForksFirst(x) /\ ToPromote(x) = ToPromote(th)
      /\ PromoInv(th) => PromoInv(x)
  BY <1>1, <1>6, SameStacks
<1>8. /\ n \in ThreadStates /\ Typed(n)
      /\ n.pc = x.pc /\ n.beat = x.beat /\ n.depth = x.depth /\ n.stack = x.stack
      /\ SameTokens(x, n) /\ n.promoStack = x.promoStack
      /\ n.promoBot <= Len(n.promoStack)
      /\ SamePlaces(x, n)
      /\ PromoInv(x) => PromoInv(n)
  BY ZenonT(30), <1>7, ReturnedFacts
<1>9. ForksFirst(n) /\ ToPromote(n) = ToPromote(th)
  BY <1>7, <1>8, SameFacts
<1>10. EnoughToSpawn(th) /\ th.depth < MaxDepth => NoneLeft(th)
  BY <1>1, NotConfused
<1>11. back = "giveBack" => NoneLeft(th)
  BY <1>1, <1>2 DEF SpentInv
<1>12. NoneLeft(n) => OnlyYoungest(n)
  BY DEF NoneLeft, OnlyYoungest
<1>13. n.pc # "handler"
  BY <1>6, <1>8 DEF Interruptible
<1>14. SpentInv(n)
  BY <1>6, <1>8, <1>9, <1>10, <1>11, <1>12, <1>13
     DEF SpentInv, NoneLeft, EnoughToSpawn, SameTokens
<1>15. Idle(n)
  BY <1>6, <1>8 DEF Idle, Interruptible
<1>16. SamePlaces(th, n) /\ SameTokens(th, n)
  BY <1>6, <1>7, <1>8 DEF SamePlaces, SameTokens
<1> QED
  BY <1>6, <1>7, <1>8, <1>9, <1>14, <1>15, <1>16 DEF Kept, Local

LeftRecord(th, m) == m = [th EXCEPT !.stack[Len(th.stack)] = Front(@)]
LeftEffect(th, m, p) ==
  /\ m \in ThreadStates /\ Typed(m) /\ Lost(th, m, p)
  /\ SlotAt(th, p) = Last(Last(th.stack))
  /\ m.pc = th.pc /\ m.beat = th.beat /\ m.depth = th.depth /\ SameTokens(th, m)
  /\ m.promoStack = th.promoStack /\ m.promoBot = th.promoBot
  /\ m.promoBot <= Len(m.promoStack) /\ Last(th.stack) # <<>>
  /\ PromoInv(th) => PromoInv(m)

\* The end of a spork, before what a join does with its right side.
LEMMA LeftFacts ==
  ASSUME NEW th, Local(th), th.pc = "run", Last(th.stack) # <<>>,
         NEW m, LeftRecord(th, m)
  PROVE  \E p : LeftEffect(th, m, p)
<1>1. Typed(th) /\ th \in ThreadStates /\ th.promoBot <= Len(th.promoStack)
  BY DEF Local, Typed
<1>2. PICK l : l = Len(th.stack)
  OBVIOUS
<1>3. PICK s : s = [th.stack EXCEPT ![l] = Front(@)]
  OBVIOUS
<1>4. m = [th EXCEPT !.stack = s]
  BY <1>2, <1>3 DEF LeftRecord
<1>5. /\ m.pc = th.pc /\ m.beat = th.beat /\ m.depth = th.depth /\ m.stack = s
      /\ SameTokens(th, m) /\ m.promoStack = th.promoStack /\ m.promoBot = th.promoBot
  BY <1>1, <1>4 DEF ThreadStates, SameTokens
<1>6. LeaveEffect(th, m)
  <2>1. LeaveStack(th, m)
    BY <1>2, <1>3, <1>5 DEF LeaveStack
  <2>2. th.stack \in Stacks
    BY <1>1, TypedFacts
  <2> QED
    BY <2>1, <2>2, LeaveLoses DEF LeaveEffect
<1>7. /\ th.promoStack \in Seq(1 .. MaxFrames) /\ Len(th.promoStack) \in Nat
      /\ th.promoBot \in Nat /\ th.stack \in Seq(Seq(Slots))
      /\ Len(th.stack) \in 1 .. MaxFrames /\ MaxFrames \in Nat /\ Len(th.stack) \in Nat
  BY <1>1, TypedFacts
<1>8. m.stack \in Seq(Seq(Slots)) /\ Len(m.stack) = Len(th.stack)
      /\ \A i \in 1 .. l : i # l => m.stack[i] = th.stack[i]
  BY <1>2, <1>6 DEF LeaveEffect, Stacks
<1>9. m \in ThreadStates
  BY <1>1, <1>4, <1>5, <1>8 DEF ThreadStates
<1>10. \A j \in DOMAIN m.stack : Len(m.stack[j]) <= MaxNest
  <2>1. DOMAIN m.stack = 1 .. l /\ DOMAIN th.stack = 1 .. l
    BY <1>2, <1>7, <1>8, LenProperties
  <2>2. ASSUME NEW j \in 1 .. l PROVE Len(m.stack[j]) <= MaxNest
    <3>1. CASE j # l
      BY <3>1, <2>1, <1>1, <1>8 DEF Typed
    <3>2. CASE j = l
      <4>1. m.stack[j] = Last(m.stack) /\ th.stack[j] = Last(th.stack)
        BY <3>2, <1>2, <1>8 DEF Last
      <4>2. Len(Last(m.stack)) = Len(Last(th.stack)) - 1 /\ Last(th.stack) \in Seq(Slots)
        BY <1>6 DEF LeaveEffect
      <4>3. Len(th.stack[j]) <= MaxNest
        BY <2>1, <1>1 DEF Typed
      <4>4. Len(Last(th.stack)) \in Nat /\ MaxNest \in Nat
        BY <4>2, LenProperties, BoundsAssumption
      <4> QED
        BY <4>1, <4>2, <4>3, <4>4
    <3> QED
      BY <3>1, <3>2
  <2> QED
    BY <2>1, <2>2
<1>11. Typed(m)
  <2>1. Entries(m) = th.promoStack \/ Entries(m) = Append(th.promoStack, Len(m.stack))
    BY <1>5 DEF Entries
  <2>2. Len(m.stack) \in 1 .. MaxFrames
    BY <1>7, <1>8
  <2>3. Len(Entries(m)) \in Nat /\ Len(th.promoStack) <= Len(Entries(m))
    BY <2>1, <2>2, <1>7, AppendProperties
  <2>4. m.promoBot <= Len(Entries(m))
    BY <2>3, <1>1, <1>5, <1>7
  <2> QED
    BY <2>2, <2>4, <1>9, <1>10 DEF Typed
<1>12. PromoInv(th) => PromoInv(m)
  BY <1>1, <1>5, <1>6, <1>7, LeavePromo DEF PromoInv
<1>13. PICK p : Lost(th, m, p) /\ SlotAt(th, p) = Last(Last(th.stack))
  BY <1>6 DEF LeaveEffect
<1> QED
  BY <1>1, <1>5, <1>9, <1>11, <1>12, <1>13 DEF LeftEffect

\* What the thread is after it, whether it joins or not.
LEMMA LeaveStep ==
  ASSUME NEW th, Local(th), th.pc = "run", NEW m, NEW p, LeftEffect(th, m, p),
         NEW n \in ThreadStates, n.stack = m.stack, n.promoStack = m.promoStack,
         n.promoBot = m.promoBot, n.pc \in {"run", "giveBack"},
         p \in AreForks(th) \/ (n.pc = "run" /\ n.depth = th.depth /\ n.tokens = th.tokens)
  PROVE  Kept(th, n) /\ Lost(th, n, p)
<1>1. Typed(th) /\ ForksFirst(th) /\ SpentInv(th) /\ th.stack \in Seq(Seq(Slots))
  BY TypedFacts DEF Local
<1>2. /\ Typed(n) /\ SamePlaces(m, n)
      /\ ToPromote(n) = ToPromote(m) /\ (ForksFirst(m) => ForksFirst(n))
      /\ OnlyYoungest(m) => OnlyYoungest(n)
      /\ PromoInv(m) => PromoInv(n)
  BY SameStacks DEF LeftEffect
<1>3. Lost(th, n, p)
  BY <1>2 DEF LeftEffect, Lost, SamePlaces
<1>4. /\ ToPromote(n) = ToPromote(th) \ {p} /\ ForksFirst(n)
      /\ p \in AreForks(th) => NoneLeft(n)
  BY <1>1, <1>3, LostFacts
<1>5. NoneLeft(n) => OnlyYoungest(n)
  BY DEF NoneLeft, OnlyYoungest
<1>6. CASE p \in AreForks(th)
  <2>1. SpentInv(n)
    BY <1>4, <1>5, <1>6 DEF SpentInv
  <2> QED
    BY <2>1, <1>2, <1>3, <1>4 DEF Kept, Local, Idle, LeftEffect
<1>7. CASE n.pc = "run" /\ n.depth = th.depth /\ n.tokens = th.tokens
  <2>1. SpentInv(n)
    BY <1>1, <1>4, <1>5, <1>7 DEF SpentInv, EnoughToSpawn, NoneLeft
  <2> QED
    BY <2>1, <1>2, <1>3, <1>4, <1>7 DEF Kept, Local, Idle, LeftEffect
<1> QED
  BY <1>6, <1>7

\* A spork that was not promoted ends.
LEMMA SpoinSeqStep ==
  ASSUME NEW th, Local(th), th.pc = "run", Last(th.stack) # <<>>, Promotable(Last(Last(th.stack))),
         NEW n, LeftRecord(th, n)
  PROVE  /\ Kept(th, n) /\ \E p \in ToPromote(th) : Lost(th, n, p)
         /\ n.pc = "run" /\ n.depth = th.depth /\ SameTokens(th, n)
<1>1. PICK p : LeftEffect(th, n, p)
  BY LeftFacts
<1>2. Kept(th, n) /\ Lost(th, n, p)
  BY <1>1, LeaveStep DEF LeftEffect, SameTokens
<1>3. p \in ToPromote(th)
  BY <1>1, <1>2 DEF LeftEffect, ToPromote, Lost
<1> QED
  BY <1>1, <1>2, <1>3 DEF LeftEffect

JoinEffect(th, n, r) ==
  /\ Kept(th, n) /\ n.depth = th.depth - 1 /\ n.given = th.given
  /\ n.tokens \in Nat /\ n.owed \in Nat
  /\ \E p \in AreForks(th) : Lost(th, n, p) /\ SlotAt(th, p).right = r

UnstolenRecord(m, n, owed) ==
  n = [m EXCEPT !.pc = "giveBack", !.depth = @ - 1, !.owed = owed]
JoinedRecord(m, n, tokens) == n = [m EXCEPT !.depth = @ - 1, !.tokens = @ + tokens]

\* A spork with a right side is a fork.
LEMMA ForkLeft ==
  ASSUME NEW th, NEW m, NEW p, LeftEffect(th, m, p), NEW r \in Threads,
         Last(Last(th.stack)).right = r
  PROVE  p \in AreForks(th) /\ SlotAt(th, p).right = r
<1>1. SlotAt(th, p).right = r /\ p \in Places(th)
  BY DEF LeftEffect, Lost
<1>2. ~Promotable(SlotAt(th, p))
  BY <1>1, ThreadsAssumption DEF Promotable
<1> QED
  BY <1>1, <1>2 DEF AreForks, ToPromote

\* A join whose right side was not stolen.
LEMMA JoinUnstolenStep ==
  ASSUME NEW th, Local(th), th.pc = "run", Last(th.stack) # <<>>, NEW r \in Threads,
         Last(Last(th.stack)).right = r, th.depth >= 2, NEW m, LeftRecord(th, m),
         NEW owed \in Nat, NEW n, UnstolenRecord(m, n, owed)
  PROVE  JoinEffect(th, n, r) /\ n.pc = "giveBack" /\ n.tokens = th.tokens /\ n.owed = owed
<1>1. PICK p : LeftEffect(th, m, p)
  BY LeftFacts
<1>2. p \in AreForks(th) /\ SlotAt(th, p).right = r
  BY <1>1, ForkLeft
<1>3. m \in ThreadStates /\ m.depth = th.depth /\ SameTokens(th, m)
  BY <1>1 DEF LeftEffect
<1>4. /\ n.pc = "giveBack" /\ n.depth = m.depth - 1 /\ n.owed = owed /\ n.stack = m.stack
      /\ n.tokens = m.tokens /\ n.given = m.given
      /\ n.promoStack = m.promoStack /\ n.promoBot = m.promoBot
  BY <1>3 DEF ThreadStates, UnstolenRecord
<1>5. m.depth - 1 \in 1 .. MaxDepth
  BY <1>3, Fields
<1>6. n \in ThreadStates
  BY <1>3, <1>5 DEF ThreadStates, Control, Interruptible, UnstolenRecord
<1>7. Kept(th, n) /\ Lost(th, n, p)
  BY <1>1, <1>2, <1>4, <1>6, LeaveStep
<1>8. n.tokens \in Nat
  BY <1>6, Fields
<1> QED
  BY <1>2, <1>3, <1>4, <1>7, <1>8 DEF JoinEffect, SameTokens

\* A join with a right side that is done.
LEMMA JoinStep ==
  ASSUME NEW th, Local(th), th.pc = "run", Last(th.stack) # <<>>, NEW r \in Threads,
         Last(Last(th.stack)).right = r, th.depth >= 2, NEW m, LeftRecord(th, m),
         NEW tokens \in Nat, NEW n, JoinedRecord(m, n, tokens)
  PROVE  JoinEffect(th, n, r) /\ n.pc = "run" /\ n.tokens = th.tokens + tokens
         /\ n.owed = th.owed
<1>1. PICK p : LeftEffect(th, m, p)
  BY LeftFacts
<1>2. p \in AreForks(th) /\ SlotAt(th, p).right = r
  BY <1>1, ForkLeft
<1>3. m \in ThreadStates /\ m.depth = th.depth /\ SameTokens(th, m) /\ m.pc = "run"
  BY <1>1 DEF LeftEffect
<1>4. /\ n.pc = m.pc /\ n.depth = m.depth - 1 /\ n.owed = m.owed /\ n.stack = m.stack
      /\ n.tokens = m.tokens + tokens /\ n.given = m.given
      /\ n.promoStack = m.promoStack /\ n.promoBot = m.promoBot
  BY <1>3 DEF ThreadStates, JoinedRecord
<1>5. m.depth - 1 \in 1 .. MaxDepth /\ m.tokens + tokens \in Nat /\ m.owed \in Nat
  BY <1>3, Fields
<1>6. n \in ThreadStates
  BY <1>3, <1>5 DEF ThreadStates, JoinedRecord
<1>7. Kept(th, n) /\ Lost(th, n, p)
  BY <1>1, <1>2, <1>3, <1>4, <1>6, LeaveStep
<1> QED
  BY <1>2, <1>3, <1>4, <1>5, <1>7 DEF JoinEffect, SameTokens

\* Adding spare tokens makes none up.
LEMMA SpareFacts ==
  ASSUME NEW a \in Nat, NEW b \in Nat
  PROVE  AddSpare(a, b) \in Nat /\ AddSpare(a, b) <= a + b
BY TokensAssumption DEF AddSpare, Least

\* The left side takes back what the right side was given.
LEMMA GiveBackStep ==
  ASSUME NEW th, Local(th), th.pc = "giveBack", NEW n,
         n = [th EXCEPT !.pc = "run", !.tokens = AddSpare(@, th.owed), !.owed = 0]
  PROVE  /\ Kept(th, n) /\ SamePlaces(th, n) /\ n.pc = "run" /\ n.depth = th.depth
         /\ n.given = th.given /\ n.owed = 0 /\ n.tokens <= th.tokens + th.owed
<1>1. Typed(th) /\ th \in ThreadStates /\ ForksFirst(th) /\ SpentInv(th)
      /\ th.promoBot <= Len(th.promoStack)
  BY DEF Local, Typed
<1>2. PICK tokens : tokens = AddSpare(th.tokens, th.owed)
  OBVIOUS
<1>3. tokens \in Nat /\ tokens <= th.tokens + th.owed
  BY <1>1, <1>2, SpareFacts, Fields
<1>4. n = [th EXCEPT !.pc = "run", !.tokens = tokens, !.owed = 0]
  BY <1>2
<1>5. /\ n.pc = "run" /\ n.depth = th.depth /\ n.stack = th.stack
      /\ n.tokens = tokens /\ n.given = th.given /\ n.owed = 0
      /\ n.promoStack = th.promoStack /\ n.promoBot = th.promoBot
  BY <1>1, <1>4 DEF ThreadStates
<1>6. n \in ThreadStates
  <2>1. "run" \in Control /\ 0 \in Nat /\ tokens \in Nat
    BY <1>3 DEF Control, Interruptible
  <2>2. PICK x : x = [th EXCEPT !.pc = "run"]
    OBVIOUS
  <2>3. x \in ThreadStates
    BY <2>1, <2>2, <1>1 DEF ThreadStates
  <2>4. PICK y : y = [x EXCEPT !.tokens = tokens]
    OBVIOUS
  <2>5. y \in ThreadStates
    BY <2>1, <2>3, <2>4 DEF ThreadStates
  <2>6. n = [y EXCEPT !.owed = 0]
    BY <2>2, <2>4, <1>1, <1>4 DEF ThreadStates
  <2> QED
    BY <2>1, <2>5, <2>6 DEF ThreadStates
<1>7. /\ Typed(n) /\ SamePlaces(th, n)
      /\ ToPromote(n) = ToPromote(th) /\ ForksFirst(n)
      /\ PromoInv(th) => PromoInv(n)
  BY <1>1, <1>5, <1>6, SameStacks
<1>8. NoneLeft(n) /\ OnlyYoungest(n)
  BY <1>1, <1>7 DEF SpentInv, NoneLeft, OnlyYoungest
<1>9. SpentInv(n) /\ Idle(n)
  BY <1>5, <1>8 DEF SpentInv, Idle
<1> QED
  BY <1>1, <1>3, <1>5, <1>7, <1>9 DEF Kept, Local

\* A thread with one empty frame is in no spork.
LEMMA FlatFacts ==
  ASSUME NEW n, n.stack = <<(<<>>)>>
  PROVE  Places(n) = {} /\ ToPromote(n) = {} /\ AreForks(n) = {} /\ NoneLeft(n)
         /\ OnlyYoungest(n) /\ ForksFirst(n)
<1>1. DOMAIN n.stack = {1} /\ n.stack[1] = <<>> /\ DOMAIN n.stack[1] = {}
  OBVIOUS
<1>2. Places(n) = {}
  BY <1>1 DEF Places
<1> QED
  BY <1>2 DEF ToPromote, AreForks, NoneLeft, OnlyYoungest, ForksFirst

\* A thread that is in no spork and leaves its stacks as they are.
LEMMA FlatStep ==
  ASSUME NEW th, Local(th), th.stack = <<(<<>>)>>, th.pc # "handler", NEW n \in ThreadStates,
         n.stack = th.stack, n.promoStack = th.promoStack, n.promoBot = th.promoBot,
         n.pc \in {"run", "done"}
  PROVE  Kept(th, n) /\ SamePlaces(th, n)
<1>1. Typed(th) /\ th.promoBot <= Len(th.promoStack)
  BY DEF Local
<1>2. Typed(n) /\ SamePlaces(th, n) /\ (PromoInv(th) => PromoInv(n))
  BY <1>1, SameStacks
<1>3. NoneLeft(n) /\ OnlyYoungest(n) /\ ForksFirst(n)
  BY FlatFacts
<1>4. SpentInv(n) /\ Idle(n)
  BY <1>3 DEF SpentInv, Idle
<1> QED
  BY <1>1, <1>2, <1>3, <1>4 DEF Kept, Local

\* A thief sets off with the tokens of the task.
LEMMA StealStep ==
  ASSUME NEW th, Local(th), th.pc = "offered", NEW n,
         n = [th EXCEPT !.pc = "run", !.tokens = AddSpare(@, th.given), !.given = 0]
  PROVE  /\ Kept(th, n) /\ SamePlaces(th, n) /\ n.pc = "run" /\ n.depth = th.depth
         /\ n.given = 0 /\ n.owed = th.owed /\ n.tokens <= th.tokens + th.given
<1>1. th \in ThreadStates /\ th.stack = <<(<<>>)>>
  BY DEF Local, Typed, Idle
<1>2. PICK tokens : tokens = AddSpare(th.tokens, th.given)
  OBVIOUS
<1>3. tokens \in Nat /\ tokens <= th.tokens + th.given
  BY <1>1, <1>2, SpareFacts, Fields
<1>4. n = [th EXCEPT !.pc = "run", !.tokens = tokens, !.given = 0]
  BY <1>2
<1>5. /\ n.pc = "run" /\ n.depth = th.depth /\ n.stack = th.stack
      /\ n.tokens = tokens /\ n.given = 0 /\ n.owed = th.owed
      /\ n.promoStack = th.promoStack /\ n.promoBot = th.promoBot
  BY <1>1, <1>4 DEF ThreadStates
<1>6. n \in ThreadStates
  <2>1. "run" \in Control /\ 0 \in Nat /\ tokens \in Nat
    BY <1>3 DEF Control, Interruptible
  <2>2. PICK x : x = [th EXCEPT !.pc = "run"]
    OBVIOUS
  <2>3. x \in ThreadStates
    BY <2>1, <2>2, <1>1 DEF ThreadStates
  <2>4. PICK y : y = [x EXCEPT !.tokens = tokens]
    OBVIOUS
  <2>5. y \in ThreadStates
    BY <2>1, <2>3, <2>4 DEF ThreadStates
  <2>6. n = [y EXCEPT !.given = 0]
    BY <2>2, <2>4, <1>1, <1>4 DEF ThreadStates
  <2> QED
    BY <2>1, <2>5, <2>6 DEF ThreadStates
<1>7. Kept(th, n) /\ SamePlaces(th, n)
  BY <1>1, <1>5, <1>6, FlatStep
<1> QED
  BY <1>3, <1>5, <1>7

\* The right side is done.
LEMMA FinishStep ==
  ASSUME NEW th, Local(th), th.pc = "run", th.stack = <<(<<>>)>>, NEW n,
         n = [th EXCEPT !.pc = "done"]
  PROVE  Kept(th, n) /\ SamePlaces(th, n) /\ n.pc = "done" /\ n.depth = th.depth
         /\ SameTokens(th, n)
<1>1. th \in ThreadStates
  BY DEF Local, Typed
<1>2. /\ n.pc = "done" /\ n.depth = th.depth /\ n.stack = th.stack
      /\ SameTokens(th, n)
      /\ n.promoStack = th.promoStack /\ n.promoBot = th.promoBot
  BY <1>1 DEF ThreadStates, SameTokens
<1>3. n \in ThreadStates
  BY <1>1 DEF ThreadStates, Control
<1> QED
  BY <1>2, <1>3, FlatStep

\* A new thread.
LEMMA NewFacts ==
  ASSUME NEW pc \in {"none", "offered", "run"}, NEW depth \in 1 .. MaxDepth, NEW given \in Nat,
         NEW n, n = NewThread(pc, depth, given)
  PROVE  /\ Local(n) /\ PromoInv(n) /\ Places(n) = {} /\ n.stack = <<(<<>>)>>
         /\ n.pc = pc /\ n.depth = depth /\ n.given = given /\ n.tokens = 0 /\ n.owed = 0
<1>0. PICK beat : beat = [back |-> "run", hadEnough |-> FALSE, numSpawned |-> 0]
  OBVIOUS
<1>b. beat \in [back : Interruptible, hadEnough : BOOLEAN, numSpawned : Nat]
  BY <1>0 DEF Interruptible
<1>1. PICK stack : stack = <<(<<>>)>>
  OBVIOUS
<1>2. stack \in Seq(Seq(Slots)) /\ Len(stack) = 1 /\ stack[1] = <<>> /\ DOMAIN stack = {1}
  BY <1>1
<1>3. PICK promoStack : promoStack = <<>>
  OBVIOUS
<1>4. promoStack \in Seq(1 .. MaxFrames) /\ Len(promoStack) = 0
  BY <1>3
<1>5. n = [pc |-> pc, depth |-> depth, tokens |-> 0, stack |-> stack,
           promoStack |-> promoStack, promoBot |-> 0, given |-> given, owed |-> 0,
           beat |-> beat]
  BY <1>0, <1>1, <1>3 DEF NewThread
<1>6. n \in ThreadStates
  BY <1>5, <1>b, <1>2, <1>4 DEF ThreadStates, Control, Interruptible
<1>7. /\ n.stack = stack /\ n.promoStack = promoStack /\ n.promoBot = 0 /\ n.pc = pc
      /\ n.depth = depth /\ n.given = given /\ n.tokens = 0 /\ n.owed = 0
  BY <1>5
<1>8. Entries(n) = promoStack
  BY <1>2, <1>7 DEF Entries, Last
<1>9. Typed(n)
  <2>1. 1 \in 1 .. MaxFrames /\ MaxNest \in Nat
    BY BoundsAssumption
  <2>2. \A i \in DOMAIN n.stack : Len(n.stack[i]) <= MaxNest
    <3>1. \A i \in DOMAIN n.stack : n.stack[i] = <<>>
      BY <1>2, <1>7
    <3>2. Len(<<>>) = 0
      OBVIOUS
    <3> QED
      BY <3>1, <3>2, <2>1
  <2>3. n.promoBot <= Len(Entries(n))
    BY <1>4, <1>7, <1>8
  <2> QED
    BY <2>1, <2>2, <2>3, <1>2, <1>6, <1>7 DEF Typed
<1>10. Places(n) = {} /\ NoneLeft(n) /\ OnlyYoungest(n) /\ ForksFirst(n)
  BY <1>1, <1>7, FlatFacts
<1>11. PromoInv(n)
  <2>1. /\ \A i \in 1 .. Len(promoStack) : FALSE
        /\ \A f \in 1 .. Len(stack) : stack[f] = <<>>
    BY <1>2, <1>4
  <2>2. PromoAt(promoStack, stack, 0)
    BY <2>1 DEF PromoAt, Sorted
  <2> QED
    BY <2>2, <1>7, <1>8 DEF PromoInv
<1>12. SpentInv(n) /\ Idle(n)
  BY <1>1, <1>7, <1>10 DEF SpentInv, Idle
<1> QED
  BY <1>1, <1>4, <1>7, <1>9, <1>10, <1>11, <1>12 DEF Local

-----------------------------------------------------------------------------
(* Forks and their right sides *)

Put(f, t, n, g) == g = [f EXCEPT ![t] = n]
PutBoth(f, t, n, r, m, g) == g = [f EXCEPT ![t] = n, ![r] = m]

RightOf(th, p) == SlotAt(th, p).right

RightsOK(f) ==
  \A t \in Threads : \A p \in AreForks(f[t]) :
    /\ f[RightOf(f[t], p)].pc # "none"
    /\ \A u \in Threads : \A q \in AreForks(f[u]) :
         RightOf(f[t], p) = RightOf(f[u], q) => t = u /\ p = q
DepthOK(f, t) ==
  /\ ForkDepth(f[t]) \in Nat /\ ForkDepth(f[t]) >= 1
  /\ \A p \in AreForks(f[t]) :
       ForkDepth(f[RightOf(f[t], p)]) =
         ForkDepth(f[t]) + Cardinality(OlderThan(f[t], p)) + 1
Global(f) ==
  /\ f \in [Threads -> ThreadStates] /\ \A t \in Threads : Local(f[t])
  /\ RightsOK(f) /\ \A t \in Threads : DepthOK(f, t)
Unfinished(f) ==
  {x \in Threads \X ((1 .. MaxFrames) \X (1 .. MaxNest)) : x[2] \in ToPromote(f[x[1]])}

\* A stack has finitely many sporks.
LEMMA FinitePlaces ==
  ASSUME NEW th, Typed(th)
  PROVE  /\ Places(th) \subseteq (1 .. MaxFrames) \X (1 .. MaxNest)
         /\ IsFiniteSet(Places(th)) /\ IsFiniteSet(AreForks(th))
         /\ Cardinality(AreForks(th)) \in Nat
<1>1. MaxFrames \in Nat /\ MaxNest \in Nat
  BY BoundsAssumption
<1>2. ASSUME NEW p \in Places(th) PROVE p \in (1 .. MaxFrames) \X (1 .. MaxNest)
  <2>1. p = <<p[1], p[2]>> /\ p[1] \in 1 .. Len(th.stack) /\ p[2] \in 1 .. Len(th.stack[p[1]])
    BY TypedFacts, InPlaces
  <2>2. /\ Len(th.stack) \in 1 .. MaxFrames /\ th.stack \in Seq(Seq(Slots))
        /\ th.stack[p[1]] \in Seq(Slots)
    BY <2>1, TypedFacts
  <2>3. p[1] \in DOMAIN th.stack /\ Len(th.stack[p[1]]) \in Nat
    BY <2>1, <2>2, LenProperties
  <2>4. Len(th.stack[p[1]]) <= MaxNest
    BY <2>3 DEF Typed
  <2>5. p[1] \in 1 .. MaxFrames /\ p[2] \in 1 .. MaxNest
    BY <2>1, <2>2, <2>3, <2>4, <1>1
  <2> QED
    BY <2>1, <2>5
<1>3. IsFiniteSet((1 .. MaxFrames) \X (1 .. MaxNest))
  <2>1. IsFiniteSet(1 .. MaxFrames) /\ IsFiniteSet(1 .. MaxNest)
    BY <1>1, FS_Interval
  <2> QED
    BY <2>1, FS_Product
<1>4. IsFiniteSet(Places(th))
  BY <1>2, <1>3, FS_Subset
<1>5. IsFiniteSet(AreForks(th))
  BY <1>4, FS_Subset DEF AreForks
<1> QED
  BY <1>2, <1>4, <1>5, FS_CardinalityType

\* The right side of a fork is a thread.
LEMMA ForkRight ==
  ASSUME NEW th, Typed(th), NEW p \in AreForks(th)
  PROVE  RightOf(th, p) \in Threads /\ RightOf(th, p) # None /\ p \in Places(th)
<1>1. p \in Places(th) /\ ~Promotable(SlotAt(th, p))
  BY DEF AreForks, ToPromote
<1>2. SlotAt(th, p) \in Slots
  BY <1>1, TypedFacts, InPlaces
<1> QED
  BY <1>1, <1>2 DEF Slots, Promotable, RightOf

\* What does not move the forks of a thread.
Stays(th, n) ==
  /\ AreForks(n) = AreForks(th) /\ n.depth = th.depth
  /\ \A p \in AreForks(th) : SlotAt(n, p) = SlotAt(th, p) /\ OlderThan(n, p) = OlderThan(th, p)
  /\ n.pc = "none" => th.pc = "none"

\* Steps that make and join no fork.
LEMMA StaysFacts ==
  ASSUME NEW th, Typed(th), NEW n, Typed(n), n.depth = th.depth, n.pc # "none",
         \/ SamePlaces(th, n)
         \/ \E p : Gained(th, n, p)
         \/ \E p \in ToPromote(th) : Lost(th, n, p)
  PROVE  Stays(th, n)
<1>0. th.stack \in Seq(Seq(Slots)) /\ n.stack \in Seq(Seq(Slots))
  BY TypedFacts
<1>p. AreForks(th) \subseteq Places(th)
  BY DEF AreForks
<1>1. CASE SamePlaces(th, n)
  BY <1>1, <1>p, SameFacts DEF Stays, SamePlaces
<1>2. CASE \E p : Gained(th, n, p)
  <2>1. PICK p : Gained(th, n, p)
    BY <1>2
  <2>2. AreForks(n) = AreForks(th) /\ \A q \in Places(th) : OlderThan(n, q) = OlderThan(th, q)
    BY <2>1, <1>0, GainedFacts
  <2> QED
    BY <2>1, <2>2, <1>p DEF Stays, Gained
<1>3. CASE \E p \in ToPromote(th) : Lost(th, n, p)
  <2>1. PICK p \in ToPromote(th) : Lost(th, n, p)
    BY <1>3
  <2>2. /\ AreForks(n) = AreForks(th) \ {p}
        /\ \A q \in Places(n) : OlderThan(n, q) = OlderThan(th, q)
    BY <2>1, <1>0, LostFacts
  <2>3. p \notin AreForks(th) /\ AreForks(n) = AreForks(th)
    BY <2>1, <2>2 DEF AreForks
  <2>4. \A q \in AreForks(th) : q \in Places(n) /\ SlotAt(n, q) = SlotAt(th, q)
    BY <2>1, <2>3, <1>p DEF Lost
  <2> QED
    BY <2>2, <2>3, <2>4 DEF Stays
<1> QED
  BY <1>1, <1>2, <1>3

\* A thread is deeper than its forks are many.
LEMMA GlobalFork ==
  ASSUME NEW f, Global(f), NEW t \in Threads
  PROVE  /\ Typed(f[t]) /\ f[t] \in ThreadStates /\ f[t].depth \in Nat
         /\ Cardinality(AreForks(f[t])) \in Nat /\ IsFiniteSet(AreForks(f[t]))
         /\ ForkDepth(f[t]) = f[t].depth - Cardinality(AreForks(f[t]))
         /\ ForkDepth(f[t]) \in Nat /\ ForkDepth(f[t]) >= 1
         /\ \A p \in AreForks(f[t]) : RightOf(f[t], p) \in Threads
  BY FinitePlaces, ForkRight, Fields DEF Global, Local, Typed, ForkDepth, DepthOK

\* No thread is the right side of two forks.
LEMMA RightsApart ==
  ASSUME NEW f, RightsOK(f), NEW t \in Threads, NEW p \in AreForks(f[t]),
         NEW u \in Threads, NEW q \in AreForks(f[u]), RightOf(f[t], p) = RightOf(f[u], q)
  PROVE  t = u /\ p = q
BY DEF RightsOK

\* The depth of a thread without forks.
LEMMA DepthOfFlat ==
  ASSUME NEW f, NEW t, AreForks(f[t]) = {}, ForkDepth(f[t]) \in Nat, ForkDepth(f[t]) >= 1
  PROVE  DepthOK(f, t)
BY DEF DepthOK

\* A step of one thread that leaves its forks keeps the depths.
LEMMA GlobalStays ==
  ASSUME NEW f, Global(f), NEW t \in Threads, NEW n, Local(n), Stays(f[t], n),
         NEW g, Put(f, t, n, g)
  PROVE  Global(g)
<1>1. n \in ThreadStates
  BY DEF Local, Typed
<1>2. g \in [Threads -> ThreadStates] /\ g[t] = n /\ \A u \in Threads : u # t => g[u] = f[u]
  BY <1>1 DEF Global, Put
<1>3. \A u \in Threads : Local(g[u])
  BY <1>2 DEF Global
<1>4. ASSUME NEW u \in Threads
      PROVE  /\ AreForks(g[u]) = AreForks(f[u]) /\ ForkDepth(g[u]) = ForkDepth(f[u])
             /\ \A p \in AreForks(f[u]) : /\ RightOf(g[u], p) = RightOf(f[u], p)
                                          /\ OlderThan(g[u], p) = OlderThan(f[u], p)
             /\ g[u].pc = "none" => f[u].pc = "none"
  <2>1. CASE u = t
    BY <2>1, <1>2 DEF Stays, ForkDepth, RightOf
  <2>2. CASE u # t
    BY <2>2, <1>2
  <2> QED
    BY <2>1, <2>2
<1>5. \A u \in Threads : \A p \in AreForks(f[u]) : RightOf(f[u], p) \in Threads
  BY GlobalFork
<1>6. RightsOK(g)
  <2>1. SUFFICES ASSUME NEW u \in Threads, NEW p \in AreForks(g[u])
                 PROVE  /\ g[RightOf(g[u], p)].pc # "none"
                        /\ \A v \in Threads : \A q \in AreForks(g[v]) :
                             RightOf(g[u], p) = RightOf(g[v], q) => u = v /\ p = q
    BY DEF RightsOK
  <2>2. p \in AreForks(f[u]) /\ RightOf(g[u], p) = RightOf(f[u], p)
    BY <1>4
  <2>3. f[RightOf(f[u], p)].pc # "none" /\ RightOf(f[u], p) \in Threads
    BY <2>2, <1>5 DEF Global, RightsOK
  <2>4. ASSUME NEW v \in Threads, NEW q \in AreForks(g[v]), RightOf(g[u], p) = RightOf(g[v], q)
        PROVE  u = v /\ p = q
    <3>1. q \in AreForks(f[v]) /\ RightOf(g[v], q) = RightOf(f[v], q)
      BY <1>4
    <3> QED
      <4>1. RightOf(f[u], p) = RightOf(f[v], q) /\ RightsOK(f)
        BY <3>1, <2>2, <2>4 DEF Global
      <4> QED
        BY <4>1, <3>1, <2>2, RightsApart
  <2> QED
    BY <2>2, <2>3, <2>4, <1>4
<1>7. ASSUME NEW u \in Threads PROVE DepthOK(g, u)
  <2>1. DepthOK(f, u)
    BY DEF Global
  <2>2. ASSUME NEW p \in AreForks(g[u])
        PROVE  ForkDepth(g[RightOf(g[u], p)]) = ForkDepth(g[u]) + Cardinality(OlderThan(g[u], p)) + 1
    <3>1. p \in AreForks(f[u]) /\ RightOf(g[u], p) = RightOf(f[u], p)
          /\ OlderThan(g[u], p) = OlderThan(f[u], p)
      BY <1>4
    <3>2. RightOf(f[u], p) \in Threads
      BY <3>1, <1>5
    <3>3. ForkDepth(g[RightOf(f[u], p)]) = ForkDepth(f[RightOf(f[u], p)])
          /\ ForkDepth(g[u]) = ForkDepth(f[u])
      BY <3>2, <1>4
    <3> QED
      BY <3>1, <3>3, <2>1 DEF DepthOK
  <2> QED
    BY <2>1, <2>2, <1>4 DEF DepthOK
<1> QED
  BY <1>2, <1>3, <1>6, <1>7 DEF Global

\* A promotion: the fresh thread r is the right side of the promoted spork.
LEMMA GlobalSpawn ==
  ASSUME NEW f, Global(f), NEW t \in Threads, NEW r \in Threads, f[r].pc = "none",
         f[t].pc # "none", NEW n, Local(n), n.depth = f[t].depth + 1, n.pc # "none",
         NEW p, Marked(f[t], n, p, r), NEW given \in Nat, NEW m,
         m = NewThread("offered", f[t].depth + 1, given),
         NEW g, PutBoth(f, t, n, r, m, g)
  PROVE  Global(g)
<1>1. n \in ThreadStates /\ t # r
  BY DEF Local, Typed
<1>2. Typed(f[t]) /\ ForksFirst(f[t]) /\ f[t].stack \in Seq(Seq(Slots))
  BY TypedFacts DEF Global, Local
<1>3. n.depth \in 1 .. MaxDepth
  BY <1>1, Fields
<1>4. Local(m) /\ Places(m) = {} /\ m.pc = "offered" /\ m.depth = f[t].depth + 1
  BY <1>3, NewFacts
<1>5. m \in ThreadStates /\ AreForks(m) = {}
  BY <1>4 DEF Local, Typed, AreForks
<1>6. /\ g \in [Threads -> ThreadStates] /\ g[t] = n /\ g[r] = m
      /\ \A u \in Threads : u # t /\ u # r => g[u] = f[u]
  BY <1>1, <1>5 DEF Global, PutBoth
<1>7. \A u \in Threads : Local(g[u])
  BY <1>4, <1>6 DEF Global
<1>8. /\ AreForks(n) = AreForks(f[t]) \cup {p} /\ p \notin AreForks(f[t])
      /\ \A q : OlderThan(n, q) = OlderThan(f[t], q)
      /\ OlderThan(n, p) = AreForks(f[t]) /\ p \in Places(f[t])
  BY <1>2, MarkedFacts DEF ToPromote
<1>9. RightOf(n, p) = r /\ \A q \in AreForks(f[t]) : RightOf(n, q) = RightOf(f[t], q)
  BY <1>8 DEF Marked, RightOf, AreForks
<1>10. AreForks(f[r]) = {}
  <2>1. f[r].stack = <<(<<>>)>>
    BY DEF Global, Local, Idle
  <2> QED
    BY <2>1, FlatFacts
<1>11. ForkDepth(n) = ForkDepth(f[t]) /\ ForkDepth(m) = f[t].depth + 1
  <2>1. Cardinality(AreForks(n)) = Cardinality(AreForks(f[t])) + 1
    BY ZenonT(30), <1>8, GlobalFork, FS_AddElement
  <2>2. Cardinality(AreForks(m)) = 0
    BY <1>5, FS_EmptySet
  <2> QED
    BY <2>1, <2>2, <1>4, GlobalFork DEF ForkDepth
<1>12. ASSUME NEW u \in Threads, u # r
       PROVE  /\ ForkDepth(g[u]) = ForkDepth(f[u])
              /\ \A q \in AreForks(g[u]) : q \in AreForks(f[u]) \/ (u = t /\ q = p)
              /\ \A q \in AreForks(f[u]) : /\ RightOf(g[u], q) = RightOf(f[u], q)
                                           /\ OlderThan(g[u], q) = OlderThan(f[u], q)
              /\ g[u].pc = "none" => f[u].pc = "none"
  <2>1. CASE u = t
    BY <2>1, <1>6, <1>8, <1>9, <1>11
  <2>2. CASE u # t
    BY <2>2, <1>6, <1>12
  <2> QED
    BY <2>1, <2>2
<1>13. ASSUME NEW u \in Threads, NEW q \in AreForks(f[u])
       PROVE  RightOf(f[u], q) \in Threads /\ RightOf(f[u], q) # r
  BY GlobalFork DEF Global, RightsOK
<1>14. ASSUME NEW u \in Threads, NEW q \in AreForks(g[u])
       PROVE  /\ u # r
              /\ \/ q \in AreForks(f[u]) /\ RightOf(g[u], q) = RightOf(f[u], q)
                 \/ u = t /\ q = p /\ RightOf(g[u], q) = r
  <2>1. u # r
    BY <1>5, <1>6
  <2> QED
    BY <2>1, <1>6, <1>9, <1>12
<1>15. RightsOK(g)
  <2>1. SUFFICES ASSUME NEW u \in Threads, NEW q \in AreForks(g[u])
                 PROVE  /\ g[RightOf(g[u], q)].pc # "none"
                        /\ \A v \in Threads : \A o \in AreForks(g[v]) :
                             RightOf(g[u], q) = RightOf(g[v], o) => u = v /\ q = o
    BY DEF RightsOK
  <2>2. CASE u = t /\ q = p /\ RightOf(g[u], q) = r
    <3>1. ASSUME NEW v \in Threads, NEW o \in AreForks(g[v]), RightOf(g[u], q) = RightOf(g[v], o)
          PROVE  u = v /\ q = o
      <4>1. v = t /\ o = p
        <5>1. q = p /\ RightOf(g[v], o) = r
          BY <3>1, <2>2
        <5>2. ASSUME o \in AreForks(f[v]), RightOf(g[v], o) = RightOf(f[v], o) PROVE FALSE
          BY <5>1, <5>2, <1>13
        <5> QED
          BY <5>2, <1>14
      <4> QED
        BY <4>1, <2>2
    <3> QED
      BY <3>1, <2>2, <1>4, <1>6
  <2>3. CASE q \in AreForks(f[u]) /\ RightOf(g[u], q) = RightOf(f[u], q)
    <3>1. f[RightOf(f[u], q)].pc # "none" /\ RightOf(f[u], q) \in Threads /\ RightOf(f[u], q) # r
      BY <2>3, <1>13 DEF Global, RightsOK
    <3>2. g[RightOf(f[u], q)].pc # "none"
      BY <3>1, <1>12
    <3>3. ASSUME NEW v \in Threads, NEW o \in AreForks(g[v]), RightOf(g[u], q) = RightOf(g[v], o)
          PROVE  u = v /\ q = o
      <4>1. o \in AreForks(f[v]) /\ RightOf(g[v], o) = RightOf(f[v], o)
        BY <3>1, <3>3, <2>3, <1>14
      <4> QED
        <5>1. RightOf(f[u], q) = RightOf(f[v], o) /\ RightsOK(f)
          BY <4>1, <3>3, <2>3 DEF Global
        <5> QED
          BY <5>1, <4>1, <2>3, RightsApart
    <3> QED
      BY <3>2, <3>3, <2>3
  <2> QED
    BY <2>2, <2>3, <1>14
<1>16. ASSUME NEW u \in Threads PROVE DepthOK(g, u)
  <2>1. CASE u = r
    <3>1. ForkDepth(g[u]) = f[t].depth + 1 /\ AreForks(g[u]) = {}
      BY <2>1, <1>5, <1>6, <1>11
    <3> QED
      <4>1. f[t].depth \in Nat
        BY GlobalFork
      <4> QED
        <5>2. PICK d : d = ForkDepth(g[u])
          OBVIOUS
        <5>3. d \in Nat /\ d >= 1
          BY <3>1, <4>1, <5>2
        <5>4. ForkDepth(g[u]) \in Nat /\ ForkDepth(g[u]) >= 1
          BY <5>2, <5>3, Zenon
        <5> QED
          BY <3>1, <5>4, DepthOfFlat, Zenon
  <2>2. CASE u # r
    <3>1. DepthOK(f, u) /\ ForkDepth(g[u]) = ForkDepth(f[u])
      BY <2>2, <1>12 DEF Global
    <3>2. ASSUME NEW q \in AreForks(g[u])
          PROVE  ForkDepth(g[RightOf(g[u], q)])
                   = ForkDepth(g[u]) + Cardinality(OlderThan(g[u], q)) + 1
      <4>1. CASE q \in AreForks(f[u])
        <5>1. RightOf(g[u], q) = RightOf(f[u], q) /\ OlderThan(g[u], q) = OlderThan(f[u], q)
              /\ RightOf(f[u], q) \in Threads /\ RightOf(f[u], q) # r
          BY <4>1, <2>2, <1>12, <1>13
        <5>2. ForkDepth(g[RightOf(f[u], q)]) = ForkDepth(f[RightOf(f[u], q)])
          BY <5>1, <1>12
        <5> QED
          BY <5>1, <5>2, <4>1, <3>1 DEF DepthOK
      <4>2. CASE u = t /\ q = p
        <5>1. RightOf(g[u], q) = r /\ OlderThan(g[u], q) = AreForks(f[t])
          BY <4>2, <1>6, <1>8, <1>9
        <5>2. ForkDepth(g[r]) = f[t].depth + 1 /\ ForkDepth(g[u]) = ForkDepth(f[t])
          BY <4>2, <1>6, <1>11
        <5>3. ForkDepth(f[t]) = f[t].depth - Cardinality(AreForks(f[t])) /\ f[t].depth \in Nat
              /\ Cardinality(AreForks(f[t])) \in Nat
          BY GlobalFork
        <5> QED
          BY <5>1, <5>2, <5>3
      <4> QED
        BY <4>1, <4>2, <1>14
    <3> QED
      BY <3>1, <3>2 DEF DepthOK
  <2> QED
    BY <2>1, <2>2
<1> QED
  BY <1>6, <1>7, <1>15, <1>16 DEF Global

\* A join: the innermost spork of t is over, and its right side with it.
LEMMA GlobalJoin ==
  ASSUME NEW f, Global(f), NEW t \in Threads, NEW r \in Threads, r # t,
         NEW n, Local(n), n.depth = f[t].depth - 1, n.pc # "none",
         NEW p \in AreForks(f[t]), Lost(f[t], n, p), RightOf(f[t], p) = r,
         NEW m, m = NewThread("none", 1, 0), AreForks(f[r]) = {},
         NEW g, PutBoth(f, t, n, r, m, g)
  PROVE  Global(g)
<1>1. n \in ThreadStates
  BY DEF Local, Typed
<1>2. Typed(f[t]) /\ ForksFirst(f[t]) /\ f[t].stack \in Seq(Seq(Slots))
  BY TypedFacts DEF Global, Local
<1>4. Local(m) /\ Places(m) = {} /\ m.depth = 1
  <2>1. 1 \in 1 .. MaxDepth /\ 0 \in Nat
    BY BoundsAssumption
  <2> QED
    BY <2>1, NewFacts
<1>5. m \in ThreadStates /\ AreForks(m) = {}
  BY <1>4 DEF Local, Typed, AreForks
<1>6. /\ g \in [Threads -> ThreadStates] /\ g[t] = n /\ g[r] = m
      /\ \A u \in Threads : u # t /\ u # r => g[u] = f[u]
  BY <1>1, <1>5 DEF Global, PutBoth
<1>7. \A u \in Threads : Local(g[u])
  BY <1>4, <1>6 DEF Global
<1>8. /\ AreForks(n) = AreForks(f[t]) \ {p}
      /\ \A q \in Places(n) : OlderThan(n, q) = OlderThan(f[t], q)
  BY <1>2, LostFacts
<1>9. \A q \in AreForks(n) : RightOf(n, q) = RightOf(f[t], q) /\ OlderThan(n, q) = OlderThan(f[t], q)
  BY <1>8 DEF Lost, RightOf, AreForks
<1>11. ForkDepth(n) = ForkDepth(f[t]) /\ ForkDepth(m) = 1
  <2>1. Cardinality(AreForks(n)) = Cardinality(AreForks(f[t])) - 1
    BY <1>8, GlobalFork, FS_RemoveElement
  <2>2. Cardinality(AreForks(m)) = 0
    BY <1>5, FS_EmptySet
  <2> QED
    BY <2>1, <2>2, <1>4, GlobalFork DEF ForkDepth
<1>12. ASSUME NEW u \in Threads, u # r
       PROVE  /\ ForkDepth(g[u]) = ForkDepth(f[u])
              /\ g[u].pc = "none" => f[u].pc = "none"
  <2>1. CASE u = t
    BY <2>1, <1>6, <1>11
  <2>2. CASE u # t
    BY <2>2, <1>6, <1>12
  <2> QED
    BY <2>1, <2>2
<1>14. ASSUME NEW u \in Threads, NEW q \in AreForks(g[u])
       PROVE  /\ q \in AreForks(f[u]) /\ RightOf(g[u], q) = RightOf(f[u], q)
              /\ OlderThan(g[u], q) = OlderThan(f[u], q)
              /\ RightOf(f[u], q) \in Threads /\ RightOf(f[u], q) # r /\ u # r
  <2>1. u # r
    BY <1>5, <1>6
  <2>2. /\ q \in AreForks(f[u]) /\ RightOf(g[u], q) = RightOf(f[u], q)
        /\ OlderThan(g[u], q) = OlderThan(f[u], q) /\ (u # t \/ q # p)
    <3>1. CASE u = t
      BY <3>1, <1>6, <1>8, <1>9
    <3>2. CASE u # t
      BY <3>2, <2>1, <1>6
    <3> QED
      BY <3>1, <3>2
  <2> QED
    BY <2>1, <2>2, GlobalFork DEF Global, RightsOK
<1>15. RightsOK(g)
  <2>1. SUFFICES ASSUME NEW u \in Threads, NEW q \in AreForks(g[u])
                 PROVE  /\ g[RightOf(g[u], q)].pc # "none"
                        /\ \A v \in Threads : \A o \in AreForks(g[v]) :
                             RightOf(g[u], q) = RightOf(g[v], o) => u = v /\ q = o
    BY DEF RightsOK
  <2>2. f[RightOf(f[u], q)].pc # "none"
    BY <1>14 DEF Global, RightsOK
  <2>3. g[RightOf(g[u], q)].pc # "none"
    BY <2>2, <1>12, <1>14
  <2>4. ASSUME NEW v \in Threads, NEW o \in AreForks(g[v]), RightOf(g[u], q) = RightOf(g[v], o)
        PROVE  u = v /\ q = o
    <3>1. q \in AreForks(f[u]) /\ o \in AreForks(f[v]) /\ RightOf(f[u], q) = RightOf(f[v], o)
      BY <2>4, <1>14
    <3> QED
      <4>1. RightsOK(f)
        BY DEF Global
      <4> QED
        BY <4>1, <3>1, RightsApart
  <2> QED
    BY <2>3, <2>4
<1>16. ASSUME NEW u \in Threads PROVE DepthOK(g, u)
  <2>1. CASE u = r
    <3>1. ForkDepth(g[u]) = 1 /\ AreForks(g[u]) = {}
      BY <2>1, <1>5, <1>6, <1>11
    <3>2. PICK d : d = ForkDepth(g[u])
      OBVIOUS
    <3>3. d \in Nat /\ d >= 1
      BY <3>1, <3>2
    <3>4. ForkDepth(g[u]) \in Nat /\ ForkDepth(g[u]) >= 1
      BY <3>2, <3>3, Zenon
    <3> QED
      BY <3>1, <3>4, DepthOfFlat, Zenon
  <2>2. CASE u # r
    <3>1. DepthOK(f, u) /\ ForkDepth(g[u]) = ForkDepth(f[u])
      BY <2>2, <1>12 DEF Global
    <3>2. ASSUME NEW q \in AreForks(g[u])
          PROVE  ForkDepth(g[RightOf(g[u], q)])
                   = ForkDepth(g[u]) + Cardinality(OlderThan(g[u], q)) + 1
      <4>1. ForkDepth(g[RightOf(f[u], q)]) = ForkDepth(f[RightOf(f[u], q)])
        BY <1>12, <1>14
      <4> QED
        BY <4>1, <3>1, <1>14 DEF DepthOK
    <3> QED
      BY <3>1, <3>2 DEF DepthOK
  <2> QED
    BY <2>1, <2>2
<1> QED
  BY <1>6, <1>7, <1>15, <1>16 DEF Global

\* Finitely many sporks wait to be promoted.
LEMMA UnfinishedIsFinite ==
  ASSUME NEW f
  PROVE  IsFiniteSet(Unfinished(f)) /\ Cardinality(Unfinished(f)) \in Nat
<1>1. MaxFrames \in Nat /\ MaxNest \in Nat /\ IsFiniteSet(Threads)
  BY BoundsAssumption, ThreadsAssumption
<1>2. IsFiniteSet(1 .. MaxFrames) /\ IsFiniteSet(1 .. MaxNest)
  BY <1>1, FS_Interval
<1>3. IsFiniteSet((1 .. MaxFrames) \X (1 .. MaxNest))
  BY <1>2, FS_Product
<1>4. IsFiniteSet(Threads \X ((1 .. MaxFrames) \X (1 .. MaxNest)))
  BY <1>1, <1>3, FS_Product
<1>5. IsFiniteSet(Unfinished(f))
  BY <1>4, FS_Subset DEF Unfinished
<1> QED
  BY <1>5, FS_CardinalityType

\* Their number stays,
LEMMA UnfinishedKept ==
  ASSUME NEW f, NEW g, \A u \in Threads : ToPromote(g[u]) = ToPromote(f[u])
  PROVE  Unfinished(g) = Unfinished(f)
<1>1. \A x \in Threads \X ((1 .. MaxFrames) \X (1 .. MaxNest)) :
        ToPromote(g[x[1]]) = ToPromote(f[x[1]])
  OBVIOUS
<1> QED
  BY <1>1 DEF Unfinished

\* ... falls by one,
LEMMA UnfinishedLost ==
  ASSUME NEW f, NEW g, NEW t \in Threads, Typed(f[t]), NEW p \in ToPromote(f[t]),
         \A u \in Threads : u # t => ToPromote(g[u]) = ToPromote(f[u]),
         ToPromote(g[t]) = ToPromote(f[t]) \ {p}
  PROVE  Cardinality(Unfinished(g)) = Cardinality(Unfinished(f)) - 1
<1>1. p \in (1 .. MaxFrames) \X (1 .. MaxNest)
  BY FinitePlaces DEF ToPromote
<1>2. <<t, p>> \in Unfinished(f)
  BY <1>1 DEF Unfinished
<1>3. ASSUME NEW x \in Threads \X ((1 .. MaxFrames) \X (1 .. MaxNest))
      PROVE  x[2] \in ToPromote(g[x[1]]) <=> x[2] \in ToPromote(f[x[1]]) /\ x # <<t, p>>
  <2>1. x[1] \in Threads /\ x = <<x[1], x[2]>>
    OBVIOUS
  <2>2. CASE x[1] = t
    <3>1. x = <<t, p>> <=> x[2] = p
      BY <2>1, <2>2
    <3> QED
      BY <3>1, <2>2
  <2>3. CASE x[1] # t
    <3>1. x # <<t, p>>
      BY <2>1, <2>3
    <3> QED
      BY <3>1, <2>1, <2>3
  <2> QED
    BY <2>2, <2>3
<1>4. Unfinished(g) = Unfinished(f) \ {<<t, p>>}
  BY <1>3 DEF Unfinished
<1> QED
  BY <1>2, <1>4, UnfinishedIsFinite, FS_RemoveElement

\* ... or grows by one.
LEMMA UnfinishedGained ==
  ASSUME NEW f, NEW g, NEW t \in Threads, Typed(g[t]), NEW p, p \notin ToPromote(f[t]),
         \A u \in Threads : u # t => ToPromote(g[u]) = ToPromote(f[u]),
         ToPromote(g[t]) = ToPromote(f[t]) \cup {p}
  PROVE  Cardinality(Unfinished(g)) = Cardinality(Unfinished(f)) + 1
<1>1. p \in ToPromote(g[t]) /\ ToPromote(f[t]) = ToPromote(g[t]) \ {p}
  OBVIOUS
<1>2. Cardinality(Unfinished(f)) = Cardinality(Unfinished(g)) - 1
  <2>1. \A u \in Threads : u # t => ToPromote(f[u]) = ToPromote(g[u])
    OBVIOUS
  <2> QED
    BY <1>1, <2>1, UnfinishedLost
<1> QED
  BY <1>2, UnfinishedIsFinite

\* What one more thread step does to the sporks that wait.
LEMMA UnfinishedStep ==
  ASSUME NEW f, Global(f), NEW t \in Threads, NEW n, Local(n), NEW g, Put(f, t, n, g)
  PROVE  /\ SamePlaces(f[t], n) => Cardinality(Unfinished(g)) = Cardinality(Unfinished(f))
         /\ (\E p : Gained(f[t], n, p)) =>
              Cardinality(Unfinished(g)) = Cardinality(Unfinished(f)) + 1
         /\ (\E p \in ToPromote(f[t]) : Lost(f[t], n, p)) =>
              Cardinality(Unfinished(g)) = Cardinality(Unfinished(f)) - 1
<1>1. n \in ThreadStates /\ Typed(n) /\ Typed(f[t])
  BY DEF Local, Typed, Global
<1>2. g[t] = n /\ \A u \in Threads : u # t => ToPromote(g[u]) = ToPromote(f[u])
  BY DEF Global, Put
<1>3. f[t].stack \in Seq(Seq(Slots)) /\ n.stack \in Seq(Seq(Slots))
  BY <1>1, TypedFacts
<1>4. ASSUME SamePlaces(f[t], n)
      PROVE  Cardinality(Unfinished(g)) = Cardinality(Unfinished(f))
  <2>1. ToPromote(n) = ToPromote(f[t])
    BY <1>4, SameFacts
  <2> QED
    BY <2>1, <1>2, UnfinishedKept
<1>5. ASSUME NEW p, Gained(f[t], n, p)
      PROVE  Cardinality(Unfinished(g)) = Cardinality(Unfinished(f)) + 1
  <2>1. ToPromote(n) = ToPromote(f[t]) \cup {p} /\ p \notin ToPromote(f[t])
    BY <1>3, <1>5, GainedFacts
  <2> QED
    BY <2>1, <1>1, <1>2, UnfinishedGained
<1>6. ASSUME NEW p \in ToPromote(f[t]), Lost(f[t], n, p)
      PROVE  Cardinality(Unfinished(g)) = Cardinality(Unfinished(f)) - 1
  <2>1. ToPromote(n) = ToPromote(f[t]) \ {p}
    BY <1>3, <1>6, LostFacts
  <2> QED
    BY <2>1, <1>1, <1>2, UnfinishedLost
<1> QED
  BY <1>4, <1>5, <1>6

Flat(th) == th.stack = <<(<<>>)>>

\* A promotion leaves one less,
LEMMA UnfinishedSpawn ==
  ASSUME NEW f, Global(f), NEW t \in Threads, NEW r \in Threads, f[r].pc = "none", t # r,
         NEW n \in ThreadStates, NEW p, Marked(f[t], n, p, r), NEW m \in ThreadStates,
         Flat(m), NEW g, PutBoth(f, t, n, r, m, g)
  PROVE  Cardinality(Unfinished(g)) = Cardinality(Unfinished(f)) - 1
<1>1. g[t] = n /\ g[r] = m /\ \A u \in Threads : u # t /\ u # r => g[u] = f[u]
  BY DEF Global, PutBoth
<1>2. ToPromote(f[r]) = {} /\ ToPromote(m) = {}
  <2>1. f[r].stack = <<(<<>>)>>
    BY DEF Global, Local, Idle
  <2> QED
    BY <2>1, FlatFacts DEF Flat
<1>3. Typed(f[t]) /\ ForksFirst(f[t]) /\ f[t].stack \in Seq(Seq(Slots))
  BY TypedFacts DEF Global, Local
<1>4. ToPromote(n) = ToPromote(f[t]) \ {p} /\ p \in ToPromote(f[t])
  BY <1>3, MarkedFacts
<1>5. \A u \in Threads : u # t => ToPromote(g[u]) = ToPromote(f[u])
  BY <1>1, <1>2
<1> QED
  BY <1>1, <1>3, <1>4, <1>5, UnfinishedLost

\* ... and a join as many as there were.
LEMMA UnfinishedJoin ==
  ASSUME NEW f, Global(f), NEW t \in Threads, NEW r \in Threads, t # r,
         Flat(f[r]), NEW n \in ThreadStates, NEW p \in AreForks(f[t]),
         Lost(f[t], n, p), NEW m \in ThreadStates,
         Flat(m), NEW g, PutBoth(f, t, n, r, m, g)
  PROVE  Cardinality(Unfinished(g)) = Cardinality(Unfinished(f))
<1>1. g[t] = n /\ g[r] = m /\ \A u \in Threads : u # t /\ u # r => g[u] = f[u]
  BY DEF Global, PutBoth
<1>2. ToPromote(f[r]) = {} /\ ToPromote(m) = {}
  BY FlatFacts DEF Flat
<1>3. f[t].stack \in Seq(Seq(Slots))
  BY TypedFacts DEF Global, Local
<1>4. ToPromote(n) = ToPromote(f[t]) \ {p} /\ p \notin ToPromote(f[t])
  BY <1>3, LostFacts DEF AreForks
<1>5. \A u \in Threads : ToPromote(g[u]) = ToPromote(f[u])
  BY <1>1, <1>2, <1>4
<1> QED
  BY <1>5, UnfinishedKept

-----------------------------------------------------------------------------
(* Sums of tokens *)

\* The sum that SumFunction folds, over the subsets of its domain.
IsSum(v, T, F) ==
  F = [s \in SUBSET T |->
        IF s = {} THEN 0
        ELSE v[CHOOSE x \in s : TRUE] + F[s \ {CHOOSE x \in s : TRUE}]]

\* A sum over a set is that over one less, and the value at the one left out.
LEMMA SumAt ==
  ASSUME NEW T, NEW v, NEW F, IsSum(v, T, F), NEW s \in SUBSET T
  PROVE  /\ s = {} => F[s] = 0
         /\ s # {} => \E x \in s : F[s] = v[x] + F[s \ {x}]
<1>1. F[s] = IF s = {} THEN 0
             ELSE v[CHOOSE x \in s : TRUE] + F[s \ {CHOOSE x \in s : TRUE}]
  BY DEF IsSum
<1> QED
  BY <1>1

\* ... and over those of at most n elements.
UpTo(T, n) == {s \in SUBSET T : Cardinality(s) <= n}
SumUpTo(v, T, n, F) ==
  F = [s \in UpTo(T, n) |->
        IF s = {} THEN 0
        ELSE v[CHOOSE x \in s : TRUE] + F[s \ {CHOOSE x \in s : TRUE}]]

\* A set without one of its elements.
LEMMA SmallerSet ==
  ASSUME NEW T, IsFiniteSet(T), NEW s \in SUBSET T, NEW x \in s
  PROVE  /\ IsFiniteSet(s) /\ Cardinality(s) \in Nat /\ Cardinality(s) >= 1
         /\ s \ {x} \in SUBSET T
         /\ Cardinality(s \ {x}) = Cardinality(s) - 1 /\ Cardinality(s \ {x}) \in Nat
<1>1. IsFiniteSet(s)
  BY FS_Subset
<1>2. IsFiniteSet(s \ {x}) /\ Cardinality(s \ {x}) = Cardinality(s) - 1
  BY <1>1, FS_RemoveElement
<1>3. Cardinality(s) \in Nat /\ Cardinality(s \ {x}) \in Nat
  BY <1>1, <1>2, FS_CardinalityType
<1> QED
  BY <1>1, <1>2, <1>3

\* From the sums over smaller sets come those over larger ones.
LEMMA SumGrows ==
  ASSUME NEW T, IsFiniteSet(T), NEW v, NEW n \in Nat, NEW F, SumUpTo(v, T, n, F)
  PROVE  \E G : SumUpTo(v, T, n + 1, G)
<1> DEFINE c(s) == CHOOSE x \in s : TRUE
           G == [s \in UpTo(T, n + 1) |->
                  IF s = {} THEN 0 ELSE v[c(s)] + F[s \ {c(s)}]]
<1>1. ASSUME NEW s \in UpTo(T, n) PROVE G[s] = F[s]
  <2>1. s \in UpTo(T, n + 1)
    <3>1. IsFiniteSet(s) /\ Cardinality(s) \in Nat
      BY FS_Subset, FS_CardinalityType DEF UpTo
    <3> QED
      BY <3>1 DEF UpTo
  <2> QED
    BY <2>1 DEF SumUpTo
<1>2. ASSUME NEW s \in UpTo(T, n + 1), s # {} PROVE s \ {c(s)} \in UpTo(T, n)
  <2>1. PICK x : x = c(s)
    OBVIOUS
  <2>2. x \in s
    BY <1>2, <2>1
  <2>3. s \in SUBSET T /\ Cardinality(s) <= n + 1
    BY DEF UpTo
  <2>4. s \ {x} \in SUBSET T /\ Cardinality(s \ {x}) = Cardinality(s) - 1
        /\ Cardinality(s) \in Nat
    BY <2>2, <2>3, SmallerSet
  <2>5. s \ {x} \in UpTo(T, n)
    BY <2>3, <2>4 DEF UpTo
  <2> QED
    BY <2>1, <2>5
<1>3. ASSUME NEW s \in UpTo(T, n + 1)
      PROVE  G[s] = IF s = {} THEN 0 ELSE v[c(s)] + G[s \ {c(s)}]
  <2>1. CASE s = {}
    BY <2>1
  <2>2. CASE s # {}
    <3>1. G[s \ {c(s)}] = F[s \ {c(s)}]
      BY <2>2, <1>1, <1>2
    <3>2. G[s] = v[c(s)] + F[s \ {c(s)}]
      BY <2>2
    <3> QED
      BY <2>2, <3>1, <3>2
  <2> QED
    BY <2>1, <2>2
<1>4. PICK g : g = G
  OBVIOUS
<1>5. g = [s \in UpTo(T, n + 1) |-> g[s]]
  BY <1>4
<1>6. \A s \in UpTo(T, n + 1) : g[s] = IF s = {} THEN 0 ELSE v[c(s)] + g[s \ {c(s)}]
  BY <1>3, <1>4
<1>7. g = [s \in UpTo(T, n + 1) |->
            IF s = {} THEN 0
            ELSE v[CHOOSE x \in s : TRUE] + g[s \ {CHOOSE x \in s : TRUE}]]
  BY <1>5, <1>6
<1> QED
  BY ZenonT(30), <1>7 DEF SumUpTo

\* The sum over no elements.
LEMMA SumBegins ==
  ASSUME NEW T, IsFiniteSet(T), NEW v
  PROVE  \E F : SumUpTo(v, T, 0, F)
<1> DEFINE F == [s \in UpTo(T, 0) |-> 0]
<1>1. \A s \in UpTo(T, 0) : s = {}
  <2>1. SUFFICES ASSUME NEW s \in UpTo(T, 0) PROVE s = {}
    OBVIOUS
  <2>2. IsFiniteSet(s) /\ Cardinality(s) <= 0 /\ Cardinality(s) \in Nat
    BY FS_Subset, FS_CardinalityType DEF UpTo
  <2>3. Cardinality(s) = 0
    BY <2>2
  <2> QED
    BY <2>2, <2>3, FS_EmptySet
<1>2. SumUpTo(v, T, 0, F)
  BY <1>1 DEF SumUpTo
<1> QED
  BY <1>2

\* Over a finite set the sums exist.
LEMMA SumExists ==
  ASSUME NEW T, IsFiniteSet(T), NEW v
  PROVE  \E F : IsSum(v, T, F)
<1> DEFINE Bad == {n \in Nat : ~ \E F : SumUpTo(v, T, n, F)}
<1>1. Bad = {}
  <2>1. SUFFICES ASSUME Bad # {} PROVE FALSE
    OBVIOUS
  <2>2. PICK n \in Bad : \A m \in Bad : n <= m
    BY <2>1, MinFacts
  <2>3. n \in Nat /\ n # 0
    BY SumBegins
  <2>4. n - 1 \in Nat /\ n - 1 \notin Bad
    BY <2>2, <2>3
  <2>5. PICK F : SumUpTo(v, T, n - 1, F)
    BY <2>4
  <2>6. \E G : SumUpTo(v, T, (n - 1) + 1, G)
    BY <2>4, <2>5, SumGrows
  <2>7. (n - 1) + 1 = n
    BY <2>3
  <2> QED
    BY <2>6, <2>7
<1>2. Cardinality(T) \in Nat
  BY FS_CardinalityType
<1>3. PICK F : SumUpTo(v, T, Cardinality(T), F)
  BY <1>1, <1>2
<1>4. UpTo(T, Cardinality(T)) = SUBSET T
  BY FS_Subset DEF UpTo
<1>5. IsSum(v, T, F)
  BY <1>3, <1>4 DEF SumUpTo, IsSum
<1> QED
  BY <1>5

\* The community modules' sum is such a sum.
LEMMA SumIsSum ==
  ASSUME NEW T, IsFiniteSet(T), NEW v, DOMAIN v = T
  PROVE  \E F : IsSum(v, T, F) /\ SumFunction(v) = F[T]
<1>1. SumFunction(v) = (CHOOSE F : IsSum(v, T, F))[T]
  BY DEF SumFunction, SumFunctionOnSet, FoldFunctionOnSet, MapThenFoldSet, IsSum
<1>2. IsSum(v, T, CHOOSE F : IsSum(v, T, F))
  BY SumExists
<1> QED
  BY <1>1, <1>2

\* The sum of naturals is one.
LEMMA SumIsNat ==
  ASSUME NEW T, IsFiniteSet(T), NEW v \in [T -> Nat], NEW F, IsSum(v, T, F), NEW s \in SUBSET T
  PROVE  F[s] \in Nat
<1> DEFINE Bad == {n \in Nat : \E u \in SUBSET T : Cardinality(u) = n /\ F[u] \notin Nat}
<1>1. Bad = {}
  <2>1. SUFFICES ASSUME Bad # {} PROVE FALSE
    OBVIOUS
  <2>2. PICK n \in Bad : \A m \in Bad : n <= m
    BY <2>1, MinFacts
  <2>3. PICK u \in SUBSET T : Cardinality(u) = n /\ F[u] \notin Nat
    OBVIOUS
  <2>4. u # {}
    BY <2>3, SumAt
  <2>5. PICK x \in u : F[u] = v[x] + F[u \ {x}]
    BY <2>4, SumAt
  <2>6. v[x] \in Nat
    OBVIOUS
  <2>7. /\ u \ {x} \in SUBSET T /\ n \in Nat
        /\ Cardinality(u \ {x}) = n - 1 /\ Cardinality(u \ {x}) \in Nat
    BY <2>3, SmallerSet
  <2>8. Cardinality(u \ {x}) \notin Bad
    <3>a. ~(n <= Cardinality(u \ {x}))
      BY <2>7
    <3> QED
      BY <3>a, <2>2, Zenon
  <2>9. F[u \ {x}] \in Nat
    BY <2>7, <2>8
  <2> QED
    BY <2>3, <2>5, <2>6, <2>9
<1>2. Cardinality(s) \in Nat
  BY FS_Subset, FS_CardinalityType
<1> QED
  BY <1>1, <1>2

\* Which element comes first does not matter.
LEMMA SumTakes ==
  ASSUME NEW T, IsFiniteSet(T), NEW v \in [T -> Nat], NEW F, IsSum(v, T, F),
         NEW s \in SUBSET T, NEW x \in s
  PROVE  F[s] = v[x] + F[s \ {x}]
<1> DEFINE Wrong(u) == \E y \in u : F[u] # v[y] + F[u \ {y}]
           Bad == {n \in Nat : \E u \in SUBSET T : Cardinality(u) = n /\ Wrong(u)}
<1>1. Bad = {}
  <2>1. SUFFICES ASSUME Bad # {} PROVE FALSE
    OBVIOUS
  <2>2. PICK n \in Bad : \A m \in Bad : n <= m
    BY <2>1, MinFacts
  <2>3. PICK u \in SUBSET T : Cardinality(u) = n /\ Wrong(u)
    OBVIOUS
  <2>4. PICK y \in u : F[u] # v[y] + F[u \ {y}]
    BY <2>3
  <2>5. PICK z \in u : F[u] = v[z] + F[u \ {z}]
    BY <2>4, SumAt
  <2>6. y # z
    BY <2>4, <2>5
  <2>7. ASSUME NEW a \in u
        PROVE  /\ u \ {a} \in SUBSET T
               /\ \A b \in u \ {a} : F[u \ {a}] = v[b] + F[(u \ {a}) \ {b}]
    <3>1. /\ u \ {a} \in SUBSET T /\ n \in Nat
          /\ Cardinality(u \ {a}) = n - 1 /\ Cardinality(u \ {a}) \in Nat
      BY <2>3, SmallerSet
    <3>2. Cardinality(u \ {a}) \notin Bad
      <4>a. ~(n <= Cardinality(u \ {a}))
        BY <3>1
      <4> QED
        BY <4>a, <2>2, Zenon
    <3>3. ~Wrong(u \ {a})
      BY <3>1, <3>2
    <3> QED
      BY <3>1, <3>3
  <2>8. PICK rest : rest = (u \ {y}) \ {z}
    OBVIOUS
  <2>9. rest = (u \ {z}) \ {y} /\ rest \in SUBSET T
    BY <2>8
  <2>10. F[u \ {z}] = v[y] + F[rest] /\ F[u \ {y}] = v[z] + F[rest]
    BY <2>6, <2>7, <2>8, <2>9
  <2>11. F[rest] \in Nat /\ v[y] \in Nat /\ v[z] \in Nat
    BY <2>9, SumIsNat
  <2>12. F[u] = v[y] + F[u \ {y}]
    BY <2>5, <2>10, <2>11
  <2> QED
    BY <2>4, <2>12
<1>2. Cardinality(s) \in Nat
  BY FS_Subset, FS_CardinalityType
<1>3. ~Wrong(s)
  BY <1>1, <1>2
<1> QED
  BY <1>3

\* Equal functions have equal sums.
LEMMA SumAgrees ==
  ASSUME NEW T, IsFiniteSet(T), NEW v, NEW w, NEW F, IsSum(v, T, F), NEW G, IsSum(w, T, G),
         NEW s \in SUBSET T, \A x \in s : v[x] = w[x]
  PROVE  F[s] = G[s]
<1> DEFINE c(u) == CHOOSE x \in u : TRUE
           Bad == {n \in Nat : \E u \in SUBSET s : Cardinality(u) = n /\ F[u] # G[u]}
<1>1. Bad = {}
  <2>1. SUFFICES ASSUME Bad # {} PROVE FALSE
    OBVIOUS
  <2>2. PICK n \in Bad : \A m \in Bad : n <= m
    BY <2>1, MinFacts
  <2>3. PICK u \in SUBSET s : Cardinality(u) = n /\ F[u] # G[u]
    OBVIOUS
  <2>4. u \in SUBSET T
    OBVIOUS
  <2>5. u # {}
    BY <2>3, <2>4, SumAt
  <2>6. PICK x : x = c(u)
    OBVIOUS
  <2>7. x \in u
    BY <2>5, <2>6
  <2>8. F[u] = v[x] + F[u \ {x}] /\ G[u] = w[x] + G[u \ {x}]
    BY SMTT(30), <2>4, <2>5, <2>6 DEF IsSum
  <2>9. /\ u \ {x} \in SUBSET s /\ n \in Nat
        /\ Cardinality(u \ {x}) = n - 1 /\ Cardinality(u \ {x}) \in Nat
    BY <2>3, <2>4, <2>7, SmallerSet
  <2>10. Cardinality(u \ {x}) \notin Bad
    <3>a. ~(n <= Cardinality(u \ {x}))
      BY <2>9
    <3> QED
      BY <3>a, <2>2, Zenon
  <2>11. F[u \ {x}] = G[u \ {x}] /\ v[x] = w[x]
    BY <2>7, <2>9, <2>10
  <2> QED
    BY <2>3, <2>8, <2>11
<1>2. Cardinality(s) \in Nat
  BY FS_Subset, FS_CardinalityType
<1> QED
  BY <1>1, <1>2

\* A change of one summand.
OnlyAt(T, v, w, t) == \A x \in T : x # t => w[x] = v[x]

\* A function changed at one place.
LEMMA SumChanged ==
  ASSUME NEW T, IsFiniteSet(T), NEW v \in [T -> Nat], NEW w \in [T -> Nat], NEW t \in T,
         OnlyAt(T, v, w, t)
  PROVE  /\ SumFunction(v) \in Nat /\ SumFunction(w) \in Nat
         /\ SumFunction(w) + v[t] = SumFunction(v) + w[t]
<1>1. PICK F : IsSum(v, T, F) /\ SumFunction(v) = F[T]
  BY SumIsSum
<1>2. PICK G : IsSum(w, T, G) /\ SumFunction(w) = G[T]
  BY SumIsSum
<1>3. F[T \ {t}] = G[T \ {t}]
  BY <1>1, <1>2, SumAgrees DEF OnlyAt
<1>4. F[T] = v[t] + F[T \ {t}] /\ G[T] = w[t] + G[T \ {t}]
  <2>1. T \in SUBSET T
    OBVIOUS
  <2>2. F[T] = v[t] + F[T \ {t}]
    <3>1. IsSum(v, T, F) /\ t \in T /\ v \in [T -> Nat]
      BY <1>1
    <3> QED
      BY <3>1, <2>1, SumTakes
  <2>3. G[T] = w[t] + G[T \ {t}]
    BY <2>1, <1>2, SumTakes
  <2> QED
    BY <2>2, <2>3
<1>5. F[T \ {t}] \in Nat
  BY <1>1, SumIsNat
<1>6. v[t] \in Nat /\ w[t] \in Nat
  OBVIOUS
<1> QED
  BY <1>1, <1>2, <1>3, <1>4, <1>5, <1>6

\* A sum of zeros.
LEMMA SumOfZeros ==
  ASSUME NEW T, IsFiniteSet(T), NEW v \in [T -> Nat], \A x \in T : v[x] = 0
  PROVE  SumFunction(v) = 0
<1>1. PICK F : IsSum(v, T, F) /\ SumFunction(v) = F[T]
  BY SumIsSum
<1> DEFINE Bad == {n \in Nat : \E u \in SUBSET T : Cardinality(u) = n /\ F[u] # 0}
<1>2. Bad = {}
  <2>1. SUFFICES ASSUME Bad # {} PROVE FALSE
    OBVIOUS
  <2>2. PICK n \in Bad : \A m \in Bad : n <= m
    BY <2>1, MinFacts
  <2>3. PICK u \in SUBSET T : Cardinality(u) = n /\ F[u] # 0
    OBVIOUS
  <2>4. u # {}
    BY <1>1, <2>3, SumAt
  <2>5. PICK x \in u : F[u] = v[x] + F[u \ {x}]
    BY <1>1, <2>4, SumAt
  <2>7. /\ u \ {x} \in SUBSET T /\ n \in Nat
        /\ Cardinality(u \ {x}) = n - 1 /\ Cardinality(u \ {x}) \in Nat
    BY <2>3, SmallerSet
  <2>8. Cardinality(u \ {x}) \notin Bad
    <3>a. ~(n <= Cardinality(u \ {x}))
      BY <2>7
    <3> QED
      BY <3>a, <2>2, Zenon
  <2>9. F[u \ {x}] = 0 /\ v[x] = 0
    BY <2>7, <2>8
  <2> QED
    BY <2>3, <2>5, <2>9
<1>3. Cardinality(T) \in Nat
  BY FS_CardinalityType
<1> QED
  BY <1>1, <1>2, <1>3

Holds(th) == th.tokens + th.given + th.owed
HeldBy(f) == SumFunction([t \in Threads |-> Holds(f[t])])

\* A thread holds a number of tokens.
LEMMA HoldsNat ==
  ASSUME NEW th \in ThreadStates
  PROVE  Holds(th) \in Nat
BY Fields DEF Holds

\* What all hold changes by what one thread does,
LEMMA HeldStep ==
  ASSUME NEW f \in [Threads -> ThreadStates], NEW t \in Threads, NEW n \in ThreadStates,
         NEW g, Put(f, t, n, g)
  PROVE  /\ g \in [Threads -> ThreadStates] /\ HeldBy(f) \in Nat /\ HeldBy(g) \in Nat
         /\ HeldBy(g) + Holds(f[t]) = HeldBy(f) + Holds(n)
<1>1. /\ g \in [Threads -> ThreadStates] /\ g[t] = n
      /\ \A u \in Threads : u # t => g[u] = f[u]
  BY DEF Put
<1>2. PICK v : v = [u \in Threads |-> Holds(f[u])]
  OBVIOUS
<1>3. PICK w : w = [u \in Threads |-> Holds(g[u])]
  OBVIOUS
<1>4. \A u \in Threads : Holds(f[u]) \in Nat /\ Holds(g[u]) \in Nat
  BY <1>1, HoldsNat
<1>5. v \in [Threads -> Nat] /\ w \in [Threads -> Nat]
  BY <1>2, <1>3, <1>4
<1>6. \A u \in Threads : u # t => w[u] = v[u]
  BY <1>1, <1>2, <1>3
<1>7. IsFiniteSet(Threads)
  BY ThreadsAssumption
<1>8. /\ SumFunction(v) \in Nat /\ SumFunction(w) \in Nat
      /\ SumFunction(w) + v[t] = SumFunction(v) + w[t]
  <2>1. /\ IsFiniteSet(Threads) /\ v \in [Threads -> Nat] /\ w \in [Threads -> Nat]
        /\ t \in Threads /\ OnlyAt(Threads, v, w, t)
    BY <1>5, <1>6, <1>7 DEF OnlyAt
  <2> QED
    BY <2>1, SumChanged
<1>9. v[t] = Holds(f[t]) /\ w[t] = Holds(n)
  BY <1>1, <1>2, <1>3
<1> QED
  BY <1>1, <1>2, <1>3, <1>8, <1>9 DEF HeldBy

\* ... or by what two do.
LEMMA HeldPair ==
  ASSUME NEW f \in [Threads -> ThreadStates], NEW t \in Threads, NEW n \in ThreadStates,
         NEW r \in Threads, r # t, NEW m \in ThreadStates,
         NEW g, PutBoth(f, t, n, r, m, g)
  PROVE  /\ HeldBy(f) \in Nat /\ HeldBy(g) \in Nat
         /\ HeldBy(g) + Holds(f[t]) + Holds(f[r]) = HeldBy(f) + Holds(n) + Holds(m)
<1>1. PICK h : h = [f EXCEPT ![t] = n]
  OBVIOUS
<1>2. /\ h \in [Threads -> ThreadStates] /\ HeldBy(f) \in Nat /\ HeldBy(h) \in Nat
      /\ HeldBy(h) + Holds(f[t]) = HeldBy(f) + Holds(n)
  <2>1. /\ f \in [Threads -> ThreadStates] /\ t \in Threads /\ n \in ThreadStates
        /\ Put(f, t, n, h)
    BY <1>1 DEF Put
  <2> QED
    BY <2>1, HeldStep
<1>3. g = [h EXCEPT ![r] = m] /\ h[r] = f[r]
  BY <1>1 DEF PutBoth
<1>4. HeldBy(g) \in Nat /\ HeldBy(g) + Holds(f[r]) = HeldBy(h) + Holds(m)
  <2>1. /\ h \in [Threads -> ThreadStates] /\ r \in Threads /\ m \in ThreadStates
        /\ Put(h, r, m, g)
    BY <1>2, <1>3 DEF Put
  <2>2. HeldBy(g) \in Nat /\ HeldBy(g) + Holds(h[r]) = HeldBy(h) + Holds(m)
    BY <2>1, HeldStep
  <2> QED
    BY <2>2, <1>3
<1>5. Holds(f[t]) \in Nat /\ Holds(f[r]) \in Nat /\ Holds(n) \in Nat /\ Holds(m) \in Nat
  BY HoldsNat
<1> QED
  BY <1>2, <1>4, <1>5

\* Before an exception the assertions of findNextPromotableFrame hold.
LEMMA NeverConfused ==
  ASSUME NEW th, Typed(th), PromoInv(th)
  PROVE  ~Confused(th)
<1>1. PICK e : e = Entries(th)
  OBVIOUS
<1>2. PICK f : f = FirstEntry(th)
  OBVIOUS
<1>3. OldestPromotableFrame(th) = FindPromotableFrame(th) /\ Skipped(th) \in 0 .. 1
  BY <1>1, <1>2, FindsOldest DEF PromoInv
<1> QED
  BY <1>3 DEF Confused

\* When only the youngest spork is left, one frame can be promoted.
LEMMA TwoFrames ==
  ASSUME NEW th, Typed(th), OnlyYoungest(th), NEW i \in 1 .. Len(th.stack),
         NEW j \in 1 .. Len(th.stack), i < j, FrameIsPromotable(th.stack[i]),
         FrameIsPromotable(th.stack[j])
  PROVE  FALSE
<1>1. th.stack[i] \in Seq(Slots) /\ th.stack[j] \in Seq(Slots) /\ th.stack \in Seq(Seq(Slots))
  BY TypedFacts
<1>2. PICK k \in 1 .. Len(th.stack[i]) : Promotable(th.stack[i][k])
  BY <1>1, NotPromotable
<1>3. PICK m \in 1 .. Len(th.stack[j]) : Promotable(th.stack[j][m])
  BY <1>1, NotPromotable
<1>4. <<i, k>> \in ToPromote(th)
  BY <1>1, <1>2, PlaceIn DEF ToPromote
<1>5. <<j, m>> \in Places(th)
  BY <1>1, PlaceIn
<1>6. Older(<<i, k>>, <<j, m>>)
  BY DEF Older
<1> QED
  BY <1>4, <1>5, <1>6 DEF OnlyYoungest

\* ... and those of the youngest optimization at an eager check.
LEMMA OnlyOneLeft ==
  ASSUME NEW th, Typed(th), PromoInv(th), OnlyYoungest(th), MaySpawn(th)
  PROVE  OnlyOne(th)
<1> DEFINE b == th.promoBot  s == th.stack
<1>1. PICK e : e = Entries(th)
  OBVIOUS
<1>2. PICK f : f = FirstEntry(th)
  OBVIOUS
<1>3. PICK g : g = FindPromotableFrame(th)
  OBVIOUS
<1>4. PICK y : y = FindYoungestPromotableFrame(th)
  OBVIOUS
<1>5. OldestPromotableFrame(th) = g /\ g # 0
  BY <1>1, <1>2, <1>3, FindsOldest DEF PromoInv, MaySpawn
<1>6. /\ g \in 1 .. Len(s) /\ FrameIsPromotable(s[g]) /\ Len(s) \in Nat
      /\ b \in Nat /\ Len(e) \in Nat
  BY <1>1, <1>3, <1>5, FindFacts, TypedFacts
<1>7. y \in 1 .. Len(s) /\ FrameIsPromotable(s[y]) /\ y >= g
  BY <1>4, <1>6, YoungestFacts
<1>8. y = g
  <2>1. ASSUME g < y PROVE FALSE
    BY <2>1, <1>6, <1>7, TwoFrames
  <2> QED
    BY <2>1, <1>6, <1>7
<1>9. ASSUME NEW i \in 1 .. Len(e), i >= b + 2
      PROVE  e[i] \in 1 .. Len(s) /\ FrameIsPromotable(s[e[i]])
  <2>1. e[i] \in 1 .. Len(s) /\ s[e[i]] # <<>>
    BY <1>1 DEF PromoInv, PromoAt
  <2>2. s[e[i]] \in Seq(Slots)
    BY <2>1, TypedFacts
  <2>3. 1 \in 1 .. Len(s[e[i]])
    BY <2>1, <2>2, EmptySeq
  <2>4. Promotable(s[e[i]][1])
    BY <2>3, <1>1, <1>9 DEF PromoInv, PromoAt
  <2> QED
    BY <2>1, <2>2, <2>3, <2>4, NotPromotable
<1>10. Len(e) - b <= 2
  <2>1. ASSUME Len(e) >= b + 3 PROVE FALSE
    <3>1. b + 2 \in 1 .. Len(e) /\ b + 3 \in 1 .. Len(e) /\ b + 2 < b + 3 /\ b + 3 >= b + 2
      BY <2>1, <1>6
    <3>2. e[b + 2] < e[b + 3]
      BY <3>1, <1>1 DEF PromoInv, PromoAt, Sorted
    <3>3. PICK i \in 1 .. Len(s) : i = e[b + 2] /\ FrameIsPromotable(s[i])
      BY <3>1, <1>9
    <3>4. PICK j \in 1 .. Len(s) : j = e[b + 3] /\ FrameIsPromotable(s[j])
      BY <3>1, <1>9
    <3> QED
      BY <3>2, <3>3, <3>4, TwoFrames
  <2> QED
    BY <2>1, <1>6
<1> QED
  BY <1>1, <1>4, <1>5, <1>8, <1>10 DEF OnlyOne

-----------------------------------------------------------------------------
(* The inductive invariant *)

Good(f, sp, be, ra, sw, st) ==
  /\ Global(f)
  /\ sp \in 0 .. MaxSporks /\ be \in 0 .. MaxBeats /\ ra \in 0 .. MaxRaises
  /\ sw \in Nat /\ st \in Statuses
  /\ sw + Cardinality(Unfinished(f)) <= sp
  /\ ra = 0 => st = "running" /\ \A t \in Threads : PromoInv(f[t])
  /\ sw + HeldBy(f) <= be * HeartbeatTokens

\* What the invariant says of one thread.
LEMMA GoodFacts ==
  ASSUME NEW f, NEW sp, NEW be, NEW ra, NEW sw, NEW st, Good(f, sp, be, ra, sw, st),
         NEW t \in Threads
  PROVE  /\ Global(f) /\ f \in [Threads -> ThreadStates] /\ f[t] \in ThreadStates
         /\ Local(f[t]) /\ Typed(f[t])
         /\ sp \in Nat /\ be \in Nat /\ ra \in Nat /\ sw \in Nat
         /\ HeartbeatTokens \in Nat /\ be * HeartbeatTokens \in Nat
         /\ MaxSporks \in Nat /\ MaxBeats \in Nat /\ MaxRaises \in Nat
         /\ Cardinality(Unfinished(f)) \in Nat
         /\ Holds(f[t]) \in Nat
<1>1. HeartbeatTokens \in Nat /\ MaxSporks \in Nat /\ MaxBeats \in Nat /\ MaxRaises \in Nat
  BY TokensAssumption, BoundsAssumption
<1>2. sp \in Nat /\ be \in Nat /\ ra \in Nat /\ sw \in Nat
  BY <1>1 DEF Good
<1>3. be * HeartbeatTokens \in Nat
  BY <1>1, <1>2
<1>4. Global(f) /\ f \in [Threads -> ThreadStates] /\ Local(f[t]) /\ Typed(f[t])
      /\ f[t] \in ThreadStates
  BY DEF Good, Global, Local, Typed
<1> QED
  BY <1>1, <1>2, <1>3, <1>4, UnfinishedIsFinite, HoldsNat

\* A step of one thread that makes no fork and no spork.
LEMMA GoodStep ==
  ASSUME NEW f, NEW sp, NEW be, NEW ra, NEW sw, NEW st, Good(f, sp, be, ra, sw, st),
         NEW t \in Threads, NEW n, Kept(f[t], n), n.depth = f[t].depth, n.pc # "none",
         SamePlaces(f[t], n) \/ (\E p \in ToPromote(f[t]) : Lost(f[t], n, p)),
         Holds(n) <= Holds(f[t]), NEW g, Put(f, t, n, g)
  PROVE  Good(g, sp, be, ra, sw, st)
<1>1. /\ Global(f) /\ f \in [Threads -> ThreadStates] /\ Local(f[t]) /\ Typed(f[t])
      /\ sp \in Nat /\ sw \in Nat /\ be * HeartbeatTokens \in Nat
      /\ Cardinality(Unfinished(f)) \in Nat /\ Holds(f[t]) \in Nat
  BY GoodFacts
<1>2. Local(n) /\ Typed(n) /\ n \in ThreadStates /\ Holds(n) \in Nat
  BY HoldsNat DEF Kept, Local, Typed
<1>3. Stays(f[t], n)
  BY <1>1, <1>2, StaysFacts
<1>4. Global(g)
  BY <1>1, <1>2, <1>3, GlobalStays
<1>5. sw + Cardinality(Unfinished(g)) <= sp
  <2>1. \/ Cardinality(Unfinished(g)) = Cardinality(Unfinished(f))
        \/ Cardinality(Unfinished(g)) = Cardinality(Unfinished(f)) - 1
    BY <1>1, <1>2, UnfinishedStep
  <2>2. sw + Cardinality(Unfinished(f)) <= sp
    BY DEF Good
  <2> QED
    BY <2>1, <2>2, <1>1, UnfinishedIsFinite
<1>6. sw + HeldBy(g) <= be * HeartbeatTokens
  <2>1. /\ HeldBy(f) \in Nat /\ HeldBy(g) \in Nat
        /\ HeldBy(g) + Holds(f[t]) = HeldBy(f) + Holds(n)
    BY <1>1, <1>2, HeldStep
  <2>2. sw + HeldBy(f) <= be * HeartbeatTokens
    BY DEF Good
  <2> QED
    BY <2>1, <2>2, <1>1, <1>2
<1>7. ASSUME ra = 0 PROVE st = "running" /\ \A u \in Threads : PromoInv(g[u])
  <2>1. st = "running" /\ \A u \in Threads : PromoInv(f[u])
    BY <1>7 DEF Good
  <2>2. PromoInv(n)
    BY <2>1 DEF Kept
  <2>3. g[t] = n /\ \A u \in Threads : u # t => g[u] = f[u]
    BY <1>1 DEF Put
  <2> QED
    BY <2>1, <2>2, <2>3
<1>8. /\ sp \in 0 .. MaxSporks /\ be \in 0 .. MaxBeats /\ ra \in 0 .. MaxRaises
      /\ st \in Statuses
  BY DEF Good
<1> QED
  BY <1>1, <1>4, <1>5, <1>6, <1>7, <1>8 DEF Good

\* A spork: one more may be promoted.
LEMMA GoodSpork ==
  ASSUME NEW f, NEW sp, NEW be, NEW ra, NEW sw, NEW st, Good(f, sp, be, ra, sw, st),
         sp < MaxSporks,
         NEW t \in Threads, NEW n, Kept(f[t], n), n.depth = f[t].depth, n.pc # "none",
         \E p : Gained(f[t], n, p),
         Holds(n) <= Holds(f[t]), NEW g, Put(f, t, n, g)
  PROVE  Good(g, sp + 1, be, ra, sw, st)
<1>1. /\ Global(f) /\ f \in [Threads -> ThreadStates] /\ Local(f[t]) /\ Typed(f[t])
      /\ sp \in Nat /\ sw \in Nat /\ be * HeartbeatTokens \in Nat /\ MaxSporks \in Nat
      /\ Cardinality(Unfinished(f)) \in Nat /\ Holds(f[t]) \in Nat
  BY GoodFacts
<1>2. Local(n) /\ Typed(n) /\ n \in ThreadStates /\ Holds(n) \in Nat
  BY HoldsNat DEF Kept, Local, Typed
<1>3. Stays(f[t], n)
  BY <1>1, <1>2, StaysFacts
<1>4. Global(g)
  BY <1>1, <1>2, <1>3, GlobalStays
<1>5. sw + Cardinality(Unfinished(g)) <= sp + 1
  <2>1. Cardinality(Unfinished(g)) = Cardinality(Unfinished(f)) + 1
    BY <1>1, <1>2, UnfinishedStep
  <2>2. sw + Cardinality(Unfinished(f)) <= sp
    BY DEF Good
  <2> QED
    BY <2>1, <2>2, <1>1
<1>6. sw + HeldBy(g) <= be * HeartbeatTokens
  <2>1. /\ HeldBy(f) \in Nat /\ HeldBy(g) \in Nat
        /\ HeldBy(g) + Holds(f[t]) = HeldBy(f) + Holds(n)
    BY <1>1, <1>2, HeldStep
  <2>2. sw + HeldBy(f) <= be * HeartbeatTokens
    BY DEF Good
  <2> QED
    BY <2>1, <2>2, <1>1, <1>2
<1>7. ASSUME ra = 0 PROVE st = "running" /\ \A u \in Threads : PromoInv(g[u])
  <2>1. st = "running" /\ \A u \in Threads : PromoInv(f[u])
    BY <1>7 DEF Good
  <2>2. PromoInv(n)
    BY <2>1 DEF Kept
  <2>3. g[t] = n /\ \A u \in Threads : u # t => g[u] = f[u]
    BY <1>1 DEF Put
  <2> QED
    BY <2>1, <2>2, <2>3
<1>8. /\ sp + 1 \in 0 .. MaxSporks /\ be \in 0 .. MaxBeats /\ ra \in 0 .. MaxRaises
      /\ st \in Statuses
  BY <1>1 DEF Good
<1> QED
  BY <1>1, <1>4, <1>5, <1>6, <1>7, <1>8 DEF Good

\* A heartbeat: as many tokens come in.
LEMMA GoodBeat ==
  ASSUME NEW f, NEW sp, NEW be, NEW ra, NEW sw, NEW st, Good(f, sp, be, ra, sw, st),
         be < MaxBeats,
         NEW t \in Threads, NEW n, Kept(f[t], n), n.depth = f[t].depth, n.pc # "none",
         SamePlaces(f[t], n),
         Holds(n) <= Holds(f[t]) + HeartbeatTokens, NEW g, Put(f, t, n, g)
  PROVE  Good(g, sp, be + 1, ra, sw, st)
<1>1. /\ Global(f) /\ f \in [Threads -> ThreadStates] /\ Local(f[t]) /\ Typed(f[t])
      /\ sp \in Nat /\ sw \in Nat /\ be * HeartbeatTokens \in Nat /\ HeartbeatTokens \in Nat
      /\ be \in Nat /\ MaxBeats \in Nat
      /\ Cardinality(Unfinished(f)) \in Nat /\ Holds(f[t]) \in Nat
  BY GoodFacts
<1>2. Local(n) /\ Typed(n) /\ n \in ThreadStates /\ Holds(n) \in Nat
  BY HoldsNat DEF Kept, Local, Typed
<1>3. Stays(f[t], n)
  BY <1>1, <1>2, StaysFacts
<1>4. Global(g)
  BY <1>1, <1>2, <1>3, GlobalStays
<1>5. sw + Cardinality(Unfinished(g)) <= sp
  <2>1. Cardinality(Unfinished(g)) = Cardinality(Unfinished(f))
    BY <1>1, <1>2, UnfinishedStep
  <2>2. sw + Cardinality(Unfinished(f)) <= sp
    BY DEF Good
  <2> QED
    BY <2>1, <2>2, <1>1
<1>6. sw + HeldBy(g) <= (be + 1) * HeartbeatTokens
  <2>1. /\ HeldBy(f) \in Nat /\ HeldBy(g) \in Nat
        /\ HeldBy(g) + Holds(f[t]) = HeldBy(f) + Holds(n)
    BY <1>1, <1>2, HeldStep
  <2>2. sw + HeldBy(f) <= be * HeartbeatTokens
    BY DEF Good
  <2>3. (be + 1) * HeartbeatTokens = be * HeartbeatTokens + HeartbeatTokens
    BY <1>1
  <2> QED
    BY <2>1, <2>2, <2>3, <1>1, <1>2
<1>7. ASSUME ra = 0 PROVE st = "running" /\ \A u \in Threads : PromoInv(g[u])
  <2>1. st = "running" /\ \A u \in Threads : PromoInv(f[u])
    BY <1>7 DEF Good
  <2>2. PromoInv(n)
    BY <2>1 DEF Kept
  <2>3. g[t] = n /\ \A u \in Threads : u # t => g[u] = f[u]
    BY <1>1 DEF Put
  <2> QED
    BY <2>1, <2>2, <2>3
<1>8. /\ sp \in 0 .. MaxSporks /\ be + 1 \in 0 .. MaxBeats /\ ra \in 0 .. MaxRaises
      /\ st \in Statuses
  BY <1>1 DEF Good
<1> QED
  BY <1>1, <1>4, <1>5, <1>6, <1>7, <1>8 DEF Good

\* An exception: the promotion stack is not relied on any more.
LEMMA GoodRaise ==
  ASSUME NEW f, NEW sp, NEW be, NEW ra, NEW sw, NEW st, Good(f, sp, be, ra, sw, st),
         ra < MaxRaises,
         NEW t \in Threads, NEW n, Local(n), n.depth = f[t].depth, n.pc # "none",
         SamePlaces(f[t], n), Holds(n) = Holds(f[t]), NEW g, Put(f, t, n, g)
  PROVE  Good(g, sp, be, ra + 1, sw, st)
<1>1. /\ Global(f) /\ f \in [Threads -> ThreadStates] /\ Local(f[t]) /\ Typed(f[t])
      /\ sp \in Nat /\ sw \in Nat /\ be * HeartbeatTokens \in Nat
      /\ ra \in Nat /\ MaxRaises \in Nat
      /\ Cardinality(Unfinished(f)) \in Nat /\ Holds(f[t]) \in Nat
  BY GoodFacts
<1>2. Typed(n) /\ n \in ThreadStates
  BY DEF Local, Typed
<1>3. Stays(f[t], n)
  BY <1>1, <1>2, StaysFacts
<1>4. Global(g)
  BY <1>1, <1>2, <1>3, GlobalStays
<1>5. sw + Cardinality(Unfinished(g)) <= sp
  <2>1. Cardinality(Unfinished(g)) = Cardinality(Unfinished(f))
    BY <1>1, <1>2, UnfinishedStep
  <2> QED
    BY <2>1 DEF Good
<1>6. sw + HeldBy(g) <= be * HeartbeatTokens
  <2>1. /\ HeldBy(f) \in Nat /\ HeldBy(g) \in Nat
        /\ HeldBy(g) + Holds(f[t]) = HeldBy(f) + Holds(n)
    BY <1>1, <1>2, HeldStep
  <2>2. HeldBy(g) = HeldBy(f)
    BY <2>1, <1>1
  <2> QED
    BY <2>2 DEF Good
<1>8. /\ sp \in 0 .. MaxSporks /\ be \in 0 .. MaxBeats /\ ra + 1 \in 0 .. MaxRaises
      /\ st \in Statuses /\ ra + 1 # 0
  BY <1>1 DEF Good
<1> QED
  BY <1>1, <1>4, <1>5, <1>6, <1>8 DEF Good

\* A promotion: a token is spent, and the right side is one level deeper.
LEMMA GoodSpawn ==
  ASSUME NEW f, NEW sp, NEW be, NEW ra, NEW sw, NEW st, Good(f, sp, be, ra, sw, st),
         NEW t \in Threads, NEW r \in Threads, f[r].pc = "none", f[t].pc # "none",
         NEW n, SpawnEffect(f[t], n, r), n.pc # "none", NEW m,
         m = NewThread("offered", f[t].depth + 1, f[t].tokens - 1 - n.tokens),
         NEW g, PutBoth(f, t, n, r, m, g)
  PROVE  Good(g, sp, be, ra, sw + 1, st)
<1>1. /\ Global(f) /\ f \in [Threads -> ThreadStates] /\ Local(f[t]) /\ Typed(f[t])
      /\ sp \in Nat /\ sw \in Nat /\ be * HeartbeatTokens \in Nat
      /\ Cardinality(Unfinished(f)) \in Nat
      /\ f[t] \in ThreadStates
  BY GoodFacts
<1>2. PICK p : Marked(f[t], n, p, r)
  BY DEF SpawnEffect
<1>3. /\ Local(n) /\ n \in ThreadStates /\ n.depth = f[t].depth + 1
      /\ n.given = f[t].given /\ n.owed = f[t].owed /\ n.tokens \in Nat
      /\ n.tokens <= f[t].tokens - 1
  BY DEF SpawnEffect, Kept, Local, Typed
<1>4. PICK given : given = f[t].tokens - 1 - n.tokens
  OBVIOUS
<1>5. given \in Nat /\ f[t].tokens \in Nat /\ f[t].given \in Nat /\ f[t].owed \in Nat
      /\ f[t].depth + 1 \in 1 .. MaxDepth
  <2>1. f[t].tokens \in Nat /\ f[t].given \in Nat /\ f[t].owed \in Nat
    BY <1>1, Fields
  <2>2. n.depth \in 1 .. MaxDepth
    BY <1>3, Fields
  <2>3. given \in Nat
    BY <2>1, <1>3, <1>4
  <2> QED
    BY <2>1, <2>2, <2>3, <1>3
<1>6. /\ Local(m) /\ PromoInv(m) /\ m.stack = <<(<<>>)>>
      /\ m.given = given /\ m.tokens = 0 /\ m.owed = 0
  BY <1>4, <1>5, NewFacts
<1>7. m \in ThreadStates /\ t # r
  BY <1>6 DEF Local, Typed
<1>8. Global(g)
  BY <1>1, <1>2, <1>3, <1>4, <1>5, GlobalSpawn
<1>9. sw + 1 + Cardinality(Unfinished(g)) <= sp
  <2>1. Cardinality(Unfinished(g)) = Cardinality(Unfinished(f)) - 1
    <3>1. Flat(m)
      BY <1>6 DEF Flat
    <3>2. /\ Global(f) /\ t \in Threads /\ r \in Threads /\ f[r].pc = "none" /\ t # r
          /\ n \in ThreadStates /\ m \in ThreadStates /\ Marked(f[t], n, p, r)
          /\ PutBoth(f, t, n, r, m, g)
      BY <1>1, <1>2, <1>3, <1>7
    <3> QED
      BY <3>1, <3>2, UnfinishedSpawn
  <2>2. sw + Cardinality(Unfinished(f)) <= sp
    BY DEF Good
  <2> QED
    BY <2>1, <2>2, <1>1
<1>10. sw + 1 + HeldBy(g) <= be * HeartbeatTokens
  <2>1. /\ HeldBy(f) \in Nat /\ HeldBy(g) \in Nat
        /\ HeldBy(g) + Holds(f[t]) + Holds(f[r]) = HeldBy(f) + Holds(n) + Holds(m)
    BY <1>1, <1>3, <1>7, HeldPair
  <2>2. Holds(n) + Holds(m) = Holds(f[t]) - 1
    <3>1. Holds(m) = given
      BY <1>5, <1>6 DEF Holds
    <3>2. Holds(n) = n.tokens + f[t].given + f[t].owed
      BY <1>3 DEF Holds
    <3>3. n.tokens = f[t].tokens - 1 - given
      BY <1>3, <1>4, <1>5
    <3> QED
      BY <3>1, <3>2, <3>3, <1>3, <1>5 DEF Holds
  <2>3. sw + HeldBy(f) <= be * HeartbeatTokens
    BY DEF Good
  <2>4. Holds(f[t]) \in Nat /\ Holds(f[r]) \in Nat /\ Holds(n) \in Nat /\ Holds(m) \in Nat
    BY <1>1, <1>3, <1>7, HoldsNat
  <2> QED
    BY <2>1, <2>2, <2>3, <2>4, <1>1
<1>11. ASSUME ra = 0 PROVE st = "running" /\ \A u \in Threads : PromoInv(g[u])
  <2>1. st = "running" /\ \A u \in Threads : PromoInv(f[u])
    BY <1>11 DEF Good
  <2>2. PromoInv(n)
    BY <2>1 DEF SpawnEffect, Kept
  <2>3. g[t] = n /\ g[r] = m /\ \A u \in Threads : u # t /\ u # r => g[u] = f[u]
    BY <1>1, <1>7 DEF PutBoth
  <2> QED
    BY <2>1, <2>2, <2>3, <1>6
<1>12. /\ sp \in 0 .. MaxSporks /\ be \in 0 .. MaxBeats /\ ra \in 0 .. MaxRaises
       /\ st \in Statuses /\ sw + 1 \in Nat
  BY <1>1 DEF Good
<1> QED
  BY <1>8, <1>9, <1>10, <1>11, <1>12 DEF Good

\* A join: what the right side held comes back at most.
LEMMA GoodJoin ==
  ASSUME NEW f, NEW sp, NEW be, NEW ra, NEW sw, NEW st, Good(f, sp, be, ra, sw, st),
         NEW t \in Threads, NEW r \in Threads, f[r].pc \in {"offered", "done"}, r # t,
         NEW n, JoinEffect(f[t], n, r), n.pc # "none",
         Holds(n) <= Holds(f[t]) + Holds(f[r]), NEW m, m = NewThread("none", 1, 0),
         NEW g, PutBoth(f, t, n, r, m, g)
  PROVE  Good(g, sp, be, ra, sw, st)
<1>1. /\ Global(f) /\ f \in [Threads -> ThreadStates] /\ Local(f[t]) /\ Typed(f[t])
      /\ sp \in Nat /\ sw \in Nat /\ be * HeartbeatTokens \in Nat
      /\ Cardinality(Unfinished(f)) \in Nat
      /\ f[t] \in ThreadStates
  BY GoodFacts
<1>2. PICK p \in AreForks(f[t]) : Lost(f[t], n, p) /\ SlotAt(f[t], p).right = r
  BY DEF JoinEffect
<1>3. Local(n) /\ n \in ThreadStates /\ n.depth = f[t].depth - 1
  BY DEF JoinEffect, Kept, Local, Typed
<1>4. f[r].stack = <<(<<>>)>>
  BY <1>1 DEF Global, Local, Idle
<1>5. AreForks(f[r]) = {}
  BY <1>4, FlatFacts
<1>6. /\ Local(m) /\ PromoInv(m) /\ m.stack = <<(<<>>)>>
      /\ m.given = 0 /\ m.tokens = 0 /\ m.owed = 0
  <2>1. 1 \in 1 .. MaxDepth /\ 0 \in Nat
    BY BoundsAssumption
  <2> QED
    BY <2>1, NewFacts
<1>7. m \in ThreadStates
  BY <1>6 DEF Local, Typed
<1>8. Global(g)
  <2>1. RightOf(f[t], p) = r
    BY <1>2 DEF RightOf
  <2> QED
    BY <2>1, <1>1, <1>2, <1>3, <1>5, GlobalJoin
<1>9. sw + Cardinality(Unfinished(g)) <= sp
  <2>1. Cardinality(Unfinished(g)) = Cardinality(Unfinished(f))
    <3>1. Flat(m) /\ Flat(f[r])
      BY <1>4, <1>6 DEF Flat
    <3> QED
      BY <3>1, <1>1, <1>2, <1>3, <1>7, UnfinishedJoin
  <2> QED
    BY <2>1 DEF Good
<1>10. sw + HeldBy(g) <= be * HeartbeatTokens
  <2>1. /\ HeldBy(f) \in Nat /\ HeldBy(g) \in Nat
        /\ HeldBy(g) + Holds(f[t]) + Holds(f[r]) = HeldBy(f) + Holds(n) + Holds(m)
    BY <1>1, <1>3, <1>7, HeldPair
  <2>2. Holds(m) = 0
    BY <1>6 DEF Holds
  <2>3. sw + HeldBy(f) <= be * HeartbeatTokens
    BY DEF Good
  <2>4. Holds(f[t]) \in Nat /\ Holds(f[r]) \in Nat /\ Holds(n) \in Nat
    BY <1>1, <1>3, HoldsNat
  <2> QED
    BY <2>1, <2>2, <2>3, <2>4, <1>1
<1>11. ASSUME ra = 0 PROVE st = "running" /\ \A u \in Threads : PromoInv(g[u])
  <2>1. st = "running" /\ \A u \in Threads : PromoInv(f[u])
    BY <1>11 DEF Good
  <2>2. PromoInv(n)
    BY <2>1 DEF JoinEffect, Kept
  <2>3. g[t] = n /\ g[r] = m /\ \A u \in Threads : u # t /\ u # r => g[u] = f[u]
    BY <1>1, <1>3, <1>7 DEF PutBoth
  <2> QED
    BY <2>1, <2>2, <2>3, <1>6
<1>12. /\ sp \in 0 .. MaxSporks /\ be \in 0 .. MaxBeats /\ ra \in 0 .. MaxRaises
       /\ st \in Statuses /\ sw \in Nat
  BY DEF Good
<1> QED
  BY <1>8, <1>9, <1>10, <1>11, <1>12 DEF Good

\* The inductive invariant.
IInv == Good(thread, sporks, beats, raises, spawned, status)

\* The invariant holds initially.
LEMMA Initially == Init => IInv
<1>1. SUFFICES ASSUME Init PROVE Good(thread, 0, 0, 0, 0, "running")
  BY DEF Init, IInv
<1>2. 1 \in 1 .. MaxDepth /\ 0 \in Nat /\ IsFiniteSet(Threads)
  BY BoundsAssumption, ThreadsAssumption
<1>3. ASSUME NEW t \in Threads
      PROVE  /\ Local(thread[t]) /\ PromoInv(thread[t]) /\ Places(thread[t]) = {}
             /\ thread[t].depth = 1 /\ Holds(thread[t]) = 0
  <2>1. PICK pc \in {"none", "run"} : thread[t] = NewThread(pc, 1, 0)
    BY <1>1 DEF Init
  <2>2. PICK n : n = thread[t]
    OBVIOUS
  <2>3. n = NewThread(pc, 1, 0)
    BY <2>1, <2>2
  <2>4. /\ Local(n) /\ PromoInv(n) /\ Places(n) = {} /\ n.depth = 1
        /\ n.given = 0 /\ n.tokens = 0 /\ n.owed = 0
    BY <2>3, <1>2, NewFacts
  <2>5. Holds(n) = 0
    BY <2>4 DEF Holds
  <2> QED
    BY <2>2, <2>4, <2>5
<1>4. thread \in [Threads -> ThreadStates]
  <2>1. PICK th : th = thread
    OBVIOUS
  <2>2. \A t \in Threads : th[t] \in ThreadStates
    BY <2>1, <1>3 DEF Local, Typed
  <2>3. th = [t \in Threads |-> th[t]]
    BY <2>1, <1>1 DEF Init
  <2> QED
    BY <2>1, <2>2, <2>3
<1>5. \A t \in Threads : AreForks(thread[t]) = {} /\ ToPromote(thread[t]) = {}
  BY <1>3 DEF AreForks, ToPromote
<1>6. RightsOK(thread)
  BY <1>5 DEF RightsOK
<1>7. ASSUME NEW t \in Threads PROVE DepthOK(thread, t)
  <2>0. PICK th : th = thread[t]
    OBVIOUS
  <2>1. ForkDepth(thread[t]) = 1
    <3>1. th.depth = 1 /\ AreForks(th) = {}
      BY <2>0, <1>3, <1>5
    <3>2. Cardinality(AreForks(th)) = 0
      BY <3>1, FS_EmptySet
    <3>3. ForkDepth(th) = 1 - 0
      BY <3>1, <3>2 DEF ForkDepth
    <3> QED
      BY <3>3, <2>0
  <2> QED
    BY <2>1, <1>5 DEF DepthOK
<1>8. Global(thread)
  BY <1>3, <1>4, <1>6, <1>7 DEF Global
<1>9. Cardinality(Unfinished(thread)) = 0
  <2>1. Unfinished(thread) = {}
    BY <1>5 DEF Unfinished
  <2> QED
    BY <2>1, FS_EmptySet
<1>10. HeldBy(thread) = 0
  <2>1. PICK v : v = [t \in Threads |-> Holds(thread[t])]
    OBVIOUS
  <2>2. v \in [Threads -> Nat] /\ \A t \in Threads : v[t] = 0
    BY <2>1, <1>3
  <2>3. SumFunction(v) = 0
    BY <2>2, <1>2, SumOfZeros
  <2> QED
    BY <2>1, <2>3 DEF HeldBy
<1>11. /\ MaxSporks \in Nat /\ MaxBeats \in Nat /\ MaxRaises \in Nat /\ HeartbeatTokens \in Nat
       /\ 0 * HeartbeatTokens = 0
  BY BoundsAssumption, TokensAssumption
<1>12. /\ 0 \in 0 .. MaxSporks /\ 0 \in 0 .. MaxBeats /\ 0 \in 0 .. MaxRaises
       /\ 0 + Cardinality(Unfinished(thread)) <= 0
       /\ 0 + HeldBy(thread) <= 0 * HeartbeatTokens
  BY <1>9, <1>10, <1>11
<1>13. \A t \in Threads : PromoInv(thread[t])
  BY <1>3
<1>14. "running" \in Statuses
  BY DEF Statuses
<1> QED
  BY <1>2, <1>8, <1>12, <1>13, <1>14 DEF Good

\* What it says of the thread that steps.
LEMMA ThreadFacts ==
  ASSUME IInv, NEW t \in Threads
  PROVE  Local(thread[t]) /\ thread[t] \in ThreadStates /\ Global(thread)
  BY GoodFacts DEF IInv

\* A step of one thread that makes no fork keeps it.
LEMMA SetStep ==
  ASSUME IInv, NEW t \in Threads, NEW th, th = thread[t], NEW n, Kept(th, n),
         n.depth = th.depth, n.pc # "none",
         SamePlaces(th, n) \/ (\E p \in ToPromote(th) : Lost(th, n, p)),
         Holds(n) <= Holds(th), Set(t, n)
  PROVE  IInv'
<1>1. PICK f : f = thread
  OBVIOUS
<1>2. PICK g : g = thread'
  OBVIOUS
<1>3. Put(f, t, n, g)
  BY <1>1, <1>2 DEF Set, Put
<1>4. Good(f, sporks, beats, raises, spawned, status) /\ th = f[t]
  BY <1>1 DEF IInv
<1>5. Good(g, sporks, beats, raises, spawned, status)
  BY <1>3, <1>4, GoodStep
<1> QED
  BY <1>2, <1>5 DEF IInv, Set

\* The tokens stay where they are.
LEMMA SameHolds ==
  ASSUME NEW th \in ThreadStates, NEW n, SameTokens(th, n)
  PROVE  Holds(n) <= Holds(th) /\ Holds(n) = Holds(th)
<1>1. Holds(th) \in Nat /\ Holds(n) = Holds(th)
  BY HoldsNat DEF SameTokens, Holds
<1> QED
  BY <1>1

\* A call keeps the invariant,
LEMMA CallKeeps ==
  ASSUME IInv, NEW t \in Threads, Call(t)
  PROVE  IInv'
<1>1. PICK th : th = thread[t]
  OBVIOUS
<1>2. PICK n : n = [th EXCEPT !.promoStack = Entries(th), !.stack = Append(@, <<>>)]
  OBVIOUS
<1>3. CallRecord(th, n)
  BY <1>2 DEF CallRecord
<1>4. Local(th) /\ th \in ThreadStates /\ th.pc = "run" /\ Len(th.stack) < MaxFrames /\ Set(t, n)
  BY <1>1, <1>2, ThreadFacts DEF Call, At
<1>5. Kept(th, n) /\ SamePlaces(th, n) /\ n.pc = "run" /\ n.depth = th.depth
      /\ SameTokens(th, n)
  BY <1>3, <1>4, CallStep
<1>6. Holds(n) <= Holds(th)
  BY <1>4, <1>5, SameHolds
<1> QED
  BY <1>1, <1>4, <1>5, <1>6, SetStep

\* ... a return,
LEMMA ReturnKeeps ==
  ASSUME IInv, NEW t \in Threads, Return(t)
  PROVE  IInv'
<1>1. PICK th : th = thread[t]
  OBVIOUS
<1>2. PICK popped : popped = [th EXCEPT !.stack = Front(@)]
  OBVIOUS
<1>3. PICK n : n = IF Last(popped.stack) = <<>> THEN popped
                   ELSE Chopped(popped, Front(th.promoStack))
  OBVIOUS
<1>4. ReturnRecord(th, n)
  BY <1>2, <1>3 DEF ReturnRecord
<1>5. Local(th) /\ th \in ThreadStates /\ th.pc = "run" /\ Len(th.stack) > 1
      /\ Last(th.stack) = <<>> /\ Set(t, n)
  BY <1>1, <1>2, <1>3, ThreadFacts DEF Return, At
<1>6. Kept(th, n) /\ SamePlaces(th, n) /\ n.pc = "run" /\ n.depth = th.depth
      /\ SameTokens(th, n)
  BY <1>4, <1>5, ReturnStep
<1>7. Holds(n) <= Holds(th)
  BY <1>5, <1>6, SameHolds
<1> QED
  BY <1>1, <1>5, <1>6, <1>7, SetStep

\* ... an exception,
LEMMA RaiseKeeps ==
  ASSUME IInv, NEW t \in Threads, Raise(t)
  PROVE  IInv'
<1>1. PICK th : th = thread[t]
  OBVIOUS
<1>2. PICK h : h = SelectLastInSeq(th.stack, LAMBDA frame : frame # <<>>)
  OBVIOUS
<1>3. PICK n : n = [th EXCEPT !.stack = SubSeq(@, 1, h)]
  OBVIOUS
<1>4. /\ th.pc = "run" /\ raises < MaxRaises /\ h # 0
      /\ thread' = [thread EXCEPT ![t].stack = SubSeq(@, 1, h)]
      /\ raises' = raises + 1
      /\ sporks' = sporks /\ beats' = beats /\ spawned' = spawned /\ status' = status
  BY <1>1, <1>2 DEF Raise, At
<1>5. thread' = [thread EXCEPT ![t] = n]
  BY <1>1, <1>3, <1>4
<1>6. RaiseRecord(th, n, h)
  BY <1>2, <1>3, <1>4 DEF RaiseRecord
<1>7. Local(th) /\ th \in ThreadStates
  BY <1>1, ThreadFacts
<1>8. Local(n) /\ SamePlaces(th, n) /\ n.pc = "run" /\ n.depth = th.depth
      /\ SameTokens(th, n)
  BY <1>4, <1>6, <1>7, RaiseStep
<1>9. Holds(n) = Holds(th)
  BY <1>7, <1>8, SameHolds
<1>10. PICK f : f = thread
  OBVIOUS
<1>11. PICK g : g = thread'
  OBVIOUS
<1>12. Put(f, t, n, g) /\ th = f[t] /\ Good(f, sporks, beats, raises, spawned, status)
  BY <1>1, <1>5, <1>10, <1>11 DEF Put, IInv
<1>13. Good(g, sporks, beats, raises + 1, spawned, status)
  BY <1>4, <1>8, <1>9, <1>12, GoodRaise
<1> QED
  BY <1>4, <1>11, <1>13 DEF IInv

\* ... a spork,
LEMMA SporkKeeps ==
  ASSUME IInv, NEW t \in Threads, NEW policy \in Policies, Spork(t, policy)
  PROVE  IInv'
<1>1. PICK th : th = thread[t]
  OBVIOUS
<1>2. PICK s : s = [policy |-> policy, right |-> None]
  OBVIOUS
<1>3. PICK n : n = [th EXCEPT !.pc = "eager", !.stack[Len(th.stack)] = Append(@, s)]
  OBVIOUS
<1>4. /\ th.pc = "run" /\ sporks < MaxSporks /\ Len(Last(th.stack)) < MaxNest
      /\ thread' = [thread EXCEPT ![t] = n]
      /\ sporks' = sporks + 1
      /\ raises' = raises /\ beats' = beats /\ spawned' = spawned /\ status' = status
  BY <1>1, <1>2, <1>3 DEF Spork, At
<1>5. SporkRecord(th, n, s)
  BY <1>3 DEF SporkRecord
<1>6. Local(th) /\ th \in ThreadStates
  BY <1>1, ThreadFacts
<1>7. Kept(th, n) /\ (\E p : Gained(th, n, p)) /\ n.pc = "eager" /\ n.depth = th.depth
      /\ SameTokens(th, n)
  BY <1>2, <1>4, <1>5, <1>6, SporkStep
<1>8. Holds(n) <= Holds(th)
  BY <1>6, <1>7, SameHolds
<1>9. PICK f : f = thread
  OBVIOUS
<1>10. PICK g : g = thread'
  OBVIOUS
<1>11. Put(f, t, n, g) /\ th = f[t] /\ Good(f, sporks, beats, raises, spawned, status)
  BY <1>1, <1>4, <1>9, <1>10 DEF Put, IInv
<1>12. Good(g, sporks + 1, beats, raises, spawned, status)
  BY <1>4, <1>7, <1>8, <1>11, GoodSpork
<1> QED
  BY <1>4, <1>10, <1>12 DEF IInv

\* ... its eager check,
LEMMA CheckKeeps ==
  ASSUME IInv, NEW t \in Threads, CheckEager(t)
  PROVE  IInv'
<1>1. PICK th : th = thread[t]
  OBVIOUS
<1>2. PICK n : n = [th EXCEPT !.pc = IF EnoughToSpawn(th) THEN "tryPromote" ELSE "run"]
  OBVIOUS
<1>3. Local(th) /\ th \in ThreadStates /\ th.pc = "eager" /\ Set(t, n)
  BY <1>1, <1>2, ThreadFacts DEF CheckEager, At
<1>4. Kept(th, n) /\ SamePlaces(th, n) /\ n.pc \in {"tryPromote", "run"}
      /\ n.depth = th.depth /\ SameTokens(th, n)
  BY <1>2, <1>3, CheckStep
<1>5. Holds(n) <= Holds(th) /\ n.pc # "none"
  BY <1>3, <1>4, SameHolds
<1> QED
  BY <1>1, <1>3, <1>4, <1>5, SetStep

\* ... and a heartbeat.
LEMMA BeatKeeps ==
  ASSUME IInv, NEW t \in Threads, Beat(t)
  PROVE  IInv'
<1>1. PICK th : th = thread[t]
  OBVIOUS
<1>2. PICK n : n = [th EXCEPT !.pc = "handler",
                              !.tokens = AddSpare(@, HeartbeatTokens),
                              !.beat = [back |-> th.pc, hadEnough |-> EnoughToSpawn(th),
                                        numSpawned |-> 0]]
  OBVIOUS
<1>3. /\ th.pc \in Interruptible /\ beats < MaxBeats
      /\ thread' = [thread EXCEPT ![t] = n]
      /\ beats' = beats + 1
      /\ raises' = raises /\ sporks' = sporks /\ spawned' = spawned /\ status' = status
  BY <1>1, <1>2 DEF Beat
<1>4. Local(th) /\ th \in ThreadStates
  BY <1>1, ThreadFacts
<1>5. Kept(th, n) /\ SamePlaces(th, n) /\ n.pc = "handler" /\ n.depth = th.depth
      /\ n.tokens <= th.tokens + HeartbeatTokens /\ n.given = th.given /\ n.owed = th.owed
  BY <1>2, <1>3, <1>4, BeatStep
<1>6. Holds(n) <= Holds(th) + HeartbeatTokens
  <2>1. th.tokens \in Nat /\ th.given \in Nat /\ th.owed \in Nat /\ HeartbeatTokens \in Nat
    BY <1>4, Fields, TokensAssumption
  <2>2. n.tokens \in Nat
    BY <1>5, Fields DEF Kept, Local, Typed
  <2> QED
    BY <2>1, <2>2, <1>5 DEF Holds
<1>9. PICK f : f = thread
  OBVIOUS
<1>10. PICK g : g = thread'
  OBVIOUS
<1>11. Put(f, t, n, g) /\ th = f[t] /\ Good(f, sporks, beats, raises, spawned, status)
  BY <1>1, <1>3, <1>9, <1>10 DEF Put, IInv
<1>12. Good(g, sporks, beats + 1, raises, spawned, status)
  BY <1>3, <1>5, <1>6, <1>11, GoodBeat
<1> QED
  BY <1>3, <1>10, <1>12 DEF IInv

\* After an exception the program may die.
LEMMA DieKeeps ==
  ASSUME IInv, raises # 0, NEW message \in Statuses, Die(message)
  PROVE  IInv'
BY DEF IInv, Good, Die

\* Before one, the promotion stack is right.
LEMMA BeforeRaise ==
  ASSUME IInv, raises = 0, NEW t \in Threads
  PROVE  PromoInv(thread[t])
BY DEF IInv, Good

\* A promotion for the right side r.
Spawns(t, x, r) ==
  /\ thread[r].pc = "none"
  /\ \/ /\ Promoted(x, r).promoBot - x.promoBot >= 3
        /\ Die("updatePromoStackOldestPromotableFrame")
     \/ /\ thread' = [thread EXCEPT
             ![t] = IF x.pc = "handler" THEN Promoted(x, r) ELSE Returned(Promoted(x, r)),
             ![r] = NewThread("offered", x.depth + 1,
                              x.tokens - 1 - Promoted(x, r).tokens)]
        /\ spawned' = spawned + 1
        /\ UNCHANGED <<sporks, beats, raises, status>>

\* The right side gets a thread that nobody uses.
LEMMA SpawnsForOne ==
  ASSUME NEW t \in Threads, NEW x, DoSpawn(t, x)
  PROVE  \E r \in Threads : Spawns(t, x, r)
<1>1. PICK fresh : fresh = {r \in Threads : thread[r].pc = "none"}
  OBVIOUS
<1>2. PICK r : r = CHOOSE q \in fresh : TRUE
  OBVIOUS
<1>3. r \in fresh
  <2>1. fresh # {}
    BY <1>1 DEF DoSpawn
  <2> QED
    BY <2>1, <1>2
<1>4. r \in Threads /\ thread[r].pc = "none"
  BY <1>1, <1>3
<1>5. r = CHOOSE q \in {q \in Threads : thread[q].pc = "none"} : TRUE
  BY <1>1, <1>2
<1>6. Spawns(t, x, r)
  BY <1>4, <1>5 DEF DoSpawn, Spawns
<1> QED
  BY <1>4, <1>6

\* The eager promotion keeps the invariant; its assertions hold before an exception.
LEMMA TryPromoteKeeps ==
  ASSUME IInv, NEW t \in Threads, TryPromoteNow(t)
  PROVE  IInv'
<1>1. PICK th : th = thread[t]
  OBVIOUS
<1>2. PICK x : x = [th EXCEPT !.pc = "run"]
  OBVIOUS
<1>3. /\ th.pc = "tryPromote"
      /\ \/ /\ EnoughToSpawn(x) /\ (Confused(x) \/ (MaySpawn(x) /\ ~OnlyOne(x)))
            /\ Die("findNextPromotableFrame")
         \/ /\ EnoughToSpawn(x) /\ ~Confused(x) /\ MaySpawn(x)
            /\ DoSpawn(t, x)
         \/ /\ ~(EnoughToSpawn(x) /\ Confused(x)) /\ ~(EnoughToSpawn(x) /\ MaySpawn(x))
            /\ Set(t, Returned(x))
  BY <1>1, <1>2 DEF TryPromoteNow, At
<1>4. Local(th) /\ th \in ThreadStates /\ Typed(th) /\ SpentInv(th)
  BY <1>1, ThreadFacts DEF Local
<1>5. /\ x.pc = "run" /\ x.depth = th.depth /\ x.stack = th.stack
      /\ x.tokens = th.tokens /\ x.promoStack = th.promoStack /\ x.promoBot = th.promoBot
      /\ x \in ThreadStates
  BY <1>2, <1>4 DEF ThreadStates, Control, Interruptible
<1>6. CASE /\ EnoughToSpawn(x) /\ (Confused(x) \/ (MaySpawn(x) /\ ~OnlyOne(x)))
           /\ Die("findNextPromotableFrame")
  <2>1. ASSUME raises = 0 PROVE FALSE
    <3>1. PromoInv(th)
      BY <1>1, <2>1, BeforeRaise
    <3>2. /\ Typed(x) /\ PromoInv(x)
          /\ OnlyYoungest(th) => OnlyYoungest(x)
      BY <3>1, <1>4, <1>5, SameStacks
    <3>3. ~Confused(x)
      BY <3>2, NeverConfused
    <3>4. MaySpawn(x) /\ ~OnlyOne(x) /\ EnoughToSpawn(x)
      BY <3>3, <1>6
    <3>5. OnlyYoungest(th)
      BY <3>4, <1>3, <1>4, <1>5 DEF SpentInv, EnoughToSpawn, MaySpawn
    <3> QED
      BY <3>2, <3>4, <3>5, OnlyOneLeft
  <2>2. "findNextPromotableFrame" \in Statuses
    BY DEF Statuses
  <2> QED
    BY <2>1, <2>2, <1>6, DieKeeps
<1>7. CASE /\ EnoughToSpawn(x) /\ ~Confused(x) /\ MaySpawn(x)
           /\ DoSpawn(t, x)
  <2>1. PICK r \in Threads : Spawns(t, x, r)
    BY <1>7, SpawnsForOne
  <2>2. PICK y : y = Promoted(x, r)
    OBVIOUS
  <2>3. PICK n : n = Returned(y)
    OBVIOUS
  <2>4. /\ SpawnEffect(th, n, r) /\ n.pc = "run" /\ n.tokens = y.tokens
        /\ y.promoBot \in Nat /\ (PromoInv(th) => y.promoBot <= th.promoBot + 2)
    BY <2>2, <2>3, <1>2, <1>3, <1>4, <1>7, EagerStep
  <2>5. CASE /\ Promoted(x, r).promoBot - x.promoBot >= 3
             /\ Die("updatePromoStackOldestPromotableFrame")
    <3>1. ASSUME raises = 0 PROVE FALSE
      <4>1. PromoInv(th)
        BY <1>1, <3>1, BeforeRaise
      <4>2. th.promoBot \in Nat
        BY <1>4, Fields
      <4>3. y.promoBot - th.promoBot >= 3
        BY <2>2, <2>5, <1>5
      <4> QED
        BY <4>1, <4>2, <4>3, <2>4
    <3>2. "updatePromoStackOldestPromotableFrame" \in Statuses
      BY DEF Statuses
    <3> QED
      BY <3>1, <3>2, <2>5, DieKeeps
  <2>6. CASE ~(/\ Promoted(x, r).promoBot - x.promoBot >= 3
               /\ Die("updatePromoStackOldestPromotableFrame"))
    <3>1. PICK m : m = NewThread("offered", th.depth + 1, th.tokens - 1 - n.tokens)
      OBVIOUS
    <3>2. /\ thread' = [thread EXCEPT ![t] = n, ![r] = m]
          /\ spawned' = spawned + 1 /\ thread[r].pc = "none"
          /\ sporks' = sporks /\ beats' = beats /\ raises' = raises /\ status' = status
      BY <3>1, <2>1, <2>2, <2>3, <2>4, <2>6, <1>5 DEF Spawns
    <3>3. PICK f : f = thread
      OBVIOUS
    <3>4. PICK g : g = thread'
      OBVIOUS
    <3>5. /\ PutBoth(f, t, n, r, m, g) /\ th = f[t] /\ f[r].pc = "none" /\ f[t].pc # "none"
          /\ n.pc # "none" /\ SpawnEffect(f[t], n, r)
          /\ m = NewThread("offered", f[t].depth + 1, f[t].tokens - 1 - n.tokens)
          /\ Good(f, sporks, beats, raises, spawned, status)
      BY <3>1, <3>2, <3>3, <3>4, <2>4, <1>1, <1>3 DEF PutBoth, IInv
    <3>6. Good(g, sporks, beats, raises, spawned + 1, status)
      BY <3>5, GoodSpawn
    <3> QED
      BY <3>2, <3>4, <3>6 DEF IInv
  <2> QED
    BY <2>5, <2>6
<1>8. CASE /\ ~(EnoughToSpawn(x) /\ Confused(x)) /\ ~(EnoughToSpawn(x) /\ MaySpawn(x))
           /\ Set(t, Returned(x))
  <2>1. PICK n : n = Returned(x)
    OBVIOUS
  <2>2. Kept(th, n) /\ SamePlaces(th, n) /\ n.pc = "run"
        /\ n.depth = th.depth /\ SameTokens(th, n)
    BY <2>1, <1>2, <1>3, <1>4, <1>8, TryIdleStep
  <2>3. Holds(n) <= Holds(th) /\ n.pc # "none" /\ Set(t, n)
    BY <2>1, <2>2, <1>4, <1>8, SameHolds
  <2> QED
    BY <2>2, <2>3, <1>1, SetStep
<1> QED
  BY <1>3, <1>6, <1>7, <1>8

\* So does a promotion in the handler,
LEMMA HandlerSpawnsKeeps ==
  ASSUME IInv, NEW t \in Threads, HandlerSpawns(t)
  PROVE  IInv'
<1>1. PICK th : th = thread[t]
  OBVIOUS
<1>2. PICK x : x = [th EXCEPT !.beat.numSpawned = @ + 1]
  OBVIOUS
<1>3. /\ th.pc = "handler" /\ EnoughToSpawn(x)
      /\ \/ Confused(x) /\ Die("findNextPromotableFrame")
         \/ ~Confused(x) /\ MaySpawn(x) /\ DoSpawn(t, x)
  BY <1>1, <1>2 DEF HandlerSpawns, At
<1>4. Local(th) /\ th \in ThreadStates /\ Typed(th) /\ HandlerRecord(th, x)
  BY <1>1, <1>2, ThreadFacts DEF Local, HandlerRecord
<1>5. /\ x.pc = "handler" /\ x.depth = th.depth /\ x.stack = th.stack
      /\ x.tokens = th.tokens /\ x.promoStack = th.promoStack /\ x.promoBot = th.promoBot
      /\ x \in ThreadStates
  <2>1. PICK beat : beat = [th.beat EXCEPT !.numSpawned = @ + 1]
    OBVIOUS
  <2>2. beat \in [back : Interruptible, hadEnough : BOOLEAN, numSpawned : Nat]
    <3>1. th.beat \in [back : Interruptible, hadEnough : BOOLEAN, numSpawned : Nat]
      BY <1>4, Fields
    <3> QED
      BY <2>1, <3>1
  <2>3. x = [th EXCEPT !.beat = beat]
    BY <1>2, <2>1
  <2> QED
    BY <2>2, <2>3, <1>3, <1>4 DEF ThreadStates
<1>6. CASE Confused(x) /\ Die("findNextPromotableFrame")
  <2>1. ASSUME raises = 0 PROVE FALSE
    <3>1. PromoInv(th)
      BY <1>1, <2>1, BeforeRaise
    <3>2. Typed(x) /\ PromoInv(x)
      BY <3>1, <1>4, <1>5, SameStacks
    <3> QED
      BY <3>2, <1>6, NeverConfused
  <2>2. "findNextPromotableFrame" \in Statuses
    BY DEF Statuses
  <2> QED
    BY <2>1, <2>2, <1>6, DieKeeps
<1>7. CASE ~Confused(x) /\ MaySpawn(x) /\ DoSpawn(t, x)
  <2>1. PICK r \in Threads : Spawns(t, x, r)
    BY <1>7, SpawnsForOne
  <2>2. PICK n : n = Promoted(x, r)
    OBVIOUS
  <2>4. /\ SpawnEffect(th, n, r) /\ n.pc = "handler"
        /\ (PromoInv(th) => n.promoBot <= th.promoBot + 2)
    BY <2>2, <1>3, <1>4, <1>7, HandlerSpawnStep
  <2>5. CASE /\ Promoted(x, r).promoBot - x.promoBot >= 3
             /\ Die("updatePromoStackOldestPromotableFrame")
    <3>1. ASSUME raises = 0 PROVE FALSE
      <4>1. PromoInv(th)
        BY <1>1, <3>1, BeforeRaise
      <4>2. th.promoBot \in Nat /\ n.promoBot \in Nat
        BY <2>4, <1>4, Fields DEF SpawnEffect, Kept, Local, Typed
      <4>3. n.promoBot - th.promoBot >= 3
        BY <2>2, <2>5, <1>5
      <4> QED
        BY <4>1, <4>2, <4>3, <2>4
    <3>2. "updatePromoStackOldestPromotableFrame" \in Statuses
      BY DEF Statuses
    <3> QED
      BY <3>1, <3>2, <2>5, DieKeeps
  <2>6. CASE ~(/\ Promoted(x, r).promoBot - x.promoBot >= 3
               /\ Die("updatePromoStackOldestPromotableFrame"))
    <3>1. PICK m : m = NewThread("offered", th.depth + 1, th.tokens - 1 - n.tokens)
      OBVIOUS
    <3>2. /\ thread' = [thread EXCEPT ![t] = n, ![r] = m]
          /\ spawned' = spawned + 1 /\ thread[r].pc = "none"
          /\ sporks' = sporks /\ beats' = beats /\ raises' = raises /\ status' = status
      BY <3>1, <2>1, <2>2, <2>6, <1>5 DEF Spawns
    <3>3. PICK f : f = thread
      OBVIOUS
    <3>4. PICK g : g = thread'
      OBVIOUS
    <3>5. /\ PutBoth(f, t, n, r, m, g) /\ th = f[t] /\ f[r].pc = "none" /\ f[t].pc # "none"
          /\ n.pc # "none" /\ SpawnEffect(f[t], n, r)
          /\ m = NewThread("offered", f[t].depth + 1, f[t].tokens - 1 - n.tokens)
          /\ Good(f, sporks, beats, raises, spawned, status)
      BY <3>1, <3>2, <3>3, <3>4, <2>4, <1>1, <1>3 DEF PutBoth, IInv
    <3>6. Good(g, sporks, beats, raises, spawned + 1, status)
      BY <3>5, GoodSpawn
    <3> QED
      BY <3>2, <3>4, <3>6 DEF IInv
  <2> QED
    BY <2>5, <2>6
<1> QED
  BY <1>3, <1>6, <1>7

\* ... and its end: a beat that came with a token at hand found one spork at most.
LEMMA HandlerEndsKeeps ==
  ASSUME IInv, NEW t \in Threads, HandlerEnds(t)
  PROVE  IInv'
<1>1. PICK th : th = thread[t]
  OBVIOUS
<1>2. PICK x : x = [th EXCEPT !.pc = th.beat.back, !.beat = NewThread("run", 1, 0).beat]
  OBVIOUS
<1>3. PICK n : n = Returned(x)
  OBVIOUS
<1>4. /\ th.pc = "handler" /\ (EnoughToSpawn(th) => ~Confused(th) /\ ~MaySpawn(th))
      /\ (th.beat.hadEnough /\ th.beat.numSpawned > 1) \/ Set(t, n)
  BY <1>1, <1>2, <1>3 DEF HandlerEnds, At
<1>5. Local(th) /\ th \in ThreadStates
  BY <1>1, ThreadFacts
<1>6. ~(th.beat.hadEnough /\ th.beat.numSpawned > 1)
  BY <1>4, <1>5 DEF Local, SpentInv
<1>7. /\ Kept(th, n) /\ SamePlaces(th, n) /\ n.pc \in Interruptible
      /\ n.depth = th.depth /\ SameTokens(th, n)
  BY <1>2, <1>3, <1>4, <1>5, HandlerEndStep
<1>8. Holds(n) <= Holds(th) /\ n.pc # "none"
  BY <1>5, <1>7, SameHolds DEF Interruptible
<1> QED
  BY <1>1, <1>4, <1>6, <1>7, <1>8, SetStep

\* The end of a spork that was not promoted keeps the invariant,
LEMMA SpoinSeqKeeps ==
  ASSUME IInv, NEW t \in Threads, SpoinSeq(t)
  PROVE  IInv'
<1>1. PICK th : th = thread[t]
  OBVIOUS
<1>2. PICK n : n = Left(t)
  OBVIOUS
<1>3. /\ th.pc = "run" /\ Last(th.stack) # <<>> /\ Promotable(Last(Last(th.stack)))
      /\ Set(t, n)
  BY <1>1, <1>2 DEF SpoinSeq, MayLeave, At, Innermost
<1>4. LeftRecord(th, n)
  BY <1>1, <1>2 DEF LeftRecord, Left
<1>5. Local(th) /\ th \in ThreadStates
  BY <1>1, ThreadFacts
<1>6. /\ Kept(th, n) /\ \E p \in ToPromote(th) : Lost(th, n, p)
      /\ n.pc = "run" /\ n.depth = th.depth /\ SameTokens(th, n)
  BY <1>3, <1>4, <1>5, SpoinSeqStep
<1>7. Holds(n) <= Holds(th) /\ n.pc # "none"
  BY <1>5, <1>6, SameHolds
<1> QED
  BY <1>1, <1>3, <1>6, <1>7, SetStep

\* Who joins is at least at depth 2, and is not its own right side.
LEMMA JoinDepth ==
  ASSUME IInv, NEW t \in Threads, NEW th, th = thread[t], th.pc = "run",
         Last(th.stack) # <<>>, NEW r \in Threads, Last(Last(th.stack)).right = r
  PROVE  th.depth >= 2
<1>1. PICK f : f = thread
  OBVIOUS
<1>2. Global(f) /\ Local(th) /\ th = f[t]
  BY <1>1, ThreadFacts
<1>3. PICK m : LeftRecord(th, m)
  BY DEF LeftRecord
<1>4. PICK p : LeftEffect(th, m, p)
  BY <1>2, <1>3, LeftFacts
<1>5. p \in AreForks(th)
  BY <1>4, ForkLeft
<1>6. /\ th.depth \in Nat /\ Cardinality(AreForks(th)) \in Nat /\ IsFiniteSet(AreForks(th))
      /\ th.depth - Cardinality(AreForks(th)) >= 1
  BY <1>2, GlobalFork
<1>7. Cardinality(AreForks(th)) # 0
  BY <1>5, <1>6, FS_EmptySet
<1> QED
  BY <1>6, <1>7

\* ... a join whose right side was not stolen,
LEMMA JoinUnstolenKeeps ==
  ASSUME IInv, NEW t \in Threads, JoinUnstolen(t)
  PROVE  IInv'
<1>1. PICK th : th = thread[t]
  OBVIOUS
<1>2. PICK l : l = Left(t)
  OBVIOUS
<1>3. PICK m : m = NewThread("none", 1, 0)
  OBVIOUS
<1>4. PICK r \in Threads :
         /\ Last(Last(th.stack)).right = r /\ thread[r].pc = "offered"
         /\ thread' = [thread EXCEPT
              ![t] = [l EXCEPT
                        !.pc = "giveBack", !.depth = @ - 1,
                        !.owed = IF Last(Last(th.stack)).policy = "give"
                                   THEN thread[r].given ELSE 0],
              ![r] = m]
         /\ sporks' = sporks /\ beats' = beats /\ raises' = raises /\ spawned' = spawned
         /\ status' = status
  BY <1>1, <1>2, <1>3 DEF JoinUnstolen, Innermost
<1>5. th.pc = "run" /\ Last(th.stack) # <<>>
  BY <1>1 DEF JoinUnstolen, MayLeave, At
<1>6. /\ Local(th) /\ th \in ThreadStates /\ thread[r] \in ThreadStates /\ r # t
      /\ LeftRecord(th, l)
  BY <1>1, <1>2, <1>4, <1>5, ThreadFacts DEF LeftRecord, Left
<1>7. th.depth >= 2
  BY <1>1, <1>4, <1>5, JoinDepth
<1>8. PICK owed : owed = IF Last(Last(th.stack)).policy = "give" THEN thread[r].given ELSE 0
  OBVIOUS
<1>9. owed \in Nat /\ owed <= thread[r].given
  <2>1. thread[r].given \in Nat
    BY <1>6, Fields
  <2> QED
    BY <2>1, <1>8
<1>10. PICK n : n = [l EXCEPT !.pc = "giveBack", !.depth = @ - 1, !.owed = owed]
  OBVIOUS
<1>u. UnstolenRecord(l, n, owed)
  BY <1>10 DEF UnstolenRecord
<1>11. JoinEffect(th, n, r) /\ n.pc = "giveBack" /\ n.tokens = th.tokens /\ n.owed = owed
  BY <1>4, <1>5, <1>6, <1>7, <1>9, <1>u, JoinUnstolenStep
<1>12. PICK f : f = thread
  OBVIOUS
<1>13. PICK g : g = thread'
  OBVIOUS
<1>14. Holds(n) <= Holds(f[t]) + Holds(f[r])
  <2>1. /\ f[r].tokens \in Nat /\ f[r].given \in Nat /\ f[r].owed \in Nat
        /\ th.tokens \in Nat /\ th.given \in Nat /\ th.owed \in Nat
    BY <1>6, <1>12, Fields
  <2>2. n.tokens = th.tokens /\ n.given = th.given /\ n.owed = owed
    BY <1>11 DEF JoinEffect
  <2>3. f[t] = th /\ owed <= f[r].given
    BY <1>1, <1>9, <1>12
  <2> QED
    BY <2>1, <2>2, <2>3, <1>9 DEF Holds
<1>15. /\ PutBoth(f, t, n, r, m, g) /\ f[r].pc \in {"offered", "done"} /\ n.pc # "none"
       /\ JoinEffect(f[t], n, r) /\ Good(f, sporks, beats, raises, spawned, status)
  BY <1>1, <1>4, <1>8, <1>10, <1>11, <1>12, <1>13 DEF PutBoth, IInv
<1>16. Good(g, sporks, beats, raises, spawned, status)
  BY <1>3, <1>6, <1>14, <1>15, GoodJoin
<1> QED
  BY <1>4, <1>13, <1>16 DEF IInv

\* ... a join with one that is done,
LEMMA JoinKeeps ==
  ASSUME IInv, NEW t \in Threads, Join(t)
  PROVE  IInv'
<1>1. PICK th : th = thread[t]
  OBVIOUS
<1>2. PICK l : l = Left(t)
  OBVIOUS
<1>3. PICK m : m = NewThread("none", 1, 0)
  OBVIOUS
<1>4. PICK r \in Threads :
         /\ Last(Last(th.stack)).right = r /\ thread[r].pc = "done"
         /\ thread' = [thread EXCEPT
              ![t] = [l EXCEPT !.depth = @ - 1, !.tokens = @ + thread[r].tokens],
              ![r] = m]
         /\ sporks' = sporks /\ beats' = beats /\ raises' = raises /\ spawned' = spawned
         /\ status' = status
  BY <1>1, <1>2, <1>3 DEF Join, Innermost
<1>5. th.pc = "run" /\ Last(th.stack) # <<>>
  BY <1>1 DEF Join, MayLeave, At
<1>6. /\ Local(th) /\ th \in ThreadStates /\ thread[r] \in ThreadStates /\ r # t
      /\ LeftRecord(th, l)
  BY <1>1, <1>2, <1>4, <1>5, ThreadFacts DEF LeftRecord, Left
<1>7. th.depth >= 2
  BY <1>1, <1>4, <1>5, JoinDepth
<1>8. PICK tokens : tokens = thread[r].tokens
  OBVIOUS
<1>9. tokens \in Nat
  BY <1>6, <1>8, Fields
<1>10. PICK n : n = [l EXCEPT !.depth = @ - 1, !.tokens = @ + tokens]
  OBVIOUS
<1>u. JoinedRecord(l, n, tokens)
  BY <1>10 DEF JoinedRecord
<1>11. JoinEffect(th, n, r) /\ n.pc = "run" /\ n.tokens = th.tokens + tokens
       /\ n.owed = th.owed
  BY <1>4, <1>5, <1>6, <1>7, <1>9, <1>u, JoinStep
<1>12. PICK f : f = thread
  OBVIOUS
<1>13. PICK g : g = thread'
  OBVIOUS
<1>14. Holds(n) <= Holds(f[t]) + Holds(f[r])
  <2>1. /\ f[r].tokens \in Nat /\ f[r].given \in Nat /\ f[r].owed \in Nat
        /\ th.tokens \in Nat /\ th.given \in Nat /\ th.owed \in Nat
    BY <1>6, <1>12, Fields
  <2>2. n.tokens = th.tokens + tokens /\ n.given = th.given /\ n.owed = th.owed
    BY <1>11 DEF JoinEffect
  <2>3. f[t] = th /\ tokens = f[r].tokens
    BY <1>1, <1>8, <1>12
  <2> QED
    BY <2>1, <2>2, <2>3 DEF Holds
<1>15. /\ PutBoth(f, t, n, r, m, g) /\ f[r].pc \in {"offered", "done"} /\ n.pc # "none"
       /\ JoinEffect(f[t], n, r) /\ Good(f, sporks, beats, raises, spawned, status)
  BY <1>1, <1>4, <1>8, <1>10, <1>11, <1>12, <1>13 DEF PutBoth, IInv
<1>16. Good(g, sporks, beats, raises, spawned, status)
  BY <1>3, <1>6, <1>14, <1>15, GoodJoin
<1> QED
  BY <1>4, <1>13, <1>16 DEF IInv

\* ... what is given back at a join,
LEMMA GiveBackKeeps ==
  ASSUME IInv, NEW t \in Threads, GiveBack(t)
  PROVE  IInv'
<1>1. PICK th : th = thread[t]
  OBVIOUS
<1>2. PICK n : n = [th EXCEPT !.pc = "run", !.tokens = AddSpare(@, th.owed), !.owed = 0]
  OBVIOUS
<1>3. th.pc = "giveBack" /\ Set(t, n)
  BY <1>1, <1>2 DEF GiveBack, At
<1>4. Local(th) /\ th \in ThreadStates
  BY <1>1, ThreadFacts
<1>5. /\ Kept(th, n) /\ SamePlaces(th, n) /\ n.pc = "run" /\ n.depth = th.depth
      /\ n.given = th.given /\ n.owed = 0 /\ n.tokens <= th.tokens + th.owed
  BY <1>2, <1>3, <1>4, GiveBackStep
<1>6. Holds(n) <= Holds(th)
  <2>1. th.tokens \in Nat /\ th.given \in Nat /\ th.owed \in Nat
    BY <1>4, Fields
  <2>2. n.tokens \in Nat
    BY <1>5, Fields DEF Kept, Local, Typed
  <2> QED
    BY <2>1, <2>2, <1>5 DEF Holds
<1> QED
  BY <1>1, <1>3, <1>5, <1>6, SetStep

\* ... a steal,
LEMMA StealKeeps ==
  ASSUME IInv, NEW r \in Threads, Steal(r)
  PROVE  IInv'
<1>1. PICK th : th = thread[r]
  OBVIOUS
<1>2. PICK n : n = [th EXCEPT !.pc = "run", !.tokens = AddSpare(@, th.given), !.given = 0]
  OBVIOUS
<1>3. th.pc = "offered" /\ Set(r, n)
  BY <1>1, <1>2 DEF Steal, At
<1>4. Local(th) /\ th \in ThreadStates
  BY <1>1, ThreadFacts
<1>5. /\ Kept(th, n) /\ SamePlaces(th, n) /\ n.pc = "run" /\ n.depth = th.depth
      /\ n.given = 0 /\ n.owed = th.owed /\ n.tokens <= th.tokens + th.given
  BY <1>2, <1>3, <1>4, StealStep
<1>6. Holds(n) <= Holds(th)
  <2>1. th.tokens \in Nat /\ th.given \in Nat /\ th.owed \in Nat
    BY <1>4, Fields
  <2>2. n.tokens \in Nat
    BY <1>5, Fields DEF Kept, Local, Typed
  <2> QED
    BY <2>1, <2>2, <1>5 DEF Holds
<1> QED
  BY <1>1, <1>3, <1>5, <1>6, SetStep

\* ... and the end of a right side.
LEMMA FinishKeeps ==
  ASSUME IInv, NEW r \in Threads, Finish(r)
  PROVE  IInv'
<1>1. PICK th : th = thread[r]
  OBVIOUS
<1>2. PICK n : n = [th EXCEPT !.pc = "done"]
  OBVIOUS
<1>3. th.pc = "run" /\ th.stack = <<(<<>>)>> /\ Set(r, n)
  BY <1>1, <1>2 DEF Finish, At
<1>4. Local(th) /\ th \in ThreadStates
  BY <1>1, ThreadFacts
<1>5. Kept(th, n) /\ SamePlaces(th, n) /\ n.pc = "done" /\ n.depth = th.depth
      /\ SameTokens(th, n)
  BY <1>2, <1>3, <1>4, FinishStep
<1>6. Holds(n) <= Holds(th) /\ n.pc # "none"
  BY <1>4, <1>5, SameHolds
<1> QED
  BY <1>1, <1>3, <1>5, <1>6, SetStep

\* Nothing changes.
LEMMA Stutters == ASSUME IInv, UNCHANGED vars PROVE IInv'
BY DEF IInv, Good, vars

\* Every step keeps the invariant.
LEMMA Preserved == IInv /\ [Next]_vars => IInv'
<1> SUFFICES ASSUME IInv, [Next]_vars PROVE IInv'
  OBVIOUS
<1>1. CASE Stop \/ UNCHANGED vars
  BY <1>1, Stutters DEF Stop
<1>2. CASE \E t \in Threads :
       \/ Call(t) \/ Return(t) \/ Raise(t)
       \/ \E policy \in Policies : Spork(t, policy)
       \/ CheckEager(t) \/ TryPromoteNow(t)
       \/ Beat(t) \/ HandlerSpawns(t) \/ HandlerEnds(t)
       \/ SpoinSeq(t) \/ JoinUnstolen(t) \/ GiveBack(t) \/ Join(t)
       \/ Steal(t) \/ Finish(t)
  <2>1. PICK t \in Threads :
       \/ Call(t) \/ Return(t) \/ Raise(t)
       \/ \E policy \in Policies : Spork(t, policy)
       \/ CheckEager(t) \/ TryPromoteNow(t)
       \/ Beat(t) \/ HandlerSpawns(t) \/ HandlerEnds(t)
       \/ SpoinSeq(t) \/ JoinUnstolen(t) \/ GiveBack(t) \/ Join(t)
       \/ Steal(t) \/ Finish(t)
    BY <1>2
  <2>2. CASE Call(t) \/ Return(t) \/ Raise(t)
    BY <2>2, CallKeeps, ReturnKeeps, RaiseKeeps
  <2>3. CASE \E policy \in Policies : Spork(t, policy)
    BY <2>3, SporkKeeps
  <2>4. CASE CheckEager(t) \/ TryPromoteNow(t)
    BY <2>4, CheckKeeps, TryPromoteKeeps
  <2>5. CASE Beat(t) \/ HandlerSpawns(t) \/ HandlerEnds(t)
    BY <2>5, BeatKeeps, HandlerSpawnsKeeps, HandlerEndsKeeps
  <2>6. CASE SpoinSeq(t) \/ JoinUnstolen(t) \/ GiveBack(t) \/ Join(t)
    BY <2>6, SpoinSeqKeeps, JoinUnstolenKeeps, GiveBackKeeps, JoinKeeps
  <2>7. CASE Steal(t) \/ Finish(t)
    BY <2>7, StealKeeps, FinishKeeps
  <2> QED
    BY <2>1, <2>2, <2>3, <2>4, <2>5, <2>6, <2>7
<1> QED
  BY <1>1, <1>2 DEF Next

\* The inductive invariant of heartbeat scheduling: forks come before what is
\* not promoted, a token at hand was spent, and no token is made up.
THEOREM Invariant == Spec => []IInv
<1>1. IInv /\ [Next]_vars => IInv'
  BY Preserved
<1> QED
  BY Initially, <1>1, PTL DEF Spec

\* The types are part of it.
LEMMA TypesFollow == IInv => TypeOK
<1> SUFFICES ASSUME IInv PROVE TypeOK
  OBVIOUS
<1>1. PICK f : f = thread
  OBVIOUS
<1>2. Good(f, sporks, beats, raises, spawned, status)
  BY <1>1 DEF IInv
<1>3. f \in [Threads -> ThreadStates] /\ \A t \in Threads : Typed(f[t])
  BY <1>2 DEF Good, Global, Local
<1>4. ASSUME NEW t \in Threads
      PROVE  f[t].promoBot <= Len(f[t].promoStack) + 1
  <2>1. PICK th : th = f[t]
    OBVIOUS
  <2>2. /\ Typed(th) /\ th.promoBot <= Len(Entries(th)) /\ Len(th.promoStack) \in Nat
        /\ Len(Entries(th)) \in Nat /\ th.promoBot \in Nat
        /\ \/ Entries(th) = th.promoStack
           \/ Len(Entries(th)) = Len(th.promoStack) + 1
    BY <2>1, <1>3, TypedFacts
  <2>3. th.promoBot <= Len(th.promoStack) + 1
    BY <2>2
  <2> QED
    BY <2>1, <2>3
<1>5. \A t \in Threads : /\ Len(f[t].stack) \in 1 .. MaxFrames
                         /\ \A i \in DOMAIN f[t].stack : Len(f[t].stack[i]) <= MaxNest
  BY <1>3 DEF Typed
<1>6. spawned \in 0 .. sporks
  <2>1. Cardinality(Unfinished(f)) \in Nat
    BY <1>3, <1>2, UnfinishedIsFinite DEF Good
  <2>2. spawned \in Nat /\ spawned + Cardinality(Unfinished(f)) <= sporks
        /\ sporks \in 0 .. MaxSporks
    BY <1>2 DEF Good
  <2>3. MaxSporks \in Nat
    BY BoundsAssumption
  <2> QED
    BY <2>1, <2>2, <2>3
<1>7. /\ sporks \in 0 .. MaxSporks /\ beats \in 0 .. MaxBeats /\ raises \in 0 .. MaxRaises
      /\ status \in Statuses
  BY <1>2 DEF Good
<1> QED
  BY <1>1, <1>3, <1>4, <1>5, <1>6, <1>7 DEF TypeOK

\* Threads, their stacks and the counters have the types of the code.
THEOREM TypeCorrect == Spec => []TypeOK
BY Invariant, TypesFollow, PTL

\* Tokens at hand are spent.
LEMMA SpentFollows == IInv => TokensAreSpent
<1> SUFFICES ASSUME IInv, NEW t \in Live, NEW th, th = thread[t],
                    EnoughToSpawn(th), th.depth < MaxDepth, th.pc # "handler",
                    NEW p \in ToPromote(th)
             PROVE  th.pc \in {"eager", "tryPromote"} /\ \A q \in Places(th) : ~Older(p, q)
  BY DEF TokensAreSpent
<1>1. t \in Threads
  BY DEF Live
<1>2. SpentInv(th)
  BY <1>1, ThreadFacts DEF Local
<1> QED
  BY <1>2 DEF SpentInv, OnlyYoungest, NoneLeft

\* A thread that has a token and may still fork has promoted all sporks but the
\* one it just entered (assertTokenInvariants in Scheduler.sml).
THEOREM TokensAreSpentHolds == Spec => []TokensAreSpent
BY Invariant, SpentFollows, PTL

\* No token is made up.
LEMMA BackedFollows == IInv => TokensAreBacked
BY DEF IInv, Good, HeldBy, Holds, TokensAreBacked

\* What was spent on promotions and what is held came from the heartbeats.
THEOREM TokensAreBackedHolds == Spec => []TokensAreBacked
BY Invariant, BackedFollows, PTL

\* Tokens are neither kept back nor made up.
THEOREM TokensAreKeptHolds == Spec => []TokensAreKept
<1>1. IInv => TokensAreKept
  BY TypesFollow, SpentFollows, BackedFollows DEF TokensAreKept
<1> QED
  BY Invariant, <1>1, PTL

\* Forks are older than what is not promoted.
LEMMA OldestFirstFollows == IInv => OldestFirst
<1> SUFFICES ASSUME IInv PROVE OldestFirst
  OBVIOUS
<1>1. PICK f : f = thread
  OBVIOUS
<1>2. Global(f)
  BY <1>1 DEF IInv, Good
<1>3. ASSUME NEW t \in Threads, NEW p \in AreForks(f[t])
      PROVE  /\ OlderThan(f[t], p) \subseteq AreForks(f[t])
             /\ ForkDepth(f[SlotAt(f[t], p).right]) =
                  ForkDepth(f[t]) + Cardinality(OlderThan(f[t], p)) + 1
  BY <1>2 DEF Global, Local, ForksFirst, DepthOK, RightOf
<1> QED
  BY <1>1, <1>3 DEF OldestFirst, Live

\* Sporks are promoted oldest first, and the depth of a thread counts them: at
\* a join both threads are at the depth that HM_HH_merge asserts.
THEOREM OldestFirstHolds == Spec => []OldestFirst
BY Invariant, OldestFirstFollows, PTL

\* The promotion stack leads to the oldest frame.
LEMMA FindsOldestFollows == IInv => FindsOldestBeforeRaise
<1> SUFFICES ASSUME IInv, raises = 0, NEW t \in Live, NEW th, th = thread[t]
             PROVE  OldestPromotableFrame(th) = FindPromotableFrame(th)
  BY DEF FindsOldestBeforeRaise, PromoStackFindsOldest
<1>1. t \in Threads
  BY DEF Live
<1>2. Typed(th) /\ PromoInv(th)
  BY <1>1, ThreadFacts, BeforeRaise DEF Local
<1>3. PICK e : e = Entries(th)
  OBVIOUS
<1>4. PICK f : f = FirstEntry(th)
  OBVIOUS
<1> QED
  BY <1>2, <1>3, <1>4, FindsOldest DEF PromoInv

\* Until an exception the promotion stack finds the frame that the walk over the
\* whole stack finds (the assertion of thread.c).
THEOREM FindsOldestHolds == Spec => []FindsOldestBeforeRaise
BY Invariant, FindsOldestFollows, PTL

\* No assertion fails.
LEMMA NeverDiesFollows == IInv => NeverDies
BY DEF IInv, Good, NeverDies, Running

\* Until an exception no assertion of the scheduler or the runtime fails.
THEOREM NeverDiesHolds == Spec => []NeverDies
BY Invariant, NeverDiesFollows, PTL

\* The frame that is promoted is the one with the oldest spork, and no promotion
\* fails.
THEOREM PromotesOldestHolds == Spec => []PromotesOldest
<1>1. IInv => PromotesOldest
  BY OldestFirstFollows, FindsOldestFollows, NeverDiesFollows DEF PromotesOldest
<1> QED
  BY Invariant, <1>1, PTL
=============================================================================
