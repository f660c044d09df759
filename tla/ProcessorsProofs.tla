-------------------------- MODULE ProcessorsProofs --------------------------
(***************************************************************************)
(* What processors agree on outside the scheduler, for any number of them. *)
(*                                                                         *)
(* Epoch-based reclamation is safe for every number of records, with store *)
(* buffers of any size.  A processor that may have a pointer to a record   *)
(* lets the epoch advance once at most: those who look at it in the new    *)
(* epoch find an older announcement, and it is not quiescent (Blocked).  A *)
(* bag is freed at the third rotation after its last record came in, and   *)
(* every rotation sees a later epoch than the one before.  HeldInv counts  *)
(* the rotations that are still possible: after the second, the epoch      *)
(* stands still.                                                           *)
(*                                                                         *)
(* At the end of the program no signal goes to a thread that has exited,   *)
(* and one processor leads.  The status of a processor counts those who    *)
(* are signalling it, so that the compare-and-swap from 1 to 0 with which  *)
(* it exits says that nobody is (StatusInv).  A count that a sender loaded *)
(* before the target exited is at least 1 (RelayInv), so its own           *)
(* compare-and-swap fails.                                                 *)
(***************************************************************************)
EXTENDS MCProcessors, SequenceTheorems, FiniteSetTheorems, TLAPS

(* What others have seen of p or are going to see, while it stores nothing.*)
All(p) == {announce[p]} \union {buffer[p][j] : j \in 1 .. Len(buffer[p])}

InCall(p) == local[p].pc \in {"rotate", "check", "advance", "announce"}

(* The epoch of p's last rotation, or of the one it is about to do.        *)
Cur(p) == IF InCall(p) THEN local[p].epoch ELSE OwnAnnouncement(p).epoch

(* p has looked at q in this epoch, with success.                          *)
Counted(p, q) == Cur(p) = epoch /\ ~AtStep(p, "rotate") /\ q < checkNext[p]

Blocked(q) ==
  /\ \A a \in All(q) : a.epoch # epoch
  /\ \A p \in Procs : ~Counted(p, q)

(* How many rotations of p a bag has behind it, with the one p is about to *)
(* do.                                                                     *)
Rounds(p, i) ==
  (IF i = limboIdx[p] THEN 0 ELSE IF NextBag(i) = limboIdx[p] THEN 1 ELSE 2)
    + (IF AtStep(p, "rotate") THEN 1 ELSE 0)

AnnouncedInv ==
  \A p \in Procs :
    /\ local[p].epoch <= epoch
    /\ \A a \in All(p) :
         /\ a.epoch <= epoch
         /\ a.qbit => ~AtStep(p, "operation") /\ (InCall(p) => local[p].collected)
    /\ AtStep(p, "finish") => ~OwnAnnouncement(p).qbit

CountInv ==
  \A p \in Procs :
    /\ AtStep(p, "check") => checkNext[p] < N
    /\ AtStep(p, "advance") => checkNext[p] = N
    /\ checkNext[p] = N /\ local[p].pc \notin {"rotate", "advance"} => Cur(p) < epoch

NotFreed(o) == \A q \in Procs : o \in held[q] => record[o] # "freed"

RemovedOnce(o) ==
  \A q \in Procs : o \in removed[q] =>
    record[o] = "unlinked" /\ \A r \in Procs : o \in removed[r] => r = q

RetiredUnlinked(o) ==
  \A q \in Procs, i \in 0 .. 2 : o \in limboBags[q][i] =>
    record[o] = "unlinked" /\ \A r \in Procs : o \notin removed[r]

RetiredOnce(o) ==
  \A q, r \in Procs, i, j \in 0 .. 2 :
    o \in limboBags[q][i] /\ o \in limboBags[r][j] => r = q /\ j = i

RecordInv ==
  \A o \in Objects :
    NotFreed(o) /\ RemovedOnce(o) /\ RetiredUnlinked(o) /\ RetiredOnce(o)

(* What keeps p from freeing the record o that q has in its hands.         *)
Safe(p, q, i) ==
  /\ Rounds(p, i) = 1 => epoch = Cur(p) \/ (epoch = Cur(p) + 1 /\ Blocked(q))
  /\ Rounds(p, i) = 2 => epoch = Cur(p) /\ Blocked(q)
  /\ Rounds(p, i) # 3

HeldInv ==
  \A q \in Procs : \A o \in held[q] :
    /\ AtStep(q, "operation")
    /\ \A p \in Procs, i \in 0 .. 2 : o \in limboBags[p][i] => Safe(p, q, i)

IInv == EBRTypeOK /\ AnnouncedInv /\ CountInv /\ RecordInv /\ HeldInv

-------------------------------------------------------------------------------
(* Sequences: the last of a longer, the first and the rest of a shorter one. *)
LEMMA AppendFacts ==
  ASSUME NEW S, NEW b \in Seq(S), NEW a \in S, NEW c, c = Append(b, a)
  PROVE  /\ c \in Seq(S) /\ c # <<>> /\ c[Len(c)] = a
         /\ {c[j] : j \in 1 .. Len(c)} = {b[j] : j \in 1 .. Len(b)} \union {a}
<1>1. Len(c) = Len(b) + 1 /\ Len(b) \in Nat /\ c \in Seq(S)
  OBVIOUS
<1>2. c[Len(b) + 1] = a /\ \A j \in 1 .. Len(b) : c[j] = b[j]
  OBVIOUS
<1>3. c # <<>>
  BY <1>1
<1>4. 1 .. Len(c) = (1 .. Len(b)) \union {Len(b) + 1}
  BY <1>1
<1> QED
  BY <1>1, <1>2, <1>3, <1>4

LEMMA TailFacts ==
  ASSUME NEW S, NEW b \in Seq(S), b # <<>>, NEW c, c = Tail(b)
  PROVE  /\ c \in Seq(S) /\ Head(b) \in S
         /\ b[Len(b)] = IF c = <<>> THEN Head(b) ELSE c[Len(c)]
         /\ Head(b) \in {b[j] : j \in 1 .. Len(b)}
         /\ {c[j] : j \in 1 .. Len(c)} \subseteq {b[j] : j \in 1 .. Len(b)}
<1>1. /\ c \in Seq(S) /\ Len(b) \in Nat /\ Len(b) >= 1 /\ Len(c) = Len(b) - 1
      /\ Head(b) = b[1]
  OBVIOUS
<1>2. \A j \in 1 .. Len(c) : c[j] = b[j + 1] /\ j + 1 \in 1 .. Len(b)
  BY <1>1
<1>3. c = <<>> <=> Len(c) = 0
  BY <1>1, EmptySeq
<1>4. 1 \in 1 .. Len(b) /\ Len(b) \in 1 .. Len(b)
  BY <1>1
<1>5. c # <<>> => Len(c) \in 1 .. Len(c) /\ c[Len(c)] = b[Len(b)]
  BY <1>1, <1>2, <1>3
<1>6. b[1] \in S
  BY <1>4
<1> QED
  BY <1>1, <1>2, <1>3, <1>4, <1>5, <1>6

(* The buffers as sets: what a processor reads of itself is its last store *)
(* or memory, and a store that reaches memory adds nothing.                *)
LEMMA OwnIsOfAll ==
  ASSUME EBRTypeOK, NEW p \in Procs
  PROVE  /\ OwnAnnouncement(p) \in All(p) /\ OwnAnnouncement(p) \in Announcements
         /\ \A a \in All(p) : a \in Announcements
         /\ buffer[p] = <<>> => All(p) = {OwnAnnouncement(p)}
<1>1. buffer[p] \in Seq(Announcements) /\ announce[p] \in Announcements
  BY DEF EBRTypeOK
<1>2. \A j \in 1 .. Len(buffer[p]) : buffer[p][j] \in Announcements
  BY <1>1
<1>3. buffer[p] # <<>> => Len(buffer[p]) \in 1 .. Len(buffer[p])
  BY <1>1
<1>4. buffer[p] = <<>> => Len(buffer[p]) = 0
  OBVIOUS
<1> QED
  BY <1>1, <1>2, <1>3, <1>4 DEF OwnAnnouncement, All, Last

LEMMA StoreFacts ==
  ASSUME EBRTypeOK, NEW p \in Procs, NEW a \in Announcements,
         buffer' = [buffer EXCEPT ![p] = Append(@, a)], announce' = announce
  PROVE  /\ OwnAnnouncement(p)' = a
         /\ All(p)' = All(p) \union {a}
         /\ buffer' \in [Procs -> Seq(Announcements)]
         /\ \A q \in Procs : q # p => OwnAnnouncement(q)' = OwnAnnouncement(q) /\ All(q)' = All(q)
<1>1. buffer[p] \in Seq(Announcements) /\ buffer'[p] = Append(buffer[p], a)
  BY DEF EBRTypeOK
<1>2. PICK b \in Seq(Announcements) : b = buffer[p]
  BY <1>1
<1>3. PICK c : c = Append(b, a)
  OBVIOUS
<1>4. /\ c \in Seq(Announcements) /\ c # <<>> /\ c[Len(c)] = a
      /\ {c[j] : j \in 1 .. Len(c)} = {b[j] : j \in 1 .. Len(b)} \union {a}
  BY <1>3, AppendFacts
<1>5. buffer'[p] = c
  BY <1>1, <1>2, <1>3
<1>6. OwnAnnouncement(p)' = a /\ All(p)' = All(p) \union {a}
  BY <1>2, <1>4, <1>5 DEF OwnAnnouncement, All, Last
<1>7. buffer' \in [Procs -> Seq(Announcements)]
  BY <1>4, <1>5 DEF EBRTypeOK
<1>8. \A q \in Procs : q # p => buffer'[q] = buffer[q]
  BY DEF EBRTypeOK
<1> QED
  BY <1>6, <1>7, <1>8 DEF OwnAnnouncement, All

LEMMA DrainFacts ==
  ASSUME EBRTypeOK, NEW p \in Procs, Drain(p)
  PROVE  /\ announce' \in [Procs -> Announcements] /\ buffer' \in [Procs -> Seq(Announcements)]
         /\ \A q \in Procs : OwnAnnouncement(q)' = OwnAnnouncement(q)
         /\ \A q \in Procs : All(q)' \subseteq All(q)
<1>1. buffer[p] \in Seq(Announcements) /\ buffer[p] # <<>>
  BY DEF EBRTypeOK, Drain
<1>2. PICK b \in Seq(Announcements) : b = buffer[p]
  BY <1>1
<1>3. PICK c : c = Tail(b)
  OBVIOUS
<1>4. /\ c \in Seq(Announcements) /\ Head(b) \in Announcements
      /\ b[Len(b)] = IF c = <<>> THEN Head(b) ELSE c[Len(c)]
      /\ Head(b) \in {b[j] : j \in 1 .. Len(b)}
      /\ {c[j] : j \in 1 .. Len(c)} \subseteq {b[j] : j \in 1 .. Len(b)}
    <2>1. b # <<>>
    BY <1>1, <1>2
  <2> QED
    BY <1>3, <2>1, TailFacts
<1>5. announce' = [announce EXCEPT ![p] = Head(b)] /\ buffer' = [buffer EXCEPT ![p] = c]
  BY <1>2, <1>3 DEF EBRTypeOK, Drain
<1>6. /\ announce' \in [Procs -> Announcements] /\ buffer' \in [Procs -> Seq(Announcements)]
      /\ announce'[p] = Head(b) /\ buffer'[p] = c
  BY <1>4, <1>5 DEF EBRTypeOK
<1>7. OwnAnnouncement(p)' = OwnAnnouncement(p)
  BY <1>1, <1>2, <1>4, <1>6 DEF OwnAnnouncement, Last
<1>8. All(p)' \subseteq All(p)
  BY <1>2, <1>4, <1>6 DEF All
<1>9. \A q \in Procs : q # p => buffer'[q] = buffer[q] /\ announce'[q] = announce[q]
  BY <1>5 DEF EBRTypeOK
<1>10. \A q \in Procs : q # p => OwnAnnouncement(q)' = OwnAnnouncement(q) /\ All(q)' = All(q)
  BY <1>9 DEF OwnAnnouncement, All
<1> QED
  BY <1>6, <1>7, <1>8, <1>10

-------------------------------------------------------------------------------
(* What a step has to leave alone so that nobody's records become unsafe.  *)
LEMMA BlockedFrame ==
  ASSUME NEW q \in Procs, Blocked(q), epoch' = epoch, All(q)' \subseteq All(q),
         \A p \in Procs : Counted(p, q)' => Counted(p, q)
  PROVE  Blocked(q)'
BY DEF Blocked

LEMMA HeldFrame ==
  ASSUME HeldInv, epoch' = epoch, limboIdx' = limboIdx,
         \A q \in Procs : \A o \in held'[q] :
           /\ AtStep(q, "operation")'
           /\ o \in held[q] \/ \A p \in Procs, i \in 0 .. 2 : o \notin limboBags'[p][i],
         \A p \in Procs : Cur(p)' = Cur(p) /\ (AtStep(p, "rotate")' <=> AtStep(p, "rotate")),
         \A p \in Procs, i \in 0 .. 2 : \A o \in limboBags'[p][i] :
           o \in limboBags[p][i] \/ Rounds(p, i) = 0,
         \A q \in Procs : held'[q] # {} /\ Blocked(q) => Blocked(q)'
  PROVE  HeldInv'
<1>1. \A p \in Procs, i \in 0 .. 2 : Rounds(p, i)' = Rounds(p, i)
  BY DEF Rounds
<1>2. SUFFICES ASSUME NEW q \in Procs, NEW o \in held'[q]
               PROVE  /\ AtStep(q, "operation")'
                      /\ \A p \in Procs, i \in 0 .. 2 : o \in limboBags'[p][i] => Safe(p, q, i)'
  BY DEF HeldInv
<1>3. SUFFICES ASSUME NEW p \in Procs, NEW i \in 0 .. 2, o \in limboBags'[p][i]
               PROVE  Safe(p, q, i)'
  OBVIOUS
<1>4. CASE Rounds(p, i) = 0
  BY <1>1, <1>4 DEF Safe
<1>5. CASE Rounds(p, i) # 0
  <2>1. o \in limboBags[p][i] /\ o \in held[q]
    BY <1>3, <1>5
  <2>2. Safe(p, q, i)
    BY <2>1 DEF HeldInv
  <2>3. Blocked(q) => Blocked(q)'
    OBVIOUS
  <2> QED
    BY <1>1, <2>2, <2>3 DEF Safe
<1> QED
  BY <1>4, <1>5

-------------------------------------------------------------------------------
(* Between two calls: nothing about announcements changes.                 *)
LEMMA BetweenCalls ==
  ASSUME IInv, UNCHANGED <<epoch, announce, buffer, limboIdx, checkNext, local>>
  PROVE  /\ AnnouncedInv' /\ CountInv'
         /\ \A p \in Procs : Cur(p)' = Cur(p) /\ (AtStep(p, "rotate")' <=> AtStep(p, "rotate"))
         /\ \A q \in Procs : Blocked(q) => Blocked(q)'
<1>1. \A p \in Procs : /\ All(p)' = All(p) /\ OwnAnnouncement(p)' = OwnAnnouncement(p)
                       /\ Cur(p)' = Cur(p) /\ (InCall(p)' <=> InCall(p))
  BY DEF All, OwnAnnouncement, Cur, InCall
<1>2. \A p \in Procs : \A place : AtStep(p, place)' <=> AtStep(p, place)
  BY DEF AtStep
<1>3. \A p, q \in Procs : Counted(p, q)' <=> Counted(p, q)
  BY <1>1, <1>2 DEF Counted
<1>4. AnnouncedInv'
  BY <1>1, <1>2 DEF IInv, AnnouncedInv
<1>5. CountInv'
  BY <1>1, <1>2 DEF IInv, CountInv
<1> QED
  BY <1>1, <1>2, <1>3, <1>4, <1>5 DEF Blocked

LEMMA UseInv ==
  ASSUME IInv, NEW p \in Procs, NEW o \in Objects, Use(p, o)
  PROVE  IInv'
<1>1. EBRTypeOK'
  BY DEF IInv, EBRTypeOK, Use
<1>2. \A q \in Procs : held'[q] = IF q = p THEN held[q] \union {o} ELSE held[q]
  BY DEF IInv, EBRTypeOK, Use
<1>3. record[o] = "linked" /\ \A q \in Procs, i \in 0 .. 2 : o \notin limboBags[q][i]
  BY DEF IInv, RecordInv, NotFreed, RemovedOnce, RetiredUnlinked, RetiredOnce, Use
<1>4. RecordInv'
  BY <1>2, <1>3 DEF IInv, RecordInv, NotFreed, RemovedOnce, RetiredUnlinked, RetiredOnce, Use
<1>5. HeldInv'
  <2>1. \A q \in Procs : \A x \in held'[q] :
          /\ AtStep(q, "operation")'
          /\ x \in held[q] \/ \A r \in Procs, i \in 0 .. 2 : x \notin limboBags'[r][i]
    BY <1>2, <1>3 DEF IInv, HeldInv, Use, AtStep
  <2> QED
    BY <2>1, BetweenCalls, HeldFrame DEF IInv, Use
<1> QED
  BY <1>1, <1>4, <1>5, BetweenCalls DEF IInv, Use

LEMMA UnlinkInv ==
  ASSUME IInv, NEW p \in Procs, NEW o \in Objects, Unlink(p, o)
  PROVE  IInv'
<1>1. EBRTypeOK'
  BY DEF IInv, EBRTypeOK, Unlink
<1>2. \A q \in Procs : removed'[q] = IF q = p THEN removed[q] \union {o} ELSE removed[q]
  BY DEF IInv, EBRTypeOK, Unlink
<1>3. \A x \in Objects : record'[x] = IF x = o THEN "unlinked" ELSE record[x]
  BY DEF IInv, EBRTypeOK, Unlink
<1>4. /\ record[o] = "linked"
      /\ \A q \in Procs : o \notin removed[q] /\ \A i \in 0 .. 2 : o \notin limboBags[q][i]
  BY DEF IInv, RecordInv, NotFreed, RemovedOnce, RetiredUnlinked, RetiredOnce, Unlink
<1>5. RecordInv'
  <2> SUFFICES ASSUME NEW x \in Objects
               PROVE  NotFreed(x)' /\ RemovedOnce(x)' /\ RetiredUnlinked(x)' /\ RetiredOnce(x)'
    BY DEF RecordInv
  <2>1. limboBags' = limboBags /\ held' = held
    BY DEF Unlink
  <2>2. CASE x = o
    <3>5. NotFreed(x)'
      BY <1>2, <1>3, <1>4, <2>1, <2>2 DEF NotFreed
    <3>6. RemovedOnce(x)'
      BY <1>2, <1>3, <1>4, <2>1, <2>2 DEF RemovedOnce
    <3>7. RetiredUnlinked(x)'
      BY <1>2, <1>3, <1>4, <2>1, <2>2 DEF RetiredUnlinked
    <3>8. RetiredOnce(x)'
      BY <1>2, <1>3, <1>4, <2>1, <2>2 DEF RetiredOnce
    <3> QED
      BY <3>5, <3>6, <3>7, <3>8
  <2>3. CASE x # o
    <3>1. NotFreed(x) /\ RemovedOnce(x) /\ RetiredUnlinked(x) /\ RetiredOnce(x)
      BY DEF IInv, RecordInv
    <3>5. NotFreed(x)'
      BY <1>2, <1>3, <2>1, <2>3, <3>1 DEF NotFreed
    <3>6. RemovedOnce(x)'
      BY <1>2, <1>3, <2>1, <2>3, <3>1 DEF RemovedOnce
    <3>7. RetiredUnlinked(x)'
      BY <1>2, <1>3, <2>1, <2>3, <3>1 DEF RetiredUnlinked
    <3>8. RetiredOnce(x)'
      BY <1>2, <1>3, <2>1, <2>3, <3>1 DEF RetiredOnce
    <3> QED
      BY <3>5, <3>6, <3>7, <3>8
  <2> QED
    BY <2>2, <2>3
<1>6. HeldInv'
  <2>1. \A q \in Procs : \A x \in held'[q] : AtStep(q, "operation")' /\ x \in held[q]
    BY DEF IInv, HeldInv, Unlink, AtStep
  <2> QED
    BY <2>1, BetweenCalls, HeldFrame DEF IInv, Unlink
<1> QED
  BY <1>1, <1>5, <1>6, BetweenCalls DEF IInv, Unlink

LEMMA RetireInv ==
  ASSUME IInv, NEW p \in Procs, NEW o \in Objects, EBR_retire(p, o)
  PROVE  IInv'
<1> PICK k \in 0 .. 2 : k = limboIdx[p]
  BY DEF IInv, EBRTypeOK
<1>1. /\ limboBags' = [limboBags EXCEPT ![p] = [limboBags[p] EXCEPT ![k] = limboBags[p][k] \union {o}]]
      /\ removed' = [removed EXCEPT ![p] = removed[p] \ {o}]
      /\ o \in removed[p]
  BY DEF EBR_retire
<1>2. EBRTypeOK'
  <2>1. limboBags[p] \in [0 .. 2 -> SUBSET Objects]
    BY DEF IInv, EBRTypeOK
  <2>2. [limboBags[p] EXCEPT ![k] = limboBags[p][k] \union {o}] \in [0 .. 2 -> SUBSET Objects]
    BY <2>1
  <2> QED
    BY <1>1, <2>2 DEF IInv, EBRTypeOK, EBR_retire
<1>3. \A q \in Procs : removed'[q] = IF q = p THEN removed[q] \ {o} ELSE removed[q]
  BY <1>1 DEF IInv, EBRTypeOK
<1>4. \A q \in Procs, i \in 0 .. 2 :
        limboBags'[q][i] = IF q = p /\ i = k THEN limboBags[q][i] \union {o} ELSE limboBags[q][i]
  BY <1>1 DEF IInv, EBRTypeOK
<1>5. RecordInv'
  <2> SUFFICES ASSUME NEW x \in Objects
               PROVE  NotFreed(x)' /\ RemovedOnce(x)' /\ RetiredUnlinked(x)' /\ RetiredOnce(x)'
    BY DEF RecordInv
  <2>1. record' = record /\ held' = held
    BY DEF EBR_retire
  <2>2. CASE x = o
    <3>1. /\ record[o] = "unlinked" /\ \A r \in Procs : o \in removed[r] => r = p
          /\ \A r \in Procs, j \in 0 .. 2 : o \notin limboBags[r][j]
      BY <1>1 DEF IInv, RecordInv, NotFreed, RemovedOnce, RetiredUnlinked, RetiredOnce
    <3>2. NotFreed(x)
      BY DEF IInv, RecordInv
    <3>3. \A q \in Procs, i \in 0 .. 2 : x \in limboBags'[q][i] <=> q = p /\ i = k
      BY ZenonT(40), <1>4, <2>2, <3>1
    <3>4. \A q \in Procs : x \notin removed'[q]
      BY <1>3, <2>2, <3>1
    <3>5. NotFreed(x)'
      BY <2>1, <3>2 DEF NotFreed
    <3>6. RemovedOnce(x)'
      BY <3>4 DEF RemovedOnce
    <3>7. RetiredUnlinked(x)'
      BY <2>1, <2>2, <3>1, <3>4 DEF RetiredUnlinked
    <3>8. RetiredOnce(x)'
      BY <3>3 DEF RetiredOnce
    <3> QED
      BY <3>5, <3>6, <3>7, <3>8
  <2>3. CASE x # o
    <3>1. NotFreed(x) /\ RemovedOnce(x) /\ RetiredUnlinked(x) /\ RetiredOnce(x)
      BY DEF IInv, RecordInv
    <3>3. \A q \in Procs, i \in 0 .. 2 : x \in limboBags'[q][i] <=> x \in limboBags[q][i]
      <4> TAKE q \in Procs, i \in 0 .. 2
      <4>1. CASE q = p /\ i = k
        <5>1. limboBags'[q][i] = limboBags[q][i] \union {o}
          BY <1>4, <4>1
        <5> QED
          BY <2>3, <5>1
      <4>2. CASE ~(q = p /\ i = k)
        <5>1. limboBags'[q][i] = limboBags[q][i]
          BY <1>4, <4>2
        <5> QED
          BY <5>1
      <4> QED
        BY <4>1, <4>2
    <3>4. \A q \in Procs : x \in removed'[q] <=> x \in removed[q]
      BY <1>3, <2>3
    <3>5. NotFreed(x)'
      BY <2>1, <3>1 DEF NotFreed
    <3>6. RemovedOnce(x)'
      BY <2>1, <3>1, <3>4 DEF RemovedOnce
    <3>7. RetiredUnlinked(x)'
      BY <2>1, <3>1, <3>3, <3>4 DEF RetiredUnlinked
    <3>8. RetiredOnce(x)'
      BY <3>1, <3>3 DEF RetiredOnce
    <3> QED
      BY <3>5, <3>6, <3>7, <3>8
  <2> QED
    BY <2>2, <2>3
<1>6. HeldInv'
  <2>1. \A q \in Procs : \A x \in held'[q] : AtStep(q, "operation")' /\ x \in held[q]
    BY DEF IInv, HeldInv, EBR_retire, AtStep
  <2>2. Rounds(p, k) = 0
    BY DEF Rounds, EBR_retire, AtStep
  <2>3. \A q \in Procs, i \in 0 .. 2 : \A x \in limboBags'[q][i] :
          x \in limboBags[q][i] \/ Rounds(q, i) = 0
    <3> TAKE q \in Procs, i \in 0 .. 2
    <3>1. CASE q = p /\ i = k
      BY <2>2, <3>1
    <3>2. CASE ~(q = p /\ i = k)
      <4>1. limboBags'[q][i] = limboBags[q][i]
        BY <1>4, <3>2
      <4> QED
        BY <4>1
    <3> QED
      BY <3>1, <3>2
  <2> QED
    BY <2>1, <2>3, BetweenCalls, HeldFrame DEF IInv, EBR_retire
<1> QED
  BY <1>2, <1>5, <1>6, BetweenCalls DEF IInv, EBR_retire

-------------------------------------------------------------------------------
(* Steps that no record is concerned with.                                 *)
LEMMA RecordsStay ==
  ASSUME RecordInv, UNCHANGED <<limboBags, removed, record>>,
         \A q \in Procs : held'[q] \subseteq held[q]
  PROVE  RecordInv'
<1> SUFFICES ASSUME NEW o \in Objects
             PROVE  NotFreed(o)' /\ RemovedOnce(o)' /\ RetiredUnlinked(o)' /\ RetiredOnce(o)'
  BY DEF RecordInv
<1>1. NotFreed(o) /\ RemovedOnce(o) /\ RetiredUnlinked(o) /\ RetiredOnce(o)
  BY DEF RecordInv
<1>2. NotFreed(o)'
  BY <1>1 DEF NotFreed
<1>3. RemovedOnce(o)' /\ RetiredUnlinked(o)' /\ RetiredOnce(o)'
  BY <1>1 DEF RemovedOnce, RetiredUnlinked, RetiredOnce
<1> QED
  BY <1>2, <1>3

LEMMA DrainInv ==
  ASSUME IInv, NEW p \in Procs, Drain(p)
  PROVE  IInv'
<1>1. /\ announce' \in [Procs -> Announcements] /\ buffer' \in [Procs -> Seq(Announcements)]
      /\ \A q \in Procs : OwnAnnouncement(q)' = OwnAnnouncement(q)
      /\ \A q \in Procs : All(q)' \subseteq All(q)
  BY DrainFacts DEF IInv
<1>2. UNCHANGED <<epoch, limboIdx, limboBags, checkNext, local, held, removed, record>>
  BY DEF Drain
<1>3. EBRTypeOK'
  BY <1>1, <1>2 DEF IInv, EBRTypeOK
<1>4. /\ \A q \in Procs : Cur(q)' = Cur(q) /\ (InCall(q)' <=> InCall(q))
      /\ \A q \in Procs : \A place : AtStep(q, place)' <=> AtStep(q, place)
      /\ \A q, r \in Procs : Counted(q, r)' <=> Counted(q, r)
  BY <1>1, <1>2 DEF Cur, InCall, AtStep, Counted
<1>5. AnnouncedInv'
  BY <1>1, <1>2, <1>4 DEF IInv, AnnouncedInv
<1>6. CountInv'
  BY <1>2, <1>4 DEF IInv, CountInv
<1>7. RecordInv'
  BY <1>2, RecordsStay DEF IInv
<1>8. \A q \in Procs : Blocked(q) => Blocked(q)'
  BY <1>1, <1>2, <1>4, BlockedFrame
<1>9. HeldInv'
  <2>1. \A q \in Procs : \A x \in held'[q] : AtStep(q, "operation")' /\ x \in held[q]
    BY <1>2, <1>4 DEF IInv, HeldInv
  <2> QED
    BY <1>2, <1>4, <1>8, <2>1, HeldFrame DEF IInv
<1> QED
  BY <1>3, <1>5, <1>6, <1>7, <1>9 DEF IInv

(* The two stores of an announcement.                                      *)
LEMMA EnterInv ==
  ASSUME IInv, NEW p \in Procs, EBR_enterQuiescentState(p)
  PROVE  IInv'
<1>1. PICK a \in Announcements : a = Announcement(OwnAnnouncement(p).epoch, TRUE)
  <2>1. OwnAnnouncement(p) \in Announcements
    BY OwnIsOfAll DEF IInv
  <2> QED
    BY <2>1 DEF Announcement, Announcements
<1>2. a.epoch = OwnAnnouncement(p).epoch
  BY <1>1 DEF Announcement
<1>3. buffer' = [buffer EXCEPT ![p] = Append(@, a)] /\ announce' = announce
  BY <1>1 DEF EBR_enterQuiescentState, SetAnnouncement
<1>4. /\ OwnAnnouncement(p)' = a /\ All(p)' = All(p) \union {a}
      /\ buffer' \in [Procs -> Seq(Announcements)]
      /\ \A q \in Procs : q # p => OwnAnnouncement(q)' = OwnAnnouncement(q) /\ All(q)' = All(q)
  BY <1>3, StoreFacts DEF IInv
<1>5. /\ local[p].pc = "operation" /\ local'[p] = [local[p] EXCEPT !.pc = "collecting"]
      /\ \A q \in Procs : q # p => local'[q] = local[q]
      /\ \A q \in Procs : held'[q] = IF q = p THEN {} ELSE held[q]
  BY DEF IInv, EBRTypeOK, EBR_enterQuiescentState, AtStep, GotoStep
<1>6. /\ local'[p].pc = "collecting" /\ local'[p].epoch = local[p].epoch
      /\ UNCHANGED <<epoch, limboIdx, limboBags, checkNext, removed, record>>
  BY <1>5 DEF IInv, EBRTypeOK, EBR_enterQuiescentState
<1>7. EBRTypeOK'
  BY <1>4 DEF IInv, EBRTypeOK, EBR_enterQuiescentState, GotoStep
<1>8. /\ ~InCall(p) /\ ~InCall(p)' /\ Cur(p)' = Cur(p)
      /\ \A q \in Procs : q # p => Cur(q)' = Cur(q) /\ (InCall(q)' <=> InCall(q))
      /\ \A q \in Procs : AtStep(q, "rotate")' <=> AtStep(q, "rotate")
  BY <1>2, <1>4, <1>5, <1>6 DEF Cur, InCall, AtStep
<1>9. \A q, r \in Procs : Counted(q, r)' <=> Counted(q, r)
  BY <1>6, <1>8 DEF Counted
<1>10. AnnouncedInv'
  <2>1. a.epoch <= epoch
    BY <1>2, OwnIsOfAll DEF IInv, AnnouncedInv
  <2>2. \A q \in Procs : q # p =>
          (AtStep(q, "operation")' <=> AtStep(q, "operation")) /\ (AtStep(q, "finish")' <=> AtStep(q, "finish"))
    BY <1>5 DEF AtStep
  <2>3. ~AtStep(p, "operation")' /\ ~AtStep(p, "finish")'
    BY <1>6 DEF AtStep
  <2> QED
    BY <1>4, <1>5, <1>6, <1>8, <2>1, <2>2, <2>3 DEF IInv, AnnouncedInv
<1>11. CountInv'
  <2>1. checkNext[p] = N => Cur(p) < epoch
    BY <1>5 DEF IInv, CountInv
  <2>2. \A q \in Procs : q # p =>
          (AtStep(q, "check")' <=> AtStep(q, "check")) /\ (AtStep(q, "advance")' <=> AtStep(q, "advance"))
    BY <1>5 DEF AtStep
  <2>3. ~AtStep(p, "check")' /\ ~AtStep(p, "advance")'
    BY <1>6 DEF AtStep
  <2> QED
    BY <1>5, <1>6, <1>8, <2>1, <2>2, <2>3 DEF IInv, CountInv
<1>12. RecordInv'
  BY <1>5, <1>6, RecordsStay DEF IInv
<1>13. HeldInv'
  <2>1. \A q \in Procs : held'[q] # {} => q # p
    BY <1>5
  <2>2. \A q \in Procs : held'[q] # {} /\ Blocked(q) => Blocked(q)'
    BY <1>4, <1>6, <1>9, <2>1, BlockedFrame
  <2>3. \A q \in Procs : \A x \in held'[q] : AtStep(q, "operation")' /\ x \in held[q]
    BY <1>5 DEF IInv, HeldInv, AtStep
  <2> QED
    BY <1>6, <1>8, <2>2, <2>3, HeldFrame DEF IInv
<1> QED
  BY <1>7, <1>10, <1>11, <1>12, <1>13 DEF IInv

LEMMA AnnounceInv ==
  ASSUME IInv, NEW p \in Procs, Announce(p)
  PROVE  IInv'
<1>1. PICK a \in Announcements : a = Announcement(local[p].epoch, FALSE)
  BY DEF IInv, EBRTypeOK, Announcement, Announcements
<1>2. a.epoch = local[p].epoch /\ ~a.qbit
  BY <1>1 DEF Announcement
<1>3. buffer' = [buffer EXCEPT ![p] = Append(@, a)] /\ announce' = announce
  BY <1>1 DEF Announce, AnnouncedEpoch, SetAnnouncement
<1>4. /\ OwnAnnouncement(p)' = a /\ All(p)' = All(p) \union {a}
      /\ buffer' \in [Procs -> Seq(Announcements)]
      /\ \A q \in Procs : q # p => OwnAnnouncement(q)' = OwnAnnouncement(q) /\ All(q)' = All(q)
  BY <1>3, StoreFacts DEF IInv
<1>5. /\ local[p].pc = "announce"
      /\ local'[p].pc = IF local[p].collected THEN "finish" ELSE "operation"
      /\ local'[p].epoch = local[p].epoch
      /\ \A q \in Procs : q # p => local'[q] = local[q]
      /\ UNCHANGED <<epoch, limboIdx, limboBags, checkNext, held, removed, record>>
  BY DEF IInv, EBRTypeOK, Announce, AtStep, GotoStep
<1>6. EBRTypeOK'
  BY ZenonT(40), <1>4 DEF IInv, EBRTypeOK, Announce, GotoStep
<1>7. /\ InCall(p) /\ ~InCall(p)' /\ Cur(p)' = Cur(p)
      /\ \A q \in Procs : q # p => Cur(q)' = Cur(q) /\ (InCall(q)' <=> InCall(q))
      /\ \A q \in Procs : AtStep(q, "rotate")' <=> AtStep(q, "rotate")
  BY <1>2, <1>4, <1>5 DEF Cur, InCall, AtStep
<1>8. \A q, r \in Procs : Counted(q, r)' <=> Counted(q, r)
  BY <1>5, <1>7 DEF Counted
<1>9. AnnouncedInv'
  <2>1. a.epoch <= epoch
    BY <1>2 DEF IInv, AnnouncedInv
  <2>2. \A q \in Procs : q # p =>
          (AtStep(q, "operation")' <=> AtStep(q, "operation")) /\ (AtStep(q, "finish")' <=> AtStep(q, "finish"))
    BY <1>5 DEF AtStep
  <2>3. \A x \in All(p) : x.qbit => local[p].collected
    BY <1>7 DEF IInv, AnnouncedInv
  <2>4. \A x \in All(p)' : x.epoch <= epoch /\ (x.qbit => ~AtStep(p, "operation")')
    BY <1>2, <1>4, <1>5, <2>1, <2>3 DEF IInv, AnnouncedInv, AtStep
  <2> QED
    BY <1>2, <1>4, <1>5, <1>7, <2>2, <2>4 DEF IInv, AnnouncedInv
<1>10. CountInv'
  BY <1>5, <1>7 DEF IInv, CountInv, AtStep
<1>11. RecordInv'
  BY <1>5, RecordsStay DEF IInv
<1>12. HeldInv'
  <2>1. \A q \in Procs : held'[q] # {} => q # p
    BY <1>5 DEF IInv, HeldInv, AtStep
  <2>2. \A q \in Procs : held'[q] # {} /\ Blocked(q) => Blocked(q)'
    BY <1>4, <1>5, <1>8, <2>1, BlockedFrame
  <2>3. \A q \in Procs : \A x \in held'[q] : AtStep(q, "operation")' /\ x \in held[q]
    BY <1>5, <2>1 DEF IInv, HeldInv, AtStep
  <2> QED
    BY <1>5, <1>7, <2>2, <2>3, HeldFrame DEF IInv
<1> QED
  BY <1>6, <1>9, <1>10, <1>11, <1>12 DEF IInv

-------------------------------------------------------------------------------
(* The steps of a call that store nothing.                                 *)
LEMMA NoStore ==
  ASSUME UNCHANGED <<announce, buffer>>
  PROVE  \A q \in Procs : OwnAnnouncement(q)' = OwnAnnouncement(q) /\ All(q)' = All(q)
BY DEF OwnAnnouncement, All

LEMMA LoadEpochInv ==
  ASSUME EBRAssumption, IInv, NEW p \in Procs, LoadEpoch(p)
  PROVE  IInv'
<1>1. /\ UNCHANGED <<epoch, announce, buffer, limboIdx, limboBags, checkNext, removed, record>>
      /\ \A q \in Procs : held'[q] = IF q = p THEN {} ELSE held[q]
      /\ \A q \in Procs : q # p => local'[q] = local[q]
      /\ local[p].pc \in {"operation", "collecting"}
  BY DEF IInv, EBRTypeOK, LoadEpoch, AtStep
<1>2. /\ local'[p].pc = IF OwnAnnouncement(p).epoch # epoch THEN "rotate" ELSE "check"
      /\ local'[p].epoch = epoch
      /\ local'[p].collected = AtStep(p, "collecting")
  BY DEF IInv, EBRTypeOK, LoadEpoch
<1>3. EBRTypeOK'
  BY DEF IInv, EBRTypeOK, LoadEpoch, AtStep
<1>4. \A q \in Procs : OwnAnnouncement(q)' = OwnAnnouncement(q) /\ All(q)' = All(q)
  BY <1>1, NoStore
<1>5. /\ ~InCall(p) /\ InCall(p)' /\ Cur(p) = OwnAnnouncement(p).epoch /\ Cur(p)' = epoch
      /\ \A q \in Procs : q # p => Cur(q)' = Cur(q) /\ (InCall(q)' <=> InCall(q))
      /\ \A q \in Procs : \A place : q # p => (AtStep(q, place)' <=> AtStep(q, place))
  BY <1>1, <1>2, <1>4 DEF Cur, InCall, AtStep
<1>6. AnnouncedInv'
  <2>1. \A x \in All(p) : x.epoch <= epoch /\ (x.qbit => local'[p].collected)
    BY <1>1, <1>2 DEF IInv, AnnouncedInv, AtStep
  <2>2. local'[p].epoch <= epoch
    BY <1>2 DEF IInv, EBRTypeOK
  <2>3. ~AtStep(p, "operation")' /\ ~AtStep(p, "finish")'
    BY <1>2 DEF AtStep
  <2> QED
    BY <1>1, <1>4, <1>5, <2>1, <2>2, <2>3 DEF IInv, AnnouncedInv
<1>7. CountInv'
  <2>1. checkNext[p] = N => Cur(p) < epoch
    BY <1>1 DEF IInv, CountInv
  <2>2. ~AtStep(p, "advance")' /\ (local'[p].pc = "check" => checkNext[p] < N)
    <3>1. checkNext[p] \in 0 .. N /\ N \in Nat /\ epoch \in Int
      BY DEF IInv, EBRTypeOK, EBRAssumption
    <3>2. local'[p].pc = "check" => checkNext[p] # N
      BY <1>2, <1>5, <2>1, <3>1
    <3> QED
      BY <1>2, <3>1, <3>2 DEF AtStep
  <2> QED
    BY <1>1, <1>2, <1>5, <2>2 DEF IInv, CountInv, AtStep
<1>8. RecordInv'
  BY <1>1, RecordsStay DEF IInv
<1>9. CASE OwnAnnouncement(p).epoch = epoch
  <2>1. \A q \in Procs : Cur(q)' = Cur(q) /\ (AtStep(q, "rotate")' <=> AtStep(q, "rotate"))
    BY <1>1, <1>2, <1>5, <1>9 DEF AtStep
  <2>2. \A q, r \in Procs : Counted(q, r)' <=> Counted(q, r)
    BY <1>1, <2>1 DEF Counted
  <2>3. \A q \in Procs : Blocked(q) => Blocked(q)'
    BY <1>1, <1>4, <2>2, BlockedFrame
  <2>4. \A q \in Procs : \A x \in held'[q] : AtStep(q, "operation")' /\ x \in held[q]
    BY <1>1, <1>5 DEF IInv, HeldInv
  <2>5. HeldInv'
    BY <1>1, <2>1, <2>3, <2>4, HeldFrame DEF IInv
  <2> QED
    BY <1>3, <1>6, <1>7, <1>8, <2>5 DEF IInv
<1>10. CASE OwnAnnouncement(p).epoch # epoch
  <2>1. AtStep(p, "rotate")' /\ ~AtStep(p, "rotate")
    BY <1>1, <1>2, <1>10 DEF AtStep
  <2>2. \A q, r \in Procs : Counted(q, r)' => Counted(q, r)
    BY <1>1, <1>5, <2>1 DEF Counted
  <2>3. \A q \in Procs : Blocked(q) => Blocked(q)'
    BY <1>1, <1>4, <2>2, BlockedFrame
  <2>4. \A r \in Procs, i \in 0 .. 2 :
          Rounds(r, i)' = IF r = p THEN Rounds(r, i) + 1 ELSE Rounds(r, i)
    BY <1>1, <1>5, <2>1 DEF Rounds
  <2>5. \A r \in Procs, i \in 0 .. 2 : Rounds(r, i) \in 0 .. 3
    BY DEF Rounds
  <2>6. \A q, r \in Procs, i \in 0 .. 2 : Safe(r, q, i) => Safe(r, q, i)'
    <3> SUFFICES ASSUME NEW q \in Procs, NEW r \in Procs, NEW i \in 0 .. 2, Safe(r, q, i)
                 PROVE  Safe(r, q, i)'
      OBVIOUS
    <3>1. CASE r # p
      <4>1. Rounds(r, i)' = Rounds(r, i) /\ Cur(r)' = Cur(r)
        BY <1>5, <2>4, <3>1
      <4> QED
        BY <1>1, <2>3, <4>1 DEF Safe
    <3>2. CASE r = p
      <4>1. Rounds(r, i)' = Rounds(r, i) + 1 /\ Cur(r)' = epoch /\ Cur(r) # epoch
        BY <1>5, <1>10, <2>4, <3>2
      <4>2. Rounds(r, i) \in 0 .. 3 /\ Rounds(r, i) # 2 /\ Rounds(r, i) # 3
        BY <2>5, <4>1 DEF Safe
      <4>3. Rounds(r, i) = 1 => Blocked(q)'
        BY <2>3, <4>1 DEF Safe
      <4> QED
        BY <1>1, <4>1, <4>2, <4>3 DEF Safe
    <3> QED
      BY <3>1, <3>2
  <2>7. HeldInv'
    <3> SUFFICES ASSUME NEW q \in Procs, NEW o \in held'[q]
                 PROVE  /\ AtStep(q, "operation")'
                        /\ \A r \in Procs, i \in 0 .. 2 : o \in limboBags'[r][i] => Safe(r, q, i)'
      BY DEF HeldInv
    <3>1. q # p /\ o \in held[q]
      BY <1>1
    <3> QED
      BY <1>1, <1>5, <2>6, <3>1 DEF IInv, HeldInv
  <2> QED
    BY <1>3, <1>6, <1>7, <1>8, <2>7 DEF IInv
<1> QED
  BY <1>9, <1>10

(* The bag that is freed has three rotations behind it: nobody holds what  *)
(* is in it.  The others keep their count.                                 *)
LEMMA RotateInv ==
  ASSUME EBRAssumption, IInv, NEW p \in Procs, RotateAndReclaim(p)
  PROVE  IInv'
<1> PICK old \in 0 .. 2 : old = limboIdx[p]
  BY DEF IInv, EBRTypeOK
<1> PICK k \in 0 .. 2 : k = NextBag(old)
  BY DEF NextBag
<1>1. /\ UNCHANGED <<epoch, announce, buffer, held, removed>>
      /\ checkNext' = [checkNext EXCEPT ![p] = 0]
      /\ limboIdx' = [limboIdx EXCEPT ![p] = k]
      /\ limboBags' = [limboBags EXCEPT ![p] = [limboBags[p] EXCEPT ![k] = {}]]
      /\ record' = [o \in Objects |-> IF o \in limboBags[p][k] THEN "freed" ELSE record[o]]
      /\ local' = [local EXCEPT ![p].pc = "check"]
      /\ local[p].pc = "rotate"
  BY DEF RotateAndReclaim, Free, ClearBag, GotoStep, AtStep
<1>2. /\ local'[p].pc = "check" /\ local'[p].epoch = local[p].epoch
      /\ local'[p].collected = local[p].collected
      /\ \A q \in Procs : q # p => local'[q] = local[q]
      /\ checkNext'[p] = 0 /\ \A q \in Procs : q # p => checkNext'[q] = checkNext[q]
      /\ limboIdx'[p] = k /\ \A q \in Procs : q # p => limboIdx'[q] = limboIdx[q]
  BY <1>1 DEF IInv, EBRTypeOK
<1>3. /\ \A i \in 0 .. 2 : limboBags'[p][i] = IF i = k THEN {} ELSE limboBags[p][i]
      /\ \A q \in Procs : q # p => limboBags'[q] = limboBags[q]
  BY <1>1 DEF IInv, EBRTypeOK
<1>4. EBRTypeOK'
  <2>1. limboBags' \in [Procs -> [0 .. 2 -> SUBSET Objects]]
    <3>1. limboBags[p] \in [0 .. 2 -> SUBSET Objects]
      BY DEF IInv, EBRTypeOK
    <3>2. [limboBags[p] EXCEPT ![k] = {}] \in [0 .. 2 -> SUBSET Objects]
      BY <3>1
    <3> QED
      BY <1>1, <3>2 DEF IInv, EBRTypeOK
  <2>2. checkNext' \in [Procs -> 0 .. N]
    BY <1>1 DEF IInv, EBRTypeOK, EBRAssumption
  <2>3. record' \in [Objects -> {"linked", "unlinked", "freed"}]
    BY <1>1 DEF IInv, EBRTypeOK
  <2>4. limboIdx' \in [Procs -> 0 .. 2]
    BY <1>1 DEF IInv, EBRTypeOK
  <2>5. local' \in [Procs ->
          [pc : {"operation", "collecting", "rotate", "check", "advance", "announce", "finish"},
           epoch : 0 .. MaxEpoch, collected : BOOLEAN]]
    BY <1>1 DEF IInv, EBRTypeOK
  <2> QED
    BY <1>1, <2>1, <2>2, <2>3, <2>4, <2>5 DEF IInv, EBRTypeOK
<1>5. \A q \in Procs : OwnAnnouncement(q)' = OwnAnnouncement(q) /\ All(q)' = All(q)
  BY <1>1, NoStore
<1>6. /\ InCall(p) /\ InCall(p)'
      /\ \A q \in Procs : Cur(q)' = Cur(q) /\ (InCall(q)' <=> InCall(q))
      /\ \A q \in Procs : \A place : q # p => (AtStep(q, place)' <=> AtStep(q, place))
  BY <1>1, <1>2, <1>5 DEF Cur, InCall, AtStep
<1>7. AnnouncedInv'
  <2>1. ~AtStep(p, "operation")' /\ ~AtStep(p, "finish")'
    BY <1>2 DEF AtStep
  <2> QED
    BY <1>1, <1>2, <1>5, <1>6, <2>1 DEF IInv, AnnouncedInv
<1>8. CountInv'
  BY <1>1, <1>2, <1>6 DEF IInv, CountInv, AtStep, EBRAssumption
<1>9. Rounds(p, k) = 3
  BY <1>1 DEF Rounds, NextBag, AtStep
<1>10. \A q \in Procs : \A o \in held[q] : o \notin limboBags[p][k]
  BY <1>9 DEF IInv, HeldInv, Safe
<1>11. RecordInv'
  <2> SUFFICES ASSUME NEW o \in Objects
               PROVE  NotFreed(o)' /\ RemovedOnce(o)' /\ RetiredUnlinked(o)' /\ RetiredOnce(o)'
    BY DEF RecordInv
  <2>1. NotFreed(o) /\ RemovedOnce(o) /\ RetiredUnlinked(o) /\ RetiredOnce(o)
    BY DEF IInv, RecordInv
  <2>2. \A q \in Procs, i \in 0 .. 2 : o \in limboBags'[q][i] =>
          o \in limboBags[q][i] /\ ~(q = p /\ i = k)
    BY <1>3
  <2>3. record'[o] = IF o \in limboBags[p][k] THEN "freed" ELSE record[o]
    BY <1>1
  <2>4. NotFreed(o)'
    BY <1>1, <1>10, <2>1, <2>3 DEF NotFreed
  <2>5. RemovedOnce(o)'
    BY <1>1, <2>1, <2>3 DEF RemovedOnce, RetiredUnlinked
  <2>6. RetiredUnlinked(o)'
    <3> SUFFICES ASSUME NEW q \in Procs, NEW i \in 0 .. 2, o \in limboBags'[q][i]
                 PROVE  record'[o] = "unlinked" /\ \A r \in Procs : o \notin removed'[r]
      BY DEF RetiredUnlinked
    <3>1. o \in limboBags[q][i] /\ o \notin limboBags[p][k]
      BY <2>1, <2>2 DEF RetiredOnce
    <3> QED
      BY <1>1, <2>1, <2>3, <3>1 DEF RetiredUnlinked
  <2>7. RetiredOnce(o)'
    BY <2>1, <2>2 DEF RetiredOnce
  <2> QED
    BY <2>4, <2>5, <2>6, <2>7
<1>12. \A i \in (0 .. 2) \ {k} : Rounds(p, i)' = Rounds(p, i)
  BY <1>1, <1>2 DEF Rounds, NextBag, AtStep
<1>13. \A q \in Procs, i \in 0 .. 2 : q # p => Rounds(q, i)' = Rounds(q, i)
  BY <1>2, <1>6 DEF Rounds
<1>14. \A q \in Procs : Blocked(q) => Blocked(q)'
  <2>1. \A q, r \in Procs : Counted(q, r)' => Counted(q, r)
    <3> TAKE q, r \in Procs
    <3>1. CASE q = p
      <4>1. ~(r < checkNext'[p])
        BY <1>2 DEF Procs, EBRAssumption
      <4> QED
        BY <3>1, <4>1 DEF Counted
    <3>2. CASE q # p
      BY <1>1, <1>2, <1>6, <3>2 DEF Counted
    <3> QED
      BY <3>1, <3>2
  <2> QED
    BY <1>1, <1>5, <2>1, BlockedFrame
<1>15. HeldInv'
  <2> SUFFICES ASSUME NEW q \in Procs, NEW o \in held'[q]
               PROVE  /\ AtStep(q, "operation")'
                      /\ \A r \in Procs, i \in 0 .. 2 : o \in limboBags'[r][i] => Safe(r, q, i)'
    BY DEF HeldInv
  <2>1. o \in held[q] /\ q # p
    BY <1>1 DEF IInv, HeldInv, AtStep
  <2>2. ASSUME NEW r \in Procs, NEW i \in 0 .. 2, o \in limboBags'[r][i]
        PROVE  Safe(r, q, i)'
    <3>1. o \in limboBags[r][i] /\ ~(r = p /\ i = k)
      BY <1>3, <2>2
    <3>2. Safe(r, q, i)
      BY <2>1, <3>1 DEF IInv, HeldInv
    <3>3. Rounds(r, i)' = Rounds(r, i)
      BY <1>12, <1>13, <3>1
    <3> QED
      BY <1>1, <1>6, <1>14, <3>2, <3>3 DEF Safe
  <2> QED
    BY <1>6, <2>1, <2>2 DEF IInv, HeldInv
<1> QED
  BY <1>4, <1>7, <1>8, <1>11, <1>15 DEF IInv

(* Only a processor whose announcement is of this epoch, or quiescent, is  *)
(* counted, and nobody who has a record in its hands has announced that.   *)
LEMMA CheckOtherInv ==
  ASSUME EBRAssumption, IInv, NEW p \in Procs, CheckOther(p)
  PROVE  IInv'
<1> PICK c \in 0 .. N - 1 : c = checkNext[p]
  BY DEF IInv, EBRTypeOK, CountInv, CheckOther, EBRAssumption
<1> DEFINE passed == HasPassed(Seen(p, c % N), local[p].epoch)
<1>1. /\ UNCHANGED <<epoch, announce, buffer, limboIdx, limboBags, held, removed, record>>
      /\ local[p].pc = "check"
      /\ \A q \in Procs : q # p => local'[q] = local[q] /\ checkNext'[q] = checkNext[q]
      /\ local'[p].epoch = local[p].epoch /\ local'[p].collected = local[p].collected
  BY DEF IInv, EBRTypeOK, CheckOther, GotoStep, AtStep
<1>2. c % N = c /\ c \in Procs
  BY DEF Procs, EBRAssumption
<1>3. IF passed
      THEN checkNext'[p] = c + 1 /\ local'[p].pc = IF c + 1 >= N THEN "advance" ELSE "announce"
      ELSE checkNext'[p] = c /\ local'[p].pc = "announce"
  BY DEF IInv, EBRTypeOK, CheckOther, GotoStep, AllChecked
<1>4. EBRTypeOK'
  <2>1. checkNext' \in [Procs -> 0 .. N]
    <3>1. checkNext' = checkNext \/ checkNext' = [checkNext EXCEPT ![p] = c + 1]
      BY DEF CheckOther
    <3>2. c + 1 \in 0 .. N
      BY DEF EBRAssumption
    <3> QED
      BY <3>1, <3>2 DEF IInv, EBRTypeOK
  <2>2. local' \in [Procs ->
          [pc : {"operation", "collecting", "rotate", "check", "advance", "announce", "finish"},
           epoch : 0 .. MaxEpoch, collected : BOOLEAN]]
    <3>1. PICK place \in {"advance", "announce"} : local' = [local EXCEPT ![p].pc = place]
      BY DEF CheckOther, GotoStep
    <3> QED
      BY <3>1 DEF IInv, EBRTypeOK
  <2> QED
    BY <1>1, <2>1, <2>2 DEF IInv, EBRTypeOK
<1>5. \A q \in Procs : OwnAnnouncement(q)' = OwnAnnouncement(q) /\ All(q)' = All(q)
  BY <1>1, NoStore
<1>6. local'[p].pc \in {"advance", "announce"}
  BY <1>3
<1>7. /\ InCall(p) /\ InCall(p)' /\ Cur(p) = local[p].epoch
      /\ \A q \in Procs : Cur(q)' = Cur(q) /\ (InCall(q)' <=> InCall(q))
      /\ \A q \in Procs : \A place : q # p => (AtStep(q, place)' <=> AtStep(q, place))
      /\ \A q \in Procs : AtStep(q, "rotate")' <=> AtStep(q, "rotate")
  BY <1>1, <1>5, <1>6 DEF Cur, InCall, AtStep
<1>8. AnnouncedInv'
  <2>1. ~AtStep(p, "operation")' /\ ~AtStep(p, "finish")'
    BY <1>6 DEF AtStep
  <2> QED
    BY <1>1, <1>5, <1>7, <2>1 DEF IInv, AnnouncedInv
<1>9. CountInv'
  <2>1. /\ ~AtStep(p, "check")'
        /\ local'[p].pc = "advance" => checkNext'[p] = N
        /\ local'[p].pc # "advance" => checkNext'[p] # N
    BY <1>3, <1>6 DEF AtStep, EBRAssumption
  <2> QED
    BY <1>1, <1>6, <1>7, <2>1 DEF IInv, CountInv, AtStep
<1>10. RecordInv'
  BY <1>1, RecordsStay DEF IInv
<1>11. \A q \in Procs : held'[q] # {} /\ Blocked(q) => Blocked(q)'
  <2> SUFFICES ASSUME NEW q \in Procs, held'[q] # {}, Blocked(q) PROVE Blocked(q)'
    OBVIOUS
  <2>1. AtStep(q, "operation")
    BY <1>1 DEF IInv, HeldInv
  <2>2. ASSUME NEW r \in Procs, Counted(r, q)' PROVE Counted(r, q)
    <3>1. CASE r # p
      BY <1>1, <1>7, <2>2, <3>1 DEF Counted
    <3>2. CASE r = p
      <4>1. Cur(p) = epoch /\ q < checkNext'[p]
        BY <1>1, <1>7, <2>2, <3>2 DEF Counted
      <4>2. q # c \/ ~passed
        <5> SUFFICES ASSUME q = c, passed PROVE FALSE
          OBVIOUS
        <5>1. Seen(p, q) \in All(q)
          BY OwnIsOfAll DEF IInv, Seen, All
        <5>2. Seen(p, q).epoch # epoch /\ ~Seen(p, q).qbit
          BY <2>1, <5>1 DEF Blocked, IInv, AnnouncedInv
        <5> QED
          BY <1>2, <1>7, <4>1, <5>2 DEF HasPassed
      <4>3. q < c
        BY <1>3, <4>1, <4>2 DEF Procs, EBRAssumption
      <4> QED
        BY <1>1, <3>2, <4>1, <4>3 DEF Counted, AtStep
    <3> QED
      BY <3>1, <3>2
  <2> QED
    BY <1>1, <1>5, <2>2, BlockedFrame
<1>12. HeldInv'
  <2>1. \A q \in Procs : \A x \in held'[q] : AtStep(q, "operation")' /\ x \in held[q]
    BY <1>1, <1>7 DEF IInv, HeldInv, AtStep
  <2> QED
    BY <1>1, <1>7, <1>11, <2>1, HeldFrame DEF IInv
<1> QED
  BY <1>4, <1>8, <1>9, <1>10, <1>12 DEF IInv

(* The epoch goes up: whoever has a record in its hands announced an       *)
(* earlier one, and from now on keeps it from going up again.              *)
LEMMA AdvanceInv ==
  ASSUME EBRAssumption, IInv, NEW p \in Procs, Advance(p)
  PROVE  IInv'
<1>1. /\ UNCHANGED <<announce, buffer, limboIdx, limboBags, checkNext, held, removed, record>>
      /\ local[p].pc = "advance" /\ local'[p].pc = "announce"
      /\ local'[p].epoch = local[p].epoch /\ local'[p].collected = local[p].collected
      /\ \A q \in Procs : q # p => local'[q] = local[q]
  BY DEF IInv, EBRTypeOK, Advance, GotoStep, AtStep
<1>2. /\ epoch \in Nat /\ epoch' \in {epoch, epoch + 1}
      /\ epoch' = epoch => epoch # local[p].epoch
      /\ epoch' = epoch + 1 => epoch = local[p].epoch
      /\ epoch' \in 0 .. MaxEpoch
  BY DEF IInv, EBRTypeOK, Advance, EBRAssumption
<1>3. EBRTypeOK'
  BY <1>2 DEF IInv, EBRTypeOK, Advance, GotoStep
<1>4. \A q \in Procs : /\ OwnAnnouncement(q)' = OwnAnnouncement(q) /\ All(q)' = All(q)
                       /\ OwnAnnouncement(q).epoch \in Nat /\ local[q].epoch \in Nat
                       /\ \A a \in All(q) : a.epoch \in Nat
  <2>1. \A q \in Procs : OwnAnnouncement(q)' = OwnAnnouncement(q) /\ All(q)' = All(q)
    BY <1>1, NoStore
  <2>2. \A q \in Procs : /\ OwnAnnouncement(q) \in Announcements
                         /\ \A a \in All(q) : a \in Announcements
    BY OwnIsOfAll DEF IInv
  <2>3. \A a \in Announcements : a.epoch \in Nat
    BY DEF Announcements
  <2>4. \A q \in Procs : local[q].epoch \in Nat
    BY DEF IInv, EBRTypeOK
  <2> QED
    BY <2>1, <2>2, <2>3, <2>4
<1>5. /\ InCall(p) /\ Cur(p) = local[p].epoch
      /\ \A q \in Procs : Cur(q)' = Cur(q) /\ (InCall(q)' <=> InCall(q)) /\ Cur(q) \in Nat
      /\ \A q \in Procs : \A place : q # p => (AtStep(q, place)' <=> AtStep(q, place))
      /\ \A q \in Procs : AtStep(q, "rotate")' <=> AtStep(q, "rotate")
  BY <1>1, <1>4 DEF Cur, InCall, AtStep
<1>6. \A q \in Procs : Cur(q) <= epoch /\ local[q].epoch <= epoch
  BY OwnIsOfAll DEF IInv, AnnouncedInv, Cur
<1>7. AnnouncedInv'
  <2>1. ~AtStep(p, "operation")' /\ ~AtStep(p, "finish")'
    BY <1>1 DEF AtStep
  <2>2. \A q \in Procs : local[q].epoch <= epoch' /\ \A a \in All(q) : a.epoch <= epoch'
    BY <1>2, <1>4, <1>6 DEF IInv, AnnouncedInv
  <2>3. \A q \in Procs : local'[q].epoch = local[q].epoch /\ local'[q].collected = local[q].collected
    BY <1>1
  <2> QED
    BY <1>4, <1>5, <2>1, <2>2, <2>3 DEF IInv, AnnouncedInv
<1>8. CountInv'
  <2>1. Cur(p) < epoch'
    BY <1>2, <1>5, <1>6
  <2>2. \A q \in Procs : Cur(q) < epoch => Cur(q) < epoch'
    BY <1>2, <1>5
  <2>3. ~AtStep(p, "check")' /\ ~AtStep(p, "advance")'
    BY <1>1 DEF AtStep
  <2> QED
    BY <1>1, <1>5, <2>1, <2>2, <2>3 DEF IInv, CountInv
<1>9. RecordInv'
  BY <1>1, RecordsStay DEF IInv
<1>10. \A q \in Procs : \A x \in held'[q] : AtStep(q, "operation")' /\ x \in held[q]
  BY <1>1, <1>5 DEF IInv, HeldInv, AtStep
<1>11. CASE epoch' = epoch
  <2>1. \A q, r \in Procs : Counted(q, r)' <=> Counted(q, r)
    BY <1>1, <1>5, <1>11 DEF Counted
  <2>2. \A q \in Procs : Blocked(q) => Blocked(q)'
    BY <1>4, <1>11, <2>1, BlockedFrame
  <2>3. HeldInv'
    BY <1>1, <1>5, <1>10, <1>11, <2>2, HeldFrame DEF IInv
  <2> QED
    BY <1>3, <1>7, <1>8, <1>9, <2>3 DEF IInv
<1>12. CASE epoch' = epoch + 1
  <2>1. \A q \in Procs : Blocked(q)'
    <3>1. \A q \in Procs : \A a \in All(q) : a.epoch # epoch'
      BY <1>2, <1>4, <1>12 DEF IInv, AnnouncedInv
    <3>2. \A q \in Procs : Cur(q) # epoch'
      BY <1>2, <1>5, <1>6, <1>12
    <3> QED
      BY <1>4, <1>5, <3>1, <3>2 DEF Blocked, Counted
  <2>2. \A q \in Procs : ~Blocked(q)
    <3>1. checkNext[p] = N /\ Cur(p) = epoch /\ ~AtStep(p, "rotate")
      BY <1>1, <1>2, <1>5, <1>12 DEF IInv, CountInv, AtStep
    <3>2. \A q \in Procs : q < N
      BY DEF Procs, EBRAssumption
    <3> QED
      BY <3>1, <3>2 DEF Blocked, Counted
  <2>3. \A r \in Procs, i \in 0 .. 2 : Rounds(r, i)' = Rounds(r, i)
    BY <1>1, <1>5 DEF Rounds
  <2>4. \A q, r \in Procs, i \in 0 .. 2 : Safe(r, q, i) => Safe(r, q, i)'
    BY <1>5, <1>12, <2>1, <2>2, <2>3 DEF Safe
  <2>5. HeldInv'
    BY <1>1, <1>10, <2>4 DEF IInv, HeldInv
  <2> QED
    BY <1>3, <1>7, <1>8, <1>9, <2>5 DEF IInv
<1> QED
  BY <1>2, <1>11, <1>12

LEMMA FinishInv ==
  ASSUME IInv, NEW p \in Procs, FinishCollection(p)
  PROVE  IInv'
<1>1. /\ UNCHANGED <<epoch, announce, buffer, limboIdx, limboBags, checkNext, held, removed, record>>
      /\ local[p].pc = "finish" /\ local'[p].pc = "operation"
      /\ local'[p].epoch = local[p].epoch
      /\ \A q \in Procs : q # p => local'[q] = local[q]
      /\ buffer[p] = <<>>
  BY DEF IInv, EBRTypeOK, FinishCollection, Drained, GotoStep, AtStep
<1>2. EBRTypeOK'
  BY DEF IInv, EBRTypeOK, FinishCollection, GotoStep
<1>3. \A q \in Procs : OwnAnnouncement(q)' = OwnAnnouncement(q) /\ All(q)' = All(q)
  BY <1>1, NoStore
<1>4. /\ ~InCall(p) /\ ~InCall(p)'
      /\ \A q \in Procs : Cur(q)' = Cur(q) /\ (InCall(q)' <=> InCall(q))
      /\ \A q \in Procs : \A place : q # p => (AtStep(q, place)' <=> AtStep(q, place))
      /\ \A q \in Procs : AtStep(q, "rotate")' <=> AtStep(q, "rotate")
  BY <1>1, <1>3 DEF Cur, InCall, AtStep
<1>5. AnnouncedInv'
  <2>1. \A a \in All(p) : ~a.qbit
    BY <1>1, OwnIsOfAll DEF IInv, AnnouncedInv, AtStep
  <2>2. ~AtStep(p, "finish")'
    BY <1>1 DEF AtStep
  <2> QED
    BY <1>1, <1>3, <1>4, <2>1, <2>2 DEF IInv, AnnouncedInv
<1>6. CountInv'
  BY <1>1, <1>4 DEF IInv, CountInv, AtStep
<1>7. RecordInv'
  BY <1>1, RecordsStay DEF IInv
<1>8. HeldInv'
  <2>1. \A q, r \in Procs : Counted(q, r)' <=> Counted(q, r)
    BY <1>1, <1>4 DEF Counted
  <2>2. \A q \in Procs : Blocked(q) => Blocked(q)'
    BY <1>1, <1>3, <2>1, BlockedFrame
  <2>3. \A q \in Procs : \A x \in held'[q] : AtStep(q, "operation")' /\ x \in held[q]
    BY <1>1, <1>4 DEF IInv, HeldInv, AtStep
  <2> QED
    BY <1>1, <1>4, <2>2, <2>3, HeldFrame DEF IInv
<1> QED
  BY <1>2, <1>5, <1>6, <1>7, <1>8 DEF IInv

-------------------------------------------------------------------------------
LEMMA NextInv ==
  ASSUME EBRAssumption, IInv, [EBRNext]_ebrVars
  PROVE  IInv'
<1>1. CASE UNCHANGED ebrVars
  <2>1. RecordInv'
    BY <1>1, RecordsStay DEF IInv, ebrVars
  <2>2. \A q \in Procs : \A x \in held'[q] : AtStep(q, "operation")' /\ x \in held[q]
    BY <1>1 DEF ebrVars, IInv, HeldInv, AtStep
  <2>3. HeldInv'
    BY <1>1, <2>2, BetweenCalls, HeldFrame DEF IInv, ebrVars
  <2>4. EBRTypeOK'
    BY <1>1 DEF IInv, EBRTypeOK, ebrVars
  <2> QED
    BY <1>1, <2>1, <2>3, <2>4, BetweenCalls DEF IInv, ebrVars
<1>2. ASSUME NEW p \in Procs, Drain(p) PROVE IInv'
  BY <1>2, DrainInv
<1>3. ASSUME NEW p \in Procs, LeaveQuiescent(p) PROVE IInv'
  BY <1>3, LoadEpochInv, RotateInv, CheckOtherInv, AdvanceInv, AnnounceInv, FinishInv
  DEF LeaveQuiescent
<1>4. ASSUME NEW p \in Procs, EBR_enterQuiescentState(p) PROVE IInv'
  BY <1>4, EnterInv
<1>5. ASSUME NEW p \in Procs, NEW o \in Objects, Use(p, o) \/ Unlink(p, o) \/ EBR_retire(p, o)
      PROVE  IInv'
  BY <1>5, UseInv, UnlinkInv, RetireInv
<1> QED
  BY <1>1, <1>2, <1>3, <1>4, <1>5 DEF EBRNext, AtBound

LEMMA InitInv ==
  ASSUME EBRAssumption, EBRInit
  PROVE  IInv
<1>1. EBRTypeOK
  BY DEF EBRInit, EBRTypeOK, Announcement, Announcements, EBRAssumption
<1>2. \A p \in Procs : /\ announce[p] = [epoch |-> 0, qbit |-> FALSE] /\ buffer[p] = <<>>
                       /\ local[p].pc = "operation" /\ local[p].epoch = 0
                       /\ checkNext[p] = 0 /\ held[p] = {} /\ removed[p] = {}
                       /\ \A i \in 0 .. 2 : limboBags[p][i] = {}
  BY DEF EBRInit, Announcement
<1>3. \A p \in Procs : All(p) = {[epoch |-> 0, qbit |-> FALSE]}
  BY <1>1, <1>2, OwnIsOfAll DEF OwnAnnouncement
<1>4. AnnouncedInv
  BY <1>2, <1>3 DEF AnnouncedInv, AtStep, EBRInit
<1>5. CountInv
  BY <1>2 DEF CountInv, AtStep, EBRAssumption
<1>6. RecordInv
  BY <1>2 DEF RecordInv, NotFreed, RemovedOnce, RetiredUnlinked, RetiredOnce
<1>7. HeldInv
  BY <1>2 DEF HeldInv
<1> QED
  BY <1>1, <1>4, <1>5, <1>6, <1>7 DEF IInv

(* A record with one place at most is in one bag at most.                  *)
LEMMA SafeInv ==
  ASSUME IInv
  PROVE  FreedOnceAndUnused
<1>1. FreedIsNotHeld
  BY DEF IInv, EBRTypeOK, RecordInv, NotFreed, FreedIsNotHeld
<1>2. ASSUME NEW o \in Objects
      PROVE  LET places == {x \in Procs \X (0 .. 2) : o \in limboBags[x[1]][x[2]]} IN
             Cardinality(places) <= 1 /\ (places # {} => record[o] # "freed")
  <2> DEFINE places == {x \in Procs \X (0 .. 2) : o \in limboBags[x[1]][x[2]]}
  <2>1. RetiredUnlinked(o) /\ RetiredOnce(o)
    BY DEF IInv, RecordInv
  <2>2. places # {} => record[o] # "freed"
    BY <2>1 DEF RetiredUnlinked
  <2>3. \A x, y \in places : x = y
    BY <2>1 DEF RetiredOnce
  <2>4. CASE places = {}
    BY <2>2, <2>4, FS_EmptySet
  <2>5. CASE places # {}
    <3>1. PICK x \in places : TRUE
      BY <2>5
    <3>2. places = {x}
      BY <2>3, <3>1
    <3>3. Cardinality(places) = 1
      BY <3>2, FS_Singleton
    <3> QED
      BY <2>2, <3>3
  <2> QED
    BY <2>4, <2>5
<1> QED
  BY <1>1, <1>2 DEF FreedOnceAndUnused, InOneBag

\* The induction: whatever the processors do, each of them is a round of
\* announcements ahead of what it frees.
THEOREM InvHolds == EBRAssumption => (EBRSpec => []IInv)
<1> SUFFICES ASSUME EBRAssumption PROVE EBRSpec => []IInv
  OBVIOUS
<1>1. EBRInit => IInv
  BY InitInv
<1>2. IInv /\ [EBRNext]_ebrVars => IInv'
  BY NextInv
<1> QED
  BY <1>1, <1>2, PTL DEF EBRSpec

\* No processor has a pointer to a record that was freed, and no record is
\* freed twice, whatever the number of processors, of records, and of stores
\* that are on their way.
THEOREM FreedOnceAndUnusedHolds == EBRAssumption => (EBRSpec => []FreedOnceAndUnused)
BY InvHolds, SafeInv, PTL

\* The variables of ebr.c keep their ranges.
THEOREM TypeCorrect == EBRAssumption => (EBRSpec => []EBRTypeOK)
<1>1. IInv => EBRTypeOK
  BY DEF IInv
<1> QED
  BY <1>1, InvHolds, PTL

-------------------------------------------------------------------------------
(* The end of the program *)

Signallers(q) == {p \in Processors : relay[p].at \in {"kill", "sub"} /\ relay[p].to = q}

Broadcasts == [at : {"idle", "next", "load", "check", "cas", "kill", "sub"},
               to : 0 .. numberOfProcs, status : 0 .. numberOfProcs]

\* Types, without the upper bound of the status, which follows from StatusInv.
TypeInv ==
  /\ terminationLeader \in Processors \union {Invalid}
  /\ terminationStatus \in [Processors -> Nat]
  /\ ccTarget \in [Processors -> BOOLEAN]
  /\ limit \in [Processors -> {"set", "zero", "signal"}]
  /\ lock \in Processors \union {Invalid}
  /\ pc \in [Processors -> {"program", "entered", "runtime", "collecting", "locking",
       "terminate", "exited", "tell", "join", "wait", "halted"}]
  /\ next \in 0 .. numberOfProcs
  /\ relay \in [Processors -> Broadcasts]

\* A sender that is past the loop's tests has a target other than itself, and
\* compares with a status that is not 0.
RelayInv ==
  \A p \in Processors :
    /\ relay[p].at \notin {"idle", "next"} => relay[p].to \in Processors \ {p}
    /\ relay[p].at = "cas" => relay[p].status > 0

\* The status counts the senders; a thread that has exited has none.
StatusInv ==
  \A q \in Processors :
    /\ pc[q] # "exited" => terminationStatus[q] = 1 + Cardinality(Signallers(q))
    /\ pc[q] = "exited" => terminationStatus[q] = 0 /\ Signallers(q) = {}

\* Who is past the compare-and-swap is the leader; who waits waits for someone.
LeaderInv ==
  \A p \in Processors :
    /\ Ends(p) => terminationLeader = p
    /\ pc[p] = "wait" => next < numberOfProcs

EndInv == TypeInv /\ RelayInv /\ StatusInv /\ LeaderInv

-----------------------------------------------------------------------------
\* The processors that signal q are finitely many, and q is not one of them.
LEMMA SignallersFinite ==
  ASSUME TerminationAssumption, RelayInv, NEW q \in Processors
  PROVE  /\ IsFiniteSet(Signallers(q))
         /\ Cardinality(Signallers(q)) \in 0 .. numberOfProcs - 1
<1> DEFINE Others == Processors \ {q}
<1>1. numberOfProcs \in Nat /\ numberOfProcs >= 2
  BY DEF TerminationAssumption
<1>2. IsFiniteSet(Processors) /\ Cardinality(Processors) = numberOfProcs
  BY <1>1, FS_Interval DEF Processors
<1>3. IsFiniteSet(Others) /\ Cardinality(Others) = numberOfProcs - 1
  BY <1>2, FS_RemoveElement
<1>4. Signallers(q) \in SUBSET Others
  BY DEF Signallers, RelayInv
<1>5. IsFiniteSet(Signallers(q)) /\ Cardinality(Signallers(q)) <= Cardinality(Others)
  BY <1>3, <1>4, FS_Subset
<1>6. Cardinality(Signallers(q)) \in Nat
  BY <1>5, FS_CardinalityType
<1> QED
  BY <1>1, <1>3, <1>5, <1>6

LEMMA TerminationStarts == ASSUME TerminationAssumption, TerminationInit PROVE EndInv
<1>1. \A q \in Processors : Signallers(q) = {}
  BY DEF TerminationInit, NoRelay, Signallers
<1>2. TypeInv /\ RelayInv /\ LeaderInv
  BY DEF TerminationInit, NoRelay, TerminationAssumption, TypeInv, Broadcasts, RelayInv, LeaderInv, Ends
<1>3. StatusInv
  BY <1>1, FS_EmptySet DEF TerminationInit, StatusInv
<1> QED
  BY <1>2, <1>3 DEF EndInv

-----------------------------------------------------------------------------
\* A step that starts or ends no sending and no thread keeps the counts.
LEMMA StatusKept ==
  ASSUME StatusInv, terminationStatus' = terminationStatus,
         \A q \in Processors : (pc'[q] = "exited") <=> (pc[q] = "exited"),
         \A q \in Processors : Signallers(q)' = Signallers(q)
  PROVE  StatusInv'
BY DEF StatusInv

\* So do all steps but the four of a sender that change whom it is signalling.
LEMMA SameSignallers ==
  ASSUME relay' = relay PROVE \A q \in Processors : Signallers(q)' = Signallers(q)
BY DEF Signallers

\* What a processor does in the runtime.
LEMMA RuntimeInv ==
  ASSUME TerminationAssumption, EndInv, NEW p \in Processors, Runtime(p)
  PROVE  EndInv'
<1> USE DEF EndInv
<1>1. relay' = relay
  BY DEF Runtime, BeginAtomic, Leave, StartCC, FinishCC, TerminateThread, Tell, Join, JoinReturns
<1>2. \A q \in Processors : Signallers(q)' = Signallers(q)
  BY <1>1, SameSignallers
<1>3. RelayInv'
  BY <1>1 DEF RelayInv
<1>4. TypeInv' /\ LeaderInv'
  <2> USE DEF TypeInv, LeaderInv, Ends, MoveTo, IsAt
  <2>0. numberOfProcs \in Nat /\ Processors = 0 .. numberOfProcs - 1
    BY DEF TerminationAssumption, Processors
  <2>1. CASE BeginAtomic(p)
    BY <2>1 DEF BeginAtomic
  <2>2. CASE Leave(p)
    BY <2>2 DEF Leave
  <2>3. CASE StartCC(p)
    BY <2>3 DEF StartCC
  <2>4. CASE FinishCC(p)
    BY <2>4 DEF FinishCC
  <2>5. CASE TerminateThread(p)
    BY <2>5 DEF TerminateThread
  <2>6. CASE Tell(p)
    <3>1. terminationLeader = p /\ \A q \in Processors : Ends(q) => q = p
      BY <2>6 DEF Tell
    <3>2. /\ UNCHANGED <<terminationLeader, terminationStatus, ccTarget, lock, relay>>
          /\ next' \in 0 .. numberOfProcs
          /\ \E at \in {"tell", "join"} : pc' = [pc EXCEPT ![p] = at]
      <4>1. pc' = pc => pc' = [pc EXCEPT ![p] = "tell"]
        BY <2>6 DEF Tell
      <4> QED
        BY <2>0, <2>6, <4>1 DEF Tell
    <3>3. limit' \in [Processors -> {"set", "zero", "signal"}]
      BY <2>6 DEF Tell
    <3>4. TypeInv'
      BY <3>2, <3>3
    <3>5. LeaderInv'
      BY <3>1, <3>2
    <3> QED
      BY <3>4, <3>5
  <2>7. CASE Join(p) \/ JoinReturns(p)
    <3>1. terminationLeader = p /\ \A q \in Processors : Ends(q) => q = p
      BY <2>7 DEF Join, JoinReturns
    <3>2. /\ UNCHANGED <<terminationLeader, terminationStatus, ccTarget, limit, lock, relay>>
          /\ next' \in 0 .. numberOfProcs
          /\ \E at \in {"join", "wait", "halted"} :
               pc' = [pc EXCEPT ![p] = at] /\ (at = "wait" => next' < numberOfProcs)
      <4>1. CASE Join(p)
        <5>1. pc' = pc => pc' = [pc EXCEPT ![p] = "join"]
          BY <4>1 DEF Join
        <5> QED
          BY <2>0, <4>1, <5>1 DEF Join
      <4>2. CASE JoinReturns(p)
        BY <2>0, <4>2 DEF JoinReturns
      <4> QED
        BY <2>7, <4>1, <4>2
    <3> QED
      BY <3>1, <3>2
  <2> QED
    BY <2>1, <2>2, <2>3, <2>4, <2>5, <2>6, <2>7 DEF Runtime
<1>6. StatusInv'
  <2>1. CASE TerminateThread(p)
    <3>1. pc[p] = "terminate" /\ terminationStatus[p] \in Nat
      BY <2>1 DEF TerminateThread, IsAt, TypeInv
    <3>2. Cardinality(Signallers(p)) = 0 /\ IsFiniteSet(Signallers(p))
      BY <2>1, <3>1, SignallersFinite DEF TerminateThread, AfterExit, StatusInv
    <3>3. Signallers(p) = {}
      BY <3>2, FS_EmptySet
    <3>4. \A q \in Processors : q # p => pc'[q] = pc[q]
                                         /\ terminationStatus'[q] = terminationStatus[q]
      BY <2>1 DEF TerminateThread, MoveTo, TypeInv
    <3>5. pc'[p] = "exited" /\ terminationStatus'[p] = 0
      BY <2>1 DEF TerminateThread, MoveTo, TypeInv
    <3> QED
      BY <1>2, <3>3, <3>4, <3>5 DEF StatusInv
  <2>2. CASE ~TerminateThread(p)
    <3>1. /\ terminationStatus' = terminationStatus
          /\ \A q \in Processors : (pc'[q] = "exited") <=> (pc[q] = "exited")
      BY <2>2 DEF TypeInv, MoveTo, IsAt, Runtime, BeginAtomic, Leave, StartCC, FinishCC,
        Tell, Join, JoinReturns
    <3> QED
      BY <1>2, <3>1, StatusKept
  <2> QED
    BY <2>1, <2>2
<1> QED
  BY <1>3, <1>4, <1>6

\* What its program does.
LEMMA ProgramInv ==
  ASSUME TerminationAssumption, EndInv, NEW p \in Processors, Program(p)
  PROVE  EndInv'
<1> USE DEF EndInv
<1>1. relay' = relay /\ terminationStatus' = terminationStatus
  BY DEF Program, Enter, LockTake, Poll, LockRelease, TryToTerminate
<1>2. RelayInv'
  BY <1>1 DEF RelayInv
<1>3. TypeInv'
  BY DEF TypeInv, TerminationAssumption, MoveTo, IsAt,
    Program, Enter, LockTake, Poll, LockRelease, TryToTerminate
<1>4. LeaderInv'
  BY DEF TypeInv, LeaderInv, Ends, TerminationAssumption, MoveTo, IsAt, Requested, WinsRace,
    MayTerminateThread, Program, Enter, LockTake, Poll, LockRelease, TryToTerminate
<1>5. \A q \in Processors : (pc'[q] = "exited") <=> (pc[q] = "exited")
  BY DEF TypeInv, MoveTo, IsAt, Program, Enter, LockTake, Poll, LockRelease, TryToTerminate
<1>6. StatusInv'
  BY <1>1, <1>5, SameSignallers, StatusKept
<1> QED
  BY <1>2, <1>3, <1>4, <1>6

\* What its broadcast does.
LEMMA RelayStepInv ==
  ASSUME TerminationAssumption, EndInv, NEW p \in Processors, Relay(p) \/ StartBroadcast(p)
  PROVE  EndInv'
<1> USE DEF EndInv
<1> DEFINE to == relay[p].to
<1>1. pc' = pc /\ next' = next /\ terminationLeader' = terminationLeader
  BY DEF Relay, StartBroadcast, NextTarget, LoadStatus, CheckRequest, PreventExit, Kill,
    AllowExit
<1>2. LeaderInv'
  BY <1>1 DEF LeaderInv, Ends
<1>3. \A x \in Processors : x # p => relay'[x] = relay[x]
  BY DEF TypeInv, Relay, StartBroadcast, NextTarget, LoadStatus, CheckRequest, PreventExit,
    Kill, AllowExit
<1>4. numberOfProcs \in Nat
  BY DEF TerminationAssumption
<1>5. CASE PreventExit(p) /\ terminationStatus[to] = relay[p].status
  <2>1. /\ to \in Processors /\ to # p /\ relay[p].at = "cas"
        /\ relay'[p].at = "kill" /\ relay'[p].to = to
        /\ terminationStatus' = [terminationStatus EXCEPT ![to] = @ + 1]
    BY <1>5 DEF PreventExit, RelayAt, TypeInv, RelayInv, Broadcasts
  <2>2. pc[to] # "exited"
    BY <1>5, <2>1 DEF RelayInv, StatusInv, TypeInv
  <2>3. TypeInv'
    BY <1>5, <2>1 DEF PreventExit, TypeInv, Broadcasts
  <2>4. RelayInv'
    BY <1>3, <2>1 DEF RelayInv
  <2>5. Signallers(to)' = Signallers(to) \union {p} /\ p \notin Signallers(to)
    BY <1>3, <2>1 DEF Signallers
  <2>6. \A q \in Processors : q # to => Signallers(q)' = Signallers(q)
    BY <1>3, <2>1 DEF Signallers
  <2>7. Cardinality(Signallers(to)') = Cardinality(Signallers(to)) + 1
    BY <2>1, <2>5, SignallersFinite, FS_AddElement
  <2>8. StatusInv'
    <3> SUFFICES ASSUME NEW q \in Processors PROVE StatusInv!(q)'
      BY DEF StatusInv
    <3>1. CASE q = to
      BY <1>1, <2>1, <2>2, <2>7, <3>1, SignallersFinite DEF StatusInv, TypeInv
    <3>2. CASE q # to
      BY <1>1, <2>1, <2>6, <3>2 DEF StatusInv, TypeInv
    <3> QED
      BY <3>1, <3>2
  <2> QED
    BY <1>2, <2>3, <2>4, <2>8
<1>6. CASE AllowExit(p)
  <2>0. PICK target \in {to} : TRUE
    OBVIOUS
  <2>1. /\ target = to /\ target \in Processors /\ target # p /\ relay[p].at = "sub"
        /\ relay'[p].at = "next" /\ relay'[p].to = target + 1
        /\ terminationStatus' = [terminationStatus EXCEPT ![target] = @ - 1]
    BY <1>6, <2>0 DEF AllowExit, RelayAt, LessOne, TypeInv, RelayInv, Broadcasts
  <2>2. Signallers(target)' = Signallers(target) \ {p} /\ p \in Signallers(target)
    BY <1>3, <2>1 DEF Signallers
  <2>3. \A q \in Processors : q # target => Signallers(q)' = Signallers(q)
    BY <1>3, <2>1 DEF Signallers
  <2>4. /\ Cardinality(Signallers(target)') = Cardinality(Signallers(target)) - 1
        /\ Cardinality(Signallers(target)) \in Nat
    <3>1. IsFiniteSet(Signallers(target)) /\ Cardinality(Signallers(target)) \in Nat
      BY <2>1, <1>4, SignallersFinite
    <3>2. Cardinality(Signallers(target) \ {p}) = Cardinality(Signallers(target)) - 1
      BY <2>2, <3>1, FS_RemoveElement
    <3> QED
      BY <2>2, <3>1, <3>2
  <2>5. pc[target] # "exited" /\ terminationStatus[target] = 1 + Cardinality(Signallers(target))
    BY <2>1, <2>2 DEF StatusInv
  <2>6. TypeInv'
    <3>0. relay[p] \in Broadcasts /\ target + 1 \in 0 .. numberOfProcs
      BY <1>4, <2>1 DEF TypeInv, Processors
    <3>1. [relay[p] EXCEPT !.at = "next", !.to = target + 1] \in Broadcasts
      BY <3>0 DEF Broadcasts
    <3>2. relay' = [relay EXCEPT ![p] = [relay[p] EXCEPT !.at = "next", !.to = target + 1]]
      BY <1>6, <2>1 DEF AllowExit, TypeInv, Broadcasts
    <3>3. terminationStatus' \in [Processors -> Nat]
      BY <2>1, <2>4, <2>5 DEF TypeInv
    <3>4. relay' \in [Processors -> Broadcasts]
      BY <3>1, <3>2 DEF TypeInv
    <3> QED
      BY <1>6, <3>3, <3>4 DEF AllowExit, TypeInv
  <2>7. RelayInv'
    BY <1>3, <2>1 DEF RelayInv
  <2>8. StatusInv'
    <3> SUFFICES ASSUME NEW q \in Processors PROVE StatusInv!(q)'
      BY DEF StatusInv
    <3>1. CASE q = target
      BY <1>1, <2>1, <2>4, <2>5, <3>1 DEF StatusInv, TypeInv
    <3>2. CASE q # target
      BY <1>1, <2>1, <2>3, <3>2 DEF StatusInv, TypeInv
    <3> QED
      BY <3>1, <3>2
  <2> QED
    BY <1>2, <2>6, <2>7, <2>8
<1>7. CASE \/ StartBroadcast(p) \/ NextTarget(p) \/ LoadStatus(p) \/ CheckRequest(p) \/ Kill(p)
           \/ PreventExit(p) /\ terminationStatus[to] # relay[p].status
  <2>1. terminationStatus' = terminationStatus
    BY <1>7 DEF StartBroadcast, NextTarget, LoadStatus, CheckRequest, Kill, PreventExit
  <2> DEFINE Kept(r) ==
        /\ r.at \notin {"idle", "next"} => r.to \in Processors \ {p}
        /\ r.at = "cas" => r.status > 0
        /\ r.at \in {"kill", "sub"} <=> relay[p].at \in {"kill", "sub"}
        /\ r.at \in {"kill", "sub"} => r.to = to
  <2>2. relay[p] \in Broadcasts /\ (relay[p].at \notin {"idle", "next"} => to \in Processors \ {p})
    BY DEF TypeInv, RelayInv
  <2>3. \E r \in Broadcasts : relay' = [relay EXCEPT ![p] = r] /\ Kept(r)
    <3>1. CASE StartBroadcast(p)
      <4>1. [NoRelay EXCEPT !.at = "next"] \in Broadcasts /\ Kept([NoRelay EXCEPT !.at = "next"])
        BY <1>4, <3>1 DEF NoRelay, Broadcasts, StartBroadcast, RelayAt
      <4> QED
        BY <3>1, <4>1 DEF StartBroadcast
    <3>2. CASE NextTarget(p)
      <4>0. relay[p].at = "next"
        BY <3>2 DEF NextTarget, RelayAt
      <4>1. CASE to = numberOfProcs \/ Requested
        <5>1. NoRelay \in Broadcasts /\ Kept(NoRelay)
          BY <1>4, <4>0 DEF NoRelay, Broadcasts
        <5> QED
          BY <3>2, <4>1, <5>1 DEF NextTarget
      <4>2. CASE ~(to = numberOfProcs \/ Requested) /\ to = p
        <5> DEFINE r == [relay[p] EXCEPT !.to = p + 1]
        <5>1. r \in Broadcasts /\ Kept(r)
          BY <1>4, <2>2, <4>0, <4>2 DEF Broadcasts, Processors
        <5>2. relay' = [relay EXCEPT ![p] = r]
          BY <3>2, <4>2 DEF NextTarget
        <5> QED
          BY <5>1, <5>2
      <4>3. CASE ~(to = numberOfProcs \/ Requested) /\ to # p
        <5> DEFINE r == [relay[p] EXCEPT !.at = "load"]
        <5>1. r \in Broadcasts /\ Kept(r)
          BY <1>4, <2>2, <4>0, <4>3 DEF Broadcasts, Processors
        <5>2. relay' = [relay EXCEPT ![p] = r]
          BY <3>2, <4>3 DEF NextTarget
        <5> QED
          BY <5>1, <5>2
      <4> QED
        BY <4>1, <4>2, <4>3
    <3>3. CASE LoadStatus(p)
      <4>1. terminationStatus[to] \in 0 .. numberOfProcs
        <5>1. to \in Processors
          BY <2>2, <3>3 DEF LoadStatus, RelayAt
        <5> QED
          BY <1>4, <5>1, SignallersFinite DEF StatusInv
      <4> DEFINE r == [relay[p] EXCEPT !.at = "check", !.status = terminationStatus[to]]
      <4>2. r \in Broadcasts /\ Kept(r)
        BY <2>2, <3>3, <4>1 DEF LoadStatus, RelayAt, Broadcasts
      <4>3. relay' = [relay EXCEPT ![p] = r]
        BY <2>2, <3>3 DEF LoadStatus, TypeInv, Broadcasts
      <4> QED
        BY <4>2, <4>3
    <3>4. CASE CheckRequest(p)
      <4>0. relay[p].at = "check"
        BY <3>4 DEF CheckRequest, RelayAt
      <4>1. CASE HasNotExited(relay[p].status) /\ ~Requested
        <5> DEFINE r == [relay[p] EXCEPT !.at = "cas"]
        <5>1. r \in Broadcasts /\ Kept(r)
          BY <2>2, <4>0, <4>1 DEF Broadcasts, HasNotExited
        <5>2. relay' = [relay EXCEPT ![p] = r]
          BY <3>4, <4>1 DEF CheckRequest
        <5> QED
          BY <5>1, <5>2
      <4>2. CASE ~(HasNotExited(relay[p].status) /\ ~Requested)
        <5> DEFINE r == [relay[p] EXCEPT !.at = "next", !.to = to + 1]
        <5>0. to + 1 \in 0 .. numberOfProcs
          BY <1>4, <2>2, <4>0 DEF Processors
        <5>1. r \in Broadcasts /\ Kept(r)
          BY <2>2, <4>0, <5>0 DEF Broadcasts
        <5>2. relay' = [relay EXCEPT ![p] = r]
          BY <3>4, <4>2 DEF CheckRequest
        <5> QED
          BY <5>1, <5>2
      <4> QED
        BY <4>1, <4>2
    <3>5. CASE Kill(p)
      <4> DEFINE r == [relay[p] EXCEPT !.at = "sub"]
      <4>1. r \in Broadcasts /\ Kept(r)
        BY <2>2, <3>5 DEF Kill, RelayAt, Broadcasts
      <4>2. relay' = [relay EXCEPT ![p] = r]
        BY <3>5 DEF Kill
      <4> QED
        BY <4>1, <4>2
    <3>6. CASE PreventExit(p) /\ terminationStatus[to] # relay[p].status
      <4> DEFINE r == [relay[p] EXCEPT !.at = "load"]
      <4>1. r \in Broadcasts /\ Kept(r)
        BY <2>2, <3>6 DEF PreventExit, RelayAt, Broadcasts
      <4>2. relay' = [relay EXCEPT ![p] = r]
        BY <3>6 DEF PreventExit
      <4> QED
        BY <4>1, <4>2
    <3> QED
      BY <1>7, <3>1, <3>2, <3>3, <3>4, <3>5, <3>6
  <2>5. TypeInv' /\ RelayInv'
    <3>1. limit' \in [Processors -> {"set", "zero", "signal"}] /\ UNCHANGED <<ccTarget, lock>>
      BY <1>7 DEF TypeInv, StartBroadcast, NextTarget, LoadStatus, CheckRequest, Kill, PreventExit
    <3>2. relay' \in [Processors -> Broadcasts] /\ RelayInv'
      BY <2>3 DEF TypeInv, RelayInv
    <3> QED
      BY <1>1, <2>1, <3>1, <3>2 DEF TypeInv
  <2>4. \A q \in Processors : Signallers(q)' = Signallers(q)
    BY <1>3, <2>3 DEF Signallers, TypeInv
  <2> QED
    BY <1>1, <1>2, <2>1, <2>4, <2>5, StatusKept
<1> QED
  BY <1>5, <1>6, <1>7 DEF Relay

LEMMA TerminationSteps ==
  ASSUME TerminationAssumption, EndInv, [TerminationNext]_terminationVars PROVE EndInv'
<1>1. CASE UNCHANGED terminationVars
  <2>1. \A q \in Processors : Signallers(q)' = Signallers(q)
    BY <1>1, SameSignallers DEF terminationVars
  <2> QED
    BY <1>1, <2>1, StatusKept DEF terminationVars, EndInv, TypeInv, RelayInv, LeaderInv, Ends
<1>2. CASE \E p \in Processors : Relay(p) \/ StartBroadcast(p) \/ Runtime(p) \/ Program(p)
  BY <1>2, RuntimeInv, ProgramInv, RelayStepInv
<1> QED
  BY <1>1, <1>2 DEF TerminationNext, ProcessExit

\* A status counts the senders, of which there are fewer than processors.
LEMMA EndTypes == ASSUME TerminationAssumption, EndInv PROVE TerminationTypeOK
<1>1. \A q \in Processors : terminationStatus[q] \in 0 .. numberOfProcs
  BY SignallersFinite DEF EndInv, StatusInv, TerminationAssumption
<1>2. terminationStatus \in [Processors -> 0 .. numberOfProcs]
  BY <1>1 DEF EndInv, TypeInv
<1> QED
  BY <1>2 DEF EndInv, TypeInv, TerminationTypeOK, Broadcasts

-----------------------------------------------------------------------------
\* The invariant holds in every behaviour.
THEOREM TerminationInvHolds == ASSUME TerminationAssumption PROVE TerminationSpec => []EndInv
BY TerminationStarts, TerminationSteps, PTL DEF TerminationSpec

\* relaySignalTo and GC_TryToTerminate, for any number of processors: whoever
\* is signalled has not exited, and one processor ends the program.
THEOREM SignalledIsAliveHolds == ASSUME TerminationAssumption PROVE TerminationSpec => []SignalledIsAlive
<1>1. EndInv => SignalledIsAlive
  <2> SUFFICES ASSUME EndInv PROVE SignalledIsAlive
    OBVIOUS
  <2>1. NoSignalAfterExit
    <3> SUFFICES ASSUME NEW p \in Processors, relay[p].at \in {"kill", "sub"}
                 PROVE  terminationStatus[relay[p].to] >= 2 /\ pc[relay[p].to] # "exited"
      BY DEF NoSignalAfterExit
    <3> DEFINE q == relay[p].to
    <3>1. q \in Processors /\ p \in Signallers(q)
      BY DEF EndInv, RelayInv, Signallers
    <3>2. IsFiniteSet(Signallers(q)) /\ Cardinality(Signallers(q)) \in Nat
      BY <3>1, SignallersFinite DEF EndInv, TerminationAssumption
    <3>3. Cardinality(Signallers(q)) # 0
      BY <3>1, <3>2, FS_EmptySet
    <3> QED
      BY <3>1, <3>2, <3>3 DEF EndInv, StatusInv
  <2>2. OneLeader
    BY DEF EndInv, LeaderInv, OneLeader
  <2> QED
    BY <2>1, <2>2 DEF SignalledIsAlive
<1> QED
  BY <1>1, TerminationInvHolds, PTL

\* The types of the termination protocol's state, the bound of the sender
\* counts included: no processor is signalled twice by one sender.
THEOREM TerminationTypeCorrect == ASSUME TerminationAssumption PROVE TerminationSpec => []TerminationTypeOK
<1>1. EndInv => TerminationTypeOK
  BY EndTypes
<1> QED
  BY <1>1, TerminationInvHolds, PTL

-----------------------------------------------------------------------------
\* The protocols of MCProcessors do not touch each other's variables: in every
\* behaviour of the system that runs one of them, EBR and Termination keep
\* their types.
THEOREM BothTypesHold == AllSpec => []BothTypeOK
<1>1. TerminationAssumption /\ EBRAssumption
  BY BothAssumptions
<1>2. AllInit => IInv /\ EndInv
  BY <1>1, InitInv, TerminationStarts DEF AllInit
<1>3. (IInv /\ EndInv) /\ [AllNext]_AllVars => (IInv /\ EndInv)'
  <2> SUFFICES ASSUME IInv, EndInv, [AllNext]_AllVars PROVE IInv' /\ EndInv'
    OBVIOUS
  <2>1. [EBRNext]_ebrVars
    BY DEF AllNext, AllVars
  <2>2. [TerminationNext]_terminationVars
    BY DEF AllNext, AllVars
  <2> QED
    BY <1>1, <2>1, <2>2, NextInv, TerminationSteps
<1>4. IInv /\ EndInv => BothTypeOK
  BY <1>1, EndTypes DEF IInv, BothTypeOK
<1> QED
  BY <1>2, <1>3, <1>4, PTL DEF AllSpec
=============================================================================
