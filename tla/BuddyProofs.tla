---------------------------- MODULE BuddyProofs -----------------------------
(***************************************************************************)
(* The safety properties of Buddy hold for every MaxOrder and BootSeq:      *)
(* IInv is inductive, one lemma per action, and implies each of them.       *)
(* First come facts about lists, then facts about blocks and their buddies; *)
(* at the end, that Buddy implements FrameAllocator.                        *)
(***************************************************************************)
EXTENDS Buddy, SequenceTheorems, WellFoundedInduction, TLAPS

\* What a push does to a list: one element more, still without repetition.
LEMMA PushList ==
    ASSUME NEW S, NEW l \in Seq(S), NEW b \in S
    PROVE  /\ <<b>> \o l \in Seq(S)
           /\ Range(<<b>> \o l) = Range(l) \cup {b}
           /\ IsInjective(l) /\ b \notin Range(l) => IsInjective(<<b>> \o l)
<1>1. <<b>> \o l \in Seq(S)
      OBVIOUS
<1>2. /\ Len(<<b>> \o l) = Len(l) + 1
      /\ \A k \in 1..Len(l) + 1 :
            (<<b>> \o l)[k] = IF k = 1 THEN b ELSE l[k - 1]
      OBVIOUS
<1>3. Range(<<b>> \o l) = Range(l) \cup {b}
      <2>1. \A x \in Range(l) : \E k \in 1..Len(l) + 1 : (<<b>> \o l)[k] = x
            <3>. SUFFICES ASSUME NEW i \in 1..Len(l)
                         PROVE  \E k \in 1..Len(l) + 1 : (<<b>> \o l)[k] = l[i]
                 BY DEF Range
            <3>. QED BY <1>2, (<<b>> \o l)[i + 1] = l[i]
      <2>2. Range(<<b>> \o l) = {(<<b>> \o l)[k] : k \in 1..Len(l) + 1}
            BY <1>1, <1>2, RangeEquality
      <2>3. Range(l) = {l[k] : k \in 1..Len(l)}
            BY RangeEquality
      <2>4. ASSUME NEW x \in Range(<<b>> \o l)
            PROVE  x \in Range(l) \cup {b}
            <3>1. PICK k \in 1..Len(l) + 1 : x = (<<b>> \o l)[k]
                  BY <2>2
            <3>. QED BY <1>2, <2>3, <3>1
      <2>5. b \in Range(<<b>> \o l)
            <3>1. 1 \in 1..Len(l) + 1 /\ (<<b>> \o l)[1] = b
                  BY <1>2
            <3>. QED BY <2>2, <3>1
      <2>. QED BY <2>1, <2>2, <2>4, <2>5
<1>4. ASSUME IsInjective(l), b \notin Range(l)
      PROVE  IsInjective(<<b>> \o l)
      BY <1>1, <1>2, <1>4 DEF Range, IsInjective
<1>. QED BY <1>1, <1>3, <1>4

\* What a pop does to a list: its head is gone, and only that.
LEMMA PopList ==
    ASSUME NEW S, NEW l \in Seq(S), l # << >>
    PROVE  /\ Head(l) \in S
           /\ Head(l) \in Range(l)
           /\ Tail(l) \in Seq(S)
           /\ IsInjective(l) => /\ Range(Tail(l)) = Range(l) \ {Head(l)}
                                /\ IsInjective(Tail(l))
<1>1. Head(l) \in S /\ Head(l) \in Range(l) /\ Tail(l) \in Seq(S)
      BY DEF Range
<1>2. /\ Len(Tail(l)) = Len(l) - 1
      /\ \A k \in 1..Len(l) - 1 : Tail(l)[k] = l[k + 1]
      OBVIOUS
<1>3. ASSUME IsInjective(l)
      PROVE  IsInjective(Tail(l)) /\ Range(Tail(l)) = Range(l) \ {Head(l)}
      <2>1. IsInjective(Tail(l))
            BY <1>1, <1>2, <1>3 DEF IsInjective
      <2>2. ASSUME NEW x \in Range(l), x # Head(l)
            PROVE  x \in Range(Tail(l))
            <3>1. PICK i \in 1..Len(l) : l[i] = x
                  BY DEF Range
            <3>2. i # 1 /\ Tail(l)[i - 1] = x
                  BY <1>2, <2>2, <3>1
            <3>3. i - 1 \in 1..Len(Tail(l))
                  BY <1>2, <3>1, <3>2
            <3>. QED BY <1>1, <3>2, <3>3, RangeEquality
      <2>3. ASSUME NEW x \in Range(Tail(l))
            PROVE  x \in Range(l) /\ x # Head(l)
            <3>1. PICK i \in 1..Len(l) - 1 : l[i + 1] = x
                  BY <1>1, <1>2 DEF Range
            <3>. QED BY <1>3, <3>1 DEF Range, IsInjective
      <2>. QED BY <2>1, <2>2, <2>3
<1>. QED BY <1>1, <1>3

\* What buddy_remove does to a list: the block is gone, and only that,
\* although the rest of the list is rotated.
LEMMA RemoveFromList ==
    ASSUME NEW S, NEW l \in Seq(S), NEW b, b \in Range(l), IsInjective(l)
    PROVE  /\ buddy_remove(l, b) \in Seq(S)
           /\ IsInjective(buddy_remove(l, b))
           /\ Range(buddy_remove(l, b)) = Range(l) \ {b}
<1>. DEFINE i == CHOOSE k \in DOMAIN l : l[k] = b
            u == SubSeq(l, i + 1, Len(l))
            v == SubSeq(l, 1, i - 1)
            n == Len(l)
<1>1. i \in 1..n /\ l[i] = b
      BY DEF Range
<1>. HIDE DEF i
<1>2. /\ u \in Seq(S) /\ Len(u) = n - i
      /\ v \in Seq(S) /\ Len(v) = i - 1
      /\ \A k \in 1..n - i : u[k] = l[i + k]
      /\ \A k \in 1..i - 1 : v[k] = l[k]
      <2>1. i + 1 \in 1..n + 1 /\ n \in i..n /\ 1 \in 1..n + 1 /\ i - 1 \in 0..n
            BY <1>1
      <2>. QED BY <1>1, <2>1, SubSeqProperties
<1>. HIDE DEF u, v
<1>. DEFINE w == u \o v
<1>3. /\ w \in Seq(S)
      /\ Len(w) = n - 1
      /\ \A k \in 1..n - 1 :
            w[k] = IF k <= n - i THEN l[i + k] ELSE l[k - (n - i)]
      <2>1. w \in Seq(S) /\ Len(w) = Len(u) + Len(v)
            BY <1>2, ConcatProperties
      <2>2. \A k \in 1..Len(u) + Len(v) :
               w[k] = IF k <= Len(u) THEN u[k] ELSE v[k - Len(u)]
            BY <1>2, ConcatProperties
      <2>3. n \in Nat /\ i \in Nat
            BY <1>1
      <2>4. ASSUME NEW k \in 1..n - 1
            PROVE  w[k] = IF k <= n - i THEN l[i + k] ELSE l[k - (n - i)]
            <3>1. k <= n - i => k \in 1..n - i
                  BY <2>3
            <3>2. ~(k <= n - i) => k - (n - i) \in 1..i - 1
                  BY <1>1, <2>3
            <3>3. k \in 1..Len(u) + Len(v)
                  BY <1>2, <2>3
            <3>. QED BY <1>2, <2>2, <3>1, <3>2, <3>3
      <2>. QED BY <1>2, <2>1, <2>3, <2>4
<1>4. buddy_remove(l, b) = w
      BY DEF buddy_remove, w, u, v, i
<1>. HIDE DEF w
<1>5. \A k \in 1..n - 1 : \E j \in 1..n : j # i /\ w[k] = l[j]
                            /\ k = IF j > i THEN j - i ELSE j + (n - i)
      <2>. SUFFICES ASSUME NEW k \in 1..n - 1
                    PROVE  \E j \in 1..n : j # i /\ w[k] = l[j]
                            /\ k = IF j > i THEN j - i ELSE j + (n - i)
           OBVIOUS
      <2>1. n \in Nat /\ i \in Nat
            BY <1>1
      <2>2. CASE k <= n - i
            <3>1. i + k \in 1..n /\ i + k > i /\ k = (i + k) - i
                  BY <1>1, <2>1, <2>2
            <3>. QED BY <1>3, <2>2, <3>1
      <2>3. CASE ~(k <= n - i)
            <3>. DEFINE j == k - (n - i)
            <3>1. j \in 1..n /\ j < i /\ k = j + (n - i)
                  BY <1>1, <2>1, <2>3
            <3>2. w[k] = l[j]
                  BY <1>3, <2>3
            <3>. HIDE DEF j
            <3>. QED BY <1>1, <3>1, <3>2
      <2>. QED BY <2>2, <2>3
<1>6. IsInjective(w)
      <2>. SUFFICES ASSUME NEW k \in 1..n - 1, NEW m \in 1..n - 1, w[k] = w[m]
                    PROVE  k = m
           BY <1>3 DEF IsInjective
      <2>1. PICK j \in 1..n : j # i /\ w[k] = l[j]
                            /\ k = IF j > i THEN j - i ELSE j + (n - i)
            BY <1>5
      <2>2. PICK h \in 1..n : h # i /\ w[m] = l[h]
                            /\ m = IF h > i THEN h - i ELSE h + (n - i)
            BY <1>5
      <2>3. l[j] = l[h]
            BY <2>1, <2>2
      <2>4. j = h
            BY <2>3 DEF IsInjective
      <2>. QED BY <2>1, <2>2, <2>4
<1>7. ASSUME NEW x \in Range(l), x # b
      PROVE  x \in Range(w)
      <2>1. PICK j \in 1..n : l[j] = x
            BY DEF Range
      <2>2. n \in Nat /\ i \in Nat /\ i \in 1..n
            BY <1>1
      <2>3. CASE j < i
            <3>1. j + (n - i) \in 1..n - 1 /\ ~(j + (n - i) <= n - i)
                  BY <2>2, <2>3
            <3>2. (j + (n - i)) - (n - i) = j
                  BY <2>2
            <3>3. w[j + (n - i)] = x
                  BY <1>3, <2>1, <3>1, <3>2
            <3>. QED BY <1>3, <3>1, <3>3 DEF Range
      <2>4. CASE j > i
            <3>1. j - i \in 1..n - 1 /\ j - i <= n - i /\ i + (j - i) = j
                  BY <2>2, <2>4
            <3>2. w[j - i] = x
                  BY <1>3, <2>1, <3>1
            <3>. QED BY <1>3, <3>1, <3>2 DEF Range
      <2>. QED BY <1>1, <1>7, <2>1, <2>2, <2>3, <2>4
<1>8. ASSUME NEW x \in Range(w)
      PROVE  x \in Range(l) /\ x # b
      <2>1. PICK k \in 1..n - 1 : x = w[k]
            BY <1>3 DEF Range
      <2>2. PICK j \in 1..n : x = l[j] /\ j # i
            BY <1>5, <2>1
      <2>. QED BY <1>1, <2>2 DEF Range, IsInjective
<1>. QED BY <1>3, <1>4, <1>6, <1>7, <1>8

-----------------------------------------------------------------------------
(***************************************************************************)
(* Buddies, spans and alignment.                                            *)
(***************************************************************************)

\* The buddy of a frame is a frame; the two differ in one bit, and the
\* buddy of the buddy is the frame itself.
LEMMA BuddyPage ==
    ASSUME NEW p \in Page, NEW o \in Bit
    PROVE  /\ block2buddy(p, o) \in Page
           /\ block2buddy(p, o) # p
           /\ block2buddy(p, o)[o] = 1 - p[o]
           /\ \A i \in Bit : i # o => block2buddy(p, o)[i] = p[i]
           /\ block2buddy(block2buddy(p, o), o) = p
<1>1. p[o] \in {0, 1}
      BY DEF Page
<1>2. /\ block2buddy(p, o) \in Page
      /\ block2buddy(p, o)[o] = 1 - p[o]
      /\ \A i \in Bit : i # o => block2buddy(p, o)[i] = p[i]
      BY <1>1 DEF Page, block2buddy
<1>3. block2buddy(p, o) # p
      BY <1>1, <1>2
<1>4. block2buddy(block2buddy(p, o), o) = p
      <2>. DEFINE q == block2buddy(p, o)
      <2>1. q \in Page /\ q[o] = 1 - p[o] /\ \A i \in Bit : i # o => q[i] = p[i]
            BY <1>2
      <2>. HIDE DEF q
      <2>2. 1 - q[o] = p[o]
            BY <1>1, <2>1
      <2>3. [q EXCEPT ![o] = 1 - @] = p
            BY <2>1, <2>2 DEF Page
      <2>. QED BY <2>3 DEF block2buddy, q
<1>. QED BY <1>2, <1>3, <1>4

\* A block contains its first frame.
LEMMA SpanSelf ==
    ASSUME NEW p \in Page, NEW o \in Order
    PROVE  p \in Span(p, o)
BY DEF Span

\* A block of order o + 1 consists of its two halves, which are disjoint.
LEMMA SpanHalves ==
    ASSUME NEW p \in Page, NEW o \in Bit
    PROVE  Span(p, o + 1) = Span(p, o) \cup Span(block2buddy(p, o), o)
<1>. DEFINE q == block2buddy(p, o)
<1>1. q \in Page /\ q[o] = 1 - p[o] /\ \A i \in Bit : i # o => q[i] = p[i]
      BY BuddyPage
<1>. HIDE DEF q
<1>2. ASSUME NEW x \in Span(p, o + 1)
      PROVE  x \in Span(p, o) \cup Span(q, o)
      <2>1. x \in Page /\ \A i \in Bit : i >= o + 1 => x[i] = p[i]
            BY DEF Span
      <2>2. x[o] \in {0, 1} /\ p[o] \in {0, 1}
            BY <2>1 DEF Page
      <2>3. \A i \in Bit : i >= o => i = o \/ i >= o + 1
            BY MaxOrderAssumption DEF Bit
      <2>4. CASE x[o] = p[o]
            BY <2>1, <2>3, <2>4 DEF Span
      <2>5. CASE x[o] # p[o]
            <3>1. x[o] = q[o]
                  BY <1>1, <2>2, <2>5
            <3>2. \A i \in Bit : i >= o + 1 => i # o
                  BY MaxOrderAssumption DEF Bit
            <3>3. \A i \in Bit : i >= o + 1 => q[i] = p[i]
                  BY <1>1, <3>2
            <3>. QED BY <1>1, <2>1, <2>3, <3>1, <3>3 DEF Span
      <2>. QED BY <2>4, <2>5
<1>3. \A i \in Bit : i >= o + 1 => i >= o /\ i # o
      BY MaxOrderAssumption DEF Bit
<1>4. Span(p, o) \subseteq Span(p, o + 1)
      BY <1>3 DEF Span
<1>5. Span(q, o) \subseteq Span(p, o + 1)
      BY <1>1, <1>3 DEF Span
<1>. QED BY <1>2, <1>4, <1>5 DEF q

\* A block whose bit o is 0 is aligned one order higher as well.
LEMMA AlignedUp ==
    ASSUME NEW p \in Page, NEW o \in Bit, Aligned(p, o), p[o] = 0
    PROVE  Aligned(p, o + 1)
BY MaxOrderAssumption DEF Aligned, Bit

\* The buddy of an aligned block is aligned.
LEMMA AlignedBuddy ==
    ASSUME NEW p \in Page, NEW o \in Bit, Aligned(p, o)
    PROVE  Aligned(block2buddy(p, o), o)
BY BuddyPage, MaxOrderAssumption DEF Aligned, Bit

\* A block is aligned at every lower order.
LEMMA AlignedDown ==
    ASSUME NEW p \in Page, NEW o \in Bit, Aligned(p, o + 1)
    PROVE  Aligned(p, o) /\ p[o] = 0
BY MaxOrderAssumption DEF Aligned, Bit

(***************************************************************************)
(* The order a frame keeps inside a block is the place of its lowest one    *)
(* bit, so it is determined by the frame.                                   *)
(***************************************************************************)
LEMMA LowestOne ==
    ASSUME NEW p \in Page, NEW o \in Bit, NEW k \in Bit,
           Aligned(p, o), p[o] = 1, Aligned(p, k), p[k] = 1
    PROVE  o = k
BY MaxOrderAssumption DEF Aligned, Bit

-----------------------------------------------------------------------------
(***************************************************************************)
(* The inductive invariant.                                                 *)
(***************************************************************************)

\* What a call can return is of the type of ret.
LEMMA ReturnType ==
    /\ <<"none", 0>> \in Returned /\ <<"freed", 0>> \in Returned
    /\ \A o \in Order : <<"block", o>> \in Returned
    /\ \A o \in 0..MaxOrder+1 : <<"null", o>> \in Returned
<1>1. 0 \in 0..MaxOrder+1 /\ Order \subseteq 0..MaxOrder+1
      BY MaxOrderAssumption DEF Order
<1>2. \A w \in {"none", "freed", "double free", "block", "null"}, o \in 0..MaxOrder+1 :
         <<w, o>> \in Returned
      BY Zenon DEF Returned
<1>. QED BY <1>1, <1>2, Zenon

\* What __buddy_init starts from satisfies the invariant.
LEMMA InitIInv == Init => IInv
<1>. SUFFICES ASSUME Init PROVE IInv
     OBVIOUS
<1>1. NoPage \in Page
      BY DEF NoPage, Page
<1>2. 0 \in Order /\ Len(BootSeq) \in Nat
      BY MaxOrderAssumption, BootAssumption DEF Order
<1>3. TypeOK
      BY <1>1, <1>2, ReturnType DEF Init, TypeOK
<1>4. Pool = {}
      BY DEF Init, Pool
<1>5. \A p \in Page : IsHead(p) /\ ~IsFree(p) /\ order[p] = 0
      BY <1>4 DEF Init, IsHead, IsFree
<1>6. ListsExact
      BY <1>5 DEF Init, ListsExact, IsInjective, Range
<1>7. ASSUME NEW p \in Page, NEW q \in Span(p, 0)
      PROVE  q = p
      <2>1. \A i \in Bit : i >= 0
            BY MaxOrderAssumption DEF Bit
      <2>. QED BY <2>1 DEF Span, Page
<1>8. NoOverlap
      BY <1>5, <1>7 DEF NoOverlap
<1>9. NothingLost
      BY <1>2, <1>5, SpanSelf DEF NothingLost
<1>10. AllAligned
      <2>1. \A i \in Bit : ~(i < 0)
            BY MaxOrderAssumption DEF Bit
      <2>. QED BY <1>5, <2>1 DEF AllAligned, Aligned
<1>11. Counts
      BY <1>4 DEF Init, Counts
<1>. QED BY <1>3, <1>5, <1>6, <1>8, <1>9, <1>10, <1>11
         DEF IInv, StaleOrderRight, LoopOK, OnePairAtMost, Unmerged, Init

(***************************************************************************)
(* An action that leaves the orders and the set of block heads alone keeps  *)
(* the facts about how memory is divided.                                   *)
(***************************************************************************)
LEMMA SameDivision ==
    ASSUME IInv, order' = order,
           \A p \in Page : IsHead(p)' <=> IsHead(p),
           \A p \in Page : ~IsHead(p) => refcnt'[p] = refcnt[p]
    PROVE  NoOverlap' /\ NothingLost' /\ StaleOrderRight' /\ AllAligned'
<1>1. NoOverlap'
      BY DEF IInv, NoOverlap
<1>2. NothingLost'
      BY DEF IInv, NothingLost
<1>3. StaleOrderRight'
      BY DEF IInv, StaleOrderRight
<1>4. AllAligned'
      BY DEF IInv, AllAligned
<1>. QED BY <1>1, <1>2, <1>3, <1>4

(***************************************************************************)
(* buddy_free of a block head that is in use.                               *)
(***************************************************************************)
LEMMA PushFree ==
    ASSUME IInv, pc = "idle",
           NEW b \in Page, refcnt[b] = 1, IsHead(b),
           buddy_free(b), order' = order, lvl' = lvl, want' = want,
           held' = held \ {b},
           booted' \in 0..Len(BootSeq),
           Pool' = Pool \cup {b}
    PROVE  IInv'
<1>. USE DEF IInv
<1>1. /\ free' = [free EXCEPT ![order[b]] = <<b>> \o @]
      /\ refcnt' = [refcnt EXCEPT ![b] = 0]
      /\ pc' = "merge" /\ blk' = b /\ ret' = <<"freed", 0>>
      BY DEF buddy_free, buddy_push
<1>2. /\ order[b] \in Order /\ free[order[b]] \in Seq(Page)
      /\ b \notin Range(free[order[b]]) /\ IsInjective(free[order[b]])
      <2>1. order[b] \in Order /\ free[order[b]] \in Seq(Page)
            BY DEF TypeOK
      <2>2. ~IsFree(b)
            BY DEF IsFree
      <2>. QED BY <2>1, <2>2 DEF ListsExact
<1>3. /\ <<b>> \o free[order[b]] \in Seq(Page)
      /\ Range(<<b>> \o free[order[b]]) = Range(free[order[b]]) \cup {b}
      /\ IsInjective(<<b>> \o free[order[b]])
      BY <1>2, PushList
<1>4. TypeOK'
      BY <1>1, <1>2, <1>3, ReturnType DEF TypeOK
<1>5. \A p \in Page : IsFree(p)' <=> (IsFree(p) \/ p = b)
      BY <1>1 DEF TypeOK, IsFree
<1>6. ListsExact'
      <2>. SUFFICES ASSUME NEW o \in Order
                    PROVE  /\ IsInjective(free'[o])
                           /\ \A p \in Page : p \in Range(free'[o])
                                 <=> IsFree(p)' /\ order[p] = o
           BY DEF ListsExact
      <2>1. CASE o = order[b]
            <3>1. free'[o] = <<b>> \o free[o]
                  BY <1>1, <2>1 DEF TypeOK
            <3>. QED BY <1>3, <1>5, <2>1, <3>1 DEF ListsExact
      <2>2. CASE o # order[b]
            <3>1. free'[o] = free[o]
                  BY <1>1, <2>2 DEF TypeOK
            <3>. QED BY <1>5, <2>2, <3>1 DEF ListsExact
      <2>. QED BY <2>1, <2>2
<1>7. \A p \in Page : IsHead(p)' <=> IsHead(p)
      BY <1>5 DEF IsHead
<1>8. \A p \in Page : ~IsHead(p) => refcnt'[p] = refcnt[p]
      BY <1>1 DEF TypeOK
<1>9. NoOverlap' /\ NothingLost' /\ StaleOrderRight' /\ AllAligned'
      BY <1>7, <1>8, SameDivision
<1>10. Counts'
      BY <1>1 DEF Counts, TypeOK
<1>11. LoopOK'
      BY <1>1, <1>5 DEF LoopOK
<1>12. OnePairAtMost'
      <2>. SUFFICES ASSUME NEW p \in Page, Unmerged(p)'
                    PROVE  p = b \/ p = block2buddy(b, order[b])
           BY <1>1 DEF OnePairAtMost
      <2>. DEFINE q == block2buddy(p, order[p])
      <2>1. /\ IsFree(p)' /\ order[p] \in Bit /\ IsFree(q)' /\ order[q] = order[p]
            BY DEF Unmerged
      <2>2. q \in Page /\ block2buddy(q, order[p]) = p
            BY <2>1, BuddyPage
      <2>3. ~(IsFree(p) /\ IsFree(q))
            BY <2>1 DEF OnePairAtMost, Unmerged
      <2>4. p = b \/ q = b
            BY <1>5, <2>1, <2>2, <2>3
      <2>. QED BY <2>1, <2>2, <2>4
<1>. QED BY <1>4, <1>6, <1>9, <1>10, <1>11, <1>12

\* Freeing the next frame at boot keeps the invariant.
LEMMA BootFreeIInv == IInv /\ BootFree => IInv'
<1>. SUFFICES ASSUME IInv, BootFree PROVE IInv'
     OBVIOUS
<1>. DEFINE b == BootSeq[booted + 1]
<1>1. booted \in Nat /\ booted < Len(BootSeq) /\ Len(BootSeq) \in Nat
      <2>1. booted < Len(BootSeq)
            BY DEF BootFree
      <2>2. Len(BootSeq) \in Nat
            BY BootAssumption
      <2>3. booted \in 0..Len(BootSeq)
            BY DEF IInv, TypeOK
      <2>. QED BY <2>1, <2>2, <2>3
<1>2. booted + 1 \in 1..Len(BootSeq) /\ b \in Page
      BY <1>1, BootAssumption
<1>3. b \notin Pool
      BY <1>1, <1>2, BootAssumption DEF Pool
<1>4. refcnt[b] = 1 /\ IsHead(b) /\ b \notin held
      BY <1>2, <1>3 DEF IInv, Counts, IsHead
<1>5. booted' = booted + 1 /\ booted' \in 0..Len(BootSeq)
      BY <1>1 DEF BootFree
<1>6. Pool' = Pool \cup {b}
      <2>1. 1..booted' = (1..booted) \cup {booted + 1}
            BY <1>1, <1>5
      <2>. QED BY <2>1 DEF Pool
<1>7. held' = held \ {b}
      BY <1>4 DEF BootFree
<1>. HIDE DEF b
<1>. QED
  <2>1. buddy_free(b) /\ order' = order /\ lvl' = lvl /\ want' = want /\ pc = "idle"
        BY DEF BootFree, b
  <2>. QED BY <1>2, <1>4, <1>5, <1>6, <1>7, <2>1, PushFree

\* Freeing a block that a caller holds keeps the invariant.
LEMMA FreeIInv == ASSUME IInv, NEW b \in held, Free(b) PROVE IInv'
<1>1. b \in Page /\ refcnt[b] = 1 /\ IsHead(b) /\ b \in Pool
      BY DEF IInv, TypeOK, Counts, IsHead
<1>2. /\ buddy_free(b) /\ order' = order /\ lvl' = lvl /\ want' = want /\ pc = "idle"
      /\ held' = held \ {b} /\ booted' = booted
      BY DEF Free
<1>3. booted' \in 0..Len(BootSeq) /\ Pool' = Pool \cup {b}
      BY <1>1, <1>2 DEF IInv, TypeOK, Pool
<1>. QED BY <1>1, <1>2, <1>3, PushFree

\* One merge keeps the invariant.
LEMMA MergeStepIInv == IInv /\ MergeStep => IInv'
<1>. SUFFICES ASSUME IInv, MergeStep PROVE IInv'
     OBVIOUS
<1>. USE DEF IInv
<1>1. /\ blk \in Page /\ order[blk] \in Bit /\ pc = "merge"
      /\ Mergeable(blk)
      <2>1. blk \in Page /\ order[blk] \in Order /\ order[blk] # MaxOrder
            BY DEF TypeOK, MergeStep, Mergeable
      <2>. QED BY <2>1, MaxOrderAssumption DEF Order, Bit, MergeStep
<1>2. PICK o \in Bit, low \in Page, high \in Page :
         /\ o = order[blk]
         /\ low # high /\ low[o] = 0 /\ high[o] = 1
         /\ high = block2buddy(low, o) /\ low = block2buddy(high, o)
         /\ order[low] = o /\ order[high] = o
         /\ refcnt[low] = 0 /\ refcnt[high] = 0
         /\ blk = low \/ blk = high
         /\ __buddy_merge(low, high, o)
      <2>. DEFINE k == order[blk]
                  bud == block2buddy(blk, k)
      <2>1. blk[k] \in {0, 1}
            BY <1>1 DEF Page
      <2>2. /\ bud \in Page /\ bud # blk /\ bud[k] = 1 - blk[k]
            /\ blk = block2buddy(bud, k)
            BY <1>1, BuddyPage
      <2>3. order[bud] = k /\ refcnt[blk] = 0 /\ refcnt[bud] = 0
            BY <1>1 DEF Mergeable
      <2>4. IF blk[k] = 1 THEN __buddy_merge(bud, blk, k)
                          ELSE __buddy_merge(blk, bud, k)
            BY DEF MergeStep
      <2>5. CASE blk[k] = 1
            BY <1>1, <2>2, <2>3, <2>4, <2>5
      <2>6. CASE blk[k] # 1
            BY <1>1, <2>1, <2>2, <2>3, <2>4, <2>6
      <2>. QED BY <2>5, <2>6
<1>3. /\ low # high /\ low[o] = 0 /\ high[o] = 1
      /\ high = block2buddy(low, o) /\ low = block2buddy(high, o)
      BY <1>2
<1>4. /\ order[low] = o /\ order[high] = o
      /\ refcnt[low] = 0 /\ refcnt[high] = 0
      BY <1>2
<1>5. __buddy_merge(low, high, o)
      BY <1>2
<1>6. /\ pc' = pc /\ booted' = booted /\ lvl' = lvl /\ want' = want
      /\ held' = held /\ ret' = ret
      BY DEF MergeStep
<1>7. (blk = low \/ blk = high) /\ o = order[blk]
      BY <1>2
<1>8. /\ o \in Order /\ o + 1 \in Order /\ o # o + 1
      /\ free[o] \in Seq(Page) /\ free[o + 1] \in Seq(Page)
      <2>1. o \in Order /\ o + 1 \in Order /\ o # o + 1
            BY MaxOrderAssumption DEF Bit, Order
      <2>. QED BY <2>1 DEF TypeOK
<1>9. /\ low \in Range(free[o]) /\ high \in Range(free[o])
      /\ IsInjective(free[o]) /\ IsInjective(free[o + 1])
      /\ low \notin Range(free[o + 1])
      BY <1>3, <1>4, <1>8 DEF ListsExact, IsFree
<1>. DEFINE l1 == buddy_remove(free[o], high)
            l2 == buddy_remove(l1, low)
            l3 == <<low>> \o free[o + 1]
<1>10. l1 \in Seq(Page) /\ IsInjective(l1) /\ Range(l1) = Range(free[o]) \ {high}
      BY <1>8, <1>9, RemoveFromList
<1>. HIDE DEF l1
<1>11. l2 \in Seq(Page) /\ IsInjective(l2) /\ Range(l2) = Range(l1) \ {low}
      BY <1>3, <1>9, <1>10, RemoveFromList
<1>12. l3 \in Seq(Page) /\ IsInjective(l3) /\ Range(l3) = Range(free[o + 1]) \cup {low}
      BY <1>3, <1>8, <1>9, PushList
<1>13. /\ free' = [free EXCEPT ![o] = l2, ![o + 1] = l3]
       /\ refcnt' = [refcnt EXCEPT ![high] = 1, ![low] = 0]
       /\ order' = [order EXCEPT ![low] = o + 1]
       /\ blk' = low
      <2>1. free' = [free EXCEPT ![o] = l2, ![o + 1] = <<low>> \o @]
            BY <1>5 DEF __buddy_merge, l1, l2
      <2>2. free' = [free EXCEPT ![o] = l2, ![o + 1] = l3]
            BY <1>8, <2>1 DEF TypeOK
      <2>3. refcnt' = [refcnt EXCEPT ![high] = 1, ![low] = 0]
            BY <1>4, <1>5, <1>9 DEF __buddy_merge
      <2>4. order' = [order EXCEPT ![low] = o + 1] /\ blk' = low
            BY <1>4, <1>5 DEF __buddy_merge
      <2>. QED BY <2>2, <2>3, <2>4
<1>. HIDE DEF l2, l3
<1>14. /\ refcnt' \in [Page -> Nat] /\ order' \in [Page -> Order]
       /\ refcnt'[high] = 1 /\ refcnt'[low] = 0
       /\ order'[low] = o + 1 /\ order'[high] = o
       /\ \A p \in Page : p # low => order'[p] = order[p]
       /\ \A p \in Page : p # low /\ p # high => refcnt'[p] = refcnt[p]
      BY <1>3, <1>4, <1>8, <1>13 DEF TypeOK
<1>15. TypeOK'
      BY <1>3, <1>6, <1>8, <1>11, <1>12, <1>13, <1>14 DEF TypeOK
<1>16. /\ \A p \in Page : IsFree(p)' <=> IsFree(p) /\ p # high
       /\ IsFree(low) /\ IsFree(high)
      BY <1>3, <1>4, <1>14 DEF IsFree
<1>17. Pool' = Pool /\ high \in Pool /\ high \notin held
      BY <1>3, <1>4, <1>6 DEF Pool, Counts
<1>18. \A p \in Page : IsHead(p)' <=> IsHead(p) /\ p # high
      BY <1>6, <1>16, <1>17 DEF IsHead
<1>19. ListsExact'
      <2>. SUFFICES ASSUME NEW k \in Order
                    PROVE  /\ IsInjective(free'[k])
                           /\ \A p \in Page : p \in Range(free'[k])
                                 <=> IsFree(p)' /\ order'[p] = k
           BY DEF ListsExact
      <2>0. /\ IsInjective(free[k])
            /\ \A p \in Page : p \in Range(free[k]) <=> IsFree(p) /\ order[p] = k
            BY DEF ListsExact
      <2>1. CASE k = o
            <3>1. free'[k] = l2
                  BY <1>8, <1>13, <2>1 DEF TypeOK
            <3>2. ASSUME NEW p \in Page
                  PROVE  p \in Range(l2) <=> IsFree(p)' /\ order'[p] = k
                  BY <1>8, <1>10, <1>11, <1>14, <1>16, <2>0, <2>1
            <3>. QED BY <1>11, <3>1, <3>2
      <2>2. CASE k = o + 1
            <3>1. free'[k] = l3
                  BY <1>8, <1>13, <2>2 DEF TypeOK
            <3>2. ASSUME NEW p \in Page
                  PROVE  p \in Range(l3) <=> IsFree(p)' /\ order'[p] = k
                  BY <1>3, <1>4, <1>8, <1>12, <1>14, <1>16, <2>0, <2>2
            <3>. QED BY <1>12, <3>1, <3>2
      <2>3. CASE k # o /\ k # o + 1
            <3>1. free'[k] = free[k]
                  BY <1>13, <2>3 DEF TypeOK
            <3>2. ASSUME NEW p \in Page
                  PROVE  p \in Range(free[k]) <=> IsFree(p)' /\ order'[p] = k
                  BY <1>4, <1>14, <1>16, <2>0, <2>3
            <3>. QED BY <2>0, <3>1, <3>2
      <2>. QED BY <2>1, <2>2, <2>3
<1>20. Span(low, o + 1) = Span(low, o) \cup Span(high, o)
      BY <1>1, <1>3, SpanHalves
<1>21. NoOverlap'
      <2>. SUFFICES ASSUME NEW p \in Page, NEW q \in Page,
                           IsHead(p)', IsHead(q)', q \in Span(p, order'[p])
                    PROVE  p = q
           BY DEF NoOverlap
      <2>1. IsHead(p) /\ IsHead(q) /\ p # high /\ q # high
            BY <1>18
      <2>2. CASE p = low
            <3>1. q \in Span(low, order[low]) \/ q \in Span(high, order[high])
                  BY <1>4, <1>14, <1>20, <2>2
            <3>2. IsHead(low) /\ IsHead(high)
                  BY <1>16 DEF IsHead
            <3>. QED BY <1>3, <2>1, <2>2, <3>1, <3>2 DEF NoOverlap
      <2>3. CASE p # low
            BY <1>14, <2>1, <2>3 DEF NoOverlap
      <2>. QED BY <2>2, <2>3
<1>22. NothingLost'
      <2>. SUFFICES ASSUME NEW q \in Page
                    PROVE  \E p \in Page : IsHead(p)' /\ q \in Span(p, order'[p])
           BY DEF NothingLost
      <2>1. PICK p \in Page : IsHead(p) /\ q \in Span(p, order[p])
            BY DEF NothingLost
      <2>2. CASE p = low \/ p = high
            <3>1. IsHead(low)' /\ q \in Span(low, order'[low])
                  BY <1>3, <1>4, <1>14, <1>16, <1>20, <2>1, <2>2 DEF IsHead
            <3>. QED BY <1>3, <3>1
      <2>3. CASE p # low /\ p # high
            BY <1>14, <1>18, <2>1, <2>3
      <2>. QED BY <2>2, <2>3
<1>23. AllAligned'
      <2>1. Aligned(low, o + 1)
            BY <1>1, <1>3, <1>4, AlignedUp DEF AllAligned
      <2>. QED BY <1>14, <2>1 DEF AllAligned
<1>24. StaleOrderRight'
      <2>. SUFFICES ASSUME NEW p \in Page, ~IsHead(p)'
                    PROVE  /\ refcnt'[p] = 1 /\ order'[p] \in Bit
                           /\ p[order'[p]] = 1 /\ Aligned(p, order'[p])
           BY DEF StaleOrderRight
      <2>1. CASE p = high
            BY <1>1, <1>3, <1>4, <1>14, <2>1 DEF AllAligned
      <2>2. CASE p # high
            <3>1. ~IsHead(p) /\ p # low
                  BY <1>16, <1>18, <2>2 DEF IsHead
            <3>. QED BY <1>14, <2>2, <3>1 DEF StaleOrderRight
      <2>. QED BY <2>1, <2>2
<1>25. Counts'
      <2>1. low \in Pool /\ low \notin held
            BY <1>3, <1>4 DEF Counts
      <2>. QED BY <1>6, <1>14, <1>17, <2>1 DEF Counts
<1>26. LoopOK'
      BY <1>1, <1>6, <1>13, <1>14 DEF LoopOK, IsFree
<1>27. OnePairAtMost'
      <2>. SUFFICES ASSUME NEW p \in Page, Unmerged(p)'
                    PROVE  p = low \/ p = block2buddy(low, order'[low])
           BY <1>1, <1>6, <1>13 DEF OnePairAtMost
      <2>. DEFINE q == block2buddy(p, order'[p])
      <2>1. /\ refcnt'[p] = 0 /\ order'[p] \in Bit /\ refcnt'[q] = 0
            /\ order'[q] = order'[p]
            BY DEF Unmerged, IsFree
      <2>2. q \in Page /\ block2buddy(q, order'[p]) = p
            BY <2>1, BuddyPage
      <2>3. p # high /\ q # high /\ IsFree(p) /\ IsFree(q)
            BY <1>14, <1>16, <2>1, <2>2 DEF IsFree
      <2>4. CASE p # low /\ q # low
            <3>1. order'[p] = order[p] /\ order'[q] = order[q]
                  BY <1>14, <2>2, <2>4
            <3>2. Unmerged(p)
                  BY <2>1, <2>3, <3>1 DEF Unmerged
            <3>3. p = blk \/ p = block2buddy(blk, order[blk])
                  BY <1>1, <3>2 DEF OnePairAtMost
            <3>4. p = low \/ p = high
                  BY <1>3, <1>4, <1>7, <3>3
            <3>. QED BY <2>3, <2>4, <3>4
      <2>. QED BY <2>1, <2>2, <2>4
<1>. QED BY <1>15, <1>19, <1>21, <1>22, <1>23, <1>24, <1>25, <1>26, <1>27

(***************************************************************************)
(* The steps that leave refcnt, order and the lists alone.                  *)
(***************************************************************************)
LEMMA SameLists ==
    ASSUME IInv, UNCHANGED <<refcnt, order, free, booted, held>>
    PROVE  /\ ListsExact' /\ NoOverlap' /\ NothingLost' /\ StaleOrderRight'
           /\ Counts' /\ AllAligned'
           /\ \A p \in Page : Unmerged(p)' <=> Unmerged(p)
<1>1. Pool' = Pool
      BY DEF Pool
<1>2. \A p \in Page : IsFree(p)' <=> IsFree(p)
      BY DEF IsFree
<1>3. \A p \in Page : IsHead(p)' <=> IsHead(p)
      BY <1>1, <1>2 DEF IsHead
<1>4. NoOverlap' /\ NothingLost' /\ StaleOrderRight' /\ AllAligned'
      BY <1>3, SameDivision
<1>5. ListsExact'
      BY <1>2 DEF IInv, ListsExact
<1>6. Counts'
      BY <1>1 DEF IInv, Counts
<1>7. \A p \in Page : Unmerged(p)' <=> Unmerged(p)
      BY DEF Unmerged, IsFree
<1>. QED BY <1>4, <1>5, <1>6, <1>7

\* The end of __buddy_try_merge keeps the invariant.
LEMMA MergeDoneIInv == IInv /\ MergeDone => IInv'
<1>. SUFFICES ASSUME IInv, MergeDone PROVE IInv'
     OBVIOUS
<1>. USE DEF IInv
<1>1. /\ ListsExact' /\ NoOverlap' /\ NothingLost' /\ StaleOrderRight'
      /\ Counts' /\ AllAligned'
      /\ \A p \in Page : Unmerged(p)' <=> Unmerged(p)
      BY SameLists DEF MergeDone
<1>2. TypeOK'
      BY DEF TypeOK, MergeDone, NoPage, Page
<1>3. LoopOK'
      BY DEF LoopOK, MergeDone
<1>4. \A p \in Page : ~Unmerged(p)
      <2>. SUFFICES ASSUME NEW p \in Page, Unmerged(p) PROVE FALSE
           OBVIOUS
      <2>1. p = blk \/ p = block2buddy(blk, order[blk])
            BY DEF OnePairAtMost, MergeDone
      <2>2. blk \in Page /\ order[blk] \in Order
            BY DEF TypeOK
      <2>3. order[blk] = MaxOrder \/ order[blk] \in Bit
            BY <2>2, MaxOrderAssumption DEF Order, Bit
      <2>4. ~Unmerged(blk)
            <3>1. MaxOrder \notin Bit
                  BY MaxOrderAssumption DEF Bit
            <3>. QED BY <3>1 DEF MergeDone, Mergeable, Unmerged, IsFree
      <2>5. CASE order[blk] \in Bit
            <3>. DEFINE q == block2buddy(blk, order[blk])
            <3>1. q \in Page /\ block2buddy(q, order[blk]) = blk
                  BY <2>2, <2>5, BuddyPage
            <3>2. p = q
                  BY <2>1, <2>4
            <3>3. /\ IsFree(blk) /\ IsFree(q)
                  BY <3>2 DEF LoopOK, MergeDone, Unmerged
            <3>4. order[q] # order[blk]
                  BY <2>4, <2>5, <3>3 DEF Unmerged
            <3>5. order[q] \in Bit /\ IsFree(block2buddy(q, order[q]))
                  /\ order[block2buddy(q, order[q])] = order[q]
                  BY <3>2 DEF Unmerged
            <3>. DEFINE r == block2buddy(q, order[q])
            <3>6. r \in Page /\ block2buddy(r, order[q]) = q
                  BY <3>1, <3>5, BuddyPage
            <3>7. Unmerged(r)
                  BY <3>3, <3>5, <3>6 DEF Unmerged
            <3>8. r = blk \/ r = q
                  BY <3>6, <3>7 DEF OnePairAtMost, MergeDone
            <3>9. r # q
                  BY <3>1, <3>5, BuddyPage
            <3>. QED BY <3>4, <3>5, <3>8, <3>9
      <2>6. CASE order[blk] = MaxOrder
            <3>1. MaxOrder \notin Bit
                  BY MaxOrderAssumption DEF Bit
            <3>2. blk \in [Bit -> {0, 1}] /\ block2buddy(blk, MaxOrder) = blk
                  BY <2>2, <3>1 DEF Page, block2buddy
            <3>. QED BY <2>1, <2>4, <2>6, <3>2
      <2>. QED BY <2>3, <2>5, <2>6
<1>5. OnePairAtMost'
      BY <1>1, <1>4 DEF OnePairAtMost
<1>. QED BY <1>1, <1>2, <1>3, <1>5

\* The search for a list with a block keeps the invariant.
LEMMA AllocStartIInv ==
    ASSUME IInv, NEW o \in 0..MaxOrder+1, AllocStart(o) PROVE IInv'
<1>. USE DEF IInv
<1>1. /\ ListsExact' /\ NoOverlap' /\ NothingLost' /\ StaleOrderRight'
      /\ Counts' /\ AllAligned'
      /\ \A p \in Page : Unmerged(p)' <=> Unmerged(p)
      BY SameLists DEF AllocStart
<1>2. PICK i \in Order : SmallestFreeOrder(o, i) /\ lvl' = i
      BY DEF AllocStart
<1>3. o \in Order /\ o <= i
      BY <1>2, MaxOrderAssumption DEF SmallestFreeOrder, Order
<1>4. TypeOK'
      BY <1>2, <1>3 DEF TypeOK, AllocStart
<1>5. LoopOK'
      BY <1>2, <1>3 DEF LoopOK, AllocStart, SmallestFreeOrder
<1>6. OnePairAtMost'
      BY <1>1 DEF OnePairAtMost, AllocStart
<1>. QED BY <1>1, <1>4, <1>5, <1>6

\* A request that is refused keeps the invariant.
LEMMA AllocFailIInv ==
    ASSUME IInv, NEW o \in 0..MaxOrder+1, AllocFail(o) PROVE IInv'
<1>. USE DEF IInv
<1>1. /\ ListsExact' /\ NoOverlap' /\ NothingLost' /\ StaleOrderRight'
      /\ Counts' /\ AllAligned'
      /\ \A p \in Page : Unmerged(p)' <=> Unmerged(p)
      BY SameLists DEF AllocFail
<1>2. TypeOK'
      BY ReturnType DEF TypeOK, AllocFail, local
<1>3. LoopOK'
      BY DEF LoopOK, AllocFail, local
<1>4. OnePairAtMost'
      BY <1>1 DEF OnePairAtMost, AllocFail, local
<1>. QED BY <1>1, <1>2, <1>3, <1>4

\* Handing out the block that was found keeps the invariant.
LEMMA AllocPopIInv == IInv /\ AllocPop => IInv'
<1>. SUFFICES ASSUME IInv, AllocPop PROVE IInv'
     OBVIOUS
<1>. USE DEF IInv
<1>1. pc = "split" /\ lvl = want /\ want \in Order /\ free[want] # << >>
      <2>1. lvl \in Order /\ want \in Order /\ want <= lvl /\ lvl <= want
            BY DEF TypeOK, LoopOK, AllocPop
      <2>2. lvl = want
            BY <2>1, MaxOrderAssumption DEF Order
      <2>. QED BY <2>1, <2>2 DEF LoopOK, AllocPop
<1>2. PICK b : b = Head(free[want])
      OBVIOUS
<1>3. free[want] \in Seq(Page) /\ IsInjective(free[want])
      BY <1>1 DEF TypeOK, ListsExact
<1>4. /\ b \in Page /\ b \in Range(free[want])
      /\ Tail(free[want]) \in Seq(Page) /\ IsInjective(Tail(free[want]))
      /\ Range(Tail(free[want])) = Range(free[want]) \ {b}
      BY <1>1, <1>2, <1>3, PopList
<1>5. refcnt[b] = 0 /\ order[b] = want
      BY <1>1, <1>4 DEF ListsExact, IsFree
<1>6. /\ free' = [free EXCEPT ![want] = Tail(@)]
      /\ refcnt' = [refcnt EXCEPT ![b] = 1]
      /\ held' = held \cup {b} /\ ret' = <<"block", want>>
      /\ pc' = "idle" /\ lvl' = 0 /\ want' = 0
      /\ order' = order /\ booted' = booted /\ blk' = blk
      BY <1>1, <1>2, <1>5 DEF AllocPop
<1>7. TypeOK'
      <2>1. 0 \in Order
            BY MaxOrderAssumption DEF Order
      <2>2. want \in Order
            BY DEF IInv, TypeOK
      <2>. QED BY <1>1, <1>4, <1>6, <2>1, <2>2, ReturnType DEF TypeOK
<1>8. \A p \in Page : IsFree(p)' <=> IsFree(p) /\ p # b
      <2>1. refcnt'[b] = 1 /\ \A p \in Page : p # b => refcnt'[p] = refcnt[p]
            BY <1>4, <1>6 DEF TypeOK
      <2>. QED BY <2>1 DEF IsFree
<1>9. Pool' = Pool
      BY <1>6 DEF Pool
<1>10. b \in Pool /\ b \notin held
      BY <1>4, <1>5 DEF Counts
<1>11. \A p \in Page : IsHead(p)' <=> IsHead(p)
      BY <1>5, <1>6, <1>8, <1>9 DEF IsHead, IsFree
<1>12. \A p \in Page : ~IsHead(p) => refcnt'[p] = refcnt[p]
      BY <1>5, <1>6 DEF TypeOK, IsHead, IsFree
<1>13. NoOverlap' /\ NothingLost' /\ StaleOrderRight' /\ AllAligned'
      BY <1>6, <1>11, <1>12, SameDivision
<1>14. ListsExact'
      <2>. SUFFICES ASSUME NEW k \in Order
                    PROVE  /\ IsInjective(free'[k])
                           /\ \A p \in Page : p \in Range(free'[k])
                                 <=> IsFree(p)' /\ order[p] = k
           BY <1>6 DEF ListsExact
      <2>0. /\ IsInjective(free[k])
            /\ \A p \in Page : p \in Range(free[k]) <=> IsFree(p) /\ order[p] = k
            BY DEF ListsExact
      <2>1. CASE k = want
            <3>1. free'[k] = Tail(free[want])
                  BY <1>6, <2>1 DEF TypeOK
            <3>. QED BY <1>4, <1>8, <2>0, <2>1, <3>1
      <2>2. CASE k # want
            <3>1. free'[k] = free[k]
                  BY <1>6, <2>2 DEF TypeOK
            <3>. QED BY <1>5, <1>8, <2>0, <2>2, <3>1
      <2>. QED BY <2>1, <2>2
<1>15. Counts'
      BY <1>4, <1>6, <1>9, <1>10 DEF Counts, TypeOK
<1>16. LoopOK'
      BY <1>6 DEF LoopOK
<1>17. OnePairAtMost'
      <2>. SUFFICES ASSUME NEW p \in Page, Unmerged(p)' PROVE FALSE
           BY DEF OnePairAtMost
      <2>1. PICK q : q = block2buddy(p, order[p])
            OBVIOUS
      <2>2. order[p] \in Bit /\ IsFree(p)' /\ IsFree(q)' /\ order[q] = order[p]
            BY <1>6, <2>1 DEF Unmerged
      <2>3. q \in Page /\ block2buddy(q, order[p]) = p
            BY <2>1, <2>2, BuddyPage
      <2>4. IsFree(p) /\ IsFree(q) /\ p # b /\ q # b
            BY <1>8, <2>2, <2>3
      <2>5. Unmerged(p)
            BY <2>1, <2>2, <2>4 DEF Unmerged
      <2>6. p = b \/ (p = block2buddy(b, lvl) /\ order[p] = lvl)
            BY <1>1, <1>2, <2>5 DEF OnePairAtMost
      <2>7. p = block2buddy(b, lvl) => q = b
            BY <1>4, <2>1, <2>2, <2>4, <2>6, BuddyPage
      <2>. QED BY <2>4, <2>6, <2>7
<1>. QED BY <1>7, <1>13, <1>14, <1>15, <1>16, <1>17

(***************************************************************************)
(* __buddy_split.  The upper half is a frame inside the block, so its order *)
(* field is the place of its lowest one bit: exactly the order of the half. *)
(***************************************************************************)
LEMMA SplitStepIInv == IInv /\ SplitStep => IInv'
<1>. SUFFICES ASSUME IInv, SplitStep PROVE IInv'
     OBVIOUS
<1>. USE DEF IInv
<1>1. /\ pc = "split" /\ lvl \in Order /\ want \in Order /\ want < lvl
      /\ free[lvl] # << >> /\ free[lvl] \in Seq(Page) /\ IsInjective(free[lvl])
      <2>1. lvl \in Order /\ want \in Order /\ lvl > want /\ pc = "split"
            BY DEF TypeOK, SplitStep
      <2>2. want < lvl
            BY <2>1, MaxOrderAssumption DEF Order
      <2>. QED BY <2>1, <2>2 DEF TypeOK, LoopOK, ListsExact
<1>2. PICK b : b = Head(free[lvl])
      OBVIOUS
<1>3. PICK m : m = lvl
      OBVIOUS
<1>4. PICK o : o = m - 1
      OBVIOUS
<1>5. /\ o \in Bit /\ o \in Order /\ m \in Order /\ m = o + 1 /\ o # m
      BY <1>1, <1>3, <1>4, MaxOrderAssumption DEF Order, Bit
<1>6. /\ b \in Page /\ b \in Range(free[m])
      /\ Tail(free[m]) \in Seq(Page) /\ IsInjective(Tail(free[m]))
      /\ Range(Tail(free[m])) = Range(free[m]) \ {b}
      BY <1>1, <1>2, <1>3, PopList
<1>7. refcnt[b] = 0 /\ order[b] = m /\ IsHead(b)
      BY <1>5, <1>6 DEF ListsExact, IsFree, IsHead
<1>8. PICK c : c = block2buddy(b, o)
      OBVIOUS
<1>9. /\ c \in Page /\ c # b /\ b = block2buddy(c, o)
      /\ Aligned(b, o) /\ b[o] = 0 /\ c[o] = 1 /\ Aligned(c, o)
      <2>1. Aligned(b, o) /\ b[o] = 0
            BY <1>5, <1>6, <1>7, AlignedDown DEF AllAligned
      <2>. QED BY <1>5, <1>6, <1>8, <2>1, BuddyPage, AlignedBuddy
<1>10. Span(b, m) = Span(b, o) \cup Span(c, o)
      BY <1>5, <1>6, <1>8, SpanHalves
<1>11. ~IsHead(c)
      <2>1. c \in Span(b, order[b])
            BY <1>5, <1>7, <1>9, <1>10, SpanSelf
      <2>. QED BY <1>6, <1>7, <1>9, <2>1 DEF NoOverlap
<1>12. refcnt[c] = 1 /\ order[c] = o /\ c \in Pool /\ c \notin held
      <2>1. refcnt[c] = 1 /\ order[c] \in Bit /\ c[order[c]] = 1 /\ Aligned(c, order[c])
            BY <1>9, <1>11 DEF StaleOrderRight
      <2>2. order[c] = o
            BY <1>5, <1>9, <2>1, LowestOne
      <2>. QED BY <1>11, <2>1, <2>2 DEF IsHead
<1>13. /\ order' = [order EXCEPT ![b] = o]
       /\ free' = [free EXCEPT ![m] = Tail(@), ![o] = <<c, b>> \o @]
       /\ refcnt' = [refcnt EXCEPT ![b] = 0, ![c] = 0]
       /\ lvl' = o /\ pc' = pc /\ want' = want /\ ret' = ret
       /\ booted' = booted /\ blk' = blk /\ held' = held
      <2>1. SplitHead(b, o)
            BY <1>1, <1>2, <1>3, <1>4, <1>7 DEF SplitStep
      <2>2. lvl' = o /\ pc' = pc /\ want' = want /\ ret' = ret
            BY <1>1, <1>3, <1>4 DEF SplitStep
      <2>. QED BY <1>3, <1>8, <2>1, <2>2 DEF SplitHead, SplitStep
<1>14. /\ free[o] \in Seq(Page) /\ IsInjective(free[o])
       /\ b \notin Range(free[o]) /\ c \notin Range(free[o])
      <2>1. free[o] \in Seq(Page) /\ IsInjective(free[o])
            BY <1>5 DEF TypeOK, ListsExact
      <2>2. order[b] # o /\ ~IsFree(c)
            BY <1>5, <1>7, <1>12 DEF IsFree
      <2>. QED BY <1>5, <1>6, <1>9, <2>1, <2>2 DEF ListsExact
<1>15. PICK l : l = <<c, b>> \o free[o]
      OBVIOUS
<1>16. l \in Seq(Page) /\ IsInjective(l) /\ Range(l) = Range(free[o]) \cup {b, c}
      <2>. DEFINE k == <<b>> \o free[o]
      <2>1. k \in Seq(Page) /\ IsInjective(k) /\ Range(k) = Range(free[o]) \cup {b}
            BY <1>6, <1>14, PushList
      <2>2. l = <<c>> \o k
            <3>1. <<c, b>> = <<c>> \o <<b>>
                  OBVIOUS
            <3>2. <<c>> \in Seq(Page) /\ <<b>> \in Seq(Page)
                  BY <1>6, <1>9
            <3>. QED BY <1>14, <1>15, <3>1, <3>2, ConcatAssociative
      <2>. HIDE DEF k
      <2>3. c \notin Range(k)
            BY <1>9, <1>14, <2>1
      <2>4. <<c>> \o k \in Seq(Page) /\ IsInjective(<<c>> \o k)
            /\ Range(<<c>> \o k) = Range(k) \cup {c}
            BY <1>9, <2>1, <2>3, PushList
      <2>. QED BY <2>1, <2>2, <2>4
<1>17. Head(l) = c /\ l # << >>
      BY <1>6, <1>9, <1>14, <1>15
<1>18. /\ free'[o] = l /\ free'[m] = Tail(free[m])
       /\ \A k \in Order : k # o /\ k # m => free'[k] = free[k]
       /\ free' \in [Order -> Seq(Page)]
      BY <1>5, <1>6, <1>13, <1>15, <1>16 DEF TypeOK
<1>19. /\ refcnt' \in [Page -> Nat] /\ order' \in [Page -> Order]
       /\ refcnt'[b] = 0 /\ refcnt'[c] = 0
       /\ order'[b] = o /\ order'[c] = o
       /\ \A p \in Page : p # b => order'[p] = order[p]
       /\ \A p \in Page : p # b /\ p # c => refcnt'[p] = refcnt[p]
      BY <1>5, <1>6, <1>9, <1>12, <1>13 DEF TypeOK
<1>20. TypeOK'
      BY <1>5, <1>13, <1>18, <1>19 DEF TypeOK
<1>21. \A p \in Page : IsFree(p)' <=> IsFree(p) \/ p = c
      BY <1>6, <1>7, <1>9, <1>19 DEF IsFree
<1>22. Pool' = Pool
      BY <1>13 DEF Pool
<1>23. \A p \in Page : IsHead(p)' <=> IsHead(p) \/ p = c
      BY <1>13, <1>21, <1>22 DEF IsHead
<1>24. ListsExact'
      <2>. SUFFICES ASSUME NEW k \in Order
                    PROVE  /\ IsInjective(free'[k])
                           /\ \A p \in Page : p \in Range(free'[k])
                                 <=> IsFree(p)' /\ order'[p] = k
           BY DEF ListsExact
      <2>0. /\ IsInjective(free[k])
            /\ \A p \in Page : p \in Range(free[k]) <=> IsFree(p) /\ order[p] = k
            BY DEF ListsExact
      <2>1. CASE k = o
            <3>1. ASSUME NEW p \in Page
                  PROVE  p \in Range(l) <=> IsFree(p)' /\ order'[p] = k
                  BY <1>5, <1>7, <1>16, <1>19, <1>21, <2>0, <2>1 DEF IsFree
            <3>. QED BY <1>16, <1>18, <2>1, <3>1
      <2>2. CASE k = m
            <3>1. ASSUME NEW p \in Page
                  PROVE  p \in Range(Tail(free[m])) <=> IsFree(p)' /\ order'[p] = k
                  BY <1>5, <1>6, <1>19, <1>21, <2>0, <2>2
            <3>. QED BY <1>6, <1>18, <2>2, <3>1
      <2>3. CASE k # o /\ k # m
            <3>1. ASSUME NEW p \in Page
                  PROVE  p \in Range(free[k]) <=> IsFree(p)' /\ order'[p] = k
                  BY <1>7, <1>12, <1>19, <1>21, <2>0, <2>3
            <3>. QED BY <1>18, <2>0, <2>3, <3>1
      <2>. QED BY <2>1, <2>2, <2>3
<1>25. NoOverlap'
      <2>. SUFFICES ASSUME NEW p \in Page, NEW q \in Page,
                           IsHead(p)', IsHead(q)', q \in Span(p, order'[p])
                    PROVE  p = q
           BY DEF NoOverlap
      <2>1. Span(b, o) \cap Span(c, o) = {}
            <3>1. o >= o
                  BY <1>5, MaxOrderAssumption DEF Bit
            <3>2. \A x \in Span(b, o) : x[o] = 0
                  BY <1>5, <1>9, <3>1 DEF Span
            <3>3. \A x \in Span(c, o) : x[o] = 1
                  BY <1>5, <1>9, <3>1 DEF Span
            <3>. QED BY <3>2, <3>3
      <2>2. b \in Span(b, o) /\ c \in Span(c, o)
            BY <1>5, <1>6, <1>9, SpanSelf
      <2>3. CASE p = b \/ p = c
            <3>1. q \in Span(b, order[b])
                  BY <1>7, <1>10, <1>19, <2>3
            <3>2. q = b \/ q = c
                  BY <1>6, <1>7, <1>23, <3>1 DEF NoOverlap
            <3>. QED BY <1>19, <2>1, <2>2, <2>3, <3>2
      <2>4. CASE p # b /\ p # c
            <3>1. IsHead(p) /\ order'[p] = order[p]
                  BY <1>19, <1>23, <2>4
            <3>2. CASE q # c
                  BY <1>23, <3>1, <3>2 DEF NoOverlap
            <3>3. CASE q = c
                  <4>1. c \in Span(p, order[p])
                        BY <3>1, <3>3
                  <4>. DEFINE j == order[p]
                  <4>2. j \in Order /\ o \in Order /\ m = o + 1
                        BY <1>5 DEF TypeOK
                  <4>3. CASE j > o
                        <5>1. \A i \in Bit : i >= j => i # o
                              BY <4>2, <4>3, MaxOrderAssumption DEF Bit, Order
                        <5>2. \A i \in Bit : i >= j => b[i] = c[i]
                              BY <1>5, <1>6, <1>8, <5>1, BuddyPage
                        <5>3. b \in Span(p, j)
                              BY <1>6, <4>1, <5>2 DEF Span
                        <5>. QED BY <1>6, <1>7, <2>4, <3>1, <5>3 DEF NoOverlap
                  <4>4. CASE ~(j > o)
                        <5>1. \A i \in Bit : i >= m => i >= j /\ i # o
                              BY <4>2, <4>4, MaxOrderAssumption DEF Bit, Order
                        <5>2. \A i \in Bit : i >= m => c[i] = b[i]
                              BY <1>5, <1>6, <1>8, <5>1, BuddyPage
                        <5>3. p \in Span(b, m)
                              BY <4>1, <5>1, <5>2 DEF Span
                        <5>. QED BY <1>6, <1>7, <2>4, <3>1, <5>3 DEF NoOverlap
                  <4>. QED BY <4>3, <4>4
            <3>. QED BY <3>2, <3>3
      <2>. QED BY <2>3, <2>4
<1>26. NothingLost'
      <2>. SUFFICES ASSUME NEW q \in Page
                    PROVE  \E p \in Page : IsHead(p)' /\ q \in Span(p, order'[p])
           BY DEF NothingLost
      <2>1. PICK p \in Page : IsHead(p) /\ q \in Span(p, order[p])
            BY DEF NothingLost
      <2>2. CASE p = b
            <3>1. q \in Span(b, o) \/ q \in Span(c, o)
                  BY <1>7, <1>10, <2>1, <2>2
            <3>2. IsHead(b)' /\ IsHead(c)'
                  BY <1>6, <1>7, <1>9, <1>23
            <3>. QED BY <1>6, <1>9, <1>19, <3>1, <3>2
      <2>3. CASE p # b
            BY <1>19, <1>23, <2>1, <2>3
      <2>. QED BY <2>2, <2>3
<1>27. AllAligned'
      BY <1>9, <1>19 DEF AllAligned
<1>28. StaleOrderRight'
      <2>. SUFFICES ASSUME NEW p \in Page, ~IsHead(p)'
                    PROVE  /\ refcnt'[p] = 1 /\ order'[p] \in Bit
                           /\ p[order'[p]] = 1 /\ Aligned(p, order'[p])
           BY DEF StaleOrderRight
      <2>1. ~IsHead(p) /\ p # b /\ p # c
            BY <1>7, <1>23
      <2>. QED BY <1>19, <2>1 DEF StaleOrderRight
<1>29. Counts'
      <2>1. b \in Pool /\ b \notin held
            BY <1>6, <1>7 DEF Counts
      <2>. QED BY <1>12, <1>13, <1>19, <1>22, <2>1 DEF Counts
<1>30. LoopOK'
      <2>1. want <= o
            BY <1>1, <1>3, <1>5, MaxOrderAssumption DEF Order
      <2>. QED BY <1>1, <1>13, <1>17, <1>18, <2>1 DEF LoopOK
<1>31. OnePairAtMost'
      <2>. SUFFICES ASSUME NEW p \in Page, Unmerged(p)'
                    PROVE  order'[p] = o /\ (p = c \/ p = block2buddy(c, o))
           BY <1>1, <1>13, <1>17, <1>18 DEF OnePairAtMost
      <2>1. PICK q : q = block2buddy(p, order'[p])
            OBVIOUS
      <2>2. /\ refcnt'[p] = 0 /\ order'[p] \in Bit /\ refcnt'[q] = 0
            /\ order'[q] = order'[p]
            BY <2>1 DEF Unmerged, IsFree
      <2>3. q \in Page /\ block2buddy(q, order'[p]) = p
            BY <2>1, <2>2, BuddyPage
      <2>4. CASE p = b \/ p = c
            BY <1>9, <1>19, <2>4
      <2>5. CASE p # b /\ p # c
            <3>1. q # b
                  BY <1>8, <1>19, <2>2, <2>3, <2>5
            <3>2. q # c
                  BY <1>9, <1>19, <2>2, <2>3, <2>5
            <3>3. /\ order'[p] = order[p] /\ order'[q] = order[q]
                  /\ refcnt[p] = 0 /\ refcnt[q] = 0
                  BY <1>19, <2>2, <2>3, <2>5, <3>1, <3>2
            <3>4. Unmerged(p)
                  BY <2>1, <2>2, <3>3 DEF Unmerged, IsFree
            <3>5. order[p] = m /\ p = block2buddy(b, m)
                  BY <1>1, <1>2, <1>3, <2>5, <3>4 DEF OnePairAtMost
            <3>6. q = b
                  BY <1>6, <2>1, <2>2, <3>3, <3>5, BuddyPage
            <3>. QED BY <3>1, <3>6
      <2>. QED BY <2>4, <2>5
<1>. QED BY <1>20, <1>24, <1>25, <1>26, <1>27, <1>28, <1>29, <1>30, <1>31

\* buddy_reset establishes the invariant anew.
LEMMA ResetIInv == IInv /\ Reset => IInv'
<1>. SUFFICES ASSUME IInv, Reset PROVE IInv'
     OBVIOUS
<1>1. 0 \in Order /\ Len(BootSeq) \in Nat
      BY MaxOrderAssumption, BootAssumption DEF Order
<1>2. TypeOK'
      <2>1. refcnt' \in [Page -> Nat]
            BY DEF Reset
      <2>2. order' \in [Page -> Order]
            BY <1>1 DEF Reset
      <2>3. free' \in [Order -> Seq(Page)]
            BY DEF Reset
      <2>4. /\ booted' \in 0..Len(BootSeq) /\ held' \subseteq Page
            /\ ret' = <<"none", 0>> /\ pc' = pc /\ blk' = blk /\ lvl' = lvl /\ want' = want
            BY <1>1 DEF Reset, local
      <2>. QED BY <2>1, <2>2, <2>3, <2>4, ReturnType DEF TypeOK, IInv
<1>3. Pool' = {}
      BY DEF Reset, Pool
<1>4. \A p \in Page : IsHead(p)' /\ ~IsFree(p)' /\ order'[p] = 0
      BY <1>3 DEF Reset, IsHead, IsFree
<1>5. ListsExact'
      BY <1>4 DEF Reset, ListsExact, IsInjective, Range
<1>6. ASSUME NEW p \in Page, NEW q \in Span(p, 0)
      PROVE  q = p
      <2>1. \A i \in Bit : i >= 0
            BY MaxOrderAssumption DEF Bit
      <2>. QED BY <2>1 DEF Span, Page
<1>7. NoOverlap'
      BY <1>4, <1>6 DEF NoOverlap
<1>8. NothingLost'
      BY <1>1, <1>4, SpanSelf DEF NothingLost
<1>9. AllAligned'
      <2>1. \A i \in Bit : ~(i < 0)
            BY MaxOrderAssumption DEF Bit
      <2>. QED BY <1>4, <2>1 DEF AllAligned, Aligned
<1>10. Counts'
      BY <1>3 DEF Reset, Counts
<1>. QED BY <1>2, <1>4, <1>5, <1>7, <1>8, <1>9, <1>10
         DEF IInv, StaleOrderRight, LoopOK, OnePairAtMost, Unmerged, Reset, local

\* A step that changes nothing keeps the invariant.
LEMMA StutterIInv == IInv /\ UNCHANGED vars => IInv'
<1>. SUFFICES ASSUME IInv, UNCHANGED vars PROVE IInv'
     OBVIOUS
<1>1. UNCHANGED <<refcnt, order, free, booted, held>>
      BY DEF vars
<1>2. TypeOK' /\ LoopOK'
      BY DEF IInv, TypeOK, LoopOK, IsFree, vars
<1>3. OnePairAtMost'
      BY DEF IInv, OnePairAtMost, Unmerged, IsFree, vars
<1>. QED BY <1>1, <1>2, <1>3, SameLists DEF IInv

(***************************************************************************)
(* IInv is an invariant of the allocator for every MaxOrder and every       *)
(* duplicate-free sequence of frames handed to __buddy_init.                *)
(***************************************************************************)
THEOREM InductiveInvariant == Spec => []IInv
<1>1. Init => IInv
      BY InitIInv
<1>2. IInv /\ [Next]_vars => IInv'
      <2>. SUFFICES ASSUME IInv, [Next]_vars PROVE IInv'
           OBVIOUS
      <2>1. CASE BootFree
            BY <2>1, BootFreeIInv
      <2>2. ASSUME NEW b \in held, Free(b) PROVE IInv'
            BY <2>2, FreeIInv
      <2>3. CASE MergeStep
            BY <2>3, MergeStepIInv
      <2>4. CASE MergeDone
            BY <2>4, MergeDoneIInv
      <2>5. ASSUME NEW o \in 0..MaxOrder+1, AllocStart(o) PROVE IInv'
            BY <2>5, AllocStartIInv
      <2>6. ASSUME NEW o \in 0..MaxOrder+1, AllocFail(o) PROVE IInv'
            BY <2>6, AllocFailIInv
      <2>7. CASE SplitStep
            BY <2>7, SplitStepIInv
      <2>8. CASE AllocPop
            BY <2>8, AllocPopIInv
      <2>9. CASE Reset
            BY <2>9, ResetIInv
      <2>10. CASE UNCHANGED vars
            BY <2>10, StutterIInv
      <2>. QED BY <2>1, <2>2, <2>3, <2>4, <2>5, <2>6, <2>7, <2>8, <2>9, <2>10 DEF Next
<1>. QED BY <1>1, <1>2, PTL DEF Spec

-----------------------------------------------------------------------------
(***************************************************************************)
(* The properties.                                                          *)
(***************************************************************************)

\* Orders, counts, lists and loop variables keep their types in buddy.c; in
\* particular no order leaves 0..BUDDY_MAX_ORDER.
THEOREM TypeCorrect == Spec => []TypeOK
<1>1. IInv => TypeOK
      BY DEF IInv
<1>. QED BY <1>1, InductiveInvariant, PTL

\* buddy_push, buddy_pop and buddy_remove keep every free block on the list of
\* its order, exactly once.
THEOREM ListsAlwaysExact == Spec => []ListsExact
<1>1. IInv => ListsExact
      BY DEF IInv
<1>. QED BY <1>1, InductiveInvariant, PTL

\* buddy_alloc, buddy_free and the merges and splits inside them never let two
\* blocks, free, allocated or the kernel's own, share a frame.
THEOREM MemoryNeverShared == Spec => []NoOverlap
<1>1. IInv => NoOverlap
      BY DEF IInv
<1>. QED BY <1>1, InductiveInvariant, PTL

\* Merges and splits lose no frame.
THEOREM MemoryNeverLost == Spec => []NothingLost
<1>1. IInv => NothingLost
      BY DEF IInv
<1>. QED BY <1>1, InductiveInvariant, PTL

\* __buddy_split may rely on the order that __buddy_merge left in the upper
\* half.
THEOREM StaleOrderAlwaysRight == Spec => []StaleOrderRight
<1>1. IInv => StaleOrderRight
      BY DEF IInv
<1>. QED BY <1>1, InductiveInvariant, PTL

\* Between calls __buddy_try_merge has left nothing to merge.
THEOREM AlwaysFullyMerged == Spec => []FullyMerged
<1>1. IInv => FullyMerged
      BY DEF IInv, OnePairAtMost, FullyMerged
<1>. QED BY <1>1, InductiveInvariant, PTL

\* buddy_alloc returns a block of the order it was asked for, aligned to it,
\* whatever __buddy_split had to cut to get it.
THEOREM GrantsAreRight == Spec => GrantsWhatWasAsked
<1>. DEFINE Right == \A b \in Page : b \in held' \ held =>
                        order'[b] = want /\ Aligned(b, want)
<1>1. IInv /\ [Next]_vars => [Right]_vars
      <2>. SUFFICES ASSUME IInv, Next, NEW b \in Page, b \in held' \ held
                    PROVE  order'[b] = want /\ Aligned(b, want)
           OBVIOUS
      <2>1. AllocPop
            BY DEF Next, BootFree, Free, MergeStep, MergeDone, AllocStart,
                   AllocFail, SplitStep, Reset
      <2>2. /\ b = Head(free[want]) /\ free[want] # << >> /\ order' = order
            BY <2>1 DEF AllocPop
      <2>3. want \in Order /\ free[want] \in Seq(Page)
            BY DEF IInv, TypeOK
      <2>4. b \in Range(free[want])
            BY <2>2, <2>3, PopList
      <2>. QED BY <2>2, <2>3, <2>4 DEF IInv, ListsExact, AllAligned
<1>. QED BY <1>1, InductiveInvariant, PTL DEF Spec, GrantsWhatWasAsked

-----------------------------------------------------------------------------
(***************************************************************************)
(* Proof that Buddy implements FrameAllocator: every call of buddy_alloc    *)
(* and buddy_free, loops and all, is one step of the abstract allocator.    *)
(***************************************************************************)

\* A set of natural numbers that is not empty has a least member.
LEMMA LeastNatural ==
    ASSUME NEW T, T \subseteq Nat, T # {}
    PROVE  \E m \in T : \A k \in T : m <= k
<1>1. PICK m \in T : \A k \in T : <<k, m>> \notin OpToRel(<, Nat)
      BY WFMin, NatLessThanWellFounded
<1>2. ASSUME NEW k \in T PROVE m <= k
      <2>1. ~(k < m)
            BY <1>1 DEF OpToRel
      <2>. QED BY <2>1
<1>. QED BY <1>2

(***************************************************************************)
(* Two aligned blocks that meet are nested.                                 *)
(***************************************************************************)
LEMMA SpansNest ==
    ASSUME NEW p \in Page, NEW q \in Page, NEW i \in Order, NEW j \in Order,
           i <= j, NEW x \in Page, x \in Span(p, i), x \in Span(q, j)
    PROVE  p \in Span(q, j)
<1>1. \A k \in Bit : k >= j => k >= i
      BY MaxOrderAssumption DEF Bit, Order
<1>. QED BY <1>1 DEF Span

\* Two blocks that share a frame are the same block.
LEMMA HeadsApart ==
    ASSUME IInv, NEW p \in Page, NEW q \in Page, IsHead(p), IsHead(q),
           NEW x \in Page, x \in Span(p, order[p]), x \in Span(q, order[q])
    PROVE  p = q
<1>1. order[p] \in Order /\ order[q] \in Order
      BY DEF IInv, TypeOK
<1>2. CASE order[p] <= order[q]
      BY <1>1, <1>2, SpansNest DEF IInv, NoOverlap
<1>3. CASE order[q] <= order[p]
      BY <1>1, <1>3, SpansNest DEF IInv, NoOverlap
<1>4. order[p] <= order[q] \/ order[q] <= order[p]
      BY <1>1, MaxOrderAssumption DEF Order
<1>. QED BY <1>2, <1>3, <1>4

\* The frames in callers' hands.
InUse == UNION {Span(b, order[b]) : b \in held}

(***************************************************************************)
(* If the lists from o up are empty, no aligned run of 2^o frames is free:  *)
(* the smallest free block inside such a run would have a free buddy of its *)
(* own order, and __buddy_try_merge leaves none.                            *)
(***************************************************************************)
LEMMA NoRunIsMissed ==
    ASSUME IInv, pc = "idle", NEW o \in Order,
           \A i \in Order : i >= o => free[i] = << >>,
           NEW p \in Page, Aligned(p, o), Span(p, o) \subseteq Pool \ InUse
    PROVE  FALSE
<1>. DEFINE F == {h \in Page : IsFree(h) /\ h \in Span(p, o)}
<1>1. ASSUME NEW x \in Span(p, o)
      PROVE  \E h \in F : x \in Span(h, order[h]) /\ order[h] < o
      <2>0. x \in Page /\ x \in Pool /\ x \notin InUse
            BY DEF Span
      <2>1. PICK h \in Page : IsHead(h) /\ x \in Span(h, order[h])
            BY <2>0 DEF IInv, NothingLost
      <2>2. h \notin held
            BY <2>0, <2>1 DEF InUse
      <2>3. h \in Pool
            <3>1. ASSUME h \notin Pool PROVE FALSE
                  <4>1. order[h] = 0
                        BY <3>1 DEF IInv, Counts
                  <4>2. \A k \in Bit : k >= 0
                        BY MaxOrderAssumption DEF Bit
                  <4>3. x = h
                        BY <2>1, <4>1, <4>2 DEF Span, Page
                  <4>. QED BY <2>0, <3>1, <4>3
            <3>. QED BY <3>1
      <2>4. IsFree(h)
            BY <2>1, <2>2, <2>3 DEF IsHead
      <2>5. order[h] \in Order /\ h \in Range(free[order[h]])
            BY <2>4 DEF IInv, TypeOK, ListsExact
      <2>6. free[order[h]] # << >>
            BY <2>5 DEF Range
      <2>7. order[h] < o
            BY <2>5, <2>6, MaxOrderAssumption DEF Order
      <2>8. order[h] <= o
            BY <2>5, <2>7, MaxOrderAssumption DEF Order
      <2>9. h \in Span(p, o)
            <3>1. x \in Span(p, o)
                  OBVIOUS
            <3>. QED BY <2>0, <2>1, <2>5, <2>8, <3>1, SpansNest
      <2>. QED BY <2>1, <2>4, <2>7, <2>9
<1>2. PICK m \in {order[h] : h \in F} : \A k \in {order[h] : h \in F} : m <= k
      <2>1. F # {}
            BY <1>1, SpanSelf
      <2>2. {order[h] : h \in F} \subseteq Nat
            <3>1. \A h \in F : order[h] \in Order
                  BY DEF IInv, TypeOK
            <3>2. Order \subseteq Nat
                  BY MaxOrderAssumption DEF Order
            <3>. QED BY <3>1, <3>2
      <2>3. {order[h] : h \in F} # {}
            BY <2>1
      <2>. QED BY <2>2, <2>3, LeastNatural
<1>3. PICK x \in F : order[x] = m
      BY <1>2
<1>4. x \in Page /\ IsFree(x) /\ x \in Span(p, o) /\ m \in Order
      BY <1>3 DEF IInv, TypeOK
<1>5. m < o
      <2>1. PICK h \in F : x \in Span(h, order[h]) /\ order[h] < o
            BY <1>1, <1>4
      <2>2. m <= order[h]
            BY <1>2, <2>1
      <2>3. order[h] \in Order
            BY <2>1 DEF IInv, TypeOK
      <2>. QED BY <1>4, <2>1, <2>2, <2>3, MaxOrderAssumption DEF Order
<1>6. m \in Bit
      BY <1>4, <1>5, MaxOrderAssumption DEF Order, Bit
<1>7. PICK y : y = block2buddy(x, m)
      OBVIOUS
<1>8. /\ y \in Page /\ y # x
      /\ \A i \in Bit : i # m => y[i] = x[i]
      BY <1>4, <1>6, <1>7, BuddyPage
<1>9. y \in Span(p, o)
      <2>1. \A i \in Bit : i >= o => i # m
            BY <1>5, <1>6, MaxOrderAssumption DEF Bit, Order
      <2>. QED BY <1>4, <1>8, <2>1 DEF Span
<1>10. PICK h \in F : y \in Span(h, order[h]) /\ order[h] < o
      BY <1>1, <1>9
<1>11. h \in Page /\ IsFree(h) /\ order[h] \in Order /\ m <= order[h]
      BY <1>2, <1>10 DEF IInv, TypeOK
<1>12. CASE order[h] = m
      <2>1. Aligned(h, m) /\ Aligned(y, m)
            BY <1>3, <1>4, <1>6, <1>7, <1>11, <1>12, AlignedBuddy DEF IInv, AllAligned
      <2>2. \A i \in Bit : y[i] = h[i]
            <3>1. ASSUME NEW i \in Bit PROVE y[i] = h[i]
                  <4>1. i < m \/ i >= m
                        BY <1>6, MaxOrderAssumption DEF Bit
                  <4>2. CASE i < m
                        BY <2>1, <4>2 DEF Aligned
                  <4>3. CASE i >= m
                        BY <1>10, <1>12, <4>3 DEF Span
                  <4>. QED BY <4>1, <4>2, <4>3
            <3>. QED BY <3>1
      <2>3. y = h
            BY <1>8, <1>11, <2>2 DEF Page
      <2>4. Unmerged(x)
            BY <1>3, <1>4, <1>6, <1>7, <1>11, <1>12, <2>3 DEF Unmerged
      <2>. QED BY <1>4, <2>4 DEF IInv, OnePairAtMost
<1>13. CASE order[h] # m
      <2>1. \A i \in Bit : i >= order[h] => i # m
            BY <1>4, <1>11, <1>13, MaxOrderAssumption DEF Bit, Order
      <2>2. x \in Span(h, order[h])
            BY <1>4, <1>8, <1>10, <2>1 DEF Span
      <2>3. x = h
            BY <1>4, <1>11, <2>2 DEF IInv, NoOverlap, IsHead
      <2>. QED BY <1>3, <1>13, <2>3
<1>. QED BY <1>12, <1>13

-----------------------------------------------------------------------------
(***************************************************************************)
(* The refinement, one lemma per kind of step.                              *)
(***************************************************************************)
Owned == {<<b, order[b]>> : b \in held}

\* The initial states correspond.
LEMMA InitRefines == Init => Allocator!AInit
BY DEF Init, Allocator!AInit, Pool

\* The rounds of the loops are invisible to callers.
LEMMA SilentStep ==
    ASSUME booted' = booted, held' = held, ret' = ret,
           \A b \in held : order'[b] = order[b]
    PROVE  UNCHANGED Allocator!fvars
<1>1. Pool' = Pool
      BY DEF Pool
<1>2. Owned' = Owned
      BY DEF Owned
<1>. QED BY <1>1, <1>2 DEF Allocator!fvars, Owned

\* A merge changes nothing that callers see.
LEMMA MergeStepSilent ==
    ASSUME IInv, MergeStep PROVE UNCHANGED Allocator!fvars
<1>1. \A b \in held : order'[b] = order[b]
      <2>1. order[blk] \in Bit /\ blk \in Page
            <3>1. blk \in Page /\ order[blk] \in Order /\ order[blk] # MaxOrder
                  BY DEF IInv, TypeOK, MergeStep, Mergeable
            <3>. QED BY <3>1, MaxOrderAssumption DEF Order, Bit
      <2>. DEFINE bud == block2buddy(blk, order[blk])
      <2>2. bud \in Page /\ refcnt[blk] = 0 /\ refcnt[bud] = 0
            BY <2>1, BuddyPage DEF MergeStep, Mergeable
      <2>3. blk \notin held /\ bud \notin held
            BY <2>1, <2>2 DEF IInv, Counts
      <2>4. \/ order' = [order EXCEPT ![bud] = @ + 1]
            \/ order' = [order EXCEPT ![blk] = @ + 1]
            BY DEF MergeStep, __buddy_merge
      <2>5. held \subseteq Page /\ order \in [Page -> Order]
            BY DEF IInv, TypeOK
      <2>. HIDE DEF bud
      <2>. QED BY <2>1, <2>2, <2>3, <2>4, <2>5
<1>. QED BY <1>1, SilentStep DEF MergeStep

\* A split changes nothing that callers see.
LEMMA SplitStepSilent ==
    ASSUME IInv, SplitStep PROVE UNCHANGED Allocator!fvars
<1>1. free[lvl] # << >> /\ lvl \in Order /\ free[lvl] \in Seq(Page)
      BY DEF IInv, LoopOK, TypeOK, SplitStep
<1>. DEFINE b == Head(free[lvl])
<1>2. b \in Page /\ b \in Range(free[lvl])
      BY <1>1, PopList
<1>3. b \notin held
      BY <1>1, <1>2 DEF IInv, ListsExact, IsFree, Counts
<1>4. order' = [order EXCEPT ![b] = order[b] - 1] /\ ret' = ret
      BY <1>1 DEF SplitStep, SplitHead
<1>. HIDE DEF b
<1>5. \A x \in held : order'[x] = order[x]
      BY <1>3, <1>4 DEF IInv, TypeOK
<1>. QED BY <1>4, <1>5, SilentStep DEF SplitStep

\* Freeing a frame at boot donates it to the pool.
LEMMA BootFreeRefines ==
    ASSUME IInv, BootFree PROVE \E p \in Page : Allocator!Donate(p)
<1>. DEFINE b == BootSeq[booted + 1]
<1>1. booted \in 0..Len(BootSeq) /\ booted < Len(BootSeq) /\ Len(BootSeq) \in Nat
      <2>1. booted < Len(BootSeq)
            BY DEF BootFree
      <2>2. booted \in 0..Len(BootSeq)
            BY DEF IInv, TypeOK
      <2>3. Len(BootSeq) \in Nat
            BY BootAssumption
      <2>. QED BY <2>1, <2>2, <2>3
<1>2. booted + 1 \in 1..Len(BootSeq) /\ b \in Page
      BY <1>1, BootAssumption
<1>3. b \notin Pool
      BY <1>1, <1>2, BootAssumption DEF Pool
<1>4. refcnt[b] = 1
      BY <1>2, <1>3 DEF IInv, Counts
<1>5. ret' = <<"freed", 0>>
      BY <1>4 DEF BootFree, buddy_free
<1>6. Pool' = Pool \cup {b}
      <2>1. booted' = booted + 1
            BY DEF BootFree
      <2>2. 1..booted' = (1..booted) \cup {booted + 1}
            BY <1>1, <2>1
      <2>. QED BY <2>2 DEF Pool
<1>7. Owned' = Owned
      BY DEF BootFree, Owned
<1>8. Allocator!Donate(b)
      BY <1>3, <1>5, <1>6, <1>7 DEF Allocator!Donate, Owned
<1>. QED BY <1>2, <1>8

\* buddy_free gives a block back.
LEMMA FreeRefines ==
    ASSUME IInv, NEW b \in held, Free(b)
    PROVE  \E c \in Owned : Allocator!Release(c)
<1>1. refcnt[b] = 1
      BY DEF IInv, TypeOK, Counts
<1>2. ret' = <<"freed", 0>> /\ booted' = booted /\ order' = order /\ held' = held \ {b}
      BY <1>1 DEF Free, buddy_free
<1>3. Owned' = Owned \ {<<b, order[b]>>}
      BY <1>2 DEF Owned
<1>4. <<b, order[b]>> \in Owned
      BY DEF Owned
<1>5. Pool' = Pool
      BY <1>2 DEF Pool
<1>6. PICK c : c = <<b, order[b]>>
      OBVIOUS
<1>7. Allocator!Release(c)
      BY <1>2, <1>3, <1>4, <1>5, <1>6 DEF Allocator!Release, Owned
<1>. QED BY <1>4, <1>6, <1>7

\* The frames callers hold are those of the blocks they hold.
LEMMA TakenIsInUse == Allocator!Taken = InUse
<1>1. Allocator!Taken = UNION {Span(c[1], c[2]) : c \in Owned}
      BY DEF Allocator!Taken, Owned, Allocator!Span, Span, Allocator!Page, Page,
             Allocator!Bit, Bit
<1>2. \A x : x \in UNION {Span(c[1], c[2]) : c \in Owned} <=> x \in InUse
      <2>1. ASSUME NEW c \in Owned, NEW x \in Span(c[1], c[2]) PROVE x \in InUse
            <3>1. PICK b \in held : c = <<b, order[b]>>
                  BY DEF Owned
            <3>2. x \in Span(b, order[b])
                  BY <3>1
            <3>. QED BY <3>2 DEF InUse
      <2>2. ASSUME NEW b \in held, NEW x \in Span(b, order[b])
            PROVE  \E c \in Owned : x \in Span(c[1], c[2])
            <3>1. PICK c : c = <<b, order[b]>>
                  OBVIOUS
            <3>2. c \in Owned /\ x \in Span(c[1], c[2])
                  BY <3>1 DEF Owned
            <3>. QED BY <3>2
      <2>. QED BY <2>1, <2>2 DEF InUse
<1>. QED BY <1>1, <1>2

\* A run is available if it is aligned and all its frames are.
LEMMA AvailableMeans ==
    ASSUME NEW o
    PROVE  Allocator!Available(o) =
             IF o \in Order
             THEN {p \in Page : Aligned(p, o) /\ Span(p, o) \subseteq Pool \ InUse}
             ELSE {}
BY TakenIsInUse DEF Allocator!Available, Allocator!Order, Order, Allocator!Page,
   Page, Allocator!Bit, Bit, Allocator!Aligned, Aligned, Allocator!Span, Span

\* A block that is handed out was available.
LEMMA AllocPopRefines ==
    ASSUME IInv, AllocPop
    PROVE  \E p \in Page, o \in Order : Allocator!Grant(p, o)
<1>1. lvl = want /\ want \in Order /\ free[want] # << >>
      <2>1. lvl \in Order /\ want \in Order /\ want <= lvl /\ lvl <= want
            BY DEF IInv, TypeOK, LoopOK, AllocPop
      <2>2. lvl = want
            BY <2>1, MaxOrderAssumption DEF Order
      <2>. QED BY <2>1, <2>2 DEF IInv, LoopOK, AllocPop
<1>2. PICK b : b = Head(free[want])
      OBVIOUS
<1>3. PICK o : o = want
      OBVIOUS
<1>4. free[want] \in Seq(Page)
      BY <1>1 DEF IInv, TypeOK
<1>5. b \in Page /\ b \in Range(free[want])
      BY <1>1, <1>2, <1>4, PopList
<1>6. IsFree(b) /\ order[b] = o /\ IsHead(b)
      BY <1>1, <1>3, <1>5 DEF IInv, ListsExact, IsHead
<1>7. b \notin held /\ b \in Pool
      BY <1>5, <1>6 DEF IInv, Counts, IsFree
<1>8. Aligned(b, o)
      BY <1>5, <1>6 DEF IInv, AllAligned
<1>9. ASSUME NEW x \in Span(b, o) PROVE x \in Pool \ InUse
      <2>1. x \in Page
            BY DEF Span
      <2>2. x \in Pool
            BY <1>5, <1>6, <1>7, <2>1 DEF IInv, NoOverlap, IsHead
      <2>3. ASSUME NEW h \in held, x \in Span(h, order[h]) PROVE FALSE
            <3>1. h \in Page /\ IsHead(h)
                  BY DEF IInv, TypeOK, IsHead
            <3>2. x \in Span(b, order[b])
                  BY <1>6, <1>9
            <3>3. b = h
                  BY <1>5, <1>6, <2>1, <2>3, <3>1, <3>2, HeadsApart
            <3>. QED BY <1>7, <3>3
      <2>. QED BY <2>2, <2>3 DEF InUse
<1>10. b \in Allocator!Available(o)
      BY <1>1, <1>3, <1>5, <1>8, <1>9, AvailableMeans
<1>11. /\ held' = held \cup {b} /\ ret' = <<"block", want>> /\ order' = order
       /\ booted' = booted
      BY <1>1, <1>2 DEF AllocPop
<1>12. Owned' = Owned \cup {<<b, o>>} /\ Pool' = Pool
      BY <1>6, <1>11 DEF Owned, Pool
<1>13. Allocator!Grant(b, o)
      BY <1>3, <1>10, <1>11, <1>12 DEF Allocator!Grant, Owned
<1>. QED BY <1>1, <1>3, <1>5, <1>13

\* A request is refused only if no run is available.
LEMMA AllocFailRefines ==
    ASSUME IInv, NEW o \in 0..MaxOrder+1, AllocFail(o)
    PROVE  Allocator!Refuse(o)
<1>1. ASSUME o \in Order, NEW p \in Page, Aligned(p, o),
             Span(p, o) \subseteq Pool \ InUse
      PROVE  FALSE
      <2>. DEFINE T == {i \in Order : i >= o /\ free[i] # << >>}
      <2>1. T = {}
            <3>1. SUFFICES ASSUME T # {} PROVE FALSE
                  OBVIOUS
            <3>2. T \subseteq Nat
                  BY MaxOrderAssumption DEF Order
            <3>3. PICK m \in T : \A k \in T : m <= k
                  BY <3>1, <3>2, LeastNatural
            <3>4. ASSUME NEW j \in o..m-1 PROVE free[j] = << >>
                  <4>1. j \in Order /\ j >= o /\ ~(m <= j)
                        BY <1>1, MaxOrderAssumption DEF Order
                  <4>. QED BY <3>3, <4>1
            <3>5. m \in o..MaxOrder
                  BY <1>1, MaxOrderAssumption DEF Order
            <3>6. SmallestFreeOrder(o, m)
                  BY <3>4, <3>5 DEF SmallestFreeOrder
            <3>. QED BY <3>6 DEF AllocFail
      <2>2. \A i \in Order : i >= o => free[i] = << >>
            BY <2>1
      <2>3. pc = "idle"
            BY DEF AllocFail
      <2>. QED BY <1>1, <2>2, <2>3, NoRunIsMissed
<1>2. Allocator!Available(o) = {}
      BY <1>1, AvailableMeans
<1>3. ret' = <<"null", o>> /\ Owned' = Owned /\ Pool' = Pool
      BY DEF AllocFail, Owned, Pool
<1>. QED BY <1>2, <1>3 DEF Allocator!Refuse, Owned

(***************************************************************************)
(* buddy_alloc and buddy_free keep the promise of FrameAllocator: frames    *)
(* are handed out aligned and to one caller at a time, and a request is     *)
(* refused only when no aligned run of that size is left.                   *)
(***************************************************************************)
THEOREM BuddyImplementsAllocator == Spec => ImplementsAllocator
<1>1. Init => Allocator!AInit
      BY InitRefines
<1>2. IInv /\ [Next]_vars => [Allocator!ANext]_(Allocator!fvars)
      <2>. SUFFICES ASSUME IInv, [Next]_vars
                    PROVE  Allocator!ANext \/ UNCHANGED Allocator!fvars
           OBVIOUS
      <2>0. Allocator!Page = Page /\ Allocator!Order = Order
            BY DEF Allocator!Page, Page, Allocator!Bit, Bit, Allocator!Order, Order
      <2>1. CASE BootFree
            BY <2>0, <2>1, BootFreeRefines DEF Allocator!ANext
      <2>2. ASSUME NEW b \in held, Free(b) PROVE Allocator!ANext
            BY <2>2, FreeRefines DEF Allocator!ANext, Owned
      <2>3. CASE MergeStep
            BY <2>3, MergeStepSilent
      <2>4. CASE MergeDone
            BY <2>4, SilentStep DEF MergeDone
      <2>5. ASSUME NEW o \in 0..MaxOrder+1, AllocStart(o)
            PROVE  UNCHANGED Allocator!fvars
            BY <2>5, SilentStep DEF AllocStart
      <2>6. ASSUME NEW o \in 0..MaxOrder+1, AllocFail(o) PROVE Allocator!ANext
            BY <2>6, AllocFailRefines DEF Allocator!ANext
      <2>7. CASE SplitStep
            BY <2>7, SplitStepSilent
      <2>8. CASE AllocPop
            BY <2>0, <2>8, AllocPopRefines DEF Allocator!ANext
      <2>9. CASE Reset
            <3>1. Pool' = {} /\ Owned' = {} /\ ret' = <<"none", 0>>
                  BY <2>9 DEF Reset, Pool, Owned
            <3>. QED BY <3>1 DEF Allocator!ANext, Allocator!Restart, Owned
      <2>10. CASE UNCHANGED vars
            BY <2>10, SilentStep DEF vars
      <2>. QED BY <2>1, <2>2, <2>3, <2>4, <2>5, <2>6, <2>7, <2>8, <2>9, <2>10 DEF Next
<1>. QED BY <1>1, <1>2, InductiveInvariant, PTL
         DEF Spec, ImplementsAllocator, Allocator!ASpec
=============================================================================
