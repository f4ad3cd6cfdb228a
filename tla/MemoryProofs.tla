---------------------------- MODULE MemoryProofs -----------------------------
(***************************************************************************)
(* The two ways the kernel hands out memory below the level of frames:       *)
(*                                                                          *)
(*   - CursorAllocator, pt_salloc, for every size of a page, every sequence  *)
(*     of requests and any pages that the rest of the kernel takes in        *)
(*     between: no byte belongs to two lists or VMAs;                        *)
(*   - FreeList, the pointers of buddy.c, for any number of blocks and       *)
(*     orders: they implement the sequences of Lists.                        *)
(***************************************************************************)
EXTENDS CursorAllocator, FreeList, FunctionTheorems, FiniteSetTheorems,
        SequenceTheorems, WellFoundedInduction, TLAPS

-----------------------------------------------------------------------------
(***************************************************************************)
(* CursorAllocator.                                                         *)
(***************************************************************************)
\* What pt_salloc hands out.
Region == [page : 1..Pages, begin : 0..PageSize, end : 0..PageSize]

CursorTypeOK ==
    /\ taken \in 0..Pages
    /\ base \in 0..taken
    /\ cursor \in 0..PageSize
    /\ regions \in Seq(Region)

\* Without a page to cut up the cursor is at the beginning of the next one.
ReadyForPage == base = 0 => cursor = 0

\* Everything handed out is in a page that was taken, and what is cut off next is
\* behind all that was cut off the same page before.
CursorIsBehind ==
    \A i \in DOMAIN regions :
        /\ regions[i].page <= taken
        /\ regions[i].page = base => regions[i].end <= cursor

\* The inductive invariant.
CInv ==
    /\ CursorTypeOK
    /\ ReadyForPage
    /\ CursorIsBehind
    /\ RegionsApart

\* What Append does to a sequence, index by index.
LEMMA Appends ==
    ASSUME NEW S, NEW s \in Seq(S), NEW x \in S
    PROVE  /\ Append(s, x) \in Seq(S)
           /\ DOMAIN Append(s, x) = 1..Len(s)+1 /\ DOMAIN s = 1..Len(s) /\ Len(s) \in Nat
           /\ \A i \in DOMAIN s : Append(s, x)[i] = s[i]
           /\ Append(s, x)[Len(s)+1] = x
OBVIOUS

\* The kernel has not asked for anything yet.
LEMMA InitCInv == CInit => CInv
BY CursorAssumption DEF CInit, CInv, CursorTypeOK, ReadyForPage, CursorIsBehind, RegionsApart

\* A region is cut off page b at c: right if c is behind all that was cut off b.
LEMMA HandOutCInv ==
    ASSUME CInv, NEW n \in Nat, NEW b \in 1..Pages, NEW c \in Nat,
           n > 0, c + n <= PageSize, HandOut(n, b, c),
           taken' \in taken..Pages, b <= taken',
           \A i \in DOMAIN regions : regions[i].page = b => regions[i].end <= c
    PROVE  CInv'
<1>. DEFINE r == [page |-> b, begin |-> c, end |-> c + n]
<1>1. r \in Region /\ PageSize \in Nat /\ Pages \in Nat
      BY CursorAssumption DEF Region
<1>2. /\ regions' \in Seq(Region)
      /\ DOMAIN regions' = 1..Len(regions)+1 /\ DOMAIN regions = 1..Len(regions)
      /\ Len(regions) \in Nat
      /\ \A i \in DOMAIN regions : regions'[i] = regions[i]
      /\ regions'[Len(regions)+1] = r
      BY <1>1, Appends DEF CInv, CursorTypeOK, HandOut
<1>3. /\ r.page = b /\ r.begin = c /\ r.end = c + n
      OBVIOUS
<1>. HIDE DEF r
<1>4. CursorTypeOK'
      BY <1>1, <1>2 DEF CInv, CursorTypeOK, HandOut
<1>5. \A i \in DOMAIN regions : regions[i] \in Region
      BY <1>2 DEF CInv, CursorTypeOK
<1>6. ReadyForPage'
      BY DEF HandOut, ReadyForPage
<1>7. CursorIsBehind'
  <2>1. base' = b /\ cursor' = c + n /\ b <= taken'
        BY DEF HandOut
  <2>2. ASSUME NEW i \in DOMAIN regions
        PROVE  /\ regions'[i].page <= taken'
               /\ regions'[i].page = base' => regions'[i].end <= cursor'
    <3>1. regions[i].page \in Int /\ regions[i].end \in Int /\ regions[i].page <= taken
          BY <1>1, <1>5 DEF CInv, CursorIsBehind, Region
    <3>2. regions'[i] = regions[i] /\ taken \in Int /\ taken' \in Int /\ taken <= taken'
          BY <1>1, <1>2 DEF CInv, CursorTypeOK
    <3>. QED BY <2>1, <3>1, <3>2
  <2>3. r.page <= taken' /\ r.end <= cursor'
        BY <1>3, <2>1
  <2>. QED BY <1>2, <2>2, <2>3 DEF CursorIsBehind
<1>8. RegionsApart'
  <2>1. ASSUME NEW i \in DOMAIN regions'
        PROVE  /\ 0 <= regions'[i].begin /\ regions'[i].end <= PageSize
               /\ regions'[i].page \in 1..taken'
    <3>1. CASE i \in DOMAIN regions
          BY <1>2, <3>1 DEF CInv, CursorTypeOK, RegionsApart
    <3>2. CASE i = Len(regions)+1
          BY <1>2, <1>3, <3>2
    <3>. QED BY <1>2, <3>1, <3>2
  <2>2. ASSUME NEW i \in DOMAIN regions', NEW j \in DOMAIN regions', i < j
        PROVE  \/ regions'[i].page # regions'[j].page
               \/ regions'[i].end <= regions'[j].begin
    <3>1. i \in DOMAIN regions
          BY <1>2, <2>2
    <3>2. CASE j \in DOMAIN regions
          BY <1>2, <2>2, <3>1, <3>2 DEF CInv, RegionsApart
    <3>3. CASE j = Len(regions)+1
          BY <1>2, <1>3, <3>1, <3>3
    <3>. QED BY <1>2, <3>2, <3>3
  <2>. QED BY <2>1, <2>2 DEF RegionsApart
<1>. QED BY <1>4, <1>6, <1>7, <1>8 DEF CInv

\* The rest of the page suffices: it begins behind all that was cut off before.
LEMMA FromPageCInv == ASSUME CInv, NEW n \in Sizes, FromPage(n) PROVE CInv'
<1>1. /\ n \in Nat /\ n > 0 /\ cursor \in Nat /\ cursor + n <= PageSize
      /\ base \in 1..Pages /\ HandOut(n, base, cursor)
      /\ taken' \in taken..Pages /\ base <= taken'
      BY CursorAssumption DEF FromPage, Valid, CInv, CursorTypeOK
<1>2. \A i \in DOMAIN regions : regions[i].page = base => regions[i].end <= cursor
      BY DEF CInv, CursorIsBehind
<1>. QED BY <1>1, <1>2, HandOutCInv

\* A page of its own: nothing was cut off it.
LEMMA FromNewPageCInv == ASSUME CInv, NEW n \in Sizes, FromNewPage(n) PROVE CInv'
<1>1. /\ n \in Nat /\ n > 0 /\ n <= PageSize
      /\ taken + 1 \in 1..Pages /\ taken' \in taken..Pages /\ taken + 1 <= taken'
      BY CursorAssumption DEF FromNewPage, Valid, CInv, CursorTypeOK
<1>2. HandOut(n, taken + 1, 0)
      BY DEF FromNewPage, CInv, ReadyForPage
<1>3. \A i \in DOMAIN regions : regions[i].page = taken + 1 => regions[i].end <= 0
      BY DEF CInv, CursorTypeOK, RegionsApart
<1>. QED BY <1>1, <1>2, <1>3, HandOutCInv

\* A refused call forgets the page or nothing.
LEMMA RefuseCInv == ASSUME CInv, NEW n \in Sizes, Refuse(n) PROVE CInv'
<1>1. CursorTypeOK' /\ ReadyForPage'
      BY CursorAssumption DEF Refuse, CInv, CursorTypeOK, ReadyForPage
<1>2. CursorIsBehind' /\ RegionsApart'
      BY DEF Refuse, CInv, CursorTypeOK, CursorIsBehind, RegionsApart
<1>. QED BY <1>1, <1>2 DEF CInv

\* A page that others take is none that is cut up.
LEMMA ElsewhereCInv == ASSUME CInv, Elsewhere PROVE CInv'
<1>1. CursorTypeOK' /\ ReadyForPage'
      BY CursorAssumption DEF Elsewhere, CInv, CursorTypeOK, ReadyForPage
<1>2. \A i \in DOMAIN regions : regions[i].page \in Nat
      BY DEF CInv, CursorTypeOK, RegionsApart
<1>3. CursorIsBehind' /\ RegionsApart'
      BY <1>2 DEF Elsewhere, CInv, CursorTypeOK, CursorIsBehind, RegionsApart
<1>. QED BY <1>1, <1>3 DEF CInv

\* Every step keeps the invariant.
LEMMA NextCInv == CInv /\ [CNext]_cvars => CInv'
<1>1. CInv /\ UNCHANGED cvars => CInv'
      BY DEF CInv, CursorTypeOK, ReadyForPage, CursorIsBehind, RegionsApart, cvars
<1>. QED BY <1>1, FromPageCInv, FromNewPageCInv, RefuseCInv, ElsewhereCInv DEF CNext, pt_salloc

\* The inductive invariant of pt_salloc.
THEOREM CursorInvariant == CSpec => []CInv
BY InitCInv, NextCInv, PTL DEF CSpec

\* No byte is handed out twice, and every region is in one page.
THEOREM NothingTwice == CSpec => []RegionsApart
<1>1. CInv => RegionsApart
      BY DEF CInv
<1>. QED BY CursorInvariant, <1>1, PTL

-----------------------------------------------------------------------------
(***************************************************************************)
(* FreeList: how the fields make up lists.                                  *)
(***************************************************************************)
\* The pointer to the i-th block of s; behind the last one it is NULL.
At(h, s, i) == IF i \in DOMAIN s THEN <<h, s[i]>> ELSE NULL

\* From the pointer p on the fields nx link the blocks of s, in this order.
Linked(nx, p, s, h) ==
    /\ p = At(h, s, 1)
    /\ \A i \in DOMAIN s : nx[s[i]] = At(h, s, i + 1)

\* No block is twice in the lists S, in one or in two of them.
Apart(S) ==
    \A o, q \in Orders : \A i \in DOMAIN S[o], j \in DOMAIN S[q] :
        S[o][i] = S[q][j] => o = q /\ i = j

\* The lists S are what the heads hd and the fields nx make up.
AreLists(hd, nx, S, h) ==
    /\ S \in [Orders -> Seq(Block)]
    /\ \A o \in Orders : Linked(nx, hd[o], S[o], h)
    /\ Apart(S)

\* The lists, as the code would find them.
Free == [o \in Orders |-> Chain(head[o])]

\* The local variables of buddy_remove while it walks: tail is at some block j, and
\* prev tells whether the block to be removed was met before.
WalkRight ==
    pc = "walk" =>
        /\ arg \in Block \X Orders
        /\ LET s == Free[arg[2]]
               b == arg[1]
           IN  \E j \in DOMAIN s :
                  /\ tail = <<half, s[j]>>
                  /\ \/ prev = NULL /\ \A k \in 1..j : s[k] # b
                     \/ \E m \in 2..j : s[m] = b /\ prev = <<half, s[m - 1]>>

\* Every pointer that is stored points into the half the code runs in, or is about
\* to jump to.
PointersRight ==
    /\ head \in [Orders -> {NULL} \cup ({PtrHalf} \X Block)]
    /\ next \in [Block -> {NULL} \cup ({PtrHalf} \X Block)]
    /\ {tail, prev} \subseteq {NULL} \cup ({PtrHalf} \X Block)
    /\ ret \in [call : Calls, value : Pointer]
    /\ refcnt \in [Block -> Nat]
    /\ half \in {0, 1} /\ pc \in {"idle", "walk", "moving"}
    /\ pc = "moving" => half = 0
    /\ pc # "walk" => tail = NULL /\ prev = NULL

\* The inductive invariant.
FInv ==
    /\ PointersRight
    /\ AreLists(head, next, Free, PtrHalf)
    /\ WalkRight

\* A pointer to a block is not NULL.
LEMMA NotNull == \A h, b : <<h, b>> # NULL
BY DEF NULL

Less == {ss \in Nat \X Nat : ss[1] < ss[2]}

\* There is no infinite descent in the natural numbers.
LEMMA NoDescent == IsWellFoundedOn(Less, Nat)
BY NatLessThanWellFounded DEF Less, OpToRel

\* A set of natural numbers that is not empty has a least member.
LEMMA HasLeast ==
    ASSUME NEW T, T \subseteq Nat, T # {}
    PROVE  \E m \in T : \A k \in T : m <= k
<1>1. \E m \in T : \A k \in T : ~(<<k, m>> \in Less)
      BY NoDescent, WFMin
<1>2. PICK m \in T : \A k \in T : ~(<<k, m>> \in Less)
      BY <1>1
<1>3. ASSUME NEW k \in T PROVE m <= k
  <2>1. ~(k < m) /\ k \in Nat /\ m \in Nat
        BY <1>2 DEF Less
  <2>. QED BY <2>1
<1>. QED BY <1>3

\* The first n numbers are n.
LEMMA Counted == ASSUME NEW n \in Nat PROVE Cardinality(1..n) = n
<1>1. 1 \in Int /\ n \in Int
      OBVIOUS
<1>2. Cardinality(1..n) = IF 1 > n THEN 0 ELSE n - 1 + 1
      BY ONLY <1>1, FS_Interval
<1>. QED BY <1>2

\* A list without repetition is no longer than there are blocks.
LEMMA NotLonger ==
    ASSUME NEW s \in Seq(Block), \A i, j \in DOMAIN s : s[i] = s[j] => i = j
    PROVE  Cardinality(Block) \in Nat /\ Len(s) <= Cardinality(Block)
<1>1. Cardinality(Block) \in Nat /\ IsFiniteSet(Block)
      BY FreeListAssumption, FS_CardinalityType
<1>2. s \in Injection(1..Len(s), Block)
      BY DEF Injection, IsInjective
<1>3. Cardinality(1..Len(s)) <= Cardinality(Block)
      BY <1>1, <1>2, FS_Injection
<1>4. Cardinality(1..Len(s)) = Len(s)
      BY Counted
<1>. QED BY <1>1, <1>3, <1>4

\* The recursion in Chain, unrolled once, and what it defines.
Unrolled(p, f) ==
    [k \in 1..Cardinality(Block)+1 |->
        IF k = 1 THEN p ELSE IF f[k-1] = NULL THEN NULL ELSE next[f[k-1][2]]]

Pointers(p) == CHOOSE f : f = Unrolled(p, f)

\* Chain counts the pointers until NULL, and takes the blocks they point to.
LEMMA ChainUnrolled ==
    ASSUME NEW p
    PROVE  Chain(p) =
             [k \in 1..Cardinality({k \in 1..Cardinality(Block)+1 : Pointers(p)[k] # NULL})
                |-> Deref(Pointers(p)[k])]
BY DEF Chain, Pointers, Unrolled

\* What is linked is found: the recursion has one solution, the pointers to the
\* blocks followed by NULL.
LEMMA ChainIs ==
    ASSUME NEW p, NEW s \in Seq(Block), NEW h, h = PtrHalf, Linked(next, p, s, h),
           \A i, j \in DOMAIN s : s[i] = s[j] => i = j
    PROVE  Chain(p) = s
<1>. DEFINE N == Cardinality(Block) + 1
            g == [k \in 1..N |-> At(h, s, k)]
<1>1. N \in Nat /\ Len(s) \in Nat /\ Len(s) < N /\ DOMAIN s = 1..Len(s)
      BY NotLonger
<1>2. g = Unrolled(p, g)
  <2>1. ASSUME NEW k \in 1..N
        PROVE  At(h, s, k) = IF k = 1 THEN p ELSE IF g[k-1] = NULL THEN NULL ELSE next[g[k-1][2]]
    <3>1. CASE k = 1
          BY <3>1 DEF Linked
    <3>2. CASE k # 1 /\ k - 1 \in DOMAIN s
      <4>1. g[k-1] = <<h, s[k-1]>>
            BY <1>1, <3>2 DEF At
      <4>. HIDE DEF g
      <4>2. g[k-1] # NULL /\ g[k-1][2] = s[k-1]
            BY ONLY <4>1, NotNull
      <4>3. next[s[k-1]] = At(h, s, (k-1)+1)
            BY <3>2 DEF Linked
      <4>4. (k-1)+1 = k
            OBVIOUS
      <4>. QED BY <3>2, <4>2, <4>3, <4>4
    <3>3. CASE k # 1 /\ k - 1 \notin DOMAIN s
          BY <1>1, <3>3 DEF At
    <3>. QED BY <3>1, <3>2, <3>3
  <2>. QED BY <2>1 DEF Unrolled
<1>3. ASSUME NEW f, f = Unrolled(p, f) PROVE f = g
  <2>. DEFINE D == {k \in 1..N : f[k] # g[k]}
  <2>1. DOMAIN f = 1..N /\ DOMAIN g = 1..N /\ f = [k \in 1..N |-> f[k]] /\ g = [k \in 1..N |-> g[k]]
        BY <1>3 DEF Unrolled
  <2>2. ASSUME D # {} PROVE FALSE
    <3>. D \subseteq Nat
         BY <1>1
    <3>. HIDE DEF D
    <3>1. PICK m \in D : \A k \in D : m <= k
          BY <2>2, HasLeast
    <3>2. m \in 1..N /\ f[m] # g[m]
          BY DEF D
    <3>3. f[m] = Unrolled(p, f)[m] /\ g[m] = Unrolled(p, g)[m]
          BY <1>2, <1>3
    <3>4. m # 1
          BY <3>2, <3>3 DEF Unrolled
    <3>5. m - 1 \in 1..N /\ ~(m <= m - 1)
          BY <1>1, <3>2, <3>4
    <3>6. f[m-1] = g[m-1]
          BY <3>1, <3>5 DEF D
    <3>. HIDE DEF g
    <3>. QED BY <3>2, <3>3, <3>4, <3>6 DEF Unrolled
  <2>3. \A k \in 1..N : f[k] = g[k]
        BY <2>2
  <2>. HIDE DEF g, D, N
  <2>. QED BY <2>1, <2>3
<1>4. Pointers(p) = g
      BY <1>2, <1>3 DEF Pointers
<1>5. \A k \in 1..N : g[k] = At(h, s, k)
      OBVIOUS
<1>6. {k \in 1..N : g[k] # NULL} = 1..Len(s)
      BY <1>1, <1>5, NotNull DEF At
<1>7. Cardinality(1..Len(s)) = Len(s)
      BY <1>1, Counted
<1>8. \A k \in 1..Len(s) : Deref(g[k]) = s[k]
      BY <1>1, <1>5 DEF At, Deref
<1>. HIDE DEF g
<1>9. Chain(p) = [k \in 1..Cardinality({k \in 1..N : g[k] # NULL}) |-> Deref(g[k])]
      BY <1>4, ChainUnrolled
<1>. HIDE DEF N
<1>10. Chain(p) = [k \in 1..Len(s) |-> Deref(g[k])]
      BY <1>6, <1>7, <1>9
<1>. QED BY <1>8, <1>10

\* The lists that head and next make up are those Chain finds.
ListsFound ==
    \A S : AreLists(head, next, S, PtrHalf) => Free = S

\* Since the lists are apart, none of them is longer than the recursion goes.
LEMMA Found == ListsFound
<1>. SUFFICES ASSUME NEW S, NEW h, h = PtrHalf, AreLists(head, next, S, h) PROVE Free = S
     BY DEF ListsFound
<1>1. ASSUME NEW o \in Orders PROVE Chain(head[o]) = S[o]
  <2>1. S[o] \in Seq(Block) /\ Linked(next, head[o], S[o], h)
        BY DEF AreLists
  <2>2. \A i, j \in DOMAIN S[o] : S[o][i] = S[o][j] => i = j
        BY DEF AreLists, Apart
  <2>. QED BY <2>1, <2>2, ChainIs
<1>2. S = [o \in Orders |-> S[o]]
      BY DEF AreLists
<1>. QED BY <1>1, <1>2 DEF Free

\* The same after a step.
LEMMA FoundNext == ListsFound'
BY Found, PTL

-----------------------------------------------------------------------------
(***************************************************************************)
(* What the calls do to the lists.                                          *)
(***************************************************************************)
\* buddy_push puts a block that is on no list in front of list o.
LEMMA PushLists ==
    ASSUME NEW P, NEW hd \in [Orders -> P], NEW nx \in [Block -> P], NEW S, NEW h,
           AreLists(hd, nx, S, h), NEW o \in Orders, NEW b \in Block,
           \A q \in Orders : \A i \in DOMAIN S[q] : S[q][i] # b
    PROVE  AreLists([hd EXCEPT ![o] = <<h, b>>], [nx EXCEPT ![b] = hd[o]],
                    [S EXCEPT ![o] = <<b>> \o @], h)
<1>. DEFINE s == S[o]
            t == <<b>> \o s
            T == [S EXCEPT ![o] = <<b>> \o @]
            hd2 == [hd EXCEPT ![o] = <<h, b>>]
            nx2 == [nx EXCEPT ![b] = hd[o]]
<1>1. S \in [Orders -> Seq(Block)] /\ s \in Seq(Block) /\ Len(s) \in Nat /\ DOMAIN s = 1..Len(s)
      BY DEF AreLists
<1>2. /\ t \in Seq(Block) /\ Len(t) = Len(s) + 1 /\ t[1] = b
      /\ DOMAIN t = 1..Len(s) + 1
      /\ \A k \in 1..Len(s) : t[k + 1] = s[k]
      BY <1>1
<1>3. T \in [Orders -> Seq(Block)] /\ T[o] = t /\ \A q \in Orders : q # o => T[q] = S[q]
      BY <1>1, <1>2
<1>4. /\ hd2[o] = <<h, b>> /\ \A q \in Orders : q # o => hd2[q] = hd[q]
      /\ nx2[b] = hd[o] /\ \A c \in Block : c # b => nx2[c] = nx[c]
      OBVIOUS
<1>5. ASSUME NEW q \in Orders PROVE Linked(nx, hd[q], S[q], h) /\ S[q] \in Seq(Block)
      BY DEF AreLists
<1>. HIDE DEF t, T, hd2, nx2
<1>6. ASSUME NEW q \in Orders, q # o PROVE Linked(nx2, hd2[q], T[q], h)
  <2>1. \A i \in DOMAIN S[q] : S[q][i] \in Block /\ S[q][i] # b
        BY <1>5
  <2>2. T[q] = S[q] /\ hd2[q] = hd[q]
        BY <1>3, <1>4, <1>6
  <2>3. \A i \in DOMAIN S[q] : nx2[S[q][i]] = nx[S[q][i]]
        BY <1>4, <2>1
  <2>. QED BY <1>5, <2>2, <2>3 DEF Linked
<1>7. Linked(nx2, hd2[o], t, h)
  <2>1. ASSUME NEW k \in 1..Len(s)+1 PROVE At(h, t, k + 1) = At(h, s, k)
    <3>1. k + 1 \in DOMAIN t <=> k \in DOMAIN s
          BY <1>1, <1>2
    <3>. QED BY <1>1, <1>2, <3>1 DEF At
  <2>2. hd2[o] = At(h, t, 1)
        BY <1>1, <1>2, <1>4 DEF At
  <2>3. ASSUME NEW i \in DOMAIN t PROVE nx2[t[i]] = At(h, t, i + 1)
    <3>1. CASE i = 1
      <4>1. nx2[t[i]] = At(h, s, 1)
            BY <1>2, <1>4, <1>5, <3>1 DEF Linked
      <4>. QED BY <1>1, <2>1, <3>1, <4>1
    <3>2. CASE i # 1
      <4>1. i - 1 \in 1..Len(s) /\ (i - 1) + 1 = i /\ i \in 1..Len(s)+1
            BY <1>1, <1>2, <3>2
      <4>2. t[i] = s[i - 1] /\ s[i - 1] # b /\ s[i - 1] \in Block
            BY <1>1, <1>2, <4>1
      <4>3. nx[s[i - 1]] = At(h, s, i)
            BY <1>1, <1>5, <4>1 DEF Linked
      <4>. QED BY <1>4, <2>1, <4>1, <4>2, <4>3
    <3>. QED BY <3>1, <3>2
  <2>. QED BY <2>2, <2>3 DEF Linked
<1>8. Apart(T)
  <2>. SUFFICES ASSUME NEW q \in Orders, NEW r \in Orders,
                       NEW i \in DOMAIN T[q], NEW j \in DOMAIN T[r], T[q][i] = T[r][j]
                PROVE  q = r /\ i = j
       BY DEF Apart
  <2>1. ASSUME NEW x \in Orders, NEW k \in DOMAIN T[x]
        PROVE  \/ T[x][k] = b /\ x = o /\ k = 1
               \/ x # o /\ k \in DOMAIN S[x] /\ T[x][k] = S[x][k] /\ S[x][k] # b
               \/ x = o /\ k - 1 \in DOMAIN S[o] /\ T[o][k] = S[o][k - 1] /\ S[o][k - 1] # b /\ k \in Int
    <3>1. CASE x # o
          BY <1>3, <3>1
    <3>2. CASE x = o /\ k = 1
          BY <1>2, <1>3, <3>2
    <3>3. CASE x = o /\ k # 1
      <4>1. k - 1 \in 1..Len(s) /\ (k - 1) + 1 = k
            BY <1>1, <1>2, <1>3, <3>3
      <4>. QED BY <1>1, <1>2, <1>3, <3>3, <4>1
    <3>. QED BY <3>1, <3>2, <3>3
  <2>2. \A x, y \in Orders : \A k \in DOMAIN S[x], m \in DOMAIN S[y] : S[x][k] = S[y][m] => x = y /\ k = m
        BY DEF AreLists, Apart
  <2>3. CASE T[q][i] = b
    <3>1. ASSUME NEW x \in Orders, NEW k \in DOMAIN T[x], T[x][k] = b PROVE x = o /\ k = 1
          BY <2>1, <3>1
    <3>2. q = o /\ i = 1
          BY <2>3, <3>1
    <3>3. r = o /\ j = 1
          BY <2>3, <3>1
    <3>. QED BY <3>2, <3>3
  <2>4. CASE T[q][i] # b
        BY <2>1, <2>2, <2>4
  <2>. QED BY <2>3, <2>4
<1>9. AreLists(hd2, nx2, T, h)
      BY <1>3, <1>6, <1>7, <1>8 DEF AreLists
<1>. QED BY <1>9 DEF hd2, nx2, T

\* The lists when the first block of list o is gone.
PoppedLists(hd, nx, S, h, o) ==
    AreLists([hd EXCEPT ![o] = nx[S[o][1]]], [nx EXCEPT ![S[o][1]] = NULL],
             [S EXCEPT ![o] = Tail(@)], h)

\* buddy_pop takes the first block off.
LEMMA PopLists ==
    ASSUME NEW P, NEW hd \in [Orders -> P], NEW nx \in [Block -> P], NEW S, NEW h,
           AreLists(hd, nx, S, h), NEW o \in Orders, 1 \in DOMAIN S[o]
    PROVE  PoppedLists(hd, nx, S, h, o)
<1>. DEFINE s == S[o]
            t == Tail(s)
            b == s[1]
            T == [S EXCEPT ![o] = Tail(@)]
            hd2 == [hd EXCEPT ![o] = nx[b]]
            nx2 == [nx EXCEPT ![b] = NULL]
<1>1. /\ S \in [Orders -> Seq(Block)] /\ s \in Seq(Block) /\ Len(s) \in Nat /\ DOMAIN s = 1..Len(s)
      /\ 1 \in DOMAIN s /\ b \in Block
      BY DEF AreLists
<1>2. /\ t \in Seq(Block) /\ Len(t) = Len(s) - 1
      /\ DOMAIN t = 1..Len(s) - 1
      /\ \A k \in 1..Len(s) - 1 : t[k] = s[k + 1]
      BY <1>1
<1>3. T \in [Orders -> Seq(Block)] /\ T[o] = t /\ \A q \in Orders : q # o => T[q] = S[q]
      BY <1>1, <1>2
<1>4. /\ hd2[o] = nx[b] /\ \A q \in Orders : q # o => hd2[q] = hd[q]
      /\ \A c \in Block : c # b => nx2[c] = nx[c]
      BY <1>1
<1>5. ASSUME NEW q \in Orders PROVE Linked(nx, hd[q], S[q], h) /\ S[q] \in Seq(Block)
      BY DEF AreLists
<1>6. \A x, y \in Orders : \A k \in DOMAIN S[x], m \in DOMAIN S[y] : S[x][k] = S[y][m] => x = y /\ k = m
      BY DEF AreLists, Apart
<1>. HIDE DEF t, T, hd2, nx2
<1>7. ASSUME NEW q \in Orders, q # o PROVE Linked(nx2, hd2[q], T[q], h)
  <2>1. \A i \in DOMAIN S[q] : S[q][i] \in Block /\ S[q][i] # b
        BY <1>1, <1>5, <1>6, <1>7
  <2>2. T[q] = S[q] /\ hd2[q] = hd[q]
        BY <1>3, <1>4, <1>7
  <2>3. \A i \in DOMAIN S[q] : nx2[S[q][i]] = nx[S[q][i]]
        BY <1>4, <2>1
  <2>. QED BY <1>5, <2>2, <2>3 DEF Linked
<1>8. Linked(nx2, hd2[o], t, h)
  <2>1. ASSUME NEW k \in 1..Len(s) PROVE At(h, t, k) = At(h, s, k + 1)
    <3>1. k \in DOMAIN t <=> k + 1 \in DOMAIN s
          BY <1>1, <1>2
    <3>. QED BY <1>1, <1>2, <3>1 DEF At
  <2>2. hd2[o] = At(h, t, 1)
    <3>1. nx[b] = At(h, s, 1 + 1)
          BY <1>1, <1>5 DEF Linked
    <3>. QED BY <1>1, <1>4, <2>1, <3>1
  <2>3. ASSUME NEW i \in DOMAIN t PROVE nx2[t[i]] = At(h, t, i + 1)
    <3>1. i + 1 \in 1..Len(s) /\ i + 1 # 1 /\ t[i] = s[i + 1]
          BY <1>1, <1>2
    <3>2. s[i + 1] # b /\ s[i + 1] \in Block
          BY <1>1, <1>6, <3>1
    <3>3. nx[s[i + 1]] = At(h, s, (i + 1) + 1)
          BY <1>1, <1>5, <3>1 DEF Linked
    <3>. QED BY <1>4, <2>1, <3>1, <3>2, <3>3
  <2>. QED BY <2>2, <2>3 DEF Linked
<1>9. Apart(T)
  <2>1. ASSUME NEW x \in Orders, NEW k \in DOMAIN T[x]
        PROVE  \/ x # o /\ k \in DOMAIN S[x] /\ T[x][k] = S[x][k]
               \/ x = o /\ k + 1 \in DOMAIN S[o] /\ T[o][k] = S[o][k + 1] /\ k \in Int
        BY <1>1, <1>2, <1>3
  <2>. QED BY <1>6, <2>1 DEF Apart
<1>10. AreLists(hd2, nx2, T, h)
      BY <1>3, <1>7, <1>8, <1>9 DEF AreLists
<1>. QED BY <1>10 DEF hd2, nx2, T, PoppedLists

\* Two sequences are the same if they are at every index.
LEMMA SameSequence ==
    ASSUME NEW s \in Seq(Block), NEW t \in Seq(Block), Len(s) = Len(t),
           \A k \in 1..Len(s) : s[k] = t[k]
    PROVE  s = t
OBVIOUS

\* The list s from its i-th block on, and then what was in front of it.
Turned(s, i) == SubSeq(s, i, Len(s)) \o SubSeq(s, 1, i - 1)

\* A turned list index by index; without its head the first block is gone.
LEMMA TurnedIs ==
    ASSUME NEW s \in Seq(Block), NEW i \in 1..Len(s)
    PROVE  /\ Turned(s, i) \in Seq(Block) /\ Len(Turned(s, i)) = Len(s)
           /\ \A k \in 1..Len(s) :
                 Turned(s, i)[k] = IF k + i - 1 <= Len(s) THEN s[k + i - 1] ELSE s[k + i - 1 - Len(s)]
           /\ Tail(Turned(s, i)) = SubSeq(s, i + 1, Len(s)) \o SubSeq(s, 1, i - 1)
<1>. DEFINE n == Len(s)
            u == SubSeq(s, i, n)
            v == SubSeq(s, 1, i - 1)
            w == SubSeq(s, i + 1, n)
<1>1. n \in Nat /\ i \in Nat /\ i \in 1..n
      OBVIOUS
<1>2. /\ u \in Seq(Block) /\ Len(u) = n - i + 1 /\ \A k \in 1..n-i+1 : u[k] = s[i+k-1]
      /\ v \in Seq(Block) /\ Len(v) = i - 1 /\ \A k \in 1..i-1 : v[k] = s[k]
      /\ w \in Seq(Block) /\ Len(w) = n - i /\ \A k \in 1..n-i : w[k] = s[i+k]
  <2>1. i \in 1..n+1 /\ n \in i-1..n /\ 1 \in 1..n+1 /\ i-1 \in 0..n /\ i+1 \in 1..n+1 /\ n \in i..n
        BY <1>1
  <2>. QED BY <1>1, <2>1, SubSeqProperties
<1>. HIDE DEF u, v, w
<1>3. /\ u \o v \in Seq(Block) /\ Len(u \o v) = n
      /\ \A k \in 1..n : (u \o v)[k] = IF k <= n-i+1 THEN u[k] ELSE v[k - (n-i+1)]
  <2>1. u \in Seq(Block) /\ v \in Seq(Block)
        BY <1>2
  <2>2. /\ u \o v \in Seq(Block) /\ Len(u \o v) = Len(u) + Len(v)
        /\ \A k \in 1..Len(u) + Len(v) : (u \o v)[k] = IF k <= Len(u) THEN u[k] ELSE v[k - Len(u)]
        BY ONLY <2>1, ConcatProperties
  <2>3. Len(u) = n-i+1 /\ Len(u) + Len(v) = n
        BY <1>1, <1>2
  <2>4. u \o v \in Seq(Block) /\ Len(u \o v) = n
        BY <2>2, <2>3
  <2>5. ASSUME NEW k \in 1..n
        PROVE  (u \o v)[k] = IF k <= n-i+1 THEN u[k] ELSE v[k - (n-i+1)]
        BY <2>2, <2>3
  <2>. QED BY <2>4, <2>5
<1>4. /\ w \o v \in Seq(Block) /\ Len(w \o v) = n - 1
      /\ \A k \in 1..n-1 : (w \o v)[k] = IF k <= n-i THEN w[k] ELSE v[k - (n-i)]
  <2>1. w \in Seq(Block) /\ v \in Seq(Block)
        BY <1>2
  <2>2. /\ w \o v \in Seq(Block) /\ Len(w \o v) = Len(w) + Len(v)
        /\ \A k \in 1..Len(w) + Len(v) : (w \o v)[k] = IF k <= Len(w) THEN w[k] ELSE v[k - Len(w)]
        BY ONLY <2>1, ConcatProperties
  <2>3. Len(w) = n-i /\ Len(w) + Len(v) = n-1
        BY <1>1, <1>2
  <2>4. w \o v \in Seq(Block) /\ Len(w \o v) = n-1
        BY <2>2, <2>3
  <2>5. ASSUME NEW k \in 1..n-1
        PROVE  (w \o v)[k] = IF k <= n-i THEN w[k] ELSE v[k - (n-i)]
        BY <2>2, <2>3
  <2>. QED BY <2>4, <2>5
<1>5. ASSUME NEW k \in 1..n
      PROVE  (u \o v)[k] = IF k + i - 1 <= n THEN s[k + i - 1] ELSE s[k + i - 1 - n]
  <2>1. CASE k + i - 1 <= n
    <3>1. k \in 1..n-i+1 /\ k <= n-i+1 /\ i+k-1 = k+i-1
          BY <1>1, <2>1
    <3>. QED BY <1>2, <1>3, <2>1, <3>1
  <2>2. CASE ~(k + i - 1 <= n)
    <3>1. ~(k <= n-i+1) /\ k - (n-i+1) \in 1..i-1 /\ k - (n-i+1) = k + i - 1 - n
          BY <1>1, <2>2
    <3>. QED BY <1>2, <1>3, <2>2, <3>1
  <2>. QED BY <2>1, <2>2
<1>6. Tail(u \o v) = w \o v
  <2>1. /\ Tail(u \o v) \in Seq(Block) /\ Len(Tail(u \o v)) = n - 1
        /\ \A k \in 1..n-1 : Tail(u \o v)[k] = (u \o v)[k+1]
    <3>1. u \o v # << >> /\ n \in Nat
          BY <1>1, <1>3
    <3>. QED BY <1>3, <3>1, HeadTailProperties
  <2>2. ASSUME NEW k \in 1..n-1 PROVE Tail(u \o v)[k] = (w \o v)[k]
    <3>1. k + 1 \in 1..n /\ k \in Nat
          BY <1>1
    <3>2. CASE k <= n-i
      <4>1. k \in 1..n-i /\ k+1 \in 1..n-i+1 /\ k+1 <= n-i+1 /\ i+(k+1)-1 = i+k
            BY <1>1, <3>1, <3>2
      <4>2. (u \o v)[k+1] = u[k+1] /\ (w \o v)[k] = w[k]
            BY <1>3, <1>4, <3>1, <3>2, <4>1
      <4>3. u[k+1] = s[i+k] /\ w[k] = s[i+k]
            BY <1>2, <4>1
      <4>. QED BY <2>1, <4>2, <4>3
    <3>3. CASE ~(k <= n-i)
      <4>1. ~(k+1 <= n-i+1) /\ k+1 - (n-i+1) = k - (n-i)
            BY <1>1, <3>1, <3>3
      <4>2. (u \o v)[k+1] = v[k+1 - (n-i+1)]
            BY <1>3, <3>1, <4>1
      <4>3. (w \o v)[k] = v[k - (n-i)]
            BY <1>4, <3>3
      <4>. QED BY <2>1, <4>1, <4>2, <4>3
    <3>. QED BY <3>2, <3>3
  <2>. QED BY <1>4, <2>1, <2>2, SameSequence
<1>7. Turned(s, i) = u \o v
      BY DEF Turned, u, v
<1>. QED BY <1>3, <1>5, <1>6, <1>7 DEF w, v

\* Where in a list of n blocks the k-th one was before it was turned.
Place(n, i, k) == IF k + i - 1 <= n THEN k + i - 1 ELSE k + i - 1 - n

PlaceRight(n, i, k) ==
    /\ Place(n, i, k) \in 1..n
    /\ Place(n, i, 1) = i
    /\ Place(n, i, k) = n => k + 1 \in 1..n /\ Place(n, i, k + 1) = 1
    /\ Place(n, i, k) = i - 1 => k = n
    /\ Place(n, i, k) \notin {n, i - 1} =>
          k + 1 \in 1..n /\ Place(n, i, k + 1) = Place(n, i, k) + 1

\* Turning a list moves every block, to places of their own.
LEMMA Places ==
    ASSUME NEW n \in Nat, NEW i \in 2..n, NEW k \in 1..n
    PROVE  /\ PlaceRight(n, i, k)
           /\ \A m \in 1..n : Place(n, i, k) = Place(n, i, m) => k = m
<1>1. n \in Nat /\ i \in Nat /\ k \in Nat /\ 2 <= i /\ i <= n /\ 1 <= k /\ k <= n
      OBVIOUS
<1>2. ASSUME NEW m \in 1..n, Place(n, i, k) = Place(n, i, m) PROVE k = m
      BY <1>1, <1>2 DEF Place
<1>. QED BY <1>1, <1>2 DEF Place, PlaceRight

\* The list o is turned so that it begins with its i-th block.
TurnedLists(hd, nx, S, h, o, i) ==
    AreLists([hd EXCEPT ![o] = <<h, S[o][i]>>],
             [[nx EXCEPT ![S[o][i - 1]] = NULL] EXCEPT ![S[o][Len(S[o])]] = hd[o]],
             [S EXCEPT ![o] = Turned(@, i)], h)

\* The two writes of Rotate turn a list.
LEMMA TurnLists ==
    ASSUME NEW P, NEW hd \in [Orders -> P], NEW nx \in [Block -> P], NEW S, NEW h,
           AreLists(hd, nx, S, h), NEW o \in Orders, NEW i \in 2..Len(S[o])
    PROVE  TurnedLists(hd, nx, S, h, o, i)
<1>. DEFINE s == S[o]
            n == Len(s)
            t == Turned(s, i)
            T == [S EXCEPT ![o] = Turned(@, i)]
            hd2 == [hd EXCEPT ![o] = <<h, s[i]>>]
            nx2 == [[nx EXCEPT ![s[i - 1]] = NULL] EXCEPT ![s[n]] = hd[o]]
<1>1. /\ S \in [Orders -> Seq(Block)] /\ s \in Seq(Block) /\ DOMAIN s = 1..n
      /\ n \in Nat /\ i \in Nat /\ 2 <= i /\ i <= n
      BY DEF AreLists
<1>2. /\ t \in Seq(Block) /\ Len(t) = n
      /\ \A k \in 1..n : t[k] = s[Place(n, i, k)]
  <2>1. i \in 1..Len(s)
        BY <1>1
  <2>. QED BY <1>1, <2>1, TurnedIs DEF Place
<1>3. ASSUME NEW k \in 1..n PROVE PlaceRight(n, i, k)
      BY <1>1, Places
<1>4. T \in [Orders -> Seq(Block)] /\ T[o] = t /\ \A q \in Orders : q # o => T[q] = S[q]
      BY <1>1, <1>2
<1>5. ASSUME NEW q \in Orders PROVE Linked(nx, hd[q], S[q], h) /\ S[q] \in Seq(Block)
      BY DEF AreLists
<1>6. \A x, y \in Orders : \A k \in DOMAIN S[x], m \in DOMAIN S[y] : S[x][k] = S[y][m] => x = y /\ k = m
      BY DEF AreLists, Apart
<1>7. /\ s[i - 1] \in Block /\ s[n] \in Block /\ i - 1 \in 1..n /\ n \in 1..n /\ i - 1 # n
      /\ \A k, m \in 1..n : s[k] = s[m] => k = m
  <2>1. s[i - 1] \in Block /\ s[n] \in Block /\ i - 1 \in 1..n /\ n \in 1..n /\ i - 1 # n
        BY <1>1
  <2>2. \A k, m \in 1..n : s[k] = s[m] => k = m
        BY <1>1, <1>6
  <2>. QED BY <2>1, <2>2
<1>8. /\ hd2[o] = <<h, s[i]>> /\ \A q \in Orders : q # o => hd2[q] = hd[q]
      /\ nx2[s[n]] = hd[o]
      /\ \A c \in Block : c # s[n] => nx2[c] = IF c = s[i - 1] THEN NULL ELSE nx[c]
      BY <1>7
<1>. HIDE DEF t, T, hd2, nx2
<1>9. ASSUME NEW q \in Orders, q # o PROVE Linked(nx2, hd2[q], T[q], h)
  <2>1. \A k \in DOMAIN S[q] : S[q][k] \in Block /\ S[q][k] # s[n] /\ S[q][k] # s[i - 1]
        BY <1>1, <1>5, <1>6, <1>7, <1>9
  <2>2. T[q] = S[q] /\ hd2[q] = hd[q]
        BY <1>4, <1>8, <1>9
  <2>3. \A k \in DOMAIN S[q] : nx2[S[q][k]] = nx[S[q][k]]
        BY <1>8, <2>1
  <2>. QED BY <1>5, <2>2, <2>3 DEF Linked
<1>10. DOMAIN t = 1..n
      BY <1>2
<1>11. Linked(nx2, hd2[o], t, h)
  <2>1. hd2[o] = At(h, t, 1)
    <3>1. 1 \in 1..n
          BY <1>1
    <3>2. Place(n, i, 1) = i
          BY <1>3, <3>1 DEF PlaceRight
    <3>. QED BY <1>2, <1>8, <1>10, <3>1, <3>2 DEF At
  <2>2. ASSUME NEW k \in 1..n PROVE nx2[t[k]] = At(h, t, k + 1)
    <3>1. PICK m \in 1..n : m = Place(n, i, k)
          BY <1>3 DEF PlaceRight
    <3>2. t[k] = s[m] /\ s[m] \in Block
          BY <1>1, <1>2, <3>1
    <3>3. m \in Int /\ k \in Int /\ 1 <= k /\ k <= n /\ k + 1 \in Int
          BY <1>1
    <3>4. CASE m = n
      <4>1. Place(n, i, k + 1) = 1 /\ k + 1 \in 1..n
            BY <1>3, <3>1, <3>4 DEF PlaceRight
      <4>2. nx2[t[k]] = hd[o]
            BY <1>8, <3>2, <3>4
      <4>3. hd[o] = <<h, s[1]>>
            BY <1>1, <1>5 DEF Linked, At
      <4>. QED BY <1>2, <1>10, <4>1, <4>2, <4>3 DEF At
    <3>5. CASE m = i - 1
      <4>1. k = n
            BY <1>3, <3>1, <3>5 DEF PlaceRight
      <4>2. s[m] # s[n]
            BY <1>7, <3>5
      <4>3. nx2[t[k]] = NULL
            BY <1>8, <3>2, <3>5, <4>2
      <4>4. k + 1 \notin DOMAIN t
            BY <1>1, <1>10, <4>1
      <4>. QED BY <4>3, <4>4 DEF At
    <3>6. CASE m # n /\ m # i - 1
      <4>1. k + 1 \in 1..n /\ Place(n, i, k + 1) = m + 1 /\ m + 1 \in 1..n
        <5>1. k + 1 \in 1..n /\ Place(n, i, k + 1) = m + 1
              BY <1>3, <3>1, <3>6 DEF PlaceRight
        <5>. QED BY <1>3, <5>1 DEF PlaceRight
      <4>2. s[m] # s[n] /\ s[m] # s[i - 1]
            BY <1>7, <3>1, <3>6
      <4>3. nx2[t[k]] = nx[s[m]]
            BY <1>8, <3>2, <4>2
      <4>4. nx[s[m]] = <<h, s[m + 1]>>
            BY <1>1, <1>5, <4>1 DEF Linked, At
      <4>5. t[k + 1] = s[m + 1]
            BY <1>2, <4>1
      <4>. QED BY <1>10, <4>1, <4>3, <4>4, <4>5 DEF At
    <3>. QED BY <3>4, <3>5, <3>6
  <2>. QED BY <1>10, <2>1, <2>2 DEF Linked
<1>12. Apart(T)
  <2>1. ASSUME NEW k \in 1..n, NEW m \in 1..n, Place(n, i, k) = Place(n, i, m) PROVE k = m
        BY <1>1, <2>1, Places
  <2>2. ASSUME NEW x \in Orders, NEW k \in DOMAIN T[x]
        PROVE  \/ x # o /\ k \in DOMAIN S[x] /\ T[x][k] = S[x][k]
               \/ x = o /\ k \in 1..n /\ Place(n, i, k) \in DOMAIN S[o] /\ T[o][k] = S[o][Place(n, i, k)]
    <3>1. \A m \in 1..n : Place(n, i, m) \in 1..n
          BY <1>3 DEF PlaceRight
    <3>. QED BY <1>1, <1>2, <1>4, <1>10, <3>1
  <2>3. ASSUME NEW x \in Orders, NEW y \in Orders, NEW k \in DOMAIN T[x], NEW m \in DOMAIN T[y],
               T[x][k] = T[y][m]
        PROVE  x = y /\ k = m
    <3>1. CASE x # o
          BY <1>6, <2>2, <2>3, <3>1
    <3>2. CASE x = o
      <4>1. y = o
            BY <1>6, <2>2, <2>3, <3>2
      <4>2. Place(n, i, k) = Place(n, i, m) /\ k \in 1..n /\ m \in 1..n
            BY <1>6, <2>2, <2>3, <3>2, <4>1
      <4>. QED BY <2>1, <3>2, <4>1, <4>2
    <3>. QED BY <3>1, <3>2
  <2>. QED BY <2>3 DEF Apart
<1>13. AreLists(hd2, nx2, T, h)
      BY <1>4, <1>9, <1>11, <1>12 DEF AreLists
<1>. QED BY <1>13 DEF hd2, nx2, T, TurnedLists

-----------------------------------------------------------------------------
(***************************************************************************)
(* The invariant, and the steps of Lists.                                   *)
(***************************************************************************)
\* The lists that the fields make up after a step are those Chain finds then.
LEMMA NewLists ==
    ASSUME NEW S, AreLists(head', next', S, PtrHalf')
    PROVE  Free' = S /\ AreLists(head, next, Free, PtrHalf)'
<1>1. Free' = S
      BY FoundNext DEF ListsFound
<1>. QED BY <1>1

\* A call that returns NULL returns no block, and one that returns a pointer the
\* block it points to.
LEMMA Answers ==
    /\ \A c : Returns(c, NULL) => Answer' = [call |-> c, block |-> << >>]
    /\ \A c, b : Returns(c, <<PtrHalf', b>>) => Answer' = [call |-> c, block |-> <<b>>]
<1>1. ASSUME NEW c, Returns(c, NULL) PROVE Answer' = [call |-> c, block |-> << >>]
      BY <1>1 DEF Returns, Answer
<1>2. ASSUME NEW c, NEW b, Returns(c, <<PtrHalf', b>>)
      PROVE  Answer' = [call |-> c, block |-> <<b>>]
  <2>1. PICK h : h = PtrHalf'
        OBVIOUS
  <2>2. ret'.call = c /\ ret'.value = <<h, b>>
        BY <1>2, <2>1 DEF Returns
  <2>3. ret'.value # NULL /\ ret'.value[1] = PtrHalf' /\ ret'.value[2] = b
        BY <2>1, <2>2, NotNull
  <2>. QED BY <2>2, <2>3 DEF Answer, Deref
<1>. QED BY <1>1, <1>2

\* Until another call returns the answer stays what it is.
LEMMA AnswerKept == ret' = ret /\ PtrHalf' = PtrHalf => Answer' = Answer
BY DEF Answer, Deref

\* All lists are empty.
LEMMA FInvInit == Init => FInv /\ Abstract!LInit
<1>. SUFFICES ASSUME Init PROVE FInv /\ Abstract!LInit
     OBVIOUS
<1>. DEFINE S == [o \in Orders |-> << >>]
<1>1. AreLists(head, next, S, 0)
  <2>1. S \in [Orders -> Seq(Block)]
        OBVIOUS
  <2>2. \A o \in Orders : S[o] = << >> /\ head[o] = NULL /\ DOMAIN S[o] = {}
        BY DEF Init
  <2>. QED BY <2>1, <2>2 DEF AreLists, Linked, Apart, At
<1>3. PtrHalf = 0
      BY DEF Init, PtrHalf
<1>2. Free = S
      BY <1>1, <1>3, Found DEF ListsFound
<1>4. PointersRight
      BY <1>3 DEF Init, PointersRight, Pointer, Reset, Calls
<1>5. FInv
      BY <1>1, <1>2, <1>3, <1>4 DEF Init, FInv, WalkRight
<1>6. [o \in Orders |-> Chain(head[o])] = S
      BY <1>2 DEF Free
<1>7. refcnt = [b \in Block |-> 1] /\ Answer = [call |-> <<"reset">>, block |-> << >>]
      BY DEF Init, Reset, Answer
<1>8. Abstract!LInit
      BY <1>6, <1>7 DEF Abstract!LInit
<1>. QED BY <1>5, <1>8

\* What is not Listed is on no list.
LEMMA NotListed ==
    ASSUME FInv, NEW b \in Block, ~Listed(b)
    PROVE  \A q \in Orders : \A i \in DOMAIN Free[q] : Free[q][i] # b
<1>. SUFFICES ASSUME NEW q \in Orders, NEW i \in DOMAIN Free[q], Free[q][i] = b PROVE FALSE
     OBVIOUS
<1>1. Free[q] \in Seq(Block) /\ Apart(Free)
      BY DEF FInv, AreLists
<1>2. \A j, k \in DOMAIN Free[q] : Free[q][j] = Free[q][k] => j = k
      BY <1>1 DEF Apart
<1>3. Len(Free[q]) <= Cardinality(Block) /\ Cardinality(Block) \in Nat
      BY <1>1, <1>2, NotLonger
<1>4. i \in 1..Cardinality(Block)
      BY <1>1, <1>3
<1>5. Chain(head[q]) = Free[q]
      BY DEF Free
<1>. QED BY <1>4, <1>5 DEF Listed

\* buddy_push is Push.
LEMMA DoesPush ==
    ASSUME FInv, NEW b \in Block, NEW o \in Orders, buddy_push(b, o)
    PROVE  FInv' /\ Abstract!Push(b, o)
<1>1. PICK h, S : h = PtrHalf /\ S = Free
      OBVIOUS
<1>2. AreLists(head, next, S, h) /\ PointersRight /\ pc = "idle" /\ h = half
      BY <1>1 DEF FInv, buddy_push, PtrHalf
<1>. DEFINE P == {NULL} \cup ({h} \X Block)
            T == [S EXCEPT ![o] = <<b>> \o @]
<1>3. head \in [Orders -> P] /\ next \in [Block -> P]
      BY <1>1, <1>2 DEF PointersRight
<1>4. \A q \in Orders : \A i \in DOMAIN S[q] : S[q][i] # b
      BY <1>1, NotListed DEF buddy_push
<1>5. head' = [head EXCEPT ![o] = <<h, b>>] /\ next' = [next EXCEPT ![b] = head[o]]
      BY <1>2 DEF buddy_push, Ptr
<1>. HIDE DEF P
<1>6. AreLists([head EXCEPT ![o] = <<h, b>>], [next EXCEPT ![b] = head[o]], T, h)
      BY <1>2, <1>3, <1>4, PushLists
<1>7. PtrHalf' = h
      BY <1>2 DEF buddy_push, PtrHalf
<1>8. AreLists(head', next', T, PtrHalf')
      BY <1>5, <1>6, <1>7
<1>9. Free' = T /\ AreLists(head, next, Free, PtrHalf)'
      BY <1>8, NewLists
<1>10. PointersRight'
  <2>1. ret' \in [call : Calls, value : Pointer]
        BY DEF buddy_push, Returns, Calls, Pointer
  <2>2. head' \in [Orders -> {NULL} \cup ({PtrHalf'} \X Block)] /\ next' \in [Block -> {NULL} \cup ({PtrHalf'} \X Block)]
        BY <1>2, <1>3, <1>5, <1>7 DEF P
  <2>. QED BY <1>1, <1>2, <1>7, <2>1, <2>2 DEF PointersRight, buddy_push
<1>11. WalkRight'
      BY <1>2 DEF WalkRight, buddy_push
<1>12. Abstract!Push(b, o)
  <2>1. [q \in Orders |-> Chain(head[q])] = S /\ [q \in Orders |-> Chain(head[q])]' = T
        BY <1>1, <1>9 DEF Free
  <2>2. refcnt' = [refcnt EXCEPT ![b] = 0] /\ Returns(<<"push", b, o>>, NULL)
        BY DEF buddy_push
  <2>4. Answer' = [call |-> <<"push", b, o>>, block |-> << >>]
        BY <2>2, Answers
  <2>3. b \in Abstract!Unlisted
    <3>1. \A q \in Orders : b \notin Abstract!Range(S[q])
          BY <1>4 DEF Abstract!Range
    <3>. QED BY <2>1, <3>1 DEF Abstract!Unlisted
  <2>. QED BY <2>1, <2>2, <2>3, <2>4 DEF Abstract!Push, Abstract!Returns
<1>. QED BY <1>9, <1>10, <1>11, <1>12 DEF FInv

\* What a call that takes b off the head of list o does.
TookHead(call, o, b) ==
    /\ Free[o] # << >> /\ Free[o][1] = b /\ Free[o] \in Seq(Block)
    /\ Free' = [Free EXCEPT ![o] = Tail(@)]
    /\ refcnt' = [refcnt EXCEPT ![b] = @ + 1]
    /\ Answer' = [call |-> call, block |-> <<b>>]

\* A block is taken off the head of list o.
LEMMA DoesPop ==
    ASSUME FInv, NEW o \in Orders, pc = "idle", head[o] # NULL, NEW c \in Calls,
           Popped(c, o, head[o], next), UNCHANGED <<half, pc, arg, tail, prev>>
    PROVE  FInv' /\ TookHead(c, o, Free[o][1]) /\ head[o][2] = Free[o][1]
<1>1. PICK h, S : h = PtrHalf /\ S = Free
      OBVIOUS
<1>2. AreLists(head, next, S, h) /\ PointersRight /\ h = half
      BY <1>1 DEF FInv, PtrHalf
<1>. DEFINE P == {NULL} \cup ({h} \X Block)
            T == [S EXCEPT ![o] = Tail(@)]
            b == S[o][1]
<1>3. head \in [Orders -> P] /\ next \in [Block -> P]
      BY <1>1, <1>2 DEF PointersRight
<1>. HIDE DEF P
<1>4. 1 \in DOMAIN S[o] /\ S[o] # << >> /\ S[o] \in Seq(Block)
  <2>1. S[o] \in Seq(Block) /\ head[o] = At(h, S[o], 1)
        BY <1>2 DEF AreLists, Linked
  <2>. QED BY <2>1 DEF At
<1>5. head[o] = <<h, b>> /\ b \in Block /\ PoppedLists(head, next, S, h, o)
  <2>1. PoppedLists(head, next, S, h, o)
        BY <1>2, <1>3, <1>4, PopLists
  <2>2. b \in Block
        BY <1>4
  <2>3. head[o] = At(h, S[o], 1)
        BY <1>2 DEF AreLists, Linked
  <2>. QED BY <1>4, <2>1, <2>2, <2>3 DEF At
<1>6. head[o][2] = b
      BY <1>5
<1>7. /\ head' = [head EXCEPT ![o] = next[b]] /\ next' = [next EXCEPT ![b] = NULL]
      /\ refcnt' = [refcnt EXCEPT ![b] = @ + 1] /\ Returns(c, <<h, b>>)
      BY <1>5, <1>6 DEF Popped
<1>8. PtrHalf' = h
      BY <1>1 DEF PtrHalf
<1>9. AreLists(head', next', T, PtrHalf')
      BY <1>5, <1>7, <1>8 DEF PoppedLists
<1>10. Free' = T /\ AreLists(head, next, Free, PtrHalf)'
      BY <1>9, NewLists
<1>11. PointersRight'
  <2>1. head' \in [Orders -> P] /\ next' \in [Block -> P]
        BY <1>3, <1>5, <1>7 DEF P
  <2>2. refcnt' \in [Block -> Nat] /\ h \in {0, 1}
        BY <1>2, <1>5, <1>7 DEF PointersRight
  <2>3. ret' \in [call : Calls, value : Pointer]
        BY <1>5, <1>7, <2>2 DEF Pointer, Returns
  <2>. QED BY <1>1, <1>2, <1>8, <2>1, <2>2, <2>3 DEF PointersRight, P
<1>12. WalkRight'
      BY DEF WalkRight
<1>13. Answer' = [call |-> c, block |-> <<b>>]
      BY <1>7, <1>8, Answers
<1>14. TookHead(c, o, b)
      BY <1>1, <1>4, <1>7, <1>10, <1>13 DEF TookHead
<1>. QED BY <1>1, <1>6, <1>10, <1>11, <1>12, <1>14 DEF FInv

\* A step that changes no pointer changes no list.
LEMMA KeptLists ==
    ASSUME FInv, UNCHANGED <<head, next>>, PtrHalf' = PtrHalf
    PROVE  Free' = Free /\ AreLists(head, next, Free, PtrHalf)'
<1>1. PICK h, S : h = PtrHalf /\ S = Free
      OBVIOUS
<1>2. AreLists(head', next', S, PtrHalf')
      BY <1>1 DEF FInv
<1>. QED BY <1>1, <1>2, NewLists

\* buddy_pop of an empty list is PopEmpty.
LEMMA PopEmptyIs ==
    ASSUME NEW o \in Orders, Free' = Free, refcnt' = refcnt, Free[o] = << >>,
           Returns(<<"pop", o>>, NULL)
    PROVE  Abstract!PopEmpty(o)
<1>1. PICK S : S = Free
      OBVIOUS
<1>2. [q \in Orders |-> Chain(head[q])] = S /\ [q \in Orders |-> Chain(head[q])]' = S
      BY <1>1 DEF Free
<1>3. Answer' = [call |-> <<"pop", o>>, block |-> << >>]
      BY Answers
<1>. QED BY <1>1, <1>2, <1>3 DEF Abstract!PopEmpty, Abstract!Returns

\* buddy_remove of a block that is not on the list is RemoveMissing.
LEMMA RemoveMissingIs ==
    ASSUME NEW b \in Block, NEW o \in Orders, Free' = Free, refcnt' = refcnt,
           \A i \in DOMAIN Free[o] : Free[o][i] # b, Returns(<<"remove", b, o>>, NULL)
    PROVE  Abstract!RemoveMissing(b, o)
<1>1. PICK S : S = Free
      OBVIOUS
<1>2. [q \in Orders |-> Chain(head[q])] = S /\ [q \in Orders |-> Chain(head[q])]' = S
      BY <1>1 DEF Free
<1>3. b \notin Abstract!Range(S[o])
      BY <1>1 DEF Abstract!Range
<1>4. Answer' = [call |-> <<"remove", b, o>>, block |-> << >>]
      BY Answers
<1>. QED BY <1>2, <1>3, <1>4 DEF Abstract!RemoveMissing, Abstract!Returns

\* To take off the head is Pop ...
LEMMA PopIs ==
    ASSUME NEW o \in Orders, TookHead(<<"pop", o>>, o, Free[o][1])
    PROVE  Abstract!Pop(o)
<1>1. PICK S, b : S = Free /\ b = S[o][1]
      OBVIOUS
<1>2. [q \in Orders |-> Chain(head[q])] = S /\ [q \in Orders |-> Chain(head[q])]' = Free'
      BY <1>1 DEF Free
<1>3. /\ S[o] # << >> /\ S[o] \in Seq(Block) /\ Free' = [S EXCEPT ![o] = Tail(@)]
      /\ refcnt' = [refcnt EXCEPT ![b] = @ + 1]
      /\ Answer' = [call |-> <<"pop", o>>, block |-> <<b>>]
      BY <1>1 DEF TookHead
<1>4. Head(S[o]) = b
      BY <1>1, <1>3
<1>. QED BY <1>2, <1>3, <1>4 DEF Abstract!Pop, Abstract!Returns

\* ... and Remove, of the block that is there.
LEMMA RemoveHeadIs ==
    ASSUME NEW b \in Block, NEW o \in Orders, TookHead(<<"remove", b, o>>, o, b)
    PROVE  Abstract!Remove(b, o)
<1>1. PICK S : S = Free
      OBVIOUS
<1>2. [q \in Orders |-> Chain(head[q])] = S /\ [q \in Orders |-> Chain(head[q])]' = Free'
      BY <1>1 DEF Free
<1>3. /\ S[o] # << >> /\ S[o] \in Seq(Block) /\ S[o][1] = b
      /\ Free' = [S EXCEPT ![o] = Tail(@)]
      /\ refcnt' = [refcnt EXCEPT ![b] = @ + 1]
      /\ Answer' = [call |-> <<"remove", b, o>>, block |-> <<b>>]
      BY <1>1 DEF TookHead
<1>4. 1 \in DOMAIN S[o]
      BY <1>3
<1>5. Tail(S[o]) = SubSeq(S[o], 1 + 1, Len(S[o])) \o SubSeq(S[o], 1, 1 - 1)
      BY <1>3
<1>6. Free' = [S EXCEPT ![o] = SubSeq(@, 1 + 1, Len(@)) \o SubSeq(@, 1, 1 - 1)]
      BY <1>3, <1>5
<1>. QED BY <1>2, <1>3, <1>4, <1>6 DEF Abstract!Remove, Abstract!Returns

\* A list whose head is NULL is empty.
LEMMA NoList ==
    ASSUME FInv, NEW o \in Orders, head[o] = NULL
    PROVE  Free[o] = << >>
<1>1. PICK h : h = PtrHalf
      OBVIOUS
<1>2. Free[o] \in Seq(Block) /\ NULL = At(h, Free[o], 1)
      BY <1>1 DEF FInv, AreLists, Linked
<1>3. 1 \notin DOMAIN Free[o]
      BY <1>2, NotNull DEF At
<1>. QED BY <1>2, <1>3

\* buddy_pop pops the head, or finds nothing.
LEMMA DoesPopCall ==
    ASSUME FInv, NEW o \in Orders, buddy_pop(o)
    PROVE  FInv' /\ (Abstract!Pop(o) \/ Abstract!PopEmpty(o))
<1>1. CASE head[o] = NULL
  <2>1. /\ UNCHANGED <<head, next, refcnt, half, pc, arg, tail, prev>> /\ pc = "idle"
        /\ Returns(<<"pop", o>>, NULL)
        BY <1>1 DEF buddy_pop
  <2>2. PtrHalf' = PtrHalf
        BY <2>1 DEF PtrHalf
  <2>3. Free' = Free /\ AreLists(head, next, Free, PtrHalf)'
        BY <2>1, <2>2, KeptLists
  <2>4. PointersRight' /\ WalkRight'
        BY <2>1, <2>2 DEF FInv, PointersRight, WalkRight, Pointer, Returns, Calls
  <2>. QED BY <1>1, <2>1, <2>3, <2>4, NoList, PopEmptyIs DEF FInv
<1>2. CASE head[o] # NULL
  <2>1. /\ Popped(<<"pop", o>>, o, head[o], next) /\ pc = "idle"
        /\ UNCHANGED <<half, pc, arg, tail, prev>>
        BY <1>2 DEF buddy_pop
  <2>2. <<"pop", o>> \in Calls
        BY DEF Calls
  <2>. QED BY <1>2, <2>1, <2>2, DoesPop, PopIs
<1>. QED BY <1>1, <1>2

\* buddy_remove finds nothing, pops the head, or begins to walk.
LEMMA DoesRemoveCall ==
    ASSUME FInv, NEW b \in Block, NEW o \in Orders, buddy_remove(b, o)
    PROVE  /\ FInv'
           /\ \/ Abstract!Remove(b, o) \/ Abstract!RemoveMissing(b, o)
              \/ UNCHANGED Abstract!lvars
<1>1. CASE head[o] = NULL
  <2>1. /\ UNCHANGED <<head, next, refcnt, half, pc, arg, tail, prev>> /\ pc = "idle"
        /\ Returns(<<"remove", b, o>>, NULL)
        BY <1>1, NotNull DEF buddy_remove, Ptr
  <2>2. PtrHalf' = PtrHalf
        BY <2>1 DEF PtrHalf
  <2>3. Free' = Free /\ AreLists(head, next, Free, PtrHalf)'
        BY <2>1, <2>2, KeptLists
  <2>4. PointersRight' /\ WalkRight'
        BY <2>1, <2>2 DEF FInv, PointersRight, WalkRight, Pointer, Returns, Calls
  <2>5. \A i \in DOMAIN Free[o] : Free[o][i] # b
        BY <1>1, NoList
  <2>. QED BY <2>1, <2>3, <2>4, <2>5, RemoveMissingIs DEF FInv
<1>2. CASE head[o] = Ptr(b)
  <2>1. head[o] # NULL
        BY <1>2, NotNull DEF Ptr
  <2>2. /\ Popped(<<"remove", b, o>>, o, head[o], next) /\ pc = "idle"
        /\ UNCHANGED <<half, pc, arg, tail, prev>>
        BY <1>2, <2>1 DEF buddy_remove
  <2>3. <<"remove", b, o>> \in Calls /\ head[o][2] = b
        BY <1>2 DEF Calls, Ptr
  <2>4. FInv' /\ TookHead(<<"remove", b, o>>, o, b)
        BY <2>1, <2>2, <2>3, DoesPop
  <2>. QED BY <2>4, RemoveHeadIs
<1>3. CASE head[o] \notin {NULL, Ptr(b)}
  <2>1. /\ UNCHANGED <<head, next, refcnt, half, ret>> /\ pc = "idle"
        /\ pc' = "walk" /\ arg' = <<b, o>> /\ tail' = head[o] /\ prev' = NULL
        BY <1>3 DEF buddy_remove
  <2>2. PtrHalf' = PtrHalf /\ PtrHalf = half
        BY <2>1 DEF PtrHalf
  <2>3. Free' = Free /\ AreLists(head, next, Free, PtrHalf)'
        BY <2>1, <2>2, KeptLists
  <2>4. PointersRight'
        BY <2>1, <2>2 DEF FInv, PointersRight
  <2>5. WalkRight'
    <3>1. PICK S : S = Free
          OBVIOUS
    <3>2. S[o] \in Seq(Block) /\ head[o] = At(half, S[o], 1)
          BY <2>2, <3>1 DEF FInv, AreLists, Linked
    <3>3. 1 \in DOMAIN S[o] /\ head[o] = <<half, S[o][1]>> /\ S[o][1] # b
          BY <1>3, <3>2 DEF At, Ptr
    <3>4. Free' = S /\ half' = half /\ arg' \in Block \X Orders /\ arg'[2] = o /\ arg'[1] = b
          BY <2>1, <2>3, <3>1
    <3>5. \A k \in 1..1 : S[o][k] # b
          BY <3>3
    <3>. QED BY <2>1, <3>3, <3>4, <3>5 DEF WalkRight
  <2>6. UNCHANGED Abstract!lvars
    <3>1. [q \in Orders |-> Chain(head[q])]' = [q \in Orders |-> Chain(head[q])]
          BY <2>3 DEF Free
    <3>. QED BY <2>1, <2>2, <3>1, AnswerKept DEF Abstract!lvars
  <2>. QED BY <2>3, <2>4, <2>5, <2>6 DEF FInv
<1>. QED BY <1>1, <1>2, <1>3

\* An iteration of the walk: prev is set when the block that is looked for comes next.
LEMMA DoesWalk ==
    ASSUME FInv, RemoveWalk
    PROVE  FInv' /\ UNCHANGED Abstract!lvars
<1>1. /\ UNCHANGED <<head, next, refcnt, half, pc, arg, ret>> /\ pc = "walk"
      /\ next[tail[2]] # NULL /\ tail' = next[tail[2]]
      /\ prev' = IF next[tail[2]] = Ptr(arg[1]) THEN tail ELSE prev
      BY DEF RemoveWalk
<1>2. PtrHalf' = PtrHalf /\ PtrHalf = half
      BY <1>1 DEF PtrHalf
<1>3. Free' = Free /\ AreLists(head, next, Free, PtrHalf)'
      BY <1>1, <1>2, KeptLists
<1>4. PICK S, o, b : S = Free /\ o = arg[2] /\ b = arg[1]
      OBVIOUS
<1>5. b \in Block /\ o \in Orders /\ arg = <<b, o>>
      BY <1>1, <1>4 DEF FInv, WalkRight
<1>6. PICK j \in Nat :
         /\ j \in DOMAIN S[o] /\ 1 <= j
         /\ tail = <<half, S[o][j]>>
         /\ \/ prev = NULL /\ \A k \in 1..j : S[o][k] # b
            \/ \E m \in 2..j : S[o][m] = b /\ prev = <<half, S[o][m - 1]>>
  <2>1. \A k \in DOMAIN S[o] : k \in Nat /\ 1 <= k
        BY <1>4, <1>5 DEF FInv, AreLists
  <2>. QED BY <1>1, <1>4, <2>1 DEF FInv, WalkRight
<1>7. S[o] \in Seq(Block) /\ next[S[o][j]] = At(half, S[o], j + 1)
      BY <1>2, <1>4, <1>5, <1>6 DEF FInv, AreLists, Linked
<1>8. tail[2] = S[o][j]
      BY <1>6
<1>9. /\ j + 1 \in DOMAIN S[o] /\ tail' = <<half, S[o][j + 1]>>
      /\ j \in Nat /\ S[o][j] \in Block /\ S[o][j + 1] \in Block
  <2>1. next[tail[2]] = At(half, S[o], j + 1) /\ At(half, S[o], j + 1) # NULL
        BY <1>1, <1>7, <1>8
  <2>2. j + 1 \in DOMAIN S[o] /\ At(half, S[o], j + 1) = <<half, S[o][j + 1]>>
        BY <2>1 DEF At
  <2>3. S[o][j] \in Block /\ S[o][j + 1] \in Block
        BY <1>6, <1>7, <2>2
  <2>. QED BY <1>1, <1>6, <2>1, <2>2, <2>3
<1>10. WalkRight'
  <2>1. \/ prev' = NULL /\ \A k \in 1..j+1 : S[o][k] # b
        \/ \E m \in 2..j+1 : S[o][m] = b /\ prev' = <<half, S[o][m - 1]>>
    <3>1. CASE S[o][j + 1] = b
      <4>1. prev' = tail
            BY <1>1, <1>4, <1>8, <1>9, <3>1 DEF Ptr
      <4>2. j + 1 \in 2..j+1 /\ (j + 1) - 1 = j
            BY <1>6
      <4>. QED BY <1>6, <3>1, <4>1, <4>2
    <3>2. CASE S[o][j + 1] # b
      <4>1. next[tail[2]] # Ptr(arg[1])
            BY <1>1, <1>4, <1>9, <3>2 DEF Ptr
      <4>2. prev' = prev
            BY <1>1, <4>1
      <4>3. CASE prev = NULL /\ \A k \in 1..j : S[o][k] # b
            BY <1>9, <3>2, <4>2, <4>3
      <4>4. CASE \E m \in 2..j : S[o][m] = b /\ prev = <<half, S[o][m - 1]>>
        <5>1. \A m \in 2..j : m \in 2..j+1
              BY <1>9
        <5>. QED BY <4>2, <4>4, <5>1
      <4>. QED BY <1>6, <4>3, <4>4
    <3>. QED BY <3>1, <3>2
  <2>2. Free' = S /\ half' = half /\ arg' = <<b, o>>
        BY <1>1, <1>3, <1>4, <1>5
  <2>. QED BY <1>5, <1>9, <2>1, <2>2 DEF WalkRight
<1>11. PointersRight'
  <2>1. PointersRight /\ pc' = "walk"
        BY <1>1 DEF FInv
  <2>2. prev' \in {NULL} \cup ({PtrHalf} \X Block)
        BY <1>1, <2>1 DEF PointersRight
  <2>. QED BY <1>1, <1>2, <1>9, <2>1, <2>2 DEF PointersRight
<1>12. UNCHANGED Abstract!lvars
  <2>1. [q \in Orders |-> Chain(head[q])]' = [q \in Orders |-> Chain(head[q])]
        BY <1>3 DEF Free
  <2>. QED BY <1>1, <1>2, <2>1, AnswerKept DEF Abstract!lvars
<1>. QED BY <1>3, <1>10, <1>11, <1>12 DEF FInv

\* The list is turned, and its head taken off: the blocks behind the one removed come
\* first.
LEMMA DoesRotate ==
    ASSUME FInv, Rotate
    PROVE  /\ FInv'
           /\ \E o \in Orders : \E b \in Block :
                 Abstract!RemoveMissing(b, o) \/ Abstract!Remove(b, o)
<1>1. /\ pc = "walk" /\ next[tail[2]] = NULL
      /\ pc' = "idle" /\ tail' = NULL /\ prev' = NULL /\ half' = half
      BY DEF Rotate
<1>2. PtrHalf' = PtrHalf /\ PtrHalf = half
      BY <1>1 DEF PtrHalf
<1>3. PICK S, o, b, h : S = Free /\ o = arg[2] /\ b = arg[1] /\ h = half
      OBVIOUS
<1>4. b \in Block /\ o \in Orders
      BY <1>1, <1>3 DEF FInv, WalkRight
<1>5. AreLists(head, next, S, h) /\ PointersRight
      BY <1>2, <1>3 DEF FInv
<1>6. PICK s : s = S[o]
      OBVIOUS
<1>7. s \in Seq(Block) /\ DOMAIN s = 1..Len(s) /\ Len(s) \in Nat
      BY <1>4, <1>5, <1>6 DEF AreLists
<1>8. /\ tail[2] = s[Len(s)] /\ Len(s) \in DOMAIN s
      /\ \/ prev = NULL /\ \A k \in DOMAIN s : s[k] # b
         \/ \E m \in 2..Len(s) : s[m] = b /\ prev = <<h, s[m - 1]>>
  <2>1. PICK j \in DOMAIN s :
           /\ tail = <<h, s[j]>>
           /\ \/ prev = NULL /\ \A k \in 1..j : s[k] # b
              \/ \E m \in 2..j : s[m] = b /\ prev = <<h, s[m - 1]>>
        BY <1>1, <1>3, <1>6 DEF FInv, WalkRight
  <2>2. NULL = At(h, s, j + 1)
        BY <1>1, <1>4, <1>5, <1>6, <2>1 DEF AreLists, Linked
  <2>3. j = Len(s)
        BY <1>7, <2>1, <2>2, NotNull DEF At
  <2>. QED BY <1>7, <2>1, <2>3
<1>9. CASE prev = NULL
  <2>1. UNCHANGED <<head, next, refcnt>> /\ Returns(<<"remove", b, o>>, NULL)
        BY <1>3, <1>9 DEF Rotate, Removing
  <2>2. Free' = Free /\ AreLists(head, next, Free, PtrHalf)'
        BY <1>2, <2>1, KeptLists
  <2>3. PointersRight' /\ WalkRight'
        BY <1>1, <1>2, <1>4, <1>5, <2>1 DEF PointersRight, WalkRight, Pointer, Returns, Calls
  <2>4. \A k \in DOMAIN Free[o] : Free[o][k] # b
        BY <1>3, <1>6, <1>8, <1>9, NotNull
  <2>. QED BY <1>4, <2>1, <2>2, <2>3, <2>4, RemoveMissingIs DEF FInv
<1>10. CASE prev # NULL
  <2>1. PICK i \in 2..Len(s) : s[i] = b /\ prev = <<h, s[i - 1]>>
        BY <1>8, <1>10
  <2>. DEFINE P == {NULL} \cup ({h} \X Block)
              hd == [head EXCEPT ![o] = <<h, b>>]
              nx == [[next EXCEPT ![s[i - 1]] = NULL] EXCEPT ![s[Len(s)]] = head[o]]
              T == [S EXCEPT ![o] = Turned(@, i)]
              U == [T EXCEPT ![o] = Tail(@)]
  <2>2. head \in [Orders -> P] /\ next \in [Block -> P]
        BY <1>2, <1>3, <1>5 DEF PointersRight
  <2>3. hd \in [Orders -> P] /\ nx \in [Block -> P]
        BY <1>4, <2>2
  <2>. HIDE DEF P
  <2>4. TurnedLists(head, next, S, h, o, i)
        BY <1>4, <1>5, <1>6, <2>1, <2>2, TurnLists
  <2>5. AreLists(hd, nx, T, h)
        BY <1>6, <2>1, <2>4 DEF TurnedLists
  <2>6. /\ Turned(s, i) \in Seq(Block) /\ Len(Turned(s, i)) = Len(s)
        /\ Turned(s, i)[1] = b
        /\ Tail(Turned(s, i)) = SubSeq(s, i + 1, Len(s)) \o SubSeq(s, 1, i - 1)
    <3>1. i \in 1..Len(s) /\ 1 \in 1..Len(s) /\ 1 + i - 1 = i /\ i <= Len(s)
          BY <1>7
    <3>2. /\ Turned(s, i) \in Seq(Block) /\ Len(Turned(s, i)) = Len(s)
          /\ Tail(Turned(s, i)) = SubSeq(s, i + 1, Len(s)) \o SubSeq(s, 1, i - 1)
          BY <1>7, <3>1, TurnedIs
    <3>3. Turned(s, i)[1] = IF 1 + i - 1 <= Len(s) THEN s[1 + i - 1] ELSE s[1 + i - 1 - Len(s)]
          BY <1>7, <3>1, TurnedIs
    <3>4. Turned(s, i)[1] = s[i]
          BY <3>1, <3>3
    <3>. QED BY <2>1, <3>2, <3>4
  <2>7. T[o] = Turned(s, i) /\ 1 \in DOMAIN T[o]
    <3>1. T[o] = Turned(S[o], i)
          BY <1>4, <1>5 DEF AreLists
    <3>2. DOMAIN Turned(s, i) = 1..Len(s) /\ 1 \in 1..Len(s)
          BY <1>7, <1>8, <2>6
    <3>. QED BY <1>6, <3>1, <3>2
  <2>. HIDE DEF hd, nx, T
  <2>8. PoppedLists(hd, nx, T, h, o)
        BY <1>4, <2>3, <2>5, <2>7, PopLists
  <2>9. AreLists([hd EXCEPT ![o] = nx[b]], [nx EXCEPT ![b] = NULL], U, h)
        BY <2>6, <2>7, <2>8 DEF PoppedLists
  <2>10. Popped(<<"remove", b, o>>, o, Ptr(b), nx)
        BY <1>3, <1>6, <1>8, <1>10, <2>1 DEF Rotate, Removing, nx
  <2>11. /\ head' = [head EXCEPT ![o] = nx[b]] /\ next' = [nx EXCEPT ![b] = NULL]
         /\ refcnt' = [refcnt EXCEPT ![b] = @ + 1] /\ Returns(<<"remove", b, o>>, <<h, b>>)
        BY <1>3, <2>10 DEF Popped, Ptr
  <2>12. head' = [hd EXCEPT ![o] = nx[b]]
        BY <1>4, <2>2, <2>11 DEF hd
  <2>13. AreLists(head', next', U, PtrHalf')
        BY <1>2, <1>3, <2>9, <2>11, <2>12
  <2>14. Free' = U /\ AreLists(head, next, Free, PtrHalf)'
        BY <2>13, NewLists
  <2>15. PointersRight'
    <3>1. head' \in [Orders -> P] /\ next' \in [Block -> P]
          BY <1>4, <2>2, <2>3, <2>11 DEF P
    <3>2. refcnt' \in [Block -> Nat] /\ h \in {0, 1}
          BY <1>3, <1>4, <1>5, <2>11 DEF PointersRight
    <3>3. ret' \in [call : Calls, value : Pointer]
          BY <1>4, <2>11, <3>2 DEF Pointer, Returns, Calls
    <3>. QED BY <1>1, <1>2, <1>3, <3>1, <3>2, <3>3 DEF PointersRight, P
  <2>16. WalkRight'
        BY <1>1 DEF WalkRight
  <2>17. Abstract!Remove(b, o)
    <3>1. [q \in Orders |-> Chain(head[q])] = S /\ [q \in Orders |-> Chain(head[q])]' = U
          BY <1>3, <2>14 DEF Free
    <3>2. U = [S EXCEPT ![o] = SubSeq(@, i + 1, Len(@)) \o SubSeq(@, 1, i - 1)]
      <4>1. T = [S EXCEPT ![o] = Turned(s, i)]
            BY <1>6 DEF T
      <4>2. U = [S EXCEPT ![o] = Tail(Turned(s, i))]
            BY <1>4, <1>5, <2>7, <4>1 DEF AreLists
      <4>. QED BY <1>6, <2>6, <4>2
    <3>3. i \in DOMAIN S[o] /\ S[o][i] = b
          BY <1>6, <1>7, <2>1
    <3>4. Answer' = [call |-> <<"remove", b, o>>, block |-> <<b>>]
          BY <1>2, <1>3, <2>11, Answers
    <3>. HIDE DEF U
    <3>. QED BY <2>11, <3>1, <3>2, <3>3, <3>4 DEF Abstract!Remove, Abstract!Returns
  <2>. QED BY <1>4, <2>14, <2>15, <2>16, <2>17 DEF FInv
<1>. QED BY <1>9, <1>10

\* buddy_reset is Clear.
LEMMA DoesReset ==
    ASSUME FInv, buddy_reset
    PROVE  FInv' /\ Abstract!Clear
<1>. DEFINE S == [o \in Orders |-> << >>]
<1>1. /\ pc = "idle" /\ UNCHANGED <<half, pc, arg, tail, prev>> /\ Returns(<<"reset">>, NULL)
      /\ head' = [o \in Orders |-> NULL] /\ next' = [b \in Block |-> NULL]
      /\ refcnt' = [b \in Block |-> 1]
      BY DEF buddy_reset, Reset, Returns
<1>2. PtrHalf' = PtrHalf
      BY <1>1 DEF PtrHalf
<1>3. AreLists(head', next', S, PtrHalf')
  <2>1. S \in [Orders -> Seq(Block)]
        OBVIOUS
  <2>2. \A o \in Orders : S[o] = << >> /\ head'[o] = NULL /\ DOMAIN S[o] = {}
        BY <1>1
  <2>. QED BY <2>1, <2>2 DEF AreLists, Linked, Apart, At
<1>4. Free' = S /\ AreLists(head, next, Free, PtrHalf)'
      BY <1>3, NewLists
<1>5. PointersRight' /\ WalkRight'
      BY <1>1, <1>2 DEF FInv, PointersRight, WalkRight, Pointer, Returns, Calls
<1>6. [o \in Orders |-> Chain(head[o])]' = S
      BY <1>4 DEF Free
<1>7. Abstract!Clear
      BY <1>1, <1>6, Answers DEF Abstract!Clear, Abstract!Returns
<1>. QED BY <1>4, <1>5, <1>7 DEF FInv

\* Every pointer is moved to the high half; the lists are the same.
LEMMA DoesMigrate ==
    ASSUME FInv, buddy_migrate
    PROVE  FInv' /\ Abstract!Migrate
<1>1. /\ pc = "idle" /\ half = 0 /\ pc' = "moving" /\ UNCHANGED <<refcnt, half, arg, tail, prev>>
      /\ Returns(<<"migrate">>, NULL)
      /\ head' = [o \in Orders |-> Higher(head[o])] /\ next' = [b \in Block |-> Higher(next[b])]
      BY DEF buddy_migrate
<1>2. PtrHalf = 0 /\ PtrHalf' = 1
      BY <1>1 DEF PtrHalf
<1>3. PICK S : S = Free
      OBVIOUS
<1>4. AreLists(head, next, S, 0) /\ PointersRight
      BY <1>2, <1>3 DEF FInv
<1>5. \A s, i : Higher(At(0, s, i)) = At(1, s, i)
      BY NotNull DEF Higher, At
<1>6. AreLists(head', next', S, 1)
  <2>1. ASSUME NEW o \in Orders PROVE Linked(next', head'[o], S[o], 1)
    <3>1. S[o] \in Seq(Block) /\ Linked(next, head[o], S[o], 0)
          BY <1>4 DEF AreLists
    <3>2. head'[o] = At(1, S[o], 1)
          BY <1>1, <1>5, <3>1 DEF Linked
    <3>3. ASSUME NEW i \in DOMAIN S[o] PROVE next'[S[o][i]] = At(1, S[o], i + 1)
      <4>1. S[o][i] \in Block
            BY <3>1
      <4>2. next[S[o][i]] = At(0, S[o], i + 1)
            BY <3>1 DEF Linked
      <4>. QED BY <1>1, <1>5, <4>1, <4>2
    <3>. QED BY <3>2, <3>3 DEF Linked
  <2>. QED BY <1>4, <2>1 DEF AreLists
<1>7. Free' = S /\ AreLists(head, next, Free, PtrHalf)'
      BY <1>2, <1>6, NewLists
<1>8. PointersRight'
  <2>1. ASSUME NEW p \in {NULL} \cup ({0} \X Block) PROVE Higher(p) \in {NULL} \cup ({1} \X Block)
        BY DEF Higher, NULL
  <2>2. head \in [Orders -> {NULL} \cup ({0} \X Block)] /\ next \in [Block -> {NULL} \cup ({0} \X Block)]
        BY <1>2, <1>4 DEF PointersRight
  <2>3. head' \in [Orders -> {NULL} \cup ({1} \X Block)] /\ next' \in [Block -> {NULL} \cup ({1} \X Block)]
        BY <1>1, <2>1, <2>2
  <2>4. ret' \in [call : Calls, value : Pointer]
        BY <1>1 DEF Returns, Calls, Pointer
  <2>. QED BY <1>1, <1>2, <1>4, <2>3, <2>4 DEF PointersRight
<1>9. WalkRight'
      BY <1>1 DEF WalkRight
<1>10. Abstract!Migrate
  <2>1. [o \in Orders |-> Chain(head[o])]' = [o \in Orders |-> Chain(head[o])]
        BY <1>3, <1>7 DEF Free
  <2>. QED BY <1>1, <2>1, Answers DEF Abstract!Migrate, Abstract!Returns
<1>. QED BY <1>7, <1>8, <1>9, <1>10 DEF FInv

\* The code follows the pointers.
LEMMA DoesJump ==
    ASSUME FInv, Jump
    PROVE  FInv' /\ UNCHANGED Abstract!lvars
<1>1. /\ pc = "moving" /\ pc' = "idle" /\ half' = 1
      /\ UNCHANGED <<head, next, refcnt, arg, tail, prev, ret>>
      BY DEF Jump
<1>2. PtrHalf' = PtrHalf
      BY <1>1 DEF PtrHalf
<1>3. Free' = Free /\ AreLists(head, next, Free, PtrHalf)'
      BY <1>1, <1>2, KeptLists
<1>4. PointersRight' /\ WalkRight'
      BY <1>1, <1>2 DEF FInv, PointersRight, WalkRight
<1>5. UNCHANGED Abstract!lvars
  <2>1. [o \in Orders |-> Chain(head[o])]' = [o \in Orders |-> Chain(head[o])]
        BY <1>3 DEF Free
  <2>. QED BY <1>1, <1>2, <2>1, AnswerKept DEF Abstract!lvars
<1>. QED BY <1>3, <1>4, <1>5 DEF FInv

\* A step that changes nothing.
LEMMA StaysPut ==
    ASSUME FInv, UNCHANGED vars
    PROVE  FInv' /\ UNCHANGED Abstract!lvars
<1>1. UNCHANGED <<head, next, refcnt, half, pc, arg, tail, prev, ret>>
      BY DEF vars
<1>2. PtrHalf' = PtrHalf
      BY <1>1 DEF PtrHalf
<1>3. Free' = Free /\ AreLists(head, next, Free, PtrHalf)'
      BY <1>1, <1>2, KeptLists
<1>4. PointersRight'
      BY <1>1, <1>2 DEF FInv, PointersRight
<1>5. WalkRight'
  <2>1. PICK S : S = Free
        OBVIOUS
  <2>2. Free' = S
        BY <1>3, <2>1
  <2>. QED BY <1>1, <2>1, <2>2 DEF FInv, WalkRight
<1>6. UNCHANGED Abstract!lvars
  <2>1. [o \in Orders |-> Chain(head[o])]' = [o \in Orders |-> Chain(head[o])]
        BY <1>3 DEF Free
  <2>. QED BY <1>1, <1>2, <2>1, AnswerKept DEF Abstract!lvars
<1>. QED BY <1>3, <1>4, <1>5, <1>6 DEF FInv

\* Each step keeps the invariant, and is a step of Lists or changes no list.
LEMMA FInvNext ==
    ASSUME FInv, [Next]_vars
    PROVE  FInv' /\ [Abstract!LNext]_(Abstract!lvars)
<1>1. ASSUME NEW o \in Orders, buddy_pop(o)
      PROVE  FInv' /\ [Abstract!LNext]_(Abstract!lvars)
      BY <1>1, DoesPopCall DEF Abstract!LNext
<1>2. ASSUME NEW o \in Orders, NEW b \in Block, buddy_push(b, o)
      PROVE  FInv' /\ [Abstract!LNext]_(Abstract!lvars)
      BY <1>2, DoesPush DEF Abstract!LNext
<1>3. ASSUME NEW o \in Orders, NEW b \in Block, buddy_remove(b, o)
      PROVE  FInv' /\ [Abstract!LNext]_(Abstract!lvars)
      BY <1>3, DoesRemoveCall DEF Abstract!LNext
<1>4. CASE RemoveWalk
      BY <1>4, DoesWalk
<1>5. CASE Rotate
      BY <1>5, DoesRotate DEF Abstract!LNext
<1>6. CASE buddy_reset
      BY <1>6, DoesReset DEF Abstract!LNext
<1>7. CASE buddy_migrate
      BY <1>7, DoesMigrate DEF Abstract!LNext
<1>8. CASE Jump
      BY <1>8, DoesJump
<1>9. CASE UNCHANGED vars
      BY <1>9, StaysPut
<1>. QED BY <1>1, <1>2, <1>3, <1>4, <1>5, <1>6, <1>7, <1>8, <1>9 DEF Next

\* The pointers always make up lists: no block is twice in them, none is a circle, all
\* point into the half the code runs in, and buddy_remove knows what it passed.
THEOREM FreeListInvariant == Spec => []FInv
BY FInvInit, FInvNext, PTL DEF Spec

\* buddy_push, buddy_pop, buddy_remove and buddy_reset do with pointers what Lists does to
\* sequences and return the block they take off, NULL only if the list is empty or the
\* block is not on it; buddy_migrate moves every pointer to the high half and changes no
\* list.  Buddy may take the lists for sequences.
THEOREM FreeListImplementsLists == Spec => ImplementsLists
<1>1. FInv /\ [Next]_vars => [Abstract!LNext]_(Abstract!lvars)
      BY FInvNext
<1>. QED BY <1>1, FInvInit, FreeListInvariant, PTL DEF Spec, ImplementsLists, Abstract!LSpec

\* The type of the state.
THEOREM FreeListTypeCorrect == Spec => []TypeOK
<1>1. FInv => TypeOK
  <2>. SUFFICES ASSUME FInv PROVE TypeOK
       OBVIOUS
  <2>1. PtrHalf \in {0, 1}
        BY DEF FInv, PointersRight, PtrHalf
  <2>. QED BY <2>1 DEF FInv, PointersRight, TypeOK, Pointer
<1>. QED BY <1>1, FreeListInvariant, PTL
=============================================================================
