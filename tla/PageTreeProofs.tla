--------------------------- MODULE PageTreeProofs ----------------------------
(***************************************************************************)
(* Facts about the tree of page tables: what covers what, and what writing   *)
(* one entry does to the translation of all pages.  For every number of      *)
(* levels and size of tables.                                                *)
(***************************************************************************)
EXTENDS PageTree, TLAPS

-----------------------------------------------------------------------------
(***************************************************************************)
(* Pages and entries.                                                       *)
(***************************************************************************)
LEMMA Sizes ==
    /\ Levels \in Nat \ {0} /\ Size(0) = 1 /\ 0 \in Level
    /\ \A l \in Level : Size(l) \in Nat \ {0} /\ l \in 0..Levels /\ l \in Nat
    /\ Size(Levels) \in Nat \ {0}
<1>1. Levels \in Nat \ {0} /\ 0 \in Level /\ Levels \in 0..Levels
      BY PageTreeAssumption DEF Level
<1>2. \A l \in Level : l \in 0..Levels /\ l \in Nat
      BY <1>1 DEF Level
<1>. QED BY <1>1, <1>2, SizeAssumption

\* Division, for the solver.
LEMMA Division ==
    ASSUME NEW x \in Int, NEW s \in Nat \ {0}
    PROVE  /\ x \div s \in Int
           /\ (x \div s) * s <= x /\ x < (x \div s) * s + s
           /\ x \in Nat => x \div s \in Nat
OBVIOUS

\* ... of which there is only one result.
LEMMA Quotient ==
    ASSUME NEW x \in Int, NEW s \in Nat \ {0}, NEW q \in Int,
           q * s <= x, x < q * s + s
    PROVE  x \div s = q
OBVIOUS

\* Whole pages of the level below: going up from the boundary or from the page
\* itself is the same.
LEMMA DivisionTwice ==
    ASSUME NEW x \in Int, NEW s \in Nat \ {0}, NEW k \in Nat \ {0}
    PROVE  /\ k * s \in Nat \ {0}
           /\ ((x \div s) * s) \div (k * s) = x \div (k * s)
           /\ (x \div (k * s)) * (k * s) <= (x \div s) * s
           /\ (x \div s) * s + s <= (x \div (k * s)) * (k * s) + k * s
<1>. DEFINE a == x \div s
            b == x \div (k * s)
<1>1. k * s \in Nat \ {0}
      OBVIOUS
<1>2. a \in Int /\ a * s <= x /\ x < a * s + s
      BY Division
<1>3. b \in Int /\ b * (k * s) <= x /\ x < b * (k * s) + k * s
      BY <1>1, Division
<1>. HIDE DEF a, b
<1>4. b * k <= a
  <2>1. b * k \in Int /\ (b * k) * s = b * (k * s)
        BY <1>3
  <2>2. SUFFICES ASSUME a + 1 <= b * k PROVE FALSE
        BY <1>2, <2>1
  <2>3. (a + 1) * s <= (b * k) * s
        BY <1>2, <2>1, <2>2
  <2>. QED BY <1>2, <1>3, <2>1, <2>3
<1>5. a + 1 <= b * k + k
  <2>1. b * k + k \in Int /\ (b * k + k) * s = b * (k * s) + k * s
        BY <1>3
  <2>2. SUFFICES ASSUME b * k + k <= a PROVE FALSE
        BY <1>2, <2>1
  <2>3. (b * k + k) * s <= a * s
        BY <1>2, <2>1, <2>2
  <2>. QED BY <1>2, <1>3, <2>1, <2>3
<1>6. b * (k * s) <= a * s
  <2>1. b * k \in Int /\ (b * k) * s = b * (k * s)
        BY <1>3
  <2>. QED BY <1>2, <1>4, <2>1
<1>7. a * s + s <= b * (k * s) + k * s
  <2>1. b * k + k \in Int /\ (b * k + k) * s = b * (k * s) + k * s
        BY <1>3
  <2>2. (a + 1) * s <= (b * k + k) * s
        BY <1>2, <1>5, <2>1
  <2>. QED BY <1>2, <2>1, <2>2
<1>8. (a * s) \div (k * s) = b
  <2>1. a * s \in Int /\ a * s < b * (k * s) + k * s
        BY <1>2, <1>3, <1>7
  <2>. QED BY <1>1, <1>3, <1>6, <2>1, Quotient
<1>. QED BY <1>1, <1>6, <1>7, <1>8 DEF a, b

\* The page of level l around x.
LEMMA Boundaries ==
    ASSUME NEW x \in Int, NEW l \in Level
    PROVE  /\ Boundary(x, l) \in Int
           /\ Boundary(x, l) <= x /\ x < Boundary(x, l) + Size(l)
           /\ x \in Nat => Boundary(x, l) \in Nat
<1>1. Size(l) \in Nat \ {0}
      BY Sizes
<1>2. /\ x \div Size(l) \in Int
      /\ (x \div Size(l)) * Size(l) <= x /\ x < (x \div Size(l)) * Size(l) + Size(l)
      /\ x \in Nat => x \div Size(l) \in Nat
      BY <1>1, Division
<1>. QED BY <1>1, <1>2 DEF Boundary

\* A page is its own boundary on the lowest level.
LEMMA LowestLevel == \A x \in Int : Boundary(x, 0) = x /\ EntryOf(x, 0) = <<0, x>>
BY Sizes DEF Boundary, EntryOf

\* Pages are nested.
LEMMA Nested ==
    ASSUME NEW x \in Int, NEW l \in Level, NEW h \in Level, l <= h
    PROVE  /\ EntryOf(Boundary(x, l), h) = EntryOf(x, h)
           /\ Boundary(x, h) <= Boundary(x, l)
           /\ Boundary(x, l) + Size(l) <= Boundary(x, h) + Size(h)
<1>1. /\ l \in 0..Levels /\ h \in l..Levels
      /\ Size(l) \in Nat \ {0} /\ Size(h) \in Nat \ {0}
      BY Sizes DEF Level
<1>2. PICK k \in 1..Size(h) : Size(h) = k * Size(l)
      BY <1>1, SizeAssumption
<1>3. k \in Nat \ {0}
      BY <1>1
<1>. DEFINE s == Size(l)
            t == Size(h)
<1>4. s \in Nat \ {0} /\ t = k * s
      BY <1>1, <1>2
<1>5. /\ EntryOf(Boundary(x, l), h) = <<h, ((x \div s) * s) \div t>>
      /\ EntryOf(x, h) = <<h, x \div t>>
      /\ Boundary(x, l) = (x \div s) * s /\ Boundary(x, h) = (x \div t) * t
      BY DEF Boundary, EntryOf
<1>. HIDE DEF s, t
<1>6. /\ ((x \div s) * s) \div t = x \div t
      /\ (x \div t) * t <= (x \div s) * s
      /\ (x \div s) * s + s <= (x \div t) * t + t
      BY <1>3, <1>4, DivisionTwice
<1>. QED BY <1>5, <1>6 DEF s, t

\* The parts of an entry.
LEMMA EntryParts ==
    ASSUME NEW x \in Int, NEW l \in Level
    PROVE  /\ EntryOf(x, l)[1] = l
           /\ EntryOf(x, l)[2] * Size(EntryOf(x, l)[1]) = Boundary(x, l)
BY DEF EntryOf, Boundary

LEMMA EntriesAre ==
    /\ \A x \in Vpn, l \in Level : EntryOf(x, l) \in Entry
    /\ \A e \in Entry : \E x \in Vpn, l \in Level : e = EntryOf(x, l)
    /\ Vpn \subseteq Nat
BY Sizes DEF Entry, Vpn

\* Two pages with an entry in common have all those above it in common.
LEMMA EntryShared ==
    ASSUME NEW x \in Int, NEW y \in Int, NEW l \in Level, NEW h \in Level,
           EntryOf(x, l) = EntryOf(y, h)
    PROVE  /\ h = l
           /\ Boundary(x, l) = Boundary(y, l)
           /\ \A k \in Level : l <= k => EntryOf(x, k) = EntryOf(y, k)
<1>1. h = l
      BY DEF EntryOf
<1>2. Boundary(x, l) = Boundary(y, l)
      BY <1>1 DEF EntryOf, Boundary
<1>3. ASSUME NEW k \in Level, l <= k PROVE EntryOf(x, k) = EntryOf(y, k)
      BY <1>2, <1>3, Nested
<1>. QED BY <1>1, <1>2, <1>3

\* The tables find a page where it is, unless its number is below 0.
LEMMA AroundIs ==
    ASSUME NEW x \in Int, 0 <= x, NEW l \in Level
    PROVE  PageAround(x, l) = Boundary(x, l) /\ 0 <= Boundary(x, l)
<1>1. Size(l) \in Nat \ {0}
      BY Sizes
<1>2. x \div Size(l) \in Nat
      BY <1>1
<1>3. (x \div Size(l)) * Size(l) >= 0
      BY <1>1, <1>2
<1>4. Boundary(x, l) >= 0 /\ Boundary(x, l) \in Int
      BY <1>3, Boundaries DEF Boundary
<1>. QED BY <1>4 DEF PageAround

\* If a large page fits, so do the smaller ones around the same page.
LEMMA FitsBelow ==
    ASSUME NEW v, v.vpn \in Int, v.pagen \in Int, NEW x \in Int,
           NEW l \in Level, NEW h \in Level, l <= h, Fits(v, x, h), 0 <= x
    PROVE  Fits(v, x, l)
<1>1. /\ Boundary(x, h) \in Int /\ Boundary(x, l) \in Int
      /\ Size(h) \in Int /\ Size(l) \in Int
      BY Boundaries, Sizes
<1>. QED BY <1>1, Nested DEF Fits

-----------------------------------------------------------------------------
(***************************************************************************)
(* What changing one entry does to the translation of all pages.            *)
(***************************************************************************)
\* UnderTables, page by page.
TablesAbove ==
    \A x \in Vpn, l, h \in Level :
        pte[EntryOf(x, l)] # NoPte /\ h > l => pte[EntryOf(x, h)].kind = "table"

LEMMA ByPage == UnderTables <=> TablesAbove
<1>1. ASSUME NEW x \in Vpn, NEW l \in Level, NEW h \in Level, h > l
      PROVE  /\ EntryOf(x, l) \in Entry
             /\ EntryOf(x, l)[1] = l
             /\ EntryOf(EntryOf(x, l)[2] * Size(EntryOf(x, l)[1]), h) = EntryOf(x, h)
  <2>1. x \in Int /\ l <= h
        BY <1>1, EntriesAre, Sizes
  <2>2. EntryOf(x, l) \in Entry
        BY EntriesAre
  <2>3. /\ EntryOf(x, l)[1] = l
        /\ EntryOf(x, l)[2] * Size(EntryOf(x, l)[1]) = Boundary(x, l)
        BY <2>1, EntryParts
  <2>4. EntryOf(Boundary(x, l), h) = EntryOf(x, h)
        BY <2>1, Nested
  <2>. QED BY <2>2, <2>3, <2>4
<1>2. ASSUME UnderTables, NEW x \in Vpn, NEW l \in Level, NEW h \in Level,
             pte[EntryOf(x, l)] # NoPte, h > l
      PROVE  pte[EntryOf(x, h)].kind = "table"
  <2>1. /\ EntryOf(x, l) \in Entry
        /\ EntryOf(x, l)[1] = l
        /\ EntryOf(EntryOf(x, l)[2] * Size(EntryOf(x, l)[1]), h) = EntryOf(x, h)
        BY <1>1, <1>2
  <2>. QED BY <1>2, <2>1 DEF UnderTables
<1>3. ASSUME TablesAbove, NEW e \in Entry, NEW h \in Level, pte[e] # NoPte, h > e[1]
      PROVE  pte[EntryOf(e[2] * Size(e[1]), h)].kind = "table"
  <2>1. PICK x \in Vpn, l \in Level : e = EntryOf(x, l)
        BY EntriesAre
  <2>2. e[1] = l
        BY <2>1 DEF EntryOf
  <2>3. EntryOf(e[2] * Size(e[1]), h) = EntryOf(x, h)
        BY <1>1, <1>3, <2>1, <2>2
  <2>. QED BY <1>3, <2>1, <2>2, <2>3 DEF TablesAbove
<1>4. UnderTables => TablesAbove
      BY <1>2 DEF TablesAbove
<1>5. TablesAbove => UnderTables
      BY <1>3 DEF UnderTables
<1>. QED BY <1>4, <1>5

LEMMA ByPageNext == TablesAbove' => UnderTables'
BY ByPage, PTL

\* An empty entry with tables above it gets something: what was translated stays
\* so, and new translations come only from a leaf that is put there.
Puts(x, l, p) == pte' = [pte EXCEPT ![EntryOf(x, l)] = p]

Adds(x, l, p) ==
    /\ UnderTables'
    /\ \A y \in Vpn, k \in Level : LeafAt(y, k) =>
          LeafAt(y, k)' /\ pte'[EntryOf(y, k)] = pte[EntryOf(y, k)]
    /\ \A y \in Vpn, k \in Level : LeafAt(y, k)' =>
          \/ LeafAt(y, k)
          \/ p.kind = "leaf" /\ k = l /\ EntryOf(y, l) = EntryOf(x, l)
    /\ \A y \in Vpn : p.kind = "leaf" /\ EntryOf(y, l) = EntryOf(x, l) => LeafAt(y, l)'

LEMMA SetEntry ==
    ASSUME NEW T, pte \in [Entry -> T], UnderTables,
           NEW x \in Vpn, NEW l \in Level, NEW p \in T \ {NoPte},
           pte[EntryOf(x, l)] = NoPte,
           \A h \in Level : h > l => pte[EntryOf(x, h)].kind = "table",
           Puts(x, l, p)
    PROVE  Adds(x, l, p)
<1>. USE DEF Puts
<1>0. (\A k \in Level : k \in Int) /\ (\A y \in Vpn : y \in Int)
      BY ONLY EntriesAre, Sizes
<1>1. /\ \A y \in Vpn, k \in Level : EntryOf(y, k) \in Entry
      /\ NoPte.kind = "none" /\ \A k \in Level : k \in Int
      /\ \A y \in Vpn : y \in Int
      BY <1>0, EntriesAre DEF NoPte
<1>2. \A y \in Vpn, k \in Level :
          pte'[EntryOf(y, k)] = IF EntryOf(y, k) = EntryOf(x, l) THEN p ELSE pte[EntryOf(y, k)]
      BY <1>1
<1>3. \A y \in Vpn, k, h \in Level :
          pte[EntryOf(y, k)] # NoPte /\ h > k => pte[EntryOf(y, h)].kind = "table"
      BY ByPage DEF TablesAbove
<1>4. \A y \in Vpn, k \in Level : EntryOf(y, k) = EntryOf(x, l) =>
          k = l /\ \A h \in Level : l <= h => EntryOf(y, h) = EntryOf(x, h)
  <2>. SUFFICES ASSUME NEW y \in Vpn, NEW k \in Level, EntryOf(y, k) = EntryOf(x, l)
                PROVE  k = l /\ \A h \in Level : l <= h => EntryOf(y, h) = EntryOf(x, h)
       OBVIOUS
  <2>1. x \in Int /\ y \in Int
        BY <1>1
  <2>2. EntryOf(x, l) = EntryOf(y, k)
        OBVIOUS
  <2>. QED BY ONLY <2>1, <2>2, k \in Level, l \in Level, EntryShared
<1>5. UnderTables'
  <2>1. ASSUME NEW y \in Vpn, NEW k \in Level, NEW h \in Level,
               pte'[EntryOf(y, k)] # NoPte, h > k
        PROVE  pte'[EntryOf(y, h)].kind = "table"
    <3>1. CASE EntryOf(y, k) = EntryOf(x, l)
      <4>1. k = l /\ EntryOf(y, h) = EntryOf(x, h)
            BY <1>1, <1>4, <2>1, <3>1
      <4>2. pte[EntryOf(y, h)].kind = "table"
            BY <2>1, <4>1
      <4>3. EntryOf(y, h) # EntryOf(x, l)
            BY <1>1, <4>2
      <4>. QED BY <1>2, <4>2, <4>3
    <3>2. CASE EntryOf(y, k) # EntryOf(x, l)
      <4>1. pte[EntryOf(y, h)].kind = "table"
            BY <1>2, <1>3, <2>1, <3>2
      <4>2. EntryOf(y, h) # EntryOf(x, l)
            BY <1>1, <4>1
      <4>. QED BY <1>2, <4>1, <4>2
    <3>. QED BY <3>1, <3>2
  <2>2. TablesAbove'
        BY <2>1 DEF TablesAbove
  <2>. QED BY <2>2, ByPageNext
<1>6. ASSUME NEW y \in Vpn, NEW k \in Level, LeafAt(y, k)
      PROVE  LeafAt(y, k)' /\ pte'[EntryOf(y, k)] = pte[EntryOf(y, k)]
      BY <1>1, <1>2, <1>6 DEF LeafAt
<1>7. ASSUME NEW y \in Vpn, NEW k \in Level, LeafAt(y, k)', ~LeafAt(y, k)
      PROVE  p.kind = "leaf" /\ k = l /\ EntryOf(y, l) = EntryOf(x, l)
  <2>1. CASE EntryOf(y, k) = EntryOf(x, l)
        BY <1>2, <1>4, <1>7, <2>1 DEF LeafAt
  <2>2. CASE EntryOf(y, k) # EntryOf(x, l)
    <3>1. pte[EntryOf(y, k)].kind = "leaf"
          BY <1>2, <1>7, <2>2 DEF LeafAt
    <3>2. \A h \in Level : h > k => pte[EntryOf(y, h)].kind = "table"
          BY <1>1, <1>3, <3>1
    <3>. QED BY <1>7, <3>1, <3>2 DEF LeafAt
  <2>. QED BY <2>1, <2>2
<1>8. ASSUME NEW y \in Vpn, p.kind = "leaf", EntryOf(y, l) = EntryOf(x, l)
      PROVE  LeafAt(y, l)'
  <2>1. pte'[EntryOf(y, l)] = p
        BY <1>2, <1>8
  <2>2. ASSUME NEW h \in Level, h > l PROVE pte'[EntryOf(y, h)].kind = "table"
    <3>1. EntryOf(y, h) = EntryOf(x, h) /\ pte[EntryOf(x, h)].kind = "table"
          BY <1>1, <1>4, <1>8, <2>2
    <3>. QED BY <1>1, <1>2, <3>1
  <2>. QED BY <1>8, <2>1, <2>2 DEF LeafAt
<1>. QED BY <1>5, <1>6, <1>7, <1>8 DEF Adds

\* An entry with none below it is cleared: only what it translated is lost.
Clears(x, l) == pte' = [pte EXCEPT ![EntryOf(x, l)] = NoPte]

Loses(x, l) ==
    /\ UnderTables'
    /\ \A y \in Vpn, k \in Level : LeafAt(y, k)' => LeafAt(y, k)
    /\ \A y \in Vpn, k \in Level : LeafAt(y, k) /\ EntryOf(y, k) # EntryOf(x, l) =>
          LeafAt(y, k)' /\ pte'[EntryOf(y, k)] = pte[EntryOf(y, k)]

LEMMA ClearEntry ==
    ASSUME NEW T, pte \in [Entry -> T], UnderTables,
           NEW x \in Vpn, NEW l \in Level,
           pte[EntryOf(x, l)].kind # "table" \/ l = 0, Clears(x, l)
    PROVE  Loses(x, l)
<1>1. /\ \A y \in Vpn, k \in Level : EntryOf(y, k) \in Entry
      /\ NoPte.kind = "none"
      BY EntriesAre DEF NoPte
<1>2. \A y \in Vpn, k, h \in Level :
          h > k /\ pte[EntryOf(y, h)].kind = "table" => EntryOf(y, h) # EntryOf(x, l)
  <2>1. \A k, h \in Level : h > k => h # 0
        BY ONLY Sizes
  <2>2. \A y \in Vpn, h \in Level : EntryOf(y, h) = EntryOf(x, l) => h = l
        BY DEF EntryOf
  <2>. QED BY <2>1, <2>2
<1>3. \A y \in Vpn, k \in Level :
          pte'[EntryOf(y, k)] = IF EntryOf(y, k) = EntryOf(x, l) THEN NoPte ELSE pte[EntryOf(y, k)]
      BY <1>1 DEF Clears
<1>4. \A y \in Vpn, k, h \in Level :
          pte[EntryOf(y, k)] # NoPte /\ h > k => pte[EntryOf(y, h)].kind = "table"
      BY ByPage DEF TablesAbove
<1>5. UnderTables'
  <2>1. ASSUME NEW y \in Vpn, NEW k \in Level, NEW h \in Level,
               pte'[EntryOf(y, k)] # NoPte, h > k
        PROVE  pte'[EntryOf(y, h)].kind = "table"
    <3>1. pte[EntryOf(y, h)].kind = "table"
          BY <1>3, <1>4, <2>1
    <3>2. EntryOf(y, h) # EntryOf(x, l)
          BY <1>2, <2>1, <3>1
    <3>. QED BY <1>3, <3>1, <3>2
  <2>2. TablesAbove'
        BY <2>1 DEF TablesAbove
  <2>. QED BY <2>2, ByPageNext
<1>6. ASSUME NEW y \in Vpn, NEW k \in Level, LeafAt(y, k)' PROVE LeafAt(y, k)
      BY <1>1, <1>3, <1>6 DEF LeafAt
<1>7. ASSUME NEW y \in Vpn, NEW k \in Level, LeafAt(y, k), EntryOf(y, k) # EntryOf(x, l)
      PROVE  LeafAt(y, k)' /\ pte'[EntryOf(y, k)] = pte[EntryOf(y, k)]
      BY <1>2, <1>1, <1>3, <1>7 DEF LeafAt
<1>. QED BY <1>5, <1>6, <1>7 DEF Loses

\* A page has one translation.
LEMMA OneLeaf ==
    ASSUME NEW y \in Vpn, NEW k \in Level, NEW l \in Level, LeafAt(y, k), LeafAt(y, l)
    PROVE  k = l
<1>1. k \in Int /\ l \in Int
      BY Sizes
<1>. QED BY <1>1 DEF LeafAt

OneLeafEach == \A y \in Vpn, k, l \in Level : LeafAt(y, k) /\ LeafAt(y, l) => k = l

LEMMA OneLeafNext == OneLeafEach'
<1>1. OneLeafEach
      BY OneLeaf DEF OneLeafEach
<1>. QED BY <1>1, PTL
=============================================================================
