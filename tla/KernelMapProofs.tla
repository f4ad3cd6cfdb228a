--------------------------- MODULE KernelMapProofs ---------------------------
(***************************************************************************)
(* Boot, for every layout of memory, number of levels, size of tables and    *)
(* amount of memory: the kernel moves to the high half without losing a page *)
(* or a pointer it needs, and everything is where it should be in the end.   *)
(***************************************************************************)
EXTENDS KernelMap, PageTreeProofs, FiniteSetTheorems, WellFoundedInduction, TLAPS

-----------------------------------------------------------------------------
(***************************************************************************)
(* The inductive invariant: the list of VMAs.                               *)
(***************************************************************************)
\* The VMA of a region in one of the halves.
Kvma(r, high) ==
    [vpn |-> RegionOf(layout)[r].vpn + (IF high THEN KernelBase ELSE 0),
     pagen |-> RegionOf(layout)[r].pagen]

After(n) == IF n = 8 THEN 0 ELSE n + 1
Before(n) == IF n = 0 THEN 8 ELSE n - 1

\* The list of k VMAs as it is made.
Ring(k) == [n \in 0..k |-> [next |-> <<0, IF n = k THEN 0 ELSE n + 1>>,
                            prev |-> <<0, IF n = 0 THEN k ELSE n - 1>>]]

\* The nodes before j have been moved to the high half.
Moved(j) == [n \in 0..8 |-> LET h == IF n < j THEN 1 ELSE 0
                            IN  [next |-> <<h, After(n)>>, prev |-> <<h, Before(n)>>]]

\* The low VMAs, with odd numbers, before j have been taken off.
Off(n, j) == n \in {1, 3, 5, 7} /\ n < j

Left(j) ==
    [n \in 0..8 |->
        IF Off(n, j) THEN [next |-> <<1, n>>, prev |-> <<1, n>>]
        ELSE [next |-> <<1, IF Off(After(n), j) THEN n + 2 ELSE After(n)>>,
              prev |-> <<1, IF Off(Before(n), j) THEN n - 2 ELSE Before(n)>>]]

\* Where a loop over the list is; 9 is behind the last.
Place == IF node[2] = 0 THEN 9 ELSE node[2]

ListRight ==
    /\ pc \in {"root", "off"} => list = [n \in {} |-> 0]
    /\ pc = "region" => kvmas_head = <<0, 0>> /\ list = Ring(2 * job.region - 2)
    /\ pc = "map" => kvmas_head = <<0, 0>> /\ list = Ring(2 * job.region)
    /\ pc \in {"enable", "head"} => kvmas_head = <<0, 0>> /\ list = Ring(8)
    /\ pc \in {"migrate", "jump", "destroy", "unmap", "done", "user"} => kvmas_head = <<1, 0>>
    /\ pc \in {"migrate", "destroy"} => node \in {1} \X (0..8)
    /\ pc = "migrate" => list = Moved(Place)
    /\ pc = "jump" => list = Moved(9)
    /\ pc = "destroy" => list = Left(Place)
    /\ pc = "unmap" => \E n \in {1, 3, 5, 7} :
                          node = <<1, n>> /\ next = <<1, n + 1>> /\ list = Left(n + 1)
    /\ pc \in {"done", "user"} => list = Left(9)

\* The VMAs that have been made are those of the layout.
Regions == CASE pc \in {"root", "off"} -> 0
             [] pc = "region" -> job.region - 1
             [] pc = "map" -> job.region
             [] OTHER -> 4

VmasRight ==
    pc # "trap" =>
        /\ DOMAIN vma = 1..2*Regions
        /\ \A r \in 1..Regions, high \in BOOLEAN : vma[NodeOf(r, high)] = Kvma(r, high)

Phases ==
    /\ pc \in {"root", "region", "map", "enable", "head", "migrate", "jump", "destroy",
               "unmap", "done", "user", "off", "trap"}
    /\ pc \in {"region", "map"} => job.region \in Region
    /\ pc \in {"root", "off", "region", "map", "enable"} => ~paging
    /\ pc \in {"head", "migrate", "jump", "destroy", "unmap", "done", "user"} => paging
    /\ pc \in {"root", "off", "region", "map", "enable", "head", "migrate", "jump"} => half = 0
    /\ pc \in {"destroy", "unmap", "done", "user"} => half = 1
    /\ pc = "off" => free = 0
    /\ pc = "user" => stale = {}

-----------------------------------------------------------------------------
(***************************************************************************)
(* ... and the tree, while memory has not run out.                          *)
(***************************************************************************)
\* Page x of a VMA has been mapped ...
Made(r, high, x) ==
    /\ pc \notin {"root", "off"}
    /\ pc = "region" => r < job.region
    /\ pc = "map" => \/ NodeOf(r, high) < NodeOf(job.region, job.high)
                     \/ r = job.region /\ high = job.high /\ x < job.vpn

\* ... or unmapped again.
Gone(r, high, x) ==
    /\ ~high
    /\ \/ pc = "destroy" /\ NodeOf(r, FALSE) < Place
       \/ pc = "unmap" /\ NodeOf(r, FALSE) < node[2]
       \/ pc = "unmap" /\ NodeOf(r, FALSE) = node[2] /\ x < job.vpn
       \/ pc \in {"done", "user"}

InUse(x) ==
    \E r \in Region, high \in BOOLEAN :
        x \in Pages(Kvma(r, high)) /\ Made(r, high, x) /\ ~Gone(r, high, x)

MappedRight == \A x \in Vpn : Mapped(x) <=> InUse(x)

\* A large page lies in one VMA, and begins with the frame that it should.
LeavesRight ==
    \A x \in Vpn, l \in Level : LeafAt(x, l) =>
        \E r \in Region, high \in BOOLEAN :
            /\ Fits(Kvma(r, high), x, l)
            /\ pte[EntryOf(x, l)].ppn = Boundary(x, l) - (IF high THEN KernelBase ELSE 0)

\* There is no table without a page.
TablesUsed ==
    pc \in {"root", "region", "map"} =>
        \A x \in Vpn, l \in Level : pte[EntryOf(x, l)].kind = "table" =>
            \E y \in Vpn : EntryOf(y, l) = EntryOf(x, l) /\ Mapped(y)

\* The next page is at the beginning of every large page that fits, so that nothing
\* is in its way.
AtBoundary ==
    pc = "map" =>
        LET v == Kvma(job.region, job.high)
        IN  /\ v.vpn <= job.vpn /\ job.vpn <= v.vpn + v.pagen
            /\ job.ppn = job.vpn - (IF job.high THEN KernelBase ELSE 0)
            /\ \A l \in Level : Fits(v, job.vpn, l) => Boundary(job.vpn, l) = job.vpn

UnmapsForward ==
    pc = "unmap" => vma[node[2]].vpn <= job.vpn /\ job.vpn <= vma[node[2]].vpn + vma[node[2]].pagen

TreeRight ==
    /\ UnderTables
    /\ MappedRight
    /\ LeavesRight
    /\ TablesUsed
    /\ AtBoundary
    /\ UnmapsForward

PteType == {NoPte} \cup [kind : {"table", "leaf"}, ppn : Int]

Basics ==
    /\ TypeOK
    /\ pte \in [Entry -> PteType]
    /\ Phases
    /\ ListRight
    /\ VmasRight

IInv == Basics /\ (free > 0 => TreeRight /\ pc # "trap")

-----------------------------------------------------------------------------
(***************************************************************************)
(* The layout.                                                              *)
(***************************************************************************)
LEMMA Bases ==
    /\ KernelBase \in Nat /\ KernelBase + KernelBase <= Size(Levels)
    /\ \A l \in Level : KernelBase % Size(l) = 0
<1>1. Size(Levels) \in Nat
      BY Sizes
<1>2. \A l \in Level : KernelBase % Size(l) = 0
      BY KernelMapAssumption
<1>. QED BY <1>1, <1>2 DEF KernelBase

\* The regions lie in the low half one after the other.
LEMMA LayoutIs ==
    ASSUME TypeOK
    PROVE  /\ layout.kelf_base \in Nat /\ layout.phys_base \in Nat
           /\ layout.phys_end \in Nat /\ layout.kstack_size \in Nat
           /\ 0 < layout.kstack_size
           /\ layout.kelf_base < layout.phys_base /\ layout.phys_base < layout.phys_end
           /\ layout.phys_end + layout.kstack_size <= KernelBase
BY KernelMapAssumption DEF TypeOK

LEMMA RegionsAre ==
    /\ RegionOf(layout)[1] = [vpn |-> layout.phys_base,
                              pagen |-> layout.phys_end - layout.phys_base]
    /\ RegionOf(layout)[2] = [vpn |-> layout.phys_end, pagen |-> layout.kstack_size]
    /\ RegionOf(layout)[3] = [vpn |-> layout.kelf_base,
                              pagen |-> layout.phys_base - layout.kelf_base]
    /\ RegionOf(layout)[4] = [vpn |-> 0, pagen |-> layout.kelf_base]
BY DEF RegionOf

LEMMA KvmaIs ==
    ASSUME TypeOK, NEW r \in Region, NEW high \in BOOLEAN
    PROVE  /\ RegionOf(layout)[r].vpn \in Nat /\ RegionOf(layout)[r].pagen \in Nat
           /\ RegionOf(layout)[r].vpn + RegionOf(layout)[r].pagen <= KernelBase
           /\ Kvma(r, high).vpn = RegionOf(layout)[r].vpn + (IF high THEN KernelBase ELSE 0)
           /\ Kvma(r, high).pagen = RegionOf(layout)[r].pagen
           /\ Kvma(r, high).vpn \in Nat /\ Kvma(r, high).pagen \in Nat
<1>1. /\ RegionOf(layout)[r].vpn \in Nat /\ RegionOf(layout)[r].pagen \in Nat
      /\ RegionOf(layout)[r].vpn + RegionOf(layout)[r].pagen <= KernelBase
      BY LayoutIs, RegionsAre, Bases DEF Region
<1>2. /\ Kvma(r, high).vpn = RegionOf(layout)[r].vpn + (IF high THEN KernelBase ELSE 0)
      /\ Kvma(r, high).pagen = RegionOf(layout)[r].pagen
      BY DEF Kvma
<1>. QED BY <1>1, <1>2, Bases

\* Every page of a VMA is one of the address space, in the half of the VMA ...
LEMMA KvmaPages ==
    ASSUME TypeOK, NEW r \in Region, NEW high \in BOOLEAN, NEW x \in Pages(Kvma(r, high))
    PROVE  /\ x \in Vpn /\ x \in Nat
           /\ high <=> x >= KernelBase
           /\ x - (IF high THEN KernelBase ELSE 0) \in Pages(RegionOf(layout)[r])
<1>1. /\ RegionOf(layout)[r].vpn \in Nat /\ RegionOf(layout)[r].pagen \in Nat
      /\ RegionOf(layout)[r].vpn + RegionOf(layout)[r].pagen <= KernelBase
      /\ Kvma(r, high).vpn = RegionOf(layout)[r].vpn + (IF high THEN KernelBase ELSE 0)
      /\ Kvma(r, high).pagen = RegionOf(layout)[r].pagen
      BY KvmaIs
<1>2. KernelBase \in Nat /\ KernelBase + KernelBase <= Size(Levels) /\ Size(Levels) \in Nat
      BY Bases, Sizes
<1>. QED BY <1>1, <1>2 DEF Pages, Vpn

LEMMA KvmaEnd ==
    ASSUME TypeOK, NEW r \in Region, NEW high \in BOOLEAN
    PROVE  Kvma(r, high).vpn + Kvma(r, high).pagen <= Size(Levels)
BY KvmaIs, Bases, Sizes

\* ... and of no other VMA.
LEMMA KvmasApart ==
    ASSUME TypeOK, NEW r \in Region, NEW high \in BOOLEAN, NEW s \in Region, NEW g \in BOOLEAN,
           NEW x \in Pages(Kvma(r, high)), x \in Pages(Kvma(s, g))
    PROVE  r = s /\ high = g
<1>1. high = g
      BY KvmaPages
<1>2. PICK y \in Int : y \in Pages(RegionOf(layout)[r]) /\ y \in Pages(RegionOf(layout)[s])
  <2>1. x - (IF high THEN KernelBase ELSE 0) \in Int
        BY KvmaPages, Bases
  <2>. QED BY <1>1, <2>1, KvmaPages
<1>3. r = s
      BY <1>2, LayoutIs, RegionsAre DEF Region, Pages
<1>. QED BY <1>1, <1>3

\* The regions are all of the physical pages.
LEMMA RegionsCover ==
    ASSUME TypeOK, NEW x \in Int
    PROVE  x \in Physical <=> \E r \in Region : x \in Pages(RegionOf(layout)[r])
<1>1. 1 \in Region /\ 2 \in Region /\ 3 \in Region /\ 4 \in Region
      BY DEF Region
<1>2. \A r \in Region : r = 1 \/ r = 2 \/ r = 3 \/ r = 4
      BY DEF Region
<1>3. ASSUME x \in Physical PROVE \E r \in Region : x \in Pages(RegionOf(layout)[r])
  <2>1. \/ x \in Pages(RegionOf(layout)[1]) \/ x \in Pages(RegionOf(layout)[2])
        \/ x \in Pages(RegionOf(layout)[3]) \/ x \in Pages(RegionOf(layout)[4])
        BY <1>3, LayoutIs, RegionsAre DEF Pages, Physical
  <2>. QED BY <1>1, <2>1
<1>4. ASSUME NEW r \in Region, x \in Pages(RegionOf(layout)[r]) PROVE x \in Physical
      BY <1>2, <1>4, LayoutIs, RegionsAre DEF Pages, Physical
<1>. QED BY <1>3, <1>4

\* The nodes of the VMAs are different.
LEMMA Nodes ==
    ASSUME NEW r \in Region, NEW high \in BOOLEAN
    PROVE  /\ NodeOf(r, high) \in 1..8 /\ NodeOf(r, high) <= 2 * r /\ NodeOf(r, high) >= 2 * r - 1
           /\ ~high => NodeOf(r, high) = 2 * r - 1 /\ NodeOf(r, high) \in {1, 3, 5, 7}
           /\ high => NodeOf(r, high) = 2 * r /\ NodeOf(r, high) \in {2, 4, 6, 8}
           /\ \A s \in Region, g \in BOOLEAN : NodeOf(s, g) = NodeOf(r, high) => s = r /\ g = high
BY DEF NodeOf, Region

LEMMA NodesAre ==
    \A n \in 1..8 : \E r \in Region, high \in BOOLEAN : n = NodeOf(r, high)
<1>. SUFFICES ASSUME NEW n \in 1..8 PROVE \E r \in Region, high \in BOOLEAN : n = NodeOf(r, high)
     OBVIOUS
<1>1. CASE n \in {1, 3, 5, 7}
  <2>1. \E r \in Region : n = NodeOf(r, FALSE)
        BY <1>1 DEF NodeOf, Region
  <2>. QED BY <2>1
<1>2. CASE n \in {2, 4, 6, 8}
  <2>1. \E r \in Region : n = NodeOf(r, TRUE)
        BY <1>2 DEF NodeOf, Region
  <2>. QED BY <2>1
<1>. QED BY <1>1, <1>2

-----------------------------------------------------------------------------
(***************************************************************************)
(* The list.                                                                *)
(***************************************************************************)
Links(D) == [D -> [next : Pointer, prev : Pointer]]

LEMMA Shapes ==
    /\ \A k \in 0..8 : Ring(k) \in Links(0..k)
    /\ \A j \in 0..9 : Moved(j) \in Links(0..8) /\ Left(j) \in Links(0..8)
<1>1. ASSUME NEW k \in 0..8 PROVE Ring(k) \in Links(0..k)
  <2>1. \A n \in 0..k : (IF n = k THEN 0 ELSE n + 1) \in 0..8 /\ (IF n = 0 THEN k ELSE n - 1) \in 0..8
        OBVIOUS
  <2>2. \A m \in 0..8 : <<0, m>> \in Pointer
        BY DEF Pointer
  <2>. QED BY <2>1, <2>2 DEF Ring, Links
<1>2. \A m \in 0..8 : <<0, m>> \in Pointer /\ <<1, m>> \in Pointer
      BY DEF Pointer
<1>3. \A n \in 0..8 : After(n) \in 0..8 /\ Before(n) \in 0..8
      BY DEF After, Before
<1>4. ASSUME NEW j \in 0..9 PROVE Moved(j) \in Links(0..8)
      BY <1>2, <1>3 DEF Moved, Links
<1>5. ASSUME NEW j \in 0..9 PROVE Left(j) \in Links(0..8)
  <2>1. \A n \in 0..8 : /\ Off(After(n), j) => n + 2 \in 0..8
                        /\ Off(Before(n), j) => n - 2 \in 0..8
        BY DEF After, Before, Off
  <2>. QED BY <1>2, <1>3, <2>1 DEF Left, Links
<1>. QED BY <1>1, <1>4, <1>5

LEMMA AppendRing ==
    ASSUME NEW k \in 0..7
    PROVE  Appended(Ring(k), <<0, 0>>, k + 1) = Ring(k + 1)
<1>. DEFINE L == Ring(k)
            M == [L EXCEPT ![0].prev = <<0, k + 1>>]
            N == [M EXCEPT ![k].next = <<0, k + 1>>]
<1>1. /\ DOMAIN L = 0..k /\ L[0].prev = <<0, k>>
      /\ \A i \in 0..k : L[i] = [next |-> <<0, IF i = k THEN 0 ELSE i + 1>>,
                                 prev |-> <<0, IF i = 0 THEN k ELSE i - 1>>]
      /\ L = [i \in 0..k |-> L[i]]
      BY DEF Ring
<1>2. Appended(L, <<0, 0>>, k + 1) =
        [i \in 0..k \cup {k + 1} |->
            IF i = k + 1 THEN [next |-> <<0, 0>>, prev |-> <<0, k>>] ELSE N[i]]
  <2>. DEFINE A == [L EXCEPT ![<<0, 0>>[2]].prev = <<<<0, 0>>[1], k + 1>>]
              B == [A EXCEPT ![L[<<0, 0>>[2]].prev[2]].next = <<<<0, 0>>[1], k + 1>>]
  <2>1. /\ <<0, 0>>[1] = 0 /\ <<0, 0>>[2] = 0 /\ <<0, k>>[2] = k
        OBVIOUS
  <2>. HIDE DEF L
  <2>2. Appended(L, <<0, 0>>, k + 1) =
          [i \in DOMAIN L \cup {k + 1} |->
              IF i = k + 1 THEN [next |-> <<0, 0>>, prev |-> L[<<0, 0>>[2]].prev] ELSE B[i]]
        BY DEF Appended
  <2>3. L[<<0, 0>>[2]].prev = <<0, k>> /\ L[<<0, 0>>[2]].prev[2] = k
        BY <1>1, <2>1
  <2>4. A = M
        BY <2>1
  <2>. HIDE DEF A, M
  <2>5. B = N
        BY <2>1, <2>3, <2>4
  <2>. HIDE DEF B, N
  <2>. QED BY <1>1, <2>2, <2>3, <2>5
<1>. HIDE DEF L
<1>3. \A i \in 0..k : L[i] = [next |-> L[i].next, prev |-> L[i].prev]
      BY <1>1
<1>4. /\ \A i \in 0..k : i # 0 => M[i] = L[i]
      /\ M[0] = [next |-> L[0].next, prev |-> <<0, k + 1>>]
  <2>1. [L[0] EXCEPT !.prev = <<0, k + 1>>] = [next |-> L[0].next, prev |-> <<0, k + 1>>]
    <3>1. L[0] = [next |-> L[0].next, prev |-> L[0].prev]
          BY <1>3
    <3>. QED BY <3>1
  <2>2. M[0] = [L[0] EXCEPT !.prev = <<0, k + 1>>] /\ \A i \in 0..k : i # 0 => M[i] = L[i]
        BY <1>1
  <2>. QED BY <2>1, <2>2
<1>5. DOMAIN M = 0..k
      BY <1>1
<1>. HIDE DEF M
<1>6. \A i \in 0..k : M[i] = [next |-> M[i].next, prev |-> M[i].prev]
      BY <1>3, <1>4
<1>7. /\ \A i \in 0..k : i # k => N[i] = M[i]
      /\ N[k] = [next |-> <<0, k + 1>>, prev |-> M[k].prev]
  <2>1. [M[k] EXCEPT !.next = <<0, k + 1>>] = [next |-> <<0, k + 1>>, prev |-> M[k].prev]
    <3>1. M[k] = [next |-> M[k].next, prev |-> M[k].prev]
          BY <1>6
    <3>. QED BY <3>1
  <2>2. N[k] = [M[k] EXCEPT !.next = <<0, k + 1>>] /\ \A i \in 0..k : i # k => N[i] = M[i]
        BY <1>5
  <2>. QED BY <2>1, <2>2
<1>. HIDE DEF N
<1>8. 0..k \cup {k + 1} = 0..k+1
      OBVIOUS
<1>9. \A i \in 0..k+1 :
        (IF i = k + 1 THEN [next |-> <<0, 0>>, prev |-> <<0, k>>] ELSE N[i]) =
            [next |-> <<0, IF i = k + 1 THEN 0 ELSE i + 1>>,
             prev |-> <<0, IF i = 0 THEN k + 1 ELSE i - 1>>]
  <2>. TAKE i \in 0..k+1
  <2>1. CASE i = k + 1
        BY <2>1
  <2>2. CASE i \in 0..k
    <3>1. L[i].next = <<0, IF i = k THEN 0 ELSE i + 1>> /\ L[i].prev = <<0, IF i = 0 THEN k ELSE i - 1>>
          BY <1>1, <2>2
    <3>2. N[i].prev = <<0, IF i = 0 THEN k + 1 ELSE i - 1>>
          BY <1>4, <1>7, <2>2, <3>1
    <3>3. N[i].next = <<0, i + 1>>
          BY <1>4, <1>7, <2>2, <3>1
    <3>4. N[i] = [next |-> N[i].next, prev |-> N[i].prev]
          BY <1>6, <1>7, <2>2
    <3>5. i # k + 1
          BY <2>2
    <3>. QED BY ONLY <3>2, <3>3, <3>4, <3>5
  <2>. QED BY <2>1, <2>2
<1>10. Appended(L, <<0, 0>>, k + 1) = Ring(k + 1)
      BY <1>2, <1>8, <1>9 DEF Ring
<1>. QED BY <1>10 DEF L

LEMMA MigrateNode ==
    ASSUME NEW j \in 0..8, NEW h
    PROVE  /\ Migrated(Moved(j), <<h, j>>) = Moved(j + 1)
           /\ Moved(j + 1)[j].next = <<1, After(j)>>
<1>. DEFINE L == Moved(j)
<1>1. \A i \in 0..9 : \A n \in 0..8 :
        /\ n < i => Moved(i)[n] = [next |-> <<1, After(n)>>, prev |-> <<1, Before(n)>>]
        /\ ~(n < i) => Moved(i)[n] = [next |-> <<0, After(n)>>, prev |-> <<0, Before(n)>>]
      BY DEF Moved
<1>2. \A i \in 0..9 : Moved(i) = [n \in 0..8 |-> Moved(i)[n]]
      BY DEF Moved
<1>3. Moved(j)[j] = [next |-> <<0, After(j)>>, prev |-> <<0, Before(j)>>]
  <2>1. j \in 0..9 /\ j + 1 \in 0..9 /\ ~(j < j) /\ j < j + 1
        OBVIOUS
  <2>. QED BY <1>1, <2>1, Zenon
<1>4. Migrated(L, <<h, j>>) =
        [n \in 0..8 |-> IF n = j THEN [next |-> Higher(L[j].next), prev |-> Higher(L[j].prev)]
                        ELSE L[n]]
  <2>1. <<h, j>>[2] = j /\ L = [n \in 0..8 |-> L[n]]
        BY <1>2
  <2>. HIDE DEF L
  <2>. QED BY <2>1 DEF Migrated
<1>5. /\ Higher(L[j].next) = <<1, After(j)>> /\ Higher(L[j].prev) = <<1, Before(j)>>
      BY <1>3 DEF Higher
<1>6. \A n \in 0..8 : n # j => Moved(j + 1)[n] = L[n]
      BY <1>1
<1>7. Moved(j + 1)[j] = [next |-> <<1, After(j)>>, prev |-> <<1, Before(j)>>]
  <2>1. j \in 0..9 /\ j + 1 \in 0..9 /\ ~(j < j) /\ j < j + 1
        OBVIOUS
  <2>. QED BY <1>1, <2>1, Zenon
<1>. HIDE DEF L
<1>8. Migrated(L, <<h, j>>) = [n \in 0..8 |-> Moved(j + 1)[n]]
      BY <1>4, <1>5, <1>6, <1>7
<1>9. Moved(j + 1) = [n \in 0..8 |-> Moved(j + 1)[n]]
      BY <1>2
<1>. QED BY <1>7, <1>8, <1>9 DEF L

LEMMA FirstShapes ==
    /\ Ring(8) = Moved(0)
    /\ Moved(9) = Left(1)
    /\ Moved(9)[0].next = <<1, 1>>
<1>1. Ring(8) = Moved(0)
      BY DEF Ring, Moved, After, Before
<1>2. \A n \in 0..8 : ~Off(n, 1) /\ ~Off(After(n), 1) /\ ~Off(Before(n), 1)
      BY DEF Off, After, Before
<1>3. Moved(9) = Left(1)
      BY <1>2 DEF Moved, Left
<1>. QED BY <1>1, <1>3 DEF Moved, After

LEMMA LeftIs ==
    ASSUME NEW j \in 0..9
    PROVE  /\ Left(j) = [n \in 0..8 |-> Left(j)[n]]
           /\ \A n \in 0..8 : Left(j)[n] =
                IF Off(n, j) THEN [next |-> <<1, n>>, prev |-> <<1, n>>]
                ELSE [next |-> <<1, IF Off(After(n), j) THEN n + 2 ELSE After(n)>>,
                      prev |-> <<1, IF Off(Before(n), j) THEN n - 2 ELSE Before(n)>>]
BY DEF Left

LEMMA LeftStep ==
    ASSUME NEW j \in {2, 4, 6, 8}
    PROVE  /\ Left(j) = Left(j + 1)
           /\ Left(j)[j].next = <<1, After(j)>>
<1>1. \A n \in 0..8 : Off(n, j) <=> Off(n, j + 1)
      BY DEF Off
<1>2. \A n \in 0..8 : After(n) \in 0..8 /\ Before(n) \in 0..8
      BY DEF After, Before
<1>3. ~Off(j, j) /\ ~Off(After(j), j)
      BY DEF Off, After
<1>4. j \in 0..9 /\ j + 1 \in 0..9
      OBVIOUS
<1>5. \A n \in 0..8 : Left(j)[n] = Left(j + 1)[n]
  <2>. TAKE n \in 0..8
  <2>1. /\ Off(n, j) <=> Off(n, j + 1)
        /\ Off(After(n), j) <=> Off(After(n), j + 1)
        /\ Off(Before(n), j) <=> Off(Before(n), j + 1)
        BY <1>1, <1>2
  <2>. QED BY <1>4, <2>1, LeftIs
<1>6. Left(j) = Left(j + 1)
      BY <1>4, <1>5, LeftIs
<1>7. Left(j)[j].next = <<1, After(j)>>
      BY <1>3, <1>4 DEF Left
<1>. QED BY <1>6, <1>7

\* list_remove: the neighbours a and b of node n are linked to each other, n to itself.
Skipped(L, n, a, b) ==
    [i \in 0..8 |->
        IF i = n THEN [next |-> <<1, n>>, prev |-> <<1, n>>]
        ELSE [next |-> IF i = a THEN L[n].next ELSE L[i].next,
              prev |-> IF i = b THEN L[n].prev ELSE L[i].prev]]

LEMMA RemovedIs ==
    ASSUME NEW L \in Links(0..8), NEW n \in 0..8, NEW a \in 0..8, NEW b \in 0..8,
           a # n, b # n, L[n].prev[2] = a, L[n].next[2] = b
    PROVE  Removed(L, <<1, n>>) = Skipped(L, n, a, b)
<1>1. L \in [0..8 -> [next : Pointer, prev : Pointer]]
      BY DEF Links
<1>. DEFINE M == [L EXCEPT ![a].next = L[n].next]
            N == [M EXCEPT ![b].prev = L[n].prev]
<1>2. /\ M = [i \in 0..8 |-> [next |-> IF i = a THEN L[n].next ELSE L[i].next,
                              prev |-> L[i].prev]]
      /\ M[n] = L[n]
  <2>1. \A i \in 0..8 : L[i] = [next |-> L[i].next, prev |-> L[i].prev]
        BY <1>1
  <2>2. [L[a] EXCEPT !.next = L[n].next] = [next |-> L[n].next, prev |-> L[a].prev]
        BY <2>1
  <2>3. M = [i \in 0..8 |-> IF i = a THEN [L[a] EXCEPT !.next = L[n].next] ELSE L[i]]
        BY <1>1
  <2>. QED BY <1>1, <2>1, <2>2, <2>3
<1>. HIDE DEF M
<1>3. N = [i \in 0..8 |-> [next |-> IF i = a THEN L[n].next ELSE L[i].next,
                           prev |-> IF i = b THEN L[n].prev ELSE L[i].prev]]
  <2>1. [M[b] EXCEPT !.prev = L[n].prev] =
          [next |-> IF b = a THEN L[n].next ELSE L[b].next, prev |-> L[n].prev]
        BY <1>2
  <2>2. N = [i \in 0..8 |-> IF i = b THEN [M[b] EXCEPT !.prev = L[n].prev] ELSE M[i]]
        BY <1>2
  <2>. QED BY <1>2, <2>1, <2>2
<1>. HIDE DEF N
<1>4. Removed(L, <<1, n>>) = [N EXCEPT ![n] = [next |-> <<1, n>>, prev |-> <<1, n>>]]
  <2>1. <<1, n>>[2] = n
        OBVIOUS
  <2>2. N = [M EXCEPT ![M[n].next[2]].prev = M[n].prev]
        BY <1>2 DEF N
  <2>3. M = [L EXCEPT ![L[n].prev[2]].next = L[n].next]
        BY DEF M
  <2>. QED BY <2>1, <2>2, <2>3, Zenon DEF Removed
<1>. QED BY <1>3, <1>4 DEF Skipped

LEMMA LeftRemove ==
    ASSUME NEW j \in {1, 3, 5, 7}
    PROVE  /\ Removed(Left(j), <<1, j>>) = Left(j + 1)
           /\ Left(j)[j].next = <<1, j + 1>>
<1>. DEFINE L == Left(j)
            R == Skipped(L, j, j - 1, j + 1)
<1>1. /\ L \in Links(0..8)
      /\ j \in 0..8 /\ j - 1 \in 0..8 /\ j + 1 \in 0..8 /\ j - 1 # j /\ j + 1 # j
      BY Shapes
<1>2. L[j].next = <<1, j + 1>> /\ L[j].prev = <<1, j - 1>>
      BY DEF Left, Off, After, Before
<1>3. \A n \in 0..8 : Left(j + 1)[n] = R[n]
  <2>. USE DEF Skipped
  <2>1. /\ \A n \in 0..8 : /\ Off(n, j + 1) <=> (Off(n, j) \/ n = j)
                           /\ (After(n) = j) <=> (n = j - 1)
                           /\ (Before(n) = j) <=> (n = j + 1)
        /\ ~Off(j - 1, j) /\ ~Off(j + 1, j) /\ ~Off(j, j)
        BY DEF Off, After, Before
  <2>2. \A n \in 0..8 : After(n) \in 0..8 /\ Before(n) \in 0..8
        BY DEF After, Before
  <2>. SUFFICES ASSUME NEW n \in 0..8 PROVE Left(j + 1)[n] = R[n]
       OBVIOUS
  <2>3. L[n] =
          IF Off(n, j) THEN [next |-> <<1, n>>, prev |-> <<1, n>>]
          ELSE [next |-> <<1, IF Off(After(n), j) THEN n + 2 ELSE After(n)>>,
                prev |-> <<1, IF Off(Before(n), j) THEN n - 2 ELSE Before(n)>>]
        BY DEF Left
  <2>4. Left(j + 1)[n] =
          IF Off(n, j + 1) THEN [next |-> <<1, n>>, prev |-> <<1, n>>]
          ELSE [next |-> <<1, IF Off(After(n), j + 1) THEN n + 2 ELSE After(n)>>,
                prev |-> <<1, IF Off(Before(n), j + 1) THEN n - 2 ELSE Before(n)>>]
        BY DEF Left
  <2>5. CASE n = j
    <3>1. Off(j, j + 1)
          BY <1>1, <2>1
    <3>. QED BY <2>4, <2>5, <3>1
  <2>. HIDE DEF L
  <2>6. CASE n # j /\ Off(n, j)
    <3>1. Off(n, j + 1) /\ n # j - 1 /\ n # j + 1
          BY <2>1, <2>6
    <3>. QED BY <2>3, <2>4, <2>6, <3>1
  <2>7. CASE n # j /\ ~Off(n, j)
    <3>1. ~Off(n, j + 1)
          BY <2>1, <2>7
    <3>2. /\ Off(After(n), j + 1) <=> (Off(After(n), j) \/ n = j - 1)
          /\ Off(Before(n), j + 1) <=> (Off(Before(n), j) \/ n = j + 1)
          BY <2>1, <2>2
    <3>3. CASE n = j - 1
          BY <1>1, <1>2, <2>3, <2>4, <2>7, <3>1, <3>2, <3>3
    <3>4. CASE n = j + 1
          BY <1>1, <1>2, <2>3, <2>4, <2>7, <3>1, <3>2, <3>4
    <3>5. CASE n # j - 1 /\ n # j + 1
          BY <2>3, <2>4, <2>7, <3>1, <3>2, <3>5
    <3>. QED BY <3>3, <3>4, <3>5
  <2>. QED BY <2>5, <2>6, <2>7
<1>4. Left(j + 1) = R
  <2>1. Left(j + 1) = [n \in 0..8 |-> Left(j + 1)[n]]
        BY DEF Left
  <2>2. R = [n \in 0..8 |-> R[n]]
        BY DEF Skipped
  <2>. HIDE DEF R, L
  <2>. QED BY <1>3, <2>1, <2>2
<1>. HIDE DEF L
<1>5. Removed(L, <<1, j>>) = Skipped(L, j, j - 1, j + 1)
  <2>1. L[j].prev[2] = j - 1 /\ L[j].next[2] = j + 1
        BY <1>2
  <2>. QED BY <1>1, <2>1, RemovedIs
<1>. QED BY <1>2, <1>4, <1>5 DEF L

-----------------------------------------------------------------------------
(***************************************************************************)
(* Pages and boundaries.                                                    *)
(***************************************************************************)
LEMMA Multiples ==
    /\ \A q \in Int, s \in Nat \ {0} : (q * s) % s = 0
    /\ \A x \in Int, s \in Nat \ {0} : x % s = 0 => x = (x \div s) * s
OBVIOUS

\* A page that begins at a boundary does so on the lower levels too.
LEMMA LowerBoundary ==
    ASSUME NEW x \in Int, NEW l \in Level, NEW h \in Level, h <= l, Boundary(x, l) = x
    PROVE  Boundary(x, h) = x
BY Nested, Boundaries

LEMMA BoundaryAtBoundary ==
    ASSUME NEW x \in Int, NEW l \in Level
    PROVE  Boundary(Boundary(x, l), l) = Boundary(x, l)
<1>1. EntryOf(Boundary(x, l), l) = EntryOf(x, l)
      BY Nested, Sizes
<1>2. Boundary(x, l) \in Int
      BY Boundaries
<1>. QED BY <1>1, <1>2, EntryParts

\* Of two boundaries the first ends before the second begins.
LEMMA BoundariesApart ==
    ASSUME NEW x \in Int, NEW y \in Int, NEW l \in Level,
           Boundary(x, l) = x, Boundary(y, l) = y, x < y
    PROVE  x + Size(l) <= y
<1>1. Size(l) \in Nat \ {0}
      BY Sizes
<1>2. PICK q \in Int : x = q * Size(l)
      BY Division, <1>1 DEF Boundary
<1>3. PICK r \in Int : y = r * Size(l)
      BY Division, <1>1 DEF Boundary
<1>. DEFINE s == Size(l)
<1>. HIDE DEF s
<1>4. q + 1 <= r
  <2>1. s \in Nat \ {0} /\ q * s < r * s
        BY <1>1, <1>2, <1>3 DEF s
  <2>2. ASSUME r <= q PROVE FALSE
    <3>1. r * s <= q * s
          BY <2>1, <2>2
    <3>. QED BY <2>1, <3>1
  <2>. QED BY <2>2
<1>5. (q + 1) * s = q * s + s /\ (q + 1) * s <= r * s
      BY <1>1, <1>4 DEF s
<1>. QED BY <1>1, <1>2, <1>3, <1>5 DEF s

\* The page behind a page of level l begins at a boundary, or lies inside a larger
\* page that the first page was in too.
LEMMA NextBoundary ==
    ASSUME NEW x \in Int, NEW l \in Level, NEW h \in Level, Boundary(x, l) = x
    PROVE  \/ Boundary(x + Size(l), h) = x + Size(l)
           \/ l < h /\ Boundary(x, h) = Boundary(x + Size(l), h)
<1>. DEFINE y == x + Size(l)
            b == Boundary(y, h)
<1>1. /\ Size(l) \in Nat \ {0} /\ Size(h) \in Nat \ {0} /\ l \in Int /\ h \in Int /\ y \in Int
      /\ b \in Int /\ b <= y /\ y < b + Size(h)
      BY Boundaries, Sizes
<1>2. Boundary(y, l) = y
  <2>1. x \div Size(l) \in Int /\ (x \div Size(l)) * Size(l) = x
        BY <1>1, Division DEF Boundary
  <2>. DEFINE q == x \div Size(l)
              s == Size(l)
  <2>2. (q + 1) * s = y
        BY <1>1, <2>1
  <2>. HIDE DEF q, s
  <2>3. q + 1 \in Int /\ s \in Nat \ {0} /\ (q + 1) * s <= y /\ y < (q + 1) * s + s
        BY <1>1, <2>1, <2>2 DEF q, s
  <2>4. y \div s = q + 1
        BY <1>1, <2>3, Quotient
  <2>. QED BY <2>2, <2>4 DEF Boundary, s
<1>3. CASE h <= l
      BY <1>1, <1>2, <1>3, LowerBoundary
<1>4. CASE l < h /\ b # y
  <2>1. Boundary(b, l) = b
    <3>1. Boundary(b, h) = b
          BY <1>1, BoundaryAtBoundary
    <3>. QED BY <1>1, <1>4, <3>1, LowerBoundary
  <2>2. b <= x
    <3>1. b + Size(l) <= y
          BY <1>1, <1>2, <1>4, <2>1, BoundariesApart
    <3>. QED BY <1>1, <3>1
  <2>3. Boundary(x, h) = b
    <3>1. y \div Size(h) \in Int /\ (y \div Size(h)) * Size(h) = b
          BY <1>1, Division DEF Boundary
    <3>2. x \div Size(h) = y \div Size(h)
          BY <1>1, <2>2, <3>1, Quotient
    <3>. QED BY <3>2 DEF Boundary
  <2>. QED BY <1>4, <2>3
<1>. QED BY <1>1, <1>3, <1>4

-----------------------------------------------------------------------------
(***************************************************************************)
(* What can be used.                                                        *)
(***************************************************************************)
\* A page of a VMA that is mapped is mapped to the frame that it should.
LEMMA Translated ==
    ASSUME TypeOK, LeavesRight, NEW r \in Region, NEW high \in BOOLEAN,
           NEW x \in Pages(Kvma(r, high)), Mapped(x)
    PROVE  MapsTo(x, x - (IF high THEN KernelBase ELSE 0))
<1>. DEFINE k == IF high THEN KernelBase ELSE 0
<1>1. x \in Vpn /\ x \in Int
      BY KvmaPages
<1>2. PICK l \in Level : LeafAt(x, l)
      BY DEF Mapped
<1>3. PICK s \in Region, g \in BOOLEAN :
        /\ Fits(Kvma(s, g), x, l)
        /\ pte[EntryOf(x, l)].ppn = Boundary(x, l) - (IF g THEN KernelBase ELSE 0)
      BY <1>1, <1>2 DEF LeavesRight
<1>4. /\ Boundary(x, l) \in Int /\ Boundary(x, l) <= x /\ x < Boundary(x, l) + Size(l)
      /\ Size(l) \in Nat \ {0} /\ k \in Int
      BY <1>1, Boundaries, Sizes, Bases
<1>5. x \in Pages(Kvma(s, g))
      BY <1>1, <1>3, <1>4, KvmaIs DEF Fits, Pages
<1>6. pte[EntryOf(x, l)].ppn = Boundary(x, l) - k
  <2>1. s = r /\ g = high
        BY <1>5, KvmasApart
  <2>. QED BY <1>3, <2>1
<1>7. (Boundary(x, l) - k) % Size(l) = 0
  <2>1. PICK q \in Int : Boundary(x, l) = q * Size(l)
        BY <1>1, <1>4, Division DEF Boundary
  <2>2. PICK p \in Int : k = p * Size(l)
    <3>1. KernelBase \in Int /\ KernelBase % Size(l) = 0
          BY Bases
    <3>2. KernelBase = (KernelBase \div Size(l)) * Size(l) /\ KernelBase \div Size(l) \in Int
          BY <1>4, <3>1, Multiples, Division
    <3>3. 0 = 0 * Size(l)
          BY <1>4
    <3>. QED BY <3>2, <3>3
  <2>. DEFINE s1 == Size(l)
  <2>3. q * s1 - p * s1 = (q - p) * s1
        BY <1>4
  <2>4. q - p \in Int
        OBVIOUS
  <2>5. ((q - p) * s1) % s1 = 0
        BY <1>4, <2>4, Multiples
  <2>. QED BY <2>1, <2>2, <2>3, <2>5
<1>8. x - k = (Boundary(x, l) - k) + x - Boundary(x, l)
      BY <1>1, <1>4
<1>. QED BY <1>2, <1>6, <1>7, <1>8 DEF MapsTo

\* A region can be used in the half it is needed in: before the jump nothing of the
\* low half is gone.
LEMMA UsedThere ==
    ASSUME TypeOK, MappedRight, LeavesRight, paging,
           NEW r \in Region, NEW high \in BOOLEAN,
           \A x \in Pages(Kvma(r, high)) : Made(r, high, x) /\ ~Gone(r, high, x)
    PROVE  There(r, IF high THEN 1 ELSE 0)
<1>. DEFINE h == IF high THEN 1 ELSE 0
<1>1. KernelBase \in Nat /\ h * KernelBase = IF high THEN KernelBase ELSE 0
      BY Bases
<1>2. ASSUME NEW p \in Pages(RegionOf(layout)[r]) PROVE MapsTo(h * KernelBase + p, p)
  <2>. DEFINE x == h * KernelBase + p
  <2>1. /\ RegionOf(layout)[r].vpn \in Nat /\ RegionOf(layout)[r].pagen \in Nat
        /\ Kvma(r, high).vpn = RegionOf(layout)[r].vpn + (IF high THEN KernelBase ELSE 0)
        /\ Kvma(r, high).pagen = RegionOf(layout)[r].pagen
        BY KvmaIs
  <2>2. p \in Int /\ x \in Int /\ x \in Pages(Kvma(r, high)) /\ x - h * KernelBase = p
        BY <1>1, <2>1 DEF Pages
  <2>3. x \in Vpn
        BY <2>2, KvmaPages
  <2>4. Mapped(x)
        BY <2>2, <2>3 DEF MappedRight, InUse
  <2>5. MapsTo(x, x - (IF high THEN KernelBase ELSE 0))
        BY <2>2, <2>4, Translated
  <2>. QED BY <1>1, <2>2, <2>5
<1>3. h \in {0, 1}
      OBVIOUS
<1>. QED BY <1>2, <1>3 DEF There

Moving == {"head", "migrate", "jump", "destroy", "unmap", "done", "user"}

LEMMA Runs ==
    ASSUME IInv, free > 0, pc \in Moving
    PROVE  /\ CanRun
           /\ CanFollow(<<1, 0>>)
           /\ pc \in {"migrate", "destroy"} => CanFollow(node) /\ CanFollow(kvmas_head)
<1>1. TypeOK /\ MappedRight /\ LeavesRight /\ paging
      BY DEF IInv, Basics, TreeRight, Phases, Moving
<1>2. \A r \in Region, high \in BOOLEAN : \A x \in Pages(Kvma(r, high)) : Made(r, high, x)
      BY DEF Made, Moving
<1>3. \A r \in Region : \A x \in Pages(Kvma(r, TRUE)) : ~Gone(r, TRUE, x)
      BY DEF Gone
<1>4. \A r \in Region : There(r, 1)
  <2>. TAKE r \in Region
  <2>1. There(r, IF TRUE THEN 1 ELSE 0)
        BY <1>1, <1>2, <1>3, UsedThere
  <2>. QED BY <2>1
<1>5. \A r \in Region : There(r, half)
  <2>1. CASE pc \in {"head", "migrate", "jump"}
    <3>1. half = 0
          BY <2>1 DEF IInv, Basics, Phases
    <3>2. \A r \in Region : \A x \in Pages(Kvma(r, FALSE)) : ~Gone(r, FALSE, x)
          BY <2>1 DEF Gone
    <3>. SUFFICES ASSUME NEW r \in Region PROVE There(r, half)
         OBVIOUS
    <3>3. There(r, IF FALSE THEN 1 ELSE 0)
          BY <1>1, <1>2, <3>2, UsedThere
    <3>. QED BY <3>1, <3>3
  <2>2. CASE pc \in {"destroy", "unmap", "done", "user"}
    <3>1. half = 1
          BY <2>2 DEF IInv, Basics, Phases
    <3>. QED BY <1>4, <3>1
  <2>. QED BY <2>1, <2>2 DEF Moving
<1>6. CanRun
      BY <1>1, <1>4, <1>5 DEF CanRun, Region
<1>7. \A n : CanFollow(<<1, n>>)
      BY <1>4 DEF CanFollow, Region
<1>8. pc \in {"migrate", "destroy"} => node \in {1} \X (0..8) /\ kvmas_head = <<1, 0>>
      BY DEF IInv, Basics, ListRight
<1>. QED BY <1>6, <1>7, <1>8

\* When boot is over, everything is where it should be.
LEMMA MapsAll ==
    ASSUME IInv
    PROVE  BootMaps
<1>. SUFFICES ASSUME pc = "user"
              PROVE  /\ stale = {}
                     /\ free > 0 => \A vpn \in Vpn :
                          IF vpn - KernelBase \in Physical
                          THEN MapsTo(vpn, vpn - KernelBase) ELSE ~Mapped(vpn)
     BY DEF BootMaps
<1>1. stale = {} /\ TypeOK
      BY DEF IInv, Basics, Phases
<1>. SUFFICES ASSUME free > 0, NEW x \in Vpn
              PROVE  IF x - KernelBase \in Physical THEN MapsTo(x, x - KernelBase) ELSE ~Mapped(x)
     BY <1>1
<1>2. MappedRight /\ LeavesRight
      BY DEF IInv, TreeRight
<1>3. x \in Int /\ KernelBase \in Int /\ x - KernelBase \in Int
      BY EntriesAre, Bases
<1>4. \A r \in Region : x \in Pages(Kvma(r, TRUE)) <=> x - KernelBase \in Pages(RegionOf(layout)[r])
  <2>. TAKE r \in Region
  <2>1. /\ RegionOf(layout)[r].vpn \in Nat /\ RegionOf(layout)[r].pagen \in Nat
        /\ Kvma(r, TRUE).vpn = RegionOf(layout)[r].vpn + KernelBase
        /\ Kvma(r, TRUE).pagen = RegionOf(layout)[r].pagen
        BY <1>1, KvmaIs
  <2>. DEFINE v == RegionOf(layout)[r].vpn
              n == RegionOf(layout)[r].pagen
  <2>2. Pages(Kvma(r, TRUE)) = v + KernelBase .. v + KernelBase + n - 1
        BY <2>1 DEF Pages
  <2>3. Pages(RegionOf(layout)[r]) = v .. v + n - 1
        BY DEF Pages
  <2>4. v \in Int /\ n \in Int
        BY <2>1
  <2>. HIDE DEF v, n
  <2>5. x \in v + KernelBase .. v + KernelBase + n - 1 <=> x - KernelBase \in v .. v + n - 1
        BY <1>3, <2>4
  <2>. QED BY <2>2, <2>3, <2>5, Zenon
<1>5. Mapped(x) <=> \E r \in Region : x \in Pages(Kvma(r, TRUE))
  <2>1. \A r \in Region, high \in BOOLEAN : Made(r, high, x) /\ (Gone(r, high, x) <=> ~high)
        BY DEF Made, Gone
  <2>2. InUse(x) <=> \E r \in Region : x \in Pages(Kvma(r, TRUE))
        BY <2>1 DEF InUse
  <2>. QED BY <1>2, <2>2 DEF MappedRight
<1>6. x - KernelBase \in Physical <=> Mapped(x)
      BY <1>1, <1>3, <1>4, <1>5, RegionsCover
<1>7. ASSUME Mapped(x) PROVE MapsTo(x, x - KernelBase)
  <2>1. PICK r \in Region : x \in Pages(Kvma(r, TRUE))
        BY <1>5, <1>7
  <2>2. MapsTo(x, x - (IF TRUE THEN KernelBase ELSE 0))
        BY <1>1, <1>2, <1>7, <2>1, Translated
  <2>. QED BY <2>2
<1>. QED BY <1>6, <1>7

-----------------------------------------------------------------------------
(***************************************************************************)
(* What the steps do to the tree.                                           *)
(***************************************************************************)
\* A step that changes no entry, and neither adds to nor takes from the pages that
\* are in use, keeps the tree as it should be.
LEMMA UseKept ==
    ASSUME UnderTables, MappedRight, LeavesRight, TablesUsed, UNCHANGED <<layout, pte>>,
           \A r \in Region, high \in BOOLEAN : \A x \in Pages(Kvma(r, high)) :
              (Made(r, high, x) /\ ~Gone(r, high, x))' <=> (Made(r, high, x) /\ ~Gone(r, high, x)),
           pc' \in {"root", "region", "map"} => pc \in {"root", "region", "map"}
    PROVE  UnderTables' /\ MappedRight' /\ LeavesRight' /\ TablesUsed'
<1>1. \A r, high : RegionOf(layout)'[r] = RegionOf(layout)[r] /\ Kvma(r, high)' = Kvma(r, high)
      BY DEF Kvma, RegionOf
<1>2. \A x, l : LeafAt(x, l)' <=> LeafAt(x, l)
      BY DEF LeafAt
<1>3. \A x : Mapped(x)' <=> Mapped(x)
      BY <1>2 DEF Mapped
<1>4. UnderTables'
      BY DEF UnderTables
<1>5. MappedRight'
  <2>1. \A x : InUse(x)' <=> InUse(x)
        BY <1>1 DEF InUse
  <2>. QED BY <1>3, <2>1 DEF MappedRight
<1>6. LeavesRight'
      BY <1>1, <1>2 DEF LeavesRight
<1>7. TablesUsed'
      BY <1>3 DEF TablesUsed
<1>. QED BY <1>4, <1>5, <1>6, <1>7

Less == {ss \in Nat \X Nat : ss[1] < ss[2]}

LEMMA NoDescent == IsWellFoundedOn(Less, Nat)
BY NatLessThanWellFounded DEF Less, OpToRel

LEMMA HasLeast ==
    ASSUME NEW T, T \subseteq Nat, T # {}
    PROVE  \E m \in T : \A k \in T : m <= k
<1>1. \E m \in T : \A k \in T : ~(<<k, m>> \in Less)
      BY NoDescent, WFMin
<1>2. PICK m \in T : \A k \in T : ~(<<k, m>> \in Less)
      BY <1>1
<1>3. ASSUME NEW k \in T PROVE m <= k
  <2>1. ~(k < m) /\ k \in Nat /\ m \in Nat
        BY <1>2 DEF Less
  <2>. QED BY <2>1
<1>. QED BY <1>3

LEMMA HasGreatest ==
    ASSUME NEW S, S \subseteq Level, S # {}
    PROVE  \E m \in S : \A k \in S : k <= m
<1>. DEFINE T == {Levels - k : k \in S}
<1>1. Levels \in Nat /\ \A k \in S : k \in Int /\ k <= Levels
      BY PageTreeAssumption DEF Level
<1>2. T \subseteq Nat /\ T # {}
      BY <1>1
<1>3. PICK t \in T : \A k \in T : t <= k
      BY <1>2, HasLeast
<1>4. PICK m \in S : t = Levels - m
      BY <1>3
<1>5. ASSUME NEW k \in S PROVE k <= m
  <2>1. t <= Levels - k
        BY <1>3
  <2>. QED BY <1>1, <1>4, <2>1
<1>. QED BY <1>5

\* __pt_get_pte makes the tables that are missing, from the top, until there is no
\* memory left: f pages are enough if some are left over.
LEMMA Enough ==
    ASSUME NEW S, S \subseteq Level, NEW f \in Nat, NEW M,
           M = {h \in S : Cardinality({k \in S : k > h}) < f}
    PROVE  /\ Cardinality(M) \in Nat /\ Cardinality(M) <= f
           /\ Cardinality(M) < f => M = S
<1>. DEFINE Above(h) == {k \in S : k > h}
<1>1. IsFiniteSet(Level) /\ Level \subseteq Nat
      BY PageTreeAssumption, FS_Interval DEF Level
<1>2. /\ IsFiniteSet(M) /\ Cardinality(M) \in Nat
      /\ \A h : IsFiniteSet(Above(h)) /\ Cardinality(Above(h)) \in Nat
  <2>1. M \subseteq Level /\ \A h : Above(h) \subseteq Level
        OBVIOUS
  <2>2. IsFiniteSet(M) /\ \A h : IsFiniteSet(Above(h))
        BY <1>1, <2>1, FS_Subset
  <2>. QED BY <2>2, FS_CardinalityType
<1>3. Cardinality(M) <= f
  <2>1. CASE M = {}
    <3>1. Cardinality(M) = 0
          BY <2>1, FS_EmptySet, Zenon
    <3>. QED BY <3>1
  <2>2. CASE M # {}
    <3>1. PICK m \in M : \A k \in M : m <= k
          BY <1>1, <2>2, HasLeast
    <3>2. M \ {m} \subseteq Above(m)
      <4>. SUFFICES ASSUME NEW k \in M, k # m PROVE k \in Above(m)
           BY Zenon
      <4>1. k \in S /\ k \in Nat /\ m \in Nat /\ m <= k
            BY <1>1, <3>1, Zenon
      <4>. QED BY ONLY <4>1, k # m
    <3>3. Cardinality(M \ {m}) <= Cardinality(Above(m))
          BY <1>2, <3>2, FS_Subset
    <3>4. Cardinality(M \ {m}) = Cardinality(M) - 1
          BY <1>2, <3>1, FS_RemoveElement
    <3>5. Cardinality(Above(m)) < f
          BY <3>1
    <3>. HIDE DEF Above
    <3>. QED BY <1>2, <3>3, <3>4, <3>5
  <2>. QED BY <2>1, <2>2
<1>4. ASSUME M # S PROVE Cardinality(M) >= f
  <2>1. PICK m \in S \ M : \A k \in S \ M : k <= m
    <3>1. S \ M \subseteq Level /\ S \ M # {}
          BY <1>4
    <3>. QED BY <3>1, HasGreatest
  <2>2. Above(m) \subseteq M
    <3>. SUFFICES ASSUME NEW k \in S, k > m, k \notin M PROVE FALSE
         BY Zenon
    <3>1. k \in Nat /\ m \in Nat /\ k <= m
          BY <1>1, <2>1, Zenon
    <3>. QED BY ONLY <3>1, k > m
  <2>3. Cardinality(Above(m)) <= Cardinality(M)
        BY <1>2, <2>2, FS_Subset
  <2>4. ~(Cardinality(Above(m)) < f)
        BY <2>1
  <2>. HIDE DEF Above
  <2>. QED BY <1>2, <2>3, <2>4
<1>. QED BY <1>2, <1>3, <1>4

LEMMA SharedUp ==
    \A x, y \in Vpn, k, h \in Level :
        EntryOf(y, k) = EntryOf(x, k) /\ k <= h => EntryOf(y, h) = EntryOf(x, h)
<1>. TAKE x, y \in Vpn, k, h \in Level
<1>. SUFFICES ASSUME EntryOf(y, k) = EntryOf(x, k), k <= h
              PROVE  EntryOf(y, h) = EntryOf(x, h)
     OBVIOUS
<1>1. x \in Int /\ y \in Int
      BY EntriesAre
<1>2. EntryOf(x, k) = EntryOf(y, k)
      OBVIOUS
<1>3. \A i \in Level : k <= i => EntryOf(x, i) = EntryOf(y, i)
      BY ONLY <1>1, <1>2, x \in Vpn, y \in Vpn, k \in Level, h \in Level, EntryShared
<1>. QED BY <1>3

\* A leaf is the leaf of all its pages.
LEMMA LeafShared ==
    ASSUME NEW x \in Vpn, NEW y \in Vpn, NEW l \in Level,
           LeafAt(x, l), EntryOf(y, l) = EntryOf(x, l)
    PROVE  LeafAt(y, l)
<1>1. \A h \in Level : l <= h => EntryOf(y, h) = EntryOf(x, h)
      BY SharedUp
<1>2. \A h \in Level : h > l => l <= h
      BY Sizes
<1>. QED BY <1>1, <1>2 DEF LeafAt

LEMMA EntryLevel ==
    ASSUME NEW x, NEW y, NEW k, NEW l, EntryOf(y, k) = EntryOf(x, l)
    PROVE  k = l
BY DEF EntryOf

LEMMA BlockShares ==
    ASSUME NEW x \in Vpn, NEW y \in Vpn, NEW l \in Level, Boundary(x, l) = x
    PROVE  EntryOf(y, l) = EntryOf(x, l) <=> y \in Block(x, l)
<1>1. x \in Int /\ y \in Int /\ Size(l) \in Nat \ {0}
      BY EntriesAre, Sizes
<1>2. Boundary(y, l) \in Int /\ Boundary(y, l) <= y /\ y < Boundary(y, l) + Size(l)
      BY <1>1, Boundaries
<1>3. ASSUME EntryOf(y, l) = EntryOf(x, l) PROVE y \in Block(x, l)
  <2>1. Boundary(y, l) = x
        BY <1>1, <1>3, EntryShared
  <2>. QED BY <1>1, <1>2, <2>1 DEF Block
<1>4. ASSUME y \in Block(x, l) PROVE EntryOf(y, l) = EntryOf(x, l)
  <2>1. x \div Size(l) \in Int /\ (x \div Size(l)) * Size(l) = x
        BY <1>1, Division DEF Boundary
  <2>2. x <= y /\ y < x + Size(l)
        BY <1>1, <1>4 DEF Block
  <2>3. y \div Size(l) = x \div Size(l)
        BY <1>1, <2>1, <2>2, Quotient
  <2>. QED BY <2>3 DEF EntryOf
<1>. QED BY <1>3, <1>4

\* The pages of a large page are all in the address space.
LEMMA BlockInVpn ==
    ASSUME NEW x \in Vpn, NEW l \in Level
    PROVE  Block(Boundary(x, l), l) \subseteq Vpn
<1>. DEFINE b == Boundary(x, l)
            s == Size(l)
<1>1. x \in Nat /\ b \in Nat /\ b <= x /\ x < Size(Levels) /\ s \in Nat \ {0} /\ Size(Levels) \in Nat
      BY EntriesAre, Boundaries, Sizes DEF Vpn
<1>2. PICK k \in 1..Size(Levels) : Size(Levels) = k * s
      BY SizeAssumption, Sizes DEF Level
<1>3. PICK q \in Int : b = q * s
      BY <1>1, Division DEF Boundary
<1>. HIDE DEF b, s
<1>4. q + 1 <= k
  <2>1. q * s < k * s
        BY <1>1, <1>2, <1>3
  <2>2. ASSUME k <= q PROVE FALSE
    <3>1. k * s <= q * s
          BY <1>1, <1>2, <2>2
    <3>. QED BY <1>1, <1>3, <2>1, <3>1
  <2>. QED BY <2>2
<1>5. (q + 1) * s = q * s + s /\ (q + 1) * s <= k * s
      BY <1>1, <1>2, <1>4
<1>6. b + s <= Size(Levels)
      BY <1>2, <1>3, <1>5
<1>. QED BY <1>1, <1>6 DEF Block, Vpn, b, s

\* pt_set_pte_leaf when there is memory: the tables that are missing above the entry,
\* and what goes into it.
Room(x, l) ==
    /\ pte[EntryOf(x, l)] = NoPte
    /\ \A h \in Level : h > l => pte[EntryOf(x, h)] = NoPte \/ pte[EntryOf(x, h)].kind = "table"

Makes(x, l, p) ==
    pte' = [e \in Entry |->
              IF e = EntryOf(x, l) THEN p
              ELSE IF \E h \in Level : h > l /\ pte[EntryOf(x, h)] = NoPte /\ e = EntryOf(x, h)
              THEN Table(0) ELSE pte[e]]

\* All that this changes.
HasLeaf(x, l, f) ==
    /\ UnderTables'
    /\ \A y \in Vpn, k \in Level :
          LeafAt(y, k)' <=> LeafAt(y, k) \/ (k = l /\ EntryOf(y, l) = EntryOf(x, l))
    /\ \A y \in Vpn, k \in Level : LeafAt(y, k) => pte'[EntryOf(y, k)] = pte[EntryOf(y, k)]
    /\ pte'[EntryOf(x, l)] = Leaf(f)
    /\ \A y \in Vpn, k \in Level : pte'[EntryOf(y, k)].kind = "table" =>
          \/ pte[EntryOf(y, k)].kind = "table"
          \/ EntryOf(y, k) = EntryOf(x, k)

LEMMA NewLeaf ==
    ASSUME pte \in [Entry -> PteType], UnderTables,
           NEW x \in Vpn, NEW l \in Level, NEW f \in Int, Room(x, l), Makes(x, l, Leaf(f))
    PROVE  HasLeaf(x, l, f)
<1>1. /\ \A y \in Vpn, k \in Level : EntryOf(y, k) \in Entry /\ EntryOf(y, k)[1] = k /\ y \in Int
      /\ \A k \in Level : k \in Int
  <2>1. (\A y \in Vpn : y \in Int) /\ \A k \in Level : k \in Int
        BY ONLY EntriesAre, Sizes
  <2>2. ASSUME NEW y \in Vpn, NEW k \in Level PROVE EntryOf(y, k) \in Entry /\ EntryOf(y, k)[1] = k
        BY ONLY <2>1, EntriesAre DEF EntryOf
  <2>. QED BY ONLY <2>1, <2>2
<1>2. /\ NoPte.kind = "none" /\ Leaf(f).kind = "leaf" /\ Table(0).kind = "table"
      BY DEF NoPte, Leaf, Table
<1>3. TablesAbove
      BY ByPage
<1>. DEFINE Shares(y, k) == EntryOf(y, k) = EntryOf(x, k)
<1>4. \A y \in Vpn, k, h \in Level : EntryOf(y, k) = EntryOf(x, h) => k = h
      BY <1>1
<1>5. \A y \in Vpn, k, h \in Level : Shares(y, k) /\ k <= h => Shares(y, h)
      BY SharedUp, Zenon
<1>6. \A y \in Vpn, k \in Level :
        pte'[EntryOf(y, k)] =
            IF k = l /\ Shares(y, k) THEN Leaf(f)
            ELSE IF k > l /\ Shares(y, k) /\ pte[EntryOf(y, k)] = NoPte THEN Table(0)
            ELSE pte[EntryOf(y, k)]
  <2>. TAKE y \in Vpn, k \in Level
  <2>1. EntryOf(y, k) = EntryOf(x, l) <=> (k = l /\ Shares(y, k))
        BY <1>4
  <2>2. (\E h \in Level : h > l /\ pte[EntryOf(x, h)] = NoPte /\ EntryOf(y, k) = EntryOf(x, h))
          <=> (k > l /\ Shares(y, k) /\ pte[EntryOf(y, k)] = NoPte)
        BY <1>4
  <2>3. EntryOf(y, k) \in Entry
        BY <1>1
  <2>. QED BY <2>1, <2>2, <2>3 DEF Makes
<1>7. \A y \in Vpn, k \in Level : k > l /\ Shares(y, k) => pte'[EntryOf(y, k)].kind = "table"
      BY <1>1, <1>2, <1>6 DEF Room
<1>8. \A y \in Vpn, k \in Level :
         pte[EntryOf(y, k)].kind = "table" \/ pte[EntryOf(y, k)].kind = "leaf" =>
            pte'[EntryOf(y, k)] = pte[EntryOf(y, k)]
      BY <1>2, <1>6 DEF Room
<1>. HIDE DEF Shares
<1>9. ASSUME NEW y \in Vpn, NEW k \in Level, pte'[EntryOf(y, k)] # NoPte,
             NEW h \in Level, h > k
      PROVE  pte'[EntryOf(y, h)].kind = "table"
  <2>1. CASE pte[EntryOf(y, k)] # NoPte
    <3>1. pte[EntryOf(y, h)].kind = "table"
          BY <1>3, <1>9, <2>1 DEF TablesAbove
    <3>. QED BY ONLY <1>8, <3>1, y \in Vpn, h \in Level
  <2>2. CASE pte[EntryOf(y, k)] = NoPte
    <3>1. (k = l \/ k > l) /\ Shares(y, k)
      <4>. SUFFICES ASSUME ~(k = l /\ Shares(y, k)), ~(k > l /\ Shares(y, k)) PROVE FALSE
           BY Zenon
      <4>1. pte'[EntryOf(y, k)] = pte[EntryOf(y, k)]
            BY <1>6
      <4>. QED BY <1>9, <2>2, <4>1, Zenon
    <3>2. h > l /\ k <= h
          BY <1>1, <1>9, <3>1
    <3>3. Shares(y, h)
          BY <1>5, <3>1, <3>2
    <3>. QED BY <1>7, <3>2, <3>3
  <2>. QED BY <2>1, <2>2
<1>10. UnderTables'
  <2>1. TablesAbove'
        BY <1>9 DEF TablesAbove
  <2>. QED BY <2>1, ByPageNext
<1>11. ASSUME NEW y \in Vpn, NEW k \in Level
       PROVE  LeafAt(y, k)' <=> LeafAt(y, k) \/ (k = l /\ Shares(y, l))
  <2>1. ASSUME LeafAt(y, k) PROVE LeafAt(y, k)'
        BY ONLY <1>8, <2>1, y \in Vpn, k \in Level DEF LeafAt
  <2>2. ASSUME k = l, Shares(y, l) PROVE LeafAt(y, k)'
    <3>1. pte'[EntryOf(y, k)].kind = "leaf"
          BY <1>2, <1>6, <2>2
    <3>2. \A h \in Level : h > k => pte'[EntryOf(y, h)].kind = "table"
          BY <1>1, <1>5, <1>7, <2>2
    <3>. QED BY <3>1, <3>2 DEF LeafAt
  <2>3. ASSUME LeafAt(y, k)', ~(k = l /\ Shares(y, l)) PROVE LeafAt(y, k)
    <3>1. pte'[EntryOf(y, k)].kind = "leaf"
          BY <2>3 DEF LeafAt
    <3>2. pte'[EntryOf(y, k)] = pte[EntryOf(y, k)]
          BY <1>2, <1>6, <2>3, <3>1
    <3>3. pte[EntryOf(y, k)] # NoPte
          BY <1>2, <3>1, <3>2
    <3>4. \A h \in Level : h > k => pte[EntryOf(y, h)].kind = "table"
          BY <1>3, <3>3 DEF TablesAbove
    <3>. QED BY <3>1, <3>2, <3>4 DEF LeafAt
  <2>. QED BY <2>1, <2>2, <2>3
<1>12. \A y \in Vpn, k \in Level : LeafAt(y, k) => pte'[EntryOf(y, k)] = pte[EntryOf(y, k)]
       BY <1>8 DEF LeafAt
<1>13. pte'[EntryOf(x, l)] = Leaf(f)
       BY <1>6 DEF Shares
<1>14. \A y \in Vpn, k \in Level : pte'[EntryOf(y, k)].kind = "table" =>
          pte[EntryOf(y, k)].kind = "table" \/ Shares(y, k)
       BY <1>6
<1>. QED BY <1>10, <1>11, <1>12, <1>13, <1>14 DEF Shares, HasLeaf

LEMMA TreeKept ==
    ASSUME IInv, UNCHANGED <<layout, pte>>, free' > 0 => free > 0, pc' # "trap",
           free > 0 => \A r \in Region, high \in BOOLEAN : \A x \in Pages(Kvma(r, high)) :
              (Made(r, high, x) /\ ~Gone(r, high, x))' <=> (Made(r, high, x) /\ ~Gone(r, high, x)),
           pc' \in {"root", "region", "map"} => pc \in {"root", "region", "map"},
           free > 0 => AtBoundary' /\ UnmapsForward'
    PROVE  free' > 0 => TreeRight' /\ pc' # "trap"
<1>. SUFFICES ASSUME free' > 0 PROVE TreeRight'
     OBVIOUS
<1>1. free > 0 /\ TreeRight
      BY DEF IInv
<1>2. UnderTables' /\ MappedRight' /\ LeavesRight' /\ TablesUsed'
      BY <1>1, UseKept DEF TreeRight
<1>. QED BY <1>1, <1>2 DEF TreeRight

-----------------------------------------------------------------------------
(***************************************************************************)
(* The beginning, and the steps that change neither the list nor the tree.   *)
(***************************************************************************)
ListKnown == Phases /\ ListRight /\ VmasRight /\ pc # "trap"

ListTyped ==
    /\ list \in [DOMAIN list -> [next : Pointer, prev : Pointer]]
    /\ DOMAIN list \subseteq {0} \cup DOMAIN vma

\* The nodes of the list are those of VMAs, and its pointers are pointers.
LEMMA ListType == ListKnown => ListTyped
<1>. SUFFICES ASSUME Phases, ListRight, VmasRight, pc # "trap" PROVE ListTyped
     BY DEF ListKnown
<1>1. CASE pc \in {"root", "off"}
      BY <1>1 DEF ListRight, ListTyped
<1>2. CASE pc \in {"region", "map", "enable", "head"}
  <2>1. PICK k \in 0..8 : list = Ring(k) /\ k = 2 * Regions
        BY <1>2 DEF ListRight, Regions, Phases, Region
  <2>2. list \in Links(0..k) /\ DOMAIN vma = 1..k
        BY <2>1, Shapes DEF VmasRight
  <2>3. DOMAIN list = 0..k
        BY <2>2 DEF Links
  <2>4. 0..k \subseteq {0} \cup 1..k
        OBVIOUS
  <2>. QED BY <2>2, <2>3, <2>4 DEF Links, ListTyped
<1>3. CASE pc \in {"migrate", "jump", "destroy", "unmap", "done", "user"}
  <2>1. list \in Links(0..8)
    <3>1. pc \in {"migrate", "destroy"} => Place \in 0..9
          BY DEF ListRight, Place
    <3>. QED BY <1>3, <3>1, Shapes DEF ListRight
  <2>2. DOMAIN vma = 1..8
        BY <1>3 DEF VmasRight, Regions
  <2>3. DOMAIN list = 0..8
        BY <2>1 DEF Links
  <2>4. 0..8 \subseteq {0} \cup 1..8
        OBVIOUS
  <2>. QED BY <2>1, <2>2, <2>3, <2>4 DEF Links, ListTyped
<1>. QED BY <1>1, <1>2, <1>3 DEF Phases

LEMMA ListTypeNext == ListKnown' => ListTyped'
BY ListType, PTL

LEMMA Begins ==
    ASSUME Init
    PROVE  IInv
<1>1. TypeOK /\ pte \in [Entry -> PteType]
  <2>1. NoPte \in PteType /\ NoPte \in [kind : {"none", "table", "leaf"}, ppn : Int]
        BY DEF PteType, NoPte
  <2>2. NoJob \in [region : 0..4, high : BOOLEAN, vpn : Int, ppn : Int]
        BY DEF NoJob
  <2>. QED BY <2>1, <2>2, KernelMapAssumption DEF Init, TypeOK
<1>2. Phases /\ ListRight /\ VmasRight
  <2>1. 1..2*0 = {} /\ 1..0 = {}
        OBVIOUS
  <2>. QED BY <2>1 DEF Init, Phases, ListRight, VmasRight, Regions
<1>3. TreeRight
  <2>1. \A x \in Vpn, l \in Level : pte[EntryOf(x, l)] = NoPte
        BY EntriesAre DEF Init
  <2>2. \A e \in Entry : pte[e] = NoPte
        BY DEF Init
  <2>3. NoPte.kind = "none"
        BY DEF NoPte
  <2>4. \A x \in Vpn, l \in Level : ~LeafAt(x, l)
        BY <2>1, <2>3 DEF LeafAt
  <2>5. \A x : ~InUse(x)
        BY DEF InUse, Made, Init
  <2>. QED BY <2>1, <2>2, <2>3, <2>4, <2>5
           DEF TreeRight, UnderTables, MappedRight, Mapped, LeavesRight, TablesUsed, AtBoundary,
               UnmapsForward, Init
<1>. QED BY <1>1, <1>2, <1>3 DEF IInv, Basics, Init

\* What most steps leave alone.
LEMMA SameVmas ==
    ASSUME VmasRight, UNCHANGED <<layout, vma>>, pc # "trap", Regions' = Regions
    PROVE  VmasRight'
<1>1. \A r, high : Kvma(r, high)' = Kvma(r, high)
      BY DEF Kvma, RegionOf
<1>. QED BY <1>1 DEF VmasRight

LEMMA Boot_ksatp_init ==
    ASSUME IInv, ksatp_init
    PROVE  IInv'
<1>1. /\ TypeOK /\ pte \in [Entry -> PteType] /\ Phases /\ VmasRight /\ pc = "root"
      /\ pc' = "region" /\ UNCHANGED <<layout, pte, vma>>
      BY DEF IInv, Basics, ksatp_init
<1>2. Phases'
      BY <1>1 DEF Phases, ksatp_init, NoJob, Region
<1>3. ListRight'
  <2>1. list' = Ring(0)
    <3>1. 0..0 = {0}
          OBVIOUS
    <3>2. Ring(0) = [n \in {0} |-> [next |-> <<0, 0>>, prev |-> <<0, 0>>]]
          BY <3>1 DEF Ring
    <3>. QED BY <3>2 DEF ksatp_init
  <2>2. 2 * job'.region - 2 = 0
        BY DEF ksatp_init, NoJob
  <2>. QED BY <1>1, <2>1, <2>2 DEF ListRight, ksatp_init
<1>4. VmasRight'
  <2>1. Regions = 0 /\ Regions' = 0
        BY <1>1 DEF Regions, ksatp_init, NoJob
  <2>. QED BY <1>1, <2>1, SameVmas
<1>5. TypeOK'
  <2>1. ListTyped'
        BY <1>1, <1>2, <1>3, <1>4, ListTypeNext DEF ListKnown
  <2>2. <<0, 0>> \in Pointer
        BY DEF Pointer
  <2>3. job' \in [region : 0..4, high : BOOLEAN, vpn : Int, ppn : Int]
    <3>1. job' = [NoJob EXCEPT !.region = 1]
          BY DEF ksatp_init
    <3>2. job' = [region |-> 1, high |-> FALSE, vpn |-> 0, ppn |-> 0]
          BY <3>1 DEF NoJob
    <3>. QED BY <3>2
  <2>4. /\ kvmas_head' = <<0, 0>> /\ free' = free - 2 /\ free >= 2
        /\ UNCHANGED <<layout, paging, half, vma, node, next, stale, pte>>
        BY DEF ksatp_init
  <2>. QED BY <1>1, <2>1, <2>2, <2>3, <2>4 DEF TypeOK, ListTyped
<1>6. free' > 0 => TreeRight' /\ pc' # "trap"
  <2>1. \A r \in Region, high \in BOOLEAN : \A x : ~Made(r, high, x) /\ ~Made(r, high, x)'
        BY <1>1 DEF Made, ksatp_init, NoJob, Region
  <2>2. AtBoundary' /\ UnmapsForward'
        BY <1>1 DEF AtBoundary, UnmapsForward
  <2>3. free' > 0 => free > 0
        BY <1>1 DEF ksatp_init, TypeOK
  <2>. QED BY <1>1, <2>1, <2>2, <2>3, TreeKept
<1>. QED BY <1>1, <1>2, <1>3, <1>4, <1>5, <1>6 DEF IInv, Basics

LEMMA Boot_InitFails ==
    ASSUME IInv, InitFails
    PROVE  IInv'
<1>1. /\ TypeOK /\ pte \in [Entry -> PteType] /\ Phases /\ VmasRight /\ ListRight /\ pc = "root"
      /\ pc' = "off" /\ free' = 0
      /\ UNCHANGED <<layout, pte, vma, list, kvmas_head, job, paging, half, stale, node, next>>
      BY DEF IInv, Basics, InitFails
<1>2. Phases'
      BY <1>1 DEF Phases
<1>3. ListRight'
      BY <1>1 DEF ListRight
<1>4. VmasRight'
  <2>1. Regions = 0 /\ Regions' = 0
        BY <1>1 DEF Regions
  <2>. QED BY <1>1, <2>1, SameVmas
<1>5. TypeOK'
      BY <1>1 DEF TypeOK
<1>. QED BY <1>1, <1>2, <1>3, <1>4, <1>5 DEF IInv, Basics

LEMMA Boot_ksatp_enable_paging ==
    ASSUME IInv, ksatp_enable_paging
    PROVE  IInv'
<1>1. /\ TypeOK /\ pte \in [Entry -> PteType] /\ Phases /\ VmasRight /\ ListRight /\ pc = "enable"
      /\ pc' = "head" /\ paging' = TRUE /\ stale' = {}
      /\ UNCHANGED <<layout, pte, vma, list, kvmas_head, job, free, half, node, next>>
      BY DEF IInv, Basics, ksatp_enable_paging
<1>2. Phases'
      BY <1>1 DEF Phases
<1>3. ListRight'
      BY <1>1 DEF ListRight
<1>4. VmasRight'
  <2>1. Regions = 4 /\ Regions' = 4
        BY <1>1 DEF Regions
  <2>. QED BY <1>1, <2>1, SameVmas
<1>5. TypeOK'
      BY <1>1 DEF TypeOK
<1>6. free' > 0 => TreeRight' /\ pc' # "trap"
  <2>1. \A r, high, x : /\ Made(r, high, x) /\ Made(r, high, x)'
                        /\ ~Gone(r, high, x) /\ ~Gone(r, high, x)'
        BY <1>1 DEF Made, Gone
  <2>2. AtBoundary' /\ UnmapsForward'
        BY <1>1 DEF AtBoundary, UnmapsForward
  <2>. QED BY <1>1, <2>1, <2>2, TreeKept
<1>. QED BY <1>1, <1>2, <1>3, <1>4, <1>5, <1>6 DEF IInv, Basics

LEMMA Boot_DestroyDone ==
    ASSUME IInv, DestroyDone
    PROVE  IInv'
<1>1. /\ TypeOK /\ pte \in [Entry -> PteType] /\ Phases /\ VmasRight /\ ListRight
      /\ pc = "destroy" /\ pc' = "done" /\ node = kvmas_head
      /\ UNCHANGED <<layout, paging, half, free, kvmas_head, list, vma, node, next, job, stale, pte>>
      BY DEF IInv, Basics, DestroyDone
<1>2. Phases'
      BY <1>1 DEF Phases
<1>3. node = <<1, 0>> /\ Place = 9
      BY <1>1 DEF ListRight, Place
<1>4. ListRight'
      BY <1>1, <1>3 DEF ListRight
<1>5. VmasRight'
  <2>1. Regions = 4 /\ Regions' = 4
        BY <1>1 DEF Regions
  <2>. QED BY <1>1, <2>1, SameVmas
<1>6. TypeOK'
      BY <1>1 DEF TypeOK
<1>7. free' > 0 => TreeRight' /\ pc' # "trap"
  <2>1. \A r \in Region, high \in BOOLEAN : \A x :
            /\ Made(r, high, x) /\ Made(r, high, x)'
            /\ Gone(r, high, x) <=> Gone(r, high, x)'
    <3>1. \A r \in Region : NodeOf(r, FALSE) < 9
          BY DEF NodeOf, Region
    <3>. QED BY <1>1, <1>3, <3>1 DEF Made, Gone
  <2>2. AtBoundary' /\ UnmapsForward'
        BY <1>1 DEF AtBoundary, UnmapsForward
  <2>. QED BY <1>1, <2>1, <2>2, TreeKept
<1>. QED BY <1>1, <1>2, <1>4, <1>5, <1>6, <1>7 DEF IInv, Basics

LEMMA Boot_FirstProcess ==
    ASSUME IInv, FirstProcess
    PROVE  IInv'
<1>1. /\ TypeOK /\ pte \in [Entry -> PteType] /\ Phases /\ VmasRight /\ ListRight
      /\ pc = "done" /\ pc' = "user" /\ stale' = {}
      /\ UNCHANGED <<layout, paging, half, free, kvmas_head, list, vma, node, next, job, pte>>
      BY DEF IInv, Basics, FirstProcess
<1>2. Phases'
      BY <1>1 DEF Phases
<1>3. ListRight'
      BY <1>1 DEF ListRight
<1>4. VmasRight'
  <2>1. Regions = 4 /\ Regions' = 4
        BY <1>1 DEF Regions
  <2>. QED BY <1>1, <2>1, SameVmas
<1>5. TypeOK'
      BY <1>1 DEF TypeOK
<1>6. free' > 0 => TreeRight' /\ pc' # "trap"
  <2>1. \A r \in Region, high \in BOOLEAN : \A x :
            /\ Made(r, high, x) /\ Made(r, high, x)'
            /\ Gone(r, high, x) <=> Gone(r, high, x)'
        BY <1>1 DEF Made, Gone
  <2>2. AtBoundary' /\ UnmapsForward'
        BY <1>1 DEF AtBoundary, UnmapsForward
  <2>. QED BY <1>1, <2>1, <2>2, TreeKept
<1>. QED BY <1>1, <1>2, <1>3, <1>4, <1>5, <1>6 DEF IInv, Basics

\* A trap comes only after memory has run out.
LEMMA Boot_Trap ==
    ASSUME IInv, Trap
    PROVE  IInv'
<1>1. /\ TypeOK /\ pte \in [Entry -> PteType] /\ pc' = "trap"
      /\ pc \in {"head", "migrate", "jump", "destroy", "unmap", "done"}
      /\ UNCHANGED <<layout, paging, half, free, kvmas_head, list, vma, node, next, job, stale, pte>>
      BY DEF IInv, Basics, Trap
<1>2. Phases' /\ ListRight' /\ VmasRight'
      BY <1>1 DEF Phases, ListRight, VmasRight
<1>3. TypeOK'
      BY <1>1 DEF TypeOK
<1>4. ~(free > 0)
  <2>. SUFFICES ASSUME free > 0 PROVE FALSE
       OBVIOUS
  <2>1. pc \in Moving
        BY <1>1 DEF Moving
  <2>2. CanRun /\ (pc \in {"migrate", "destroy"} => CanFollow(node) /\ CanFollow(kvmas_head))
        BY <2>1, Runs
  <2>. QED BY <2>2 DEF Trap
<1>. QED BY <1>1, <1>2, <1>3, <1>4 DEF IInv, Basics

LEMMA Boot_Stutter ==
    ASSUME IInv, UNCHANGED vars
    PROVE  IInv'
<1>1. /\ TypeOK /\ pte \in [Entry -> PteType] /\ Phases /\ VmasRight /\ ListRight /\ pc' = pc
      /\ UNCHANGED <<layout, paging, half, free, kvmas_head, list, vma, node, next, job, stale, pte>>
      BY DEF IInv, Basics, vars
<1>2. Phases' /\ TypeOK'
      BY <1>1 DEF Phases, TypeOK
<1>3. ListRight'
      BY <1>1 DEF ListRight, Place
<1>4. VmasRight'
  <2>1. Regions' = Regions
        BY <1>1 DEF Regions
  <2>2. CASE pc = "trap"
        BY <1>1, <2>2 DEF VmasRight
  <2>. QED BY <1>1, <2>1, <2>2, SameVmas
<1>5. free' > 0 => TreeRight' /\ pc' # "trap"
  <2>. SUFFICES ASSUME free > 0 PROVE TreeRight' /\ pc' # "trap"
       BY <1>1
  <2>1. TreeRight /\ pc # "trap"
        BY DEF IInv
  <2>2. \A r \in Region, high \in BOOLEAN : \A x :
            (Made(r, high, x) /\ ~Gone(r, high, x))' <=> (Made(r, high, x) /\ ~Gone(r, high, x))
        BY <1>1 DEF Made, Gone, Place
  <2>3. AtBoundary' /\ UnmapsForward'
    <3>1. Kvma(job.region, job.high)' = Kvma(job.region, job.high)
          BY <1>1 DEF Kvma, RegionOf
    <3>. QED BY <1>1, <2>1, <3>1 DEF AtBoundary, UnmapsForward, TreeRight
  <2>. QED BY <1>1, <2>1, <2>2, <2>3, TreeKept
<1>. QED BY <1>1, <1>2, <1>3, <1>4, <1>5 DEF IInv, Basics

-----------------------------------------------------------------------------
(***************************************************************************)
(* The list moves to the high half.                                         *)
(***************************************************************************)
LEMMA Boot_MigrateHead ==
    ASSUME IInv, MigrateHead
    PROVE  IInv'
<1>1. /\ TypeOK /\ pte \in [Entry -> PteType] /\ Phases /\ VmasRight /\ ListRight
      /\ pc = "head" /\ pc' = "migrate"
      /\ kvmas_head' = Higher(kvmas_head) /\ list' = Migrated(list, kvmas_head)
      /\ node' = list'[0].next
      /\ UNCHANGED <<layout, paging, half, free, vma, next, job, stale, pte>>
      BY DEF IInv, Basics, MigrateHead
<1>2. Phases'
      BY <1>1 DEF Phases
<1>3. /\ kvmas_head' = <<1, 0>> /\ list' = Moved(1) /\ node' = <<1, 1>>
  <2>1. kvmas_head = <<0, 0>> /\ list = Moved(0)
        BY <1>1, FirstShapes DEF ListRight
  <2>2. /\ Migrated(Moved(0), <<0, 0>>) = Moved(0 + 1)
        /\ Moved(0 + 1)[0].next = <<1, After(0)>>
        BY MigrateNode
  <2>3. 0 + 1 = 1 /\ After(0) = 1
        BY DEF After
  <2>. QED BY <1>1, <2>1, <2>2, <2>3 DEF Higher
<1>4. ListRight'
  <2>1. Place' = 1
        BY <1>3 DEF Place
  <2>. QED BY <1>1, <1>3, <2>1 DEF ListRight
<1>5. VmasRight'
  <2>1. Regions = 4 /\ Regions' = 4
        BY <1>1 DEF Regions
  <2>. QED BY <1>1, <2>1, SameVmas
<1>6. TypeOK'
  <2>1. ListTyped'
        BY <1>1, <1>2, <1>4, <1>5, ListTypeNext DEF ListKnown
  <2>2. <<1, 0>> \in Pointer /\ <<1, 1>> \in Pointer
        BY DEF Pointer
  <2>. QED BY <1>1, <1>3, <2>1, <2>2 DEF TypeOK, ListTyped
<1>7. free' > 0 => TreeRight' /\ pc' # "trap"
  <2>1. \A r, high, x : /\ Made(r, high, x) /\ Made(r, high, x)'
                        /\ ~Gone(r, high, x) /\ ~Gone(r, high, x)'
        BY <1>1 DEF Made, Gone
  <2>2. AtBoundary' /\ UnmapsForward'
        BY <1>1 DEF AtBoundary, UnmapsForward
  <2>. QED BY <1>1, <2>1, <2>2, TreeKept
<1>. QED BY <1>1, <1>2, <1>4, <1>5, <1>6, <1>7 DEF IInv, Basics

LEMMA Boot_pt_migrate_kvmas ==
    ASSUME IInv, pt_migrate_kvmas
    PROVE  IInv'
<1>1. /\ TypeOK /\ pte \in [Entry -> PteType] /\ Phases /\ VmasRight /\ ListRight
      /\ pc = "migrate"
      /\ IF node = kvmas_head
         THEN pc' = "jump" /\ UNCHANGED <<list, node>>
         ELSE /\ list' = Migrated(list, node)
              /\ node' = list'[node[2]].next
              /\ UNCHANGED pc
      /\ UNCHANGED <<layout, paging, half, free, kvmas_head, vma, next, job, stale, pte>>
      BY DEF IInv, Basics, pt_migrate_kvmas
<1>2. pc' \in {"migrate", "jump"}
      BY <1>1
<1>3. Phases'
      BY <1>1, <1>2 DEF Phases
<1>4. kvmas_head = <<1, 0>> /\ list = Moved(Place)
      BY <1>1 DEF ListRight
<1>5. PICK j \in 0..8 : node = <<1, j>>
      BY <1>1 DEF ListRight
<1>6. ListRight' /\ node' \in {1} \X (0..8)
  <2>1. CASE j = 0
    <3>1. node = kvmas_head /\ Place = 9
          BY <1>4, <1>5, <2>1 DEF Place
    <3>. QED BY <1>1, <1>4, <1>5, <3>1 DEF ListRight
  <2>2. CASE j # 0
    <3>1. node # kvmas_head /\ Place = j
          BY <1>4, <1>5, <2>2 DEF Place
    <3>2. /\ Migrated(Moved(j), <<1, j>>) = Moved(j + 1)
          /\ Moved(j + 1)[j].next = <<1, After(j)>>
          BY MigrateNode
    <3>3. list' = Moved(j + 1) /\ node' = <<1, After(j)>> /\ pc' = "migrate"
          BY <1>1, <1>4, <1>5, <3>1, <3>2
    <3>4. After(j) \in 0..8 /\ Place' = j + 1
          BY <2>2, <3>3 DEF After, Place
    <3>5. node' \in {1} \X (0..8)
          BY <3>3, <3>4
    <3>. QED BY <1>1, <1>4, <3>3, <3>4, <3>5 DEF ListRight
  <2>. QED BY <2>1, <2>2
<1>7. VmasRight'
  <2>1. Regions = 4 /\ Regions' = 4
        BY <1>1 DEF Regions
  <2>. QED BY <1>1, <2>1, SameVmas
<1>8. TypeOK'
  <2>1. ListTyped'
        BY <1>2, <1>3, <1>6, <1>7, ListTypeNext DEF ListKnown
  <2>2. node' \in Pointer
        BY <1>6 DEF Pointer
  <2>. QED BY <1>1, <2>1, <2>2 DEF TypeOK, ListTyped
<1>9. free' > 0 => TreeRight' /\ pc' # "trap"
  <2>1. \A r, high, x : /\ Made(r, high, x) /\ Made(r, high, x)'
                        /\ ~Gone(r, high, x) /\ ~Gone(r, high, x)'
        BY <1>1, <1>2 DEF Made, Gone
  <2>2. AtBoundary' /\ UnmapsForward'
        BY <1>2 DEF AtBoundary, UnmapsForward
  <2>. QED BY <1>1, <1>2, <2>1, <2>2, TreeKept
<1>. QED BY <1>1, <1>3, <1>6, <1>7, <1>8, <1>9 DEF IInv, Basics

LEMMA Boot_pt_jump_to_high ==
    ASSUME IInv, pt_jump_to_high
    PROVE  IInv'
<1>1. /\ TypeOK /\ pte \in [Entry -> PteType] /\ Phases /\ VmasRight /\ ListRight
      /\ pc = "jump" /\ pc' = "destroy" /\ half' = 1
      /\ node' = list[0].next
      /\ UNCHANGED <<layout, paging, free, kvmas_head, list, vma, next, job, stale, pte>>
      BY DEF IInv, Basics, pt_jump_to_high
<1>2. Phases'
      BY <1>1 DEF Phases
<1>3. list' = Left(1) /\ node' = <<1, 1>> /\ kvmas_head' = <<1, 0>> /\ Place' = 1
  <2>1. list = Moved(9) /\ kvmas_head = <<1, 0>>
        BY <1>1 DEF ListRight
  <2>2. node' = <<1, 1>>
        BY <1>1, <2>1, FirstShapes
  <2>. QED BY <1>1, <2>1, <2>2, FirstShapes DEF Place
<1>4. ListRight'
      BY <1>1, <1>3 DEF ListRight
<1>5. VmasRight'
  <2>1. Regions = 4 /\ Regions' = 4
        BY <1>1 DEF Regions
  <2>. QED BY <1>1, <2>1, SameVmas
<1>6. TypeOK'
  <2>1. ListTyped'
        BY <1>1, <1>2, <1>4, <1>5, ListTypeNext DEF ListKnown
  <2>2. <<1, 1>> \in Pointer
        BY DEF Pointer
  <2>. QED BY <1>1, <1>3, <2>1, <2>2 DEF TypeOK, ListTyped
<1>7. free' > 0 => TreeRight' /\ pc' # "trap"
  <2>1. \A r \in Region, high \in BOOLEAN : \A x :
            /\ Made(r, high, x) /\ Made(r, high, x)'
            /\ ~Gone(r, high, x) /\ ~Gone(r, high, x)'
    <3>1. \A r \in Region : ~(NodeOf(r, FALSE) < 1)
          BY DEF NodeOf, Region
    <3>. QED BY <1>1, <1>3, <3>1 DEF Made, Gone
  <2>2. AtBoundary' /\ UnmapsForward'
        BY <1>1 DEF AtBoundary, UnmapsForward
  <2>. QED BY <1>1, <2>1, <2>2, TreeKept
<1>. QED BY <1>1, <1>2, <1>4, <1>5, <1>6, <1>7 DEF IInv, Basics

-----------------------------------------------------------------------------
(***************************************************************************)
(* The low VMAs go.                                                         *)
(***************************************************************************)
\* The loop tells a low VMA from a high one by its address.
LEMMA LowVmas ==
    ASSUME TypeOK, VmasRight, pc # "trap", Regions = 4,
           NEW r \in Region, NEW high \in BOOLEAN
    PROVE  /\ vma[NodeOf(r, high)] = Kvma(r, high)
           /\ vma[NodeOf(r, high)].vpn < KernelBase <=> ~high
<1>1. vma[NodeOf(r, high)] = Kvma(r, high)
      BY DEF VmasRight, Region
<1>2. RegionOf(layout)[r].vpn < KernelBase /\ RegionOf(layout)[r].vpn \in Nat
      BY LayoutIs, RegionsAre, Bases DEF Region
<1>3. Kvma(r, high).vpn = RegionOf(layout)[r].vpn + (IF high THEN KernelBase ELSE 0)
      BY KvmaIs
<1>. QED BY <1>1, <1>2, <1>3, Bases

LEMMA Boot_pt_destroy_low_kvmas ==
    ASSUME IInv, pt_destroy_low_kvmas
    PROVE  IInv'
<1>1. /\ TypeOK /\ pte \in [Entry -> PteType] /\ Phases /\ VmasRight /\ ListRight
      /\ pc = "destroy" /\ node # kvmas_head
      /\ next' = list[node[2]].next
      /\ IF vma[node[2]].vpn < KernelBase
         THEN /\ list' = Removed(list, node)
              /\ job' = [NoJob EXCEPT !.vpn = vma[node[2]].vpn]
              /\ pc' = "unmap"
              /\ UNCHANGED node
         ELSE /\ node' = next'
              /\ UNCHANGED <<list, job, pc>>
      /\ UNCHANGED <<layout, paging, half, free, kvmas_head, vma, stale, pte>>
      BY DEF IInv, Basics, pt_destroy_low_kvmas
<1>2. PICK j \in 1..8 : node = <<1, j>> /\ Place = j
  <2>1. kvmas_head = <<1, 0>> /\ node \in {1} \X (0..8)
        BY <1>1 DEF ListRight
  <2>2. PICK j \in 0..8 : node = <<1, j>>
        BY <2>1
  <2>3. j # 0
        BY <1>1, <2>1, <2>2
  <2>. QED BY <2>2, <2>3 DEF Place
<1>3. PICK r \in Region, high \in BOOLEAN : j = NodeOf(r, high)
      BY NodesAre
<1>4. list = Left(j) /\ kvmas_head = <<1, 0>>
      BY <1>1, <1>2 DEF ListRight
<1>5. pc' \in {"destroy", "unmap"} /\ Regions = 4 /\ Regions' = 4
      BY <1>1 DEF Regions
<1>6. /\ vma[j] = Kvma(r, high)
      /\ vma[node[2]].vpn < KernelBase <=> ~high
      BY <1>1, <1>2, <1>3, <1>5, LowVmas
<1>7. Phases' /\ VmasRight'
      BY <1>1, <1>5, SameVmas DEF Phases
<1>8. CASE high
  <2>1. j \in {2, 4, 6, 8}
        BY <1>3, <1>8, Nodes
  <2>2. pc' = "destroy" /\ list' = Left(j + 1) /\ next' = <<1, After(j)>> /\ node' = <<1, After(j)>>
        BY <1>1, <1>2, <1>4, <1>6, <1>8, <2>1, LeftStep
  <2>3. Place' = j + 1 /\ After(j) \in 0..8
        BY <2>2 DEF Place, After
  <2>4. ListRight'
    <3>1. node' \in {1} \X (0..8)
          BY <2>2, <2>3
    <3>. QED BY <1>1, <1>4, <2>2, <2>3, <3>1 DEF ListRight
  <2>5. TypeOK'
    <3>1. ListTyped'
          BY <1>5, <1>7, <2>4, ListTypeNext DEF ListKnown
    <3>2. <<1, After(j)>> \in Pointer
          BY <2>3 DEF Pointer
    <3>3. UNCHANGED job
          BY <1>1, <1>6, <1>8
    <3>. QED BY <1>1, <2>2, <3>1, <3>2, <3>3 DEF TypeOK, ListTyped
  <2>6. free' > 0 => TreeRight' /\ pc' # "trap"
    <3>1. \A s \in Region, g \in BOOLEAN : \A x :
              /\ Made(s, g, x) /\ Made(s, g, x)'
              /\ Gone(s, g, x) <=> Gone(s, g, x)'
      <4>1. \A s \in Region : NodeOf(s, FALSE) < j <=> NodeOf(s, FALSE) < j + 1
            BY <2>1 DEF NodeOf, Region
      <4>. QED BY <1>1, <1>2, <2>2, <2>3, <4>1 DEF Made, Gone
    <3>2. AtBoundary' /\ UnmapsForward'
          BY <2>2 DEF AtBoundary, UnmapsForward
    <3>. QED BY <1>1, <1>5, <3>1, <3>2, TreeKept
  <2>. QED BY <1>1, <1>7, <2>4, <2>5, <2>6 DEF IInv, Basics
<1>9. CASE ~high
  <2>1. j \in {1, 3, 5, 7} /\ high = FALSE
        BY <1>3, <1>9, Nodes
  <2>. DEFINE v == Kvma(r, FALSE)
  <2>2. /\ pc' = "unmap" /\ list' = Left(j + 1) /\ next' = <<1, j + 1>> /\ node' = <<1, j>>
        /\ job' = [NoJob EXCEPT !.vpn = v.vpn]
        BY <1>1, <1>2, <1>4, <1>6, <1>9, <2>1, LeftRemove
  <2>3. job' = [region |-> 0, high |-> FALSE, vpn |-> v.vpn, ppn |-> 0]
        BY <2>2 DEF NoJob
  <2>4. v.vpn \in Nat /\ v.pagen \in Nat /\ vma'[j] = v
        BY <1>1, <1>6, <2>1, KvmaIs
  <2>. HIDE DEF v
  <2>5. ListRight'
        BY <1>1, <1>4, <2>1, <2>2 DEF ListRight
  <2>6. TypeOK'
    <3>1. ListTyped'
          BY <1>5, <1>7, <2>5, ListTypeNext DEF ListKnown
    <3>2. <<1, j>> \in Pointer /\ <<1, j + 1>> \in Pointer
          BY <2>1 DEF Pointer
    <3>3. job' \in [region : 0..4, high : BOOLEAN, vpn : Int, ppn : Int]
          BY <2>3, <2>4
    <3>. QED BY <1>1, <2>2, <3>1, <3>2, <3>3 DEF TypeOK, ListTyped
  <2>7. free' > 0 => TreeRight' /\ pc' # "trap"
    <3>2. \A s \in Region, g \in BOOLEAN : \A x \in Pages(Kvma(s, g)) :
              /\ Made(s, g, x) /\ Made(s, g, x)'
              /\ Gone(s, g, x) <=> Gone(s, g, x)'
      <4>. TAKE s \in Region, g \in BOOLEAN
      <4>. TAKE x \in Pages(Kvma(s, g))
      <4>1. Made(s, g, x) /\ Made(s, g, x)'
            BY <1>1, <2>2 DEF Made
      <4>2. ~g /\ NodeOf(s, FALSE) = j => ~(x < job'.vpn)
        <5>. SUFFICES ASSUME ~g, NodeOf(s, FALSE) = j PROVE ~(x < job'.vpn)
             OBVIOUS
        <5>1. s = r /\ g = FALSE
              BY <1>3, <2>1 DEF NodeOf, Region
        <5>2. x \in Pages(v)
              BY <5>1 DEF v
        <5>3. x \in Int /\ v.vpn <= x
              BY <2>4, <5>2 DEF Pages
        <5>4. job'.vpn = v.vpn
              BY <2>3
        <5>. QED BY ONLY <2>4, <5>3, <5>4
      <4>3. Gone(s, g, x) <=> ~g /\ NodeOf(s, FALSE) < j
            BY <1>1, <1>2 DEF Gone
      <4>4. Gone(s, g, x)' <=> ~g /\ (NodeOf(s, FALSE) < j \/ (NodeOf(s, FALSE) = j /\ x < job'.vpn))
            BY <2>2 DEF Gone
      <4>. QED BY <4>1, <4>2, <4>3, <4>4
    <3>3. AtBoundary'
          BY <2>2 DEF AtBoundary
    <3>4. UnmapsForward'
      <4>1. job'.vpn = v.vpn /\ node'[2] = j
            BY <2>2, <2>3
      <4>. QED BY <2>4, <4>1 DEF UnmapsForward
    <3>. QED BY <1>1, <1>5, <3>2, <3>3, <3>4, TreeKept
  <2>. QED BY <1>1, <1>7, <2>5, <2>6, <2>7 DEF IInv, Basics
<1>. QED BY <1>8, <1>9

\* pt_vma_unmap_pages is in a VMA that is low and not quite gone.
LEMMA Unmapping ==
    ASSUME IInv, pc = "unmap"
    PROVE  \E r \in Region :
              /\ node = <<1, NodeOf(r, FALSE)>>
              /\ vma[node[2]] = Kvma(r, FALSE)
              /\ next = <<1, NodeOf(r, FALSE) + 1>>
              /\ list = Left(NodeOf(r, FALSE) + 1)
              /\ \A s \in Region, g \in BOOLEAN : \A x :
                    /\ Made(s, g, x)
                    /\ Gone(s, g, x) <=>
                          ~g /\ (NodeOf(s, FALSE) < NodeOf(r, FALSE) \/ (s = r /\ x < job.vpn))
<1>1. TypeOK /\ VmasRight /\ ListRight /\ Regions = 4
      BY DEF IInv, Basics, Regions
<1>2. PICK n \in {1, 3, 5, 7} : node = <<1, n>> /\ next = <<1, n + 1>> /\ list = Left(n + 1)
      BY <1>1 DEF ListRight
<1>3. PICK r \in Region : n = NodeOf(r, FALSE)
      BY DEF NodeOf, Region
<1>4. vma[node[2]] = Kvma(r, FALSE)
      BY <1>1, <1>2, <1>3, LowVmas
<1>5. \A s \in Region : NodeOf(s, FALSE) = NodeOf(r, FALSE) <=> s = r
      BY DEF NodeOf, Region
<1>6. \A s \in Region, g \in BOOLEAN : \A x :
         /\ Made(s, g, x)
         /\ Gone(s, g, x) <=>
               ~g /\ (NodeOf(s, FALSE) < NodeOf(r, FALSE) \/ (s = r /\ x < job.vpn))
      BY <1>2, <1>3, <1>5 DEF Made, Gone
<1>. QED BY <1>2, <1>3, <1>4, <1>6

LEMMA Boot_UnmapDone ==
    ASSUME IInv, UnmapDone
    PROVE  IInv'
<1>1. /\ TypeOK /\ pte \in [Entry -> PteType] /\ Phases /\ VmasRight /\ ListRight
      /\ pc = "unmap" /\ pc' = "destroy" /\ node' = next /\ job' = NoJob
      /\ job.vpn \notin 0 .. vma[node[2]].vpn + vma[node[2]].pagen - 1
      /\ UNCHANGED <<layout, paging, half, free, kvmas_head, list, vma, next, stale, pte>>
      BY DEF IInv, Basics, UnmapDone
<1>2. PICK r \in Region :
         /\ node = <<1, NodeOf(r, FALSE)>>
         /\ vma[node[2]] = Kvma(r, FALSE)
         /\ next = <<1, NodeOf(r, FALSE) + 1>>
         /\ list = Left(NodeOf(r, FALSE) + 1)
         /\ \A s \in Region, g \in BOOLEAN : \A x :
               /\ Made(s, g, x)
               /\ Gone(s, g, x) <=>
                     ~g /\ (NodeOf(s, FALSE) < NodeOf(r, FALSE) \/ (s = r /\ x < job.vpn))
      BY <1>1, Unmapping
<1>. DEFINE n == NodeOf(r, FALSE)
            v == Kvma(r, FALSE)
<1>3. n \in {1, 3, 5, 7} /\ v.vpn \in Nat /\ v.pagen \in Nat
  <2>1. n \in {1, 3, 5, 7}
        BY DEF NodeOf, Region
  <2>2. v.vpn \in Nat /\ v.pagen \in Nat
        BY <1>1, KvmaIs
  <2>. QED BY <2>1, <2>2
<1>4. node' = <<1, n + 1>> /\ list' = Left(n + 1) /\ Place' = n + 1 /\ kvmas_head' = <<1, 0>>
  <2>1. node' = <<1, n + 1>> /\ list' = Left(n + 1) /\ kvmas_head' = <<1, 0>>
        BY <1>1, <1>2 DEF ListRight
  <2>. HIDE DEF n
  <2>. QED BY <1>3, <2>1 DEF Place
<1>5. Phases' /\ ListRight'
  <2>1. node' \in {1} \X (0..8)
    <3>. HIDE DEF n
    <3>. QED BY <1>3, <1>4
  <2>. QED BY <1>1, <1>4, <2>1 DEF Phases, ListRight
<1>6. VmasRight'
  <2>1. Regions = 4 /\ Regions' = 4
        BY <1>1 DEF Regions
  <2>. QED BY <1>1, <2>1, SameVmas
<1>7. TypeOK'
  <2>1. ListTyped'
        BY <1>1, <1>5, <1>6, ListTypeNext DEF ListKnown
  <2>2. job' \in [region : 0..4, high : BOOLEAN, vpn : Int, ppn : Int]
        BY <1>1 DEF NoJob
  <2>. QED BY <1>1, <2>1, <2>2 DEF TypeOK, ListTyped
<1>8. free' > 0 => TreeRight' /\ pc' # "trap"
  <2>. SUFFICES ASSUME free > 0 PROVE TreeRight' /\ pc' # "trap"
       BY <1>1
  <2>1. \A s \in Region, g \in BOOLEAN : \A x \in Pages(Kvma(s, g)) :
            /\ Made(s, g, x) /\ Made(s, g, x)'
            /\ Gone(s, g, x) <=> Gone(s, g, x)'
    <3>. TAKE s \in Region, g \in BOOLEAN
    <3>. TAKE x \in Pages(Kvma(s, g))
    <3>1. Made(s, g, x) /\ Made(s, g, x)'
          BY <1>1, <1>2 DEF Made
    <3>2. s = r /\ ~g => x < job.vpn
      <4>. SUFFICES ASSUME s = r, ~g PROVE x < job.vpn
           OBVIOUS
      <4>1. x \in Pages(v)
        <5>1. g = FALSE
              OBVIOUS
        <5>. QED BY <5>1
      <4>2. UnmapsForward /\ job.vpn \in Int
            BY <1>1 DEF IInv, TreeRight, TypeOK
      <4>3. /\ v.vpn <= job.vpn
            /\ job.vpn \notin 0 .. v.vpn + v.pagen - 1
            BY <1>1, <1>2, <4>2 DEF UnmapsForward
      <4>. HIDE DEF v
      <4>. QED BY <1>3, <4>1, <4>2, <4>3 DEF Pages
    <3>3. Gone(s, g, x) <=> ~g /\ (NodeOf(s, FALSE) < n \/ s = r)
          BY <1>2, <3>2
    <3>4. Gone(s, g, x)' <=> ~g /\ NodeOf(s, FALSE) < n + 1
          BY <1>1, <1>4 DEF Gone
    <3>5. (NodeOf(s, FALSE) < n \/ s = r) <=> NodeOf(s, FALSE) < n + 1
          BY DEF NodeOf, Region
    <3>. QED BY <3>1, <3>3, <3>4, <3>5
  <2>2. AtBoundary' /\ UnmapsForward'
        BY <1>1 DEF AtBoundary, UnmapsForward
  <2>. QED BY <1>1, <2>1, <2>2, TreeKept
<1>. QED BY <1>1, <1>5, <1>6, <1>7, <1>8 DEF IInv, Basics

\* pt_unmap_page meets a page of the VMA, and all of it: the page begins at job.vpn.
LEMMA UnmapsWhole ==
    ASSUME IInv, free > 0, pc = "unmap", NEW r \in Region,
           NEW v, v = Kvma(r, FALSE), vma[node[2]] = v,
           job.vpn \in 0 .. v.vpn + v.pagen - 1,
           \A s \in Region, g \in BOOLEAN : \A x :
              /\ Made(s, g, x)
              /\ Gone(s, g, x) <=>
                    ~g /\ (NodeOf(s, FALSE) < NodeOf(r, FALSE) \/ (s = r /\ x < job.vpn))
    PROVE  /\ job.vpn \in Pages(v) /\ job.vpn \in Vpn
           /\ Mapped(job.vpn)
           /\ \A l \in Level : LeafAt(job.vpn, l) =>
                 Boundary(job.vpn, l) = job.vpn /\ job.vpn + Size(l) <= v.vpn + v.pagen
<1>1. TypeOK /\ TreeRight
      BY DEF IInv, Basics
<1>2. v.vpn \in Nat /\ v.pagen \in Nat
      BY <1>1, KvmaIs
<1>3. job.vpn \in Int /\ v.vpn <= job.vpn /\ job.vpn < v.vpn + v.pagen
  <2>1. v.vpn <= job.vpn
        BY <1>1, Zenon DEF TreeRight, UnmapsForward
  <2>2. job.vpn \in 0 .. v.vpn + v.pagen - 1
        OBVIOUS
  <2>. QED BY ONLY <1>2, <2>1, <2>2
<1>4. job.vpn \in Pages(v)
      BY ONLY <1>2, <1>3 DEF Pages
<1>5. \A x \in Pages(v) : x \in Vpn
      BY <1>1, KvmaPages
<1>6. \A x \in Pages(v) : InUse(x) <=> ~(x < job.vpn)
  <2>. TAKE x \in Pages(v)
  <2>1. \A s \in Region, g \in BOOLEAN : x \in Pages(Kvma(s, g)) => s = r /\ g = FALSE
        BY <1>1, KvmasApart
  <2>2. ~(NodeOf(r, FALSE) < NodeOf(r, FALSE))
        BY DEF NodeOf, Region
  <2>3. InUse(x) <=> Made(r, FALSE, x) /\ ~Gone(r, FALSE, x)
        BY <2>1 DEF InUse
  <2>4. Gone(r, FALSE, x) <=> x < job.vpn
        BY <2>2
  <2>. QED BY <2>3, <2>4
<1>7. \A x \in Pages(v) : Mapped(x) <=> ~(x < job.vpn)
      BY <1>1, <1>5, <1>6 DEF TreeRight, MappedRight
<1>8. Mapped(job.vpn)
      BY ONLY <1>3, <1>4, <1>7
<1>9. ASSUME NEW l \in Level, LeafAt(job.vpn, l)
      PROVE  Boundary(job.vpn, l) = job.vpn /\ job.vpn + Size(l) <= v.vpn + v.pagen
  <2>. DEFINE b == Boundary(job.vpn, l)
  <2>1. b \in Int /\ b <= job.vpn /\ job.vpn < b + Size(l) /\ Size(l) \in Nat \ {0}
        BY <1>3, Boundaries, Sizes
  <2>2. PICK s \in Region, g \in BOOLEAN : Fits(Kvma(s, g), job.vpn, l)
        BY <1>1, <1>4, <1>5, <1>9 DEF TreeRight, LeavesRight
  <2>3. job.vpn \in Pages(Kvma(s, g))
    <3>. DEFINE w == Kvma(s, g)
    <3>1. w.vpn \in Nat /\ w.pagen \in Nat /\ Fits(w, job.vpn, l)
          BY <1>1, <2>2, KvmaIs
    <3>. HIDE DEF w
    <3>2. job.vpn \in Pages(w)
          BY <1>3, <2>1, <3>1 DEF Fits, Pages
    <3>. QED BY <3>2 DEF w
  <2>4. Fits(v, job.vpn, l)
        BY <1>1, <1>4, <2>2, <2>3, KvmasApart
  <2>5. v.vpn <= b /\ b + Size(l) <= v.vpn + v.pagen
    <3>1. ~(job.vpn < 0)
          BY <1>2, <1>3
    <3>. QED BY <2>4, <3>1 DEF Fits
  <2>6. b \in Pages(v)
        BY ONLY <1>2, <1>3, <2>1, <2>5 DEF Pages, b
  <2>7. LeafAt(b, l)
    <3>1. \A h \in Level : l <= h => EntryOf(b, h) = EntryOf(job.vpn, h)
          BY <1>3, Nested
    <3>2. \A h \in Level : h > l => l <= h
          BY Sizes
    <3>3. l <= l
          BY Sizes
    <3>. QED BY <1>9, <3>1, <3>2, <3>3 DEF LeafAt
  <2>8. ~(b < job.vpn)
        BY <1>7, <2>6, <2>7 DEF Mapped
  <2>. HIDE DEF b
  <2>9. b = job.vpn
        BY <1>3, <2>1, <2>8
  <2>. QED BY <2>5, <2>9 DEF b
<1>. QED BY <1>4, <1>5, <1>8, <1>9

LEMMA Boot_UnmapPage ==
    ASSUME IInv, UnmapPage
    PROVE  IInv'
<1>1. /\ TypeOK /\ pte \in [Entry -> PteType] /\ Phases /\ VmasRight /\ ListRight
      /\ pc = "unmap"
      /\ job.vpn \in 0 .. vma[node[2]].vpn + vma[node[2]].pagen - 1
      /\ UNCHANGED <<layout, pc, paging, half, free, kvmas_head, list, vma, node, next>>
      BY DEF IInv, Basics, UnmapPage
<1>2. PICK l \in Level :
        \/ /\ LeafAt(job.vpn, l)
           /\ pte' = [pte EXCEPT ![EntryOf(job.vpn, l)] = NoPte]
           /\ stale' = stale \cup Block(Boundary(job.vpn, l), l)
           /\ job' = [job EXCEPT !.vpn = @ + Size(l)]
        \/ /\ ~Mapped(job.vpn)
           /\ job' = [job EXCEPT !.vpn = @ - ENOTMAPPED]
           /\ UNCHANGED <<pte, stale>>
  <2>1. 0 \in Level
        BY Sizes
  <2>. QED BY <2>1 DEF UnmapPage
<1>3. PICK r \in Region :
         /\ node = <<1, NodeOf(r, FALSE)>>
         /\ vma[node[2]] = Kvma(r, FALSE)
         /\ \A s \in Region, g \in BOOLEAN : \A x :
               /\ Made(s, g, x)
               /\ Gone(s, g, x) <=>
                     ~g /\ (NodeOf(s, FALSE) < NodeOf(r, FALSE) \/ (s = r /\ x < job.vpn))
      BY <1>1, Unmapping
<1>. DEFINE v == Kvma(r, FALSE)
            x == job.vpn
<1>4. /\ v.vpn \in Nat /\ v.pagen \in Nat /\ vma[node[2]] = v
      /\ x \in Int /\ x \in 0 .. v.vpn + v.pagen - 1
      /\ Size(l) \in Nat \ {0}
      BY <1>1, <1>3, KvmaIs, Sizes DEF TypeOK
<1>5. x \in Vpn
  <2>1. v.vpn + v.pagen <= Size(Levels)
        BY <1>1, KvmaEnd
  <2>2. Size(Levels) \in Nat
        BY Sizes
  <2>. HIDE DEF v
  <2>. QED BY <1>4, <2>1, <2>2 DEF Vpn
<1>6. /\ pte' \in [Entry -> PteType] /\ pte' \in [Entry -> [kind : {"none", "table", "leaf"}, ppn : Int]]
      /\ job' \in [region : 0..4, high : BOOLEAN, vpn : Int, ppn : Int]
      /\ job'.region = job.region
  <2>1. pte' \in [Entry -> PteType]
    <3>1. NoPte \in PteType
          BY DEF PteType
    <3>. QED BY <1>1, <1>2, <3>1
  <2>2. \A p \in PteType : p \in [kind : {"none", "table", "leaf"}, ppn : Int]
        BY DEF PteType, NoPte
  <2>3. /\ job' \in [region : 0..4, high : BOOLEAN, vpn : Int, ppn : Int]
        /\ job'.region = job.region
    <3>1. job \in [region : 0..4, high : BOOLEAN, vpn : Int, ppn : Int]
          BY <1>1 DEF TypeOK
    <3>2. x + Size(l) \in Int /\ x - ENOTMAPPED \in Int
          BY <1>4 DEF ENOTMAPPED
    <3>. QED BY <1>2, <3>1, <3>2
  <2>. QED BY <2>1, <2>2, <2>3
<1>7. stale' \subseteq Vpn
  <2>1. CASE UNCHANGED stale
        BY <1>1, <2>1 DEF TypeOK
  <2>2. CASE stale' = stale \cup Block(Boundary(x, l), l)
    <3>1. Block(Boundary(x, l), l) \subseteq Vpn
          BY <1>5, BlockInVpn
    <3>. QED BY <1>1, <2>2, <3>1 DEF TypeOK
  <2>. QED BY <1>2, <2>1, <2>2
<1>8. TypeOK'
      BY <1>1, <1>6, <1>7 DEF TypeOK
<1>9. Phases' /\ ListRight' /\ VmasRight'
  <2>1. Regions = 4 /\ Regions' = 4
        BY <1>1 DEF Regions
  <2>2. VmasRight'
        BY <1>1, <2>1, SameVmas
  <2>. QED BY <1>1, <2>2 DEF Phases, ListRight
<1>10. free' > 0 => TreeRight' /\ pc' # "trap"
  <2>. SUFFICES ASSUME free > 0 PROVE TreeRight' /\ pc' # "trap"
       BY <1>1
  <2>1. UnderTables /\ MappedRight /\ LeavesRight
        BY DEF IInv, TreeRight
  <2>2. /\ Mapped(x)
        /\ \A k \in Level : LeafAt(x, k) =>
              Boundary(x, k) = x /\ x + Size(k) <= v.vpn + v.pagen
        BY <1>1, <1>3, <1>4, UnmapsWhole
  <2>3. /\ LeafAt(x, l)
        /\ pte' = [pte EXCEPT ![EntryOf(x, l)] = NoPte]
        /\ job' = [job EXCEPT !.vpn = @ + Size(l)]
        BY <1>2, <2>2
  <2>4. Boundary(x, l) = x /\ x + Size(l) <= v.vpn + v.pagen
        BY <2>2, <2>3
  <2>5. job'.vpn = x + Size(l)
        BY <1>1, <2>3 DEF TypeOK
  <2>6. pte[EntryOf(x, l)].kind # "table"
        BY <2>3 DEF LeafAt
  <2>7. /\ UnderTables'
        /\ \A y \in Vpn, k \in Level : LeafAt(y, k)' => LeafAt(y, k)
        /\ \A y \in Vpn, k \in Level : LeafAt(y, k) /\ EntryOf(y, k) # EntryOf(x, l) =>
              LeafAt(y, k)' /\ pte'[EntryOf(y, k)] = pte[EntryOf(y, k)]
    <3>1. pte[EntryOf(x, l)].kind # "table" \/ l = 0
          BY <2>6
    <3>2. pte \in [Entry -> PteType] /\ UnderTables /\ x \in Vpn
          BY <1>1, <1>5, <2>1
    <3>3. Clears(x, l)
          BY <2>3 DEF Clears
    <3>. HIDE DEF x
    <3>4. Loses(x, l)
          BY ONLY <3>1, <3>2, <3>3, l \in Level, ClearEntry
    <3>. QED BY <3>4 DEF Loses
  <2>8. \A y \in Vpn, k \in Level : LeafAt(y, k)' => EntryOf(y, k) # EntryOf(x, l)
    <3>. SUFFICES ASSUME NEW y \in Vpn, NEW k \in Level, LeafAt(y, k)', EntryOf(y, k) = EntryOf(x, l)
                  PROVE  FALSE
         OBVIOUS
    <3>1. pte'[EntryOf(x, l)] = NoPte
          BY <1>1, <1>5, <2>3, EntriesAre
    <3>2. pte'[EntryOf(x, l)].kind = "leaf"
          BY DEF LeafAt
    <3>. QED BY <3>1, <3>2 DEF NoPte
  <2>9. \A y \in Vpn : Mapped(y)' <=> Mapped(y) /\ y \notin Block(x, l)
    <3>. TAKE y \in Vpn
    <3>1. EntryOf(y, l) = EntryOf(x, l) <=> y \in Block(x, l)
          BY <1>5, <2>4, BlockShares
    <3>2. ASSUME Mapped(y)' PROVE Mapped(y) /\ y \notin Block(x, l)
      <4>1. PICK k \in Level : LeafAt(y, k)'
            BY <3>2 DEF Mapped
      <4>2. LeafAt(y, k) /\ EntryOf(y, k) # EntryOf(x, l)
            BY <2>7, <2>8, <4>1
      <4>3. ASSUME EntryOf(y, l) = EntryOf(x, l) PROVE FALSE
        <5>1. LeafAt(y, l)
              BY <1>5, <2>3, <4>3, LeafShared
        <5>2. k = l
              BY <4>2, <5>1, OneLeaf
        <5>. QED BY <4>2, <4>3, <5>2
      <4>. QED BY <3>1, <4>2, <4>3 DEF Mapped
    <3>3. ASSUME Mapped(y), y \notin Block(x, l) PROVE Mapped(y)'
      <4>1. PICK k \in Level : LeafAt(y, k)
            BY <3>3 DEF Mapped
      <4>2. EntryOf(y, k) # EntryOf(x, l)
            BY <1>5, <3>1, <3>3, EntryLevel
      <4>. QED BY <2>7, <4>1, <4>2 DEF Mapped
    <3>. QED BY <3>2, <3>3
  <2>10. MappedRight'
    <3>1. \A y \in Vpn : InUse(y)' <=> InUse(y) /\ y \notin Block(x, l)
      <4>. TAKE y \in Vpn
      <4>1. y \in Int
            BY EntriesAre
      <4>2. \A s \in Region, g \in BOOLEAN : Kvma(s, g)' = Kvma(s, g) /\ Made(s, g, y)' /\ Made(s, g, y)
            BY <1>1, <1>3 DEF Kvma, RegionOf, Made
      <4>3. \A s \in Region, g \in BOOLEAN : y \in Pages(Kvma(s, g)) =>
               (~Gone(s, g, y)' <=> ~Gone(s, g, y) /\ y \notin Block(x, l))
        <5>. SUFFICES ASSUME NEW s \in Region, NEW g \in BOOLEAN, y \in Pages(Kvma(s, g))
                      PROVE  Gone(s, g, y)' <=> Gone(s, g, y) \/ y \in Block(x, l)
             OBVIOUS
        <5>1. \A q \in Region : NodeOf(q, FALSE) = NodeOf(r, FALSE) <=> q = r
              BY DEF NodeOf, Region
        <5>2. Gone(s, g, y)' <=>
                ~g /\ (NodeOf(s, FALSE) < NodeOf(r, FALSE) \/ (s = r /\ y < x + Size(l)))
              BY <1>1, <1>3, <2>5, <5>1 DEF Gone
        <5>3. Gone(s, g, y) <=>
                ~g /\ (NodeOf(s, FALSE) < NodeOf(r, FALSE) \/ (s = r /\ y < x))
              BY <1>3
        <5>4. y \in Block(x, l) => s = r /\ ~g
          <6>1. ASSUME y \in Block(x, l) PROVE y \in Pages(v)
            <7>1. UnmapsForward
                  BY DEF IInv, TreeRight
            <7>2. v.vpn <= x
                  BY <1>1, <1>4, <7>1 DEF UnmapsForward
            <7>. HIDE DEF v, x
            <7>. QED BY <1>4, <2>4, <4>1, <6>1, <7>2 DEF Block, Pages
          <6>2. y \in Pages(v) => s = r /\ g = FALSE
                BY <1>1, KvmasApart
          <6>. QED BY <6>1, <6>2
        <5>5. y \in Block(x, l) <=> x <= y /\ y < x + Size(l)
              BY <1>4, <4>1 DEF Block
        <5>6. y < x + Size(l) <=> y < x \/ y \in Block(x, l)
          <6>. HIDE DEF x
          <6>. QED BY <1>4, <4>1, <5>5
        <5>. QED BY <5>2, <5>3, <5>4, <5>6
      <4>. QED BY <4>2, <4>3 DEF InUse
    <3>. QED BY <2>1, <2>9, <3>1 DEF MappedRight
  <2>11. LeavesRight'
    <3>1. \A s, g : Kvma(s, g)' = Kvma(s, g)
          BY <1>1 DEF Kvma, RegionOf
    <3>2. \A y \in Vpn, k \in Level : LeafAt(y, k)' =>
             LeafAt(y, k) /\ pte'[EntryOf(y, k)] = pte[EntryOf(y, k)]
          BY <2>7, <2>8
    <3>. QED BY <2>1, <3>1, <3>2 DEF LeavesRight
  <2>12. UnmapsForward'
    <3>1. UnmapsForward /\ vma' = vma /\ node' = node
          BY <1>1 DEF IInv, TreeRight
    <3>2. v.vpn <= x
          BY <1>1, <1>4, <3>1 DEF UnmapsForward
    <3>3. v.vpn <= x + Size(l)
      <4>. HIDE DEF v, x
      <4>. QED BY <1>4, <3>2
    <3>. HIDE DEF v
    <3>. QED BY <1>4, <2>4, <2>5, <3>1, <3>3 DEF UnmapsForward
  <2>13. TablesUsed' /\ AtBoundary'
        BY <1>1 DEF TablesUsed, AtBoundary
  <2>. QED BY <1>1, <2>7, <2>10, <2>11, <2>12, <2>13 DEF TreeRight
<1>. QED BY <1>1, <1>6, <1>8, <1>9, <1>10 DEF IInv, Basics

-----------------------------------------------------------------------------
(***************************************************************************)
(* The VMAs are mapped.                                                     *)
(***************************************************************************)
JobType == [region : 0..4, high : BOOLEAN, vpn : Int, ppn : Int]

\* What pt_set_pte_leaf does in any case ...
LEMMA WalkTypes ==
    ASSUME TypeOK, pte \in [Entry -> PteType],
           NEW x, NEW l \in Level, NEW p \in PteType, NEW r \in Int, Walk(x, l, p, r)
    PROVE  /\ pte' \in [Entry -> PteType]
           /\ pte' \in [Entry -> [kind : {"none", "table", "leaf"}, ppn : Int]]
           /\ free' \in Nat /\ free' <= free
           /\ job' \in JobType /\ job'.region = job.region /\ job'.high = job.high
<1>. DEFINE empty == {h \in Level : h > l /\ pte[EntryOf(x, h)] = NoPte}
            made == {h \in empty : Cardinality({k \in empty : k > h}) < free}
            tables == [e \in Entry |-> IF \E h \in made : e = EntryOf(x, h)
                                       THEN Table(0) ELSE pte[e]]
<1>1. free \in Nat /\ job \in JobType
      BY DEF TypeOK, JobType
<1>2. Cardinality(made) \in Nat /\ Cardinality(made) <= free
  <2>1. empty \subseteq Level
        OBVIOUS
  <2>2. made = {h \in empty : Cardinality({k \in empty : k > h}) < free}
        OBVIOUS
  <2>. HIDE DEF empty, made
  <2>. QED BY <1>1, <2>1, <2>2, Enough
<1>3. \/ Advance(-EMAPPED) /\ UNCHANGED <<pte, free>>
      \/ /\ pte' = IF made = empty THEN [tables EXCEPT ![EntryOf(x, l)] = p] ELSE tables
         /\ free' = free - Cardinality(made)
         /\ Advance(IF made = empty THEN r ELSE -ENORESOURCES)
      BY DEF Walk
<1>4. pte' \in [Entry -> PteType]
  <2>1. tables \in [Entry -> PteType]
    <3>1. Table(0) \in PteType
          BY DEF PteType, Table
    <3>. HIDE DEF made
    <3>. QED BY <3>1
  <2>. HIDE DEF tables, made, empty
  <2>. QED BY <1>3, <2>1
<1>5. free' \in Nat /\ free' <= free
  <2>. HIDE DEF tables, made, empty
  <2>. QED BY <1>1, <1>2, <1>3
<1>6. job' \in JobType /\ job'.region = job.region /\ job'.high = job.high
  <2>1. PICK q \in Int : Advance(q)
    <3>1. -EMAPPED \in Int /\ -ENORESOURCES \in Int
          BY DEF EMAPPED, ENORESOURCES
    <3>. HIDE DEF tables, made, empty
    <3>. QED BY <1>3, <3>1
  <2>2. job.vpn + q \in Int /\ job.ppn + q \in Int
        BY <1>1 DEF JobType
  <2>3. job' = [[job EXCEPT !.vpn = job.vpn + q] EXCEPT !.ppn = job.ppn + q]
        BY <1>1, <2>1 DEF Advance, JobType
  <2>4. [job EXCEPT !.vpn = job.vpn + q] \in JobType
        BY <1>1, <2>2 DEF JobType
  <2>. QED BY <1>1, <2>2, <2>3, <2>4 DEF JobType
<1>7. \A q \in PteType : q \in [kind : {"none", "table", "leaf"}, ppn : Int]
      BY DEF PteType, NoPte
<1>8. pte' \in [Entry -> [kind : {"none", "table", "leaf"}, ppn : Int]]
      BY <1>4, <1>7
<1>. QED BY <1>4, <1>5, <1>6, <1>8

\* ... and when nothing is in the way and some memory is left.
LEMMA WalkMaps ==
    ASSUME TypeOK, pte \in [Entry -> PteType], NEW x, NEW l \in Level,
           NEW p \in PteType, NEW r \in Int, Walk(x, l, p, r), free' > 0,
           pte[EntryOf(x, l)] = NoPte, \A h \in Level : ~LeafAt(x, h)
    PROVE  Makes(x, l, p) /\ Advance(r)
<1>. DEFINE empty == {h \in Level : h > l /\ pte[EntryOf(x, h)] = NoPte}
            made == {h \in empty : Cardinality({k \in empty : k > h}) < free}
            tables == [e \in Entry |-> IF \E h \in made : e = EntryOf(x, h)
                                       THEN Table(0) ELSE pte[e]]
<1>1. free \in Nat
      BY DEF TypeOK
<1>2. /\ pte' = IF made = empty THEN [tables EXCEPT ![EntryOf(x, l)] = p] ELSE tables
      /\ free' = free - Cardinality(made)
      /\ Advance(IF made = empty THEN r ELSE -ENORESOURCES)
      BY DEF Walk
<1>3. made = empty
  <2>1. empty \subseteq Level
        OBVIOUS
  <2>2. made = {h \in empty : Cardinality({k \in empty : k > h}) < free}
        OBVIOUS
  <2>. HIDE DEF empty, made, tables
  <2>3. Cardinality(made) \in Nat /\ (Cardinality(made) < free => made = empty)
        BY <1>1, <2>1, <2>2, Enough
  <2>. QED BY <1>1, <1>2, <2>3
<1>4. Advance(r)
  <2>. HIDE DEF empty, made, tables
  <2>. QED BY <1>2, <1>3
<1>5. pte' = [tables EXCEPT ![EntryOf(x, l)] = p]
  <2>. HIDE DEF empty, made, tables
  <2>. QED BY <1>2, <1>3
<1>6. tables = [e \in Entry |->
                  IF \E h \in Level : h > l /\ pte[EntryOf(x, h)] = NoPte /\ e = EntryOf(x, h)
                  THEN Table(0) ELSE pte[e]]
  <2>1. \A e : (\E h \in made : e = EntryOf(x, h))
               <=> \E h \in Level : h > l /\ pte[EntryOf(x, h)] = NoPte /\ e = EntryOf(x, h)
    <3>1. \A h : h \in made <=> h \in Level /\ h > l /\ pte[EntryOf(x, h)] = NoPte
      <4>. HIDE DEF made
      <4>. QED BY <1>3
    <3>. HIDE DEF made, empty
    <3>. QED BY <3>1, Zenon
  <2>. HIDE DEF made, empty
  <2>. QED BY <2>1
<1>. HIDE DEF tables
<1>. QED BY <1>4, <1>5, <1>6 DEF Makes

LEMMA WalkBasics ==
    ASSUME IInv, pc = "map", NEW x, NEW l \in Level, NEW p \in PteType, NEW r \in Int,
           Walk(x, l, p, r), stale' = {},
           UNCHANGED <<layout, pc, paging, half, kvmas_head, list, vma, node, next>>
    PROVE  Basics' /\ free' \in Nat /\ free' <= free
<1>1. TypeOK /\ pte \in [Entry -> PteType] /\ Phases /\ VmasRight /\ ListRight
      BY DEF IInv, Basics
<1>2. /\ pte' \in [Entry -> PteType]
      /\ pte' \in [Entry -> [kind : {"none", "table", "leaf"}, ppn : Int]]
      /\ free' \in Nat /\ free' <= free
      /\ job' \in JobType /\ job'.region = job.region /\ job'.high = job.high
      BY <1>1, WalkTypes
<1>3. TypeOK'
      BY <1>1, <1>2 DEF TypeOK, JobType
<1>4. Phases' /\ ListRight'
      BY <1>1, <1>2 DEF Phases, ListRight
<1>5. VmasRight'
  <2>1. Regions' = Regions
        BY <1>2 DEF Regions
  <2>. QED BY <1>1, <2>1, SameVmas
<1>. QED BY <1>2, <1>3, <1>4, <1>5 DEF Basics

\* What is at hand while a VMA is mapped.
LEMMA Mapping ==
    ASSUME IInv, free > 0, pc = "map"
    PROVE  /\ TypeOK /\ pte \in [Entry -> PteType]
           /\ job.region \in Region /\ job.high \in BOOLEAN /\ job.vpn \in Int
           /\ ThisVma = Kvma(job.region, job.high)
           /\ ThisVma.vpn \in Nat /\ ThisVma.pagen \in Nat
           /\ ThisVma.vpn <= job.vpn /\ job.vpn <= ThisVma.vpn + ThisVma.pagen
           /\ job.ppn = job.vpn - (IF job.high THEN KernelBase ELSE 0)
           /\ \A l \in Level : Fits(ThisVma, job.vpn, l) => Boundary(job.vpn, l) = job.vpn
           /\ UnderTables /\ MappedRight /\ LeavesRight /\ TablesUsed
<1>1. /\ TypeOK /\ pte \in [Entry -> PteType] /\ VmasRight /\ Phases
      /\ UnderTables /\ MappedRight /\ LeavesRight /\ TablesUsed /\ AtBoundary
      BY DEF IInv, Basics, TreeRight
<1>2. job.region \in Region /\ job.high \in BOOLEAN /\ job.vpn \in Int
      BY <1>1 DEF Phases, TypeOK
<1>3. ThisVma = Kvma(job.region, job.high)
  <2>1. Regions = job.region /\ job.region \in 1..job.region
        BY <1>2 DEF Regions, Region
  <2>. QED BY <1>1, <1>2, <2>1 DEF VmasRight, ThisVma
<1>4. ThisVma.vpn \in Nat /\ ThisVma.pagen \in Nat
      BY <1>1, <1>2, <1>3, KvmaIs
<1>. QED BY <1>1, <1>2, <1>3, <1>4 DEF AtBoundary

\* Nothing is in the way of a page that fits.
LEMMA NothingThere ==
    ASSUME IInv, free > 0, pc = "map", NEW l \in Level, Fits(ThisVma, job.vpn, l)
    PROVE  /\ Boundary(job.vpn, l) = job.vpn /\ job.vpn \in Vpn
           /\ Block(job.vpn, l) \subseteq Pages(ThisVma)
           /\ \A y \in Vpn : EntryOf(y, l) = EntryOf(job.vpn, l) => ~Mapped(y)
<1>. DEFINE v == ThisVma
            x == job.vpn
<1>1. /\ TypeOK /\ job.region \in Region /\ job.high \in BOOLEAN /\ MappedRight
      /\ v = Kvma(job.region, job.high)
      BY Mapping
<1>2. x \in Int /\ v.vpn \in Nat /\ v.pagen \in Nat /\ v.vpn <= x /\ Boundary(x, l) = x
      BY Mapping
<1>3. Size(l) \in Nat \ {0} /\ Fits(v, x, l)
      BY Sizes
<1>. HIDE DEF v, x
<1>4. v.vpn <= x /\ x + Size(l) <= v.vpn + v.pagen
      BY <1>2, <1>3 DEF Fits
<1>5. Block(x, l) \subseteq Pages(v)
      BY <1>2, <1>3, <1>4 DEF Block, Pages
<1>6. x \in Vpn
  <2>1. x \in Pages(v)
        BY <1>2, <1>3, <1>4 DEF Pages
  <2>. QED BY <1>1, <2>1, KvmaPages
<1>7. ASSUME NEW y \in Vpn, EntryOf(y, l) = EntryOf(x, l), Mapped(y) PROVE FALSE
  <2>1. y \in Block(x, l)
        BY <1>2, <1>6, <1>7, BlockShares
  <2>2. y \in Int /\ x <= y /\ y \in Pages(v)
        BY <1>2, <1>3, <1>5, <2>1 DEF Block
  <2>3. PICK r \in Region, high \in BOOLEAN :
           y \in Pages(Kvma(r, high)) /\ Made(r, high, y)
        BY <1>1, <1>7 DEF MappedRight, InUse
  <2>4. r = job.region /\ high = job.high
        BY <1>1, <2>2, <2>3, KvmasApart
  <2>5. ~(NodeOf(job.region, job.high) < NodeOf(job.region, job.high))
        BY <1>1, Nodes
  <2>6. y < x
        BY <2>3, <2>4, <2>5 DEF Made, x
  <2>. QED BY <1>2, <2>2, <2>6
<1>. QED BY <1>2, <1>5, <1>6, <1>7 DEF v, x

\* The largest page that fits is taken, although the entry is looked for from the
\* top: a table that is too large for what is left has nothing in it here.
LEMMA LevelTaken ==
    ASSUME IInv, free > 0, pc = "map", NEW fit \in Level, NEW empty \in Level,
           Fits(ThisVma, job.vpn, fit), HighestEmpty(job.vpn, empty)
    PROVE  /\ ~(empty < fit)
           /\ Room(job.vpn, fit)
           /\ \A h \in Level : ~LeafAt(job.vpn, h)
<1>. DEFINE x == job.vpn
<1>1. TablesUsed /\ UnderTables
      BY Mapping
<1>2. x \in Vpn /\ \A y \in Vpn : EntryOf(y, fit) = EntryOf(x, fit) => ~Mapped(y)
      BY NothingThere
<1>3. /\ pte[EntryOf(x, empty)] = NoPte
      /\ \A h \in Level : h > empty => pte[EntryOf(x, h)].kind = "table"
      BY DEF HighestEmpty
<1>. HIDE DEF x
<1>4. ~(empty < fit)
  <2>. SUFFICES ASSUME empty < fit PROVE FALSE
       OBVIOUS
  <2>1. pte[EntryOf(x, fit)].kind = "table"
        BY <1>3
  <2>. QED BY <1>1, <1>2, <2>1 DEF TablesUsed
<1>5. \A h \in Level : h < empty => pte[EntryOf(x, h)] = NoPte
  <2>1. TablesAbove
        BY <1>1, ByPage
  <2>2. NoPte.kind # "table"
        BY DEF NoPte
  <2>. QED BY <1>2, <1>3, <2>1, <2>2 DEF TablesAbove
<1>6. \A h \in Level : h = empty \/ h < empty \/ h > empty
      BY Sizes
<1>7. pte[EntryOf(x, fit)] = NoPte
      BY <1>3, <1>4, <1>5, <1>6
<1>8. \A h \in Level : ~LeafAt(x, h)
      BY <1>2 DEF Mapped
<1>. QED BY <1>3, <1>4, <1>5, <1>6, <1>7, <1>8 DEF x, Room

\* The page is mapped and the next one is at the boundary of all that fit there.
LEMMA PageMapped ==
    ASSUME IInv, free > 0, pc = "map", NEW x, x = job.vpn, NEW f, f = job.ppn,
           NEW l \in Level, Fit(l), Room(x, l), Makes(x, l, Leaf(f)),
           Advance(Size(l)), pc' = pc, UNCHANGED layout
    PROVE  TreeRight'
<1>. DEFINE v == ThisVma
            n == x + Size(l)
            off == IF job.high THEN KernelBase ELSE 0
<1>1. /\ TypeOK /\ pte \in [Entry -> PteType] /\ job \in JobType
      /\ job.region \in Region /\ job.high \in BOOLEAN /\ x \in Int
      /\ v = Kvma(job.region, job.high) /\ v.vpn \in Nat /\ v.pagen \in Nat
      /\ v.vpn <= x /\ f = x - off /\ f \in Int
      /\ UnderTables /\ MappedRight /\ LeavesRight /\ TablesUsed
      BY Mapping DEF TypeOK, JobType
<1>2. Fits(v, x, l) /\ \A h \in Level : Fits(v, x, h) => h <= l
      BY DEF Fit, Highest
<1>3. Boundary(x, l) = x /\ x \in Vpn /\ Block(x, l) \subseteq Pages(v)
      BY <1>2, NothingThere
<1>4. Size(l) \in Nat \ {0} /\ off \in Int /\ n \in Int
      BY <1>1, Sizes, Bases
<1>5. HasLeaf(x, l, f)
      BY <1>1, <1>3, NewLeaf
<1>6. job'.vpn = n /\ job'.ppn = f + Size(l) /\ job'.region = job.region /\ job'.high = job.high
      BY <1>1 DEF JobType, Advance
<1>7. \A s, g : Kvma(s, g)' = Kvma(s, g)
      BY DEF Kvma, RegionOf
<1>8. \A y \in Vpn : EntryOf(y, l) = EntryOf(x, l) <=> y \in Block(x, l)
      BY <1>3, BlockShares
<1>9. \A y \in Vpn : Mapped(y)' <=> Mapped(y) \/ y \in Block(x, l)
      BY <1>5, <1>8 DEF HasLeaf, Mapped
<1>10. MappedRight'
  <2>1. \A y \in Vpn : InUse(y)' <=> InUse(y) \/ y \in Block(x, l)
    <3>. TAKE y \in Vpn
    <3>1. y \in Int
          BY EntriesAre
    <3>2. \A s \in Region, g \in BOOLEAN : ~Gone(s, g, y) /\ ~Gone(s, g, y)'
          BY DEF Gone
    <3>3. y \in Block(x, l) <=> x <= y /\ y < n
          BY <1>1, <1>4, <3>1 DEF Block
    <3>4. \A s \in Region, g \in BOOLEAN :
             /\ Made(s, g, y) <=> \/ NodeOf(s, g) < NodeOf(job.region, job.high)
                                  \/ s = job.region /\ g = job.high /\ y < x
             /\ Made(s, g, y)' <=> \/ NodeOf(s, g) < NodeOf(job.region, job.high)
                                   \/ s = job.region /\ g = job.high /\ y < n
          BY <1>6 DEF Made
    <3>. HIDE DEF n
    <3>5. \A s \in Region, g \in BOOLEAN :
             Made(s, g, y)' <=> \/ Made(s, g, y)
                                \/ s = job.region /\ g = job.high /\ y \in Block(x, l)
      <4>1. y < n <=> y < x \/ y \in Block(x, l)
            BY <1>1, <1>4, <3>1, <3>3 DEF n
      <4>. QED BY <3>4, <4>1
    <3>6. y \in Block(x, l) => y \in Pages(Kvma(job.region, job.high))
          BY <1>1, <1>3
    <3>. QED BY <1>1, <1>7, <3>2, <3>5, <3>6 DEF InUse
  <2>. QED BY <1>1, <1>9, <2>1 DEF MappedRight
<1>11. LeavesRight'
  <2>. SUFFICES ASSUME NEW y \in Vpn, NEW k \in Level, LeafAt(y, k)'
                PROVE  \E s \in Region, g \in BOOLEAN :
                          /\ Fits(Kvma(s, g), y, k)
                          /\ pte'[EntryOf(y, k)].ppn =
                                Boundary(y, k) - (IF g THEN KernelBase ELSE 0)
       BY <1>7 DEF LeavesRight
  <2>1. CASE LeafAt(y, k)
    <3>1. pte'[EntryOf(y, k)] = pte[EntryOf(y, k)]
          BY <1>5, <2>1 DEF HasLeaf
    <3>. QED BY <1>1, <2>1, <3>1 DEF LeavesRight
  <2>2. CASE k = l /\ EntryOf(y, l) = EntryOf(x, l)
    <3>1. Boundary(y, l) = x
      <4>1. y \in Int
            BY EntriesAre
      <4>. QED BY <1>1, <1>3, <2>2, <4>1, EntryShared
    <3>2. Fits(v, y, l)
      <4>1. ~(y < 0) /\ ~(x < 0)
            BY <1>3, EntriesAre DEF Vpn
      <4>. QED BY <1>2, <1>3, <3>1, <4>1 DEF Fits
    <3>3. pte'[EntryOf(y, l)].ppn = Boundary(y, l) - off
          BY <1>1, <1>5, <2>2, <3>1 DEF HasLeaf, Leaf
    <3>. QED BY <1>1, <2>2, <3>2, <3>3
  <2>. QED BY <1>5, <2>1, <2>2 DEF HasLeaf
<1>12. TablesUsed'
  <2>. SUFFICES ASSUME NEW y \in Vpn, NEW k \in Level, pte'[EntryOf(y, k)].kind = "table"
                PROVE  \E z \in Vpn : EntryOf(z, k) = EntryOf(y, k) /\ Mapped(z)'
       BY DEF TablesUsed
  <2>1. CASE pte[EntryOf(y, k)].kind = "table"
        BY <1>1, <1>9, <2>1 DEF TablesUsed
  <2>2. CASE EntryOf(y, k) = EntryOf(x, k)
    <3>1. Mapped(x)'
          BY <1>3, <1>5 DEF HasLeaf, Mapped
    <3>. QED BY <1>3, <2>2, <3>1
  <2>. QED BY <1>5, <2>1, <2>2 DEF HasLeaf
<1>13. AtBoundary'
  <2>1. v.vpn <= n /\ n <= v.vpn + v.pagen
    <3>1. x + Size(l) <= v.vpn + v.pagen
          BY <1>2, <1>3 DEF Fits, Vpn
    <3>. HIDE DEF v
    <3>. QED BY <1>1, <1>4, <3>1
  <2>2. job'.ppn = n - off
    <3>. HIDE DEF off
    <3>. QED BY <1>1, <1>4, <1>6
  <2>3. ASSUME NEW h \in Level, Fits(v, n, h) PROVE Boundary(n, h) = n
    <3>1. Boundary(n, h) = n \/ (l < h /\ Boundary(x, h) = Boundary(n, h))
          BY <1>1, <1>3, NextBoundary
    <3>2. Boundary(x, h) = Boundary(n, h) => Fits(v, x, h)
      <4>1. x \in Nat
            BY <1>3 DEF Vpn
      <4>2. ~(x < 0) /\ ~(n < 0)
            BY <1>4, <4>1
      <4>. QED BY <2>3, <4>2 DEF Fits
    <3>3. h <= l => ~(l < h)
          BY Sizes
    <3>. QED BY <1>2, <3>1, <3>2, <3>3
  <2>4. Kvma(job.region, job.high)' = v
        BY <1>1, <1>6 DEF Kvma, RegionOf
  <2>. HIDE DEF v, n, off
  <2>5. LET w == v
        IN  /\ w.vpn <= job'.vpn /\ job'.vpn <= w.vpn + w.pagen
            /\ job'.ppn = job'.vpn - off
            /\ \A h \in Level : Fits(w, job'.vpn, h) => Boundary(job'.vpn, h) = job'.vpn
        BY <1>6, <2>1, <2>2, <2>3
  <2>6. off = IF job'.high THEN KernelBase ELSE 0
        BY <1>6 DEF off
  <2>. QED BY <2>4, <2>5, <2>6 DEF AtBoundary
<1>14. UnmapsForward'
      BY DEF UnmapsForward
<1>. QED BY <1>5, <1>10, <1>11, <1>12, <1>13, <1>14 DEF HasLeaf, TreeRight

LEMMA Boot_MapPage ==
    ASSUME IInv, MapPage
    PROVE  IInv'
<1>1. /\ pc = "map" /\ stale' = {}
      /\ UNCHANGED <<layout, pc, paging, half, kvmas_head, list, vma, node, next>>
      BY DEF MapPage
<1>2. PICK fit \in Level, empty \in Level :
         /\ Fit(fit) /\ HighestEmpty(PageAround(job.vpn, fit), empty)
         /\ LET l == IF empty < fit THEN empty ELSE fit
            IN  Walk(PageAround(job.vpn, l), l, Leaf(job.ppn), Boundary(job.vpn, l) + Size(l) - job.vpn)
      BY DEF MapPage
<1>. DEFINE l == IF empty < fit THEN empty ELSE fit
            x == PageAround(job.vpn, l)
            r == Boundary(job.vpn, l) + Size(l) - job.vpn
<1>3. job.vpn \in Int /\ job.ppn \in Int
      BY DEF IInv, Basics, TypeOK
<1>4. l \in Level /\ r \in Int
      BY <1>3, Boundaries, Sizes
<1>5. Leaf(job.ppn) \in PteType
      BY <1>3 DEF Leaf, PteType
<1>6. Walk(x, l, Leaf(job.ppn), r)
      BY <1>2
<1>7. Basics' /\ free' \in Nat /\ free' <= free
  <2>. HIDE DEF l, x, r
  <2>. QED BY <1>1, <1>4, <1>5, <1>6, WalkBasics
<1>8. ASSUME free' > 0 PROVE TreeRight'
  <2>1. free > 0
    <3>1. free \in Nat
          BY DEF IInv, Basics, TypeOK
    <3>. QED BY <1>7, <1>8, <3>1
  <2>2. Fits(ThisVma, job.vpn, fit)
        BY <1>2 DEF Fit, Highest
  <2>3. Boundary(job.vpn, fit) = job.vpn /\ PageAround(job.vpn, fit) = job.vpn
    <3>1. Boundary(job.vpn, fit) = job.vpn
          BY <1>1, <2>1, <2>2, NothingThere
    <3>2. ThisVma.vpn \in Nat /\ ThisVma.vpn <= job.vpn
          BY <1>1, <2>1, Mapping
    <3>3. 0 <= job.vpn
          BY <1>3, <3>2
    <3>. QED BY <1>3, <3>1, <3>3, AroundIs
  <2>4. HighestEmpty(job.vpn, empty)
        BY <1>2, <2>3
  <2>5. ~(empty < fit) /\ Room(job.vpn, fit) /\ \A h \in Level : ~LeafAt(job.vpn, h)
        BY <1>1, <2>1, <2>2, <2>4, LevelTaken
  <2>6. Walk(job.vpn, fit, Leaf(job.ppn), job.vpn + Size(fit) - job.vpn)
        BY <1>6, <2>3, <2>5
  <2>7. job.vpn + Size(fit) - job.vpn = Size(fit) /\ Size(fit) \in Int
        BY <1>3, Sizes
  <2>8. Makes(job.vpn, fit, Leaf(job.ppn)) /\ Advance(Size(fit))
    <3>1. TypeOK /\ pte \in [Entry -> PteType]
          BY DEF IInv, Basics
    <3>2. Walk(job.vpn, fit, Leaf(job.ppn), Size(fit))
          BY <2>6, <2>7
    <3>3. pte[EntryOf(job.vpn, fit)] = NoPte
          BY <2>5 DEF Room
    <3>. QED BY <1>5, <1>8, <2>5, <2>7, <3>1, <3>2, <3>3, WalkMaps
  <2>9. Fit(fit) /\ pc' = pc /\ UNCHANGED layout
        BY <1>1, <1>2
  <2>10. PICK n, f : n = job.vpn /\ f = job.ppn
        OBVIOUS
  <2>11. Room(n, fit) /\ Makes(n, fit, Leaf(f))
        BY <2>5, <2>8, <2>10
  <2>. QED BY ONLY IInv, <1>1, <2>1, <2>8, <2>9, <2>10, <2>11, fit \in Level, PageMapped
<1>. QED BY <1>1, <1>7, <1>8 DEF IInv

\* What is in the way is not there before memory has run out.
LEMMA Boot_PageInTheWay ==
    ASSUME IInv, PageInTheWay
    PROVE  IInv'
<1>1. /\ pc = "map" /\ stale' = {} /\ Walk(0, 0, NoPte, -EMAPPED)
      /\ UNCHANGED <<layout, pc, paging, half, kvmas_head, list, vma, node, next>>
      BY DEF PageInTheWay
<1>2. 0 \in Level /\ NoPte \in PteType /\ -EMAPPED \in Int
      BY Sizes DEF PteType, EMAPPED
<1>3. Basics' /\ free' \in Nat /\ free' <= free
      BY <1>1, <1>2, WalkBasics
<1>4. ~(free > 0)
  <2>. SUFFICES ASSUME free > 0 PROVE FALSE
       OBVIOUS
  <2>1. PICK fit \in Level : Fit(fit) /\ Mapped(PageAround(job.vpn, fit))
        BY DEF PageInTheWay
  <2>2. Fits(ThisVma, job.vpn, fit)
        BY <2>1 DEF Fit, Highest
  <2>3. Boundary(job.vpn, fit) = job.vpn /\ job.vpn \in Vpn /\ ~Mapped(job.vpn)
        BY <1>1, <2>2, NothingThere
  <2>4. PageAround(job.vpn, fit) = job.vpn
    <3>1. job.vpn \in Int /\ 0 <= job.vpn
          BY <2>3 DEF Vpn
    <3>. QED BY <2>3, <3>1, AroundIs
  <2>. QED BY <2>1, <2>3, <2>4
<1>5. free \in Nat
      BY DEF IInv, Basics, TypeOK
<1>. QED BY <1>3, <1>4, <1>5 DEF IInv

\* The first page of a VMA is at the beginning of every large page that fits.
AtStart ==
    /\ TypeOK /\ job.region \in Region /\ job.high \in BOOLEAN
    /\ job.vpn = Kvma(job.region, job.high).vpn
    /\ job.ppn = job.vpn - (IF job.high THEN KernelBase ELSE 0)

LEMMA StartAtBoundary == AtStart => AtBoundary
<1>. SUFFICES ASSUME AtStart PROVE AtBoundary
     OBVIOUS
<1>. DEFINE v == Kvma(job.region, job.high)
<1>1. v.vpn \in Nat /\ v.pagen \in Nat /\ job.vpn = v.vpn
      BY KvmaIs DEF AtStart
<1>. HIDE DEF v
<1>2. ASSUME NEW l \in Level, Fits(v, job.vpn, l) PROVE Boundary(job.vpn, l) = job.vpn
  <2>1. Boundary(job.vpn, l) \in Int /\ Boundary(job.vpn, l) <= job.vpn
        BY <1>1, Boundaries
  <2>2. job.vpn <= Boundary(job.vpn, l)
        BY <1>1, <1>2 DEF Fits
  <2>. QED BY <1>1, <2>1, <2>2
<1>3. v.vpn <= job.vpn /\ job.vpn <= v.vpn + v.pagen
      BY <1>1
<1>. QED BY <1>2, <1>3 DEF AtBoundary, AtStart, v

LEMMA StartNext == AtStart' => AtBoundary'
BY StartAtBoundary, PTL

LEMMA RegionIsKvma ==
    ASSUME TypeOK, NEW r \in Region
    PROVE  /\ RegionOf(layout)[r] = Kvma(r, FALSE)
           /\ [RegionOf(layout)[r] EXCEPT !.vpn = @ + KernelBase] = Kvma(r, TRUE)
<1>. DEFINE y == RegionOf(layout)[r]
<1>1. y \in [vpn : Nat, pagen : Nat]
  <2>1. r = 1 \/ r = 2 \/ r = 3 \/ r = 4
        BY DEF Region
  <2>2. /\ layout.phys_end - layout.phys_base \in Nat /\ layout.phys_base - layout.kelf_base \in Nat
        /\ layout.phys_base \in Nat /\ layout.phys_end \in Nat /\ layout.kelf_base \in Nat
        /\ layout.kstack_size \in Nat
        BY LayoutIs
  <2>3. \A a, n \in Nat : [vpn |-> a, pagen |-> n] \in [vpn : Nat, pagen : Nat]
        OBVIOUS
  <2>. QED BY <2>1, <2>2, <2>3, RegionsAre
<1>2. KernelBase \in Nat
      BY Bases
<1>3. Kvma(r, FALSE) = [vpn |-> y.vpn + 0, pagen |-> y.pagen]
      BY DEF Kvma
<1>4. Kvma(r, TRUE) = [vpn |-> y.vpn + KernelBase, pagen |-> y.pagen]
      BY DEF Kvma
<1>. HIDE DEF y
<1>5. y.vpn + 0 = y.vpn /\ y = [vpn |-> y.vpn, pagen |-> y.pagen]
      BY <1>1
<1>6. [y EXCEPT !.vpn = @ + KernelBase] = [vpn |-> y.vpn + KernelBase, pagen |-> y.pagen]
      BY <1>1, <1>2
<1>. QED BY <1>3, <1>4, <1>5, <1>6 DEF y

\* The two VMAs of a region are made.
LEMMA VmasMade ==
    ASSUME IInv, pc = "region", NEW r, r = job.region,
           DOMAIN vma' = DOMAIN vma \cup {NodeOf(r, FALSE), NodeOf(r, TRUE)},
           vma'[NodeOf(r, FALSE)] = Kvma(r, FALSE),
           vma'[NodeOf(r, TRUE)] = Kvma(r, TRUE),
           \A n \in DOMAIN vma \ {NodeOf(r, FALSE), NodeOf(r, TRUE)} : vma'[n] = vma[n],
           pc' = "map", job'.region = r, UNCHANGED layout
    PROVE  VmasRight'
<1>1. VmasRight /\ r \in Region
      BY DEF IInv, Basics, Phases
<1>2. Regions = r - 1 /\ Regions' = r /\ r \in Int
      BY <1>1 DEF Regions, Region
<1>3. DOMAIN vma = 1..2*(r - 1) /\ \A s \in 1..r-1, g \in BOOLEAN : vma[NodeOf(s, g)] = Kvma(s, g)
      BY <1>2 DEF VmasRight, IInv, Basics
<1>4. \A s, g : Kvma(s, g)' = Kvma(s, g)
      BY DEF Kvma, RegionOf
<1>5. NodeOf(r, FALSE) = 2 * r - 1 /\ NodeOf(r, TRUE) = 2 * r
      BY DEF NodeOf
<1>6. DOMAIN vma' = 1..2*r
  <2>1. 1..2*(r - 1) \cup {2 * r - 1, 2 * r} = 1..2*r
        BY <1>1 DEF Region
  <2>. QED BY <1>3, <1>5, <2>1
<1>7. ASSUME NEW s \in 1..r, NEW g \in BOOLEAN PROVE vma'[NodeOf(s, g)] = Kvma(s, g)
  <2>1. s \in Region
        BY <1>1 DEF Region
  <2>2. CASE s = r
        BY <2>2
  <2>3. CASE s # r
    <3>1. s \in 1..r-1
          BY <1>2, <2>3
    <3>2. NodeOf(s, g) \in 1..2*(r-1)
          BY <1>2, <2>1, <3>1 DEF NodeOf
    <3>3. ASSUME NEW h \in BOOLEAN PROVE NodeOf(s, g) # NodeOf(r, h)
          BY ONLY <1>1, <2>1, <2>3, g \in BOOLEAN, h \in BOOLEAN, Nodes
    <3>. QED BY <1>3, <3>1, <3>2, <3>3
  <2>. QED BY <2>2, <2>3
<1>. QED BY <1>2, <1>4, <1>6, <1>7 DEF VmasRight

LEMMA Boot_map_lowhigh ==
    ASSUME IInv, __map_lowhigh
    PROVE  IInv'
<1>. DEFINE lo == NodeOf(job.region, FALSE)
            hi == NodeOf(job.region, TRUE)
            low == RegionOf(layout)[job.region]
            high == [low EXCEPT !.vpn = @ + KernelBase]
<1>1. /\ TypeOK /\ pte \in [Entry -> PteType] /\ Phases /\ VmasRight /\ ListRight
      /\ pc = "region" /\ pc' = "map" /\ job.region \in Region
      /\ UNCHANGED <<layout, paging, half, free, kvmas_head, node, next, stale, pte>>
      BY DEF IInv, Basics, __map_lowhigh, Phases
<1>2. /\ vma' = [n \in DOMAIN vma \cup {lo, hi} |->
                   IF n = lo THEN low ELSE IF n = hi THEN high ELSE vma[n]]
      /\ list' = Appended(Appended(list, kvmas_head, lo), kvmas_head, hi)
      /\ job' = [job EXCEPT !.high = FALSE, !.vpn = low.vpn, !.ppn = low.vpn]
      BY DEF __map_lowhigh
<1>3. PICK r \in Region : r = job.region
      BY <1>1
<1>4. /\ lo = 2 * r - 1 /\ hi = 2 * r /\ lo # hi
      /\ low = Kvma(r, FALSE) /\ high = Kvma(r, TRUE)
      /\ low.vpn \in Nat /\ low.pagen \in Nat
  <2>1. lo = 2 * r - 1 /\ hi = 2 * r /\ lo # hi
        BY <1>3 DEF NodeOf, Region
  <2>2. low = Kvma(r, FALSE) /\ high = Kvma(r, TRUE)
        BY <1>1, <1>3, RegionIsKvma
  <2>3. low.vpn \in Nat /\ low.pagen \in Nat
        BY <1>1, KvmaIs
  <2>. QED BY <2>1, <2>2, <2>3
<1>5. PICK a \in Nat : a = low.vpn
      BY <1>4
<1>6. job' = [region |-> r, high |-> FALSE, vpn |-> a, ppn |-> a]
  <2>1. job \in JobType
        BY <1>1 DEF TypeOK, JobType
  <2>. HIDE DEF low
  <2>. QED BY <1>2, <1>3, <1>5, <2>1 DEF JobType
<1>7. Phases'
      BY <1>1, <1>3, <1>6 DEF Phases
<1>8. ListRight'
  <2>1. kvmas_head = <<0, 0>> /\ list = Ring(2 * r - 2)
        BY <1>1, <1>3 DEF ListRight
  <2>2. Appended(Ring(2 * r - 2), <<0, 0>>, lo) = Ring(2 * r - 1)
    <3>1. 2 * r - 2 \in 0..7 /\ 2 * r - 2 + 1 = 2 * r - 1
          BY DEF Region
    <3>2. Appended(Ring(2 * r - 2), <<0, 0>>, 2 * r - 2 + 1) = Ring(2 * r - 2 + 1)
          BY <3>1, AppendRing
    <3>. QED BY <1>4, <3>1, <3>2
  <2>3. Appended(Ring(2 * r - 1), <<0, 0>>, hi) = Ring(2 * r)
    <3>1. 2 * r - 1 \in 0..7 /\ 2 * r - 1 + 1 = 2 * r
          BY DEF Region
    <3>2. Appended(Ring(2 * r - 1), <<0, 0>>, 2 * r - 1 + 1) = Ring(2 * r - 1 + 1)
          BY <3>1, AppendRing
    <3>. QED BY <1>4, <3>1, <3>2
  <2>4. list' = Ring(2 * r)
        BY <1>2, <2>1, <2>2, <2>3
  <2>5. job'.region = r
        BY <1>6
  <2>. QED BY <1>1, <2>1, <2>4, <2>5 DEF ListRight
<1>9. VmasRight'
  <2>1. /\ DOMAIN vma' = DOMAIN vma \cup {lo, hi} /\ vma'[lo] = low /\ vma'[hi] = high
        /\ \A n \in DOMAIN vma \ {lo, hi} : vma'[n] = vma[n]
    <3>. HIDE DEF lo, hi, low, high
    <3>. QED BY <1>2, <1>4
  <2>2. job'.region = r
        BY <1>6
  <2>. QED BY <1>1, <1>3, <1>4, <2>1, <2>2, VmasMade
<1>10. TypeOK'
  <2>1. ListTyped'
        BY <1>1, <1>7, <1>8, <1>9, ListTypeNext DEF ListKnown
  <2>2. low \in [vpn : Nat, pagen : Nat] /\ high \in [vpn : Nat, pagen : Nat]
    <3>1. a + 0 \in Nat /\ a + KernelBase \in Nat
      <4>1. KernelBase \in Nat
            BY Bases
      <4>. QED BY ONLY <4>1, a \in Nat
    <3>2. Kvma(r, FALSE) \in [vpn : Nat, pagen : Nat]
          BY <1>3, <1>4, <1>5, <3>1 DEF Kvma
    <3>3. Kvma(r, TRUE) \in [vpn : Nat, pagen : Nat]
          BY <1>3, <1>4, <1>5, <3>1 DEF Kvma
    <3>. QED BY <1>4, <3>2, <3>3
  <2>3. vma' \in [DOMAIN vma' -> [vpn : Nat, pagen : Nat]]
    <3>1. vma \in [DOMAIN vma -> [vpn : Nat, pagen : Nat]]
          BY <1>1 DEF TypeOK
    <3>. HIDE DEF lo, hi, low, high
    <3>. QED BY <1>2, <2>2, <3>1
  <2>4. job' \in [region : 0..4, high : BOOLEAN, vpn : Int, ppn : Int]
        BY ONLY <1>6, r \in Region, a \in Nat DEF Region
  <2>. QED BY <1>1, <2>1, <2>3, <2>4 DEF TypeOK, ListTyped
<1>11. free' > 0 => TreeRight' /\ pc' # "trap"
  <2>1. \A s \in Region, g \in BOOLEAN : \A x \in Pages(Kvma(s, g)) :
           (Made(s, g, x) /\ ~Gone(s, g, x))' <=> (Made(s, g, x) /\ ~Gone(s, g, x))
    <3>. TAKE s \in Region, g \in BOOLEAN
    <3>. TAKE x \in Pages(Kvma(s, g))
    <3>1. Made(s, g, x) <=> s < r
          BY <1>1, <1>3 DEF Made
    <3>2. Made(s, g, x)' <=> NodeOf(s, g) < lo \/ (s = r /\ ~g /\ x < a)
          BY <1>1, <1>3, <1>6 DEF Made
    <3>3. NodeOf(s, g) < lo <=> s < r
      <4>1. NodeOf(s, g) \in {2 * s, 2 * s - 1} /\ s \in Int /\ r \in Int
            BY DEF NodeOf, Region
      <4>. HIDE DEF lo
      <4>. QED BY <1>4, <4>1
    <3>4. ASSUME s = r, ~g PROVE ~(x < a)
      <4>1. x \in Pages(low)
            BY <1>4, <3>4
      <4>2. low.pagen \in Nat
            BY <1>4
      <4>. HIDE DEF low
      <4>. QED BY ONLY <1>5, <4>1, <4>2, a \in Nat DEF Pages
    <3>5. ~Gone(s, g, x) /\ ~Gone(s, g, x)'
          BY <1>1 DEF Gone
    <3>. QED BY <3>1, <3>2, <3>3, <3>4, <3>5
  <2>2. AtBoundary'
    <3>1. AtStart'
      <4>1. Kvma(job.region, job.high)' = Kvma(r, FALSE)
            BY <1>1, <1>6 DEF Kvma, RegionOf
      <4>2. /\ job'.region = r /\ job'.high = FALSE /\ job'.vpn = a
            /\ job'.ppn = a - 0
            BY ONLY <1>6, a \in Nat
      <4>3. Kvma(r, FALSE).vpn = a
            BY <1>4, <1>5
      <4>. QED BY <1>10, <4>1, <4>2, <4>3 DEF AtStart
    <3>. QED BY <3>1, StartNext
  <2>3. UnmapsForward'
        BY <1>1 DEF UnmapsForward
  <2>. QED BY <1>1, <2>1, <2>2, <2>3, TreeKept
<1>. QED BY <1>1, <1>7, <1>8, <1>9, <1>10, <1>11 DEF IInv, Basics

\* The loop ends at the end of the VMA, not before it.
LEMMA AllMapped ==
    ASSUME IInv, free > 0, pc = "map", \A l \in Level : ~Fits(ThisVma, job.vpn, l)
    PROVE  /\ job.vpn = ThisVma.vpn + ThisVma.pagen
           /\ \A s \in Region, g \in BOOLEAN : \A x \in Pages(Kvma(s, g)) :
                 Made(s, g, x) <=> NodeOf(s, g) <= NodeOf(job.region, job.high)
<1>. DEFINE v == ThisVma
<1>1. /\ TypeOK /\ job.region \in Region /\ job.high \in BOOLEAN /\ job.vpn \in Int
      /\ v = Kvma(job.region, job.high) /\ v.vpn \in Nat /\ v.pagen \in Nat
      /\ v.vpn <= job.vpn /\ job.vpn <= v.vpn + v.pagen
      BY Mapping
<1>2. ~Fits(v, job.vpn, 0) /\ Boundary(job.vpn, 0) = job.vpn /\ Size(0) = 1
      BY <1>1, Sizes, LowestLevel
<1>. HIDE DEF v
<1>3. job.vpn = v.vpn + v.pagen
      BY <1>1, <1>2 DEF Fits
<1>4. ASSUME NEW s \in Region, NEW g \in BOOLEAN, NEW x \in Pages(Kvma(s, g))
      PROVE  Made(s, g, x) <=> NodeOf(s, g) <= NodeOf(job.region, job.high)
  <2>1. Made(s, g, x) <=> \/ NodeOf(s, g) < NodeOf(job.region, job.high)
                          \/ s = job.region /\ g = job.high /\ x < job.vpn
        BY DEF Made
  <2>2. s = job.region /\ g = job.high => x < job.vpn
        BY <1>1, <1>3 DEF Pages
  <2>3. /\ NodeOf(s, g) \in Int /\ NodeOf(job.region, job.high) \in Int
        /\ NodeOf(s, g) = NodeOf(job.region, job.high) <=> s = job.region /\ g = job.high
    <3>1. NodeOf(s, g) \in 1..8 /\ NodeOf(job.region, job.high) \in 1..8
          BY <1>1, Nodes
    <3>2. NodeOf(s, g) = NodeOf(job.region, job.high) => s = job.region /\ g = job.high
          BY <1>1, Nodes
    <3>. QED BY <3>1, <3>2
  <2>. QED BY <2>1, <2>2, <2>3
<1>. QED BY <1>3, <1>4 DEF v

LEMMA JobTypes ==
    \A n \in 0..4, h \in BOOLEAN, x, y \in Int :
        [region |-> n, high |-> h, vpn |-> x, ppn |-> y] \in JobType
BY DEF JobType

LEMMA Boot_MapDone ==
    ASSUME IInv, MapDone
    PROVE  IInv'
<1>1. /\ TypeOK /\ pte \in [Entry -> PteType] /\ Phases /\ VmasRight /\ ListRight
      /\ pc = "map" /\ job.region \in Region /\ job.high \in BOOLEAN
      /\ UNCHANGED <<layout, paging, half, free, kvmas_head, list, vma, node, next, stale, pte>>
      BY DEF IInv, Basics, MapDone, Phases, TypeOK
<1>2. PICK r \in Region : r = job.region
      BY <1>1
<1>3. PICK a \in Nat : RegionOf(layout)[r].vpn = a
      BY <1>1, KvmaIs
<1>4. KernelBase \in Nat
      BY Bases
\* Where it goes on.
<1>5. \/ /\ ~job.high /\ pc' = "map"
         /\ job' = [region |-> r, high |-> TRUE, vpn |-> a + KernelBase, ppn |-> a]
      \/ /\ job.high /\ r < 4 /\ pc' = "region"
         /\ job' = [region |-> r + 1, high |-> FALSE, vpn |-> 0, ppn |-> 0]
      \/ /\ job.high /\ r = 4 /\ pc' = "enable"
         /\ job' = [region |-> 0, high |-> FALSE, vpn |-> 0, ppn |-> 0]
  <2>1. job \in JobType
        BY <1>1 DEF TypeOK, JobType
  <2>2. CASE ~job.high
    <3>1. /\ job' = [job EXCEPT !.high = TRUE, !.vpn = a + KernelBase, !.ppn = a]
          /\ pc' = pc
          BY <1>2, <1>3, <2>2 DEF MapDone
    <3>. QED BY <1>1, <1>2, <2>1, <2>2, <3>1 DEF JobType
  <2>3. CASE job.high /\ r = 4
    <3>1. job' = [NoJob EXCEPT !.region = 0] /\ pc' = "enable"
          BY <1>2, <2>3 DEF MapDone
    <3>. QED BY <2>3, <3>1 DEF NoJob
  <2>4. CASE job.high /\ r # 4
    <3>1. job' = [NoJob EXCEPT !.region = r + 1] /\ pc' = "region"
          BY <1>2, <2>4 DEF MapDone
    <3>2. r < 4
          BY <2>4 DEF Region
    <3>3. PICK n : n = r + 1
          OBVIOUS
    <3>4. job' = [NoJob EXCEPT !.region = n]
          BY <3>1, <3>3
    <3>5. job' = [region |-> n, high |-> FALSE, vpn |-> 0, ppn |-> 0]
          BY ONLY <3>4 DEF NoJob
    <3>. QED BY <2>4, <3>1, <3>2, <3>3, <3>5
  <2>. QED BY <1>1, <2>2, <2>3, <2>4
<1>6. Phases'
      BY <1>1, <1>5 DEF Phases, Region
<1>7. ListRight'
  <2>1. kvmas_head = <<0, 0>> /\ list = Ring(2 * r)
        BY <1>1, <1>2 DEF ListRight
  <2>2. 2 * (r + 1) - 2 = 2 * r /\ (r = 4 => 2 * r = 8)
        BY DEF Region
  <2>. QED BY <1>1, <1>5, <2>1, <2>2 DEF ListRight
<1>8. VmasRight'
  <2>1. Regions = r
        BY <1>1, <1>2 DEF Regions
  <2>2. Regions' = r
    <3>1. r + 1 - 1 = r
          BY DEF Region
    <3>2. \/ pc' = "map" /\ job'.region = r
          \/ pc' = "region" /\ job'.region = r + 1
          \/ pc' = "enable" /\ r = 4
      <4>. HIDE DEF Region
      <4>. QED BY ONLY <1>5
    <3>3. CASE pc' = "region" /\ job'.region = r + 1
      <4>1. Regions' = job'.region - 1
            BY <3>3 DEF Regions
      <4>. QED BY ONLY <3>1, <3>3, <4>1, r \in Region DEF Region
    <3>4. CASE pc' = "map" /\ job'.region = r
          BY ONLY <3>4 DEF Regions
    <3>5. CASE pc' = "enable" /\ r = 4
          BY ONLY <3>5 DEF Regions
    <3>. QED BY <3>2, <3>3, <3>4, <3>5
  <2>. QED BY <1>1, <2>1, <2>2, SameVmas
<1>9. TypeOK'
  <2>1. job' \in [region : 0..4, high : BOOLEAN, vpn : Int, ppn : Int]
    <3>1. r \in 0..4 /\ (r < 4 => r + 1 \in 0..4) /\ 0 \in 0..4
          BY DEF Region
    <3>2. a + KernelBase \in Int /\ a \in Int /\ 0 \in Int
          BY ONLY <1>4, a \in Nat
    <3>3. job' \in JobType
          BY ONLY <1>5, <3>1, <3>2, JobTypes, r < 4 \/ r = 4
    <3>. QED BY <3>3 DEF JobType
  <2>. QED BY <1>1, <2>1 DEF TypeOK
<1>10. free' > 0 => TreeRight' /\ pc' # "trap"
  <2>1. ASSUME free > 0, NEW s \in Region, NEW g \in BOOLEAN, NEW x \in Pages(Kvma(s, g))
        PROVE  (Made(s, g, x) /\ ~Gone(s, g, x))' <=> (Made(s, g, x) /\ ~Gone(s, g, x))
    <3>1. ~Gone(s, g, x) /\ ~Gone(s, g, x)'
          BY <1>1, <1>5 DEF Gone
    <3>2. Made(s, g, x) <=> NodeOf(s, g) <= NodeOf(r, job.high)
          BY <1>1, <1>2, <2>1, AllMapped DEF MapDone
    <3>3. PICK n \in 1..8 : n = NodeOf(s, g) /\ n <= 2 * s /\ n >= 2 * s - 1
          BY Nodes
    <3>4. CASE ~job.high
      <4>1. Made(s, g, x)' <=> \/ NodeOf(s, g) < NodeOf(r, TRUE)
                               \/ s = r /\ g = TRUE /\ x < a + KernelBase
        <5>1. pc' = "map" /\ job'.region = r /\ job'.high = TRUE /\ job'.vpn = a + KernelBase
              BY <1>5, <3>4
        <5>. QED BY ONLY <5>1 DEF Made
      <4>2. s = r /\ g = TRUE => ~(x < a + KernelBase)
        <5>. SUFFICES ASSUME s = r, g = TRUE PROVE ~(x < a + KernelBase)
             OBVIOUS
        <5>1. PICK w : w = Kvma(r, TRUE)
              OBVIOUS
        <5>2. w.vpn = a + KernelBase /\ w.pagen \in Nat /\ x \in Pages(w)
              BY <1>1, <1>3, <5>1, KvmaIs
        <5>. QED BY ONLY <1>4, <5>2, a \in Nat DEF Pages
      <4>3. NodeOf(r, TRUE) = 2 * r /\ NodeOf(r, job.high) = 2 * r - 1
            BY <3>4 DEF NodeOf
      <4>4. n < 2 * r <=> n <= 2 * r - 1
            BY ONLY n \in 1..8, r \in Region DEF Region
      <4>. QED BY <3>1, <3>2, <3>3, <4>1, <4>2, <4>3, <4>4
    <3>5. CASE job.high
      <4>1. NodeOf(r, job.high) = 2 * r
            BY <3>5 DEF NodeOf
      <4>2. n <= 2 * r <=> s <= r
            BY ONLY <3>3, s \in Region, r \in Region DEF Region
      <4>3. r = 4 => s <= r
            BY DEF Region
      <4>4. s < r + 1 <=> s <= r
            BY DEF Region
      <4>5. Made(s, g, x)' <=> s <= r
            BY <1>5, <3>5, <4>3, <4>4 DEF Made
      <4>. QED BY <3>1, <3>2, <3>3, <4>1, <4>2, <4>5
    <3>. QED BY <1>1, <3>4, <3>5
  <2>2. AtBoundary'
    <3>1. CASE pc' = "map"
      <4>1. ~job.high /\ job' = [region |-> r, high |-> TRUE, vpn |-> a + KernelBase, ppn |-> a]
            BY <1>5, <3>1
      <4>2. Kvma(job.region, job.high)' = Kvma(r, TRUE)
            BY <1>1, <4>1 DEF Kvma, RegionOf
      <4>3. Kvma(r, TRUE).vpn = a + KernelBase
            BY <1>1, <1>3, KvmaIs
      <4>4. a = a + KernelBase - KernelBase
            BY ONLY <1>4, a \in Nat
      <4>5. /\ job'.region = r /\ job'.high = TRUE /\ job'.vpn = a + KernelBase
            /\ job'.ppn = job'.vpn - KernelBase
        <5>1. \A c, d : LET q == [region |-> r, high |-> TRUE, vpn |-> c, ppn |-> d]
                        IN  q.region = r /\ q.high = TRUE /\ q.vpn = c /\ q.ppn = d
              OBVIOUS
        <5>2. /\ job'.region = r /\ job'.high = TRUE /\ job'.vpn = a + KernelBase
              /\ job'.ppn = a
              BY ONLY <4>1, <5>1
        <5>. QED BY ONLY <1>4, <5>2, a \in Nat
      <4>6. job'.ppn = job'.vpn - (IF job'.high THEN KernelBase ELSE 0)
            BY ONLY <4>5
      <4>7. AtStart'
            BY <1>9, <4>2, <4>3, <4>5, <4>6 DEF AtStart
      <4>. QED BY <4>7, StartNext
    <3>. QED BY <3>1 DEF AtBoundary
  <2>3. UnmapsForward' /\ pc' # "trap"
        BY <1>5 DEF UnmapsForward
  <2>. QED BY <1>1, <2>1, <2>2, <2>3, TreeKept
<1>. QED BY <1>1, <1>6, <1>7, <1>8, <1>9, <1>10 DEF IInv, Basics

-----------------------------------------------------------------------------
(***************************************************************************)
(* The theorems.                                                            *)
(***************************************************************************)
\* Every step of boot keeps the invariant.
LEMMA Steps ==
    ASSUME IInv, [Next]_vars
    PROVE  IInv'
<1>1. CASE ksatp_init
      BY <1>1, Boot_ksatp_init
<1>2. CASE InitFails
      BY <1>2, Boot_InitFails
<1>3. CASE __map_lowhigh
      BY <1>3, Boot_map_lowhigh
<1>4. CASE MapPage
      BY <1>4, Boot_MapPage
<1>5. CASE PageInTheWay
      BY <1>5, Boot_PageInTheWay
<1>6. CASE MapDone
      BY <1>6, Boot_MapDone
<1>7. CASE ksatp_enable_paging
      BY <1>7, Boot_ksatp_enable_paging
<1>8. CASE MigrateHead
      BY <1>8, Boot_MigrateHead
<1>9. CASE pt_migrate_kvmas
      BY <1>9, Boot_pt_migrate_kvmas
<1>10. CASE pt_jump_to_high
      BY <1>10, Boot_pt_jump_to_high
<1>11. CASE pt_destroy_low_kvmas
      BY <1>11, Boot_pt_destroy_low_kvmas
<1>12. CASE UnmapPage
      BY <1>12, Boot_UnmapPage
<1>13. CASE UnmapDone
      BY <1>13, Boot_UnmapDone
<1>14. CASE DestroyDone
      BY <1>14, Boot_DestroyDone
<1>15. CASE FirstProcess
      BY <1>15, Boot_FirstProcess
<1>16. CASE Trap
      BY <1>16, Boot_Trap
<1>17. CASE UNCHANGED vars
      BY <1>17, Boot_Stutter
<1>. QED BY <1>1, <1>2, <1>3, <1>4, <1>5, <1>6, <1>7, <1>8, <1>9, <1>10, <1>11, <1>12,
            <1>13, <1>14, <1>15, <1>16, <1>17 DEF Next, Boot, Ended

\* From pt_init to the first process the list of VMAs has the shape that the loops
\* over it count on (list_append, node_migrate and list_remove of util.c), and as
\* long as buddy has a page left the tables map what __map_lowhigh has been through
\* and pt_destroy_low_kvmas has not, every page in one large page of its own VMA.
THEOREM KernelMapInvariant == Spec => []IInv
<1>1. Init => IInv
      BY Begins
<1>2. IInv /\ [Next]_vars => IInv'
      BY Steps
<1>. QED BY <1>1, <1>2, PTL DEF Spec

\* The state of boot is well typed: the pointers of the list are those of the head
\* and of VMAs, moved to the high half at most once, and the TLB holds pages only.
THEOREM BootTyped == Spec => []TypeOK
<1>1. IInv => TypeOK
      BY DEF IInv, Basics
<1>. QED BY <1>1, KernelMapInvariant, PTL

\* ksatp_enable_paging, pt_migrate_kvmas, pt_jump_to_high and pt_destroy_low_kvmas
\* never take the code, the stack, the heap or a pointer of the kernel away from
\* under it, if memory did not run out.
THEOREM KernelSurvives == Spec => []BootSurvives
<1>1. IInv => BootSurvives
      BY DEF IInv, BootSurvives
<1>. QED BY <1>1, KernelMapInvariant, PTL

\* What pt_init leaves for the first process: every page of the machine once, in
\* the high half at its physical address, and no other page.
THEOREM MachineMapped == Spec => []BootMaps
<1>1. IInv => BootMaps
      BY MapsAll
<1>. QED BY <1>1, KernelMapInvariant, PTL

\* pt_migrate_kvmas and pt_destroy_low_kvmas leave the high VMAs in the list, in
\* order and linked both ways by high pointers, whatever memory was left.
THEOREM HighVmasLeft == Spec => []ListIsHigh
<1>1. IInv => ListIsHigh
  <2>. SUFFICES ASSUME IInv, pc \in {"done", "user"}, NEW n \in {0, 2, 4, 6, 8}
                PROVE  LET m == IF n = 8 THEN 0 ELSE n + 2
                       IN  /\ kvmas_head = <<1, 0>>
                           /\ list[n].next = <<1, m>> /\ list[m].prev = <<1, n>>
       BY DEF ListIsHigh, IInv, Basics, ListRight
  <2>. DEFINE m == IF n = 8 THEN 0 ELSE n + 2
  <2>1. list = Left(9) /\ kvmas_head = <<1, 0>>
        BY DEF IInv, Basics, ListRight
  <2>2. n \in 0..8 /\ m \in 0..8 /\ ~Off(n, 9) /\ ~Off(m, 9)
        BY DEF Off
  <2>3. list[n].next = <<1, m>>
    <3>1. (IF Off(After(n), 9) THEN n + 2 ELSE After(n)) = m
          BY DEF Off, After
    <3>. QED BY <2>1, <2>2, <3>1 DEF Left
  <2>4. list[m].prev = <<1, n>>
    <3>1. (IF Off(Before(m), 9) THEN m - 2 ELSE Before(m)) = n
          BY DEF Off, Before
    <3>. HIDE DEF m
    <3>. QED BY <2>1, <2>2, <3>1 DEF Left
  <2>. QED BY <2>1, <2>3, <2>4
<1>. QED BY <1>1, KernelMapInvariant, PTL
=============================================================================
