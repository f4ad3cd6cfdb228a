-------------------------- MODULE UserMemoryProofs ---------------------------
(***************************************************************************)
(* The memory of processes, for every number of processes, programs, sizes   *)
(* and layout: VMAs do not overlap, no frame has two users, and programs     *)
(* see flat memory.                                                         *)
(***************************************************************************)
EXTENDS UserMemory, WellFoundedInduction, TLAPS

-----------------------------------------------------------------------------
\* What the kernel takes for granted of the programs it is built with: they end
\* before the heap begins.  Nothing in the code checks it.
Fit == \A app \in App : app.load + TextPages(app) <= HeapBase

(***************************************************************************)
(* The inductive invariant.                                                 *)
(***************************************************************************)
\* The text is below the heap, then comes the stack; the rest is what mmap made.
InPlace(v, i) ==
    /\ i = 1 => v.vpn < HeapBase /\ v.vpn + v.pagen <= HeapBase
    /\ i = 2 => v = Vma(StackBase, StackPages)
    /\ i > 2 => /\ HeapBase <= v.vpn
                /\ v.vpn + v.pagen <= KernelSlot * SlotPages /\ AsInt(v.pagen) = v.pagen

VmasInPlace ==
    \A p \in Proc :
        /\ Len(vmas[p]) <= MaxVmas \/ Len(vmas[p]) = 2
        /\ p \in Live => Len(vmas[p]) >= 2
        /\ \A i \in DOMAIN vmas[p] : InPlace(vmas[p][i], i)

KernelTables == {ksatp, LowTable, HighTable}

\* Every process has a root of its own.
RootsApart ==
    /\ \A p \in Live : satp[p] \in Frame \ (free \cup KernelTables)
    /\ \A p, q \in Live : p # q => satp[p] # satp[q]

\* There are three kinds of entries: those of the kernel's root and their copies,
\* those of a process' root, and those of its tables.
KernelCopy(root) == Pte(root, KernelSlot, HighTable, 2)

KernelPte(e) == e \in KernelPtes \/ \E p \in Live : e = KernelCopy(satp[p])

RootPte(e) == e.level = 2 /\ e.idx # KernelSlot /\ \E p \in Live : e.at = satp[p]

LeafPte(e) == e.level < 2 /\ \E t \in pte : RootPte(t) /\ t.ppn = e.at

ThreeKinds ==
    /\ KernelPtes \subseteq pte
    /\ \A p \in Live : KernelCopy(satp[p]) \in pte
    /\ \A e \in pte : KernelPte(e) \/ RootPte(e) \/ LeafPte(e)

\* The frames of an entry.
Held(e) == IF e.level = 2 THEN {e.ppn} ELSE e.ppn .. e.ppn + Size(e.level) - 1

\* No process has them but one, and for one purpose.
HeldPrivately ==
    \A e \in pte : ~KernelPte(e) =>
        /\ Held(e) \subseteq Frame \ (free \cup KernelTables)
        /\ \A p \in Live : satp[p] \notin Held(e)
        /\ \A d \in pte : d # e /\ ~KernelPte(d) => Held(e) \cap Held(d) = {}

\* A root has one table for a slot.
OneTable ==
    \A e, d \in pte :
        RootPte(e) /\ RootPte(d) /\ e.at = d.at /\ e.idx = d.idx => e = d

IInv ==
    /\ Fit
    /\ TypeOK
    /\ VmasInPlace
    /\ RootsApart
    /\ ThreeKinds
    /\ HeldPrivately
    /\ OneTable

AInv == IInv /\ BelowStack /\ VmasApart

-----------------------------------------------------------------------------
(***************************************************************************)
(* Numbers.                                                                 *)
(***************************************************************************)
\* A set of numbers has a least element: there is no infinite descent.
Before == {ss \in Nat \X Nat : ss[1] < ss[2]}

LEMMA NoDescent == IsWellFoundedOn(Before, Nat)
BY NatLessThanWellFounded DEF Before, OpToRel

LEMMA HasLeast ==
    ASSUME NEW S, S \subseteq Nat, S # {}
    PROVE  \E x \in S : \A y \in S : x <= y
<1>1. \E x \in S : \A y \in S : ~(<<y, x>> \in Before)
      BY NoDescent, WFMin
<1>2. PICK x \in S : \A y \in S : ~(<<y, x>> \in Before)
      BY <1>1
<1>3. ASSUME NEW y \in S PROVE x <= y
  <2>1. x \in Nat /\ y \in Nat
        BY <1>2
  <2>2. ~(y < x)
        BY <1>2, <2>1 DEF Before
  <2>. QED BY <2>1, <2>2
<1>. QED BY <1>3

\* What pt_alloc takes is one of the frames it may take.
LEMMA Leasts ==
    ASSUME NEW S, S \subseteq Nat, S # {}
    PROVE  Least(S) \in S
<1>1. \E x \in S : \A y \in S : x <= y
      BY HasLeast
<1>. QED BY <1>1 DEF Least

\* Products, for the solver.
LEMMA Products ==
    ASSUME NEW a \in Int, NEW b \in Int, NEW m \in Nat, a <= b
    PROVE  a * m \in Int /\ b * m \in Int /\ a * m <= b * m
OBVIOUS

\* Division, for the solver.
LEMMA Division ==
    ASSUME NEW x \in Nat, NEW s \in Nat \ {0}
    PROVE  /\ x \div s \in Nat /\ x % s \in Nat
           /\ (x \div s) * s <= x /\ x < (x \div s) * s + s
           /\ x = (x \div s) * s + (x % s) /\ x % s < s
OBVIOUS

LEMMA Constants ==
    /\ PageSize \in Nat \ {0} /\ Mega \in Nat \ {0} /\ SlotPages \in Nat \ {0}
    /\ HeapBase \in Nat \ {0} /\ StackPages \in Nat \ {0}
    /\ MaxVmas \in Nat /\ StackBase \in Nat /\ KernelSlot \in Nat /\ KernelSlot # 0
    /\ HeapBase < StackBase /\ StackBase + StackPages <= KernelSlot * SlotPages
    /\ Frame \subseteq Nat \ {0} /\ KernelTables \subseteq Frame
    /\ Requests \subseteq Nat
    /\ \A l \in {0, 1} : Size(l) \in Nat \ {0}
BY UserMemoryAssumption DEF KernelTables, ksatp, LowTable, HighTable, Size

\* A program needs a page at least.
LEMMA Programs ==
    ASSUME NEW app \in App
    PROVE  app.load \in Nat /\ TextPages(app) \in Nat \ {0}
<1>1. app.load \in Nat /\ app.size \in Nat \ {0}
      BY UserMemoryAssumption
<1>2. /\ app.size \div PageSize \in Nat /\ app.size % PageSize \in Nat
      /\ app.size = (app.size \div PageSize) * PageSize + (app.size % PageSize)
      BY <1>1, Constants, Division
<1>3. app.size \div PageSize # 0 \/ app.size % PageSize # 0
  <2>. SUFFICES ASSUME app.size \div PageSize = 0, app.size % PageSize = 0
                PROVE  FALSE
       OBVIOUS
  <2>1. app.size = 0 * PageSize + 0
        BY <1>2
  <2>. QED BY <1>1, <2>1, Constants
<1>. QED BY <1>1, <1>2, <1>3 DEF TextPages

-----------------------------------------------------------------------------
(***************************************************************************)
(* VMAs.                                                                    *)
(***************************************************************************)
LEMMA ElementOf ==
    ASSUME NEW V, NEW s \in Seq(V), NEW i \in DOMAIN s
    PROVE  i \in Nat /\ i > 0 /\ i <= Len(s) /\ s[i] \in V
<1>1. Len(s) \in Nat /\ DOMAIN s = 1..Len(s)
      OBVIOUS
<1>2. i \in Nat /\ i > 0 /\ i <= Len(s)
      BY <1>1
<1>3. s[i] \in V
      OBVIOUS
<1>. QED BY <1>2, <1>3

LEMMA Elements ==
    ASSUME NEW s \in Seq([vpn : Nat, pagen : Nat])
    PROVE  /\ Len(s) \in Nat /\ DOMAIN s = 1..Len(s)
           /\ \A i \in DOMAIN s : /\ i \in Nat /\ i > 0 /\ i <= Len(s)
                                  /\ s[i] \in [vpn : Nat, pagen : Nat]
                                  /\ s[i].vpn \in Nat /\ s[i].pagen \in Nat
<1>1. Len(s) \in Nat /\ DOMAIN s = 1..Len(s)
      OBVIOUS
<1>. DEFINE V == [vpn : Nat, pagen : Nat]
<1>2. \A v \in V : v.vpn \in Nat /\ v.pagen \in Nat
      OBVIOUS
<1>3. ASSUME NEW i \in DOMAIN s
      PROVE  i \in Nat /\ i > 0 /\ i <= Len(s) /\ s[i] \in V
  <2>. HIDE DEF V
  <2>. QED BY <1>3, ElementOf DEF V
<1>. QED BY <1>1, <1>2, <1>3

\* Below everything mmap made is the highest start, and the first of those there.
LEMMA HighestStart ==
    ASSUME TypeOK, NEW p \in Proc, HeapVmas(p) # {},
           NEW M \in Nat, \A i \in DOMAIN vmas[p] : vmas[p][i].vpn <= M
    PROVE  \E j \in HeapVmas(p) : \A k \in HeapVmas(p) :
              \/ vmas[p][k].vpn < vmas[p][j].vpn
              \/ vmas[p][k].vpn = vmas[p][j].vpn /\ j <= k
<1>. DEFINE H == HeapVmas(p)
            D == {M - vmas[p][i].vpn : i \in H}
<1>1. /\ H \subseteq Nat /\ H # {}
      /\ \A i \in H : vmas[p][i].vpn \in Nat /\ vmas[p][i].vpn <= M
  <2>1. vmas[p] \in Seq([vpn : Nat, pagen : Nat])
        BY DEF TypeOK
  <2>2. \A i \in DOMAIN vmas[p] : i \in Nat /\ vmas[p][i].vpn \in Nat
        BY <2>1, Elements
  <2>3. H \subseteq DOMAIN vmas[p]
        BY DEF HeapVmas
  <2>. QED BY <2>2, <2>3
<1>. HIDE DEF H
<1>2. D \subseteq Nat /\ D # {}
  <2>1. \A i \in H : M - vmas[p][i].vpn \in Nat
        BY <1>1
  <2>. QED BY <1>1, <2>1
<1>. HIDE DEF D
<1>3. PICK d \in D : \A c \in D : d <= c
      BY <1>2, HasLeast
<1>. DEFINE T == {i \in H : M - vmas[p][i].vpn = d}
<1>4. T \subseteq Nat /\ T # {}
      BY <1>1, <1>3 DEF D
<1>. HIDE DEF T
<1>5. PICK j \in T : \A k \in T : j <= k
      BY <1>4, HasLeast
<1>6. j \in H /\ M - vmas[p][j].vpn = d
      BY <1>5 DEF T
<1>7. ASSUME NEW k \in H
      PROVE  \/ vmas[p][k].vpn < vmas[p][j].vpn
             \/ vmas[p][k].vpn = vmas[p][j].vpn /\ j <= k
  <2>1. d <= M - vmas[p][k].vpn
        BY <1>3, <1>7 DEF D
  <2>2. M - vmas[p][k].vpn = d => j <= k
        BY <1>5, <1>7 DEF T
  <2>. QED BY <1>1, <1>6, <1>7, <2>1, <2>2
<1>. QED BY <1>6, <1>7 DEF H

\* What is known of the VMAs of a process.
LEMMA VmaTypes ==
    ASSUME IInv, NEW p \in Proc
    PROVE  /\ vmas[p] \in Seq([vpn : Nat, pagen : Nat])
           /\ Len(vmas[p]) \in Nat /\ DOMAIN vmas[p] = 1..Len(vmas[p])
           /\ Len(vmas[p]) <= MaxVmas \/ Len(vmas[p]) = 2
           /\ \A i \in DOMAIN vmas[p] :
                 /\ i \in Nat /\ i > 0 /\ i <= Len(vmas[p])
                 /\ vmas[p][i].vpn \in Nat /\ vmas[p][i].pagen \in Nat
                 /\ InPlace(vmas[p][i], i)
<1>1. vmas[p] \in Seq([vpn : Nat, pagen : Nat])
      BY DEF IInv, TypeOK
<1>2. /\ Len(vmas[p]) \in Nat /\ DOMAIN vmas[p] = 1..Len(vmas[p])
      /\ \A i \in DOMAIN vmas[p] :
            /\ i \in Nat /\ i > 0 /\ i <= Len(vmas[p])
            /\ vmas[p][i].vpn \in Nat /\ vmas[p][i].pagen \in Nat
      BY <1>1, Elements
<1>. QED BY <1>1, <1>2 DEF IInv, VmasInPlace

LEMMA EndsBelow ==
    ASSUME IInv, NEW p \in Proc, NEW i \in DOMAIN vmas[p]
    PROVE  /\ KernelSlot * SlotPages \in Nat
           /\ vmas[p][i].vpn <= KernelSlot * SlotPages
           /\ vmas[p][i].vpn + vmas[p][i].pagen <= KernelSlot * SlotPages
<1>. DEFINE top == KernelSlot * SlotPages
<1>1. /\ i \in Nat /\ i > 0 /\ vmas[p][i].vpn \in Nat /\ vmas[p][i].pagen \in Nat
      /\ InPlace(vmas[p][i], i)
      BY VmaTypes
<1>2. /\ top \in Nat /\ HeapBase \in Nat /\ StackBase \in Nat /\ StackPages \in Nat
      /\ HeapBase < StackBase /\ StackBase + StackPages <= top
  <2>1. KernelSlot \in Nat /\ SlotPages \in Nat
        BY Constants
  <2>. QED BY <2>1, Constants
<1>3. vmas[p][i].vpn + vmas[p][i].pagen <= top
  <2>1. CASE i = 1
    <3>1. vmas[p][i].vpn + vmas[p][i].pagen <= HeapBase
          BY <1>1, <2>1 DEF InPlace
    <3>. HIDE DEF top
    <3>. QED BY <1>1, <1>2, <3>1
  <2>2. CASE i = 2
    <3>1. vmas[p][i].vpn = StackBase /\ vmas[p][i].pagen = StackPages
          BY <1>1, <2>2 DEF InPlace, Vma
    <3>. HIDE DEF top
    <3>. QED BY <1>2, <3>1
  <2>3. CASE i > 2
        BY <1>1, <2>3 DEF InPlace
  <2>. QED BY <1>1, <2>1, <2>2, <2>3
<1>. HIDE DEF top
<1>4. vmas[p][i].vpn <= top
      BY <1>1, <1>2, <1>3
<1>. QED BY <1>2, <1>3, <1>4 DEF top

\* get_free_vpn looks at what mmap made, and takes the end of the highest.
LEMMA HeapOnly ==
    ASSUME IInv, NEW p \in Proc, NEW i \in HeapVmas(p)
    PROVE  i \in DOMAIN vmas[p] /\ i > 2 /\ AsInt(vmas[p][i].pagen) = vmas[p][i].pagen
<1>1. i \in DOMAIN vmas[p] /\ vmas[p][i].vpn # StackBase /\ vmas[p][i].vpn >= HeapBase
      BY DEF HeapVmas
<1>2. i \in Nat /\ i > 0 /\ vmas[p][i].vpn \in Nat /\ InPlace(vmas[p][i], i)
      BY <1>1, VmaTypes
<1>3. i # 1 /\ i # 2
      BY <1>1, <1>2, Constants DEF InPlace, Vma
<1>4. i > 2
      BY <1>2, <1>3
<1>. QED BY <1>1, <1>2, <1>4 DEF InPlace

LEMMA FreeVpn ==
    ASSUME IInv, NEW p \in Proc
    PROVE  \/ HeapVmas(p) = {} /\ get_free_vpn(p) = HeapBase
           \/ \E i \in HeapVmas(p) :
                 /\ \A k \in HeapVmas(p) : vmas[p][k].vpn <= vmas[p][i].vpn
                 /\ get_free_vpn(p) = vmas[p][i].vpn + vmas[p][i].pagen
<1>1. CASE HeapVmas(p) = {}
      BY <1>1 DEF get_free_vpn
<1>2. CASE HeapVmas(p) # {}
  <2>. DEFINE Top(j) == \A k \in HeapVmas(p) :
                 \/ vmas[p][k].vpn < vmas[p][j].vpn
                 \/ vmas[p][k].vpn = vmas[p][j].vpn /\ j <= k
  <2>1. \E j \in HeapVmas(p) : Top(j)
    <3>1. TypeOK /\ KernelSlot \in Nat /\ SlotPages \in Nat
          BY Constants DEF IInv
    <3>2. KernelSlot * SlotPages \in Nat
          BY <3>1
    <3>3. \A i \in DOMAIN vmas[p] : vmas[p][i].vpn <= KernelSlot * SlotPages
          BY EndsBelow
    <3>. QED BY <1>2, <3>1, <3>2, <3>3, HighestStart
  <2>2. PICK i \in HeapVmas(p) :
            i = CHOOSE j \in HeapVmas(p) : Top(j)
        BY <2>1
  <2>3. Top(i)
        BY <2>1, <2>2
  <2>4. get_free_vpn(p) = vmas[p][i].vpn + AsInt(vmas[p][i].pagen)
        BY <1>2, <2>2 DEF get_free_vpn
  <2>5. \A k \in HeapVmas(p) : vmas[p][k].vpn <= vmas[p][i].vpn
    <3>1. \A k \in HeapVmas(p) : vmas[p][k].vpn \in Nat
          BY HeapOnly, VmaTypes
    <3>. QED BY <2>3, <3>1
  <2>. QED BY <2>4, <2>5, HeapOnly
<1>. QED BY <1>1, <1>2

\* Where mmap puts a VMA, as the next of its process.
LEMMA NewVpn ==
    ASSUME IInv, NEW p \in Proc, p \in Live, NEW n \in Requests
    PROVE  get_free_vpn(p) \in Nat /\ n \in Nat /\ HeapBase <= get_free_vpn(p)
<1>. DEFINE x == get_free_vpn(p)
<1>1. n \in Nat /\ HeapBase \in Nat
      BY Constants
<1>2. x \in Nat /\ HeapBase <= x
  <2>1. CASE x = HeapBase
    <3>. HIDE DEF x
    <3>. QED BY <1>1, <2>1
  <2>2. CASE \E i \in HeapVmas(p) : x = vmas[p][i].vpn + vmas[p][i].pagen
    <3>1. PICK i \in HeapVmas(p) : x = vmas[p][i].vpn + vmas[p][i].pagen
          BY <2>2
    <3>2. vmas[p][i].vpn \in Nat /\ vmas[p][i].pagen \in Nat /\ HeapBase <= vmas[p][i].vpn
          BY HeapOnly, VmaTypes DEF InPlace
    <3>. HIDE DEF x
    <3>. QED BY <1>1, <3>1, <3>2
  <2>. QED BY <2>1, <2>2, FreeVpn
<1>. QED BY <1>1, <1>2

\* Of two areas one ends before the other begins.
LEMMA Behind ==
    ASSUME NEW v, NEW w, v.vpn \in Nat, v.pagen \in Nat, w.vpn \in Nat, w.pagen \in Nat,
           v.vpn + v.pagen <= w.vpn \/ w.vpn + w.pagen <= v.vpn
    PROVE  Pages(v) \cap Pages(w) = {}
BY DEF Pages

\* The list of one process changes.
Apart(s) == \A i, j \in DOMAIN s : i # j => Pages(s[i]) \cap Pages(s[j]) = {}

LEMMA ListChanged ==
    ASSUME IInv, NEW p \in Proc, NEW s \in Seq([vpn : Nat, pagen : Nat]),
           vmas' = [vmas EXCEPT ![p] = s],
           \A q \in Proc \ {p} : q \in Live' => q \in Live,
           p \in Live' => Len(s) >= 2,
           Len(s) <= MaxVmas \/ Len(s) = 2
    PROVE  /\ vmas' \in [Proc -> Seq([vpn : Nat, pagen : Nat])]
           /\ (\A i \in DOMAIN s : InPlace(s[i], i)) => VmasInPlace'
           /\ VmasApart /\ Apart(s) => VmasApart'
<1>. DEFINE V == [vpn : Nat, pagen : Nat]
<1>1. vmas \in [Proc -> Seq(V)]
      BY DEF IInv, TypeOK
<1>. HIDE DEF V
<1>2. vmas' \in [Proc -> Seq(V)]
      BY <1>1 DEF V
<1>3. vmas'[p] = s /\ \A q \in Proc \ {p} : vmas'[q] = vmas[q]
      BY <1>1
<1>4. ASSUME NEW q \in Proc, \A i \in DOMAIN s : InPlace(s[i], i)
      PROVE  /\ Len(vmas'[q]) <= MaxVmas \/ Len(vmas'[q]) = 2
             /\ q \in Live' => Len(vmas'[q]) >= 2
             /\ \A i \in DOMAIN vmas'[q] : InPlace(vmas'[q][i], i)
  <2>1. CASE q = p
        BY <1>3, <1>4, <2>1
  <2>2. CASE q # p
        BY <1>3, <2>2 DEF IInv, VmasInPlace
  <2>. QED BY <2>1, <2>2
<1>5. (\A i \in DOMAIN s : InPlace(s[i], i)) => VmasInPlace'
      BY <1>4 DEF VmasInPlace, InPlace
<1>6. ASSUME VmasApart, Apart(s) PROVE VmasApart'
      BY <1>3, <1>6 DEF VmasApart, Apart
<1>. QED BY <1>2, <1>5, <1>6 DEF V

\* A program starts with its text and its stack.
LEMMA StartVmas ==
    ASSUME IInv, NEW p \in Proc, NEW app \in App, Start(p, app)
    PROVE  /\ vmas' \in [Proc -> Seq([vpn : Nat, pagen : Nat])]
           /\ VmasInPlace'
           /\ VmasApart => VmasApart'
<1>. DEFINE s == FirstVmas(app)
            text == Vma(app.load, TextPages(app))
            stack == Vma(StackBase, StackPages)
            V == [vpn : Nat, pagen : Nat]
<1>1. app.load \in Nat /\ TextPages(app) \in Nat \ {0} /\ app.load + TextPages(app) <= HeapBase
      BY Programs DEF IInv, Fit
<1>2. text \in V /\ stack \in V
      BY <1>1, Constants DEF Vma
<1>3. InPlace(text, 1) /\ InPlace(stack, 2)
      BY <1>1, Constants DEF InPlace, Vma
<1>4. Pages(text) \cap Pages(stack) = {}
  <2>1. text.vpn + text.pagen <= stack.vpn
        BY <1>1, Constants DEF Vma
  <2>. QED BY <1>2, <2>1, Behind
<1>5. vmas' = [vmas EXCEPT ![p] = s] /\ status' = [status EXCEPT ![p] = "live"]
      BY DEF Start
<1>6. s = <<text, stack>>
      BY DEF FirstVmas
<1>. HIDE DEF text, stack
<1>7. s \in Seq(V) /\ Len(s) = 2 /\ DOMAIN s = {1, 2} /\ s[1] = text /\ s[2] = stack
  <2>. HIDE DEF s, V
  <2>. QED BY <1>2, <1>6
<1>. HIDE DEF s
<1>8. /\ \A i \in DOMAIN s : InPlace(s[i], i)
      /\ Apart(s)
      BY <1>3, <1>4, <1>7 DEF Apart
<1>9. \A q \in Proc \ {p} : q \in Live' => q \in Live
      BY <1>5 DEF Live, IInv, TypeOK
<1>10. Len(s) >= 2 /\ (Len(s) <= MaxVmas \/ Len(s) = 2)
       BY <1>7
<1>11. s \in Seq([vpn : Nat, pagen : Nat])
       BY <1>7 DEF V
<1>. QED BY <1>5, <1>8, <1>9, <1>10, <1>11, ListChanged

\* mmap adds a VMA behind all others of the heap.
LEMMA MmapAdds ==
    ASSUME IInv, NEW p \in Proc, NEW n \in Requests, scall_handler_mmap(p, n)
    PROVE  /\ vmas' \in [Proc -> Seq([vpn : Nat, pagen : Nat])]
           /\ BelowKernel' => VmasInPlace'
           /\ a3' \in [Proc -> Nat]
           /\ BelowStack /\ VmasApart /\ BelowStack' => VmasApart'
<1>. DEFINE x == get_free_vpn(p)
            v == Vma(x, n)
            s == Append(vmas[p], v)
            V == [vpn : Nat, pagen : Nat]
<1>1. /\ p \in Live /\ Len(vmas[p]) < MaxVmas
      /\ vmas' = [vmas EXCEPT ![p] = s] /\ status' = status
      /\ a3' = [a3 EXCEPT ![p] = x]
      BY DEF scall_handler_mmap, Live, IInv, TypeOK
<1>2. x \in Nat /\ n \in Nat /\ HeapBase <= x
      BY <1>1, NewVpn
<1>3. /\ vmas[p] \in Seq(V) /\ Len(vmas[p]) \in Nat /\ Len(vmas[p]) >= 2
      /\ \A i \in DOMAIN vmas[p] : InPlace(vmas[p][i], i)
      BY <1>1, VmaTypes DEF IInv, VmasInPlace
<1>4. v \in V /\ v.vpn = x /\ v.pagen = n
      BY <1>2 DEF Vma
<1>. HIDE DEF v, V
<1>5. /\ s \in Seq(V) /\ Len(s) = Len(vmas[p]) + 1
      /\ DOMAIN s = DOMAIN vmas[p] \cup {Len(s)} /\ Len(s) \notin DOMAIN vmas[p]
      /\ s[Len(s)] = v /\ \A i \in DOMAIN vmas[p] : s[i] = vmas[p][i]
  <2>1. PICK r \in Seq(V) : r = vmas[p]
        BY <1>3
  <2>2. /\ Append(r, v) \in Seq(V) /\ Len(Append(r, v)) = Len(r) + 1
        /\ DOMAIN r = 1..Len(r) /\ DOMAIN Append(r, v) = 1..(Len(r) + 1) /\ Len(r) \in Nat
        /\ Append(r, v)[Len(r) + 1] = v /\ \A i \in 1..Len(r) : Append(r, v)[i] = r[i]
        BY <1>4
  <2>3. 1..(Len(r) + 1) = 1..Len(r) \cup {Len(r) + 1} /\ Len(r) + 1 \notin 1..Len(r)
        BY <2>2
  <2>. QED BY <2>1, <2>2, <2>3
<1>. HIDE DEF s, x
<1>12. Len(s) \in Nat /\ Len(s) > 2
       BY <1>3, <1>5
<1>13. Len(s) # 1 /\ Len(s) # 2
  <2>1. \A k \in Nat : k > 2 => k # 1 /\ k # 2
        OBVIOUS
  <2>. QED BY ONLY <1>12, <2>1, Zenon
<1>11. v \in MmapVmas(p)'
  <2>2. vmas'[p] = s
        BY <1>1 DEF IInv, TypeOK
  <2>3. Len(s) \in {k \in DOMAIN s : k > 2} /\ v = s[Len(s)]
        BY <1>5, <1>12
  <2>. QED BY <2>2, <2>3 DEF MmapVmas
<1>6. ASSUME BelowKernel' PROVE \A i \in DOMAIN s : InPlace(s[i], i)
  <2>1. v.vpn + v.pagen <= KernelSlot * SlotPages /\ AsInt(v.pagen) = v.pagen
        BY <1>6, <1>11 DEF BelowKernel, AsInt
  <2>2. HeapBase <= v.vpn
        BY <1>2, <1>4
  <2>3. InPlace(v, Len(s))
        BY <1>13, <2>1, <2>2, Zenon DEF InPlace
  <2>. QED BY <1>3, <1>5, <2>3
<1>7. \A q \in Proc \ {p} : q \in Live' => q \in Live
      BY <1>1 DEF Live
<1>8. Len(s) >= 2 /\ Len(s) <= MaxVmas
      BY <1>1, <1>3, <1>5, Constants
<1>9. ASSUME BelowStack, BelowStack', VmasApart PROVE Apart(s)
  <2>3. x + n <= StackBase
        BY <1>4, <1>9, <1>11 DEF BelowStack
  <2>4. \A k \in DOMAIN vmas[p] : k > 2 =>
            vmas[p][k].vpn + vmas[p][k].pagen <= StackBase /\ vmas[p][k].pagen # 0
        BY <1>9 DEF BelowStack, MmapVmas
  <2>1. ASSUME NEW i \in DOMAIN vmas[p] PROVE Pages(vmas[p][i]) \cap Pages(v) = {}
    <3>1. /\ i \in Nat /\ i > 0 /\ vmas[p][i].vpn \in Nat /\ vmas[p][i].pagen \in Nat
          /\ InPlace(vmas[p][i], i)
          BY VmaTypes
    <3>2. HeapBase <= x
          BY <1>2
    <3>3. CASE i = 1
      <4>1. vmas[p][i].vpn + vmas[p][i].pagen <= HeapBase
            BY <3>1, <3>3 DEF InPlace
      <4>2. vmas[p][i].vpn + vmas[p][i].pagen <= v.vpn
            BY <1>2, <1>4, <3>1, <3>2, <4>1, Constants
      <4>. QED BY <1>2, <1>4, <3>1, <4>2, Behind
    <3>4. CASE i = 2
      <4>1. vmas[p][i].vpn = StackBase
            BY <3>1, <3>4 DEF InPlace, Vma
      <4>2. v.vpn + v.pagen <= vmas[p][i].vpn
            BY <1>2, <1>4, <2>3, <4>1
      <4>. QED BY <1>2, <1>4, <3>1, <4>2, Behind
    <3>5. CASE i > 2
      <4>1. i \in HeapVmas(p) /\ vmas[p][i].pagen > 0
        <5>1. vmas[p][i].pagen > 0 /\ vmas[p][i].vpn >= HeapBase
              BY <2>4, <3>1, <3>5 DEF InPlace
        <5>2. vmas[p][i].vpn + vmas[p][i].pagen <= StackBase
              BY <2>4, <3>5
        <5>. QED BY <3>1, <5>1, <5>2, Constants DEF HeapVmas
      <4>2. PICK k \in HeapVmas(p) :
                /\ vmas[p][i].vpn <= vmas[p][k].vpn
                /\ x = vmas[p][k].vpn + vmas[p][k].pagen
            BY <4>1, FreeVpn DEF x
      <4>3. k \in DOMAIN vmas[p] /\ k > 2
            BY HeapOnly
      <4>4. /\ vmas[p][k].vpn \in Nat /\ vmas[p][k].pagen \in Nat
            /\ InPlace(vmas[p][k], k) /\ k \in Nat
            BY <4>3, VmaTypes
      <4>5. vmas[p][k].pagen > 0
            BY <2>4, <4>3, <4>4
      <4>6. vmas[p][i].vpn + vmas[p][i].pagen <= x
        <5>1. CASE k = i
              BY <4>2, <5>1
        <5>2. CASE k # i
          <6>1. vmas[p][k].vpn \notin Pages(vmas[p][i])
                BY <1>9, <4>3, <4>4, <4>5, <5>2 DEF VmasApart, Pages
          <6>. QED BY <3>1, <4>2, <4>4, <6>1 DEF Pages
        <5>. QED BY <5>1, <5>2
      <4>. QED BY <1>2, <1>4, <3>1, <4>6, Behind
    <3>. QED BY <3>1, <3>3, <3>4, <3>5
  <2>2. \A i, j \in DOMAIN vmas[p] : i # j => Pages(vmas[p][i]) \cap Pages(vmas[p][j]) = {}
        BY <1>9 DEF VmasApart
  <2>. QED BY <1>5, <2>1, <2>2 DEF Apart
<1>10. a3' \in [Proc -> Nat]
       BY <1>1, <1>2 DEF IInv, TypeOK
<1>. QED BY <1>1, <1>5, <1>6, <1>7, <1>8, <1>9, <1>10, ListChanged DEF V

-----------------------------------------------------------------------------
(***************************************************************************)
(* Tables.                                                                  *)
(***************************************************************************)
LEMMA EntryTypes ==
    ASSUME IInv, NEW e \in pte
    PROVE  /\ e.at \in Frame /\ e.idx \in Nat /\ e.ppn \in Frame /\ e.level \in 0..2
           /\ e.ppn \in Held(e)
           /\ e = Pte(e.at, e.idx, e.ppn, e.level)
<1>1. e \in [at : Frame, idx : Nat, ppn : Frame, level : 0..2]
      BY DEF IInv, TypeOK
<1>2. e.at \in Frame /\ e.idx \in Nat /\ e.ppn \in Frame /\ e.level \in 0..2
      BY <1>1
<1>3. e.ppn \in Held(e)
  <2>1. CASE e.level = 2
        BY <2>1 DEF Held
  <2>2. CASE e.level # 2
    <3>1. e.level \in {0, 1} /\ e.ppn \in Nat
      <4>1. e.level \in {0, 1}
            BY <1>2, <2>2
      <4>2. Frame \subseteq Nat
            BY ONLY Constants
      <4>. QED BY <1>2, <4>1, <4>2
    <3>2. Size(e.level) \in Nat \ {0}
          BY <3>1, Constants
    <3>. QED BY <2>2, <3>1, <3>2 DEF Held
  <2>. QED BY <2>1, <2>2
<1>. QED BY <1>1, <1>2, <1>3 DEF Pte

\* The entries of the kernel are what they are.
LEMMA KernelEntries ==
    /\ \A e \in KernelPtes : /\ e.at = ksatp /\ e.level = 2
                             /\ e.ppn \in KernelTables /\ e.idx \in {0, KernelSlot}
                             /\ e.idx = KernelSlot => e = KernelCopy(ksatp)
    /\ \A root : /\ KernelCopy(root).at = root /\ KernelCopy(root).idx = KernelSlot
                 /\ KernelCopy(root).ppn = HighTable /\ KernelCopy(root).level = 2
                 /\ HighTable \in KernelTables
    /\ ksatp \in KernelTables
    /\ KernelCopy(ksatp) \in KernelPtes
BY Constants DEF KernelPtes, KernelCopy, Pte, KernelTables

\* Of which kind an entry is can be seen from where it is.
LEMMA KindOf ==
    ASSUME IInv, NEW e \in pte
    PROVE  /\ KernelPte(e) => e.level = 2 /\ e.ppn \in KernelTables
           /\ RootPte(e) => ~KernelPte(e)
           /\ LeafPte(e) => ~KernelPte(e) /\ ~RootPte(e)
           /\ e.at = ksatp <=> e \in KernelPtes
           /\ \A p \in Live : e.at = satp[p] <=>
                 e = KernelCopy(satp[p]) \/ (RootPte(e) /\ e.at = satp[p])
           /\ e.at \notin free
<1>1. \A p \in Live : satp[p] \notin KernelTables /\ satp[p] # ksatp /\ satp[p] \notin free
      BY KernelEntries DEF IInv, RootsApart
<1>2. KernelPte(e) \/ RootPte(e) \/ LeafPte(e)
      BY DEF IInv, ThreeKinds
<1>3. KernelPte(e) => e.level = 2 /\ e.ppn \in KernelTables
      BY KernelEntries DEF KernelPte
<1>4. RootPte(e) => ~KernelPte(e)
      BY <1>1, KernelEntries DEF RootPte, KernelPte
<1>5. LeafPte(e) => ~KernelPte(e) /\ ~RootPte(e)
      BY <1>3, EntryTypes DEF LeafPte, RootPte
<1>6. LeafPte(e) => /\ e.at \notin KernelTables \cup free
                    /\ \A p \in Live : e.at # satp[p]
  <2>. SUFFICES ASSUME LeafPte(e)
                PROVE  /\ e.at \notin KernelTables \cup free
                       /\ \A p \in Live : e.at # satp[p]
       OBVIOUS
  <2>1. PICK t \in pte : RootPte(t) /\ t.ppn = e.at
        BY DEF LeafPte
  <2>2. ~KernelPte(t)
        BY <1>1, <2>1, KernelEntries DEF RootPte, KernelPte
  <2>3. t.ppn \in Held(t)
        BY EntryTypes
  <2>. QED BY <2>1, <2>2, <2>3 DEF IInv, HeldPrivately
<1>7. e.at = ksatp <=> e \in KernelPtes
      BY <1>1, <1>2, <1>6, KernelEntries DEF KernelPte, RootPte
<1>8. ASSUME NEW p \in Live
      PROVE  e.at = satp[p] <=>
                 e = KernelCopy(satp[p]) \/ (RootPte(e) /\ e.at = satp[p])
      BY <1>1, <1>2, <1>6, KernelEntries DEF KernelPte, RootPte
<1>9. e.at \notin free
  <2>1. ksatp \notin free
        BY DEF IInv, TypeOK
  <2>. QED BY <1>1, <1>2, <1>6, <2>1, KernelEntries DEF KernelPte, RootPte
<1>. QED BY <1>3, <1>4, <1>5, <1>7, <1>8, <1>9

\* What a set of processes can reach.
LEMMA RootOf ==
    ASSUME IInv, NEW P \in SUBSET Live, NEW p \in Live, satp[p] \in Tables(P)
    PROVE  p \in P
<1>1. satp[p] \notin KernelTables /\ satp[p] # ksatp
      BY KernelEntries DEF IInv, RootsApart
<1>2. \A d \in pte : d.ppn # satp[p]
  <2>. SUFFICES ASSUME NEW d \in pte, d.ppn = satp[p] PROVE FALSE
       OBVIOUS
  <2>1. ~KernelPte(d)
        BY <1>1, KindOf
  <2>2. d.ppn \in Held(d)
        BY EntryTypes
  <2>. QED BY <2>1, <2>2 DEF IInv, HeldPrivately
<1>3. satp[p] \in Roots(P)
      BY <1>2 DEF Tables
<1>. QED BY <1>1, <1>3 DEF Roots, IInv, RootsApart

LEMMA TableOf ==
    ASSUME IInv, NEW P \in SUBSET Live, NEW t \in pte, RootPte(t), t.ppn \in Tables(P)
    PROVE  t.at \in Roots(P)
<1>1. t.ppn \in Held(t) /\ ~KernelPte(t)
      BY EntryTypes, KindOf
<1>2. t.ppn \notin KernelTables /\ \A p \in Live : t.ppn # satp[p]
      BY <1>1 DEF IInv, HeldPrivately
<1>3. t.ppn \notin Roots(P)
      BY <1>2, KernelEntries DEF Roots
<1>4. PICK d \in pte : d.at \in Roots(P) /\ d.ppn = t.ppn
      BY <1>3 DEF Tables
<1>5. ~KernelPte(d) /\ d.ppn \in Held(d)
      BY <1>2, <1>4, EntryTypes, KindOf
<1>6. d = t
      BY <1>1, <1>4, <1>5 DEF IInv, HeldPrivately
<1>. QED BY <1>4, <1>6

-----------------------------------------------------------------------------
(***************************************************************************)
(* What the steps do to the tables.                                         *)
(***************************************************************************)
TablesInOrder == RootsApart /\ ThreeKinds /\ HeldPrivately /\ OneTable

\* Entries are added, with frames that were free.
LEMMA EntriesAdded ==
    ASSUME IInv, NEW N, pte' = pte \cup N, free' \subseteq free,
           Live' = Live, \A p \in Live : satp'[p] = satp[p],
           \A e \in N : ~KernelPte(e) /\ Held(e) \subseteq free \ free',
           \A e, d \in N : e # d => Held(e) \cap Held(d) = {},
           \A e \in N : \/ RootPte(e)
                        \/ e.level < 2 /\ \E t \in pte \cup N : RootPte(t) /\ t.ppn = e.at,
           \A e \in N, d \in pte \cup N :
              RootPte(e) /\ RootPte(d) /\ e.at = d.at /\ e.idx = d.idx => e = d
    PROVE  TablesInOrder'
<1>1. \A e : (KernelPte(e)' <=> KernelPte(e)) /\ (RootPte(e)' <=> RootPte(e))
      BY DEF KernelPte, RootPte
<1>2. RootsApart'
      BY DEF IInv, RootsApart
<1>3. ThreeKinds'
  <2>1. KernelPtes \subseteq pte' /\ \A p \in Live' : KernelCopy(satp'[p]) \in pte'
        BY DEF IInv, ThreeKinds
  <2>2. ASSUME NEW e \in pte' PROVE KernelPte(e)' \/ RootPte(e)' \/ LeafPte(e)'
    <3>1. CASE e \in pte
      <4>1. KernelPte(e) \/ RootPte(e) \/ LeafPte(e)
            BY <3>1 DEF IInv, ThreeKinds
      <4>2. LeafPte(e) => LeafPte(e)'
            BY <1>1 DEF LeafPte
      <4>. QED BY <1>1, <4>1, <4>2
    <3>2. CASE e \in N
          BY <1>1, <3>2 DEF LeafPte
    <3>. QED BY <2>2, <3>1, <3>2
  <2>. QED BY <2>1, <2>2 DEF ThreeKinds
<1>4. HeldPrivately'
  <2>1. free \subseteq Frame \ KernelTables /\ \A p \in Live : satp[p] \notin free
        BY DEF IInv, TypeOK, RootsApart, KernelTables
  <2>2. ASSUME NEW e \in pte', ~KernelPte(e)
        PROVE  /\ Held(e) \subseteq Frame \ (free' \cup KernelTables)
               /\ \A p \in Live : satp[p] \notin Held(e)
               /\ e \in pte \ N => Held(e) \cap free = {}
               /\ e \in N => Held(e) \subseteq free
        BY <2>1, <2>2 DEF IInv, HeldPrivately
  <2>3. ASSUME NEW e \in pte', NEW d \in pte', ~KernelPte(e), ~KernelPte(d), e # d
        PROVE  Held(e) \cap Held(d) = {}
    <3>1. CASE e \in N /\ d \in N
          BY <2>3, <3>1
    <3>2. CASE e \in pte \ N /\ d \in pte \ N
          BY <2>3, <3>2 DEF IInv, HeldPrivately
    <3>3. CASE ~(e \in N /\ d \in N) /\ ~(e \in pte \ N /\ d \in pte \ N)
          BY <2>2, <2>3, <3>3
    <3>. QED BY <3>1, <3>2, <3>3
  <2>. QED BY <1>1, <2>2, <2>3 DEF HeldPrivately
<1>5. OneTable'
      BY <1>1 DEF IInv, OneTable
<1>. QED BY <1>2, <1>3, <1>4, <1>5 DEF TablesInOrder

\* Frames go, but the tables stay.
LEMMA TablesStay ==
    ASSUME IInv, pte' = pte, free' \subseteq free,
           Live' = Live, \A p \in Live : satp'[p] = satp[p]
    PROVE  TablesInOrder'
<1>. DEFINE N == {}
<1>1. pte' = pte \cup N /\ \A e : e \notin N
      OBVIOUS
<1>. HIDE DEF N
<1>. QED BY <1>1, EntriesAdded

\* A process gets a root.
LEMMA StartTables ==
    ASSUME IInv, NEW p \in Proc, NEW app \in App, Start(p, app)
    PROVE  /\ TablesInOrder'
           /\ pte' \subseteq [at : Frame, idx : Nat, ppn : Frame, level : 0..2]
           /\ free' \subseteq free
           /\ satp' \in [Proc -> Frame \cup {0}]
           /\ status' \in [Proc -> {"free", "live"}]
<1>1. PICK root \in free : root = Least(free)
  <2>1. free \subseteq Nat /\ free # {}
    <3>1. Frame \subseteq Nat
          BY ONLY Constants
    <3>. QED BY <3>1 DEF Start, IInv, TypeOK
  <2>. QED BY <2>1, Leasts
<1>2. /\ status[p] = "free" /\ status' = [status EXCEPT ![p] = "live"]
      /\ satp' = [satp EXCEPT ![p] = root]
      /\ pte' = pte \cup proc_copy_kernel_pt(root)
      /\ free' \in pt_salloc(free \ {root})
      BY <1>1 DEF Start
<1>3. /\ status \in [Proc -> {"free", "live"}] /\ satp \in [Proc -> Frame \cup {0}]
      /\ free \subseteq Frame \ KernelTables
      /\ pte \subseteq [at : Frame, idx : Nat, ppn : Frame, level : 0..2]
      BY DEF IInv, TypeOK, KernelTables
<1>4. free' \subseteq free \ {root}
      BY <1>2 DEF pt_salloc
<1>5. /\ Live' = Live \cup {p} /\ p \notin Live
      /\ satp'[p] = root /\ \A q \in Live : satp'[q] = satp[q]
      BY <1>2, <1>3 DEF Live
<1>. DEFINE c == KernelCopy(root)
<1>6. proc_copy_kernel_pt(root) = {c}
  <2>1. \A e \in pte : e.at = ksatp /\ e.idx # 0 <=> e = KernelCopy(ksatp)
    <3>1. \A e \in pte : e.at = ksatp <=> e \in KernelPtes
          BY KindOf
    <3>2. KernelCopy(ksatp) \in pte /\ KernelSlot # 0
          BY KernelEntries, Constants DEF IInv, ThreeKinds
    <3>. QED BY <3>1, <3>2, KernelEntries
  <2>2. KernelCopy(ksatp) \in pte
        BY KernelEntries DEF IInv, ThreeKinds
  <2>3. [KernelCopy(ksatp) EXCEPT !.at = root] = c
        BY DEF KernelCopy, Pte
  <2>4. {d \in pte : d.at = ksatp /\ d.idx # 0} = {KernelCopy(ksatp)}
        BY <2>1, <2>2
  <2>. QED BY <2>3, <2>4 DEF proc_copy_kernel_pt
<1>7. c \notin pte /\ pte' = pte \cup {c}
      BY <1>2, <1>6, KernelEntries, KindOf
<1>8. \A e \in pte : e.at # root
      BY KindOf
<1>9. \A e : KernelPte(e)' <=> KernelPte(e) \/ e = c
      BY <1>5 DEF KernelPte
<1>10. \A e \in pte' : RootPte(e)' <=> e \in pte /\ RootPte(e)
  <2>1. c.idx = KernelSlot
        BY KernelEntries
  <2>. QED BY <1>5, <1>7, <1>8, <2>1 DEF RootPte
<1>11. RootsApart'
  <2>1. /\ root \in Frame \ (free' \cup KernelTables)
        /\ \A q \in Live : satp[q] \in Frame \ (free' \cup KernelTables) /\ satp[q] # root
        BY <1>3, <1>4 DEF IInv, RootsApart
  <2>. QED BY <1>5, <2>1 DEF IInv, RootsApart
<1>12. ThreeKinds'
  <2>1. KernelPtes \subseteq pte' /\ \A q \in Live' : KernelCopy(satp'[q]) \in pte'
        BY <1>5, <1>7 DEF IInv, ThreeKinds
  <2>2. ASSUME NEW e \in pte' PROVE KernelPte(e)' \/ RootPte(e)' \/ LeafPte(e)'
    <3>1. CASE e \in pte
      <4>1. KernelPte(e) \/ RootPte(e) \/ LeafPte(e)
            BY <3>1 DEF IInv, ThreeKinds
      <4>2. LeafPte(e) => LeafPte(e)'
            BY <1>7, <1>10 DEF LeafPte
      <4>. QED BY <1>9, <1>10, <2>2, <3>1, <4>1, <4>2
    <3>2. CASE e = c
          BY <1>9, <3>2
    <3>. QED BY <1>7, <2>2, <3>1, <3>2
  <2>. QED BY <2>1, <2>2 DEF ThreeKinds
<1>13. HeldPrivately'
  <2>1. ASSUME NEW e \in pte', ~KernelPte(e)'
        PROVE  /\ e \in pte /\ ~KernelPte(e)
               /\ Held(e) \subseteq Frame \ (free' \cup KernelTables)
               /\ \A q \in Live' : satp'[q] \notin Held(e)
    <3>1. e \in pte /\ ~KernelPte(e)
          BY <1>7, <1>9, <2>1
    <3>. QED BY <1>4, <1>5, <3>1 DEF IInv, HeldPrivately
  <2>. QED BY <2>1 DEF IInv, HeldPrivately
<1>14. OneTable'
       BY <1>10 DEF IInv, OneTable
<1>15. c \in [at : Frame, idx : Nat, ppn : Frame, level : 0..2]
  <2>1. root \in Frame /\ HighTable \in Frame /\ KernelSlot \in Nat
        BY <1>3, Constants DEF KernelTables
  <2>. QED BY <2>1 DEF KernelCopy, Pte
<1>16. satp' \in [Proc -> Frame \cup {0}] /\ status' \in [Proc -> {"free", "live"}]
       BY <1>2, <1>3
<1>. QED BY <1>3, <1>4, <1>7, <1>11, <1>12, <1>13, <1>14, <1>15, <1>16 DEF TablesInOrder

\* A process ends: what it alone could reach is dropped.
LEMMA KillTables ==
    ASSUME IInv, NEW p \in Proc, proc_kill_process(p)
    PROVE  TablesInOrder'
<1>. DEFINE P == Live \ {p}
<1>1. /\ status[p] = "live" /\ status' = [status EXCEPT ![p] = "free"]
      /\ satp' = [satp EXCEPT ![p] = 0]
      /\ pte' = {e \in pte : e.at \in Tables(P)} /\ free' = free
      BY DEF proc_kill_process
<1>2. /\ status \in [Proc -> {"free", "live"}] /\ satp \in [Proc -> Frame \cup {0}]
      BY DEF IInv, TypeOK
<1>3. Live' = P /\ P \in SUBSET Live /\ \A q \in P : satp'[q] = satp[q]
      BY <1>1, <1>2 DEF Live
<1>. HIDE DEF P
<1>4. /\ ksatp \in Tables(P) /\ \A q \in P : satp[q] \in Tables(P)
      /\ Roots(P) \subseteq Tables(P)
      BY DEF Tables, Roots
<1>5. pte' \subseteq pte
      BY <1>1
<1>6. \A e : (KernelPte(e)' => KernelPte(e)) /\ (RootPte(e)' => RootPte(e))
      BY <1>3 DEF KernelPte, RootPte
<1>7. ASSUME NEW e \in pte', KernelPte(e) PROVE KernelPte(e)'
  <2>1. CASE e \in KernelPtes
        BY <2>1 DEF KernelPte
  <2>2. CASE \E q \in Live : e = KernelCopy(satp[q])
    <3>1. PICK q \in Live : e = KernelCopy(satp[q])
          BY <2>2
    <3>2. satp[q] \in Tables(P)
          BY <1>1, <1>7, <3>1, KernelEntries
    <3>3. q \in P
          BY <1>3, <3>2, RootOf
    <3>. QED BY <1>3, <3>1, <3>3 DEF KernelPte
  <2>. QED BY <1>7, <2>1, <2>2 DEF KernelPte
<1>8. ASSUME NEW e \in pte', RootPte(e) PROVE RootPte(e)'
  <2>1. PICK q \in Live : e.at = satp[q]
        BY <1>8 DEF RootPte
  <2>2. q \in P
        BY <1>1, <1>3, <2>1, RootOf
  <2>. QED BY <1>3, <1>8, <2>1, <2>2 DEF RootPte
<1>9. RootsApart'
      BY <1>1, <1>3 DEF IInv, RootsApart
<1>10. ThreeKinds'
  <2>1. KernelPtes \subseteq pte'
        BY <1>1, <1>4, KernelEntries DEF IInv, ThreeKinds
  <2>2. \A q \in Live' : KernelCopy(satp'[q]) \in pte'
        BY <1>1, <1>3, <1>4, KernelEntries DEF IInv, ThreeKinds
  <2>3. ASSUME NEW e \in pte', LeafPte(e) PROVE LeafPte(e)'
    <3>1. PICK t \in pte : RootPte(t) /\ t.ppn = e.at
          BY <2>3 DEF LeafPte
    <3>2. t.at \in Roots(P)
          BY <1>1, <1>3, <3>1, TableOf
    <3>3. t \in pte'
          BY <1>1, <1>4, <3>2
    <3>4. RootPte(t)'
          BY <1>8, <3>1, <3>3
    <3>. QED BY <2>3, <3>1, <3>3, <3>4 DEF LeafPte
  <2>4. \A e \in pte' : KernelPte(e) \/ RootPte(e) \/ LeafPte(e)
        BY <1>5 DEF IInv, ThreeKinds
  <2>. QED BY <1>7, <1>8, <2>1, <2>2, <2>3, <2>4 DEF ThreeKinds
<1>11. HeldPrivately'
  <2>1. ASSUME NEW e \in pte', ~KernelPte(e)'
        PROVE  /\ e \in pte /\ ~KernelPte(e)
               /\ Held(e) \subseteq Frame \ (free' \cup KernelTables)
               /\ \A q \in Live' : satp'[q] \notin Held(e)
    <3>1. e \in pte /\ ~KernelPte(e)
          BY <1>5, <1>7, <2>1
    <3>. QED BY <1>1, <1>3, <3>1 DEF IInv, HeldPrivately
  <2>. QED BY <2>1 DEF IInv, HeldPrivately
<1>12. OneTable'
       BY <1>5, <1>6 DEF IInv, OneTable
<1>. QED BY <1>9, <1>10, <1>11, <1>12 DEF TablesInOrder

\* What the pages of processes hold is in memory.
LEMMA DataInMemory ==
    ASSUME IInv, NEW P
    PROVE  DataFrames(P) \subseteq Frame
<1>1. ASSUME NEW e \in pte, e.level < 2
      PROVE  e.ppn .. e.ppn + Size(e.level) - 1 \subseteq Frame
  <2>1. ~KernelPte(e)
    <3>1. e.level # 2
          BY <1>1, EntryTypes
    <3>. QED BY <3>1, KindOf
  <2>2. Held(e) = e.ppn .. e.ppn + Size(e.level) - 1
        BY <1>1, EntryTypes DEF Held
  <2>. QED BY <2>1, <2>2 DEF IInv, HeldPrivately
<1>. QED BY <1>1 DEF DataFrames

\* The pages of the heap and the stack are below the kernel.
LEMMA BelowTheKernel ==
    ASSUME IInv, NEW p \in Proc, NEW v \in Range(vmas[p]), NEW x \in Pages(v)
    PROVE  x \in Nat /\ SlotOf(x) \in Nat /\ SlotOf(x) # KernelSlot
<1>1. PICK i \in DOMAIN vmas[p] : v = vmas[p][i]
      BY DEF Range
<1>2. /\ v.vpn \in Nat /\ v.pagen \in Nat
      /\ v.vpn + v.pagen <= KernelSlot * SlotPages
      BY <1>1, VmaTypes, EndsBelow
<1>3. x \in Nat /\ x < KernelSlot * SlotPages
      BY <1>2, Constants DEF Pages
<1>4. /\ x \div SlotPages \in Nat /\ (x \div SlotPages) * SlotPages <= x
      BY <1>3, Constants, Division
<1>5. ASSUME x \div SlotPages = KernelSlot PROVE FALSE
      BY <1>3, <1>4, <1>5, Constants
<1>. QED BY <1>3, <1>4, <1>5 DEF SlotOf

\* The page that is found has frames that are free.
LEMMA FoundFrames ==
    ASSUME IInv, NEW p \in Proc, NEW v, NEW x, NEW l \in {0, 1}, CanMap(p, v, x, l)
    PROVE  /\ l \in Possible(p, v, x)
           /\ Least(Blocks(free, l)) \in free
           /\ Least(Blocks(free, l)) .. Least(Blocks(free, l)) + Size(l) - 1 \subseteq free
<1>. DEFINE S == {k \in Possible(p, v, x) : Blocks(free, k) # {}}
<1>1. S \subseteq {0, 1} /\ S # {} /\ l = Highest(S)
      BY DEF CanMap, Possible, Fitting
<1>. HIDE DEF S
<1>2. \E k \in S : \A j \in S : j <= k
  <2>1. CASE 1 \in S
        BY <1>1, <2>1
  <2>2. CASE 1 \notin S
    <3>1. S = {0}
          BY <1>1, <2>2
    <3>. QED BY <3>1
  <2>. QED BY <2>1, <2>2
<1>3. l \in S
      BY <1>1, <1>2 DEF Highest
<1>4. Blocks(free, l) # {}
      BY <1>3 DEF S
<1>5. Blocks(free, l) \subseteq Nat
  <2>1. Frame \subseteq Nat
        BY ONLY Constants
  <2>. QED BY <2>1 DEF Blocks, IInv, TypeOK
<1>6. Least(Blocks(free, l)) \in Blocks(free, l)
      BY <1>4, <1>5, Leasts
<1>7. l \in Possible(p, v, x)
      BY <1>3 DEF S
<1>. QED BY <1>6, <1>7 DEF Blocks

\* A page is mapped, in the table that is there or in a new one.
LEMMA MapTables ==
    ASSUME IInv, NEW p \in Live, NEW v \in Range(vmas[p]), NEW x \in Pages(v),
           NEW l \in {0, 1}, NEW f \in free, f .. f + Size(l) - 1 \subseteq free,
           MapPage(p, x, l, f), UNCHANGED <<satp, status>>
    PROVE  /\ TablesInOrder'
           /\ pte' \subseteq [at : Frame, idx : Nat, ppn : Frame, level : 0..2]
           /\ free' \subseteq free
<1>. DEFINE B == f .. f + Size(l) - 1
            left == free \ B
            slot == SlotOf(x)
            root == satp[p]
            T == TablesAt(root, slot)
            leaf(t) == Pte(t, Boundary(x, l) % SlotPages, f, l)
            EntryType == [at : Frame, idx : Nat, ppn : Frame, level : 0..2]
<1>1. /\ p \in Proc /\ x \in Nat /\ slot \in Nat /\ slot # KernelSlot
      BY BelowTheKernel DEF Live
<1>2. Boundary(x, l) % SlotPages \in Nat
  <2>1. Size(l) \in Nat \ {0}
        BY Constants
  <2>2. x \div Size(l) \in Nat
        BY <1>1, <2>1, Division
  <2>3. Boundary(x, l) \in Nat
        BY <2>1, <2>2 DEF Boundary
  <2>. QED BY <2>3, Constants, Division
<1>3. /\ free \subseteq Frame \ KernelTables /\ pte \subseteq EntryType
      /\ root \in Frame /\ root \notin free /\ root # ksatp
      BY KernelEntries DEF IInv, TypeOK, RootsApart, KernelTables
<1>4. Live' = Live /\ \A q \in Live : satp'[q] = satp[q]
      BY DEF Live
<1>5. \A t : /\ leaf(t).at = t /\ leaf(t).level = l /\ leaf(t).level < 2 /\ leaf(t).ppn = f
             /\ ~KernelPte(leaf(t)) /\ ~RootPte(leaf(t))
             /\ Held(leaf(t)) = B
             /\ t \in Frame => leaf(t) \in EntryType
  <2>. SUFFICES ASSUME NEW t
                PROVE  /\ leaf(t).at = t /\ leaf(t).level = l /\ leaf(t).level < 2
                       /\ leaf(t).ppn = f
                       /\ ~KernelPte(leaf(t)) /\ ~RootPte(leaf(t))
                       /\ Held(leaf(t)) = B
                       /\ t \in Frame => leaf(t) \in EntryType
       OBVIOUS
  <2>1. leaf(t).at = t /\ leaf(t).level = l /\ leaf(t).level < 2 /\ leaf(t).ppn = f
        BY DEF Pte
  <2>2. ~KernelPte(leaf(t)) /\ ~RootPte(leaf(t))
        BY <2>1, KernelEntries DEF KernelPte, RootPte
  <2>3. Held(leaf(t)) = B
        BY <2>1 DEF Held
  <2>4. t \in Frame => leaf(t) \in EntryType
        BY <1>2, <1>3 DEF Pte
  <2>. QED BY <2>1, <2>2, <2>3, <2>4
<1>6. \A d \in pte : d.at = root /\ d.idx = slot => RootPte(d)
      BY <1>1, KindOf, KernelEntries
<1>. HIDE DEF leaf
<1>7. CASE T # {}
  <2>1. PICK d \in pte : d.at = root /\ d.idx = slot
        BY <1>7 DEF TablesAt
  <2>2. T = {d.ppn}
        BY <1>6, <2>1 DEF TablesAt, IInv, OneTable
  <2>. DEFINE N == {leaf(d.ppn)}
  <2>3. pte' = pte \cup N /\ free' = left
        BY <1>7, <2>2 DEF MapPage, leaf
  <2>4. RootPte(d) /\ d.ppn \in Frame
        BY <1>6, <2>1, EntryTypes
  <2>5. /\ \A e \in N : ~KernelPte(e) /\ Held(e) \subseteq free \ free'
        /\ \A e, c \in N : e # c => Held(e) \cap Held(c) = {}
        /\ \A e \in N : e.level < 2 /\ \E t \in pte \cup N : RootPte(t) /\ t.ppn = e.at
        /\ \A e \in N : ~RootPte(e)
        /\ N \subseteq EntryType
        BY <1>5, <2>1, <2>3, <2>4
  <2>. HIDE DEF N
  <2>6. TablesInOrder'
        BY <1>4, <2>3, <2>5, EntriesAdded
  <2>. QED BY <1>3, <2>3, <2>5, <2>6
<1>8. CASE T = {}
  <2>1. left # {} /\ left \subseteq Nat
    <3>1. Frame \subseteq Nat
          BY ONLY Constants
    <3>. QED BY <1>3, <1>8, <3>1 DEF MapPage
  <2>2. PICK t \in left : t = Least(left)
        BY <2>1, Leasts
  <2>. DEFINE r == Pte(root, slot, t, 2)
              N == {r, leaf(t)}
  <2>3. pte' = pte \cup N /\ free' = left \ {t}
        BY <1>8, <2>2 DEF MapPage, leaf
  <2>4. /\ r.at = root /\ r.idx = slot /\ r.ppn = t /\ r.level = 2 /\ Held(r) = {t}
        /\ r \in EntryType
        BY <1>1, <1>3 DEF Pte, Held
  <2>. HIDE DEF r
  <2>5. ~KernelPte(r) /\ RootPte(r)
        BY <1>1, <1>3, <2>4, KernelEntries DEF KernelPte, RootPte
  <2>6. \A d \in pte : ~(d.at = root /\ d.idx = slot)
        BY <1>8 DEF TablesAt
  <2>7. t \in free /\ t \notin B /\ t \in Frame
        BY <1>3
  <2>. HIDE DEF B
  <2>8. /\ \A e \in N : ~KernelPte(e) /\ Held(e) \subseteq free \ free'
        /\ \A e, c \in N : e # c => Held(e) \cap Held(c) = {}
        /\ \A e \in N : \/ RootPte(e)
                        \/ e.level < 2 /\ \E d \in pte \cup N : RootPte(d) /\ d.ppn = e.at
        /\ \A e \in N, d \in pte \cup N :
              RootPte(e) /\ RootPte(d) /\ e.at = d.at /\ e.idx = d.idx => e = d
        /\ N \subseteq EntryType
    <3>1. B \subseteq free
          BY DEF B
    <3>2. \A e \in N : e = r \/ e = leaf(t)
          OBVIOUS
    <3>3. \A e \in N : ~KernelPte(e) /\ Held(e) \subseteq free \ free'
          BY <1>5, <2>3, <2>4, <2>5, <2>7, <3>1
    <3>4. \A e, c \in N : e # c => Held(e) \cap Held(c) = {}
          BY <1>5, <2>4, <2>7
    <3>5. \A e \in N : \/ RootPte(e)
                       \/ e.level < 2 /\ \E d \in pte \cup N : RootPte(d) /\ d.ppn = e.at
          BY <1>5, <2>4, <2>5
    <3>6. \A e \in N, d \in pte \cup N :
              RootPte(e) /\ RootPte(d) /\ e.at = d.at /\ e.idx = d.idx => e = d
          BY <1>5, <2>4, <2>6
    <3>7. N \subseteq EntryType
          BY <1>5, <2>4, <2>7
    <3>. QED BY <3>3, <3>4, <3>5, <3>6, <3>7
  <2>. HIDE DEF N
  <2>9. TablesInOrder'
        BY <1>4, <2>3, <2>8, EntriesAdded
  <2>. QED BY <1>3, <2>3, <2>8, <2>9
<1>. QED BY <1>7, <1>8
-----------------------------------------------------------------------------
(***************************************************************************)
(* Every step keeps the invariant.                                          *)
(***************************************************************************)
\* What is shown of a step; the constants stay as they are.
Kept ==
    /\ TypeOK'
    /\ BelowKernel' => VmasInPlace'
    /\ TablesInOrder'
    /\ BelowStack /\ VmasApart /\ BelowStack' => VmasApart'

LEMMA SameVmas ==
    ASSUME IInv, vmas' = vmas, status' = status
    PROVE  VmasInPlace' /\ (VmasApart => VmasApart')
<1>1. Live' = Live
      BY DEF Live
<1>2. VmasInPlace'
      BY <1>1 DEF IInv, VmasInPlace, InPlace
<1>3. VmasApart => VmasApart'
      BY DEF VmasApart
<1>. QED BY <1>2, <1>3

LEMMA StartKeeps ==
    ASSUME IInv, NEW p \in Proc, NEW app \in App, Start(p, app)
    PROVE  Kept
<1>1. /\ on' = on /\ a3' = a3 /\ data' = data
      /\ elf' = [elf EXCEPT ![p] = app]
      BY DEF Start
<1>2. elf' \in [Proc -> App \cup {NoApp}]
      BY <1>1 DEF IInv, TypeOK
<1>3. /\ TablesInOrder'
      /\ pte' \subseteq [at : Frame, idx : Nat, ppn : Frame, level : 0..2]
      /\ free' \subseteq free
      /\ satp' \in [Proc -> Frame \cup {0}]
      /\ status' \in [Proc -> {"free", "live"}]
      BY StartTables
<1>4. /\ vmas' \in [Proc -> Seq([vpn : Nat, pagen : Nat])]
      /\ VmasInPlace'
      /\ VmasApart => VmasApart'
      BY StartVmas
<1>5. TypeOK'
      BY <1>1, <1>2, <1>3, <1>4 DEF IInv, TypeOK
<1>. QED BY <1>3, <1>4, <1>5 DEF Kept

LEMMA StartFailsKeeps ==
    ASSUME IInv, NEW p \in Proc, StartFails(p)
    PROVE  Kept
<1>1. /\ status[p] = "free" /\ free' = {}
      /\ UNCHANGED <<on, status, elf, vmas, a3, pte, data>>
      /\ satp' = [satp EXCEPT ![p] = IF free = {} THEN @ ELSE Least(free)]
      BY DEF StartFails
<1>2. satp' \in [Proc -> Frame \cup {0}] /\ \A q \in Proc \ {p} : satp'[q] = satp[q]
  <2>1. satp \in [Proc -> Frame \cup {0}] /\ free \subseteq Frame
        BY DEF IInv, TypeOK
  <2>2. CASE free = {}
        BY <1>1, <2>1, <2>2
  <2>3. CASE free # {}
    <3>1. Frame \subseteq Nat
          BY ONLY Constants
    <3>2. Least(free) \in Frame
          BY <2>1, <2>3, <3>1, Leasts
    <3>. QED BY <1>1, <2>1, <2>3, <3>2
  <2>. QED BY <2>2, <2>3
<1>3. Live' = Live /\ \A q \in Live : satp'[q] = satp[q]
      BY <1>1, <1>2 DEF Live
<1>4. TablesInOrder'
      BY <1>1, <1>3, TablesStay
<1>5. VmasInPlace' /\ (VmasApart => VmasApart')
      BY <1>1, SameVmas
<1>6. TypeOK'
      BY <1>1, <1>2 DEF IInv, TypeOK
<1>. QED BY <1>4, <1>5, <1>6 DEF Kept

LEMMA KillKeeps ==
    ASSUME IInv, NEW p \in Proc, proc_kill_process(p)
    PROVE  Kept
<1>1. /\ status' = [status EXCEPT ![p] = "free"]
      /\ satp' = [satp EXCEPT ![p] = 0]
      /\ vmas' = [vmas EXCEPT ![p] = <<>>]
      /\ elf' = [elf EXCEPT ![p] = NoApp]
      /\ a3' = [a3 EXCEPT ![p] = 0]
      /\ pte' \subseteq pte
      /\ data' = Restrict(data, DataFrames(Live \ {p}))
      /\ on' = (Live # {p})
      /\ free' = free
      BY DEF proc_kill_process
<1>2. TablesInOrder'
      BY KillTables
<1>3. /\ vmas' \in [Proc -> Seq([vpn : Nat, pagen : Nat])]
      /\ VmasInPlace'
      /\ VmasApart => VmasApart'
  <2>. DEFINE s == <<>>
              V == [vpn : Nat, pagen : Nat]
  <2>1. s \in Seq(V) /\ Len(s) = 0 /\ \A i : i \notin DOMAIN s
    <3>. HIDE DEF V
    <3>. QED OBVIOUS
  <2>2. p \notin Live' /\ \A q \in Proc \ {p} : q \in Live' => q \in Live
        BY <1>1 DEF Live, IInv, TypeOK
  <2>3. Len(s) <= MaxVmas
        BY <2>1, Constants
  <2>4. vmas' = [vmas EXCEPT ![p] = s]
        BY <1>1
  <2>. HIDE DEF s
  <2>5. Apart(s)
        BY <2>1 DEF Apart
  <2>6. s \in Seq([vpn : Nat, pagen : Nat])
        BY <2>1
  <2>. QED BY <2>1, <2>2, <2>3, <2>4, <2>5, <2>6, ListChanged
<1>4. DOMAIN data' \subseteq Frame
  <2>1. DOMAIN Restrict(data, DataFrames(Live \ {p})) = DataFrames(Live \ {p})
        BY DEF Restrict
  <2>. QED BY <1>1, <2>1, DataInMemory
<1>5. on' \in BOOLEAN
      BY <1>1
<1>6. /\ status' \in [Proc -> {"free", "live"}]
      /\ satp' \in [Proc -> Frame \cup {0}]
      /\ elf' \in [Proc -> App \cup {NoApp}]
      /\ a3' \in [Proc -> Nat]
      BY <1>1 DEF IInv, TypeOK
<1>7. TypeOK'
      BY <1>1, <1>3, <1>4, <1>5, <1>6 DEF IInv, TypeOK
<1>. QED BY <1>2, <1>3, <1>7 DEF Kept

LEMMA MmapKeeps ==
    ASSUME IInv, NEW p \in Proc, NEW n \in Requests, scall_handler_mmap(p, n)
    PROVE  Kept
<1>1. /\ free' \in pt_salloc(free)
      /\ UNCHANGED <<on, status, satp, elf, pte, data>>
      BY DEF scall_handler_mmap
<1>2. free' \subseteq free
      BY <1>1 DEF pt_salloc
<1>3. TablesInOrder'
      BY <1>1, <1>2, TablesStay DEF Live
<1>4. /\ vmas' \in [Proc -> Seq([vpn : Nat, pagen : Nat])]
      /\ BelowKernel' => VmasInPlace'
      /\ a3' \in [Proc -> Nat]
      /\ BelowStack /\ VmasApart /\ BelowStack' => VmasApart'
      BY MmapAdds
<1>5. TypeOK'
      BY <1>1, <1>2, <1>4 DEF IInv, TypeOK
<1>. QED BY <1>3, <1>4, <1>5 DEF Kept

LEMMA MmapFailsKeeps ==
    ASSUME IInv, NEW p \in Proc, MmapFails(p)
    PROVE  Kept
<1>1. /\ a3' = [a3 EXCEPT ![p] = 0]
      /\ UNCHANGED <<on, status, satp, elf, vmas, pte, data, free>>
      BY DEF MmapFails
<1>2. TablesInOrder'
      BY <1>1, TablesStay DEF Live
<1>3. TypeOK'
      BY <1>1 DEF IInv, TypeOK
<1>. QED BY <1>1, <1>2, <1>3, SameVmas DEF Kept

\* The page is one of a VMA, and has no other user.
LEMMA PageFaultKeeps ==
    ASSUME IInv, NEW p \in Proc, NEW a, PageFault(p, a)
    PROVE  Kept
<1>. DEFINE x == a \div PageSize
<1>1. /\ status[p] = "live"
      /\ UNCHANGED <<on, status, satp, elf, vmas, a3>>
      BY DEF PageFault
<1>2. PICK v \in Range(vmas[p]), l \in {0, 1} :
          /\ vpn2vma(p, x, v)
          /\ CanMap(p, v, x, l)
          /\ LET f == Least(Blocks(free, l))
                 zeros == With(data, Zeroed(f, l))
             IN  /\ MapPage(p, x, l, f)
                 /\ data' = IF InText(p, a)
                            THEN TextCopied(elf[p], a, f, zeros) ELSE zeros
      BY DEF PageFault
<1>3. x \in Pages(v) /\ p \in Live
      BY <1>1, <1>2 DEF vpn2vma, Live
<1>4. PICK f \in free :
          /\ f = Least(Blocks(free, l)) /\ f .. f + Size(l) - 1 \subseteq free
      BY <1>2, FoundFrames
<1>5. MapPage(p, x, l, f)
      BY <1>2, <1>4
<1>. HIDE DEF x
<1>6. /\ TablesInOrder'
      /\ pte' \subseteq [at : Frame, idx : Nat, ppn : Frame, level : 0..2]
      /\ free' \subseteq free
      BY <1>1, <1>3, <1>4, <1>5, MapTables
<1>7. DOMAIN data' \subseteq Frame
  <2>. DEFINE zeros == With(data, Zeroed(f, l))
  <2>1. DOMAIN zeros = DOMAIN data \cup (f .. f + Size(l) - 1)
        BY DEF With, Zeroed
  <2>2. DOMAIN zeros \subseteq Frame
        BY <1>4, <2>1 DEF IInv, TypeOK
  <2>3. data' = IF InText(p, a) THEN TextCopied(elf[p], a, f, zeros) ELSE zeros
        BY <1>2, <1>4
  <2>. HIDE DEF zeros
  <2>4. DOMAIN TextCopied(elf[p], a, f, zeros) = DOMAIN zeros
        BY DEF TextCopied
  <2>. QED BY <2>2, <2>3, <2>4
<1>8. TypeOK'
      BY <1>1, <1>6, <1>7 DEF IInv, TypeOK
<1>. QED BY <1>1, <1>6, <1>8, SameVmas DEF Kept

LEMMA FaultFailsKeeps ==
    ASSUME IInv, NEW p \in Proc, NEW a, FaultFails(p, a)
    PROVE  Kept
<1>1. on' = FALSE /\ UNCHANGED <<status, satp, elf, vmas, a3, pte, data, free>>
      BY DEF FaultFails
<1>2. TablesInOrder'
      BY <1>1, TablesStay DEF Live
<1>3. TypeOK'
      BY <1>1 DEF IInv, TypeOK
<1>. QED BY <1>1, <1>2, <1>3, SameVmas DEF Kept

LEMMA UserStoreKeeps ==
    ASSUME IInv, NEW p \in Proc, NEW a, UserStore(p, a)
    PROVE  Kept
<1>1. /\ UNCHANGED <<on, status, satp, elf, vmas, a3, pte, free>>
      /\ DOMAIN data' = DOMAIN data
      BY DEF UserStore
<1>2. TablesInOrder'
      BY <1>1, TablesStay DEF Live
<1>3. TypeOK'
      BY <1>1 DEF IInv, TypeOK
<1>. QED BY <1>1, <1>2, <1>3, SameVmas DEF Kept

LEMMA StutterKeeps ==
    ASSUME IInv, UNCHANGED vars
    PROVE  Kept
<1>1. UNCHANGED <<on, status, satp, elf, vmas, a3, pte, data, free>>
      BY DEF vars
<1>2. TablesInOrder'
      BY <1>1, TablesStay DEF Live
<1>3. TypeOK'
      BY <1>1 DEF IInv, TypeOK
<1>. QED BY <1>1, <1>2, <1>3, SameVmas DEF Kept

LEMMA NextKeeps ==
    ASSUME IInv, [Next]_vars
    PROVE  Kept
<1>1. CASE \E p \in Proc, app \in App : Start(p, app)
      BY <1>1, StartKeeps
<1>2. CASE \E p \in Proc : StartFails(p)
      BY <1>2, StartFailsKeeps
<1>3. CASE \E p \in Proc : proc_kill_process(p)
      BY <1>3, KillKeeps
<1>4. CASE \E p \in Proc, n \in Requests : scall_handler_mmap(p, n)
      BY <1>4, MmapKeeps
<1>5. CASE \E p \in Proc : MmapFails(p)
      BY <1>5, MmapFailsKeeps
<1>6. CASE \E p \in Proc, a \in Touched : PageFault(p, a)
      BY <1>6, PageFaultKeeps
<1>7. CASE \E p \in Proc, a \in Touched : FaultFails(p, a)
      BY <1>7, FaultFailsKeeps
<1>8. CASE \E p \in Proc, a \in Stored : UserStore(p, a)
      BY <1>8, UserStoreKeeps
<1>9. CASE UNCHANGED vars
      BY <1>9, StutterKeeps
<1>. QED BY <1>1, <1>2, <1>3, <1>4, <1>5, <1>6, <1>7, <1>8, <1>9 DEF Next, Off
LEMMA InitIInv ==
    ASSUME Fit, Init
    PROVE  IInv /\ VmasApart
<1>1. Live = {}
      BY DEF Init, Live
<1>2. /\ vmas = [p \in Proc |-> <<>>] /\ pte = KernelPtes
      /\ free = Frame \ KernelTables
      BY DEF Init, KernelTables
<1>3. TypeOK
  <2>1. vmas \in [Proc -> Seq([vpn : Nat, pagen : Nat])]
    <3>. DEFINE V == [vpn : Nat, pagen : Nat]
    <3>. HIDE DEF V
    <3>1. vmas \in [Proc -> Seq(V)]
          BY <1>2
    <3>. QED BY <3>1 DEF V
  <2>2. pte \subseteq [at : Frame, idx : Nat, ppn : Frame, level : 0..2]
    <3>1. /\ ksatp \in Frame /\ LowTable \in Frame /\ HighTable \in Frame
          /\ KernelSlot \in Nat
          BY Constants DEF KernelTables
    <3>2. \A e \in KernelPtes : e \in [at : Frame, idx : Nat, ppn : Frame, level : 0..2]
          BY <3>1 DEF KernelPtes, Pte
    <3>. QED BY <1>2, <3>2
  <2>3. /\ on \in BOOLEAN /\ status \in [Proc -> {"free", "live"}]
        /\ satp \in [Proc -> Frame \cup {0}] /\ elf \in [Proc -> App \cup {NoApp}]
        /\ a3 \in [Proc -> Nat]
        /\ DOMAIN data \subseteq Frame
        /\ free \subseteq Frame \ {ksatp, LowTable, HighTable}
        BY DEF Init
  <2>. QED BY <2>1, <2>2, <2>3 DEF TypeOK
<1>4. VmasInPlace /\ VmasApart
  <2>1. \A p \in Proc : vmas[p] = <<>>
        BY <1>2
  <2>2. Len(<<>>) = 0 /\ \A i : i \notin DOMAIN <<>>
        OBVIOUS
  <2>3. VmasInPlace
        BY <1>1, <2>1, <2>2, Constants DEF VmasInPlace
  <2>. QED BY <2>1, <2>2, <2>3 DEF VmasApart
<1>5. RootsApart
      BY <1>1 DEF RootsApart
<1>6. \A e \in pte : KernelPte(e) /\ ~RootPte(e)
      BY <1>1, <1>2 DEF KernelPte, RootPte
<1>7. ThreeKinds /\ HeldPrivately /\ OneTable
      BY <1>1, <1>2, <1>6 DEF ThreeKinds, HeldPrivately, OneTable
<1>. QED BY <1>3, <1>4, <1>5, <1>7 DEF IInv

LEMMA NextIInv ==
    ASSUME IInv, [Next]_vars, BelowKernel'
    PROVE  IInv'
BY NextKeeps DEF Kept, IInv, TablesInOrder, Fit

LEMMA NextAInv ==
    ASSUME AInv, [Next]_vars, BelowStack'
    PROVE  AInv'
<1>1. IInv /\ BelowStack /\ VmasApart /\ BelowKernel'
      BY DEF AInv, BelowStack
<1>. QED BY <1>1, NextIInv, NextKeeps DEF Kept, AInv

-----------------------------------------------------------------------------
(***************************************************************************)
(* What follows from it.                                                    *)
(***************************************************************************)
\* The tables and the pages of processes, by the kinds of entries.
LEMMA KernelHas ==
    ASSUME IInv
    PROVE  Tables({}) = KernelTables
<1>1. Roots({}) = {ksatp}
      BY DEF Roots
<1>2. {d \in pte : d.at \in Roots({})} = KernelPtes
      BY <1>1, KindOf DEF IInv, ThreeKinds
<1>3. {e.ppn : e \in KernelPtes} = {LowTable, HighTable}
      BY DEF KernelPtes, Pte
<1>. QED BY <1>1, <1>2, <1>3 DEF Tables, KernelTables

LEMMA ProcessHas ==
    ASSUME IInv, NEW P \in SUBSET Live, NEW t \in Tables(P)
    PROVE  \/ t \in KernelTables
           \/ \E p \in P : t = satp[p]
           \/ \E p \in P, e \in pte : RootPte(e) /\ e.at = satp[p] /\ t = e.ppn
<1>1. CASE t \in Roots(P)
      BY <1>1, KernelEntries DEF Roots
<1>2. CASE \E d \in pte : d.at \in Roots(P) /\ t = d.ppn
  <2>1. PICK d \in pte : d.at \in Roots(P) /\ t = d.ppn
        BY <1>2
  <2>2. CASE d.at = ksatp
        BY <2>1, <2>2, KindOf, KernelEntries
  <2>3. CASE \E p \in P : d.at = satp[p]
        BY <2>1, <2>3, KindOf, KernelEntries
  <2>. QED BY <2>1, <2>2, <2>3 DEF Roots
<1>. QED BY <1>1, <1>2 DEF Tables

LEMMA PageOf ==
    ASSUME IInv, NEW P \in SUBSET Live, NEW f \in DataFrames(P)
    PROVE  \E e \in pte : /\ LeafPte(e) /\ f \in Held(e)
                          /\ \E t \in pte, p \in P :
                                RootPte(t) /\ t.ppn = e.at /\ t.at = satp[p]
<1>1. PICK e \in pte : /\ e.level < 2 /\ e.at \in Tables(P)
                       /\ f \in e.ppn .. e.ppn + Size(e.level) - 1
      BY DEF DataFrames
<1>2. e.level # 2
      BY <1>1, EntryTypes
<1>3. f \in Held(e)
      BY <1>1, <1>2 DEF Held
<1>4. LeafPte(e)
      BY <1>2, KindOf DEF IInv, ThreeKinds, RootPte
<1>5. PICK t \in pte : RootPte(t) /\ t.ppn = e.at
      BY <1>4 DEF LeafPte
<1>6. t.at \in Roots(P)
      BY <1>1, <1>5, TableOf
<1>7. t.at # ksatp
      BY <1>5, KindOf DEF KernelPte
<1>. QED BY <1>3, <1>4, <1>5, <1>6, <1>7 DEF Roots

LEMMA InOrder ==
    ASSUME IInv
    PROVE  MemoryApart
<1>1. ASSUME NEW p \in Live PROVE TablesAt(satp[p], KernelSlot) = {HighTable}
  <2>1. KernelCopy(satp[p]) \in pte
        BY DEF IInv, ThreeKinds
  <2>2. \A e \in pte : e.at = satp[p] /\ e.idx = KernelSlot <=> e = KernelCopy(satp[p])
        BY KindOf, KernelEntries DEF RootPte
  <2>3. {d \in pte : d.at = satp[p] /\ d.idx = KernelSlot} = {KernelCopy(satp[p])}
        BY <2>1, <2>2
  <2>. QED BY <2>3, KernelEntries DEF TablesAt
<1>2. ASSUME NEW P \in SUBSET Live, NEW t \in Tables(P) PROVE t \notin free
  <2>1. CASE t \in KernelTables
        BY <2>1 DEF IInv, TypeOK, KernelTables
  <2>2. CASE \E p \in P : t = satp[p]
        BY <2>2 DEF IInv, RootsApart
  <2>3. CASE \E p \in P, e \in pte : RootPte(e) /\ e.at = satp[p] /\ t = e.ppn
    <3>1. PICK e \in pte : RootPte(e) /\ t = e.ppn
          BY <2>3
    <3>2. ~KernelPte(e) /\ t \in Held(e)
          BY <3>1, KindOf, EntryTypes
    <3>. QED BY <3>2 DEF IInv, HeldPrivately
  <2>. QED BY <2>1, <2>2, <2>3, ProcessHas
<1>3. ASSUME NEW f \in DataFrames(Live) PROVE f \notin free \cup Tables(Live)
  <2>1. PICK e \in pte : LeafPte(e) /\ f \in Held(e)
        BY PageOf
  <2>2. ~KernelPte(e) /\ ~RootPte(e)
        BY <2>1, KindOf
  <2>3. /\ f \notin free \cup KernelTables /\ \A p \in Live : f # satp[p]
        /\ \A d \in pte : RootPte(d) => f # d.ppn
    <3>1. \A d \in pte : RootPte(d) => ~KernelPte(d) /\ d.ppn \in Held(d) /\ d # e
          BY <2>2, KindOf, EntryTypes
    <3>. QED BY <2>1, <2>2, <3>1 DEF IInv, HeldPrivately
  <2>. QED BY <2>3, ProcessHas
<1>4. ASSUME NEW p \in Live, NEW q \in Live, p # q,
             NEW t \in Tables({p}), t \in Tables({q})
      PROVE  t \in KernelTables
  <2>. SUFFICES ASSUME t \notin KernelTables PROVE FALSE
       OBVIOUS
  <2>1. satp[p] # satp[q]
        BY <1>4 DEF IInv, RootsApart
  <2>2. \/ t = satp[p]
        \/ \E e \in pte : RootPte(e) /\ e.at = satp[p] /\ t = e.ppn
        BY ProcessHas
  <2>3. \/ t = satp[q]
        \/ \E e \in pte : RootPte(e) /\ e.at = satp[q] /\ t = e.ppn
        BY <1>4, ProcessHas
  <2>4. \A e \in pte : RootPte(e) => /\ ~KernelPte(e) /\ e.ppn \in Held(e)
                                     /\ \A r \in Live : e.ppn # satp[r]
        BY KindOf, EntryTypes DEF IInv, HeldPrivately
  <2>5. PICK e \in pte : RootPte(e) /\ e.at = satp[p] /\ t = e.ppn
        BY <2>1, <2>2, <2>3, <2>4
  <2>6. PICK d \in pte : RootPte(d) /\ d.at = satp[q] /\ t = d.ppn
        BY <2>1, <2>2, <2>3, <2>4
  <2>7. e = d
        BY <2>4, <2>5, <2>6 DEF IInv, HeldPrivately
  <2>. QED BY <2>1, <2>5, <2>6, <2>7
<1>5. ASSUME NEW p \in Live, NEW q \in Live, p # q,
             NEW f \in DataFrames({p}), f \in DataFrames({q})
      PROVE  FALSE
  <2>1. PICK e \in pte, t \in pte : /\ LeafPte(e) /\ f \in Held(e)
                                    /\ RootPte(t) /\ t.ppn = e.at /\ t.at = satp[p]
    <3>1. {p} \in SUBSET Live
          OBVIOUS
    <3>. QED BY <3>1, PageOf
  <2>2. PICK d \in pte, u \in pte : /\ LeafPte(d) /\ f \in Held(d)
                                    /\ RootPte(u) /\ u.ppn = d.at /\ u.at = satp[q]
    <3>1. {q} \in SUBSET Live
          OBVIOUS
    <3>. QED BY <1>5, <3>1, PageOf
  <2>3. ~KernelPte(e) /\ ~KernelPte(d) /\ ~KernelPte(t) /\ ~KernelPte(u)
        BY <2>1, <2>2, KindOf
  <2>4. e = d
        BY <2>1, <2>2, <2>3 DEF IInv, HeldPrivately
  <2>5. t.ppn \in Held(t) /\ u.ppn \in Held(u)
        BY EntryTypes
  <2>6. t = u
        BY <2>1, <2>2, <2>3, <2>4, <2>5 DEF IInv, HeldPrivately
  <2>. QED BY <1>5, <2>1, <2>2, <2>6 DEF IInv, RootsApart
<1>6. \A p \in Live : (Tables({p}) \ Tables({})) \cap free = {}
  <2>1. \A p \in Live : {p} \in SUBSET Live
        OBVIOUS
  <2>. QED BY <1>2, <2>1
<1>. QED BY <1>1, <1>3, <1>4, <1>5, <1>6, KernelHas DEF MemoryApart

-----------------------------------------------------------------------------
(***************************************************************************)
(* The theorems.                                                            *)
(***************************************************************************)
\* The invariant of the memory of processes, as long as what they ask mmap for
\* (scall_handler_mmap) ends in the lower half of the address space.
THEOREM MemoryInvariant == Fit /\ Spec /\ []BelowKernel => []IInv
<1>1. Fit /\ Init => IInv
      BY InitIInv
<1>2. IInv /\ [Next]_vars /\ BelowKernel' => IInv'
      BY NextIInv
<1>. QED BY <1>1, <1>2, PTL DEF Spec

\* The state keeps its type, and the tables of the kernel are never given away
\* (pt_alloc, pt_salloc), as long as what mmap is asked for ends in the lower half.
THEOREM TypesKept == Fit /\ Spec /\ []BelowKernel => []TypeOK
<1>1. IInv => TypeOK
      BY DEF IInv
<1>. QED BY <1>1, MemoryInvariant, PTL

\* scall_handler_mmap: "The new VMA should NOT overlap with any existing VMAs".  It
\* does not, as long as what was asked for ends below the stack and no program asks
\* for nothing: mmap does not look at the stack, and a VMA of no pages is still the
\* highest of the heap, but the next one starts where it does.
THEOREM VmasStayApart == Fit /\ Spec /\ []BelowStack => []VmasApart
<1>1. Fit /\ Init /\ BelowStack => AInv
      BY InitIInv DEF AInv
<1>2. AInv /\ [Next]_vars /\ BelowStack' => AInv'
      BY NextAInv
<1>3. AInv => VmasApart
      BY DEF AInv
<1>. QED BY <1>1, <1>2, <1>3, PTL DEF Spec

\* Every address space has the kernel's part of the tables; no table and no page
\* is shared by two processes or free while it is used, whoever starts, faults,
\* maps memory or ends in between (proc_copy_kernel_pt, pt_vma_map_page_at_vpn,
\* proc_kill_process).  What mmap makes may run into the stack, but it must end in
\* the lower half: behind it are the kernel's tables, which all processes have.
THEOREM MemoryStaysApart == Fit /\ Spec /\ []BelowKernel => []MemoryApart
<1>1. IInv => MemoryApart
      BY InOrder
<1>. QED BY <1>1, MemoryInvariant, PTL
-----------------------------------------------------------------------------
(***************************************************************************)
(* Programs see flat memory.                                                *)
(***************************************************************************)
\* What is needed besides Fit: no text is so long that a large page fits into it.
Plain ==
    \A app \in App : LET text == Vma(app.load, TextPages(app))
                     IN  \A x \in Pages(text) : Fitting(text, x) \subseteq {0}

\* The first VMA of a process is the text of its program.
TextFirst ==
    \A p \in Proc :
        /\ p \in Live => elf[p] \in App /\ vmas[p][1] = Vma(elf[p].load, TextPages(elf[p]))
        /\ p \notin Live => vmas[p] = <<>>

Span(e) == e.idx .. e.idx + Size(e.level) - 1

\* A page lies in one slot and in a VMA of its process, no two translate the same
\* address, and what they hold is known.
PagesInVmas ==
    /\ \A e \in pte : e.level < 2 =>
          /\ Span(e) \subseteq 0..SlotPages-1
          /\ Held(e) \subseteq DOMAIN data
    /\ \A e, d \in pte : e.level < 2 /\ d.level < 2 /\ e.at = d.at /\ e # d =>
          Span(e) \cap Span(d) = {}
    /\ \A p \in Live : \A t, e \in pte : t.at = satp[p] /\ t.ppn = e.at /\ e.level < 2 =>
          \A k \in Span(e) : \E v \in Range(vmas[p]) : t.idx * SlotPages + k \in Pages(v)

RInv == AInv /\ Plain /\ TextFirst /\ PagesInVmas

LEMMA Fields ==
    \A a, i, f, l : /\ Pte(a, i, f, l).at = a /\ Pte(a, i, f, l).idx = i
                    /\ Pte(a, i, f, l).ppn = f /\ Pte(a, i, f, l).level = l
BY DEF Pte

\* What translates an address is a leaf in a table of the process.
LEMMA LeafIsOwn ==
    ASSUME IInv, NEW p \in Live, NEW x, NEW e \in Leaves(satp[p], x)
    PROVE  /\ e \in pte /\ e.level < 2 /\ LeafPte(e) /\ ~KernelPte(e)
           /\ e.at \in Frame \ (free \cup KernelTables)
           /\ Pte(satp[p], SlotOf(x), e.at, 2) \in pte
           /\ RootPte(Pte(satp[p], SlotOf(x), e.at, 2))
<1>1. /\ e \in pte /\ e.level < 2
      /\ Pte(satp[p], SlotOf(x), e.at, 2) \in pte
      BY DEF Leaves
<1>2. e.level # 2
      BY <1>1, EntryTypes
<1>3. LeafPte(e)
      BY <1>1, <1>2, KindOf DEF IInv, ThreeKinds, RootPte
<1>4. ~KernelPte(e)
      BY <1>1, <1>3, KindOf
<1>5. e.at \in Frame \ (free \cup KernelTables)
  <2>1. PICK u \in pte : RootPte(u) /\ u.ppn = e.at
        BY <1>3 DEF LeafPte
  <2>2. ~KernelPte(u) /\ u.ppn \in Held(u)
        BY <2>1, KindOf, EntryTypes
  <2>. QED BY <2>1, <2>2 DEF IInv, HeldPrivately
<1>. DEFINE t == Pte(satp[p], SlotOf(x), e.at, 2)
<1>6. t \in pte /\ t.at = satp[p] /\ t.ppn = e.at
      BY <1>1, Fields
<1>. HIDE DEF t
<1>7. t # KernelCopy(satp[p])
      BY <1>5, <1>6, KernelEntries
<1>8. RootPte(t)
      BY <1>6, <1>7, KindOf
<1>. QED BY <1>1, <1>3, <1>4, <1>5, <1>8 DEF t

\* There is one, so that it decides on the frame.
LEMMA OneLeaf ==
    ASSUME RInv, NEW p \in Live, NEW x, NEW e \in Leaves(satp[p], x)
    PROVE  Leaves(satp[p], x) = {e}
<1>0. IInv
      BY DEF RInv, AInv
<1>. SUFFICES ASSUME NEW d \in Leaves(satp[p], x) PROVE d = e
     OBVIOUS
<1>. DEFINE t == Pte(satp[p], SlotOf(x), e.at, 2)
            u == Pte(satp[p], SlotOf(x), d.at, 2)
<1>1. /\ e \in pte /\ d \in pte /\ e.level < 2 /\ d.level < 2
      /\ t \in pte /\ u \in pte /\ RootPte(t) /\ RootPte(u)
      BY <1>0, LeafIsOwn
<1>2. t.at = u.at /\ t.idx = u.idx /\ t.ppn = e.at /\ u.ppn = d.at
      BY Fields
<1>. HIDE DEF t, u
<1>3. e.at = d.at
      BY <1>0, <1>1, <1>2 DEF IInv, OneTable
<1>4. x % SlotPages \in Span(e) /\ x % SlotPages \in Span(d)
      BY DEF Leaves, Span
<1>. QED BY <1>1, <1>3, <1>4 DEF RInv, PagesInVmas

LEMMA FrameIs ==
    ASSUME RInv, NEW p \in Live, NEW x \in Nat, NEW e \in Leaves(satp[p], x)
    PROVE  /\ FrameOf(p, x) = e.ppn + (x % SlotPages) - e.idx
           /\ FrameOf(p, x) \in Held(e)
           /\ FrameOf(p, x) \in DOMAIN data
<1>0. IInv
      BY DEF RInv, AInv
<1>1. Leaves(satp[p], x) = {e}
      BY OneLeaf
<1>2. (CHOOSE d \in {e} : TRUE) = e
      OBVIOUS
<1>3. FrameOf(p, x) = e.ppn + (x % SlotPages) - e.idx
      BY <1>1, <1>2 DEF FrameOf
<1>4. e \in pte /\ e.level < 2 /\ x % SlotPages \in e.idx .. e.idx + Size(e.level) - 1
      BY DEF Leaves
<1>5. e.idx \in Nat /\ e.ppn \in Nat /\ e.level # 2 /\ e.level \in {0, 1}
  <2>1. Frame \subseteq Nat
        BY ONLY Constants
  <2>2. e.idx \in Nat /\ e.ppn \in Frame /\ e.level \in 0..2
        BY <1>0, <1>4, EntryTypes
  <2>3. e.level # 2 /\ e.level \in {0, 1}
        BY <1>4, <2>2
  <2>. QED BY <2>1, <2>2, <2>3
<1>6. Size(e.level) \in Nat
      BY <1>5, Constants
<1>7. FrameOf(p, x) \in e.ppn .. e.ppn + Size(e.level) - 1
      BY <1>3, <1>4, <1>5, <1>6
<1>8. FrameOf(p, x) \in Held(e)
      BY <1>5, <1>7 DEF Held
<1>. QED BY <1>3, <1>4, <1>8 DEF RInv, PagesInVmas

\* Different pages are in different frames.
LEMMA FramesDiffer ==
    ASSUME RInv, NEW p \in Live, NEW q \in Live, NEW x \in Nat, NEW y \in Nat,
           Mapped(p, x), Mapped(q, y), FrameOf(p, x) = FrameOf(q, y)
    PROVE  p = q /\ x = y
<1>0. IInv
      BY DEF RInv, AInv
<1>1. PICK e \in Leaves(satp[p], x) : TRUE
      BY DEF Mapped
<1>2. PICK d \in Leaves(satp[q], y) : TRUE
      BY DEF Mapped
<1>. DEFINE t == Pte(satp[p], SlotOf(x), e.at, 2)
            u == Pte(satp[q], SlotOf(y), d.at, 2)
<1>3. /\ e \in pte /\ d \in pte /\ ~KernelPte(e) /\ ~KernelPte(d)
      /\ t \in pte /\ u \in pte /\ RootPte(t) /\ RootPte(u)
      BY <1>0, LeafIsOwn
<1>4. /\ t.at = satp[p] /\ u.at = satp[q] /\ t.idx = SlotOf(x) /\ u.idx = SlotOf(y)
      /\ t.ppn = e.at /\ u.ppn = d.at
      BY Fields
<1>. HIDE DEF t, u
<1>5. /\ FrameOf(p, x) = e.ppn + (x % SlotPages) - e.idx /\ FrameOf(p, x) \in Held(e)
      /\ FrameOf(q, y) = d.ppn + (y % SlotPages) - d.idx /\ FrameOf(q, y) \in Held(d)
      BY FrameIs
<1>6. e = d
      BY <1>0, <1>3, <1>5 DEF IInv, HeldPrivately
<1>7. t = u
  <2>1. ~KernelPte(t) /\ ~KernelPte(u) /\ t.ppn \in Held(t) /\ u.ppn \in Held(u)
        BY <1>0, <1>3, KindOf, EntryTypes
  <2>. QED BY <1>0, <1>3, <1>4, <1>6, <2>1 DEF IInv, HeldPrivately
<1>8. p = q
      BY <1>0, <1>4, <1>7 DEF IInv, RootsApart
<1>9. x = y
  <2>1. x \div SlotPages = y \div SlotPages
        BY <1>4, <1>7 DEF SlotOf
  <2>2. /\ x = (x \div SlotPages) * SlotPages + (x % SlotPages) /\ x % SlotPages \in Nat
        /\ y = (y \div SlotPages) * SlotPages + (y % SlotPages) /\ y % SlotPages \in Nat
        BY Constants, Division
  <2>3. x % SlotPages = y % SlotPages
    <3>1. e.ppn \in Nat /\ e.idx \in Nat
      <4>1. Frame \subseteq Nat
            BY ONLY Constants
      <4>. QED BY <1>0, <1>3, <4>1, EntryTypes
    <3>2. PICK a \in Nat, b \in Nat : a = x % SlotPages /\ b = y % SlotPages
          BY <2>2
    <3>3. e.ppn + a - e.idx = e.ppn + b - e.idx
          BY <1>5, <1>6, <3>2
    <3>4. a = b
          BY <3>1, <3>3
    <3>. QED BY <3>2, <3>4
  <2>. QED BY <2>1, <2>2, <2>3
<1>. QED BY <1>8, <1>9

\* A page that is mapped is one of the process' own.
LEMMA MappedInVma ==
    ASSUME RInv, NEW p \in Live, NEW x \in Nat, Mapped(p, x)
    PROVE  \E v \in Range(vmas[p]) : x \in Pages(v)
<1>0. IInv
      BY DEF RInv, AInv
<1>1. PICK e \in Leaves(satp[p], x) : TRUE
      BY DEF Mapped
<1>. DEFINE t == Pte(satp[p], SlotOf(x), e.at, 2)
<1>2. /\ e \in pte /\ e.level < 2 /\ t \in pte
      /\ t.at = satp[p] /\ t.ppn = e.at /\ t.idx = SlotOf(x)
      BY <1>0, LeafIsOwn, Fields
<1>. HIDE DEF t
<1>3. x % SlotPages \in Span(e)
      BY DEF Leaves, Span
<1>4. \E v \in Range(vmas[p]) : t.idx * SlotPages + (x % SlotPages) \in Pages(v)
      BY <1>2, <1>3 DEF RInv, PagesInVmas
<1>5. (x \div SlotPages) * SlotPages + (x % SlotPages) = x
      BY Constants, Division
<1>. QED BY <1>2, <1>4, <1>5 DEF SlotOf
-----------------------------------------------------------------------------
(***************************************************************************)
(* What the steps do to the pages.                                          *)
(***************************************************************************)
\* No page is added.
LEMMA PagesStay ==
    ASSUME RInv,
           \A e \in pte' : e.level < 2 => e \in pte /\ Held(e) \subseteq DOMAIN data',
           \A p \in Live' : \A t, e \in pte' :
              t.at = satp'[p] /\ t.ppn = e.at /\ e.level < 2 =>
                  /\ p \in Live /\ t \in pte /\ t.at = satp[p]
                  /\ Range(vmas[p]) \subseteq Range(vmas'[p])
    PROVE  PagesInVmas'
<1>1. /\ \A e \in pte : e.level < 2 => Span(e) \subseteq 0..SlotPages-1
      /\ \A e, d \in pte : e.level < 2 /\ d.level < 2 /\ e.at = d.at /\ e # d =>
            Span(e) \cap Span(d) = {}
      /\ \A p \in Live : \A t, e \in pte : t.at = satp[p] /\ t.ppn = e.at /\ e.level < 2 =>
            \A k \in Span(e) : \E v \in Range(vmas[p]) : t.idx * SlotPages + k \in Pages(v)
      BY DEF RInv, PagesInVmas
<1>2. ASSUME NEW e \in pte', e.level < 2
      PROVE  Span(e) \subseteq 0..SlotPages-1 /\ Held(e) \subseteq DOMAIN data'
      BY <1>1, <1>2
<1>3. ASSUME NEW e \in pte', NEW d \in pte', e.level < 2, d.level < 2, e.at = d.at, e # d
      PROVE  Span(e) \cap Span(d) = {}
      BY <1>1, <1>3
<1>4. ASSUME NEW p \in Live', NEW t \in pte', NEW e \in pte',
             t.at = satp'[p], t.ppn = e.at, e.level < 2, NEW k \in Span(e)
      PROVE  \E v \in Range(vmas'[p]) : t.idx * SlotPages + k \in Pages(v)
  <2>1. /\ p \in Live /\ t \in pte /\ e \in pte /\ t.at = satp[p]
        /\ Range(vmas[p]) \subseteq Range(vmas'[p])
        BY <1>4
  <2>2. \E v \in Range(vmas[p]) : t.idx * SlotPages + k \in Pages(v)
        BY <1>1, <1>4, <2>1
  <2>. QED BY <2>1, <2>2
<1>. QED BY <1>2, <1>3, <1>4 DEF PagesInVmas, Span, Held

\* ... for a step that leaves the tables alone.
LEMMA PagesUntouched ==
    ASSUME RInv, pte' = pte, DOMAIN data' = DOMAIN data, Live' = Live,
           \A p \in Live : satp'[p] = satp[p] /\ Range(vmas[p]) \subseteq Range(vmas'[p])
    PROVE  PagesInVmas'
<1>1. \A e \in pte : e.level < 2 => Held(e) \subseteq DOMAIN data
      BY DEF RInv, PagesInVmas
<1>. QED BY <1>1, PagesStay

\* A leaf is never in a table of the kernel.
LEMMA LeafPlace ==
    ASSUME IInv, NEW e \in pte, e.level < 2
    PROVE  /\ LeafPte(e) /\ ~KernelPte(e)
           /\ e.at \notin free \cup KernelTables
<1>1. e.level # 2
      BY EntryTypes
<1>2. LeafPte(e)
      BY <1>1, KindOf DEF IInv, ThreeKinds, RootPte
<1>3. ~KernelPte(e)
      BY <1>2, KindOf
<1>4. PICK u \in pte : RootPte(u) /\ u.ppn = e.at
      BY <1>2 DEF LeafPte
<1>5. ~KernelPte(u) /\ u.ppn \in Held(u)
      BY <1>4, KindOf, EntryTypes
<1>. QED BY <1>2, <1>3, <1>4, <1>5 DEF IInv, HeldPrivately

LEMMA StartEntries ==
    ASSUME IInv, NEW p \in Proc, NEW app \in App, Start(p, app)
    PROVE  /\ Least(free) \in free
           /\ \A e \in pte' \ pte :
                 e.at = Least(free) /\ e.level = 2 /\ e.ppn \in KernelTables
<1>1. pte' = pte \cup proc_copy_kernel_pt(Least(free)) /\ free # {}
      BY DEF Start
<1>2. Least(free) \in free
  <2>1. Frame \subseteq Nat
        BY ONLY Constants
  <2>. QED BY <1>1, <2>1, Leasts DEF IInv, TypeOK
<1>3. \A e \in pte' \ pte : e.at = Least(free) /\ e.level = 2 /\ e.ppn \in KernelTables
  <2>1. ASSUME NEW e \in proc_copy_kernel_pt(Least(free))
        PROVE  e.at = Least(free) /\ e.level = 2 /\ e.ppn \in KernelTables
    <3>1. PICK d \in pte : d.at = ksatp /\ e = [d EXCEPT !.at = Least(free)]
          BY DEF proc_copy_kernel_pt
    <3>2. d.level = 2 /\ d.ppn \in KernelTables
          BY <3>1, KindOf, KernelEntries
    <3>3. d = Pte(d.at, d.idx, d.ppn, d.level)
          BY EntryTypes
    <3>4. e.at = Least(free) /\ e.level = d.level /\ e.ppn = d.ppn
          BY <3>1, <3>3 DEF Pte
    <3>. QED BY <3>2, <3>4
  <2>. QED BY <1>1, <2>1
<1>. QED BY <1>2, <1>3

LEMMA StartPages ==
    ASSUME RInv, NEW p \in Proc, NEW app \in App, Start(p, app)
    PROVE  TextFirst' /\ PagesInVmas'
<1>0. IInv
      BY DEF RInv, AInv
<1>1. /\ status[p] = "free" /\ status' = [status EXCEPT ![p] = "live"]
      /\ satp' = [satp EXCEPT ![p] = Least(free)]
      /\ pte' = pte \cup proc_copy_kernel_pt(Least(free))
      /\ vmas' = [vmas EXCEPT ![p] = FirstVmas(app)]
      /\ elf' = [elf EXCEPT ![p] = app]
      /\ data' = data /\ free # {}
      BY DEF Start
<1>2. /\ status \in [Proc -> {"free", "live"}] /\ satp \in [Proc -> Frame \cup {0}]
      /\ elf \in [Proc -> App \cup {NoApp}]
      /\ vmas \in [Proc -> Seq([vpn : Nat, pagen : Nat])]
      BY <1>0 DEF IInv, TypeOK
<1>3. Live' = Live \cup {p} /\ p \notin Live
      BY <1>1, <1>2 DEF Live
<1>4. \A q \in Proc \ {p} : elf'[q] = elf[q] /\ vmas'[q] = vmas[q] /\ satp'[q] = satp[q]
      BY <1>1, <1>2
<1>5. elf'[p] = app /\ vmas'[p] = FirstVmas(app) /\ satp'[p] = Least(free)
      BY <1>1, <1>2
<1>6. TextFirst'
  <2>1. FirstVmas(app)[1] = Vma(app.load, TextPages(app))
        BY DEF FirstVmas
  <2>2. ASSUME NEW q \in Proc
        PROVE  /\ q \in Live' => elf'[q] \in App
                                 /\ vmas'[q][1] = Vma(elf'[q].load, TextPages(elf'[q]))
               /\ q \notin Live' => vmas'[q] = <<>>
    <3>1. CASE q = p
          BY <1>3, <1>5, <2>1, <3>1
    <3>2. CASE q # p
          BY <1>3, <1>4, <3>2 DEF RInv, TextFirst
    <3>. QED BY <3>1, <3>2
  <2>. QED BY <2>2 DEF TextFirst, Vma, TextPages
<1>7. Least(free) \in free
      BY <1>0, StartEntries
<1>8. \A e \in pte' \ pte : e.at = Least(free) /\ e.level = 2 /\ e.ppn \in KernelTables
      BY <1>0, StartEntries
<1>9. \A e \in pte' : e.level < 2 => e \in pte
      BY <1>8
<1>10. ASSUME NEW q \in Live', NEW t \in pte', NEW e \in pte',
              t.at = satp'[q], t.ppn = e.at, e.level < 2
       PROVE  /\ q \in Live /\ t \in pte /\ t.at = satp[q]
              /\ Range(vmas[q]) \subseteq Range(vmas'[q])
  <2>1. e \in pte /\ e.at \notin KernelTables
        BY <1>0, <1>9, <1>10, LeafPlace
  <2>2. t \in pte
        BY <1>8, <1>10, <2>1
  <2>3. t.at \notin free
        BY <1>0, <2>2, KindOf
  <2>4. q # p
        BY <1>5, <1>7, <1>10, <2>3
  <2>5. q \in Proc
        BY <1>3 DEF Live
  <2>. QED BY <1>3, <1>4, <1>10, <2>2, <2>4, <2>5
<1>11. \A e \in pte' : e.level < 2 => e \in pte /\ Held(e) \subseteq DOMAIN data'
       BY <1>1, <1>9 DEF RInv, PagesInVmas
<1>12. PagesInVmas'
       BY <1>10, <1>11, PagesStay
<1>. QED BY <1>6, <1>12
LEMMA KillPages ==
    ASSUME RInv, NEW p \in Proc, proc_kill_process(p)
    PROVE  TextFirst' /\ PagesInVmas'
<1>0. IInv
      BY DEF RInv, AInv
<1>. DEFINE P == Live \ {p}
<1>1. /\ status' = [status EXCEPT ![p] = "free"] /\ satp' = [satp EXCEPT ![p] = 0]
      /\ pte' = {e \in pte : e.at \in Tables(P)}
      /\ vmas' = [vmas EXCEPT ![p] = <<>>] /\ elf' = [elf EXCEPT ![p] = NoApp]
      /\ data' = Restrict(data, DataFrames(P))
      BY DEF proc_kill_process
<1>2. /\ status \in [Proc -> {"free", "live"}] /\ satp \in [Proc -> Frame \cup {0}]
      /\ elf \in [Proc -> App \cup {NoApp}]
      /\ vmas \in [Proc -> Seq([vpn : Nat, pagen : Nat])]
      BY <1>0 DEF IInv, TypeOK
<1>3. Live' = P
      BY <1>1, <1>2 DEF Live
<1>4. /\ \A q \in Proc \ {p} : elf'[q] = elf[q] /\ vmas'[q] = vmas[q] /\ satp'[q] = satp[q]
      /\ vmas'[p] = <<>>
      BY <1>1, <1>2
<1>5. TextFirst'
  <2>1. ASSUME NEW q \in Proc
        PROVE  /\ q \in Live' => elf'[q] \in App
                                 /\ vmas'[q][1] = Vma(elf'[q].load, TextPages(elf'[q]))
               /\ q \notin Live' => vmas'[q] = <<>>
    <3>1. CASE q = p
          BY <1>3, <1>4, <3>1
    <3>2. CASE q # p
          BY <1>3, <1>4, <3>2 DEF RInv, TextFirst
    <3>. QED BY <3>1, <3>2
  <2>. QED BY <2>1 DEF TextFirst, Vma, TextPages
<1>6. DOMAIN data' = DataFrames(P)
      BY <1>1 DEF Restrict
<1>7. ASSUME NEW e \in pte', e.level < 2
      PROVE  e \in pte /\ Held(e) \subseteq DOMAIN data'
  <2>1. e \in pte /\ e.at \in Tables(P)
        BY <1>1
  <2>2. Held(e) = e.ppn .. e.ppn + Size(e.level) - 1
    <3>1. e.level # 2
          BY <1>0, <1>7, <2>1, EntryTypes
    <3>. QED BY <3>1 DEF Held
  <2>3. Held(e) \subseteq DataFrames(P)
        BY <1>7, <2>1, <2>2 DEF DataFrames
  <2>. QED BY <1>6, <2>1, <2>3
<1>8. ASSUME NEW q \in Live', NEW t \in pte', NEW e \in pte',
             t.at = satp'[q], t.ppn = e.at, e.level < 2
      PROVE  /\ q \in Live /\ t \in pte /\ t.at = satp[q]
             /\ Range(vmas[q]) \subseteq Range(vmas'[q])
  <2>1. q \in Proc \ {p} /\ q \in Live
        BY <1>3 DEF Live
  <2>. QED BY <1>1, <1>4, <1>8, <2>1
<1>9. PagesInVmas'
      BY <1>7, <1>8, PagesStay
<1>. QED BY <1>5, <1>9

LEMMA MmapPages ==
    ASSUME RInv, NEW p \in Proc, NEW n \in Requests, scall_handler_mmap(p, n)
    PROVE  TextFirst' /\ PagesInVmas'
<1>0. IInv
      BY DEF RInv, AInv
<1>. DEFINE v == Vma(get_free_vpn(p), n)
            V == [vpn : Nat, pagen : Nat]
<1>1. /\ status[p] = "live" /\ Len(vmas[p]) < MaxVmas
      /\ vmas' = [vmas EXCEPT ![p] = Append(vmas[p], v)]
      /\ UNCHANGED <<on, status, satp, elf, pte, data>>
      BY DEF scall_handler_mmap
<1>2. p \in Live /\ Live' = Live
      BY <1>1 DEF Live
<1>3. v \in V
      BY <1>0, <1>1, <1>2, NewVpn DEF Vma
<1>4. vmas[p] \in Seq(V) /\ Len(vmas[p]) \in Nat /\ Len(vmas[p]) >= 2
      BY <1>0, <1>2, VmaTypes DEF IInv, VmasInPlace
<1>5. /\ \A q \in Proc \ {p} : vmas'[q] = vmas[q]
      /\ vmas'[p] = Append(vmas[p], v)
      BY <1>0, <1>1 DEF IInv, TypeOK
<1>. HIDE DEF v, V
<1>6. /\ Append(vmas[p], v)[1] = vmas[p][1]
      /\ Range(vmas[p]) \subseteq Range(Append(vmas[p], v))
      BY <1>3, <1>4 DEF Range
<1>7. TextFirst'
  <2>1. ASSUME NEW q \in Proc
        PROVE  /\ q \in Live' => elf'[q] \in App
                                 /\ vmas'[q][1] = Vma(elf'[q].load, TextPages(elf'[q]))
               /\ q \notin Live' => vmas'[q] = <<>>
    <3>1. CASE q = p
          BY <1>1, <1>2, <1>5, <1>6, <3>1 DEF RInv, TextFirst
    <3>2. CASE q # p
          BY <1>1, <1>2, <1>5, <3>2 DEF RInv, TextFirst
    <3>. QED BY <3>1, <3>2
  <2>. QED BY <2>1 DEF TextFirst, Vma, TextPages
<1>8. \A q \in Live : satp'[q] = satp[q] /\ Range(vmas[q]) \subseteq Range(vmas'[q])
  <2>1. \A q \in Live : q \in Proc
        BY DEF Live
  <2>. QED BY <1>1, <1>5, <1>6, <2>1
<1>9. PagesInVmas'
      BY <1>1, <1>2, <1>8, PagesUntouched
<1>. QED BY <1>7, <1>9

\* ... for the other steps but a page fault.
LEMMA OtherPages ==
    ASSUME RInv,
           \/ \E p \in Proc : StartFails(p) \/ MmapFails(p)
           \/ \E p \in Proc, a \in Touched : FaultFails(p, a)
           \/ \E p \in Proc, a \in Stored : UserStore(p, a)
           \/ UNCHANGED vars
    PROVE  TextFirst' /\ PagesInVmas'
<1>0. IInv
      BY DEF RInv, AInv
<1>1. /\ status' = status /\ vmas' = vmas /\ elf' = elf /\ pte' = pte
      /\ DOMAIN data' = DOMAIN data
      BY DEF StartFails, MmapFails, FaultFails, UserStore, vars
<1>2. \A p \in Live : satp'[p] = satp[p]
  <2>1. CASE \E p \in Proc : StartFails(p)
    <3>1. PICK p \in Proc : StartFails(p)
          BY <2>1
    <3>2. /\ status[p] = "free"
          /\ satp' = [satp EXCEPT ![p] = IF free = {} THEN @ ELSE Least(free)]
          BY <3>1 DEF StartFails
    <3>3. \A q \in Live : q \in Proc \ {p}
          BY <3>2 DEF Live
    <3>. QED BY <1>0, <3>2, <3>3 DEF IInv, TypeOK
  <2>2. CASE ~(\E p \in Proc : StartFails(p))
    <3>1. satp' = satp
          BY <2>2 DEF MmapFails, FaultFails, UserStore, vars
    <3>. QED BY <3>1
  <2>. QED BY <2>1, <2>2
<1>3. Live' = Live
      BY <1>1 DEF Live
<1>4. TextFirst'
      BY <1>1, <1>3 DEF RInv, TextFirst
<1>5. PagesInVmas'
      BY <1>1, <1>2, <1>3, PagesUntouched
<1>. QED BY <1>4, <1>5
\* A page of any size lies in one slot.
LEMMA Places ==
    ASSUME NEW m \in Nat, NEW k \in 0..SlotPages-1
    PROVE  SlotOf(m * SlotPages + k) = m /\ (m * SlotPages + k) % SlotPages = k
<1>. DEFINE S == SlotPages
            y == m * S + k
<1>1. S \in Nat \ {0} /\ k \in Nat /\ k < S
      BY Constants
<1>2. y \in Nat /\ m * S <= y /\ y < m * S + S
      BY <1>1
<1>. HIDE DEF y
<1>3. y \div S = m
      BY <1>1, <1>2
<1>4. y = (y \div S) * S + (y % S) /\ y % S \in Nat
      BY <1>1, <1>2, Division
<1>5. y % S = k
  <2>1. m * S \in Nat
        BY <1>1
  <2>. QED BY <1>1, <1>3, <1>4, <2>1 DEF y
<1>. QED BY <1>3, <1>5 DEF y, SlotOf

LEMMA Boundaries ==
    ASSUME NEW x \in Nat, NEW l \in {0, 1}
    PROVE  /\ Boundary(x, l) \in Nat /\ Boundary(x, l) % SlotPages \in Nat
           /\ Boundary(x, l) <= x /\ x < Boundary(x, l) + Size(l)
           /\ SlotOf(x) \in Nat
           /\ Boundary(x, l) = SlotOf(x) * SlotPages + (Boundary(x, l) % SlotPages)
           /\ (Boundary(x, l) % SlotPages) + Size(l) <= SlotPages
<1>. DEFINE s == Size(l)
            S == SlotPages
            k == x \div s
            m == x \div S
<1>1. s \in Nat \ {0} /\ S \in Nat \ {0}
      BY Constants
<1>2. PICK c \in Nat \ {0} : S = c * s
  <2>1. CASE l = 0
        BY <1>1, <2>1 DEF Size
  <2>2. CASE l = 1
    <3>1. s = Mega /\ S % Mega = 0
          BY <2>2, UserMemoryAssumption DEF Size
    <3>2. S \div s \in Nat /\ S = (S \div s) * s + (S % s)
          BY <1>1, Division
    <3>3. S = (S \div s) * s /\ S \div s # 0
          BY <1>1, <3>1, <3>2
    <3>. QED BY <3>2, <3>3
  <2>. QED BY <2>1, <2>2
<1>3. k \in Nat /\ k * s <= x /\ x < k * s + s
      BY <1>1, Division
<1>4. m \in Nat /\ m * S <= x /\ x < m * S + S
      BY <1>1, Division
<1>5. SlotOf(x) = m /\ Boundary(x, l) = k * s
      BY DEF SlotOf, Boundary
<1>. HIDE DEF s, S, k, m
<1>6. m * c \in Nat /\ (m * c) * s = m * S /\ (m * c + c) * s = m * S + S
      BY <1>1, <1>2, <1>4
<1>7. m * c <= k
  <2>. SUFFICES ASSUME k + 1 <= m * c PROVE FALSE
       BY <1>3, <1>6
  <2>1. (k + 1) * s <= (m * c) * s
        BY <1>1, <1>3, <1>6, Products
  <2>2. (k + 1) * s = k * s + s
        BY <1>1, <1>3
  <2>. QED BY <1>1, <1>3, <1>4, <1>6, <2>1, <2>2
<1>8. k + 1 <= m * c + c
  <2>. SUFFICES ASSUME m * c + c <= k PROVE FALSE
       BY <1>2, <1>3, <1>6
  <2>1. (m * c + c) * s <= k * s
        BY <1>1, <1>2, <1>3, <1>6, Products
  <2>. QED BY <1>1, <1>3, <1>4, <1>6, <2>1
<1>9. m * S <= k * s /\ k * s + s <= m * S + S
  <2>1. (m * c) * s <= k * s
        BY <1>1, <1>3, <1>6, <1>7, Products
  <2>2. (k + 1) * s <= (m * c + c) * s
        BY <1>1, <1>2, <1>3, <1>6, <1>8, Products
  <2>3. (k + 1) * s = k * s + s
        BY <1>1, <1>3
  <2>. QED BY <1>6, <2>1, <2>2, <2>3
<1>10. PICK j \in 0..S-1 : k * s = m * S + j /\ j + s <= S
  <2>1. PICK A \in Nat, B \in Nat : A = k * s /\ B = m * S
        BY <1>1, <1>3, <1>4
  <2>2. B <= A /\ A + s <= B + S
        BY <1>9, <2>1
  <2>3. A - B \in 0..S-1 /\ A = B + (A - B) /\ (A - B) + s <= S
        BY <1>1, <2>1, <2>2
  <2>. QED BY <2>1, <2>3
<1>11. (k * s) % S = j
       BY <1>4, <1>10, Places DEF S
<1>. QED BY <1>1, <1>3, <1>4, <1>5, <1>10, <1>11 DEF s, S

\* What a page fault does: a page for address a is added to VMA v.
NewTable(p, a, t) == Pte(satp[p], SlotOf(a \div PageSize), t, 2)

NewLeaf(a, l, f, t) == Pte(t, Boundary(a \div PageSize, l) % SlotPages, f, l)

NewPage(p, a, v, l, f, t) ==
    LET zeros == With(data, Zeroed(f, l))
    IN  /\ a \div PageSize \in Pages(v)
        /\ l \in Possible(p, v, a \div PageSize)
        /\ f .. f + Size(l) - 1 \subseteq free
        /\ NewTable(p, a, t) \in pte \/ t \in free
        /\ pte' = pte \cup {NewTable(p, a, t), NewLeaf(a, l, f, t)}
        /\ data' = IF InText(p, a) THEN TextCopied(elf[p], a, f, zeros) ELSE zeros

LEMMA FaultMaps ==
    ASSUME IInv, NEW p \in Proc, NEW a \in Nat, PageFault(p, a)
    PROVE  /\ p \in Live /\ UNCHANGED <<on, status, satp, elf, vmas, a3>>
           /\ \E v \in Range(vmas[p]), l \in {0, 1}, f \in Frame, t \in Frame :
                 vpn2vma(p, a \div PageSize, v) /\ NewPage(p, a, v, l, f, t)
<1>. DEFINE x == a \div PageSize
<1>1. p \in Live /\ UNCHANGED <<on, status, satp, elf, vmas, a3>>
      BY DEF PageFault, Live
<1>2. PICK v \in Range(vmas[p]), l \in {0, 1} :
          /\ vpn2vma(p, x, v)
          /\ CanMap(p, v, x, l)
          /\ LET f == Least(Blocks(free, l))
                 zeros == With(data, Zeroed(f, l))
             IN  /\ MapPage(p, x, l, f)
                 /\ data' = IF InText(p, a)
                            THEN TextCopied(elf[p], a, f, zeros) ELSE zeros
      BY DEF PageFault
<1>3. x \in Pages(v)
      BY <1>2 DEF vpn2vma
<1>4. PICK f \in free : /\ f = Least(Blocks(free, l)) /\ f .. f + Size(l) - 1 \subseteq free
                        /\ l \in Possible(p, v, x)
      BY <1>2, FoundFrames
<1>5. free \subseteq Frame
      BY DEF IInv, TypeOK
<1>. DEFINE T == TablesAt(satp[p], SlotOf(x))
            leaf(t) == Pte(t, Boundary(x, l) % SlotPages, f, l)
            table(t) == Pte(satp[p], SlotOf(x), t, 2)
<1>6. \E t \in Frame : /\ table(t) \in pte \/ t \in free
                       /\ pte' = pte \cup {table(t), leaf(t)}
  <2>1. MapPage(p, x, l, f)
        BY <1>2, <1>4
  <2>2. CASE T # {}
    <3>1. PICK d \in pte : d.at = satp[p] /\ d.idx = SlotOf(x)
          BY <2>2 DEF TablesAt
    <3>2. \A e \in pte : e.at = satp[p] /\ e.idx = SlotOf(x) => RootPte(e)
          BY <1>1, <1>3, BelowTheKernel, KindOf, KernelEntries
    <3>3. T = {d.ppn}
          BY <3>1, <3>2 DEF TablesAt, IInv, OneTable
    <3>4. d = table(d.ppn) /\ d.ppn \in Frame
          BY <3>1, <3>2, EntryTypes DEF RootPte
    <3>5. pte' = pte \cup {leaf(d.ppn)}
          BY <2>1, <2>2, <3>3 DEF MapPage
    <3>. QED BY <3>4, <3>5
  <2>3. CASE T = {}
    <3>. DEFINE left == free \ (f .. f + Size(l) - 1)
    <3>1. left # {} /\ pte' = pte \cup {table(Least(left)), leaf(Least(left))}
          BY <2>1, <2>3 DEF MapPage
    <3>2. Least(left) \in left
      <4>1. Frame \subseteq Nat
            BY ONLY Constants
      <4>. QED BY <1>5, <3>1, <4>1, Leasts
    <3>. QED BY <1>5, <3>1, <3>2
  <2>. QED BY <2>2, <2>3
<1>7. PICK t \in Frame : /\ table(t) \in pte \/ t \in free
                         /\ pte' = pte \cup {table(t), leaf(t)}
      BY <1>6
<1>8. NewPage(p, a, v, l, f, t)
      BY <1>2, <1>3, <1>4, <1>7 DEF NewPage, NewTable, NewLeaf
<1>. QED BY <1>1, <1>2, <1>5, <1>8

\* What is known of its entries.
Entered(p, a, l, f, t) ==
    /\ NewTable(p, a, t).at = satp[p]
    /\ NewTable(p, a, t).idx = SlotOf(a \div PageSize)
    /\ NewTable(p, a, t).ppn = t /\ NewTable(p, a, t).level = 2
    /\ NewLeaf(a, l, f, t).at = t
    /\ NewLeaf(a, l, f, t).idx = Boundary(a \div PageSize, l) % SlotPages
    /\ NewLeaf(a, l, f, t).ppn = f /\ NewLeaf(a, l, f, t).level = l
    /\ f \in free /\ t \notin KernelTables
    /\ \A e \in pte : e.level < 2 /\ e.at = t => NewTable(p, a, t) \in pte
    /\ \A q \in Live : \A e \in pte' :
          e.at = satp[q] /\ e.ppn = t => e = NewTable(p, a, t) /\ q = p
    /\ \A e \in pte : e.ppn \notin free

LEMMA NewEntries ==
    ASSUME IInv, NEW p \in Live, NEW a \in Nat, NEW v \in Range(vmas[p]),
           NEW l \in {0, 1}, NEW f \in Frame, NEW t \in Frame,
           NewPage(p, a, v, l, f, t)
    PROVE  Entered(p, a, l, f, t)
<1>. DEFINE x == a \div PageSize
            table == NewTable(p, a, t)
            leaf == NewLeaf(a, l, f, t)
<1>1. /\ table.at = satp[p] /\ table.idx = SlotOf(x) /\ table.ppn = t /\ table.level = 2
      /\ leaf.at = t /\ leaf.idx = Boundary(x, l) % SlotPages
      /\ leaf.ppn = f /\ leaf.level = l
      BY Fields DEF NewTable, NewLeaf
<1>2. /\ x \in Pages(v) /\ f \in free
      /\ table \in pte \/ t \in free
      /\ pte' = pte \cup {table, leaf}
  <2>1. f \in f .. f + Size(l) - 1
    <3>1. f \in Nat
      <4>1. Frame \subseteq Nat
            BY ONLY Constants
      <4>. QED BY <4>1
    <3>. QED BY <3>1, Constants
  <2>. QED BY <2>1 DEF NewPage
<1>. HIDE DEF table, leaf
<1>3. SlotOf(x) # KernelSlot
      BY <1>2, BelowTheKernel DEF Live
<1>4. \A e \in pte : e.ppn \notin free
  <2>. SUFFICES ASSUME NEW e \in pte PROVE e.ppn \notin free
       OBVIOUS
  <2>1. CASE KernelPte(e)
        BY <2>1, KindOf DEF IInv, TypeOK, KernelTables
  <2>2. CASE ~KernelPte(e)
        BY <2>2, EntryTypes DEF IInv, HeldPrivately
  <2>. QED BY <2>1, <2>2
<1>5. table \in pte => RootPte(table) /\ ~KernelPte(table)
      BY <1>1, <1>3, KindOf, KernelEntries
<1>6. t \notin KernelTables /\ \A q \in Live : t # satp[q]
  <2>1. CASE table \in pte
    <3>1. t \in Held(table)
          BY <1>1, <2>1, EntryTypes
    <3>. QED BY <1>5, <2>1, <3>1 DEF IInv, HeldPrivately
  <2>2. CASE t \in free
        BY <2>2 DEF IInv, TypeOK, KernelTables, RootsApart
  <2>. QED BY <1>2, <2>1, <2>2
<1>7. \A e \in pte : e.level < 2 /\ e.at = t => table \in pte
      BY <1>2, LeafPlace
<1>8. ASSUME NEW q \in Live, NEW e \in pte', e.at = satp[q], e.ppn = t
      PROVE  e = table /\ q = p
  <2>1. e # leaf
        BY <1>1, <1>6, <1>8
  <2>2. e = table
    <3>1. CASE e \in pte
      <4>1. table \in pte
            BY <1>2, <1>4, <1>8, <3>1
      <4>2. ~KernelPte(e)
            BY <1>6, <1>8, <3>1, KindOf
      <4>3. t \in Held(e) /\ t \in Held(table)
            BY <1>1, <1>8, <3>1, <4>1, EntryTypes
      <4>. QED BY <1>5, <3>1, <4>1, <4>2, <4>3 DEF IInv, HeldPrivately
    <3>. QED BY <1>2, <1>8, <2>1, <3>1
  <2>3. satp[q] = satp[p]
        BY <1>1, <1>8, <2>2
  <2>. QED BY <2>2, <2>3 DEF IInv, RootsApart
<1>. QED BY <1>1, <1>2, <1>4, <1>6, <1>7, <1>8 DEF table, leaf, Entered

\* The page is where the VMA is, and nothing is mapped there yet.
LEMMA FaultPages ==
    ASSUME RInv, NEW p \in Live, NEW a \in Nat, NEW v \in Range(vmas[p]),
           NEW l \in {0, 1}, NEW f \in Frame, NEW t \in Frame,
           NewPage(p, a, v, l, f, t), UNCHANGED <<status, satp, vmas>>
    PROVE  PagesInVmas'
<1>0. IInv
      BY DEF RInv, AInv
<1>00. Entered(p, a, l, f, t)
       BY <1>0, NewEntries
<1>. DEFINE x == a \div PageSize
            b == Boundary(x, l)
            table == NewTable(p, a, t)
            leaf == NewLeaf(a, l, f, t)
<1>1. /\ table.at = satp[p] /\ table.idx = SlotOf(x) /\ table.ppn = t /\ table.level = 2
      /\ leaf.at = t /\ leaf.idx = b % SlotPages /\ leaf.ppn = f /\ leaf.level = l
      /\ f \in free /\ t \notin KernelTables
      /\ \A e \in pte : e.level < 2 /\ e.at = t => table \in pte
      /\ \A q \in Live : \A e \in pte' : e.at = satp[q] /\ e.ppn = t => e = table /\ q = p
      /\ \A e \in pte : e.ppn \notin free
      BY <1>00 DEF Entered
<1>2. /\ f .. f + Size(l) - 1 \subseteq free
      /\ table \in pte \/ t \in free
      /\ pte' = pte \cup {table, leaf}
      /\ b .. b + Size(l) - 1 \subseteq Pages(v)
      /\ \A y \in b .. b + Size(l) - 1 : ~Mapped(p, y)
  <2>1. l \in Fitting(v, x) /\ \A y \in b .. b + Size(l) - 1 : ~Mapped(p, y)
        BY DEF NewPage, Possible
  <2>2. x \in Nat /\ v.vpn \in Nat /\ v.pagen \in Nat
    <3>1. PICK i \in DOMAIN vmas[p] : v = vmas[p][i]
          BY DEF Range
    <3>. QED BY <1>0, <3>1, VmaTypes, Constants, Division DEF Live
  <2>3. b \in Nat /\ Size(l) \in Nat
        BY <2>2, Boundaries, Constants
  <2>4. b .. b + Size(l) - 1 \subseteq Pages(v)
    <3>1. v.vpn <= b /\ b + Size(l) <= v.vpn + v.pagen
          BY <2>1 DEF Fitting
    <3>. HIDE DEF b
    <3>. QED BY <2>2, <2>3, <3>1 DEF Pages
  <2>. QED BY <2>1, <2>4 DEF NewPage
<1>3. /\ b \in Nat /\ b % SlotPages \in Nat /\ SlotOf(x) \in Nat
      /\ b = SlotOf(x) * SlotPages + (b % SlotPages)
      /\ (b % SlotPages) + Size(l) <= SlotPages
      /\ Size(l) \in Nat \ {0} /\ SlotPages \in Nat \ {0}
      BY Boundaries, Constants, Division
<1>. HIDE DEF x, b, table, leaf
<1>4. /\ Span(leaf) = (b % SlotPages) .. (b % SlotPages) + Size(l) - 1
      /\ Held(leaf) = f .. f + Size(l) - 1
      BY <1>1 DEF Span, Held
<1>5. Span(leaf) \subseteq 0..SlotPages-1
      BY <1>3, <1>4
<1>6. \A k \in Span(leaf) : SlotOf(x) * SlotPages + k \in b .. b + Size(l) - 1
  <2>. SUFFICES ASSUME NEW k \in Span(leaf)
                PROVE  SlotOf(x) * SlotPages + k \in b .. b + Size(l) - 1
       OBVIOUS
  <2>1. PICK m \in Nat, j \in Nat : m = SlotOf(x) * SlotPages /\ j = b % SlotPages
        BY <1>3
  <2>2. k \in j .. j + Size(l) - 1 /\ b = m + j
        BY <1>3, <1>4, <2>1
  <2>3. m + k \in m + j .. m + j + Size(l) - 1
        BY <1>3, <2>1, <2>2
  <2>. QED BY <2>1, <2>2, <2>3
<1>7. \A e \in pte' : e.level < 2 => e = leaf \/ e \in pte
      BY <1>1, <1>2
<1>8. DOMAIN data \cup (f .. f + Size(l) - 1) = DOMAIN data'
  <2>. DEFINE zeros == With(data, Zeroed(f, l))
  <2>1. DOMAIN zeros = DOMAIN data \cup (f .. f + Size(l) - 1)
        BY DEF With, Zeroed
  <2>2. data' = IF InText(p, a) THEN TextCopied(elf[p], a, f, zeros) ELSE zeros
        BY DEF NewPage
  <2>. HIDE DEF zeros
  <2>3. DOMAIN TextCopied(elf[p], a, f, zeros) = DOMAIN zeros
        BY DEF TextCopied
  <2>. QED BY <2>1, <2>2, <2>3
<1>9. ASSUME NEW e \in pte', e.level < 2
      PROVE  Span(e) \subseteq 0..SlotPages-1 /\ Held(e) \subseteq DOMAIN data'
  <2>1. CASE e = leaf
        BY <1>4, <1>5, <1>8, <2>1
  <2>2. CASE e \in pte
        BY <1>8, <1>9, <2>2 DEF RInv, PagesInVmas
  <2>. QED BY <1>7, <1>9, <2>1, <2>2
<1>10. ASSUME NEW e \in pte, e.level < 2, e.at = t, NEW k \in Span(leaf), k \in Span(e)
       PROVE  FALSE
  <2>. DEFINE y == SlotOf(x) * SlotPages + k
  <2>1. y \in b .. b + Size(l) - 1
        BY <1>6
  <2>2. SlotOf(y) = SlotOf(x) /\ y % SlotPages = k
        BY <1>3, <1>5, Places
  <2>3. Pte(satp[p], SlotOf(y), e.at, 2) \in pte
        BY <1>1, <1>10, <2>2 DEF table, NewTable, x
  <2>. HIDE DEF y
  <2>4. e \in Leaves(satp[p], y)
        BY <1>10, <2>2, <2>3 DEF Leaves, Span
  <2>. QED BY <1>2, <2>1, <2>4 DEF Mapped
<1>11. ASSUME NEW e \in pte', NEW d \in pte', e.level < 2, d.level < 2, e.at = d.at, e # d
       PROVE  Span(e) \cap Span(d) = {}
  <2>1. CASE e \in pte /\ d \in pte
        BY <1>11, <2>1 DEF RInv, PagesInVmas
  <2>2. CASE e = leaf /\ d \in pte
        BY <1>1, <1>10, <1>11, <2>2
  <2>3. CASE d = leaf /\ e \in pte
        BY <1>1, <1>10, <1>11, <2>3
  <2>. QED BY <1>7, <1>11, <2>1, <2>2, <2>3
<1>12. ASSUME NEW q \in Live, NEW u \in pte', NEW e \in pte',
              u.at = satp[q], u.ppn = e.at, e.level < 2, NEW k \in Span(e)
       PROVE  \E w \in Range(vmas[q]) : u.idx * SlotPages + k \in Pages(w)
  <2>1. CASE e.at = t
    <3>1. u = table /\ q = p
          BY <1>1, <1>12, <2>1
    <3>2. CASE e = leaf
          BY <1>1, <1>2, <1>6, <1>12, <3>1, <3>2
    <3>3. CASE e \in pte
      <4>1. u \in pte
            BY <1>1, <1>12, <2>1, <3>1, <3>3
      <4>. QED BY <1>12, <3>3, <4>1 DEF RInv, PagesInVmas
    <3>. QED BY <1>7, <1>12, <3>2, <3>3
  <2>2. CASE e.at # t
    <3>1. e \in pte
          BY <1>1, <1>7, <1>12, <2>2
    <3>2. e.at \notin free
          BY <1>0, <1>12, <3>1, LeafPlace
    <3>4. u \in pte
          BY <1>1, <1>2, <1>12, <2>2, <3>2
    <3>. QED BY <1>12, <3>1, <3>4 DEF RInv, PagesInVmas
  <2>. QED BY <2>1, <2>2
<1>13. Live' = Live /\ satp' = satp /\ vmas' = vmas
       BY DEF Live
<1>. QED BY <1>9, <1>11, <1>12, <1>13 DEF PagesInVmas, Span, Held

LEMMA NextRInv ==
    ASSUME RInv, [Next]_vars, BelowStack'
    PROVE  RInv'
<1>0. AInv
      BY DEF RInv
<1>1. AInv'
      BY <1>0, NextAInv
<1>2. TextFirst' /\ PagesInVmas'
  <2>1. CASE \E p \in Proc, app \in App : Start(p, app)
        BY <2>1, StartPages
  <2>2. CASE \E p \in Proc : proc_kill_process(p)
        BY <2>2, KillPages
  <2>3. CASE \E p \in Proc, n \in Requests : scall_handler_mmap(p, n)
        BY <2>3, MmapPages
  <2>4. CASE \E p \in Proc, a \in Touched : PageFault(p, a)
    <3>1. PICK p \in Proc, a \in Touched : PageFault(p, a)
          BY <2>4
    <3>2. a \in Nat
          BY UserMemoryAssumption
    <3>3. /\ p \in Live /\ UNCHANGED <<on, status, satp, elf, vmas, a3>>
          /\ \E v \in Range(vmas[p]), l \in {0, 1}, f \in Frame, t \in Frame :
                NewPage(p, a, v, l, f, t)
          BY <1>0, <3>1, <3>2, FaultMaps DEF AInv
    <3>4. PagesInVmas'
          BY <3>2, <3>3, FaultPages
    <3>5. TextFirst'
          BY <3>3 DEF RInv, TextFirst, Live
    <3>. QED BY <3>4, <3>5
  <2>5. CASE \/ \E p \in Proc : StartFails(p) \/ MmapFails(p)
             \/ \E p \in Proc, a \in Touched : FaultFails(p, a)
             \/ \E p \in Proc, a \in Stored : UserStore(p, a)
             \/ UNCHANGED vars
        BY <2>5, OtherPages
  <2>. QED BY <2>1, <2>2, <2>3, <2>4, <2>5 DEF Next, Off
<1>3. Plain'
      BY DEF RInv, Plain, Fitting, Boundary, Size, Pages, Vma, TextPages
<1>. QED BY <1>1, <1>2, <1>3 DEF RInv

LEMMA InitRInv ==
    ASSUME Fit, Plain, BelowStack, Init
    PROVE  RInv
<1>1. AInv
      BY InitIInv DEF AInv
<1>2. Live = {} /\ \A p \in Proc : vmas[p] = <<>>
      BY DEF Init, Live
<1>3. TextFirst
      BY <1>2 DEF TextFirst
<1>4. \A e \in pte : e.level = 2
      BY DEF Init, KernelPtes, Pte
<1>5. PagesInVmas
      BY <1>2, <1>4 DEF PagesInVmas
<1>. QED BY <1>1, <1>3, <1>5 DEF RInv
-----------------------------------------------------------------------------
(***************************************************************************)
(* What programs see.                                                       *)
(***************************************************************************)
\* The pages of a process, and what a program finds in one of them.
Vpns(p) == UNION {Pages(v) : v \in Range(vmas[p])}

Content(p, x) ==
    IF Mapped(p, x) THEN data[FrameOf(p, x)] ELSE FirstPage(elf[p], x)

\* What is known of the leaf that translates an address.
Translation ==
    \A p \in Live : \A x \in Nat : \A e \in Leaves(satp[p], x) :
        /\ e \in pte /\ e.level < 2 /\ ~KernelPte(e)
        /\ Pte(satp[p], SlotOf(x), e.at, 2) \in pte
        /\ x % SlotPages \in Span(e)
        /\ Leaves(satp[p], x) = {e}
        /\ FrameOf(p, x) = e.ppn + (x % SlotPages) - e.idx
        /\ FrameOf(p, x) \in Held(e) /\ FrameOf(p, x) \in DOMAIN data

LEMMA Translated == RInv => Translation
<1>. SUFFICES ASSUME RInv PROVE Translation
     OBVIOUS
<1>0. IInv
      BY DEF RInv, AInv
<1>1. ASSUME NEW p \in Live, NEW x \in Nat, NEW e \in Leaves(satp[p], x)
      PROVE  /\ e \in pte /\ e.level < 2 /\ ~KernelPte(e)
             /\ Pte(satp[p], SlotOf(x), e.at, 2) \in pte
             /\ x % SlotPages \in Span(e)
             /\ Leaves(satp[p], x) = {e}
             /\ FrameOf(p, x) = e.ppn + (x % SlotPages) - e.idx
             /\ FrameOf(p, x) \in Held(e) /\ FrameOf(p, x) \in DOMAIN data
  <2>1. /\ e \in pte /\ e.level < 2 /\ ~KernelPte(e)
        /\ Pte(satp[p], SlotOf(x), e.at, 2) \in pte
        BY <1>0, LeafIsOwn
  <2>2. x % SlotPages \in Span(e)
        BY DEF Leaves, Span
  <2>3. Leaves(satp[p], x) = {e}
        BY OneLeaf
  <2>. QED BY <2>1, <2>2, <2>3, FrameIs
<1>. QED BY <1>1 DEF Translation

LEMMA TranslatedNext == RInv' => Translation'
BY Translated, PTL

\* A process has pages as long as it runs.
LEMMA HasPages ==
    ASSUME RInv, NEW p \in Proc
    PROVE  /\ p \in Live => Vpns(p) # {}
           /\ p \notin Live => Vpns(p) = {}
           /\ Vpns(p) \subseteq Nat
           /\ \A x \in Nat : p \in Live /\ Mapped(p, x) => x \in Vpns(p)
<1>0. IInv
      BY DEF RInv, AInv
<1>1. ASSUME p \in Live PROVE Vpns(p) # {}
  <2>. DEFINE v == vmas[p][1]
  <2>1. /\ elf[p] \in App /\ v = Vma(elf[p].load, TextPages(elf[p]))
        BY <1>1 DEF RInv, TextFirst
  <2>2. 1 \in DOMAIN vmas[p]
        BY <1>0, <1>1, VmaTypes DEF IInv, VmasInPlace
  <2>3. v \in Range(vmas[p])
        BY <2>2 DEF Range
  <2>4. elf[p].load \in Pages(v)
    <3>1. elf[p].load \in Nat /\ TextPages(elf[p]) \in Nat \ {0}
          BY <2>1, Programs
    <3>. QED BY <2>1, <3>1 DEF Pages, Vma
  <2>. HIDE DEF v
  <2>. QED BY <2>3, <2>4 DEF Vpns
<1>2. ASSUME p \notin Live PROVE Vpns(p) = {}
  <2>1. vmas[p] = <<>>
        BY <1>2 DEF RInv, TextFirst
  <2>2. \A i : i \notin DOMAIN <<>>
        OBVIOUS
  <2>. QED BY <2>1, <2>2 DEF Vpns, Range
<1>3. Vpns(p) \subseteq Nat
  <2>. SUFFICES ASSUME NEW v \in Range(vmas[p]), NEW x \in Pages(v) PROVE x \in Nat
       BY DEF Vpns
  <2>. QED BY <1>0, BelowTheKernel
<1>4. ASSUME NEW x \in Nat, p \in Live, Mapped(p, x) PROVE x \in Vpns(p)
      BY <1>4, MappedInVma DEF Vpns
<1>. QED BY <1>1, <1>2, <1>3, <1>4

LEMMA ViewIs == \A p \in Proc : View(p) = [x \in Vpns(p) |-> Content(p, x)]
BY DEF View, Vpns, Content

LEMMA ViewIsNext == \A p \in Proc : View(p)' = [x \in Vpns(p)' |-> Content(p, x)']
BY DEF View, Vpns, Content

LEMMA EmptyViews ==
    ASSUME RInv, NEW p \in Proc
    PROVE  View(p) = Memory!Empty <=> p \notin Live
<1>1. DOMAIN View(p) = Vpns(p)
      BY ViewIs
<1>2. DOMAIN Memory!Empty = {}
      BY DEF Memory!Empty
<1>3. ASSUME p \notin Live PROVE View(p) = Memory!Empty
  <2>1. View(p) = [x \in {} |-> Content(p, x)]
        BY <1>3, HasPages, ViewIs
  <2>. QED BY <2>1 DEF Memory!Empty
<1>. QED BY <1>1, <1>2, <1>3, HasPages

\* The step of one process is one of ProgramMemory.
LEMMA StepOf ==
    ASSUME NEW p \in Proc,
           a3' \in [Proc -> Nat], a3 \in [Proc -> Nat],
           \A q \in Proc \ {p} : View(q)' = View(q) /\ a3'[q] = a3[q],
           \/ a3'[p] = a3[p] /\ View(p)' = View(p)
           \/ /\ a3'[p] = a3[p]
              /\ \/ Memory!Begin(View(p), View(p)')
                 \/ Memory!Store(View(p), View(p)')
                 \/ Memory!Miss(View(p), View(p)')
           \/ Memory!Extend(View(p), View(p)', a3'[p])
           \/ View(p)' = View(p) /\ a3'[p] = 0
           \/ Memory!Finish(View(p)') /\ a3'[p] = 0
    PROVE  [Memory!MNext]_(Memory!mvars)
<1>. DEFINE M == [q \in Proc |-> View(q)]
            N == [q \in Proc |-> View(q)']
<1>1. /\ M[p] = View(p) /\ N[p] = View(p)'
      /\ \A q \in Proc \ {p} : N[q] = M[q] /\ a3'[q] = a3[q]
      OBVIOUS
<1>2. CASE a3'[p] = a3[p] /\ View(p)' = View(p)
  <2>1. M = N /\ a3' = a3
        BY <1>2
  <2>. QED BY <2>1 DEF Memory!mvars
<1>3. CASE ~(a3'[p] = a3[p] /\ View(p)' = View(p))
  <2>. HIDE DEF M, N
  <2>1. \/ /\ M[p] # N[p] /\ a3'[p] = a3[p]
           /\ Memory!Begin(M[p], N[p]) \/ Memory!Store(M[p], N[p]) \/ Memory!Miss(M[p], N[p])
        \/ Memory!Extend(M[p], N[p], a3'[p])
        \/ N[p] = M[p] /\ a3'[p] = 0
        \/ Memory!Finish(N[p]) /\ a3'[p] = 0
        BY <1>1, <1>3
  <2>2. Memory!MNext
        BY <1>1, <2>1 DEF Memory!MNext, M, N
  <2>. QED BY <2>2
<1>. QED BY <1>2, <1>3
LEMMA SameView ==
    ASSUME NEW q \in Proc, vmas'[q] = vmas[q],
           \A x \in Vpns(q) : Content(q, x)' = Content(q, x)
    PROVE  View(q)' = View(q)
<1>1. Vpns(q)' = Vpns(q)
      BY DEF Vpns
<1>2. [x \in Vpns(q) |-> Content(q, x)'] = [x \in Vpns(q) |-> Content(q, x)]
      OBVIOUS
<1>. QED BY <1>1, <1>2, ViewIs, ViewIsNext

\* The tables stay.
LEMMA SameMapping ==
    ASSUME pte' = pte, NEW q, satp'[q] = satp[q], elf'[q] = elf[q], NEW x
    PROVE  /\ Mapped(q, x)' <=> Mapped(q, x)
           /\ FrameOf(q, x)' = FrameOf(q, x)
           /\ data' = data => Content(q, x)' = Content(q, x)
<1>1. Leaves(satp[q], x)' = Leaves(satp[q], x)
      BY DEF Leaves
<1>2. (Mapped(q, x)' <=> Mapped(q, x)) /\ FrameOf(q, x)' = FrameOf(q, x)
      BY <1>1 DEF Mapped, FrameOf
<1>3. ASSUME data' = data PROVE Content(q, x)' = Content(q, x)
      BY <1>2, <1>3 DEF Content, FirstPage, File
<1>. QED BY <1>2, <1>3

\* A leaf stays.
LEMMA SameFrame ==
    ASSUME RInv, RInv', NEW q \in Live, q \in Live', satp'[q] = satp[q],
           NEW x \in Nat, NEW e \in Leaves(satp[q], x), e \in pte',
           Pte(satp[q], SlotOf(x), e.at, 2) \in pte'
    PROVE  /\ Mapped(q, x) /\ Mapped(q, x)' /\ FrameOf(q, x)' = FrameOf(q, x)
           /\ FrameOf(q, x) \in Held(e)
           /\ FrameOf(q, x) \in DOMAIN data \ free
<1>1. Translation /\ Translation'
      BY Translated, TranslatedNext
<1>2. e \in Leaves(satp[q], x)'
      BY DEF Leaves, SlotOf, Size, Pte
<1>3. e \in Leaves(satp[q], x) /\ e \in Leaves(satp[q], x)'
      BY <1>2
<1>4. Mapped(q, x) /\ Mapped(q, x)'
      BY <1>3 DEF Mapped
<1>5. /\ FrameOf(q, x) = e.ppn + (x % SlotPages) - e.idx
      /\ FrameOf(q, x) \in Held(e) /\ FrameOf(q, x) \in DOMAIN data
      /\ e \in pte /\ ~KernelPte(e)
      BY <1>1 DEF Translation
<1>6. FrameOf(q, x)' = e.ppn + (x % SlotPages) - e.idx
      BY <1>1, <1>3 DEF Translation
<1>7. FrameOf(q, x) \notin free
      BY <1>5 DEF RInv, AInv, IInv, HeldPrivately
<1>. QED BY <1>4, <1>5, <1>6, <1>7

LEMMA AllSame ==
    ASSUME \A q \in Proc : View(q)' = View(q), a3' = a3
    PROVE  [Memory!MNext]_(Memory!mvars)
<1>1. [q \in Proc |-> View(q)'] = [q \in Proc |-> View(q)]
      OBVIOUS
<1>. QED BY <1>1 DEF Memory!mvars

\* Nothing is seen of a start that fails and of a fault that is not served.
LEMMA FailuresUnseen ==
    ASSUME RInv,
           \/ \E p \in Proc : StartFails(p)
           \/ \E p \in Proc, a \in Touched : FaultFails(p, a)
           \/ UNCHANGED vars
    PROVE  [Memory!MNext]_(Memory!mvars)
<1>0. IInv
      BY DEF RInv, AInv
<1>1. UNCHANGED <<status, elf, vmas, a3, pte, data>>
      BY DEF StartFails, FaultFails, vars
<1>2. \A q \in Live : satp'[q] = satp[q]
  <2>1. CASE \E p \in Proc : StartFails(p)
    <3>1. PICK p \in Proc : StartFails(p)
          BY <2>1
    <3>2. /\ status[p] = "free"
          /\ satp' = [satp EXCEPT ![p] = IF free = {} THEN @ ELSE Least(free)]
          BY <3>1 DEF StartFails
    <3>3. \A q \in Live : q \in Proc \ {p}
          BY <3>2 DEF Live
    <3>. QED BY <1>0, <3>2, <3>3 DEF IInv, TypeOK
  <2>2. CASE ~(\E p \in Proc : StartFails(p))
    <3>1. satp' = satp
          BY <2>2 DEF FaultFails, vars
    <3>. QED BY <3>1
  <2>. QED BY <2>1, <2>2
<1>3. ASSUME NEW q \in Proc PROVE View(q)' = View(q)
  <2>1. CASE q \in Live
    <3>1. \A x \in Vpns(q) : Content(q, x)' = Content(q, x)
          BY <1>1, <1>2, <2>1, SameMapping
    <3>. QED BY <1>1, <3>1, SameView
  <2>2. CASE q \notin Live
    <3>1. Vpns(q) = {}
          BY <2>2, HasPages
    <3>. QED BY <1>1, <3>1, SameView
  <2>. QED BY <2>1, <2>2
<1>. QED BY <1>1, <1>3, AllSame

LEMMA RefusalSeen ==
    ASSUME RInv, RInv', NEW p \in Proc, MmapFails(p)
    PROVE  [Memory!MNext]_(Memory!mvars)
<1>1. /\ a3' = [a3 EXCEPT ![p] = 0]
      /\ UNCHANGED <<on, status, satp, elf, vmas, pte, data, free>>
      BY DEF MmapFails
<1>2. a3 \in [Proc -> Nat] /\ a3' \in [Proc -> Nat]
      BY DEF RInv, AInv, IInv, TypeOK
<1>3. ASSUME NEW q \in Proc PROVE View(q)' = View(q)
  <2>1. \A x \in Vpns(q) : Content(q, x)' = Content(q, x)
        BY <1>1, SameMapping
  <2>. QED BY <1>1, <2>1, SameView
<1>4. a3'[p] = 0 /\ \A q \in Proc \ {p} : a3'[q] = a3[q]
      BY <1>1, <1>2
<1>. QED BY <1>2, <1>3, <1>4, StepOf

\* What a program writes is in one page of it, and in no page of another.
LEMMA StoreSeen ==
    ASSUME RInv, RInv', NEW p \in Proc, NEW a \in Nat, UserStore(p, a)
    PROVE  [Memory!MNext]_(Memory!mvars)
<1>. DEFINE y == a \div PageSize
            k == a % PageSize
            F == FrameOf(p, y)
<1>1. /\ p \in Live /\ Mapped(p, y)
      /\ data' = [data EXCEPT ![F][k] = Written]
      /\ UNCHANGED <<on, status, satp, elf, vmas, a3, pte, free>>
      BY DEF UserStore, Live
<1>2. y \in Nat /\ k \in 0..PageSize-1
  <2>1. y \in Nat /\ k \in Nat /\ k < PageSize
        BY Constants, Division
  <2>. HIDE DEF y, k
  <2>. QED BY <2>1, Constants
<1>. HIDE DEF y, k
<1>3. Translation
      BY Translated
<1>4. F \in DOMAIN data
      BY <1>1, <1>2, <1>3 DEF Translation, Mapped
<1>5. ASSUME NEW q \in Proc, NEW x \in Vpns(q), q # p \/ x # y
      PROVE  Content(q, x)' = Content(q, x)
  <2>1. /\ Mapped(q, x)' <=> Mapped(q, x)
        /\ FrameOf(q, x)' = FrameOf(q, x)
        BY <1>1, SameMapping
  <2>2. CASE Mapped(q, x)
    <3>1. q \in Live
          BY HasPages
    <3>2. x \in Nat
          BY HasPages
    <3>3. FrameOf(q, x) # F
          BY <1>1, <1>2, <1>5, <2>2, <3>1, <3>2, FramesDiffer
    <3>4. data'[FrameOf(q, x)] = data[FrameOf(q, x)]
      <4>1. FrameOf(q, x) \in DOMAIN data
            BY <1>3, <2>2, <3>1, <3>2 DEF Translation, Mapped
      <4>. QED BY <1>1, <3>3, <4>1
    <3>. QED BY <2>1, <2>2, <3>4 DEF Content
  <2>3. CASE ~Mapped(q, x)
        BY <1>1, <2>1, <2>3 DEF Content, FirstPage, File
  <2>. QED BY <2>2, <2>3
<1>6. \A q \in Proc \ {p} : View(q)' = View(q)
      BY <1>1, <1>5, SameView
<1>7. Content(p, y) = data[F] /\ Content(p, y)' = [data[F] EXCEPT ![k] = Written]
  <2>1. Mapped(p, y)' /\ FrameOf(p, y)' = F
        BY <1>1, SameMapping
  <2>2. data'[F] = [data[F] EXCEPT ![k] = Written]
        BY <1>1, <1>4
  <2>. QED BY <1>1, <2>1, <2>2 DEF Content
<1>8. y \in Vpns(p)
      BY <1>1, <1>2, HasPages
<1>9. View(p)' = [View(p) EXCEPT ![y][k] = Written]
  <2>1. Vpns(p)' = Vpns(p)
        BY <1>1 DEF Vpns
  <2>2. \A x \in Vpns(p) : x # y => Content(p, x)' = Content(p, x)
        BY <1>5
  <2>3. [x \in Vpns(p) |-> Content(p, x)'] =
            [[x \in Vpns(p) |-> Content(p, x)] EXCEPT ![y] = Content(p, y)']
        BY <1>8, <2>2
  <2>4. [View(p) EXCEPT ![y] = [View(p)[y] EXCEPT ![k] = Written]] = View(p)'
        BY <1>7, <1>8, <2>1, <2>3, ViewIs, ViewIsNext
  <2>. QED BY <2>4
<1>10. Memory!Store(View(p), View(p)')
  <2>1. y \in DOMAIN View(p)
        BY <1>8, ViewIs
  <2>. QED BY <1>2, <1>9, <2>1 DEF Memory!Store
<1>11. a3' \in [Proc -> Nat] /\ a3 \in [Proc -> Nat]
       BY DEF RInv, AInv, IInv, TypeOK
<1>. QED BY <1>1, <1>6, <1>10, <1>11, StepOf
\* The last page of the text is the one that the file ends in.
LEMMA TextEnds ==
    ASSUME NEW app \in App
    PROVE  /\ app.load \in Nat /\ app.size \in Nat \ {0} /\ TextPages(app) \in Nat \ {0}
           /\ app.size \div PageSize \in Nat /\ app.size % PageSize \in Nat
           /\ app.size = (app.size \div PageSize) * PageSize + (app.size % PageSize)
           /\ app.size <= TextPages(app) * PageSize
           /\ app.size = TextPages(app) * PageSize => app.size % PageSize = 0
<1>. DEFINE s == app.size
            m == s \div PageSize
            r == s % PageSize
<1>1. app.load \in Nat /\ s \in Nat \ {0} /\ TextPages(app) \in Nat \ {0}
      BY Programs, UserMemoryAssumption
<1>2. m \in Nat /\ r \in Nat /\ s = m * PageSize + r /\ r < PageSize /\ PageSize \in Nat \ {0}
      BY <1>1, Constants, Division
<1>3. TextPages(app) = m + (IF r # 0 THEN 1 ELSE 0)
      BY DEF TextPages
<1>. HIDE DEF m, r, s
<1>4. CASE r = 0
  <2>1. TextPages(app) * PageSize = s
        BY <1>2, <1>3, <1>4
  <2>. QED BY <1>1, <1>2, <1>4, <2>1 DEF m, r, s
<1>5. CASE r # 0
  <2>1. TextPages(app) * PageSize = m * PageSize + PageSize
        BY <1>2, <1>3, <1>5
  <2>2. s < TextPages(app) * PageSize
        BY <1>1, <1>2, <2>1
  <2>. QED BY <1>1, <1>2, <2>2 DEF m, r, s
<1>. QED BY <1>4, <1>5

\* Behind it there are zeros.
LEMMA NoText ==
    ASSUME NEW app \in App, NEW x \in Nat, app.load + TextPages(app) <= x
    PROVE  FirstPage(app, x) = [k \in 0..PageSize-1 |-> Zero]
<1>1. ASSUME NEW k \in 0..PageSize-1
      PROVE  (x - app.load) * PageSize + k \notin 0..app.size-1
  <2>1. /\ app.load \in Nat /\ app.size \in Nat /\ TextPages(app) \in Nat
        /\ app.size <= TextPages(app) * PageSize /\ PageSize \in Nat
        BY TextEnds, Constants
  <2>2. TextPages(app) * PageSize <= (x - app.load) * PageSize
        BY <2>1, Products
  <2>3. (x - app.load) * PageSize \in Int /\ TextPages(app) * PageSize \in Int
        BY <2>1
  <2>. QED BY <2>1, <2>2, <2>3
<1>. QED BY <1>1 DEF FirstPage

\* mmap gives zeros.
LEMMA MmapSeen ==
    ASSUME RInv, RInv', NEW p \in Proc, NEW n \in Requests, scall_handler_mmap(p, n)
    PROVE  [Memory!MNext]_(Memory!mvars)
<1>0. IInv
      BY DEF RInv, AInv
<1>. DEFINE s == get_free_vpn(p)
            v == Vma(s, n)
            V == [vpn : Nat, pagen : Nat]
            zeros == [k \in 0..PageSize-1 |-> Zero]
<1>1. /\ p \in Live /\ Len(vmas[p]) < MaxVmas
      /\ vmas' = [vmas EXCEPT ![p] = Append(vmas[p], v)]
      /\ a3' = [a3 EXCEPT ![p] = s]
      /\ UNCHANGED <<on, status, satp, elf, pte, data>>
      BY DEF scall_handler_mmap, Live
<1>2. a3 \in [Proc -> Nat] /\ a3' \in [Proc -> Nat] /\ vmas \in [Proc -> Seq(V)]
      BY DEF RInv, AInv, IInv, TypeOK
<1>3. /\ a3'[p] = s /\ vmas'[p] = Append(vmas[p], v)
      /\ \A q \in Proc \ {p} : a3'[q] = a3[q] /\ vmas'[q] = vmas[q]
      BY <1>1, <1>2
<1>4. \A q, x : Content(q, x)' = Content(q, x)
      BY <1>1, SameMapping
<1>5. \A q \in Proc \ {p} : View(q)' = View(q)
      BY <1>3, <1>4, SameView
<1>6. s \in Nat /\ n \in Nat /\ HeapBase <= s
      BY <1>0, <1>1, NewVpn
<1>. HIDE DEF s
<1>7. v \in V /\ Pages(v) = s .. s+n-1
      BY <1>6 DEF Vma, Pages
<1>. HIDE DEF v, V
<1>8. Range(Append(vmas[p], v)) = Range(vmas[p]) \cup {v}
  <2>. DEFINE t == Append(vmas[p], v)
  <2>1. vmas[p] \in Seq(V) /\ Len(vmas[p]) \in Nat /\ DOMAIN vmas[p] = 1..Len(vmas[p])
        BY <1>2
  <2>2. /\ DOMAIN t = 1..Len(vmas[p])+1 /\ t[Len(vmas[p])+1] = v
        /\ \A i \in 1..Len(vmas[p]) : t[i] = vmas[p][i]
        BY <1>7, <2>1
  <2>. HIDE DEF t
  <2>3. DOMAIN t = DOMAIN vmas[p] \cup {Len(vmas[p])+1}
        BY <2>1, <2>2
  <2>4. \A i \in DOMAIN vmas[p] : t[i] = vmas[p][i]
        BY <2>1, <2>2
  <2>5. Range(t) = Range(vmas[p]) \cup {v}
        BY <2>2, <2>3, <2>4 DEF Range
  <2>. QED BY <2>5 DEF t
<1>9. Vpns(p)' = Vpns(p) \cup (s .. s+n-1)
      BY <1>3, <1>7, <1>8 DEF Vpns
<1>10. (s .. s+n-1) \cap Vpns(p) = {}
  <2>. SUFFICES ASSUME NEW w \in Range(vmas[p]) PROVE Pages(v) \cap Pages(w) = {}
       BY <1>7 DEF Vpns
  <2>1. PICK i \in DOMAIN vmas[p] : w = vmas[p][i]
        BY DEF Range
  <2>2. vmas[p] \in Seq(V) /\ Len(vmas[p]) \in Nat
        BY <1>2
  <2>3. /\ Append(vmas[p], v)[i] = w /\ Append(vmas[p], v)[Len(vmas[p]) + 1] = v
        /\ i \in DOMAIN Append(vmas[p], v) /\ Len(vmas[p]) + 1 \in DOMAIN Append(vmas[p], v)
        /\ i # Len(vmas[p]) + 1
        BY <1>7, <2>1, <2>2
  <2>. QED BY <1>3, <2>3 DEF RInv, AInv, VmasApart
<1>11. ASSUME NEW x \in s .. s+n-1 PROVE Content(p, x) = zeros
  <2>1. x \in Nat /\ HeapBase <= x
        BY <1>6, Constants
  <2>2. ~Mapped(p, x)
        BY <1>1, <1>10, <2>1, HasPages
  <2>3. elf[p] \in App
        BY <1>1 DEF RInv, TextFirst
  <2>4. elf[p].load + TextPages(elf[p]) <= x
    <3>1. elf[p].load + TextPages(elf[p]) <= HeapBase
          BY <1>0, <2>3 DEF IInv, Fit
    <3>. QED BY <2>1, <2>3, <3>1, TextEnds, Constants
  <2>5. FirstPage(elf[p], x) = zeros
        BY <2>1, <2>3, <2>4, NoText
  <2>. QED BY <2>2, <2>5 DEF Content
<1>. HIDE DEF zeros
<1>12. View(p)' = [x \in DOMAIN View(p) \cup (s .. s+n-1) |->
                     IF x \in s .. s+n-1 THEN zeros ELSE View(p)[x]]
  <2>1. View(p)' = [x \in Vpns(p) \cup (s .. s+n-1) |-> Content(p, x)]
        BY <1>4, <1>9, ViewIsNext
  <2>2. View(p) = [x \in Vpns(p) |-> Content(p, x)] /\ DOMAIN View(p) = Vpns(p)
        BY ViewIs
  <2>3. \A x \in Vpns(p) \cup (s .. s+n-1) :
            Content(p, x) = IF x \in s .. s+n-1 THEN zeros ELSE View(p)[x]
        BY <1>11, <2>2
  <2>. QED BY <2>1, <2>2, <2>3
<1>13. Memory!Extend(View(p), View(p)', a3'[p])
  <2>1. View(p) # Memory!Empty
        BY <1>1, EmptyViews
  <2>2. DOMAIN View(p) = Vpns(p)
        BY ViewIs
  <2>3. View(p)' = [x \in DOMAIN View(p) \cup (s .. s+n-1) |->
                      IF x \in s .. s+n-1 THEN [k \in 0..PageSize-1 |-> Zero]
                                          ELSE View(p)[x]]
        BY <1>12 DEF zeros
  <2>4. (s .. s+n-1) \cap DOMAIN View(p) = {} /\ a3'[p] = s
        BY <1>3, <1>10, <2>2
  <2>. DEFINE Q(k) ==
                /\ (s .. s+k-1) \cap DOMAIN View(p) = {}
                /\ View(p)' = [x \in DOMAIN View(p) \cup (s .. s+k-1) |->
                                IF x \in s .. s+k-1
                                THEN [i \in 0..PageSize-1 |-> Zero] ELSE View(p)[x]]
  <2>5. \E k \in Requests : Q(k)
    <3>1. Q(n)
          BY <2>3, <2>4
    <3>. HIDE DEF Q
    <3>. QED BY <3>1
  <2>6. (\E k \in Requests : Q(k)) => Memory!Extend(View(p), View(p)', s)
        BY <2>1, Zenon DEF Memory!Extend
  <2>. HIDE DEF Q
  <2>. QED BY <2>4, <2>5, <2>6
<1>14. \A q \in Proc \ {p} : View(q)' = View(q) /\ a3'[q] = a3[q]
      BY <1>3, <1>5
<1>. QED BY <1>2, <1>13, <1>14, StepOf

\* Exactly the live processes have memory.
EmptyView == \A p \in Proc : View(p) = Memory!Empty <=> p \notin Live

LEMMA EmptyIs == RInv => EmptyView
BY EmptyViews DEF EmptyView

LEMMA EmptyIsNext == RInv' => EmptyView'
BY EmptyIs, PTL

\* A program starts with its image.
LEMMA StartSeen ==
    ASSUME RInv, RInv', NEW p \in Proc, NEW app \in App, Start(p, app)
    PROVE  [Memory!MNext]_(Memory!mvars)
<1>0. IInv /\ IInv'
      BY DEF RInv, AInv
<1>. DEFINE root == Least(free)
<1>1. /\ status[p] = "free" /\ status' = [status EXCEPT ![p] = "live"]
      /\ satp' = [satp EXCEPT ![p] = root]
      /\ pte \subseteq pte'
      /\ vmas' = [vmas EXCEPT ![p] = FirstVmas(app)]
      /\ elf' = [elf EXCEPT ![p] = app]
      /\ data' = data /\ a3' = a3
      BY DEF Start
<1>2. /\ root \in free
      /\ \A e \in pte' \ pte : e.at = root /\ e.level = 2 /\ e.ppn \in KernelTables
      BY <1>0, StartEntries
<1>. HIDE DEF root
<1>3. /\ status \in [Proc -> {"free", "live"}] /\ satp \in [Proc -> Frame \cup {0}]
      /\ elf \in [Proc -> App \cup {NoApp}]
      /\ vmas \in [Proc -> Seq([vpn : Nat, pagen : Nat])]
      /\ a3 \in [Proc -> Nat] /\ a3' \in [Proc -> Nat]
      BY <1>0 DEF IInv, TypeOK
<1>4. Live' = Live \cup {p} /\ p \notin Live
      BY <1>1, <1>3 DEF Live
<1>5. \A q \in Proc \ {p} : elf'[q] = elf[q] /\ vmas'[q] = vmas[q] /\ satp'[q] = satp[q]
      BY <1>1, <1>3
<1>6. elf'[p] = app /\ vmas'[p] = FirstVmas(app) /\ satp'[p] = root
      BY <1>1, <1>3
<1>7. \A q \in Live, e \in pte' : e.at = satp[q] => e \in pte
      BY <1>0, <1>2 DEF IInv, RootsApart
<1>8. ASSUME NEW x \in Nat PROVE ~Mapped(p, x)'
  <2>. SUFFICES ASSUME NEW e \in Leaves(satp[p], x)' PROVE FALSE
       BY DEF Mapped
  <2>1. e \in pte' /\ e.level < 2 /\ Pte(satp'[p], SlotOf(x), e.at, 2) \in pte'
        BY DEF Leaves, SlotOf, Pte
  <2>2. e \in pte /\ e.at \notin KernelTables
        BY <1>0, <1>2, <2>1, LeafPlace
  <2>. DEFINE t == Pte(satp'[p], SlotOf(x), e.at, 2)
  <2>3. t \in pte' /\ t.at = root /\ t.ppn = e.at
        BY <1>6, <2>1, Fields
  <2>. HIDE DEF t
  <2>4. t \in pte
        BY <1>2, <2>2, <2>3
  <2>. QED BY <1>0, <1>2, <2>3, <2>4, KindOf
<1>9. ASSUME NEW q \in Live, NEW x \in Nat PROVE Content(q, x)' = Content(q, x)
  <2>1. q \in Proc \ {p} /\ q \in Live'
        BY <1>4 DEF Live
  <2>2. CASE Mapped(q, x)
    <3>1. PICK e \in Leaves(satp[q], x) : TRUE
          BY <2>2 DEF Mapped
    <3>2. e \in pte' /\ Pte(satp[q], SlotOf(x), e.at, 2) \in pte'
          BY <1>1 DEF Leaves
    <3>3. Mapped(q, x)' /\ FrameOf(q, x)' = FrameOf(q, x)
          BY <1>5, <2>1, <3>2, SameFrame
    <3>. QED BY <1>1, <2>2, <3>3 DEF Content
  <2>3. CASE ~Mapped(q, x)
    <3>1. ~Mapped(q, x)'
      <4>. SUFFICES ASSUME NEW e \in Leaves(satp[q], x)' PROVE FALSE
           BY DEF Mapped
      <4>1. /\ e \in pte' /\ e.level < 2 /\ Pte(satp[q], SlotOf(x), e.at, 2) \in pte'
            /\ x % SlotPages \in e.idx .. e.idx + Size(e.level) - 1
            BY <1>5, <2>1 DEF Leaves, SlotOf, Pte, Size
      <4>2. e \in pte
            BY <1>2, <4>1
      <4>3. Pte(satp[q], SlotOf(x), e.at, 2) \in pte
            BY <1>7, <4>1, Fields
      <4>4. e \in Leaves(satp[q], x)
            BY <4>1, <4>2, <4>3 DEF Leaves
      <4>. QED BY <2>3, <4>4 DEF Mapped
    <3>. QED BY <1>5, <2>1, <2>3, <3>1 DEF Content, FirstPage, File
  <2>. QED BY <2>2, <2>3
<1>10. ASSUME NEW q \in Proc \ {p} PROVE View(q)' = View(q)
  <2>1. Vpns(q) \subseteq Nat /\ (q \notin Live => Vpns(q) = {})
        BY HasPages
  <2>2. \A x \in Vpns(q) : Content(q, x)' = Content(q, x)
        BY <1>9, <2>1
  <2>. QED BY <1>5, <2>2, SameView
<1>11. View(p)' = StartImage(app)
  <2>. DEFINE S == UNION {Pages(v) : v \in Range(FirstVmas(app))}
  <2>1. Vpns(p)' = S
        BY <1>6 DEF Vpns
  <2>2. S \subseteq Nat
    <3>. SUFFICES ASSUME NEW v \in Range(FirstVmas(app)), NEW x \in Pages(v) PROVE x \in Nat
         OBVIOUS
    <3>1. v = Vma(app.load, TextPages(app)) \/ v = Vma(StackBase, StackPages)
          BY DEF FirstVmas, Range
    <3>2. v.vpn \in Nat /\ v.pagen \in Nat
          BY <3>1, Programs, Constants DEF Vma
    <3>. QED BY <3>2 DEF Pages
  <2>. HIDE DEF S
  <2>3. \A x \in S : Content(p, x)' = FirstPage(app, x)
        BY <1>6, <1>8, <2>2 DEF Content, FirstPage, File
  <2>4. View(p)' = [x \in S |-> FirstPage(app, x)]
        BY <2>1, <2>3, ViewIsNext
  <2>. QED BY <2>4 DEF StartImage, S
<1>12. Memory!Begin(View(p), View(p)')
       BY <1>4, <1>11, EmptyViews DEF Memory!Begin
<1>. QED BY <1>1, <1>3, <1>10, <1>12, StepOf

\* Nothing is left of a process that has ended, and the others keep what they
\* have.
LEMMA KillSeen ==
    ASSUME RInv, RInv', NEW p \in Proc, proc_kill_process(p)
    PROVE  [Memory!MNext]_(Memory!mvars)
<1>0. IInv
      BY DEF RInv, AInv
<1>. DEFINE P == Live \ {p}
<1>1. /\ status' = [status EXCEPT ![p] = "free"] /\ satp' = [satp EXCEPT ![p] = 0]
      /\ pte' = {e \in pte : e.at \in Tables(P)}
      /\ vmas' = [vmas EXCEPT ![p] = <<>>] /\ elf' = [elf EXCEPT ![p] = NoApp]
      /\ data' = Restrict(data, DataFrames(P))
      /\ a3' = [a3 EXCEPT ![p] = 0]
      BY DEF proc_kill_process
<1>2. /\ status \in [Proc -> {"free", "live"}] /\ satp \in [Proc -> Frame \cup {0}]
      /\ elf \in [Proc -> App \cup {NoApp}]
      /\ vmas \in [Proc -> Seq([vpn : Nat, pagen : Nat])]
      /\ a3 \in [Proc -> Nat] /\ a3' \in [Proc -> Nat]
      BY <1>0, <1>1 DEF IInv, TypeOK
<1>3. Live' = P
      BY <1>1, <1>2 DEF Live
<1>4. /\ \A q \in Proc \ {p} : /\ elf'[q] = elf[q] /\ vmas'[q] = vmas[q]
                               /\ satp'[q] = satp[q] /\ a3'[q] = a3[q]
      /\ a3'[p] = 0
      BY <1>1, <1>2
<1>5. ASSUME NEW q \in P, NEW x \in Nat PROVE Content(q, x)' = Content(q, x)
  <2>1. q \in Proc \ {p} /\ q \in Live /\ q \in Live'
        BY <1>3 DEF Live
  <2>2. CASE Mapped(q, x)
    <3>1. PICK e \in Leaves(satp[q], x) : TRUE
          BY <2>2 DEF Mapped
    <3>. DEFINE t == Pte(satp[q], SlotOf(x), e.at, 2)
    <3>2. e \in pte /\ e.level < 2 /\ t \in pte /\ t.at = satp[q] /\ t.ppn = e.at
          BY Fields DEF Leaves
    <3>. HIDE DEF t
    <3>3. t.at \in Roots(P) /\ t.at \in Tables(P) /\ e.at \in Tables(P)
          BY <3>2 DEF Tables, Roots
    <3>4. e \in pte' /\ t \in pte'
          BY <1>1, <3>2, <3>3
    <3>5. /\ Mapped(q, x)' /\ FrameOf(q, x)' = FrameOf(q, x)
          /\ FrameOf(q, x) \in Held(e)
          BY <1>4, <2>1, <3>4, SameFrame DEF t
    <3>6. FrameOf(q, x) \in DataFrames(P)
      <4>1. e.level # 2
            BY <1>0, <3>2, EntryTypes
      <4>. QED BY <3>2, <3>3, <3>5, <4>1 DEF DataFrames, Held
    <3>7. data'[FrameOf(q, x)] = data[FrameOf(q, x)]
          BY <1>1, <3>6 DEF Restrict
    <3>. QED BY <2>2, <3>5, <3>7 DEF Content
  <2>3. CASE ~Mapped(q, x)
    <3>1. ~Mapped(q, x)'
      <4>. SUFFICES ASSUME NEW e \in Leaves(satp[q], x)' PROVE FALSE
           BY DEF Mapped
      <4>1. /\ e \in pte' /\ e.level < 2 /\ Pte(satp[q], SlotOf(x), e.at, 2) \in pte'
            /\ x % SlotPages \in e.idx .. e.idx + Size(e.level) - 1
            BY <1>4, <2>1 DEF Leaves, SlotOf, Pte, Size
      <4>2. e \in Leaves(satp[q], x)
            BY <1>1, <4>1 DEF Leaves
      <4>. QED BY <2>3, <4>2 DEF Mapped
    <3>. QED BY <1>4, <2>1, <2>3, <3>1 DEF Content, FirstPage, File
  <2>. QED BY <2>2, <2>3
<1>6. ASSUME NEW q \in Proc \ {p} PROVE View(q)' = View(q)
  <2>1. Vpns(q) \subseteq Nat /\ (q \notin Live => Vpns(q) = {})
        BY HasPages
  <2>2. \A x \in Vpns(q) : Content(q, x)' = Content(q, x)
        BY <1>5, <2>1
  <2>. QED BY <1>4, <2>2, SameView
<1>7. Memory!Finish(View(p)')
      BY <1>3, EmptyIsNext DEF EmptyView, Memory!Finish, Memory!Empty
<1>8. \A q \in Proc \ {p} : View(q)' = View(q) /\ a3'[q] = a3[q]
      BY <1>4, <1>6
<1>9. a3'[p] = 0 /\ a3 \in [Proc -> Nat] /\ a3' \in [Proc -> Nat]
      BY <1>2, <1>4
<1>. QED BY <1>7, <1>8, <1>9, StepOf

\* What a fault leaves in memory.
Zeros == [k \in 0..PageSize-1 |-> Zero]

Copied(app, index) ==
    [k \in 0..PageSize-1 |->
        IF k < BytesToCopy(app, index) THEN File(app, index * PageSize + k) ELSE Zero]

Filled(p, a, l, f) ==
    /\ \A g \in DOMAIN data \ (f .. f + Size(l) - 1) : data'[g] = data[g]
    /\ \A g \in f .. f + Size(l) - 1 :
          data'[g] = IF InText(p, a) /\ g = f
                     THEN Copied(elf[p], (a - elf[p].load * PageSize) \div PageSize)
                     ELSE Zeros

LEMMA FaultData ==
    ASSUME IInv, NEW p \in Live, NEW a \in Nat, NEW v \in Range(vmas[p]),
           NEW l \in {0, 1}, NEW f \in Frame, NEW t \in Frame,
           NewPage(p, a, v, l, f, t)
    PROVE  Filled(p, a, l, f)
<1>. DEFINE B == f .. f + Size(l) - 1
            zeros == With(data, Zeroed(f, l))
            index == (a - elf[p].load * PageSize) \div PageSize
<1>1. f \in B
  <2>1. f \in Nat
    <3>1. Frame \subseteq Nat
          BY ONLY Constants
    <3>. QED BY <3>1
  <2>. QED BY <2>1, Constants
<1>2. data' = IF InText(p, a) THEN TextCopied(elf[p], a, f, zeros) ELSE zeros
      BY DEF NewPage
<1>3. /\ DOMAIN zeros = DOMAIN data \cup B
      /\ \A g \in DOMAIN data \ B : zeros[g] = data[g]
      /\ \A g \in B : zeros[g] = Zeros
      BY DEF With, Zeroed, Zeros
<1>. HIDE DEF zeros, B
<1>4. TextCopied(elf[p], a, f, zeros) = [zeros EXCEPT ![f] = Copied(elf[p], index)]
  <2>1. zeros[f] = Zeros
        BY <1>1, <1>3
  <2>2. \A k \in 0..PageSize-1 : zeros[f][k] = Zero
        BY <2>1 DEF Zeros
  <2>3. [k \in 0..PageSize-1 |->
            IF k < BytesToCopy(elf[p], index)
            THEN File(elf[p], index * PageSize + k) ELSE zeros[f][k]] = Copied(elf[p], index)
        BY <2>2 DEF Copied
  <2>. HIDE DEF index
  <2>. QED BY <2>3 DEF TextCopied, index
<1>. HIDE DEF index
<1>5. \A g \in DOMAIN data \ B : data'[g] = data[g]
      BY <1>1, <1>2, <1>3, <1>4
<1>6. \A g \in B : data'[g] = IF InText(p, a) /\ g = f THEN Copied(elf[p], index) ELSE Zeros
      BY <1>1, <1>2, <1>3, <1>4
<1>. QED BY <1>5, <1>6 DEF B, index, Filled

\* The page of the file that an address is in.
LEMMA FileIndex ==
    ASSUME NEW a \in Nat, NEW load \in Nat
    PROVE  /\ a \div PageSize \in Nat /\ PageSize \in Nat \ {0}
           /\ a \div PageSize >= load <=> a >= load * PageSize
           /\ (a \div PageSize - load) * PageSize <= a - load * PageSize
           /\ a - load * PageSize <= (a \div PageSize - load) * PageSize + PageSize - 1
           /\ a >= load * PageSize =>
                 (a - load * PageSize) \div PageSize = a \div PageSize - load
<1>. DEFINE P == PageSize
            x == a \div P
            r == a % P
<1>1. P \in Nat \ {0} /\ x \in Nat /\ r \in Nat /\ r < P /\ a = x * P + r
      BY Constants, Division
<1>. HIDE DEF P, x, r
<1>2. (x - load) * P = x * P - load * P /\ x * P \in Int /\ load * P \in Int
      BY <1>1
<1>3. (x - load) * P <= a - load * P /\ a - load * P <= (x - load) * P + P - 1
      BY <1>1, <1>2
<1>4. ASSUME x >= load PROVE a >= load * P
  <2>1. load * P <= x * P
        BY <1>1, <1>4, Products
  <2>. QED BY <1>1, <1>2, <2>1
<1>5. ASSUME a >= load * P PROVE x >= load
  <2>. SUFFICES ASSUME x + 1 <= load PROVE FALSE
       BY <1>1
  <2>1. (x + 1) * P <= load * P
        BY <1>1, Products
  <2>2. (x + 1) * P = x * P + P
        BY <1>1
  <2>. QED BY <1>1, <1>2, <1>5, <2>1, <2>2
<1>6. ASSUME a >= load * P PROVE (a - load * P) \div P = x - load
  <2>1. PICK c \in Nat, d \in Nat : c = a - load * P /\ d = x - load
        BY <1>1, <1>2, <1>5, <1>6
  <2>2. d * P <= c /\ c < d * P + P
        BY <1>1, <1>3, <2>1
  <2>3. c \div P = d
        BY <1>1, <2>1, <2>2
  <2>. QED BY <2>1, <2>3
<1>. QED BY <1>1, <1>3, <1>4, <1>5, <1>6 DEF P, x

\* The page that is filled is what the program expects there, unless it is missed.
Served(p, a, l, y, g) ==
    \/ data'[g] = FirstPage(elf[p], y)
    \/ /\ data'[g] = Zeros /\ y = a \div PageSize /\ l = 0
       /\ y \in Pages(Vma(elf[p].load, TextPages(elf[p])))
       /\ FirstPage(elf[p], y)[PageSize-1] = Zero

LEMMA PageFilled ==
    ASSUME RInv, NEW p \in Live, NEW a \in Nat, NEW v \in Range(vmas[p]),
           NEW l \in {0, 1}, NEW f \in Frame, NEW t \in Frame,
           NewPage(p, a, v, l, f, t),
           NEW y \in Boundary(a \div PageSize, l) .. Boundary(a \div PageSize, l) + Size(l) - 1,
           NEW g \in f .. f + Size(l) - 1, y = Boundary(a \div PageSize, l) <=> g = f
    PROVE  Served(p, a, l, y, g)
<1>0. IInv
      BY DEF RInv, AInv
<1>. DEFINE x == a \div PageSize
            app == elf[p]
            text == Vma(app.load, TextPages(app))
            index == (a - app.load * PageSize) \div PageSize
            d == x - app.load
<1>1. app \in App /\ vmas[p][1] = text /\ p \in Proc
      BY DEF RInv, TextFirst, Live
<1>2. /\ app.load \in Nat /\ app.size \in Nat \ {0} /\ TextPages(app) \in Nat \ {0}
      /\ app.size \div PageSize \in Nat /\ app.size % PageSize \in Nat
      /\ app.size = (app.size \div PageSize) * PageSize + (app.size % PageSize)
      /\ app.size <= TextPages(app) * PageSize
      /\ app.size = TextPages(app) * PageSize => app.size % PageSize = 0
      BY <1>1, TextEnds
<1>3. x \in Pages(v) /\ l \in Fitting(v, x)
      BY DEF NewPage, Possible
<1>4. data'[g] = IF InText(p, a) /\ g = f THEN Copied(app, index) ELSE Zeros
  <2>1. Filled(p, a, l, f)
        BY <1>0, FaultData
  <2>. QED BY <2>1 DEF Filled
<1>5. InText(p, a) <=> a >= app.load * PageSize /\ a <= app.load * PageSize + app.size
      BY DEF InText
<1>6. /\ x \in Nat /\ PageSize \in Nat \ {0}
      /\ x >= app.load <=> a >= app.load * PageSize
      /\ d * PageSize <= a - app.load * PageSize
      /\ a - app.load * PageSize <= d * PageSize + PageSize - 1
      /\ a >= app.load * PageSize => index = d
      BY <1>2, FileIndex
<1>61. \A z \in Pages(text) : Fitting(text, z) \subseteq {0}
       BY <1>1 DEF RInv, Plain
<1>62. text.vpn = app.load /\ text.pagen = TextPages(app)
       BY DEF Vma
<1>. HIDE DEF app, text, index, d, x
<1>63. PICK c \in Nat : c = app.load * PageSize
       BY <1>2, <1>6
<1>64. PICK j \in Int : j = d * PageSize
       BY <1>2, <1>6 DEF d
<1>65. /\ j <= a - c /\ a - c <= j + PageSize - 1
       /\ a >= c => index = d
       /\ InText(p, a) <=> a >= c /\ a <= c + app.size
       BY <1>5, <1>6, <1>63, <1>64
<1>7. CASE v = text
  <2>1. l = 0
        BY <1>3, <1>61, <1>7
  <2>2. y = x /\ g = f
    <3>1. Size(l) = 1 /\ Boundary(x, l) = x
          BY <1>6, <2>1 DEF Size, Boundary
    <3>2. f \in Nat
      <4>1. Frame \subseteq Nat
            BY ONLY Constants
      <4>. QED BY <4>1
    <3>. QED BY <1>6, <3>1, <3>2 DEF x
  <2>3. /\ text.vpn = app.load /\ text.pagen = TextPages(app)
        /\ app.load <= x /\ x <= app.load + TextPages(app) - 1 /\ x \in Pages(text)
    <3>. QED BY <1>2, <1>3, <1>6, <1>7, <1>62 DEF Pages
  <2>4. index = d /\ d \in Nat /\ d <= TextPages(app) - 1 /\ a >= app.load * PageSize
        BY <1>2, <1>6, <2>3 DEF d
  <2>5. CASE InText(p, a)
    <3>1. ASSUME NEW k \in 0..PageSize-1
          PROVE  k < BytesToCopy(app, d) <=> d * PageSize + k \in 0..app.size-1
      <4>. DEFINE m == app.size \div PageSize
                  r == app.size % PageSize
      <4>1. m \in Nat /\ r \in Nat /\ app.size = m * PageSize + r
            BY <1>2
      <4>2. d <= m
            BY <1>2, <2>4 DEF TextPages
      <4>3. BytesToCopy(app, d) = IF d = m THEN r ELSE PageSize
            BY DEF BytesToCopy
      <4>. HIDE DEF m, r
      <4>4. d * PageSize + k \in Nat /\ d * PageSize \in Nat /\ m * PageSize \in Nat
            BY <1>6, <2>4, <4>1
      <4>5. CASE d = m
            BY <1>6, <4>1, <4>3, <4>4, <4>5
      <4>6. CASE d # m
        <5>1. d + 1 <= m
              BY <2>4, <4>1, <4>2, <4>6
        <5>2. (d + 1) * PageSize <= m * PageSize
              BY <1>6, <2>4, <4>1, <5>1, Products
        <5>3. (d + 1) * PageSize = d * PageSize + PageSize
              BY <1>6, <2>4
        <5>4. d * PageSize + k < app.size
              BY <1>6, <4>1, <4>4, <5>2, <5>3
        <5>. QED BY <1>2, <1>6, <4>3, <4>4, <4>6, <5>4
      <4>. QED BY <4>5, <4>6
    <3>2. Copied(app, d) = FirstPage(app, x)
          BY <3>1 DEF Copied, FirstPage, d
    <3>. QED BY <1>4, <2>2, <2>4, <2>5, <3>2 DEF app, x, Served
  <2>6. CASE ~InText(p, a)
    <3>1. app.size < a - c
          BY <1>2, <1>63, <1>65, <2>4, <2>6
    <3>2. j + (PageSize - 1) \notin 0..app.size-1
          BY <1>2, <1>6, <1>65, <3>1
    <3>3. FirstPage(app, x)[PageSize-1] = Zero
      <4>1. PageSize - 1 \in 0..PageSize-1
            BY <1>6
      <4>. QED BY <1>64, <3>2, <4>1 DEF FirstPage, d
    <3>. QED BY <1>4, <2>1, <2>2, <2>3, <2>6, <3>3 DEF x, text, app, Served
  <2>. QED BY <2>5, <2>6
<1>8. CASE v # text
  <2>1. HeapBase <= v.vpn /\ v.vpn \in Nat /\ v.pagen \in Nat
    <3>1. PICK i \in DOMAIN vmas[p] : v = vmas[p][i]
          BY DEF Range
    <3>2. /\ i \in Nat /\ i > 0 /\ v.vpn \in Nat /\ v.pagen \in Nat
          /\ InPlace(v, i)
          BY <1>0, <1>1, <3>1, VmaTypes
    <3>3. i # 1
          BY <1>1, <1>8, <3>1
    <3>4. i = 2 \/ i > 2
          BY <3>2, <3>3
    <3>5. HeapBase <= v.vpn
          BY <3>2, <3>4, Constants DEF InPlace, Vma
    <3>. QED BY <3>2, <3>5
  <2>2. app.load + TextPages(app) <= v.vpn
    <3>1. app.load + TextPages(app) <= HeapBase
          BY <1>0, <1>1 DEF IInv, Fit
    <3>. QED BY <1>2, <2>1, <3>1, Constants
  <2>3. v.vpn <= x /\ v.vpn <= y /\ y \in Nat
    <3>1. v.vpn <= Boundary(x, l) /\ Boundary(x, l) \in Nat /\ Boundary(x, l) <= x
          BY <1>3, <1>6, Boundaries DEF Fitting
    <3>2. y \in Nat /\ Boundary(x, l) <= y
          BY <3>1, Constants DEF x
    <3>. QED BY <1>6, <2>1, <3>1, <3>2
  <2>4. FirstPage(app, y) = Zeros
    <3>1. app.load + TextPages(app) <= y
          BY <1>2, <2>1, <2>2, <2>3
    <3>. QED BY <1>1, <2>3, <3>1, NoText DEF Zeros
  <2>5. ASSUME InText(p, a) PROVE Copied(app, index) = Zeros
    <3>1. a >= c /\ a - c <= app.size /\ index = d
          BY <1>2, <1>65, <2>5
    <3>2. d \in Nat /\ TextPages(app) <= d
          BY <1>2, <1>6, <2>1, <2>2, <2>3 DEF d
    <3>3. PICK z \in Nat : z = TextPages(app) * PageSize
          BY <1>2, <1>6
    <3>4. z <= j
          BY <1>2, <1>6, <1>64, <3>2, <3>3, Products
    <3>5. app.size = j /\ app.size % PageSize = 0
          BY <1>2, <1>65, <3>1, <3>3, <3>4
    <3>6. app.size \div PageSize = d
          BY <1>6, <1>64, <3>2, <3>5
    <3>7. BytesToCopy(app, d) = 0
          BY <3>5, <3>6 DEF BytesToCopy
    <3>8. \A k \in 0..PageSize-1 : ~(k < BytesToCopy(app, d))
          BY <1>6, <3>7
    <3>. QED BY <3>1, <3>8 DEF Copied, Zeros
  <2>. QED BY <1>4, <2>4, <2>5 DEF app, Served
<1>. QED BY <1>7, <1>8

\* A page that is mapped by the fault is one of those around the address.
Around(p, a, l, f, y) ==
    /\ y \in Boundary(a \div PageSize, l) .. Boundary(a \div PageSize, l) + Size(l) - 1
    /\ FrameOf(p, y)' \in f .. f + Size(l) - 1
    /\ y = Boundary(a \div PageSize, l) <=> FrameOf(p, y)' = f

LEMMA NewlyMapped ==
    ASSUME RInv, RInv', NEW p \in Live, NEW a \in Nat, NEW v \in Range(vmas[p]),
           NEW l \in {0, 1}, NEW f \in Frame, NEW t \in Frame,
           NewPage(p, a, v, l, f, t), UNCHANGED <<status, satp>>,
           NEW q \in Live, NEW y \in Nat, ~Mapped(q, y), Mapped(q, y)'
    PROVE  q = p /\ Around(p, a, l, f, y)
<1>0. IInv
      BY DEF RInv, AInv
<1>00. Entered(p, a, l, f, t)
       BY <1>0, NewEntries
<1>. DEFINE x == a \div PageSize
            b == Boundary(x, l)
            table == NewTable(p, a, t)
            leaf == NewLeaf(a, l, f, t)
<1>1. /\ table.at = satp[p] /\ table.idx = SlotOf(x) /\ table.ppn = t
      /\ leaf.at = t /\ leaf.idx = b % SlotPages /\ leaf.ppn = f /\ leaf.level = l
      /\ f \in free
      /\ \A u \in Live : \A e \in pte' : e.at = satp[u] /\ e.ppn = t => e = table /\ u = p
      BY <1>00 DEF Entered
<1>2. pte' = pte \cup {table, leaf} /\ (table \in pte \/ t \in free)
      BY DEF NewPage
<1>3. /\ b \in Nat /\ b % SlotPages \in Nat /\ SlotOf(x) \in Nat /\ x \in Nat
      /\ b = SlotOf(x) * SlotPages + (b % SlotPages)
      /\ Size(l) \in Nat \ {0}
  <2>1. x \in Nat
        BY Constants, Division
  <2>. QED BY <2>1, Boundaries, Constants
<1>. HIDE DEF x, b, table, leaf
<1>4. Live' = Live /\ satp' = satp
      BY DEF Live
<1>5. PICK e \in Leaves(satp[q], y)' : TRUE
      BY DEF Mapped
<1>. DEFINE u == Pte(satp[q], SlotOf(y), e.at, 2)
<1>6. /\ e \in pte' /\ e.level < 2 /\ u \in pte'
      /\ y % SlotPages \in Span(e)
      /\ FrameOf(q, y)' = e.ppn + (y % SlotPages) - e.idx
      /\ FrameOf(q, y)' \in Held(e)
  <2>1. Translation'
        BY TranslatedNext
  <2>2. /\ e \in pte' /\ e.level < 2
        /\ Pte(satp'[q], SlotOf(y), e.at, 2) \in pte'
        /\ y % SlotPages \in Span(e)
        /\ FrameOf(q, y)' = e.ppn + (y % SlotPages) - e.idx
        /\ FrameOf(q, y)' \in Held(e)
        BY <1>4, <2>1 DEF Translation, Span, Held, Pte, SlotOf
  <2>. QED BY <1>4, <2>2
<1>7. u.at = satp[q] /\ u.idx = SlotOf(y) /\ u.ppn = e.at
      BY Fields
<1>8. e \in pte => u \notin pte
  <2>. SUFFICES ASSUME e \in pte, u \in pte PROVE FALSE
       OBVIOUS
  <2>1. e \in Leaves(satp[q], y)
        BY <1>6 DEF Leaves, Span
  <2>. QED BY <2>1 DEF Mapped
<1>. HIDE DEF u
<1>9. e = leaf
  <2>. SUFFICES ASSUME e # leaf PROVE FALSE
       OBVIOUS
  <2>1. e \in pte
    <3>1. table.level = 2
          BY <1>00 DEF Entered, table
    <3>. QED BY <1>2, <1>6, <3>1
  <2>2. e.at \notin free
        BY <1>0, <2>1, KindOf
  <2>. QED BY <1>1, <1>2, <1>6, <1>7, <1>8, <2>1, <2>2
<1>10. u = table /\ q = p
       BY <1>1, <1>6, <1>7, <1>9
<1>11. SlotOf(y) = SlotOf(x)
       BY <1>1, <1>7, <1>10
<1>12. y = SlotOf(x) * SlotPages + (y % SlotPages) /\ y % SlotPages \in Nat
       BY <1>11, Constants, Division DEF SlotOf
<1>13. /\ y % SlotPages \in (b % SlotPages) .. (b % SlotPages) + Size(l) - 1
       /\ FrameOf(p, y)' = f + (y % SlotPages) - (b % SlotPages)
       /\ FrameOf(p, y)' \in f .. f + Size(l) - 1
  <2>1. /\ Span(leaf) = (b % SlotPages) .. (b % SlotPages) + Size(l) - 1
        /\ Held(leaf) = f .. f + Size(l) - 1
        BY <1>1 DEF Span, Held
  <2>. QED BY <1>1, <1>6, <1>9, <1>10, <2>1
<1>14. f \in Nat
  <2>1. Frame \subseteq Nat
        BY ONLY Constants
  <2>. QED BY <2>1
<1>15. y \in b .. b + Size(l) - 1 /\ (y = b <=> FrameOf(p, y)' = f)
  <2>1. PICK m \in Nat, i \in Nat, j \in Nat :
            m = SlotOf(x) * SlotPages /\ i = b % SlotPages /\ j = y % SlotPages
        BY <1>3, <1>12, Constants
  <2>2. b = m + i /\ y = m + j /\ j \in i .. i + Size(l) - 1 /\ FrameOf(p, y)' = f + j - i
        BY <1>3, <1>12, <1>13, <2>1
  <2>. QED BY <1>3, <1>14, <2>1, <2>2
<1>. QED BY <1>10, <1>13, <1>15 DEF b, x, Around

\* A page fault is not seen, unless it misses the page that the file ends in.
LEMMA FaultSeen ==
    ASSUME RInv, RInv', NEW p \in Proc, NEW a \in Nat, PageFault(p, a)
    PROVE  [Memory!MNext]_(Memory!mvars)
<1>0. IInv
      BY DEF RInv, AInv
<1>1. p \in Live /\ UNCHANGED <<on, status, satp, elf, vmas, a3>>
      BY <1>0, FaultMaps
<1>2. PICK v \in Range(vmas[p]), l \in {0, 1}, f \in Frame, t \in Frame :
          NewPage(p, a, v, l, f, t)
      BY <1>0, FaultMaps
<1>3. Live' = Live
      BY <1>1 DEF Live
<1>. DEFINE x == a \div PageSize
            text == Vma(elf[p].load, TextPages(elf[p]))
            Missed == /\ l = 0 /\ x \in Pages(text)
                      /\ FirstPage(elf[p], x)[PageSize-1] = Zero
                      /\ ~Mapped(p, x) /\ Mapped(p, x)'
                      /\ Content(p, x)' = Zeros
<1>4. ASSUME NEW q \in Live, NEW y \in Nat
      PROVE  Content(q, y)' = Content(q, y) \/ (q = p /\ y = x /\ Missed)
  <2>1. CASE Mapped(q, y)
    <3>1. PICK e \in Leaves(satp[q], y) : TRUE
          BY <2>1 DEF Mapped
    <3>2. e \in pte' /\ Pte(satp[q], SlotOf(y), e.at, 2) \in pte'
          BY <1>2 DEF Leaves, NewPage
    <3>3. /\ Mapped(q, y)' /\ FrameOf(q, y)' = FrameOf(q, y)
          /\ FrameOf(q, y) \in DOMAIN data \ free
          BY <1>1, <1>3, <3>2, SameFrame
    <3>4. Filled(p, a, l, f)
          BY <1>0, <1>1, <1>2, FaultData
    <3>5. f .. f + Size(l) - 1 \subseteq free
          BY <1>2 DEF NewPage
    <3>6. data'[FrameOf(q, y)] = data[FrameOf(q, y)]
          BY <3>3, <3>4, <3>5 DEF Filled
    <3>. QED BY <2>1, <3>3, <3>6 DEF Content
  <2>2. CASE ~Mapped(q, y) /\ ~Mapped(q, y)'
        BY <1>1, <2>2 DEF Content, FirstPage, File
  <2>3. CASE ~Mapped(q, y) /\ Mapped(q, y)'
    <3>. DEFINE g == FrameOf(p, y)'
    <3>1. q = p /\ Around(p, a, l, f, y)
          BY <1>1, <1>2, <2>3, NewlyMapped
    <3>2. Content(p, y)' = data'[g] /\ Content(p, y) = FirstPage(elf[p], y)
          BY <2>3, <3>1 DEF Content
    <3>3. /\ y \in Boundary(a \div PageSize, l) .. Boundary(a \div PageSize, l) + Size(l) - 1
          /\ g \in f .. f + Size(l) - 1
          /\ y = Boundary(a \div PageSize, l) <=> g = f
          BY <3>1 DEF Around
    <3>. HIDE DEF g
    <3>4. Served(p, a, l, y, g)
          BY <1>1, <1>2, <3>3, PageFilled
    <3>5. \/ data'[g] = FirstPage(elf[p], y)
          \/ /\ data'[g] = Zeros /\ y = x /\ l = 0
             /\ y \in Pages(text)
             /\ FirstPage(elf[p], y)[PageSize-1] = Zero
          BY <3>4 DEF Served
    <3>. QED BY <2>3, <3>1, <3>2, <3>5
  <2>. QED BY <2>1, <2>2, <2>3
<1>. HIDE DEF Missed
<1>5. ASSUME NEW q \in Proc, q # p \/ ~Missed PROVE View(q)' = View(q)
  <2>1. Vpns(q) \subseteq Nat /\ (q \notin Live => Vpns(q) = {})
        BY HasPages
  <2>2. \A y \in Vpns(q) : Content(q, y)' = Content(q, y)
        BY <1>4, <1>5, <2>1
  <2>. QED BY <1>1, <2>2, SameView
<1>6. CASE ~Missed
      BY <1>1, <1>5, <1>6, AllSame
<1>7. CASE Missed
  <2>1. /\ x \in Pages(text) /\ FirstPage(elf[p], x)[PageSize-1] = Zero
        /\ ~Mapped(p, x) /\ Content(p, x)' = Zeros
        BY <1>7 DEF Missed
  <2>2. elf[p] \in App /\ vmas[p][1] = text
        BY <1>1 DEF RInv, TextFirst
  <2>3. text \in Range(FirstVmas(elf[p]))
        BY DEF FirstVmas, Range
  <2>4. x \in DOMAIN StartImage(elf[p]) /\ StartImage(elf[p])[x] = FirstPage(elf[p], x)
        BY <2>1, <2>3 DEF StartImage
  <2>5. x \in Vpns(p)
    <3>1. 1 \in DOMAIN vmas[p]
          BY <1>0, <1>1, VmaTypes DEF IInv, VmasInPlace
    <3>. QED BY <2>1, <2>2, <3>1 DEF Vpns, Range
  <2>6. Content(p, x) = FirstPage(elf[p], x)
        BY <2>1 DEF Content
  <2>7. \A y \in Vpns(p) : y # x => Content(p, y)' = Content(p, y)
        BY <1>1, <1>4, HasPages
  <2>8. Vpns(p)' = Vpns(p)
        BY <1>1 DEF Vpns
  <2>. HIDE DEF x, text
  <2>9. View(p) = [y \in Vpns(p) |-> Content(p, y)]
        BY ViewIs
  <2>10. View(p)' = [View(p) EXCEPT ![x] = Zeros]
    <3>1. View(p)' = [y \in Vpns(p) |-> Content(p, y)']
          BY <2>8, ViewIsNext
    <3>. QED BY <2>1, <2>5, <2>7, <2>9, <3>1
  <2>11. /\ x \in DOMAIN View(p) \cap DOMAIN StartImage(elf[p])
         /\ View(p)[x] = StartImage(elf[p])[x]
         /\ View(p)[x][PageSize-1] = Zero
         BY <2>1, <2>4, <2>5, <2>6, <2>9
  <2>12. Memory!Miss(View(p), View(p)')
         BY <2>2, <2>10, <2>11 DEF Memory!Miss, Zeros
  <2>13. a3 \in [Proc -> Nat] /\ a3' \in [Proc -> Nat]
         BY <1>1 DEF RInv, AInv, IInv, TypeOK
  <2>14. \A q \in Proc \ {p} : View(q)' = View(q)
         BY <1>5
  <2>. QED BY <1>1, <2>12, <2>13, <2>14, StepOf
<1>. QED BY <1>6, <1>7

LEMMA NextSeen ==
    ASSUME RInv, RInv', [Next]_vars
    PROVE  [Memory!MNext]_(Memory!mvars)
<1>1. CASE \E p \in Proc, app \in App : Start(p, app)
      BY <1>1, StartSeen
<1>2. CASE \E p \in Proc : proc_kill_process(p)
      BY <1>2, KillSeen
<1>3. CASE \E p \in Proc, n \in Requests : scall_handler_mmap(p, n)
      BY <1>3, MmapSeen
<1>4. CASE \E p \in Proc : MmapFails(p)
      BY <1>4, RefusalSeen
<1>5. CASE \E p \in Proc, a \in Touched : PageFault(p, a)
      BY <1>5, FaultSeen, UserMemoryAssumption
<1>6. CASE \E p \in Proc, a \in Stored : UserStore(p, a)
      BY <1>6, StoreSeen, UserMemoryAssumption
<1>7. CASE \/ \E p \in Proc : StartFails(p)
           \/ \E p \in Proc, a \in Touched : FaultFails(p, a)
           \/ UNCHANGED vars
      BY <1>7, FailuresUnseen
<1>. QED BY <1>1, <1>2, <1>3, <1>4, <1>5, <1>6, <1>7 DEF Next, Off

LEMMA InitSeen ==
    ASSUME RInv, Init
    PROVE  Memory!MInit
<1>1. Live = {} /\ a3 = [p \in Proc |-> 0]
      BY DEF Init, Live
<1>2. \A p \in Proc : View(p) = Memory!Empty
      BY <1>1, EmptyViews
<1>. QED BY <1>1, <1>2 DEF Memory!MInit

\* A program has flat memory (handle_page_fault, scall_handler_mmap,
\* proc_create_process_vmas): its image, zeros, and what it writes, whatever
\* the kernel and other processes do in between; but for the page the file ends
\* in, and as long as what they ask mmap for ends below the stack and is not
\* nothing.
THEOREM MemoryIsFlat == Fit /\ Plain /\ Spec /\ []BelowStack => ImplementsMemory
<1>1. Fit /\ Plain /\ Init /\ BelowStack => RInv
      BY InitRInv
<1>2. RInv /\ [Next]_vars /\ BelowStack' => RInv'
      BY NextRInv
<1>3. RInv /\ Init => Memory!MInit
      BY InitSeen
<1>4. RInv /\ RInv' /\ [Next]_vars => [Memory!MNext]_(Memory!mvars)
      BY NextSeen
<1>. QED BY <1>1, <1>2, <1>3, <1>4, PTL DEF Spec, ImplementsMemory, Memory!MSpec
=============================================================================
