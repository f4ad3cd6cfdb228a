------------------------------ MODULE KernelMap ------------------------------
(***************************************************************************)
(* Boot, from the first page table to the first process: pt_init maps the   *)
(* machine twice, at its physical addresses ("low") and at those plus        *)
(* VIRT_MEM_KERNEL_BASE ("high"), turns the MMU on, moves the pointers it    *)
(* keeps to the high half, jumps there and drops the low mappings            *)
(* (src/kernel/pt.c, main.c).  The kernel changes the addresses it runs at   *)
(* while it runs: a page or a pointer that is not where it is used next      *)
(* is a fault, and the fault handler is not there either.                    *)
(*                                                                          *)
(* A pointer is a pair <<half, node>>: half 0 is low, 1 is high, and more    *)
(* is no address at all.  buddy_migrate, the same for the lists of free      *)
(* blocks, is in FreeList.                                                   *)
(*                                                                          *)
(* Steps (variable pc):                                                      *)
(*   "root"     pt_init: ksatp_init and pt_init_vmas_head                    *)
(*   "region"   __map_lowhigh makes the two VMAs of region job.region        *)
(*   "map"      __pt_vma_new is at job.vpn                                   *)
(*   "enable"   ksatp_enable_paging                                          *)
(*   "head"     pt_migrate_kvmas begins with the head of the list            *)
(*   "migrate"  ... and is at node                                           *)
(*   "jump"     pt_jump_to_high                                              *)
(*   "destroy"  pt_destroy_low_kvmas is at node                              *)
(*   "unmap"    pt_vma_unmap_pages, called by it, is at job.vpn              *)
(*   "done"     pt_destroy_low_kvmas has returned                            *)
(*   "user"     the first process runs: Kernel takes over                    *)
(*   "off"      pt_init failed, main switched the machine off                *)
(*   "trap"     a page that is needed is not mapped                          *)
(*                                                                          *)
(* A definition marked "Slip:" is a wrong version of the one below it, the   *)
(* kind of mistake that is easily made there.  Nothing uses it; the          *)
(* mutation tests put it in the other's place and expect a violation.        *)
(***************************************************************************)
EXTENDS PageTree, FiniteSets

CONSTANTS
    Layouts,      \* bound: the layouts of physical memory, in pages
    FreePages     \* bound: how many pages buddy can have at boot

\* VIRT_MEM_KERNEL_BASE, in pages: the upper half of the address space.
KernelBase == Size(Levels) \div 2

ASSUME KernelMapAssumption ==
    /\ \A l \in Level : KernelBase % Size(l) = 0     \* Fanout is even
    /\ FreePages \subseteq Nat
    /\ Layouts \subseteq [kelf_base : Nat, phys_base : Nat, phys_end : Nat,
                       kstack_size : Nat \ {0}]
    /\ \A y \in Layouts : /\ y.kelf_base < y.phys_base /\ y.phys_base < y.phys_end
                          /\ y.phys_end + y.kstack_size <= KernelBase

VARIABLES
    layout,       \* buddy_layout_init: set once
    pc,
    paging,       \* the MMU is on
    half,         \* of the program counter and the stack pointer
    free,         \* how many pages pt_alloc can still give
    kvmas_head,   \* a pointer
    list,         \* the nodes, of the head (0) and of the VMAs: next and prev
    vma,          \* the VMAs: vpn, pagen
    node,         \* the pointer the loops over the list are at
    next,         \* ... and the one pt_destroy_low_kvmas goes to then
    job,          \* the mapping in progress
    stale         \* pages whose translation the TLB can hold, but pte does not

vars == <<layout, pc, paging, half, free, kvmas_head, list, vma, node, next, job, stale, pte>>

(***************************************************************************)
(* The layout.                                                              *)
(***************************************************************************)
Region == 1..4

\* map_phys_mem_lowhigh, map_kstack_lowhigh, map_kelf_lowhigh, map_io_lowhigh:
\* the pages of physical memory they map.
RegionOf(y) ==
    << [vpn |-> y.phys_base, pagen |-> y.phys_end - y.phys_base],
       [vpn |-> y.phys_end,  pagen |-> y.kstack_size],
       [vpn |-> y.kelf_base, pagen |-> y.phys_base - y.kelf_base],
       [vpn |-> 0,           pagen |-> y.kelf_base] >>

\* The pages of physical memory and of devices.
Physical == 0 .. layout.phys_end + layout.kstack_size - 1

\* vpn is mapped to the frame ppn.  The hardware takes a large page only if its
\* frames begin at a boundary too.
MapsTo(vpn, ppn) ==
    \E l \in Level : LET e == pte[EntryOf(vpn, l)]
                     IN  /\ LeafAt(vpn, l)
                         /\ e.ppn % Size(l) = 0
                         /\ ppn = e.ppn + vpn - Boundary(vpn, l)

\* Region r can be used at its addresses in half h.
There(r, h) ==
    IF paging
    THEN h \in {0, 1} /\ \A p \in Pages(RegionOf(layout)[r]) : MapsTo(h * KernelBase + p, p)
    ELSE h = 0

\* The code and the data of the kernel, the stack, and the heap where the tables
\* and the list are (phys2kvirt) are there.
CanRun == There(3, half) /\ There(2, half) /\ There(1, IF paging THEN 1 ELSE 0)

\* The pointer p can be followed.
CanFollow(p) == There(1, p[1])

(***************************************************************************)
(* Lists (util.c).  A node is linked to other nodes by pointers.            *)
(***************************************************************************)
NoLink == <<9, 9>>

\* node_init and list_append of node n; L is the list.
Appended(L, head, n) ==
    LET last == L[head[2]].prev
        M == [L EXCEPT ![head[2]].prev = <<head[1], n>>]
        N == [M EXCEPT ![last[2]].next = <<head[1], n>>]
    IN  [i \in DOMAIN L \cup {n} |-> IF i = n THEN [next |-> head, prev |-> last] ELSE N[i]]

\* Slip: the way back is left as it was.
RemovedNext(L, p) ==
    LET n == p[2]
    IN  [[L EXCEPT ![L[n].prev[2]].next = L[n].next] EXCEPT ![n] = [next |-> p, prev |-> p]]

\* list_remove
Removed(L, p) ==
    LET n == p[2]
        M == [L EXCEPT ![L[n].prev[2]].next = L[n].next]
        N == [M EXCEPT ![M[n].next[2]].prev = M[n].prev]
    IN  [N EXCEPT ![n] = [next |-> p, prev |-> p]]

Higher(p) == <<p[1] + 1, p[2]>>

\* node_migrate
Migrated(L, p) == [L EXCEPT ![p[2]] = [next |-> Higher(@.next), prev |-> Higher(@.prev)]]

(***************************************************************************)
(* pt_init.                                                                 *)
(***************************************************************************)
NoJob == [region |-> 0, high |-> FALSE, vpn |-> 0, ppn |-> 0]

Init ==
    /\ layout \in Layouts
    /\ free \in FreePages
    /\ pc = "root" /\ paging = FALSE /\ half = 0
    /\ kvmas_head = NoLink /\ node = NoLink /\ next = NoLink
    /\ list = [n \in {} |-> 0]
    /\ vma = [n \in {} |-> 0]
    /\ job = NoJob
    /\ stale = {}
    /\ pte = [e \in Entry |-> NoPte]

\* ksatp_init takes a page for the root, pt_init_vmas_head one for the list; all
\* the VMAs of boot fit into it (pt_salloc).
ksatp_init ==
    /\ pc = "root" /\ free >= 2
    /\ pc' = "region"
    /\ free' = free - 2
    /\ kvmas_head' = <<0, 0>>
    /\ list' = [n \in {0} |-> [next |-> <<0, 0>>, prev |-> <<0, 0>>]]
    /\ job' = [NoJob EXCEPT !.region = 1]
    /\ UNCHANGED <<layout, paging, half, vma, node, next, stale, pte>>

\* pt_init returns -1 and main switches the machine off.
InitFails ==
    /\ pc = "root" /\ free < 2
    /\ pc' = "off"
    /\ free' = 0
    /\ UNCHANGED <<layout, paging, half, kvmas_head, list, vma, node, next, job, stale, pte>>

\* The node of a VMA of region r.
NodeOf(r, high) == IF high THEN 2 * r ELSE 2 * r - 1

ThisVma == vma[NodeOf(job.region, job.high)]

\* Two VMAs, put on the list; the low one is mapped first.
__map_lowhigh ==
    /\ pc = "region"
    /\ LET r == job.region
           low == RegionOf(layout)[r]
           high == [low EXCEPT !.vpn = @ + KernelBase]
       IN  /\ vma' = [n \in DOMAIN vma \cup {NodeOf(r, FALSE), NodeOf(r, TRUE)} |->
                         IF n = NodeOf(r, FALSE) THEN low
                         ELSE IF n = NodeOf(r, TRUE) THEN high ELSE vma[n]]
           /\ list' = Appended(Appended(list, kvmas_head, NodeOf(r, FALSE)),
                               kvmas_head, NodeOf(r, TRUE))
           /\ job' = [job EXCEPT !.high = FALSE, !.vpn = low.vpn, !.ppn = low.vpn]
    /\ pc' = "map"
    /\ UNCHANGED <<layout, paging, half, free, kvmas_head, node, next, stale, pte>>

\* pt_vma_map_page_at_vpn returned r, not 0.  As in PageTable an error is not
\* told from progress.
Advance(r) == job' = [job EXCEPT !.vpn = @ + r, !.ppn = @ + r]

\* pt_set_pte_leaf for page vpn of level l.  The tables that are missing are made
\* from the top, as long as there is memory.  An entry that is in use is only
\* overwritten with 0.
Walk(vpn, l, entry, r) ==
    LET empty == {h \in Level : h > l /\ pte[EntryOf(vpn, h)] = NoPte}
        made == {h \in empty : Cardinality({k \in empty : k > h}) < free}
        tables == [e \in Entry |-> IF \E h \in made : e = EntryOf(vpn, h)
                                   THEN Table(0) ELSE pte[e]]
        taken == \/ \E h \in Level : h > l /\ LeafAt(vpn, h)
                 \/ pte[EntryOf(vpn, l)] # NoPte /\ entry # NoPte
    IN  \/ taken /\ Advance(-EMAPPED) /\ UNCHANGED <<pte, free>>
        \/ /\ ~taken
           /\ pte' = IF made = empty
                     THEN [tables EXCEPT ![EntryOf(vpn, l)] = entry] ELSE tables
           /\ free' = free - Cardinality(made)
           /\ Advance(IF made = empty THEN r ELSE -ENORESOURCES)

Fit(l) == Highest(l, {k \in Level : Fits(ThisVma, job.vpn, k)})

\* The largest page that fits and has nothing in its way.  A page of an identity
\* mapping needs no memory, its frame is __ppn.
MapPage ==
    /\ pc = "map"
    /\ \E fit, empty \in Level :
          /\ Fit(fit) /\ HighestEmpty(PageAround(job.vpn, fit), empty)
          /\ LET l == IF empty < fit THEN empty ELSE fit
             IN  Walk(PageAround(job.vpn, l), l, Leaf(job.ppn),
                      Boundary(job.vpn, l) + Size(l) - job.vpn)
    /\ stale' = {}
    /\ UNCHANGED <<layout, pc, paging, half, kvmas_head, list, vma, node, next>>

\* Something is mapped there: page 0 is cleared instead (see PageTable).
PageInTheWay ==
    /\ pc = "map"
    /\ \E fit \in Level : Fit(fit) /\ Mapped(PageAround(job.vpn, fit))
    /\ Walk(0, 0, NoPte, -EMAPPED)
    /\ stale' = {}
    /\ UNCHANGED <<layout, pc, paging, half, kvmas_head, list, vma, node, next>>

\* No page fits: 0.  The high VMA is next, or another region.
MapDone ==
    /\ pc = "map" /\ \A l \in Level : ~Fits(ThisVma, job.vpn, l)
    /\ IF job.high
       THEN /\ pc' = IF job.region = 4 THEN "enable" ELSE "region"
            /\ job' = [NoJob EXCEPT !.region = IF job.region = 4 THEN 0 ELSE job.region + 1]
       ELSE /\ job' = [job EXCEPT !.high = TRUE,
                                  !.vpn = RegionOf(layout)[job.region].vpn + KernelBase,
                                  !.ppn = RegionOf(layout)[job.region].vpn]
            /\ UNCHANGED pc
    /\ UNCHANGED <<layout, paging, half, free, kvmas_head, list, vma, node, next, stale, pte>>

ksatp_enable_paging ==
    /\ pc = "enable"
    /\ paging' = TRUE
    /\ pc' = "head"
    /\ stale' = {}
    /\ UNCHANGED <<layout, half, free, kvmas_head, list, vma, node, next, job, pte>>

(***************************************************************************)
(* To the high half.                                                        *)
(***************************************************************************)
MigrateHead ==
    /\ pc = "head" /\ CanRun
    /\ kvmas_head' = Higher(kvmas_head)
    /\ list' = Migrated(list, kvmas_head)
    /\ node' = list'[0].next
    /\ pc' = "migrate"
    /\ UNCHANGED <<layout, paging, half, free, vma, next, job, stale, pte>>

\* An iteration of the loop of pt_migrate_kvmas, or its end.
pt_migrate_kvmas ==
    /\ pc = "migrate" /\ CanRun /\ CanFollow(node)
    /\ IF node = kvmas_head
       THEN pc' = "jump" /\ UNCHANGED <<list, node>>
       ELSE /\ list' = Migrated(list, node)
            /\ node' = list'[node[2]].next
            /\ UNCHANGED pc
    /\ UNCHANGED <<layout, paging, half, free, kvmas_head, vma, next, job, stale, pte>>

\* Slip: the stack and the code are left where they are.
NoJump ==
    /\ pc = "jump" /\ CanRun
    /\ pc' = "destroy"
    /\ node' = list[0].next
    /\ UNCHANGED <<layout, paging, half, free, kvmas_head, list, vma, next, job, stale, pte>>

\* The program counter, the return address and the stack pointer are moved; then
\* pt_destroy_low_kvmas begins with the list.
pt_jump_to_high ==
    /\ pc = "jump" /\ CanRun
    /\ half' = 1
    /\ pc' = "destroy"
    /\ node' = list[0].next
    /\ UNCHANGED <<layout, paging, free, kvmas_head, list, vma, next, job, stale, pte>>

\* Slip: the next node is read when the VMA is off the list.
NextTooLate ==
    /\ pc = "destroy" /\ CanRun /\ CanFollow(kvmas_head)
    /\ node # kvmas_head /\ CanFollow(node)
    /\ IF vma[node[2]].vpn < KernelBase
       THEN /\ list' = Removed(list, node)
            /\ next' = list'[node[2]].next
            /\ job' = [NoJob EXCEPT !.vpn = vma[node[2]].vpn]
            /\ pc' = "unmap"
            /\ UNCHANGED node
       ELSE /\ next' = list[node[2]].next
            /\ node' = next'
            /\ UNCHANGED <<list, job, pc>>
    /\ UNCHANGED <<layout, paging, half, free, kvmas_head, vma, stale, pte>>

\* An iteration of the loop of pt_destroy_low_kvmas: pt_vma_destroy takes a low
\* VMA off the list and goes on to unmap it.
pt_destroy_low_kvmas ==
    /\ pc = "destroy" /\ CanRun /\ CanFollow(kvmas_head)
    /\ node # kvmas_head /\ CanFollow(node)
    /\ next' = list[node[2]].next
    /\ IF vma[node[2]].vpn < KernelBase
       THEN /\ list' = Removed(list, node)
            /\ job' = [NoJob EXCEPT !.vpn = vma[node[2]].vpn]
            /\ pc' = "unmap"
            /\ UNCHANGED node
       ELSE /\ node' = next'
            /\ UNCHANGED <<list, job, pc>>
    /\ UNCHANGED <<layout, paging, half, free, kvmas_head, vma, stale, pte>>

\* Slip: every page is taken for one of the smallest.
UnmapOne ==
    /\ pc = "unmap" /\ CanRun
    /\ job.vpn \in 0 .. vma[node[2]].vpn + vma[node[2]].pagen - 1
    /\ \/ \E l \in Level :
             /\ LeafAt(job.vpn, l)
             /\ pte' = [pte EXCEPT ![EntryOf(job.vpn, l)] = NoPte]
             /\ stale' = stale \cup Block(Boundary(job.vpn, l), l)
             /\ job' = [job EXCEPT !.vpn = @ + 1]
       \/ /\ ~Mapped(job.vpn)
          /\ job' = [job EXCEPT !.vpn = @ - ENOTMAPPED]
          /\ UNCHANGED <<pte, stale>>
    /\ UNCHANGED <<layout, pc, paging, half, free, kvmas_head, list, vma, node, next>>

\* pt_unmap_page; the TLB is not flushed.
UnmapPage ==
    /\ pc = "unmap" /\ CanRun
    /\ job.vpn \in 0 .. vma[node[2]].vpn + vma[node[2]].pagen - 1
    /\ \/ \E l \in Level :
             /\ LeafAt(job.vpn, l)
             /\ pte' = [pte EXCEPT ![EntryOf(job.vpn, l)] = NoPte]
             /\ stale' = stale \cup Block(Boundary(job.vpn, l), l)
             /\ job' = [job EXCEPT !.vpn = @ + Size(l)]
       \/ /\ ~Mapped(job.vpn)
          /\ job' = [job EXCEPT !.vpn = @ - ENOTMAPPED]
          /\ UNCHANGED <<pte, stale>>
    /\ UNCHANGED <<layout, pc, paging, half, free, kvmas_head, list, vma, node, next>>

UnmapDone ==
    /\ pc = "unmap" /\ CanRun
    /\ job.vpn \notin 0 .. vma[node[2]].vpn + vma[node[2]].pagen - 1
    /\ node' = next
    /\ job' = NoJob
    /\ pc' = "destroy"
    /\ UNCHANGED <<layout, paging, half, free, kvmas_head, list, vma, next, stale, pte>>

DestroyDone ==
    /\ pc = "destroy" /\ CanRun /\ node = kvmas_head
    /\ pc' = "done"
    /\ UNCHANGED <<layout, paging, half, free, kvmas_head, list, vma, node, next, job, stale, pte>>

\* proc_create_process_vmas writes satp and flushes the TLB.
FirstProcess ==
    /\ pc = "done" /\ CanRun
    /\ pc' = "user"
    /\ stale' = {}
    /\ UNCHANGED <<layout, paging, half, free, kvmas_head, list, vma, node, next, job, pte>>

\* What comes next is not mapped.
Trap ==
    /\ pc \in {"head", "migrate", "jump", "destroy", "unmap", "done"}
    /\ \/ ~CanRun
       \/ pc \in {"migrate", "destroy"} /\ ~(CanFollow(node) /\ CanFollow(kvmas_head))
    /\ pc' = "trap"
    /\ UNCHANGED <<layout, paging, half, free, kvmas_head, list, vma, node, next, job, stale, pte>>

Ended == pc \in {"user", "off", "trap"} /\ UNCHANGED vars

Boot ==
    \/ ksatp_init \/ InitFails
    \/ __map_lowhigh \/ MapPage \/ PageInTheWay \/ MapDone
    \/ ksatp_enable_paging
    \/ MigrateHead \/ pt_migrate_kvmas \/ pt_jump_to_high
    \/ pt_destroy_low_kvmas \/ UnmapPage \/ UnmapDone \/ DestroyDone
    \/ FirstProcess \/ Trap

Next == Boot \/ Ended

Spec == Init /\ [][Next]_vars

\* One hart, no interrupts yet: the code goes on.
FairSpec == Spec /\ WF_vars(Boot)
-----------------------------------------------------------------------------
Pointer == {0, 1} \X (0..8)

\* The type of the state; a pointer is moved to the high half once.
TypeOK ==
    /\ layout \in Layouts
    /\ paging \in BOOLEAN /\ half \in {0, 1} /\ free \in Nat
    /\ {kvmas_head, node, next} \subseteq Pointer \cup {NoLink}
    /\ list \in [DOMAIN list -> [next : Pointer, prev : Pointer]]
    /\ vma \in [DOMAIN vma -> [vpn : Nat, pagen : Nat]]
    /\ DOMAIN list \subseteq {0} \cup DOMAIN vma
    /\ job \in [region : 0..4, high : BOOLEAN, vpn : Int, ppn : Int]
    /\ stale \subseteq Vpn
    /\ pte \in [Entry -> [kind : {"none", "table", "leaf"}, ppn : Int]]

\* While the kernel moves from the low half to the high one, its code, its stack,
\* its heap and every pointer it follows are mapped, if memory did not run out.
BootSurvives == free > 0 => pc # "trap"

\* When boot is over every page of the machine is in the high half, at its
\* physical address, and nothing is left in the low half, for any layout and any
\* sizes of pages it leads to.  The first process begins with no translation in
\* the TLB that its tables do not have, although unmapping does not flush it.
BootMaps ==
    pc = "user" =>
        /\ stale = {}
        /\ free > 0 => \A vpn \in Vpn :
              IF vpn - KernelBase \in Physical
              THEN MapsTo(vpn, vpn - KernelBase) ELSE ~Mapped(vpn)

\* The list of VMAs that is left holds the head and the high VMAs in the order
\* they were made, every pointer in it is a high one, and it can be walked in both
\* directions.
ListIsHigh ==
    pc \in {"done", "user"} =>
        /\ kvmas_head = <<1, 0>>
        /\ \A n \in {0, 2, 4, 6, 8} :
              LET m == IF n = 8 THEN 0 ELSE n + 2
              IN  list[n].next = <<1, m>> /\ list[m].prev = <<1, n>>

\* Boot ends: the loops over the list do, which they change while they follow it,
\* and those over pages, which go back after an error.
BootEnds == <>(pc \in {"user", "off", "trap"})
=============================================================================
