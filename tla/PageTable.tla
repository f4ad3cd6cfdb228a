------------------------------ MODULE PageTable ------------------------------
(***************************************************************************)
(* One address space: its page table and its list of VMAs, as the functions *)
(* of src/kernel/pt.c keep them.  A VMA is backed by memory when it is made *)
(* (VMA_POPULATE) or page by page, when the page fault handler meets it.    *)
(* Physical memory comes from pt_alloc, that is, from the buddy allocator,  *)
(* and the rest of the kernel takes memory from there too.                  *)
(*                                                                          *)
(* The walk of pt_set_pte_leaf, the loop that populates a VMA and the one   *)
(* that unmaps it take one step per iteration (variable pc):                *)
(*   "idle"   between two calls                                             *)
(*   "page"   pt_vma_new_page_at_vpn is about to find a page for job.vpn    *)
(*   "walk"   pt_set_pte_leaf is on its way to the entry of job.page        *)
(*   "unmap"  pt_vma_unmap_pages is at job.vpn                              *)
(*   "off"    the page fault handler gave up and switched the machine off   *)
(*                                                                          *)
(* Permissions are left out: every VMA of a process may be read, written    *)
(* and executed (proc_create_process_vmas, scall_handler_mmap), so a page   *)
(* that is mapped does not fault.  Identity mappings are made at boot only. *)
(*                                                                          *)
(* A definition marked "Slip:" is a wrong version of the one below it, the  *)
(* kind of mistake that is easily made there.  Nothing uses it; the         *)
(* mutation tests put it in the other's place and expect a violation.       *)
(***************************************************************************)
EXTENDS PageTree, Sequences

CONSTANTS
    Frame,        \* bound: the frames of physical memory
    Areas,        \* bound: the VMAs that are ever made
    MaxVmas,      \* bound: how many of them at a time
    Given(_)      \* the blocks buddy may hand out, of those that are free

\* struct vma: the pages vpn..vpn+pagen-1; populate stands for VMA_POPULATE.
Vma == [vpn : Vpn, pagen : Nat, populate : BOOLEAN]

ASSUME PageTableAssumption ==
    /\ Frame \subseteq Nat \ {0}
    /\ Areas \subseteq Vma /\ \A v \in Areas : v.vpn + v.pagen <= Size(Levels)
    /\ MaxVmas \in Nat
    /\ \A S \in SUBSET Frame : Given(S) \subseteq S /\ (S # {} => Given(S) # {})

VARIABLES
    vmas,         \* the list vmas_head, in its order
    free,         \* the frames pt_alloc can still give
    pc,
    job           \* the call in progress

vars == <<vmas, pte, free, pc, job>>

\* The blocks buddy_alloc(level2order(l)) has, and the ones it may return.
FreeBlocks(l) == {f \in free : f % Size(l) = 0 /\ Block(f, l) \subseteq free}

pt_alloc(l) == Given(FreeBlocks(l))

NoPage == [vpn |-> 0, level |-> 0, pte |-> NoPte]

Job(by, v, vpn) ==
    [by |-> by, vma |-> v, vpn |-> vpn, page |-> NoPage, pagen |-> 0]

NoVma == [vpn |-> 0, pagen |-> 0, populate |-> FALSE]

NoJob == Job("none", NoVma, 0)

\* A root table and an empty list (pt_alloc_pt, pt_init_vmas_head).
Init ==
    /\ vmas = <<>>
    /\ pte = [e \in Entry |-> NoPte]
    /\ free = Frame
    /\ pc = "idle"
    /\ job = NoJob

\* Another part of the kernel takes a page: pt_salloc, another address space.
\* None is ever given back: nothing calls pt_free.
Elsewhere ==
    /\ pc = "idle"
    /\ \E l \in Level : \E f \in pt_alloc(l) : free' = free \ Block(f, l)
    /\ UNCHANGED <<vmas, pte, pc, job>>

(***************************************************************************)
(* Mapping a page.                                                          *)
(***************************************************************************)

\* The list with v appended.  Without memory for v the caller gives up before
\* anything is changed.
pt_alloc_vma(v) == Append(vmas, v)

\* pt_alloc_vma and pt_vma_new.  Callers keep VMAs apart.
pt_vma_new(v) ==
    /\ pc = "idle" /\ Len(vmas) < MaxVmas
    /\ \A i \in DOMAIN vmas : Pages(vmas[i]) \cap Pages(v) = {}
    /\ vmas' = pt_alloc_vma(v)
    /\ IF v.populate THEN pc' = "page" /\ job' = Job("new", v, v.vpn)
                     ELSE UNCHANGED <<pc, job>>
    /\ UNCHANGED <<pte, free>>

\* vpn2vma finds the i-th VMA.
vpn2vma(vpn, i) ==
    /\ vpn \in Pages(vmas[i])
    /\ \A k \in 1..i-1 : vpn \notin Pages(vmas[k])

\* A page fault in a VMA, as scall serves it.
PageFault(vpn) ==
    /\ pc = "idle" /\ ~Mapped(vpn)
    /\ \E i \in DOMAIN vmas :
          vpn2vma(vpn, i) /\ job' = Job("fault", vmas[i], vpn)
    /\ pc' = "page"
    /\ UNCHANGED <<vmas, pte, free>>

\* Slip: after an error the loop goes on with the page behind.
ErrorSkips(r) ==
    \/ /\ job.by = "new" /\ r # 0
       /\ pc' = "page"
       /\ job' = Job("new", job.vma, job.vpn + (IF r < 0 THEN 1 ELSE r))
    \/ /\ job.by = "new" /\ r = 0
       /\ pc' = "idle"
       /\ job' = NoJob
    \/ /\ job.by = "fault"
       /\ pc' = IF r > 0 THEN "idle" ELSE "off"
       /\ job' = NoJob

\* pt_vma_map_page_at_vpn returns r.  __pt_vma_new keeps it in a size_t, so that
\* its test for an error never holds: it adds r to vpn, an error too, until there
\* is no page left and r is 0.  The page fault handler switches the machine off
\* unless a page was mapped.
Return(r) ==
    \/ /\ job.by = "new" /\ r # 0
       /\ pc' = "page"
       /\ job' = Job("new", job.vma, job.vpn + r)
    \/ /\ job.by = "new" /\ r = 0
       /\ pc' = "idle"
       /\ job' = NoJob
    \/ /\ job.by = "fault"
       /\ pc' = IF r > 0 THEN "idle" ELSE "off"
       /\ job' = NoJob

\* Slip: one frame is taken whatever the level.
FoundFrame(l, f) ==
    /\ free' = free \ {f}
    /\ pc' = "walk"
    /\ job' = [job EXCEPT
                 !.page = [vpn |-> PageAround(job.vpn, l), level |-> l, pte |-> Leaf(f)],
                 !.pagen = Boundary(job.vpn, l) + Size(l) - job.vpn]
    /\ UNCHANGED <<vmas, pte>>

\* Slip: the page is put at the beginning of the VMA.
FoundFirst(l, f) ==
    /\ free' = free \ Block(f, l)
    /\ pc' = "walk"
    /\ job' = [job EXCEPT
                 !.page = [vpn |-> Boundary(job.vma.vpn, l), level |-> l, pte |-> Leaf(f)],
                 !.pagen = Boundary(job.vpn, l) + Size(l) - job.vpn]
    /\ UNCHANGED <<vmas, pte>>

\* A page of level l is found, made of the frames from f on.
FoundPage(l, f) ==
    /\ free' = free \ Block(f, l)
    /\ pc' = "walk"
    /\ job' = [job EXCEPT
                 !.page = [vpn |-> PageAround(job.vpn, l), level |-> l, pte |-> Leaf(f)],
                 !.pagen = Boundary(job.vpn, l) + Size(l) - job.vpn]
    /\ UNCHANGED <<vmas, pte>>

\* The largest page that fits, has no mapping in the way, and for which there
\* is memory (requirement 3).
NewPage ==
    /\ pc = "page"
    /\ \E fit \in Level : 
          /\ Highest(fit, {l \in Level : Fits(job.vma, job.vpn, l)})
          /\ \E empty \in Level :
                /\ HighestEmpty(PageAround(job.vpn, fit), empty)
                /\ \E l \in Level :
                      /\ Highest(l, {k \in Level : /\ k <= fit /\ k <= empty
                                                  /\ FreeBlocks(k) # {}})
                      /\ \E f \in pt_alloc(l) : FoundPage(l, f)

\* Nothing fits, or there is no memory: 0 is returned.
NoNewPage ==
    /\ pc = "page"
    /\ \/ \A l \in Level : ~Fits(job.vma, job.vpn, l)
       \/ /\ free = {}
          /\ \E fit \in Level :
                /\ Highest(fit, {l \in Level : Fits(job.vma, job.vpn, l)})
                /\ ~Mapped(PageAround(job.vpn, fit))
    /\ Return(0)
    /\ UNCHANGED <<vmas, pte, free>>

\* Slip: the structure has its vpn, but no pte yet.
PageHalfMade ==
    /\ pc = "page"
    /\ \E fit \in Level :
          /\ Highest(fit, {l \in Level : Fits(job.vma, job.vpn, l)})
          /\ Mapped(PageAround(job.vpn, fit))
          /\ job' = [job EXCEPT !.page = [NoPage EXCEPT !.vpn = PageAround(job.vpn, fit)],
                                !.pagen = -EMAPPED]
    /\ pc' = "walk"
    /\ UNCHANGED <<vmas, pte, free>>

\* The page that fits begins with one that is mapped: -EMAPPED.  The caller
\* tests for 0 only, and goes on with the page structure it has zeroed.
PageInTheWay ==
    /\ pc = "page"
    /\ \E fit \in Level :
          /\ Highest(fit, {l \in Level : Fits(job.vma, job.vpn, l)})
          /\ Mapped(PageAround(job.vpn, fit))
    /\ pc' = "walk"
    /\ job' = [job EXCEPT !.page = NoPage, !.pagen = -EMAPPED]
    /\ UNCHANGED <<vmas, pte, free>>

(***************************************************************************)
(* pt_set_pte_leaf.                                                         *)
(***************************************************************************)

\* The levels above that of job.page where the walk does not find a table.
Missing == {h \in Level : /\ h > job.page.level
                          /\ pte[EntryOf(job.page.vpn, h)].kind # "table"}

\* An entry above that of the page is empty: it gets a new table.
pt_set_pte_nonleaf ==
    /\ pc = "walk"
    /\ \E h \in Missing, f \in pt_alloc(0) :
          /\ Highest(h, Missing)
          /\ pte[EntryOf(job.page.vpn, h)] = NoPte
          /\ pte' = [pte EXCEPT ![EntryOf(job.page.vpn, h)] = Table(f)]
          /\ free' = free \ {f}
    /\ UNCHANGED <<vmas, pc, job>>

\* The walk fails.  Neither the page nor the tables made so far are given back.
WalkFails ==
    /\ pc = "walk"
    /\ \E h \in Missing :
          /\ Highest(h, Missing)
          /\ \/ pte[EntryOf(job.page.vpn, h)].kind = "leaf" /\ Return(-EMAPPED)
             \/ pte[EntryOf(job.page.vpn, h)] = NoPte /\ free = {} /\ Return(-ENORESOURCES)
    /\ UNCHANGED <<vmas, pte, free>>

\* Slip: the tables above are not made.
LeafWithoutTables ==
    /\ pc = "walk"
    /\ Return(job.pagen)
    /\ pte' = [pte EXCEPT ![EntryOf(job.page.vpn, job.page.level)] = job.page.pte]
    /\ UNCHANGED <<vmas, free>>

\* An entry that is valid is overwritten only with 0.
pt_set_pte_leaf ==
    /\ pc = "walk" /\ Missing = {}
    /\ LET e == EntryOf(job.page.vpn, job.page.level)
       IN  IF pte[e] # NoPte /\ job.page.pte # NoPte
           THEN Return(-EMAPPED) /\ UNCHANGED pte
           ELSE Return(job.pagen) /\ pte' = [pte EXCEPT ![e] = job.page.pte]
    /\ UNCHANGED <<vmas, free>>

(***************************************************************************)
(* Unmapping.                                                               *)
(***************************************************************************)

\* The loop of pt_vma_unmap_pages, called on its own (by the tests) or, once the
\* VMA is off the list, by pt_vma_destroy.
StartUnmap(i) ==
    /\ pc = "idle"
    /\ pc' = "unmap"
    /\ job' = Job("unmap", vmas[i], vmas[i].vpn)
    /\ UNCHANGED <<pte, free>>

pt_vma_unmap_pages(i) == StartUnmap(i) /\ UNCHANGED vmas

pt_vma_destroy(i) ==
    /\ StartUnmap(i)
    /\ vmas' = SubSeq(vmas, 1, i-1) \o SubSeq(vmas, i+1, Len(vmas))

\* vpn < end; a vpn below 0 is a huge one.
InLoop == 0 <= job.vpn /\ job.vpn < job.vma.vpn + job.vma.pagen

\* Slip: the result for a page that is not mapped is 0.
UnmapStays ==
    /\ pc = "unmap" /\ InLoop
    /\ \/ \E l \in Level :
             /\ LeafAt(job.vpn, l)
             /\ pte' = [pte EXCEPT ![EntryOf(job.vpn, l)] = NoPte]
             /\ job' = [job EXCEPT !.vpn = @ + Size(l)]
       \/ ~Mapped(job.vpn) /\ UNCHANGED <<job, pte>>
    /\ UNCHANGED <<vmas, free, pc>>

\* pt_unmap_page; the loop adds what it returns to vpn, an error too.
UnmapPage ==
    /\ pc = "unmap" /\ InLoop
    /\ \/ \E l \in Level :
             /\ LeafAt(job.vpn, l)
             /\ pte' = [pte EXCEPT ![EntryOf(job.vpn, l)] = NoPte]
             /\ job' = [job EXCEPT !.vpn = @ + Size(l)]
       \/ /\ ~Mapped(job.vpn)
          /\ job' = [job EXCEPT !.vpn = @ - ENOTMAPPED]
          /\ UNCHANGED pte
    /\ UNCHANGED <<vmas, free, pc>>

UnmapDone ==
    /\ pc = "unmap" /\ ~InLoop
    /\ pc' = "idle"
    /\ job' = NoJob
    /\ UNCHANGED <<vmas, pte, free>>

\* Nothing happens any more.
Off == pc = "off" /\ UNCHANGED vars

\* The steps of a call.
Working ==
    \/ NewPage \/ NoNewPage \/ PageInTheWay
    \/ pt_set_pte_nonleaf \/ WalkFails \/ pt_set_pte_leaf
    \/ UnmapPage \/ UnmapDone

Next ==
    \/ Elsewhere
    \/ \E v \in Areas : pt_vma_new(v)
    \/ \E vpn \in Vpn : PageFault(vpn)
    \/ \E i \in DOMAIN vmas : pt_vma_unmap_pages(i) \/ pt_vma_destroy(i)
    \/ Working
    \/ Off

Spec == Init /\ [][Next]_vars

\* A call goes on until it returns: nothing in S-mode takes the hart away.
FairSpec == Spec /\ WF_vars(Working)

-----------------------------------------------------------------------------
PteType == {NoPte} \cup [kind : {"table", "leaf"}, ppn : Frame]

JobType ==
    [by : {"none", "new", "fault", "unmap"}, vma : Areas \cup {NoVma}, vpn : Int,
     page : [vpn : Vpn, level : Level, pte : PteType], pagen : Int]

\* Every variable has the type of its declaration in pt.c.
TypeOK ==
    /\ vmas \in Seq(Areas)
    /\ pte \in [Entry -> PteType]
    /\ free \subseteq Frame
    /\ pc \in {"idle", "page", "walk", "unmap", "off"}
    /\ job \in JobType

\* The frames an entry stands for.
Held(e) ==
    CASE pte[e].kind = "leaf" -> Block(pte[e].ppn, e[1])
      [] pte[e].kind = "table" -> {pte[e].ppn}
      [] OTHER -> {}

\* No frame is in two pages, in a page and a table, or in a page and still
\* free, whatever became of the calls that took it.
FramesHeldOnce ==
    /\ \A e \in Entry : Held(e) \subseteq Frame \ free
    /\ \A e, d \in Entry : e # d => Held(e) \cap Held(d) = {}

\* The page that vpn is translated to.
Translation(vpn) == {pte[EntryOf(vpn, l)].ppn : l \in {k \in Level : LeafAt(vpn, k)}}

\* A page that is mapped keeps its frame until it is unmapped: neither a page
\* fault nor a VMA that is populated puts another one in its place ("we do not
\* overwrite a deeper page with a more shallow (larger) one"), and a call that
\* fails takes nothing away.  Page 0 is the exception: PageInTheWay clears it.
KeepsMappings ==
    [][\A vpn \in Vpn \ {0} : Mapped(vpn) /\ pc # "unmap"
           => Translation(vpn)' = Translation(vpn)]_vars

\* However large the page that is chosen, only pages of the VMA become mapped
\* ("creates a new page inside @vma at @vpn", pt_vma_new_page_at_vpn).  The code
\* keeps to it if no VMA in the first pages is populated (HighPopulates).
StaysInVma ==
    [][\A vpn \in Vpn : ~Mapped(vpn) /\ Mapped(vpn)' => vpn \in Pages(job.vma)]_vars

\* When the page fault handler returns to the instruction that faulted, its
\* page is mapped: the instruction does not fault again.
FaultMaps ==
    [][\A vpn \in Vpn : job.by = "fault" /\ job.vpn = vpn /\ pc = "walk" /\ pc' = "idle"
           => Mapped(vpn)']_vars

\* Every call returns, the loop of pt_vma_unmap_pages too, although it goes
\* back whenever it meets a page that is not mapped.
CallsReturn == pc # "idle" ~> pc \in {"idle", "off"}

\* The page fault handler stops the machine ("no resources") only when there is
\* no frame left for the page or for a table it needs, or for what requirement 2
\* overlooks in the largest page that fits: a page mapped at its very beginning,
\* or, behind the beginning, a table that an earlier VMA has left.
FaultsServed ==
    [][job.by = "fault" /\ pc' = "off"
           => \/ free = {} /\ (pc = "page" \/ Missing # {})
              \/ \E l \in Level :
                    /\ Highest(l, {k \in Level : Fits(job.vma, job.vpn, k)})
                    /\ \/ Mapped(Boundary(job.vpn, l))
                       \/ /\ Boundary(job.vpn, job.page.level) # Boundary(job.vpn, l)
                          /\ pte[EntryOf(job.vpn, job.page.level)].kind = "table"]_vars

\* The callers populate no VMA in the lowest pages (only tests populate any), so
\* that an error does not take the loop below page 0.
HighPopulates == \A v \in Areas : v.populate => v.vpn >= EMAPPED

\* While a VMA is populated there is no gap behind the loop: wherever errors have
\* taken it, the pages of the VMA before job.vpn are mapped.
NoGapBehind ==
    job.by = "new" => \A vpn \in Pages(job.vma) : vpn < job.vpn => Mapped(vpn)

\* "creates a new VMA and maps it ... Returns 0 on success, -error on failure"
\* (pt_vma_new): when it returns 0, all the pages are mapped.  The code does not
\* keep to it, with memory left or not: an error takes the loop back, and before
\* the VMA no page fits, which is taken for the end.
PopulateMaps ==
    [][job.by = "new" /\ pc = "page" /\ pc' = "idle"
           => \A vpn \in Pages(job.vma) : Mapped(vpn)]_vars

\* "removes a VMA both from the linked list it is on and removes all its
\* mappings" (pt_vma_destroy).  The code does not, if a page was never touched.
DestroyUnmaps ==
    [][pc = "unmap" /\ pc' = "idle" => \A vpn \in Pages(job.vma) : ~Mapped(vpn)]_vars

=============================================================================
