--------------------------- MODULE PageTableProofs ---------------------------
(***************************************************************************)
(* One address space, for every number of levels, size of tables, memory,    *)
(* VMAs and every allocator.                                                 *)
(***************************************************************************)
EXTENDS PageTable, PageTreeProofs, TLAPS

-----------------------------------------------------------------------------
(***************************************************************************)
(* The inductive invariant.                                                 *)
(***************************************************************************)
\* A call that maps pages works in a VMA; a fault is at a page of it that is not
\* mapped, and stays unmapped until the walk is over.  An error in a VMA that is
\* populated does not take the loop below page 0.
JobInVma ==
    /\ pc \in {"page", "walk"} => job.by \in {"new", "fault"}
    /\ pc \notin {"page", "walk"} => job.by \in {"none", "unmap"}
    /\ pc \in {"page", "walk", "unmap"} => job.vma \in Areas
    /\ job.by = "fault" => job.vpn \in Pages(job.vma) /\ ~Mapped(job.vpn)
    /\ job.by = "new" => EMAPPED <= job.vma.vpn /\ 0 <= job.vpn

LargestFit(l) == Highest(l, {k \in Level : Fits(job.vma, job.vpn, k)})

\* The page on whose entry pt_set_pte_leaf works is around job.vpn, fits, and has
\* frames of its own; at the beginning of the largest page that fits its entry is
\* empty.
PageFound ==
    pc = "walk" /\ job.page.pte # NoPte =>
        /\ job.page.pte = Leaf(job.page.pte.ppn)
        /\ Fits(job.vma, job.vpn, job.page.level)
        /\ job.page.vpn = Boundary(job.vpn, job.page.level)
        /\ job.pagen = job.page.vpn + Size(job.page.level) - job.vpn
        /\ \E l \in Level : LargestFit(l)
        /\ \A l \in Level : LargestFit(l) /\ Boundary(job.vpn, l) = job.page.vpn
              => pte[EntryOf(job.page.vpn, job.page.level)] = NoPte

FramesOfPage ==
    pc = "walk" /\ job.page.pte # NoPte =>
        LET B == Block(job.page.pte.ppn, job.page.level)
        IN  B \subseteq Frame \ free /\ \A e \in Entry : Held(e) \cap B = {}

\* ... or it is the structure that PageInTheWay leaves behind.
PageZeroed ==
    pc = "walk" /\ job.page.pte = NoPte =>
        /\ job.page = NoPage /\ job.pagen = -EMAPPED
        /\ \E l \in Level : LargestFit(l) /\ Mapped(Boundary(job.vpn, l))

IInv ==
    /\ TypeOK
    /\ UnderTables
    /\ FramesHeldOnce
    /\ JobInVma
    /\ PageFound
    /\ FramesOfPage
    /\ PageZeroed
    /\ NoGapBehind

-----------------------------------------------------------------------------
(***************************************************************************)
(* Entries and frames.                                                      *)
(***************************************************************************)
LEMMA Kinds ==
    \A p \in PteType :
        /\ p.kind \in {"none", "table", "leaf"}
        /\ p = NoPte <=> p.kind = "none"
        /\ p # NoPte => p.ppn \in Frame /\ p \in [kind : {"table", "leaf"}, ppn : Frame]
BY DEF PteType, NoPte

\* The frames that an entry stands for.
LEMMA HeldBy ==
    ASSUME pte \in [Entry -> PteType], NEW e \in Entry
    PROVE  /\ pte[e] = NoPte => Held(e) = {}
           /\ pte[e].kind = "leaf" => Held(e) = Block(pte[e].ppn, e[1])
           /\ pte[e].kind = "table" => Held(e) = {pte[e].ppn}
BY DEF Held, NoPte

\* One entry gets other frames: they must be nobody else's.
LEMMA HoldsOnce ==
    ASSUME FramesHeldOnce, NEW d \in Entry, NEW S, S \subseteq Frame \ free',
           free' \subseteq free, \A e \in Entry : Held(e) \cap S = {},
           \A e \in Entry : Held(e)' = IF e = d THEN S ELSE Held(e)
    PROVE  FramesHeldOnce'
<1>1. \A e \in Entry : Held(e)' \subseteq Frame \ free'
      BY DEF FramesHeldOnce
<1>2. \A e, g \in Entry : e # g => Held(e)' \cap Held(g)' = {}
      BY DEF FramesHeldOnce
<1>. QED BY <1>1, <1>2 DEF FramesHeldOnce

-----------------------------------------------------------------------------
(***************************************************************************)
(* VMAs and the frames that are free.                                       *)
(***************************************************************************)
LEMMA VmaPages ==
    ASSUME NEW v \in Areas
    PROVE  v \in Vma /\ v.vpn \in Nat /\ v.pagen \in Nat /\ Pages(v) \subseteq Vpn
<1>1. v \in Vma /\ v.vpn + v.pagen <= Size(Levels) /\ Size(Levels) \in Nat
      BY PageTableAssumption, Sizes
<1>. QED BY <1>1 DEF Vma, Vpn, Pages

\* A page that fits lies in the VMA with all its pages.
LEMMA FitsInside ==
    ASSUME NEW v \in Areas, NEW x \in Int, 0 <= x, NEW l \in Level, Fits(v, x, l)
    PROVE  /\ x \in Pages(v) /\ x \in Vpn
           /\ Boundary(x, l) \in Pages(v) /\ Boundary(x, l) \in Vpn
           /\ \A y \in Int : Boundary(x, l) <= y /\ y < Boundary(x, l) + Size(l) => y \in Pages(v)
<1>1. v.vpn \in Nat /\ v.pagen \in Nat /\ Pages(v) \subseteq Vpn
      BY VmaPages
<1>2. /\ Boundary(x, l) \in Int /\ Boundary(x, l) <= x /\ x < Boundary(x, l) + Size(l)
      /\ Size(l) \in Nat \ {0}
      BY Boundaries, Sizes
<1>. QED BY <1>1, <1>2 DEF Fits, Pages

\* A call that maps pages is never below page 0: the page that fits around job.vpn
\* is where the tables look for it.
LEMMA NotBelow ==
    ASSUME IInv, pc \in {"page", "walk"}
    PROVE  /\ job.vma \in Areas /\ job.vpn \in Int /\ 0 <= job.vpn
           /\ \A l \in Level : PageAround(job.vpn, l) = Boundary(job.vpn, l)
<1>1. job.vma \in Areas /\ job.vpn \in Int /\ job.by \in {"new", "fault"}
      BY DEF IInv, TypeOK, JobType, JobInVma
<1>2. 0 <= job.vpn
  <2>1. CASE job.by = "new"
        BY <2>1 DEF IInv, JobInVma
  <2>2. CASE job.by = "fault"
        BY <1>1, <2>2, VmaPages DEF IInv, JobInVma, Pages
  <2>. QED BY <1>1, <2>1, <2>2
<1>. QED BY <1>1, <1>2, AroundIs

\* pt_alloc gives frames that are free.
LEMMA Allocated ==
    ASSUME free \subseteq Frame, NEW l \in Level, NEW f \in pt_alloc(l)
    PROVE  f \in Frame /\ f \in free /\ Block(f, l) \subseteq free
<1>1. FreeBlocks(l) \in SUBSET Frame
      BY DEF FreeBlocks
<1>2. f \in FreeBlocks(l)
      BY <1>1, PageTableAssumption DEF pt_alloc
<1>. QED BY <1>2 DEF FreeBlocks

\* A block of the lowest level is one frame.
LEMMA OneFrame == \A f \in Frame : Block(f, 0) = {f}
BY Sizes, PageTableAssumption DEF Block

-----------------------------------------------------------------------------
(***************************************************************************)
(* The call in progress.                                                    *)
(***************************************************************************)
LEMMA JobsTyped ==
    /\ NoPage \in [vpn : Vpn, level : Level, pte : PteType]
    /\ \A by \in {"none", "new", "fault", "unmap"}, v \in Areas \cup {NoVma}, x \in Int :
          Job(by, v, x) \in JobType
    /\ NoJob \in JobType
<1>1. 0 \in Vpn /\ 0 \in Level /\ NoPte \in PteType
      BY Sizes DEF Vpn, PteType
<1>2. NoPage \in [vpn : Vpn, level : Level, pte : PteType]
      BY <1>1 DEF NoPage
<1>3. \A by \in {"none", "new", "fault", "unmap"}, v \in Areas \cup {NoVma}, x \in Int :
          Job(by, v, x) \in JobType
      BY <1>2 DEF Job, JobType
<1>. QED BY <1>2, <1>3 DEF NoJob

\* A call has returned: nothing is left to say of it.
LEMMA Idle ==
    ASSUME job' = NoJob, pc' \in {"idle", "off"}
    PROVE  JobInVma' /\ PageFound' /\ FramesOfPage' /\ PageZeroed' /\ NoGapBehind'
<1>1. job'.by = "none" /\ pc' \notin {"page", "walk", "unmap"}
      BY DEF NoJob, Job
<1>2. JobInVma'
      BY <1>1 DEF JobInVma
<1>3. PageFound' /\ FramesOfPage' /\ PageZeroed'
      BY <1>1 DEF PageFound, FramesOfPage, PageZeroed
<1>4. NoGapBehind'
      BY <1>1 DEF NoGapBehind
<1>. QED BY <1>2, <1>3, <1>4

\* A call is about to find a page: it has none yet.
LEMMA Seeking ==
    ASSUME pc' = "page", NEW by \in {"new", "fault"}, NEW v \in Areas, NEW x \in Int,
           job' = Job(by, v, x), by = "fault" => x \in Pages(v) /\ ~Mapped(x)',
           by = "new" => EMAPPED <= v.vpn /\ 0 <= x
    PROVE  job' \in JobType /\ JobInVma' /\ PageFound' /\ FramesOfPage' /\ PageZeroed'
<1>1. job'.by = by /\ job'.vma = v /\ job'.vpn = x
      BY DEF Job
<1>2. job' \in JobType
      BY JobsTyped
<1>3. JobInVma'
  <2>1. Mapped(job.vpn)' = Mapped(x)'
        BY <1>1 DEF Mapped, LeafAt
  <2>. QED BY <1>1, <2>1 DEF JobInVma
<1>4. PageFound' /\ FramesOfPage' /\ PageZeroed'
      BY DEF PageFound, FramesOfPage, PageZeroed
<1>. QED BY <1>2, <1>3, <1>4

\* main has made the root table and the list of VMAs.
LEMMA InitIInv == Init => IInv
<1>. SUFFICES ASSUME Init PROVE IInv
     OBVIOUS
<1>1. /\ pte \in [Entry -> PteType] /\ \A e \in Entry : pte[e] = NoPte
      /\ job = NoJob /\ pc = "idle" /\ free = Frame /\ vmas = <<>>
      BY DEF Init, PteType
<1>2. TypeOK
      BY <1>1, JobsTyped DEF TypeOK
<1>3. UnderTables
      BY <1>1 DEF UnderTables
<1>4. FramesHeldOnce
      BY <1>1, HeldBy DEF FramesHeldOnce
<1>5. job.by = "none"
      BY <1>1 DEF NoJob, Job
<1>6. JobInVma /\ PageFound /\ FramesOfPage /\ PageZeroed /\ NoGapBehind
      BY <1>1, <1>5 DEF JobInVma, PageFound, FramesOfPage, PageZeroed, NoGapBehind
<1>. QED BY <1>2, <1>3, <1>4, <1>6 DEF IInv

\* Nothing but the list of VMAs, the program counter and the job changes.
LEMMA TablesKept ==
    ASSUME IInv, UNCHANGED pte, free' \subseteq free
    PROVE  /\ UnderTables' /\ FramesHeldOnce' /\ pte' \in [Entry -> PteType] /\ free' \subseteq Frame
           /\ \A x : Mapped(x)' = Mapped(x)
<1>1. UnderTables'
      BY DEF IInv, UnderTables
<1>2. \A e \in Entry : Held(e)' = Held(e)
      BY DEF Held
<1>3. FramesHeldOnce'
      BY <1>2 DEF IInv, FramesHeldOnce
<1>. QED BY <1>1, <1>3 DEF IInv, TypeOK, Mapped, LeafAt

\* Memory goes elsewhere.
LEMMA ElsewhereIInv == IInv /\ Elsewhere => IInv'
<1>. SUFFICES ASSUME IInv, Elsewhere PROVE IInv'
     OBVIOUS
<1>1. free' \subseteq free
      BY DEF Elsewhere
<1>2. /\ UnderTables' /\ FramesHeldOnce' /\ pte' \in [Entry -> PteType] /\ free' \subseteq Frame
      /\ \A x : Mapped(x)' = Mapped(x)
      BY <1>1, TablesKept DEF Elsewhere
<1>3. TypeOK'
      BY <1>2 DEF Elsewhere, IInv, TypeOK
<1>4. JobInVma'
  <2>1. Mapped(job.vpn)' = Mapped(job.vpn)
        BY DEF Elsewhere, Mapped, LeafAt
  <2>. QED BY <2>1 DEF IInv, JobInVma, Elsewhere
<1>5. PageFound' /\ FramesOfPage' /\ PageZeroed'
      BY DEF Elsewhere, PageFound, FramesOfPage, PageZeroed
<1>6. NoGapBehind'
      BY DEF IInv, JobInVma, NoGapBehind, Elsewhere
<1>. QED BY <1>2, <1>3, <1>4, <1>5, <1>6 DEF IInv

\* A new VMA.
LEMMA NewVmaIInv ==
    ASSUME HighPopulates, IInv, NEW v \in Areas, pt_vma_new(v)
    PROVE  IInv'
<1>1. /\ UnderTables' /\ FramesHeldOnce' /\ pte' \in [Entry -> PteType] /\ free' \subseteq Frame
      /\ \A x : Mapped(x)' = Mapped(x)
      BY TablesKept DEF pt_vma_new
<1>2. vmas' \in Seq(Areas)
      BY DEF IInv, TypeOK, pt_vma_new, pt_alloc_vma
<1>3. v.vpn \in Nat
      BY VmaPages
<1>4. CASE v.populate
  <2>1. pc' = "page" /\ job' = Job("new", v, v.vpn)
        BY <1>4 DEF pt_vma_new
  <2>6. EMAPPED <= v.vpn
        BY <1>4 DEF HighPopulates
  <2>2. job' \in JobType /\ JobInVma' /\ PageFound' /\ FramesOfPage' /\ PageZeroed'
        BY <1>3, <2>1, <2>6, Seeking
  <2>3. job'.vma = v /\ job'.vpn = v.vpn
        BY <2>1 DEF Job
  <2>4. NoGapBehind'
        BY <1>3, <2>3, VmaPages DEF NoGapBehind, Pages
  <2>5. TypeOK'
        BY <1>1, <1>2, <2>1, <2>2 DEF TypeOK
  <2>. QED BY <1>1, <2>2, <2>4, <2>5 DEF IInv
<1>5. CASE ~v.populate
  <2>1. pc' = "idle" /\ job' = job /\ job.by \in {"none", "unmap"} /\ pc = "idle"
        BY <1>5 DEF pt_vma_new, IInv, JobInVma
  <2>2. TypeOK'
        BY <1>1, <1>2, <2>1 DEF IInv, TypeOK
  <2>3. JobInVma' /\ NoGapBehind'
        BY <2>1 DEF JobInVma, NoGapBehind
  <2>4. PageFound' /\ FramesOfPage' /\ PageZeroed'
        BY <2>1 DEF PageFound, FramesOfPage, PageZeroed
  <2>. QED BY <1>1, <2>2, <2>3, <2>4 DEF IInv
<1>. QED BY <1>4, <1>5

\* A page fault begins.
LEMMA PageFaultIInv == ASSUME IInv, NEW x \in Vpn, PageFault(x) PROVE IInv'
<1>1. /\ UnderTables' /\ FramesHeldOnce' /\ pte' \in [Entry -> PteType] /\ free' \subseteq Frame
      /\ ~Mapped(x)'
      BY TablesKept DEF PageFault
<1>2. PICK i \in DOMAIN vmas : vpn2vma(x, i) /\ job' = Job("fault", vmas[i], x)
      BY DEF PageFault
<1>3. vmas[i] \in Areas /\ x \in Pages(vmas[i]) /\ x \in Int
      BY <1>2, EntriesAre DEF IInv, TypeOK, vpn2vma
<1>4. pc' = "page" /\ UNCHANGED vmas
      BY DEF PageFault
<1>5. job' \in JobType /\ JobInVma' /\ PageFound' /\ FramesOfPage' /\ PageZeroed'
      BY <1>1, <1>2, <1>3, <1>4, Seeking
<1>6. job'.by = "fault"
      BY <1>2 DEF Job
<1>7. NoGapBehind'
      BY <1>6 DEF NoGapBehind
<1>8. TypeOK'
      BY <1>1, <1>4, <1>5 DEF IInv, TypeOK
<1>. QED BY <1>1, <1>5, <1>7, <1>8 DEF IInv

\* A call returns r, having left the tables in order.
LEMMA Returns ==
    ASSUME IInv, pc \in {"page", "walk"}, NEW r \in Int, Return(r), UNCHANGED vmas,
           UnderTables', FramesHeldOnce', pte' \in [Entry -> PteType], free' \subseteq Frame,
           job.by = "new" /\ r # 0 => NoGapBehind' /\ 0 <= job.vpn + r
    PROVE  IInv'
<1>1. job.by \in {"new", "fault"} /\ job.vma \in Areas /\ job.vpn + r \in Int
      BY DEF IInv, JobInVma, TypeOK, JobType
<1>2. CASE job.by = "new" /\ r # 0
  <2>1. pc' = "page" /\ job' = Job("new", job.vma, job.vpn + r)
        BY <1>2 DEF Return
  <2>2. job' \in JobType /\ JobInVma' /\ PageFound' /\ FramesOfPage' /\ PageZeroed'
        BY <1>1, <1>2, <2>1, Seeking DEF IInv, JobInVma
  <2>3. TypeOK'
        BY <2>1, <2>2 DEF IInv, TypeOK
  <2>. QED BY <1>2, <2>2, <2>3 DEF IInv
<1>3. CASE ~(job.by = "new" /\ r # 0)
  <2>1. job' = NoJob /\ pc' \in {"idle", "off"}
        BY <1>1, <1>3 DEF Return
  <2>2. JobInVma' /\ PageFound' /\ FramesOfPage' /\ PageZeroed' /\ NoGapBehind'
        BY <2>1, Idle
  <2>3. TypeOK'
        BY <2>1, JobsTyped DEF IInv, TypeOK
  <2>. QED BY <2>2, <2>3 DEF IInv
<1>. QED BY <1>2, <1>3

\* No page: 0 is returned.
LEMMA NoNewPageIInv == IInv /\ NoNewPage => IInv'
<1>. SUFFICES ASSUME IInv, NoNewPage PROVE IInv'
     OBVIOUS
<1>1. pc = "page" /\ Return(0) /\ UNCHANGED <<vmas, pte, free>>
      BY DEF NoNewPage
<1>2. UnderTables' /\ FramesHeldOnce' /\ pte' \in [Entry -> PteType] /\ free' \subseteq Frame
      BY <1>1, TablesKept
<1>. QED BY <1>1, <1>2, Returns

\* pt_vma_new_page_at_vpn fills in the structure of the page.
LEMMA JobParts ==
    ASSUME job \in JobType, NEW p \in [vpn : Vpn, level : Level, pte : PteType], NEW n \in Int,
           job' = [job EXCEPT !.page = p, !.pagen = n]
    PROVE  /\ job' \in JobType
           /\ job'.by = job.by /\ job'.vma = job.vma /\ job'.vpn = job.vpn
           /\ job'.page = p /\ job'.pagen = n
BY DEF JobType

\* ... which leaves the call where it is.
LEMMA StillThere ==
    ASSUME IInv, pc = "page", pc' = "walk", UNCHANGED <<vmas, pte>>, free' \subseteq free,
           job' \in JobType, job'.by = job.by, job'.vma = job.vma, job'.vpn = job.vpn
    PROVE  /\ TypeOK' /\ UnderTables' /\ FramesHeldOnce' /\ JobInVma' /\ NoGapBehind'
           /\ \A x : Mapped(x)' = Mapped(x)
           /\ \A l : LargestFit(l)' = LargestFit(l)
<1>1. /\ UnderTables' /\ FramesHeldOnce' /\ pte' \in [Entry -> PteType] /\ free' \subseteq Frame
      /\ \A x : Mapped(x)' = Mapped(x)
      BY TablesKept
<1>2. TypeOK'
      BY <1>1 DEF IInv, TypeOK
<1>3. Mapped(job.vpn)' = Mapped(job.vpn)
      BY DEF Mapped, LeafAt
<1>4. JobInVma'
      BY <1>3 DEF IInv, JobInVma
<1>5. NoGapBehind'
  <2>1. Mapped(0)' = Mapped(0) /\ \A q \in Pages(job.vma) : Mapped(q)' = Mapped(q)
        BY <1>1
  <2>. QED BY <1>3, <2>1 DEF IInv, NoGapBehind
<1>6. \A l : LargestFit(l)' = LargestFit(l)
      BY DEF LargestFit
<1>. QED BY <1>1, <1>2, <1>4, <1>5, <1>6

LEMMA OneHighest ==
    ASSUME NEW S, S \subseteq Level, NEW l, NEW h, Highest(l, S), Highest(h, S)
    PROVE  l = h
<1>1. l \in Int /\ h \in Int
      BY Sizes DEF Highest
<1>. QED BY <1>1 DEF Highest

\* A page is found.
LEMMA NewPageIInv == IInv /\ NewPage => IInv'
<1>. SUFFICES ASSUME IInv, NewPage PROVE IInv'
     OBVIOUS
<1>1. PICK fit \in Level, empty \in Level, l \in Level :
          /\ Highest(fit, {k \in Level : Fits(job.vma, job.vpn, k)})
          /\ HighestEmpty(PageAround(job.vpn, fit), empty)
          /\ l <= fit /\ l <= empty
          /\ \E f \in pt_alloc(l) : FoundPage(l, f)
      BY DEF NewPage, Highest
<1>15. 0 <= job.vpn /\ \A k \in Level : PageAround(job.vpn, k) = Boundary(job.vpn, k)
      BY NotBelow DEF NewPage
<1>0. PICK f \in pt_alloc(l) : FoundPage(l, f)
      BY <1>1
<1>. DEFINE B == Boundary(job.vpn, l)
            p == [vpn |-> B, level |-> l, pte |-> Leaf(f)]
            n == B + Size(l) - job.vpn
<1>2. /\ pc = "page" /\ pc' = "walk" /\ UNCHANGED <<vmas, pte>> /\ free' = free \ Block(f, l)
      /\ job' = [job EXCEPT !.page = p, !.pagen = n]
  <2>1. /\ pc = "page" /\ pc' = "walk" /\ UNCHANGED <<vmas, pte>> /\ free' = free \ Block(f, l)
        /\ job' = [job EXCEPT !.page = [vpn |-> PageAround(job.vpn, l), level |-> l, pte |-> Leaf(f)],
                              !.pagen = n]
        BY <1>0 DEF NewPage, FoundPage
  <2>2. PageAround(job.vpn, l) = B
        BY <1>15
  <2>. QED BY ONLY <2>1, <2>2
<1>3. job \in JobType /\ job.vma \in Areas /\ job.vpn \in Int /\ free \subseteq Frame
      BY <1>2 DEF IInv, TypeOK, JobInVma, JobType
<1>4. Fits(job.vma, job.vpn, fit) /\ Fits(job.vma, job.vpn, l)
      BY <1>1, <1>3, <1>15, VmaPages, FitsBelow DEF Highest
<1>5. B \in Vpn /\ B \in Int /\ Size(l) \in Nat
      BY <1>3, <1>4, <1>15, FitsInside, Boundaries, Sizes
<1>6. f \in Frame /\ Block(f, l) \subseteq free
      BY <1>0, <1>3, Allocated
<1>7. /\ Leaf(f) \in PteType /\ Leaf(f) # NoPte /\ Leaf(f).ppn = f
      BY <1>6 DEF Leaf, NoPte, PteType
<1>8. p \in [vpn : Vpn, level : Level, pte : PteType] /\ n \in Int
      BY <1>3, <1>5, <1>7
<1>9. /\ p.vpn = B /\ p.level = l /\ p.pte = Leaf(f)
      OBVIOUS
<1>10. /\ job' \in JobType
       /\ job'.by = job.by /\ job'.vma = job.vma /\ job'.vpn = job.vpn
       /\ job'.page = p /\ job'.pagen = n
  <2>. HIDE DEF p, n
  <2>. QED BY <1>2, <1>3, <1>8, JobParts
<1>. HIDE DEF p
<1>11. /\ TypeOK' /\ UnderTables' /\ FramesHeldOnce' /\ JobInVma' /\ NoGapBehind'
       /\ \A k : LargestFit(k)' = LargestFit(k)
       BY <1>2, <1>10, StillThere
<1>12. PageFound'
  <2>1. ASSUME NEW k \in Level, LargestFit(k), Boundary(job.vpn, k) = B
        PROVE  pte[EntryOf(B, l)] = NoPte
    <3>1. k = fit
      <4>. DEFINE S == {j \in Level : Fits(job.vma, job.vpn, j)}
      <4>1. Highest(k, S) /\ Highest(fit, S) /\ S \subseteq Level
            BY <1>1, <2>1 DEF LargestFit
      <4>. HIDE DEF S
      <4>. QED BY <4>1, OneHighest
    <3>2. pte[EntryOf(B, empty)] = NoPte
          BY <1>1, <1>15, <2>1, <3>1 DEF HighestEmpty
    <3>3. l = empty \/ empty > l
          BY <1>1, Sizes
    <3>4. CASE empty > l
          BY <1>5, <3>2, <3>4, ByPage DEF IInv, NoPte, TablesAbove
    <3>. QED BY <3>2, <3>3, <3>4
  <2>2. \A k \in Level : LargestFit(k)' /\ Boundary(job'.vpn, k) = job'.page.vpn
              => pte'[EntryOf(job'.page.vpn, job'.page.level)] = NoPte
        BY <1>2, <1>9, <1>10, <1>11, <2>1
  <2>3. /\ job'.page.pte = Leaf(job'.page.pte.ppn)
        /\ Fits(job'.vma, job'.vpn, job'.page.level)
        /\ job'.page.vpn = Boundary(job'.vpn, job'.page.level)
        /\ job'.pagen = job'.page.vpn + Size(job'.page.level) - job'.vpn
        BY <1>4, <1>7, <1>9, <1>10
  <2>4. LargestFit(fit)'
        BY <1>1, <1>11 DEF LargestFit
  <2>. QED BY <2>2, <2>3, <2>4 DEF PageFound
<1>13. FramesOfPage'
  <2>1. \A e \in Entry : Held(e)' = Held(e)
        BY <1>2 DEF Held
  <2>2. \A e \in Entry : Held(e) \subseteq Frame \ free
        BY DEF IInv, FramesHeldOnce
  <2>3. Block(f, l) \subseteq Frame \ free' /\ \A e \in Entry : Held(e)' \cap Block(f, l) = {}
        BY <1>2, <1>3, <1>6, <2>1, <2>2
  <2>. QED BY <1>7, <1>9, <1>10, <2>3 DEF FramesOfPage
<1>14. PageZeroed'
       BY <1>7, <1>9, <1>10 DEF PageZeroed
<1>. QED BY <1>11, <1>12, <1>13, <1>14 DEF IInv

\* The page that fits begins with a page that is mapped.
LEMMA PageInTheWayIInv == IInv /\ PageInTheWay => IInv'
<1>. SUFFICES ASSUME IInv, PageInTheWay PROVE IInv'
     OBVIOUS
<1>1. PICK fit \in Level : LargestFit(fit) /\ Mapped(Boundary(job.vpn, fit))
      BY NotBelow DEF PageInTheWay, LargestFit
<1>2. /\ pc = "page" /\ pc' = "walk" /\ UNCHANGED <<vmas, pte, free>>
      /\ job' = [job EXCEPT !.page = NoPage, !.pagen = -EMAPPED]
      BY DEF PageInTheWay
<1>3. job \in JobType /\ -EMAPPED \in Int
      BY DEF IInv, TypeOK, EMAPPED
<1>4. /\ job' \in JobType
      /\ job'.by = job.by /\ job'.vma = job.vma /\ job'.vpn = job.vpn
      /\ job'.page = NoPage /\ job'.pagen = -EMAPPED
  <2>. HIDE DEF NoPage
  <2>. QED BY <1>2, <1>3, JobParts, JobsTyped
<1>5. /\ TypeOK' /\ UnderTables' /\ FramesHeldOnce' /\ JobInVma' /\ NoGapBehind'
      /\ \A x : Mapped(x)' = Mapped(x)
      /\ \A k : LargestFit(k)' = LargestFit(k)
      BY <1>2, <1>4, StillThere
<1>6. NoPage.pte = NoPte
      BY DEF NoPage
<1>7. PageFound' /\ FramesOfPage'
      BY <1>4, <1>6 DEF PageFound, FramesOfPage
<1>8. Mapped(Boundary(job.vpn, fit))'
      BY <1>1, <1>2 DEF Mapped, LeafAt
<1>9. PageZeroed'
      BY <1>1, <1>4, <1>5, <1>8 DEF PageZeroed
<1>. QED BY <1>5, <1>7, <1>9 DEF IInv

-----------------------------------------------------------------------------
(***************************************************************************)
(* The walk.                                                                *)
(***************************************************************************)
LEMMA AtWalk ==
    ASSUME IInv, pc = "walk"
    PROVE  /\ job \in JobType /\ job.vma \in Areas /\ job.vpn \in Int /\ job.pagen \in Int
           /\ job.page.vpn \in Vpn /\ job.page.level \in Level /\ job.page.pte \in PteType
           /\ job.vpn \in Pages(job.vma) /\ job.vpn \in Vpn /\ 0 <= job.vpn
           /\ job.page.pte # NoPte => \A h \in Level :
                 job.page.level <= h => EntryOf(job.page.vpn, h) = EntryOf(job.vpn, h)
<1>1. /\ job \in JobType /\ job.vma \in Areas /\ job.vpn \in Int /\ job.pagen \in Int
      /\ job.page.vpn \in Vpn /\ job.page.level \in Level /\ job.page.pte \in PteType
      BY DEF IInv, TypeOK, JobType, JobInVma
<1>2. \E l \in Level : Fits(job.vma, job.vpn, l)
  <2>1. CASE job.page.pte # NoPte
        BY <1>1, <2>1 DEF IInv, PageFound
  <2>2. CASE job.page.pte = NoPte
        BY <2>2 DEF IInv, PageZeroed, LargestFit, Highest
  <2>. QED BY <2>1, <2>2
<1>3. job.vpn \in Pages(job.vma) /\ job.vpn \in Vpn /\ 0 <= job.vpn
      BY <1>1, <1>2, NotBelow, FitsInside
<1>4. ASSUME job.page.pte # NoPte, NEW h \in Level, job.page.level <= h
      PROVE  EntryOf(job.page.vpn, h) = EntryOf(job.vpn, h)
      BY <1>1, <1>4, Nested DEF IInv, PageFound
<1>. QED BY <1>1, <1>3, <1>4

\* The loop of __pt_vma_new after an error: r is negative, but not below -EMAPPED.
LEMMA GoesBack ==
    ASSUME IInv, pc = "walk", job.by = "new", NEW r \in Int, -EMAPPED <= r, r < 0, Return(r),
           \A q \in Vpn \ {0} : Mapped(q) => Mapped(q)'
    PROVE  NoGapBehind' /\ 0 <= job.vpn + r
<1>1. job' = Job("new", job.vma, job.vpn + r)
      BY DEF Return
<1>2. job'.by = "new" /\ job'.vma = job.vma /\ job'.vpn = job.vpn + r
      BY <1>1 DEF Job
<1>3. /\ job.vma \in Areas /\ job.vpn \in Int /\ job.vpn \in Pages(job.vma)
      /\ Pages(job.vma) \subseteq Vpn /\ job.vma.vpn \in Nat /\ job.vma.pagen \in Nat
      BY AtWalk, VmaPages
<1>4. EMAPPED = 4 /\ EMAPPED <= job.vma.vpn
      BY DEF EMAPPED, IInv, JobInVma
<1>5. ASSUME NEW q \in Pages(job.vma), q < job.vpn + r PROVE Mapped(q)'
  <2>1. q < job.vpn /\ q # 0
        BY <1>3, <1>4, <1>5 DEF Pages
  <2>. QED BY <1>3, <1>5, <2>1 DEF IInv, NoGapBehind
<1>6. 0 <= job.vpn + r
      BY <1>3, <1>4 DEF Pages
<1>. QED BY <1>2, <1>5, <1>6 DEF NoGapBehind

\* A table is added on the way: it hides and uncovers nothing.
LEMMA TableAdded ==
    ASSUME IInv, pt_set_pte_nonleaf
    PROVE  /\ UnderTables'
           /\ \A y \in Vpn, k \in Level : LeafAt(y, k) =>
                 LeafAt(y, k)' /\ pte'[EntryOf(y, k)] = pte[EntryOf(y, k)]
           /\ \A y \in Vpn, k \in Level : LeafAt(y, k)' => LeafAt(y, k)
           /\ \E h \in Level, f \in Frame :
                 /\ h > job.page.level
                 /\ pte[EntryOf(job.page.vpn, h)] = NoPte
                 /\ pte' = [pte EXCEPT ![EntryOf(job.page.vpn, h)] = Table(f)]
                 /\ f \in free /\ free' = free \ {f}
<1>. DEFINE x == job.page.vpn
            l == job.page.level
<1>1. pc = "walk" /\ UNCHANGED <<vmas, pc, job>>
      BY DEF pt_set_pte_nonleaf
<1>2. PICK h \in Missing, f \in pt_alloc(0) :
          /\ Highest(h, Missing)
          /\ pte[EntryOf(x, h)] = NoPte
          /\ pte' = [pte EXCEPT ![EntryOf(x, h)] = Table(f)]
          /\ free' = free \ {f}
      BY DEF pt_set_pte_nonleaf
<1>3. x \in Vpn /\ l \in Level /\ pte \in [Entry -> PteType] /\ free \subseteq Frame
      BY <1>1, AtWalk DEF IInv, TypeOK
<1>4. h \in Level /\ h > l
      BY <1>2 DEF Missing
<1>5. \A k \in Level : k > h => pte[EntryOf(x, k)].kind = "table"
  <2>1. \A k \in Level : k \in Int
        BY ONLY Sizes
  <2>. QED BY <1>2, <1>3, <1>4, <2>1 DEF Missing, Highest
<1>6. f \in Frame /\ f \in free
      BY <1>2, <1>3, Sizes, Allocated
<1>7. Table(f) \in PteType \ {NoPte} /\ Table(f).kind = "table"
      BY <1>6 DEF Table, NoPte, PteType
<1>8. /\ UnderTables'
      /\ \A y \in Vpn, k \in Level : LeafAt(y, k) =>
            LeafAt(y, k)' /\ pte'[EntryOf(y, k)] = pte[EntryOf(y, k)]
      /\ \A y \in Vpn, k \in Level : LeafAt(y, k)' => LeafAt(y, k)
  <2>. DEFINE p == Table(f)
  <2>1. p \in PteType \ {NoPte} /\ p.kind = "table" /\ UnderTables
        BY <1>7 DEF IInv
  <2>2. Puts(x, h, p)
        BY <1>2 DEF Puts
  <2>. HIDE DEF p, x
  <2>3. Adds(x, h, p)
        BY <1>2, <1>3, <1>4, <1>5, <2>1, <2>2, SetEntry
  <2>. QED BY <2>1, <2>3 DEF Adds
<1>. QED BY <1>2, <1>4, <1>6, <1>8

LEMMA NonleafIInv == IInv /\ pt_set_pte_nonleaf => IInv'
<1>. SUFFICES ASSUME IInv, pt_set_pte_nonleaf PROVE IInv'
     OBVIOUS
<1>. DEFINE x == job.page.vpn
            l == job.page.level
<1>1. pc = "walk" /\ UNCHANGED <<vmas, pc, job>>
      BY DEF pt_set_pte_nonleaf
<1>2. PICK h \in Level, f \in Frame :
          /\ h > l
          /\ pte[EntryOf(x, h)] = NoPte
          /\ pte' = [pte EXCEPT ![EntryOf(x, h)] = Table(f)]
          /\ f \in free /\ free' = free \ {f}
      BY TableAdded
<1>3. /\ job.vma \in Areas /\ job.vpn \in Int /\ x \in Vpn /\ l \in Level
      /\ job.vpn \in Vpn /\ Pages(job.vma) \subseteq Vpn
      /\ pte \in [Entry -> PteType] /\ free \subseteq Frame
      BY <1>1, AtWalk, VmaPages DEF IInv, TypeOK
<1>4. h \in Level /\ h > l
      BY <1>2
<1>6. f \in Frame /\ f \in free
      BY <1>2
<1>7. Table(f) \in PteType \ {NoPte} /\ Table(f).kind = "table" /\ Table(f).ppn = f
      BY <1>6 DEF Table, NoPte, PteType
<1>8. /\ UnderTables'
      /\ \A y \in Vpn, k \in Level : LeafAt(y, k) => LeafAt(y, k)'
      /\ \A y \in Vpn, k \in Level : LeafAt(y, k)' => LeafAt(y, k)
      BY TableAdded
<1>9. \A y \in Vpn : Mapped(y)' <=> Mapped(y)
      BY <1>8 DEF Mapped
<1>10. EntryOf(x, h) \in Entry
       BY <1>3, <1>4, EntriesAre
<1>11. \A e \in Entry : Held(e)' = IF e = EntryOf(x, h) THEN {f} ELSE Held(e)
       BY <1>2, <1>3, <1>7, <1>10 DEF Held
<1>12. \A e \in Entry : Held(e) \cap {f} = {}
       BY <1>6 DEF IInv, FramesHeldOnce
<1>13. FramesHeldOnce'
       BY <1>2, <1>6, <1>10, <1>11, <1>12, HoldsOnce DEF IInv
<1>14. TypeOK'
       BY <1>1, <1>2, <1>3, <1>7, <1>10 DEF IInv, TypeOK
<1>15. JobInVma'
  <2>1. Mapped(job.vpn)' <=> Mapped(job.vpn)
        BY <1>1, <1>3, <1>9 DEF Mapped, LeafAt
  <2>. QED BY <1>1, <2>1 DEF IInv, JobInVma
<1>16. PageFound'
  <2>1. EntryOf(x, h) # EntryOf(x, l)
        BY <1>4, Sizes DEF EntryOf
  <2>2. pte'[EntryOf(x, l)] = pte[EntryOf(x, l)]
        BY <1>2, <1>3, <2>1, EntriesAre
  <2>. QED BY <1>1, <2>2 DEF IInv, PageFound, LargestFit
<1>17. FramesOfPage'
       BY <1>1, <1>2, <1>6, <1>11 DEF IInv, FramesOfPage
<1>18. PageZeroed'
  <2>1. ASSUME NEW k \in Level, LargestFit(k), Mapped(Boundary(job.vpn, k))
        PROVE  Mapped(Boundary(job.vpn, k))'
    <3>1. PICK y \in Vpn : y = Boundary(job.vpn, k)
          BY <1>1, <1>3, <2>1, AtWalk, FitsInside DEF LargestFit, Highest
    <3>2. Mapped(y)'
          BY <1>9, <2>1, <3>1
    <3>. QED BY <1>1, <3>1, <3>2 DEF Mapped, LeafAt
  <2>. QED BY <1>1, <2>1 DEF IInv, PageZeroed, LargestFit
<1>19. NoGapBehind'
  <2>1. Mapped(job.vpn)' <=> Mapped(job.vpn)
        BY <1>1, <1>3, <1>9 DEF Mapped, LeafAt
  <2>. QED BY <1>1, <1>3, <1>9, <2>1 DEF IInv, NoGapBehind
<1>. QED BY <1>8, <1>13, <1>14, <1>15, <1>16, <1>17, <1>18, <1>19 DEF IInv

\* The walk fails.
LEMMA WalkFailsIInv == IInv /\ WalkFails => IInv'
<1>. SUFFICES ASSUME IInv, WalkFails PROVE IInv'
     OBVIOUS
<1>1. pc = "walk" /\ UNCHANGED <<vmas, pte, free>>
      BY DEF WalkFails
<1>2. PICK r \in {-EMAPPED, -ENORESOURCES} : Return(r)
      BY DEF WalkFails
<1>3. r \in Int /\ r < 0
      BY <1>2 DEF EMAPPED, ENORESOURCES
<1>6. -EMAPPED <= r
      BY <1>2 DEF EMAPPED, ENORESOURCES
<1>4. /\ UnderTables' /\ FramesHeldOnce' /\ pte' \in [Entry -> PteType] /\ free' \subseteq Frame
      /\ \A x : Mapped(x)' = Mapped(x)
      BY <1>1, TablesKept
<1>5. job.by = "new" => NoGapBehind' /\ 0 <= job.vpn + r
      BY <1>1, <1>2, <1>3, <1>4, <1>6, GoesBack
<1>. QED BY <1>1, <1>2, <1>3, <1>4, <1>5, Returns

\* The end of the walk, the entry being empty: the page is there, and nothing
\* else has changed.
LEMMA LeafSet ==
    ASSUME IInv, pt_set_pte_leaf, job.page.pte # NoPte,
           pte[EntryOf(job.page.vpn, job.page.level)] = NoPte
    PROVE  /\ UnderTables' /\ FramesHeldOnce' /\ pte' \in [Entry -> PteType]
           /\ Return(job.pagen) /\ UNCHANGED <<vmas, free>>
           /\ \A y \in Vpn, k \in Level : LeafAt(y, k) =>
                 LeafAt(y, k)' /\ pte'[EntryOf(y, k)] = pte[EntryOf(y, k)]
           /\ \A y \in Vpn, k \in Level : LeafAt(y, k)' =>
                 \/ LeafAt(y, k)
                 \/ k = job.page.level /\ EntryOf(y, k) = EntryOf(job.page.vpn, k)
           /\ \A y \in Vpn : EntryOf(y, job.page.level) = EntryOf(job.page.vpn, job.page.level)
                 => Mapped(y)'
<1>1. pc = "walk" /\ Missing = {} /\ Return(job.pagen) /\ UNCHANGED <<vmas, free>>
      BY DEF pt_set_pte_leaf
<1>2. PICK x \in Vpn, l \in Level, p \in PteType :
          /\ x = job.page.vpn /\ l = job.page.level /\ p = job.page.pte
          /\ p # NoPte /\ pte[EntryOf(x, l)] = NoPte
          /\ pte' = [pte EXCEPT ![EntryOf(x, l)] = p]
      BY <1>1, AtWalk DEF pt_set_pte_leaf
<1>3. pte \in [Entry -> PteType] /\ free \subseteq Frame /\ EntryOf(x, l) \in Entry
      BY EntriesAre DEF IInv, TypeOK
<1>4. p.kind = "leaf"
      BY <1>1, <1>2 DEF IInv, PageFound, Leaf
<1>5. \A h \in Level : h > l => pte[EntryOf(x, h)].kind = "table"
      BY <1>1, <1>2 DEF Missing
<1>6. /\ UnderTables'
      /\ \A y \in Vpn, k \in Level : LeafAt(y, k) =>
            LeafAt(y, k)' /\ pte'[EntryOf(y, k)] = pte[EntryOf(y, k)]
      /\ \A y \in Vpn, k \in Level : LeafAt(y, k)' =>
            LeafAt(y, k) \/ (k = l /\ EntryOf(y, l) = EntryOf(x, l))
      /\ \A y \in Vpn : EntryOf(y, l) = EntryOf(x, l) => LeafAt(y, l)'
  <2>1. p \in PteType \ {NoPte} /\ UnderTables
        BY <1>2 DEF IInv
  <2>2. pte[EntryOf(x, l)] = NoPte /\ Puts(x, l, p)
        BY <1>2 DEF Puts
  <2>3. Adds(x, l, p)
        BY <1>3, <1>5, <2>1, <2>2, SetEntry
  <2>. QED BY <1>4, <2>3 DEF Adds
<1>7. /\ Block(p.ppn, l) \subseteq Frame \ free
      /\ \A e \in Entry : Held(e) \cap Block(p.ppn, l) = {}
      BY <1>1, <1>2 DEF IInv, FramesOfPage
<1>8. EntryOf(x, l)[1] = l
      BY DEF EntryOf
<1>9. \A e \in Entry : Held(e)' = IF e = EntryOf(x, l) THEN Block(p.ppn, l) ELSE Held(e)
      BY <1>2, <1>3, <1>4, <1>8 DEF Held
<1>10. FramesHeldOnce'
       BY <1>1, <1>3, <1>7, <1>9, HoldsOnce DEF IInv
<1>11. pte' \in [Entry -> PteType]
       BY <1>2, <1>3
<1>12. \A y \in Vpn : EntryOf(y, l) = EntryOf(x, l) => Mapped(y)'
       BY <1>6 DEF Mapped
<1>. QED BY <1>1, <1>2, <1>6, <1>10, <1>11, <1>12

\* ... or, after PageInTheWay, the entry of page 0 is cleared.
LEMMA PageCleared ==
    ASSUME IInv, pt_set_pte_leaf, job.page.pte = NoPte
    PROVE  /\ UnderTables' /\ FramesHeldOnce' /\ pte' \in [Entry -> PteType]
           /\ Return(-EMAPPED) /\ UNCHANGED <<vmas, free>>
           /\ \A y \in Vpn \ {0}, k \in Level : LeafAt(y, k) =>
                 LeafAt(y, k)' /\ pte'[EntryOf(y, k)] = pte[EntryOf(y, k)]
           /\ \A y \in Vpn, k \in Level : LeafAt(y, k)' => LeafAt(y, k)
<1>1. pc = "walk" /\ UNCHANGED <<vmas, free>>
      BY DEF pt_set_pte_leaf
<1>2. job.page.vpn = 0 /\ job.page.level = 0 /\ job.pagen = -EMAPPED
      BY <1>1 DEF IInv, PageZeroed, NoPage
<1>3. Return(-EMAPPED) /\ pte' = [pte EXCEPT ![EntryOf(0, 0)] = NoPte]
      BY <1>2 DEF pt_set_pte_leaf
<1>4. /\ pte \in [Entry -> PteType] /\ 0 \in Vpn /\ 0 \in Level
      /\ EntryOf(0, 0) \in Entry /\ NoPte \in PteType
      BY Sizes, EntriesAre DEF IInv, TypeOK, Vpn, PteType
<1>5. /\ UnderTables'
      /\ \A y \in Vpn, k \in Level : LeafAt(y, k)' => LeafAt(y, k)
      /\ \A y \in Vpn, k \in Level : LeafAt(y, k) /\ EntryOf(y, k) # EntryOf(0, 0) =>
            LeafAt(y, k)' /\ pte'[EntryOf(y, k)] = pte[EntryOf(y, k)]
  <2>1. UnderTables
        BY DEF IInv
  <2>2. PICK z \in Vpn, m \in Level : z = 0 /\ m = 0
        BY <1>4
  <2>3. /\ pte \in [Entry -> PteType] /\ UnderTables
        /\ pte[EntryOf(z, m)].kind # "table" \/ m = 0
        /\ Clears(z, m)
        BY <1>3, <1>4, <2>1, <2>2 DEF Clears
  <2>4. Loses(z, m)
        BY ONLY <2>3, ClearEntry, z \in Vpn, m \in Level
  <2>. QED BY ONLY <2>2, <2>4 DEF Loses
<1>6. \A y \in Vpn \ {0}, k \in Level : EntryOf(y, k) # EntryOf(0, 0)
  <2>1. EntryOf(0, 0) = <<0, 0>> /\ \A y \in Vpn : EntryOf(y, 0) = <<0, y>>
        BY LowestLevel, EntriesAre
  <2>2. \A y \in Vpn, k \in Level : EntryOf(y, k)[1] = k
        BY DEF EntryOf
  <2>. QED BY <2>1, <2>2
<1>7. \A e \in Entry : Held(e)' = IF e = EntryOf(0, 0) THEN {} ELSE Held(e)
      BY <1>3, <1>4 DEF Held, NoPte
<1>8. FramesHeldOnce'
  <2>. DEFINE S == {}
  <2>1. /\ S \subseteq Frame \ free' /\ \A e \in Entry : Held(e) \cap S = {}
        /\ \A e \in Entry : Held(e)' = IF e = EntryOf(0, 0) THEN S ELSE Held(e)
        BY <1>7
  <2>. HIDE DEF S
  <2>. QED BY <1>1, <1>4, <2>1, HoldsOnce DEF IInv
<1>9. pte' \in [Entry -> PteType]
      BY <1>3, <1>4
<1>. QED BY <1>1, <1>3, <1>5, <1>6, <1>8, <1>9

\* The end of the walk.
LEMMA SetLeafIInv == IInv /\ pt_set_pte_leaf => IInv'
<1>. SUFFICES ASSUME IInv, pt_set_pte_leaf PROVE IInv'
     OBVIOUS
<1>1. pc = "walk" /\ UNCHANGED <<vmas, free>> /\ free \subseteq Frame
      BY DEF pt_set_pte_leaf, IInv, TypeOK
<1>. DEFINE e == EntryOf(job.page.vpn, job.page.level)
<1>2. -EMAPPED \in Int /\ -EMAPPED < 0 /\ -EMAPPED <= -EMAPPED
      BY DEF EMAPPED
<1>3. CASE pte[e] # NoPte /\ job.page.pte # NoPte
  <2>1. Return(-EMAPPED) /\ UNCHANGED pte
        BY <1>3 DEF pt_set_pte_leaf
  <2>2. /\ UnderTables' /\ FramesHeldOnce' /\ pte' \in [Entry -> PteType] /\ free' \subseteq Frame
        /\ \A x : Mapped(x)' = Mapped(x)
        BY <1>1, <2>1, TablesKept
  <2>3. job.by = "new" => NoGapBehind' /\ 0 <= job.vpn + (-EMAPPED)
        BY <1>1, <1>2, <2>1, <2>2, GoesBack
  <2>. QED BY <1>1, <1>2, <2>1, <2>2, <2>3, Returns
<1>4. CASE job.page.pte = NoPte
  <2>1. /\ UnderTables' /\ FramesHeldOnce' /\ pte' \in [Entry -> PteType] /\ Return(-EMAPPED)
        /\ \A y \in Vpn \ {0}, k \in Level : LeafAt(y, k) => LeafAt(y, k)'
        BY <1>4, PageCleared
  <2>2. \A q \in Vpn \ {0} : Mapped(q) => Mapped(q)'
        BY <2>1 DEF Mapped
  <2>3. job.by = "new" => NoGapBehind' /\ 0 <= job.vpn + (-EMAPPED)
        BY <1>1, <1>2, <2>1, <2>2, GoesBack
  <2>. QED BY <1>1, <1>2, <2>1, <2>3, Returns
<1>5. CASE pte[e] = NoPte /\ job.page.pte # NoPte
  <2>1. /\ UnderTables' /\ FramesHeldOnce' /\ pte' \in [Entry -> PteType] /\ Return(job.pagen)
        /\ \A y \in Vpn, k \in Level : LeafAt(y, k) => LeafAt(y, k)'
        /\ \A y \in Vpn : EntryOf(y, job.page.level) = e => Mapped(y)'
        BY <1>5, LeafSet
  <2>2. \A q \in Vpn : Mapped(q) => Mapped(q)'
        BY <2>1 DEF Mapped
  <2>3. /\ job.vma \in Areas /\ job.vpn \in Int /\ job.pagen \in Int /\ job.page.level \in Level
        /\ job.vpn \in Pages(job.vma) /\ job.vpn \in Vpn /\ Pages(job.vma) \subseteq Vpn
        /\ job.vma.vpn \in Nat /\ job.vma.pagen \in Nat
        BY <1>1, AtWalk, VmaPages
  <2>4. PICK l \in Level : l = job.page.level
        BY <2>3
  <2>5. /\ Fits(job.vma, job.vpn, l) /\ job.page.vpn = Boundary(job.vpn, l)
        /\ job.vpn + job.pagen = Boundary(job.vpn, l) + Size(l)
    <3>1. Size(l) \in Int /\ Boundary(job.vpn, l) \in Int
          BY <2>3, Sizes, Boundaries
    <3>. QED BY <1>1, <1>5, <2>3, <2>4, <3>1 DEF IInv, PageFound
  <2>6. e = EntryOf(job.vpn, l)
    <3>1. l <= l
          BY Sizes
    <3>. QED BY <2>3, <2>4, <2>5, <3>1, Nested
  <2>8. \A q \in Pages(job.vma) : q \in Vpn /\ q \in Int
    <3>1. Vpn \subseteq Int
          BY ONLY EntriesAre
    <3>. QED BY <2>3, <3>1
  <2>7. ASSUME job.by = "new" PROVE NoGapBehind' /\ 0 <= job.vpn + job.pagen
    <3>1. PICK n \in Int : n = job.vpn + job.pagen
          BY <2>3
    <3>2. ~(job.by = "new" /\ job.pagen = 0) /\ job.vpn < n
      <4>1. Boundary(job.vpn, l) \in Int /\ job.vpn < Boundary(job.vpn, l) + Size(l)
            BY <2>3, Boundaries
      <4>. QED BY <2>3, <2>5, <3>1, <4>1
    <3>3. job' = Job("new", job.vma, n)
          BY <2>1, <2>7, <3>1, <3>2 DEF Return
    <3>4. job'.vma = job.vma /\ job'.vpn = n
          BY <3>3 DEF Job
    <3>5. ASSUME NEW q \in Pages(job.vma), job.vpn <= q, q < n PROVE Mapped(q)'
      <4>1. q \in Int /\ q \in Vpn
            BY <2>8
      <4>2. Boundary(q, l) = Boundary(job.vpn, l) /\ EntryOf(q, l) = EntryOf(job.vpn, l)
        <5>1. /\ Size(l) \in Nat \ {0} /\ job.vpn \div Size(l) \in Int
              /\ (job.vpn \div Size(l)) * Size(l) <= job.vpn
              BY <2>3, Sizes, Division
        <5>2. (job.vpn \div Size(l)) * Size(l) = Boundary(job.vpn, l)
              BY DEF Boundary
        <5>3. /\ (job.vpn \div Size(l)) * Size(l) <= q
              /\ q < (job.vpn \div Size(l)) * Size(l) + Size(l)
              BY <2>3, <2>5, <3>1, <3>5, <4>1, <5>1, <5>2
        <5>4. q \div Size(l) = job.vpn \div Size(l)
              BY <4>1, <5>1, <5>3, Quotient
        <5>. QED BY <5>4 DEF Boundary, EntryOf
      <4>. QED BY <2>1, <2>4, <2>6, <4>1, <4>2
    <3>6. ASSUME NEW q \in Pages(job.vma), q < n PROVE Mapped(q)'
      <4>1. q \in Int
            BY <2>8
      <4>2. CASE q < job.vpn
            BY <2>2, <2>3, <2>7, <4>2 DEF IInv, NoGapBehind
      <4>3. CASE job.vpn <= q
            BY <3>5, <3>6, <4>3
      <4>. QED BY <2>3, <4>1, <4>2, <4>3
    <3>7. 0 <= job.vpn + job.pagen
      <4>1. 0 <= job.vpn
            BY <1>1, AtWalk
      <4>. QED BY <2>3, <3>1, <3>2, <4>1
    <3>. QED BY <3>4, <3>6, <3>7 DEF NoGapBehind
  <2>. QED BY <1>1, <2>1, <2>3, <2>7, Returns
<1>. QED BY <1>3, <1>4, <1>5

-----------------------------------------------------------------------------
(***************************************************************************)
(* Unmapping.                                                               *)
(***************************************************************************)
\* Once a VMA is off the list, or while pages are unmapped, there is no page.
LEMMA Unmaps ==
    ASSUME job'.by = "unmap", pc' = "unmap", job'.vma \in Areas
    PROVE  JobInVma' /\ PageFound' /\ FramesOfPage' /\ PageZeroed' /\ NoGapBehind'
<1>1. JobInVma'
      BY DEF JobInVma
<1>2. PageFound' /\ FramesOfPage' /\ PageZeroed' /\ NoGapBehind'
      BY DEF PageFound, FramesOfPage, PageZeroed, NoGapBehind
<1>. QED BY <1>1, <1>2

\* pt_vma_unmap_pages and pt_vma_destroy.
LEMMA StartUnmapIInv ==
    ASSUME IInv, NEW i \in DOMAIN vmas, pt_vma_unmap_pages(i) \/ pt_vma_destroy(i)
    PROVE  IInv'
<1>1. StartUnmap(i)
      BY DEF pt_vma_unmap_pages, pt_vma_destroy
<1>2. /\ UnderTables' /\ FramesHeldOnce' /\ pte' \in [Entry -> PteType] /\ free' \subseteq Frame
      BY <1>1, TablesKept DEF StartUnmap
<1>3. vmas \in Seq(Areas) /\ vmas[i] \in Areas /\ i \in 1..Len(vmas)
      BY DEF IInv, TypeOK
<1>4. vmas' \in Seq(Areas)
  <2>1. CASE pt_vma_unmap_pages(i)
        BY <1>3, <2>1 DEF pt_vma_unmap_pages
  <2>2. CASE pt_vma_destroy(i)
    <3>1. /\ SubSeq(vmas, 1, i-1) \in Seq(Areas)
          /\ SubSeq(vmas, i+1, Len(vmas)) \in Seq(Areas)
          BY <1>3
    <3>. QED BY <2>2, <3>1 DEF pt_vma_destroy
  <2>. QED BY <2>1, <2>2
<1>5. vmas[i].vpn \in Int
      BY <1>3, VmaPages
<1>6. job' \in JobType
      BY <1>1, <1>3, <1>5, JobsTyped DEF StartUnmap
<1>7. job'.by = "unmap" /\ pc' = "unmap" /\ job'.vma \in Areas
      BY <1>1, <1>3 DEF StartUnmap, Job
<1>8. TypeOK'
      BY <1>2, <1>4, <1>6, <1>7 DEF TypeOK
<1>. QED BY <1>2, <1>7, <1>8, Unmaps DEF IInv

\* An entry that is emptied holds no frame any more.
LEMMA ClearHolds ==
    ASSUME IInv, NEW x \in Vpn, NEW l \in Level,
           pte' = [pte EXCEPT ![EntryOf(x, l)] = NoPte], UNCHANGED free
    PROVE  FramesHeldOnce' /\ pte' \in [Entry -> PteType]
<1>1. /\ pte \in [Entry -> PteType] /\ EntryOf(x, l) \in Entry /\ NoPte \in PteType
      /\ free \subseteq Frame
      BY EntriesAre DEF IInv, TypeOK, PteType
<1>2. \A e \in Entry : Held(e)' = IF e = EntryOf(x, l) THEN {} ELSE Held(e)
      BY <1>1 DEF Held, NoPte
<1>3. FramesHeldOnce'
  <2>. DEFINE S == {}
  <2>1. /\ S \subseteq Frame \ free' /\ \A e \in Entry : Held(e) \cap S = {}
        /\ \A e \in Entry : Held(e)' = IF e = EntryOf(x, l) THEN S ELSE Held(e)
        BY <1>2
  <2>. HIDE DEF S
  <2>. QED BY <1>1, <2>1, HoldsOnce DEF IInv
<1>4. pte' \in [Entry -> PteType]
      BY <1>1
<1>. QED BY <1>3, <1>4

\* The loop stays in the address space.
LEMMA LoopInside ==
    ASSUME job.vma \in Areas, job.vpn \in Int, InLoop
    PROVE  job.vpn \in Vpn
<1>1. /\ Size(Levels) \in Nat /\ job.vma.vpn \in Nat /\ job.vma.pagen \in Nat
      /\ job.vma.vpn + job.vma.pagen <= Size(Levels)
      BY VmaPages, Sizes, PageTableAssumption
<1>. QED BY <1>1 DEF InLoop, Vpn

\* One iteration of the loop of pt_vma_unmap_pages.
LEMMA UnmapPageIInv == IInv /\ UnmapPage => IInv'
<1>. SUFFICES ASSUME IInv, UnmapPage PROVE IInv'
     OBVIOUS
<1>1. pc = "unmap" /\ InLoop /\ UNCHANGED <<vmas, free, pc>>
      BY DEF UnmapPage
<1>2. job \in JobType /\ job.vma \in Areas /\ job.vpn \in Int /\ job.by \in {"none", "unmap"}
      BY <1>1 DEF IInv, TypeOK, JobType, JobInVma
<1>3. job.vpn \in Vpn
      BY <1>1, <1>2, LoopInside
<1>4. PICK x \in Vpn : x = job.vpn
      BY <1>3
<1>5. PICK n \in Int : job' = [job EXCEPT !.vpn = n]
  <2>1. CASE \E l \in Level : LeafAt(x, l) /\ job' = [job EXCEPT !.vpn = @ + Size(l)]
    <3>1. PICK l \in Level : job' = [job EXCEPT !.vpn = @ + Size(l)]
          BY <2>1
    <3>2. job.vpn + Size(l) \in Int
          BY <1>2, Sizes
    <3>. QED BY <3>1, <3>2
  <2>2. CASE job' = [job EXCEPT !.vpn = @ - ENOTMAPPED]
    <3>1. job.vpn - ENOTMAPPED \in Int
          BY <1>2 DEF ENOTMAPPED
    <3>. QED BY <2>2, <3>1
  <2>. QED BY <1>4, <2>1, <2>2 DEF UnmapPage
<1>6. job' \in JobType /\ job'.by = job.by /\ job'.vma = job.vma
      BY <1>2, <1>5 DEF JobType
<1>7. UnderTables' /\ FramesHeldOnce' /\ pte' \in [Entry -> PteType]
  <2>1. CASE UNCHANGED pte
        BY <1>1, <2>1, TablesKept
  <2>2. CASE \E l \in Level : LeafAt(x, l) /\ pte' = [pte EXCEPT ![EntryOf(x, l)] = NoPte]
    <3>1. PICK l \in Level : LeafAt(x, l) /\ pte' = [pte EXCEPT ![EntryOf(x, l)] = NoPte]
          BY <2>2
    <3>2. pte \in [Entry -> PteType] /\ pte[EntryOf(x, l)].kind # "table" /\ UnderTables
          BY <3>1 DEF IInv, TypeOK, LeafAt
    <3>3. UnderTables'
          BY <3>1, <3>2, ClearEntry DEF Clears, Loses
    <3>. QED BY <1>1, <3>1, <3>3, ClearHolds
  <2>. QED BY <1>4, <2>1, <2>2 DEF UnmapPage
<1>8. TypeOK'
      BY <1>1, <1>6, <1>7 DEF IInv, TypeOK
<1>9. JobInVma' /\ PageFound' /\ FramesOfPage' /\ PageZeroed' /\ NoGapBehind'
  <2>1. JobInVma' /\ NoGapBehind'
        BY <1>1, <1>2, <1>6 DEF JobInVma, NoGapBehind
  <2>2. PageFound' /\ FramesOfPage' /\ PageZeroed'
        BY <1>1 DEF PageFound, FramesOfPage, PageZeroed
  <2>. QED BY <2>1, <2>2
<1>. QED BY <1>7, <1>8, <1>9 DEF IInv

\* ... and its end.
LEMMA UnmapDoneIInv == IInv /\ UnmapDone => IInv'
<1>. SUFFICES ASSUME IInv, UnmapDone PROVE IInv'
     OBVIOUS
<1>1. pc' = "idle" /\ job' = NoJob /\ UNCHANGED <<vmas, pte, free>>
      BY DEF UnmapDone
<1>2. /\ UnderTables' /\ FramesHeldOnce' /\ pte' \in [Entry -> PteType] /\ free' \subseteq Frame
      BY <1>1, TablesKept
<1>3. TypeOK'
      BY <1>1, <1>2, JobsTyped DEF IInv, TypeOK
<1>. QED BY <1>1, <1>2, <1>3, Idle DEF IInv

LEMMA StutterIInv == IInv /\ UNCHANGED vars => IInv'
<1>. SUFFICES ASSUME IInv, UNCHANGED vars PROVE IInv'
     OBVIOUS
<1>1. /\ UnderTables' /\ FramesHeldOnce' /\ pte' \in [Entry -> PteType] /\ free' \subseteq Frame
      BY TablesKept DEF vars
<1>2. TypeOK'
      BY DEF IInv, TypeOK, vars
<1>3. Mapped(job.vpn)' = Mapped(job.vpn) /\ Mapped(0)' = Mapped(0)
      BY DEF Mapped, LeafAt, vars
<1>4. JobInVma'
      BY <1>3 DEF IInv, JobInVma, vars
<1>5. PageFound' /\ FramesOfPage'
      BY DEF IInv, PageFound, FramesOfPage, LargestFit, Held, vars
<1>6. PageZeroed'
  <2>1. ASSUME NEW l \in Level, LargestFit(l), Mapped(Boundary(job.vpn, l))
        PROVE  LargestFit(l)' /\ Mapped(Boundary(job.vpn, l))'
        BY <2>1 DEF LargestFit, Mapped, LeafAt, vars
  <2>. QED BY <2>1 DEF IInv, PageZeroed, vars
<1>7. NoGapBehind'
      BY <1>3 DEF IInv, NoGapBehind, Mapped, LeafAt, vars
<1>. QED BY <1>1, <1>2, <1>4, <1>5, <1>6, <1>7 DEF IInv

\* Every step keeps the invariant.
LEMMA NextIInv == HighPopulates /\ IInv /\ [Next]_vars => IInv'
<1>. SUFFICES ASSUME HighPopulates, IInv, [Next]_vars PROVE IInv'
     OBVIOUS
<1>1. CASE Elsewhere
      BY <1>1, ElsewhereIInv
<1>2. CASE \E v \in Areas : pt_vma_new(v)
      BY <1>2, NewVmaIInv
<1>3. CASE \E x \in Vpn : PageFault(x)
      BY <1>3, PageFaultIInv
<1>4. CASE \E i \in DOMAIN vmas : pt_vma_unmap_pages(i) \/ pt_vma_destroy(i)
      BY <1>4, StartUnmapIInv
<1>5. CASE Working
      BY <1>5, NewPageIInv, NoNewPageIInv, PageInTheWayIInv, NonleafIInv, WalkFailsIInv,
         SetLeafIInv, UnmapPageIInv, UnmapDoneIInv DEF Working
<1>6. CASE UNCHANGED vars \/ Off
      BY <1>6, StutterIInv DEF Off
<1>. QED BY <1>1, <1>2, <1>3, <1>4, <1>5, <1>6 DEF Next

-----------------------------------------------------------------------------
\* The invariant that everything below follows from.
THEOREM PageTableInvariant == HighPopulates /\ Spec => []IInv
<1>. SUFFICES ASSUME HighPopulates PROVE Spec => []IInv
     OBVIOUS
<1>1. IInv /\ [Next]_vars => IInv'
      BY NextIInv
<1>. QED BY InitIInv, <1>1, PTL DEF Spec

\* Every variable has its type: the entry that a walk works on, above all, is
\* one of the address space, whatever the page it was found for.
THEOREM TypesKept == HighPopulates /\ Spec => []TypeOK
<1>1. IInv => TypeOK
      BY DEF IInv
<1>. QED BY <1>1, PageTableInvariant, PTL

\* Every entry in use hangs below tables: no page is hidden by a larger one
\* (the checks for -EMAPPED in pt_set_pte_leaf).
THEOREM NothingHidden == HighPopulates /\ Spec => []UnderTables
<1>1. IInv => UnderTables
      BY DEF IInv
<1>. QED BY <1>1, PageTableInvariant, PTL

\* No frame is in two pages, in a page and a table, or in use and free.
THEOREM FramesAreOnce == HighPopulates /\ Spec => []FramesHeldOnce
<1>1. IInv => FramesHeldOnce
      BY DEF IInv
<1>. QED BY <1>1, PageTableInvariant, PTL

-----------------------------------------------------------------------------
(***************************************************************************)
(* What a step may never do.                                                *)
(***************************************************************************)
\* Four steps write an entry.
LEMMA Writers ==
    ASSUME [Next]_vars
    PROVE  pt_set_pte_nonleaf \/ pt_set_pte_leaf \/ UnmapPage \/ UNCHANGED pte
<1>1. CASE Working
      BY <1>1 DEF Working, NewPage, FoundPage, NoNewPage, PageInTheWay, WalkFails, UnmapDone
<1>2. CASE ~Working
      BY <1>2 DEF Next, Elsewhere, pt_vma_new, PageFault, pt_vma_unmap_pages, pt_vma_destroy,
         StartUnmap, Off, vars
<1>. QED BY <1>1, <1>2

\* The end of the walk: the page is put there, page 0 is cleared, or nothing
\* happens.
LEMMA LeafCases ==
    ASSUME IInv, pt_set_pte_leaf
    PROVE  \/ job.page.pte # NoPte /\ pte[EntryOf(job.page.vpn, job.page.level)] = NoPte
           \/ job.page.pte = NoPte
           \/ /\ job.page.pte # NoPte /\ pte[EntryOf(job.page.vpn, job.page.level)] # NoPte
              /\ UNCHANGED pte /\ Return(-EMAPPED)
BY DEF pt_set_pte_leaf

\* Outside unmapping a translation stays.
LEMMA LeafKept ==
    ASSUME IInv, [Next]_vars, pc # "unmap", NEW y \in Vpn \ {0}, NEW k \in Level, LeafAt(y, k)
    PROVE  LeafAt(y, k)' /\ pte'[EntryOf(y, k)] = pte[EntryOf(y, k)]
<1>1. CASE UNCHANGED pte
      BY <1>1 DEF LeafAt
<1>2. CASE pt_set_pte_nonleaf
      BY <1>2, TableAdded
<1>3. CASE pt_set_pte_leaf
      BY <1>1, <1>3, LeafCases, LeafSet, PageCleared
<1>4. ~UnmapPage
      BY DEF UnmapPage
<1>. QED BY <1>1, <1>2, <1>3, <1>4, Writers

\* Only the end of a walk maps pages: those of the page that fits.
LEMMA LeafNew ==
    ASSUME IInv, [Next]_vars, NEW y \in Vpn, NEW k \in Level, LeafAt(y, k)', ~LeafAt(y, k)
    PROVE  y \in Pages(job.vma)
<1>1. CASE UNCHANGED pte
      BY <1>1 DEF LeafAt
<1>2. CASE pt_set_pte_nonleaf
      BY <1>2, TableAdded
<1>3. CASE UnmapPage
  <2>1. CASE UNCHANGED pte
        BY <1>1, <2>1
  <2>2. CASE \E l \in Level : LeafAt(job.vpn, l)
                 /\ pte' = [pte EXCEPT ![EntryOf(job.vpn, l)] = NoPte]
    <3>1. PICK l \in Level : LeafAt(job.vpn, l)
                 /\ pte' = [pte EXCEPT ![EntryOf(job.vpn, l)] = NoPte]
          BY <2>2
    <3>2. job.vpn \in Vpn
      <4>1. job.vpn \in Int /\ job.vma \in Areas
            BY <1>3 DEF IInv, TypeOK, JobType, JobInVma, UnmapPage
      <4>. QED BY <1>3, <4>1, LoopInside DEF UnmapPage
    <3>3. PICK x \in Vpn : x = job.vpn
          BY <3>2
    <3>4. pte \in [Entry -> PteType] /\ UnderTables /\ pte[EntryOf(x, l)].kind # "table"
          BY <3>1, <3>3 DEF IInv, TypeOK, LeafAt
    <3>. QED BY <3>1, <3>3, <3>4, ClearEntry DEF Clears, Loses
  <2>. QED BY <1>3, <2>1, <2>2 DEF UnmapPage
<1>4. CASE pt_set_pte_leaf /\ job.page.pte = NoPte
      BY <1>4, PageCleared
<1>5. CASE pt_set_pte_leaf /\ job.page.pte # NoPte
                /\ pte[EntryOf(job.page.vpn, job.page.level)] = NoPte
  <2>1. k = job.page.level /\ EntryOf(y, k) = EntryOf(job.page.vpn, k)
        BY <1>5, LeafSet
  <2>2. pc = "walk" /\ y \in Int
        BY <1>5, EntriesAre DEF pt_set_pte_leaf
  <2>3. /\ job.vma \in Areas /\ job.vpn \in Int /\ 0 <= job.vpn
        /\ EntryOf(job.page.vpn, k) = EntryOf(job.vpn, k)
    <3>1. k <= k
          BY Sizes
    <3>. QED BY <1>5, <2>1, <2>2, <3>1, AtWalk
  <2>4. Fits(job.vma, job.vpn, k)
        BY <1>5, <2>1, <2>2 DEF IInv, PageFound
  <2>5. Boundary(y, k) = Boundary(job.vpn, k)
        BY <2>1, <2>3 DEF EntryOf, Boundary
  <2>6. Boundary(job.vpn, k) <= y /\ y < Boundary(job.vpn, k) + Size(k)
        BY <2>2, <2>5, Boundaries
  <2>. QED BY <2>2, <2>3, <2>4, <2>6, FitsInside
<1>. QED BY <1>1, <1>2, <1>3, <1>4, <1>5, Writers, LeafCases

\* A mapped page keeps its frame until it is unmapped, page 0 excepted: no fault
\* and no VMA puts another page in its place ("we do not overwrite a deeper page
\* with a more shallow (larger) one"), and a call that fails takes nothing away.
THEOREM MappingsAreKept == HighPopulates /\ Spec => KeepsMappings
<1>1. IInv /\ [Next]_vars =>
        [\A vpn \in Vpn \ {0} : Mapped(vpn) /\ pc # "unmap"
            => Translation(vpn)' = Translation(vpn)]_vars
  <2>. SUFFICES ASSUME IInv, [Next]_vars, pc # "unmap", NEW y \in Vpn \ {0}, Mapped(y)
                PROVE  Translation(y)' = Translation(y)
       OBVIOUS
  <2>1. PICK k \in Level : LeafAt(y, k)
        BY DEF Mapped
  <2>2. LeafAt(y, k)' /\ pte'[EntryOf(y, k)] = pte[EntryOf(y, k)]
        BY <2>1, LeafKept
  <2>3. \A l \in Level : LeafAt(y, l) <=> l = k
        BY <2>1, OneLeaf
  <2>4. \A l \in Level : LeafAt(y, l)' <=> l = k
        BY <2>2, OneLeafNext DEF OneLeafEach
  <2>5. Translation(y) = {pte[EntryOf(y, k)].ppn}
        BY <2>1, <2>3 DEF Translation
  <2>6. Translation(y)' = {pte'[EntryOf(y, k)].ppn}
        BY <2>1, <2>4 DEF Translation
  <2>. QED BY <2>2, <2>5, <2>6
<1>. QED BY PageTableInvariant, <1>1, PTL DEF Spec, KeepsMappings

\* However large the page that is chosen, only pages of the VMA get mapped.
THEOREM OnlyTheVmaIsMapped == HighPopulates /\ Spec => StaysInVma
<1>1. IInv /\ [Next]_vars =>
        [\A vpn \in Vpn : ~Mapped(vpn) /\ Mapped(vpn)' => vpn \in Pages(job.vma)]_vars
  <2>. SUFFICES ASSUME IInv, [Next]_vars, NEW y \in Vpn, ~Mapped(y), Mapped(y)'
                PROVE  y \in Pages(job.vma)
       OBVIOUS
  <2>1. PICK k \in Level : LeafAt(y, k)'
        BY DEF Mapped
  <2>2. ~LeafAt(y, k)
        BY DEF Mapped
  <2>. QED BY <2>1, <2>2, LeafNew
<1>. QED BY PageTableInvariant, <1>1, PTL DEF Spec, StaysInVma

\* A page with a leaf below tables is mapped.
LEMMA NoLeafThere ==
    ASSUME IInv, pc = "walk", job.by = "fault", job.page.pte # NoPte, NEW h \in Level,
           job.page.level <= h,
           \A k \in Level : k > h => pte[EntryOf(job.page.vpn, k)].kind = "table"
    PROVE  pte[EntryOf(job.page.vpn, h)].kind # "leaf"
<1>1. job.page.level \in Level /\ \A k \in Level : k \in Int
  <2>1. \A k \in Level : k \in Int
        BY ONLY Sizes
  <2>. QED BY <2>1, AtWalk
<1>2. \A k \in Level : h <= k => EntryOf(job.page.vpn, k) = EntryOf(job.vpn, k)
      BY <1>1, AtWalk
<1>3. ~LeafAt(job.vpn, h)
      BY DEF IInv, JobInVma, Mapped
<1>. QED BY <1>1, <1>2, <1>3 DEF LeafAt

\* The steps that end a fault.
LEMMA FaultEnds ==
    ASSUME IInv, [Next]_vars, job.by = "fault", pc' \in {"idle", "off"}
    PROVE  \/ pc = "page" /\ NoNewPage
           \/ pc = "walk" /\ (WalkFails \/ pt_set_pte_leaf)
<1>1. pc \in {"page", "walk"}
      BY DEF IInv, TypeOK, JobInVma
<1>2. CASE pc = "page"
      BY <1>1, <1>2 DEF Next, Working, Elsewhere, pt_vma_new, PageFault, pt_vma_unmap_pages,
         pt_vma_destroy, StartUnmap, Off, vars, NewPage, FoundPage, PageInTheWay,
         pt_set_pte_nonleaf, WalkFails, pt_set_pte_leaf, UnmapPage, UnmapDone
<1>3. CASE pc = "walk"
      BY <1>1, <1>3 DEF Next, Working, Elsewhere, pt_vma_new, PageFault, pt_vma_unmap_pages,
         pt_vma_destroy, StartUnmap, Off, vars, NewPage, NoNewPage, PageInTheWay,
         pt_set_pte_nonleaf, UnmapPage, UnmapDone
<1>. QED BY <1>1, <1>2, <1>3

\* Whatever a fault's return value is, the machine goes on only with the page mapped.
LEMMA FaultReturns ==
    ASSUME job.by = "fault", NEW r \in Int, Return(r)
    PROVE  pc' = IF r > 0 THEN "idle" ELSE "off"
BY DEF Return

\* The end of the walk serves a fault, or ends in an error.
LEMMA LeafServes ==
    ASSUME IInv, pt_set_pte_leaf, job.by = "fault"
    PROVE  \/ pc' = "off" /\ job.page.pte = NoPte
           \/ /\ pc' = "off" /\ job.page.pte # NoPte
              /\ pte[EntryOf(job.page.vpn, job.page.level)] # NoPte
           \/ pc' = "idle" /\ \E y \in Vpn : y = job.vpn /\ Mapped(y)'
<1>0. pc = "walk" /\ -EMAPPED \in Int /\ ~(-EMAPPED > 0)
      BY DEF pt_set_pte_leaf, EMAPPED
<1>1. CASE job.page.pte = NoPte
  <2>1. Return(-EMAPPED)
        BY <1>1, PageCleared
  <2>. QED BY <1>0, <1>1, <2>1, FaultReturns
<1>2. CASE job.page.pte # NoPte /\ pte[EntryOf(job.page.vpn, job.page.level)] # NoPte
  <2>1. Return(-EMAPPED)
        BY <1>2 DEF pt_set_pte_leaf
  <2>. QED BY <1>0, <1>2, <2>1, FaultReturns
<1>3. CASE job.page.pte # NoPte /\ pte[EntryOf(job.page.vpn, job.page.level)] = NoPte
  <2>1. /\ Return(job.pagen)
        /\ \A y \in Vpn : EntryOf(y, job.page.level) = EntryOf(job.page.vpn, job.page.level)
              => Mapped(y)'
        BY <1>3, LeafSet
  <2>2. PICK y \in Vpn, l \in Level : y = job.vpn /\ l = job.page.level
        BY <1>0, AtWalk
  <2>3. EntryOf(job.page.vpn, l) = EntryOf(y, l)
    <3>1. l <= l
          BY Sizes
    <3>. QED BY <1>0, <1>3, <2>2, <3>1, AtWalk
  <2>4. Mapped(y)'
        BY <2>1, <2>2, <2>3
  <2>5. job.pagen \in Int /\ job.pagen > 0
    <3>1. job.pagen = Boundary(job.vpn, l) + Size(l) - job.vpn
          BY <1>0, <1>3, <2>2 DEF IInv, PageFound
    <3>2. /\ job.vpn \in Int /\ Boundary(job.vpn, l) \in Int /\ Size(l) \in Int
          /\ job.vpn < Boundary(job.vpn, l) + Size(l)
          BY <1>0, AtWalk, Boundaries, Sizes
    <3>. QED BY <3>1, <3>2
  <2>6. pc' = "idle"
        BY <2>1, <2>5, FaultReturns
  <2>. QED BY <2>2, <2>4, <2>6
<1>. QED BY <1>1, <1>2, <1>3

\* When the page fault handler returns to the instruction that faulted, its page
\* is mapped: the instruction does not fault again.
THEOREM FaultsAreOver == HighPopulates /\ Spec => FaultMaps
<1>1. IInv /\ [Next]_vars =>
        [\A vpn \in Vpn : job.by = "fault" /\ job.vpn = vpn /\ pc = "walk" /\ pc' = "idle"
            => Mapped(vpn)']_vars
  <2>. SUFFICES ASSUME IInv, [Next]_vars, NEW x \in Vpn,
                       job.by = "fault", job.vpn = x, pc = "walk", pc' = "idle"
                PROVE  Mapped(x)'
       OBVIOUS
  <2>1. ~WalkFails
    <3>1. ~(-EMAPPED > 0) /\ ~(-ENORESOURCES > 0)
          BY DEF EMAPPED, ENORESOURCES
    <3>. QED BY <3>1 DEF WalkFails, Return
  <2>2. pt_set_pte_leaf
        BY <2>1, FaultEnds
  <2>3. PICK y \in Vpn : y = job.vpn /\ Mapped(y)'
        BY <2>2, LeafServes
  <2>. QED BY <2>3
<1>. QED BY PageTableInvariant, <1>1, PTL DEF Spec, FaultMaps

\* The page fault handler stops the machine only when there is no frame left for
\* the page or for a table it needs, or for what requirement 2 overlooks in the
\* largest page that fits: a page mapped at its very beginning or, behind the
\* beginning, a table that an earlier VMA has left.
THEOREM OnlyForMemory == HighPopulates /\ Spec => FaultsServed
<1>1. IInv /\ [Next]_vars =>
        [job.by = "fault" /\ pc' = "off"
           => \/ free = {} /\ (pc = "page" \/ Missing # {})
              \/ \E l \in Level :
                    /\ Highest(l, {k \in Level : Fits(job.vma, job.vpn, k)})
                    /\ \/ Mapped(Boundary(job.vpn, l))
                       \/ /\ Boundary(job.vpn, job.page.level) # Boundary(job.vpn, l)
                          /\ pte[EntryOf(job.vpn, job.page.level)].kind = "table"]_vars
  <2>. SUFFICES ASSUME IInv, [Next]_vars, job.by = "fault", pc' = "off",
                       ~(free = {} /\ (pc = "page" \/ Missing # {}))
                PROVE  \E l \in Level :
                          /\ LargestFit(l)
                          /\ \/ Mapped(Boundary(job.vpn, l))
                             \/ /\ Boundary(job.vpn, job.page.level) # Boundary(job.vpn, l)
                                /\ pte[EntryOf(job.vpn, job.page.level)].kind = "table"
       BY DEF LargestFit
  <2>1. ~(pc = "page" /\ NoNewPage)
    <3>. SUFFICES ASSUME pc = "page" PROVE ~NoNewPage
         OBVIOUS
    <3>1. job.vma \in Areas /\ job.vpn \in Int /\ job.vpn \in Pages(job.vma) /\ 0 <= job.vpn
          BY NotBelow DEF IInv, JobInVma, TypeOK, JobType
    <3>2. Fits(job.vma, job.vpn, 0) /\ 0 \in Level
      <4>1. /\ job.vma.vpn \in Int /\ job.vma.pagen \in Int /\ Size(0) = 1 /\ 0 \in Level
            /\ Boundary(job.vpn, 0) = job.vpn
            BY <3>1, VmaPages, Sizes, LowestLevel
      <4>. QED BY <3>1, <4>1 DEF Fits, Pages
    <3>. QED BY <3>2 DEF NoNewPage
  <2>2. CASE job.page.pte = NoPte /\ pc = "walk"
        BY <2>2 DEF IInv, PageZeroed
  <2>3. CASE pc = "walk" /\ WalkFails /\ job.page.pte # NoPte
    <3>1. PICK h \in Missing :
              /\ Highest(h, Missing)
              /\ \/ pte[EntryOf(job.page.vpn, h)].kind = "leaf"
                 \/ free = {}
          BY <2>3 DEF WalkFails
    <3>2. pte[EntryOf(job.page.vpn, h)].kind = "leaf" /\ h \in Level /\ h > job.page.level
          BY <3>1 DEF Missing
    <3>3. /\ job.page.level <= h
          /\ \A k \in Level : k > h => pte[EntryOf(job.page.vpn, k)].kind = "table"
      <4>1. job.page.level \in Level /\ \A k \in Level : k \in Int
        <5>1. \A k \in Level : k \in Int
              BY ONLY Sizes
        <5>. QED BY <2>3, <5>1, AtWalk
      <4>. QED BY <3>1, <3>2, <4>1 DEF Missing, Highest
    <3>. QED BY <2>3, <3>2, <3>3, NoLeafThere
  <2>4. CASE pc = "walk" /\ pt_set_pte_leaf /\ job.page.pte # NoPte
    <3>1. pte[EntryOf(job.page.vpn, job.page.level)] # NoPte /\ Missing = {}
          BY <2>4, LeafServes DEF pt_set_pte_leaf
    <3>2. PICK m \in Level : m = job.page.level
          BY <2>4, AtWalk
    <3>3. m <= m
          BY Sizes
    <3>4. EntryOf(job.page.vpn, m) = EntryOf(job.vpn, m) /\ EntryOf(job.page.vpn, m) \in Entry
          BY <2>4, <3>2, <3>3, AtWalk, EntriesAre
    <3>5. pte[EntryOf(job.page.vpn, m)].kind # "leaf"
          BY <2>4, <3>1, <3>2, <3>3, NoLeafThere DEF Missing
    <3>6. pte[EntryOf(job.vpn, m)].kind = "table"
          BY <3>1, <3>2, <3>4, <3>5, Kinds DEF IInv, TypeOK
    <3>7. PICK l \in Level : LargestFit(l)
          BY <2>4 DEF IInv, PageFound
    <3>8. Boundary(job.vpn, m) # Boundary(job.vpn, l)
          BY <2>4, <3>1, <3>2, <3>7 DEF IInv, PageFound
    <3>. QED BY <3>2, <3>6, <3>7, <3>8
  <2>. QED BY <2>1, <2>2, <2>3, <2>4, FaultEnds
<1>. QED BY PageTableInvariant, <1>1, PTL DEF Spec, FaultsServed

\* While a VMA is populated there is no gap behind the loop, wherever errors have
\* taken it (__pt_vma_new).
THEOREM NoGaps == HighPopulates /\ Spec => []NoGapBehind
<1>1. IInv => NoGapBehind
      BY DEF IInv
<1>. QED BY <1>1, PageTableInvariant, PTL
=============================================================================
