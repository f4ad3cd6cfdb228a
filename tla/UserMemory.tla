----------------------------- MODULE UserMemory ------------------------------
(***************************************************************************)
(* The memory of processes: where src/kernel/process.c and exception.c put  *)
(* the text, the stack and what mmap adds, how the page fault handler fills *)
(* pages in, and what is left when a process ends.                          *)
(*                                                                          *)
(* Each of these runs in S-mode from the trap to its end, and no other one  *)
(* in between, so each is one action.                                       *)
(*                                                                          *)
(* The tree of page tables has two levels here, a root with an entry per    *)
(* slot of SlotPages pages and one table per slot; PageTable has them all.  *)
(* An entry is a record of the set pte: the frame of its table, its index,  *)
(* and the frame it points to; a leaf of level 1 is a page of Mega pages.   *)
(* Memory that no address space reaches any more is left out of pte and of  *)
(* data: it is never given back, so nobody sees it again.                   *)
(*                                                                          *)
(* A definition marked "Slip:" is a wrong version of the one below it, the  *)
(* kind of mistake that is easily made there.  Nothing uses it; the         *)
(* mutation tests put it in the other's place and expect a violation.       *)
(***************************************************************************)
EXTENDS Integers, Sequences, Functions

CONSTANTS
    Proc,           \* process slots, bound for MAX_PROCESSES
    App,            \* the programs: [load : page, size : bytes]
    Requests,       \* bound: the numbers of pages mmap is called with
    MaxVmas,        \* bound: VMAs of a process
    Frame,          \* bound: the frames of physical memory
    Touched,        \* bound: the addresses programs access ...
    Stored,         \* ... and those they write to
    PageSize,       \* bytes of a page
    Mega,           \* pages of a page of level 1
    SlotPages,      \* pages below one entry of the root
    HeapBase,       \* USER_HEAP_BASE_VPN
    StackBase,      \* USER_STACK_BASE_VPN
    StackPages,     \* STACK_PAGES
    KernelSlot,     \* the entry of the root below which the kernel is mapped
    IntBits         \* bits of int

ASSUME UserMemoryAssumption ==
    /\ {PageSize, Mega, SlotPages, HeapBase, StackPages, IntBits} \subseteq Nat \ {0}
    /\ {MaxVmas, StackBase, KernelSlot} \subseteq Nat
    /\ Frame \subseteq Nat \ {0} /\ 1..3 \subseteq Frame
    /\ Requests \cup Touched \cup Stored \subseteq Nat
    /\ App \subseteq [load : Nat, size : Nat \ {0}]
    /\ SlotPages % Mega = 0
    /\ HeapBase < StackBase
    /\ StackBase + StackPages <= KernelSlot * SlotPages

VARIABLES
    on,        \* the machine runs
    status,    \* process_list[].status: "free" or "live"
    satp,      \* process_list[].satp: the frame of the root, 0 for none
    elf,       \* process_list[].elf
    vmas,      \* process_list[].uvmas
    a3,        \* what mmap last answered: a page, 0 for NULL
    pte,       \* the entries of all tables
    data,      \* what the pages hold
    free       \* the frames pt_alloc can still give

vars == <<on, status, satp, elf, vmas, a3, pte, data, free>>

(***************************************************************************)
(* Tables.                                                                  *)
(***************************************************************************)
Size(l) == IF l = 0 THEN 1 ELSE Mega

Boundary(vpn, l) == (vpn \div Size(l)) * Size(l)

SlotOf(vpn) == vpn \div SlotPages

Pte(at, idx, ppn, level) == [at |-> at, idx |-> idx, ppn |-> ppn, level |-> level]

\* The kernel's tables.  Below entry 0 is the table of the low identity
\* mappings, which pt_destroy_low_kvmas has emptied and left in its place.
ksatp == 1
LowTable == 2
HighTable == 3
KernelPtes == {Pte(ksatp, 0, LowTable, 2), Pte(ksatp, KernelSlot, HighTable, 2)}

\* The tables below an entry of a root: one, or none.
TablesAt(root, slot) == {e.ppn : e \in {d \in pte : d.at = root /\ d.idx = slot}}

\* pt_get_pte: the leaf that translates vpn, if there is one.
Leaves(root, vpn) ==
    {e \in pte : /\ e.level < 2
                 /\ vpn % SlotPages \in e.idx .. e.idx + Size(e.level) - 1
                 /\ Pte(root, SlotOf(vpn), e.at, 2) \in pte}

Mapped(p, vpn) == Leaves(satp[p], vpn) # {}

\* The frame of page vpn.
FrameOf(p, vpn) ==
    LET e == CHOOSE d \in Leaves(satp[p], vpn) : TRUE
    IN  e.ppn + (vpn % SlotPages) - e.idx

(***************************************************************************)
(* Memory.                                                                  *)
(***************************************************************************)
\* What a byte holds: 0, what a program wrote, or a byte of a file.
Zero == <<"zero">>
Written == <<"written">>
File(app, offset) == <<"file", app, offset>>

Least(S) == CHOOSE f \in S : \A g \in S : f <= g

\* What pt_alloc(l) can have of the frames F; it takes the least.
Blocks(F, l) == {f \in F : f % Size(l) = 0 /\ f .. f + Size(l) - 1 \subseteq F}

\* pt_alloc fills a page with zeros.
Zeroed(f, l) == [g \in f .. f + Size(l) - 1 |-> [k \in 0..PageSize-1 |-> Zero]]

With(f, g) == [x \in DOMAIN f \cup DOMAIN g |-> IF x \in DOMAIN g THEN g[x] ELSE f[x]]

\* pt_salloc: the page it is filling has room, or it takes another one.
pt_salloc(F) == {F} \cup (IF F = {} THEN {} ELSE {F \ {Least(F)}})

(***************************************************************************)
(* VMAs.                                                                    *)
(***************************************************************************)
Vma(vpn, pagen) == [vpn |-> vpn, pagen |-> pagen]

Pages(v) == v.vpn .. v.vpn + v.pagen - 1

\* text_pages_needed
TextPages(app) ==
    app.size \div PageSize + (IF app.size % PageSize # 0 THEN 1 ELSE 0)

\* The VMAs proc_create_process_vmas makes.
FirstVmas(app) == <<Vma(app.load, TextPages(app)), Vma(StackBase, StackPages)>>

\* size_t to int.
AsInt(n) ==
    LET m == n % 2^IntBits
    IN  IF m >= 2^(IntBits - 1) THEN m - 2^IntBits ELSE m

\* The VMAs get_free_vpn looks at.
HeapVmas(p) == {i \in DOMAIN vmas[p] : /\ vmas[p][i].vpn # StackBase
                                       /\ vmas[p][i].vpn >= HeapBase}

\* Slip: the size of the VMA is left out.
BehindStart(p) ==
    IF HeapVmas(p) = {}
    THEN HeapBase
    ELSE LET i == CHOOSE j \in HeapVmas(p) : \A k \in HeapVmas(p) :
                      vmas[p][k].vpn <= vmas[p][j].vpn
         IN  vmas[p][i].vpn + 1

\* get_free_vpn: behind the VMA with the highest start, the first of them if
\* several start there.
get_free_vpn(p) ==
    IF HeapVmas(p) = {}
    THEN HeapBase
    ELSE LET i == CHOOSE j \in HeapVmas(p) : \A k \in HeapVmas(p) :
                      \/ vmas[p][k].vpn < vmas[p][j].vpn
                      \/ vmas[p][k].vpn = vmas[p][j].vpn /\ j <= k
         IN  vmas[p][i].vpn + AsInt(vmas[p][i].pagen)

\* vpn2vma: the first VMA that holds vpn.
vpn2vma(p, vpn, v) ==
    \E i \in DOMAIN vmas[p] :
        /\ v = vmas[p][i] /\ vpn \in Pages(v)
        /\ \A k \in 1..i-1 : vpn \notin Pages(vmas[p][k])

(***************************************************************************)
(* Starting and ending a process.                                           *)
(***************************************************************************)
NoApp == [load |-> 0, size |-> 0]

Init ==
    /\ on = TRUE
    /\ status = [p \in Proc |-> "free"]
    /\ satp = [p \in Proc |-> 0]
    /\ elf = [p \in Proc |-> NoApp]
    /\ vmas = [p \in Proc |-> <<>>]
    /\ a3 = [p \in Proc |-> 0]
    /\ pte = KernelPtes
    /\ data = [f \in {} |-> 0]
    /\ free = Frame \ {ksatp, LowTable, HighTable}

Live == {p \in Proc : status[p] = "live"}

\* Slip: the whole root is copied.
CopyAll(root) == {[e EXCEPT !.at = root] : e \in {d \in pte : d.at = ksatp}}

\* All entries of the kernel's root but the first.
proc_copy_kernel_pt(root) ==
    {[e EXCEPT !.at = root] : e \in {d \in pte : d.at = ksatp /\ d.idx # 0}}

\* proc_create_process_vmas: a root table, a list and two VMAs.  No page is
\* mapped yet.
Start(p, app) ==
    /\ on /\ status[p] = "free"
    /\ free # {}
    /\ LET root == Least(free)
       IN  /\ satp' = [satp EXCEPT ![p] = root]
           /\ pte' = pte \cup proc_copy_kernel_pt(root)
           /\ free' \in pt_salloc(free \ {root})
    /\ status' = [status EXCEPT ![p] = "live"]
    /\ vmas' = [vmas EXCEPT ![p] = FirstVmas(app)]
    /\ elf' = [elf EXCEPT ![p] = app]
    /\ UNCHANGED <<on, a3, data>>

\* There is no frame for the root, or none for the list.  In the second case
\* the root stays behind in the slot and is lost.
StartFails(p) ==
    /\ on /\ status[p] = "free" /\ Live # {}
    /\ \A f, g \in free : f = g
    /\ free' = {}
    /\ satp' = [satp EXCEPT ![p] = IF free = {} THEN @ ELSE Least(free)]
    /\ UNCHANGED <<on, status, elf, vmas, a3, pte, data>>

\* The tables a set of processes uses, and their pages.
Roots(P) == {ksatp} \cup {satp[p] : p \in P}
Tables(P) == Roots(P) \cup {e.ppn : e \in {d \in pte : d.at \in Roots(P)}}
DataFrames(P) ==
    UNION {e.ppn .. e.ppn + Size(e.level) - 1 :
              e \in {d \in pte : d.level < 2 /\ d.at \in Tables(P)}}

\* scall_handler_end: proc_kill_process drops the tables with all they point
\* to.  The machine stops with the last process.
proc_kill_process(p) ==
    /\ on /\ status[p] = "live"
    /\ status' = [status EXCEPT ![p] = "free"]
    /\ satp' = [satp EXCEPT ![p] = 0]
    /\ vmas' = [vmas EXCEPT ![p] = <<>>]
    /\ elf' = [elf EXCEPT ![p] = NoApp]
    /\ a3' = [a3 EXCEPT ![p] = 0]
    /\ pte' = {e \in pte : e.at \in Tables(Live \ {p})}
    /\ data' = Restrict(data, DataFrames(Live \ {p}))
    /\ on' = (Live # {p})
    /\ UNCHANGED free

(***************************************************************************)
(* mmap.                                                                    *)
(***************************************************************************)
\* Nothing is mapped: the VMA is put on the list only.
scall_handler_mmap(p, n) ==
    /\ on /\ status[p] = "live" /\ Len(vmas[p]) < MaxVmas
    /\ vmas' = [vmas EXCEPT ![p] = Append(@, Vma(get_free_vpn(p), n))]
    /\ a3' = [a3 EXCEPT ![p] = get_free_vpn(p)]
    /\ free' \in pt_salloc(free)
    /\ UNCHANGED <<on, status, satp, elf, pte, data>>

\* There is no memory for the VMA: NULL.
MmapFails(p) ==
    /\ on /\ status[p] = "live"
    /\ free = {}
    /\ a3' = [a3 EXCEPT ![p] = 0]
    /\ UNCHANGED <<on, status, satp, elf, vmas, pte, data, free>>

(***************************************************************************)
(* Page faults.                                                             *)
(***************************************************************************)
\* The address is taken for one of the text; the end of it is included.
InText(p, a) ==
    /\ a >= elf[p].load * PageSize
    /\ a <= elf[p].load * PageSize + elf[p].size

\* Slip: a page is short only if there is something left to copy.
CopyLength(app, index) ==
    IF index = app.size \div PageSize /\ app.size % PageSize # 0
    THEN app.size % PageSize ELSE PageSize

\* n of proc_copy_binary.
BytesToCopy(app, index) ==
    IF index = app.size \div PageSize THEN app.size % PageSize ELSE PageSize

\* handle_text_demand and proc_copy_binary: the page of the file that address a
\* is in goes to the beginning of the page that was mapped (get_kvirt).
TextCopied(app, a, f, content) ==
    LET index == (a - app.load * PageSize) \div PageSize
    IN  [content EXCEPT ![f] =
            [k \in 0..PageSize-1 |->
                IF k < BytesToCopy(app, index)
                THEN File(app, index * PageSize + k) ELSE @[k]]]

\* The levels a page around vpn can have in v.
Fitting(v, vpn) ==
    {l \in {0, 1} : /\ v.vpn <= Boundary(vpn, l)
                    /\ Boundary(vpn, l) + Size(l) <= v.vpn + v.pagen}

Highest(S) == CHOOSE l \in S : \A k \in S : k <= l

\* ... and with nothing mapped in the way.
Possible(p, v, vpn) ==
    {l \in Fitting(v, vpn) :
        \A q \in Boundary(vpn, l) .. Boundary(vpn, l) + Size(l) - 1 : ~Mapped(p, q)}

\* The first page of the largest that fits is mapped: pt_vma_map_page_at_vpn
\* gives up.
InTheWay(p, v, vpn) == Mapped(p, Boundary(vpn, Highest(Fitting(v, vpn))))

\* pt_vma_map_page_at_vpn takes the frames from f on for a page of level l,
\* then one for the table, if there is none.
MapPage(p, vpn, l, f) ==
    LET left == free \ (f .. f + Size(l) - 1)
        slot == SlotOf(vpn)
        Leaf(t) == Pte(t, Boundary(vpn, l) % SlotPages, f, l)
    IN  IF TablesAt(satp[p], slot) # {}
        THEN /\ free' = left
             /\ pte' = pte \cup {Leaf(t) : t \in TablesAt(satp[p], slot)}
        ELSE /\ left # {}
             /\ free' = left \ {Least(left)}
             /\ pte' = pte \cup {Pte(satp[p], slot, Least(left), 2), Leaf(Least(left))}

\* A page is there for vpn.
CanMap(p, v, vpn, l) ==
    /\ ~InTheWay(p, v, vpn)
    /\ LET S == {k \in Possible(p, v, vpn) : Blocks(free, k) # {}}
       IN  S # {} /\ l = Highest(S)

\* A soft page fault at address a.
PageFault(p, a) ==
    LET vpn == a \div PageSize
    IN  /\ on /\ status[p] = "live" /\ ~Mapped(p, vpn)
        /\ \E v \in Range(vmas[p]), l \in {0, 1} :
              /\ vpn2vma(p, vpn, v)
              /\ CanMap(p, v, vpn, l)
              /\ LET f == Least(Blocks(free, l))
                     zeros == With(data, Zeroed(f, l))
                 IN  /\ MapPage(p, vpn, l, f)
                     /\ data' = IF InText(p, a)
                                THEN TextCopied(elf[p], a, f, zeros) ELSE zeros
        /\ UNCHANGED <<on, status, satp, elf, vmas, a3>>

\* No VMA ("major pf"), or no page for it ("no resources"): the machine is
\* switched off.
FaultFails(p, a) ==
    LET vpn == a \div PageSize
    IN  /\ on /\ status[p] = "live" /\ ~Mapped(p, vpn)
        /\ \A v \in Range(vmas[p]), l \in {0, 1} :
              vpn2vma(p, vpn, v) /\ CanMap(p, v, vpn, l) =>
                  /\ TablesAt(satp[p], SlotOf(vpn)) = {}
                  /\ free = Least(Blocks(free, l)) .. Least(Blocks(free, l)) + Size(l) - 1
        /\ on' = FALSE
        /\ UNCHANGED <<status, satp, elf, vmas, a3, pte, data, free>>

\* An instruction of the program that writes to memory.
UserStore(p, a) ==
    LET vpn == a \div PageSize
    IN  /\ on /\ status[p] = "live" /\ Mapped(p, vpn)
        /\ data' = [data EXCEPT ![FrameOf(p, vpn)][a % PageSize] = Written]
        /\ UNCHANGED <<on, status, satp, elf, vmas, a3, pte, free>>

Off == ~on /\ UNCHANGED vars

Next ==
    \/ \E p \in Proc :
          \/ \E app \in App : Start(p, app)
          \/ StartFails(p)
          \/ proc_kill_process(p)
          \/ \E n \in Requests : scall_handler_mmap(p, n)
          \/ MmapFails(p)
          \/ \E a \in Touched : PageFault(p, a) \/ FaultFails(p, a)
          \/ \E a \in Stored : UserStore(p, a)
    \/ Off

Spec == Init /\ [][Next]_vars
-----------------------------------------------------------------------------
\* The type of the state; the tables of the kernel are never given away.
TypeOK ==
    /\ on \in BOOLEAN
    /\ status \in [Proc -> {"free", "live"}]
    /\ satp \in [Proc -> Frame \cup {0}]
    /\ elf \in [Proc -> App \cup {NoApp}]
    /\ vmas \in [Proc -> Seq([vpn : Nat, pagen : Nat])]
    /\ a3 \in [Proc -> Nat]
    /\ pte \subseteq [at : Frame, idx : Nat, ppn : Frame, level : 0..2]
    /\ DOMAIN data \subseteq Frame
    /\ free \subseteq Frame \ {ksatp, LowTable, HighTable}

(***************************************************************************)
(* What mmap was asked for so far: scall_handler_mmap checks none of this.   *)
(***************************************************************************)
MmapVmas(p) == {vmas[p][i] : i \in {k \in DOMAIN vmas[p] : k > 2}}

\* It ends in the lower half of the address space, and get_free_vpn can count it
\* in an int.
BelowKernel ==
    \A p \in Proc : \A v \in MmapVmas(p) :
        v.vpn + v.pagen <= KernelSlot * SlotPages /\ AsInt(v.pagen) = v.pagen

\* It ends below the stack, and none of it was for nothing.
BelowStack ==
    /\ BelowKernel
    /\ \A p \in Proc : \A v \in MmapVmas(p) :
           v.vpn + v.pagen <= StackBase /\ v.pagen # 0

\* "The new VMA should NOT overlap with any existing VMAs" (scall_handler_mmap).
VmasApart ==
    \A p \in Proc : \A i, j \in DOMAIN vmas[p] :
        i # j => Pages(vmas[p][i]) \cap Pages(vmas[p][j]) = {}

\* The kernel is mapped in the same way in every address space: a trap finds the
\* handler where it is.  Every other table and every page has one user, and is
\* not free: whoever ends, faults or starts next cannot take it.
MemoryApart ==
    /\ \A p \in Live : TablesAt(satp[p], KernelSlot) = {HighTable}
    /\ \A p \in Live : (Tables({p}) \ Tables({})) \cap free = {}
    /\ DataFrames(Live) \cap (free \cup Tables(Live)) = {}
    /\ \A p, q \in Live : p # q =>
          /\ Tables({p}) \cap Tables({q}) \subseteq Tables({})
          /\ DataFrames({p}) \cap DataFrames({q}) = {}

(***************************************************************************)
(* Programs see flat memory.                                                *)
(***************************************************************************)
\* What a page fault will make of a page that is touched for the first time.
FirstPage(app, vpn) ==
    [k \in 0..PageSize-1 |->
        LET offset == (vpn - app.load) * PageSize + k
        IN  IF offset \in 0..app.size-1 THEN File(app, offset) ELSE Zero]

StartImage(app) ==
    [vpn \in UNION {Pages(v) : v \in Range(FirstVmas(app))} |-> FirstPage(app, vpn)]

\* The memory of p as a program reads it.
View(p) ==
    [vpn \in UNION {Pages(v) : v \in Range(vmas[p])} |->
        IF Mapped(p, vpn) THEN data[FrameOf(p, vpn)] ELSE FirstPage(elf[p], vpn)]

Memory == INSTANCE ProgramMemory WITH
    Image <- StartImage,
    memory <- [p \in Proc |-> View(p)],
    answer <- a3

\* Demand paging, large pages, the tables and other processes are invisible:
\* a program finds its image, zeros in its stack and in what mmap gives, and
\* what it wrote; no page fault and no other process changes a byte of it.  Only
\* the page that the file ends in is filled with zeros alone, if an address behind
\* the end is the first in it that is accessed.
ImplementsMemory == Memory!MSpec
=============================================================================
