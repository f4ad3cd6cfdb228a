# Jake: models and proofs

Jake is a small teaching kernel for one RISC-V hart: a buddy allocator for page
frames, Sv48 page tables with VMAs and demand paging, processes with a
round-robin scheduler, system calls, and a timer that M-mode forwards to S-mode.
This directory holds TLA+ models of it, TLC configurations that check them on
small instances, and TLAPS proofs. Paths below are relative to `src/kernel/`.

## The system

| Part | State | Operations | What makes it correct |
|---|---|---|---|
| Buddy allocator, `buddy.c` | `buddy_blocks[]` (refcnt, order, next), `buddy_free_lists[]` | `buddy_init`, `buddy_alloc`, `buddy_free`, `buddy_reset`, `buddy_migrate` | no frame has two owners, none is lost, a request fails only if memory is really missing |
| Page tables and VMAs, `pt.c` | page-table pages in memory, `kvmas`, a VMA list per process | map, unmap, walk, new and destroy a VMA, demand mapping | a mapping lies inside its VMA and keeps its frame, a frame has one use, a destroyed VMA leaves nothing mapped |
| Processes, `process.c` | `process_list[]`, `proc_running`, `processes_total`, `last_pid` | start, kill, schedule, switch | one process runs; the table and the counter agree; a process resumes where it was |
| Traps and system calls, `exception.c`, `trap.S` | the frame `tf_user` on the kernel stack, `sepc`, `satp` | `scall` and its handlers, `mcall` | every trap is answered, and changes only what the call may change |
| Timer, `timer.c` | `mtimecmp`, `mip.MTIP`, `mip.STIP` | `timer_setup`, `increase_timer`, forward, clear | ticks are not confused, and every process gets its turn |
| Boot, `stack.S`, `main.c`, `pt_init` | machine registers, the kernel's tables, `kvmas` | entry, `main`, identity mappings, the move to the high half | the kernel never runs at an address that is not mapped, and ends with the high half only |
| Small allocations, `pt_salloc` | `base`, `cursor` | `pt_salloc` | no byte is handed out twice |
| ELF parser, `elfpars.c` | none | `parse_elf` | finds the segment to load, says so if there is none |
| Output, lists, debugging, `util.c`, `debug.c` | none | `printf`, `list_append`, `list_remove`, `node_migrate` | a number keeps its digits, a list its nodes |
| Assembler exercises, `../../asm` | none | one function per exercise, and a tester | results for every argument, not only for those the tester draws |

How they interact: a program traps into `trap_handler_s`, which saves its
registers in `tf_user` and calls `scall`. `scall` looks for a forwarded timer
interrupt first; then it serves the system call or the page fault and returns
to the frame, or the scheduler leaves with the frame of another process. What
S-mode may not do itself (clear STIP, arm the timer, switch off) it asks M-mode
for with `ecall`, served by `mcall`. The machine timer interrupts U-mode and
S-mode at any instruction. Processes and page tables take their memory from
the buddy allocator.

What is hard here: order fields that are stale for a long time before a split
relies on them; the one-instruction offsets between the saved and the resumed
program counter on four paths; ticks at every point of the kernel, also inside
the `ecall` that clears the previous one; error paths taken after half of the
work is done (`execv`, mapping a VMA); memory and tables that are full. `PROJECT.json`
lists these hazards at their lines, with the properties that cover them.

## The modules

**`Frames`** is the geometry: `2^MaxOrder` frames, blocks and buddies. A frame is
the bit vector of its page number; `block2buddy` flips one bit.

**`FrameAllocator`** is what the rest of the kernel relies on: frames are donated
to a pool; a caller gets an aligned run of frames that nobody else has; a request
is refused only if there is no such run.

**`Buddy`** is `buddy.c`. `refcnt` and `order` are the fields of `buddy_blocks[]`,
`free[o]` is the list `buddy_free_lists[o]`, head first. Calls of the allocator
do not interleave (one hart, interrupts do not call it), but they have loops,
and one round of a loop is one step: `BootFree` and `Free` start the recursion of
`__buddy_try_merge` (`MergeStep`, `MergeDone`); `AllocStart` finds the order to
split, `SplitStep` is one round of `buddy_split`, `AllocPop` the final
`buddy_pop`. `held` is the only variable that is not in the code: the pointers
callers have. Callers free only what they hold.

**`Processes`** is what programs rely on: a context per process, changed only by
the instructions of that process and by the answers to its own calls (`getpid`
answers with its own identifier, a page fault that is served changes nothing);
and the machine stops only when the last process ends or one of them dies. No
interrupts, frames or scheduler.

**`Kernel`** is `process.c`, `exception.c`, the pending bits of `timer.c`, and
`trap.S`. `at` is the place the hart is at (the module lists them); each system
call is one action after the common entry `Trap`, `TimerPending`. Registers are
reduced to `pc`, `a3` (written by every system call) and `satp`. A program counter
counts instructions, and an instruction of a program changes `a3`, so that a
skipped one is not mistaken for an executed one. Between any two places the timer may expire (`TimerExpires`)
and M-mode serves it first (`MachineTimer`, or `MachineCall` when it finds it
pending inside an `ecall`). A saved frame that nobody reads before it is written
again is forgotten (`NoFrame`), which would show a stale read as a wrong
address space. Whether a start fails for want of memory, and what mmap returns,
is a free choice: these depend on the memory the process has.

**`PageTable`** is one address space of `pt.c`: `vmas` is the list of VMAs, `pte`
the entries of all its tables, `free` the frames `pt_alloc` still has. An entry
is named by its level and index, so a table is the entries below the one that
points to it. A VMA is populated when it is made (`pt_vma_new`) or faulted in
(`PageFault`); both go through `NewPage` (the three requirements of
`pt_vma_new_page_at_vpn`), `NoNewPage` or `PageInTheWay`, then walk down with
one step per table that has to be made (`pt_set_pte_nonleaf`) to the entry
(`pt_set_pte_leaf`) or to an error (`WalkFails`). `pt_vma_destroy` and
`pt_vma_unmap_pages` take one step per round of their loop (`UnmapPage`), with
the arithmetic of the code: an error code is added to `vpn`, and a `vpn` below 0 is
a huge one. The rest of the kernel takes memory too (`Elsewhere`). `Given` leaves
open which of the free blocks the buddy allocator returns.

The result of a page is kept in a `size_t`, so an error is not seen: it moves the loop that
populates a VMA back (`Return`), and below page 0 the boundary of a page is at the top of the address
space, where the sum in the test for a fit wraps to 0 (`Fits`, `PageAround`).
**`PageTree`** has the operators on the tree that `PageTable` and `KernelMap` share, and
`UnderTables`, what makes it a tree.

**`ProgramMemory`** is what a program relies on of its memory: a flat map from
pages to contents, with its image at the start and zeros where mmap adds pages. The
one exception, `Miss`, is that the page its file ends in may be found without the file's part.
**`UserMemory`** implements it: `proc_create_process_vmas`, `get_free_vpn`, mmap,
page faults with large pages, `proc_copy_binary` and `proc_kill_process`. Each is
one action, since nothing of the kind interrupts it; the rounds and error paths of
mapping are `PageTable`'s subject. Address spaces are the reachable part of one
memory (`pte`, `data`), so that sharing by accident can be seen: the root of a new
process is filled by `proc_copy_kernel_pt`, from the kernel's root with its stale
first entry.

**`KernelMap`** is `pt_init` from `ksatp_init` to `pt_destroy_low_kvmas`, up to the
first process: the tree, the list of VMAs with its pointers (`list_append`,
`list_remove` and `node_migrate` of `util.c`), the half the program counter and the
stack are in, and the TLB. `CanRun` and `CanFollow` say what the hardware needs at
each step; a step that lacks it traps (`Trap`). A large page whose frames are not aligned does
not translate (`MapsTo`), so that mapping at the wrong boundary would be seen.

**`Lists`** is a sequence of free blocks per order with push, pop and remove; `answer` is the
last call and the block it returned, so that a call that finds nothing (`PopEmpty`,
`RemoveMissing`) is a step of its own, allowed only if there is nothing to find.
**`FreeList`** implements it with the fields of `buddy.c`: `buddy_push`, `buddy_pop`,
`buddy_remove` with one step per round of its walk and the rotation it ends with,
and `buddy_migrate`, which adds the base of the high half to every pointer. A pointer into the
half the code does not use is none of the blocks of `Lists`.
`Buddy` uses the sequences of `Lists`.

**`Timer`** is `timer.c` and the branches of `mcall` that lead to it, with a clock
that goes on between any two instructions, `mtimecmp` with its width and its two
writes, and a pending bit that is computed from the two. `Kernel` has the same
handlers with a tick at any moment.

**`CursorAllocator`** is `pt_salloc`. **`Elf`**, **`Printing`**, **`Exercises`** and
**`MatrixProduct`** have no state; they are functions, with loops as recursive
functions, next to what their results should be: `parse_elf` on a file that is its
program headers and what happens to follow them; `printf` with `__printnum`,
`__cstox` and `reverse` on numbers as bytes in memory, against what the caller's
tokens mean (negative ints apart, which `printf` cannot print); six of the exercises in `asm/assignments`, on registers twice as wide
as an int, against what `asm/tester_src/tester_main.c` expects; and exercise 5_0 on
memory, against the tester's product. **`MCLibrary`** calls each of them for every
input within the bounds.

`MCLibrary` runs `Timer` as well, which is on its own, too.
Each other `MC` module instantiates the module it is named after for TLC.
Definitions marked "Slip:" are wrong on purpose and unused; the mutation tests
in `PROJECT.json` put each in the place of the definition below it and expect
the property it names to fail.

## The runs

| Run | Instance | What it shows |
|---|---|---|
| `buddy` | 16 frames: 8 kernel image, 1 stack, 7 in the pool | the allocator's invariants, alignment, and `ImplementsAllocator` |
| `kernel` | 3 process slots, 4 starts, every trap | table, counter, address spaces, identifiers and timer bits are consistent |
| `kernel_user` | 2 process slots, 3 starts, 3 instructions, 2 values | `ImplementsProcesses`: nothing the kernel does is visible in another process |
| `kernel_live` | 3 process slots, starts and ends without limit | `NoStarvation`, `TrapsEnd`, `PowersOff` |
| `page_table` | 3 levels of 2 entries, 6 frames, 2 of 5 VMAs at a time | the tree is a tree (`UnderTables`), a frame has one use (`FramesHeldOnce`), mappings are kept, large pages stay in their VMA, a fault that returns has mapped its page, a fault that gives up has a reason (`FaultsServed`), populating a VMA skips no page (`NoGapBehind`), every call returns |
| `page_table_destroy` | the same | **violated**: destroying a VMA with an untouched page leaves others mapped |
| `page_table_populate` | single frames | **violated**: populating a VMA returns 0 with pages unmapped (`PopulateMaps`) |
| `user_memory` | 2 processes at a time, 2 programs, 9 frames | VMAs do not overlap, processes share the kernel's tables and nothing else, and `ImplementsMemory` with memory running out |
| `user_memory_mmap_zero` | 1 process, mmap of 0 and 1 pages | **violated**: VMAs that overlap |
| `kernel_map` | 16 pages of 4 levels, 70 layouts, 1 to 20 free pages | `BootSurvives` at every step, the right final tables, list and TLB, and boot ends |
| `free_list` | 4 blocks, 2 orders | `ImplementsLists`: what is on the lists and what each call returns, also over the move to the high half; `buddy_remove` ends |
| `library` | `MCLibrary.cfg` names the bounds | `RegionsApart`: no byte is handed out twice. `ResultsRight`: the first loadable segment is used; tokens and numbers that are not negative ints are printed as meant; six exercises and the matrix product give what the tester expects, except 1_7 exactly when the int it drops is negative, and 5_0 writes one halfword behind the product |
| `library`, timer | period 4, clock on both sides of the limit of the first write | when the timer may go off by accident (`TimerSafe`), the next tick is a period ahead at most, an ecall that meets a tick is not lost (`ClearIsDone`) and served in the end |

Each module with state begins its properties with `TypeOK`. Only `buddy` has it among
its invariants; in the others it says less than their other properties do. It is proved
for `Buddy`, `Kernel`, `PageTable`, `KernelMap` and `UserMemory`, and any instance can be checked with
it added.

Bounds. The seven frames of the pool merge to one block of each of the orders
0, 1 and 2: splits and merges go over two levels, the blocks at both ends of the
pool have buddies that are never free, and fragmentation makes requests fail. Three slots are the least for which the order of the scheduler's scan
matters; four starts in three slots reuse one while the others are alive, and a
fifth start finds the table full. Program counters wrap at `PcBound`: with 3, an offset of
one instruction in either direction is visible. `PidBound` stands for 2^32; it is
above `MaxStarts` except in `kernel_live`, where it is 1, because identifiers
play no part there and starting must never end. `Traps` is everything except
in `kernel_live`, which keeps what changes the process table.

In `page_table` there are eight virtual pages; the VMAs fit pages of one, two and
four, start on and off the boundaries,
and one can lie below another, where the backward steps of the unmapping loop
lead. A path needs two tables, so with six frames memory runs out while a page
is looked for, while tables are made and while a VMA is populated. Memory is
given from either end, which leaves blocks that are too small. One VMA holds page 0,
the only page a call that fails can take away.

In `user_memory` a page has three bytes and the text two pages. One program fills both, so
that it ends exactly where the heap begins; the other has one byte in the second page, so
that a byte behind the end of its file can be touched first. The heap is not on the boundary of a large
page, and nine frames are fewer than two processes can touch, so that faults meet
every choice of page size and the end of memory. Contents are `Zero`, the pages of the
file, and what `Stored` pages are written with. In `kernel_map` the layouts are all
divisions of eight pages into devices, kernel, memory and stack; with 20 pages of
memory for tables all mappings succeed, with fewer they fail at every place. In
`free_list` four blocks are enough for a list with a block on both sides of the
one to be removed, and another list. In the code of the timer
`MaskLow` has 28 ones, `MaskHigh` 56, `Period` is 100000, and `Handler` is the time
M-mode takes at most; what matters is `Handler < Period < MaskLow`, and clocks on both
sides of `MaskLow`, up to what the second write keeps (`MaskHigh`). In `library`
a number has 4 bytes of 2 bits, an int of the exercises 4 bits and a halfword 2, so
that all values are tried; what the code does depends on widths only in proportion.

Fairness. Boot (`kernel_map`) and the loop of `buddy_remove` (`free_list`) go on
(weak fairness): one hart, with interrupts off. In the timer's behaviours of `library` handlers go on and
so does the clock (weak fairness). In `page_table` a call of `pt.c` goes on (weak fairness): it runs in
S-mode, where nothing but M-mode interrupts it. In `kernel_live` M-mode runs to its end (weak fairness). S-mode
goes on, and `mcall` finds no tick pending, if they can again and again (strong
fairness): `increase_timer` puts the next tick 100000 counts ahead, far more than
a trap takes, so ticks cannot hit every instruction. A process that runs again
and again sees a tick in U-mode at some time (strong fairness per process): a
tick in S-mode is dropped by `mcall`, and nothing in the code rules out a program
whose system calls coincide with every tick; the timer is not synchronised with
programs, which is what the assumption says. Programs are under no obligation.

## What is proved

| Module | Theorems | For every |
|---|---|---|
| `BuddyProofs` | `TypeOK`, `ListsExact`, `NoOverlap`, `NothingLost`, `StaleOrderRight`, `FullyMerged`, `GrantsWhatWasAsked`, `ImplementsAllocator` | `MaxOrder`, frames freed at boot and their order |
| `KernelProofs` | `TypeOK`, `CountMatches`, `OneRunning`, `OwnAddressSpace`, `PidsDiffer`, `TimerSeen`, `SchedulerFinds`, `ImplementsProcesses` | number of slots (two at least) and of starts, set of traps, values |
| `TimerProofs` | `TimerSafe`, `NextTickSoon`, `ClearIsDone` | period, masks, boot time, length of M-mode below a period |
| `MemoryProofs` | `RegionsApart`; `TypeOK` of `FreeList`, `ImplementsLists` | size and number of pages, sizes asked for; number of blocks and of orders |
| `PageTableProofs` | `TypeOK`, `UnderTables`, `FramesHeldOnce`, `KeepsMappings`, `StaysInVma`, `FaultMaps`, `FaultsServed`, `NoGapBehind`, if no VMA is populated in the lowest pages (`HighPopulates`) | number of levels, size of tables, memory, VMAs, allocator |
| `KernelMapProofs` | `TypeOK`, `BootSurvives`, `BootMaps`, `ListIsHigh` | layout of physical memory, number of levels, size of tables, memory at boot |
| `UserMemoryProofs` | `TypeOK`, `VmasApart`, `MemoryApart`, `ImplementsMemory` | number of processes, programs that end below the heap (`Fit`; `Plain` for the last), layout, memory; any requests to mmap, as long as those made so far stay below the stack or the kernel (`BelowStack`, `BelowKernel`) |

Each inductive invariant is called `IInv` (`CInv` and `FInv` in `MemoryProofs`) and was checked with TLC on the instance of
the component's run before it was proved; each proof has a lemma per action. `PageTreeProofs`
has the lemmas on the tree of tables that `PageTableProofs` and `KernelMapProofs` share:
how pages and entries of different levels lie to each other, and what an entry that is set or
cleared does to `UnderTables` and to what is mapped.

**Buddy** (`MaxOrderAssumption`, `BootAssumption`: the frames freed at boot are
frames, none twice). `GrantsWhatWasAsked` is part of what the refinement says and is
in no run of its own. `ListsExact`, `NoOverlap` and `NothingLost` (the blocks partition
memory) are not inductive: a split pushes the upper half on a list without
writing its order, so its order must be known beforehand. `StaleOrderRight`
says it: in a frame inside a block, `order` is the position of the lowest one
bit of its page number, the only order at which it can be an upper half. That
makes the split of a block exactly undo a merge. `AllAligned` and `Counts` tie the
rest down. `FullyMerged` holds only between calls; inside the loops
`OnePairAtMost` says that the only free buddies of equal order are the pair the
running loop deals with next (the block being merged, or the halves just
split), and `LoopOK` that the loop finds the block it expects.

For the refinement the rounds of the loops are invisible, and a granted block is
available because blocks do not overlap. The hard case is a refusal: if an
aligned run of `2^o` frames were free, some free block of order `o` or more would
exist (`NoRunIsMissed`). Take the free block in the run of least order, and look
at its buddy: it would be free and of the same order, which `FullyMerged` excludes,
unless the block covers the run.

**Kernel** (`KernelAssumption`). The properties support each other: the counter decides
whether the scheduler is called, so that it finds a paused process (`CountMatches`,
`OneRunning`); a process is only resumed with a frame of its own address space
(`OwnAddressSpace`). What must be added is about the way through M-mode: `Requests` (a
request is made for every `ecall` and forgotten afterwards), `ClearedFrame` (the frame
survives the `ecall` that clears a tick), `Causes` (what the trap was taken for agrees
with the pending bit at every place), `Statuses` (slot 0 is never used, and nothing is live
before `main` starts the first process), `Numbered` (`last_pid` is above all identifiers in
use while it has not wrapped). Starts and ends change a cardinality, which needs
the facts about finite sets; that the scan of `proc_scheduler` visits every slot but the last
one is a lemma about residues.

For the refinement (`KernelImplementsProcesses`) every step of `Kernel` is one of
`Processes` or invisible. A process' context is in the registers, in `tf_user` or in
`process_list[]`, by the place the hart is at; the lemmas say for each kind of step which
of the three it moves from and to. A tick moves a context twice without a step of the
program; a system call is one step, however many ticks come before it is answered.

**Timer** (`TimerAssumption`: the masks are ones, M-mode takes less than a period, and the
clock plus a period fits the second mask; the first mask is arbitrary). `TotalAhead` carries the argument: while
`total` is written it is ahead of the clock by a period less the time M-mode has spent,
and between the writes the register holds the low bits of it. `InIncrease` and
`SetupFirst` say who calls `increase_timer`, and that interrupts are enabled in it only at
boot. `&` with a mask is reduced to two facts: it is at most the number, and equal to it if the
number fits.

**CursorAllocator** (`CursorAssumption`). `CursorIsBehind`: what was handed out of the
current page ends before the cursor. `ReadyForPage`: after a failure the cursor is back at 0.

**FreeList** (`FreeListAssumption`: there are finitely many blocks). What `Chain` finds is defined
by a recursive function; that it is the list `s` whenever the fields link the blocks of `s`
and no block is twice in it (`ChainIs`) follows without induction: two solutions of the recursion
would differ at a least place. The argument then goes with sequences: `AreLists` says that
the heads and the fields link the lists, and that no block is in two of them or twice in one;
`PointersRight` that every pointer stored points into the half the code runs in or is about to
jump to; `WalkRight` where `tail` is, and that `prev` is `NULL` or in front of the block
that is looked for. `Rotate` is two steps of the argument: its two writes turn the list so that
it begins with the block (`TurnLists`), and the block is popped (`PopLists`), which is `Remove`
of `Lists`. `buddy_migrate` moves every pointer and no block; between it and the jump nothing
reads a pointer.

**PageTable** (`PageTreeAssumption`, `PageTableAssumption`: VMAs lie in the address space,
the allocator returns one of the blocks that are free if there are any; and
`SizeAssumption`). The last one lists what is used of `Fanout^l`: it is 1 for level 0, positive,
and a page of one level is made of whole pages of the levels below. That is true of powers, but
the provers know nothing of them, and induction is out of reach; TLC evaluates it
on the instances. The conjuncts added to the properties are about calls that are half
done. `JobInVma`: a call works in a VMA, a fault at a page that is still unmapped.
`PageFound`: the page it found lies in the VMA around the address, and if it begins where the
largest does its entry is empty. `FramesOfPage`: its frames are neither free nor used.
`PageZeroed`: otherwise it is the structure `PageInTheWay` leaves, which makes the walk clear page
0. `NoGapBehind` is a property of the run too: errors take the loop of `pt_vma_new` back, never
forward. The theorems have the hypothesis `HighPopulates`: a VMA that is populated begins at page 4 or
higher, so that an error does not take `vpn` below 0 (there the loop wraps, and a page at the top of the address space counts as one that fits). Only
the tests populate VMAs, at pages far above. The
action properties follow from the invariant, by actions; `UnderTables` is what makes
a leaf that is written shadow nothing.

**KernelMap** (`KernelMapAssumption`, `SizeAssumption`: the high half begins on a boundary of
pages of every level, the machine fits below it, and memory and stack have a page at least).
That the hart survives follows from what the tree holds at each place, and `ListIsHigh` from
the shape of the list at each place: `Ring` while it grows, `Moved` while the pointers of
some nodes are high already, `Left` while low VMAs are taken off; a lemma for each of the
operations of `util.c` says how it leads from one shape to the next. About the tree the
invariant says that what was mapped so far translates to its frames and nothing else
is mapped (`MappedRight`), and what keeps the loops of mapping and unmapping from
ever going back. `LeavesRight`: a leaf is part of one VMA, and its frames are aligned. `TablesUsed`: no table
without a page below it, so that the largest page that fits finds an empty entry, and
nothing is in its way. `AtBoundary`: the next page of a VMA lies on the boundary of every level
whose page would fit, since the VMA's first one and the size of all pages before are
multiples of it. `UnmapsForward`: unmapping meets a page at every round. All of this holds while
`free > 0`; when memory has run out an error moves the loops back, the kernel
traps or maps less, and only `ListIsHigh` and `TypeOK` are left.

**UserMemory** (`UserMemoryAssumption`: in particular the heap is below the stack and
the stack below the kernel's entry of the root). The theorems have one more hypothesis on programs, `Fit`: they
end before the heap begins. And they say what follows as long as programs have not asked too much of
mmap, which takes any number of pages: `MemoryApart` holds while every VMA of mmap ends below the kernel's half and its size fits the
`int` `get_free_vpn` keeps it in (`BelowKernel`); `VmasApart` and the refinement while they also end below the stack and none
is empty (`BelowStack`). These are conditions on the states reached (`Spec /\ []BelowStack => []VmasApart`), not on the requests
there may be, and nothing in the code ensures them; `user_memory_mmap_zero` shows one way to
break `VmasApart` without them, a VMA that reaches the stack is another. It is not inductive alone:
`get_free_vpn` looks at the VMA with the highest start only. `InPlace` says what the i-th VMA
is: text, stack, or one of mmap's, which lie in the heap below the kernel; the next one lies behind all of them. For `MemoryApart` the entries of all tables are of three
kinds (`ThreeKinds`): those of the kernel's root with their copies, those of a process' root, and leaves in
one of its tables. `HeldPrivately`: the frames of the last two kinds are not free, not the
kernel's, no root, and no two entries share one. `OneTable`: a slot of a root has one table. Then
what a process can reach is found by walking back from a frame to the only entry that
holds it. That least elements exist (`pt_alloc` takes the least block, `get_free_vpn` the highest VMA)
is proved from the well-foundedness of the numbers (`HasLeast`).

The refinement (`MemoryIsFlat`) has the hypothesis `Plain` besides:
no text is so long that a large page fits into it, since for such a text the code copies one
page of the file only (below). `RInv` adds to the invariant that the first VMA of a process is the
text of its program (`TextFirst`), and that every page lies in a VMA and in one slot, that no two
translate the same address and that all their frames have contents (`PagesInVmas`). A page
that is mapped keeps its frame whatever other processes do, and by `MemoryApart`'s
invariant different pages have different frames, so a store changes one byte of one view. A page that is
not mapped counts as what a fault would put there (`FirstPage`: the file's part, then zeros). A
fault is then invisible when it fills its pages with just that (`Served`). Of the pages it maps (`Around`)
only the one of the address can be text, and the length `proc_copy_binary` computes
comes out as 0 for the page behind a text that fills its last page. The exception is an address
behind the end of the file in the page it ends in; that is `Miss`. It is what the proof
came across: pages of two bytes, which the run had before, do not show it.

Only model-checked:

* Liveness (`NoStarvation`, `TrapsEnd`, `PowersOff`, `CallsReturn`, `RemoveReturns`,
  `EcallServed`, `BootEnds`), which is out of the prover's reach.
* `ResultsRight`: what recursive functions compute would take induction over data.

## Where the code differs from its comments

Three runs show such a difference, and the findings in `PROJECT.json` quote the comments:

* `pt_vma_destroy` leaves pages mapped (`page_table_destroy`).
* `__pt_vma_new` keeps the result of a mapping in a `size_t`, so `pagen < 0`
  (`pt.c:541`) never holds: an error moves back and 0 is returned (`pt.h:150`
  promises an error), when memory has run out (`page_table_populate`), and with
  memory left, too: if a page was mapped small for want of a large block, the next
  round finds it in its way. Hence the condition of `BootMaps`.
* mmap of zero pages leads to VMAs that overlap (`user_memory_mmap_zero`).

The models have others, which the properties allow for:

* When the largest page that fits begins with one that is mapped, a fault stops the
  machine with memory left (`FaultsServed`), after clearing the entry of page 0
  (`pt.c:514`, `KeepsMappings`). When it begins with a page that is not mapped, but a
  smaller page is taken for want of memory and an earlier VMA has left a table at its
  entry (unmapping leaves tables behind), `pt_set_pte_leaf` refuses, and the machine
  stops as well. The proof of `FaultsServed` brought this second case to light; the
  VMA of one page in `page_table` makes it happen.
* `increase_timer` is "Timer safe" only while the time fits into 28 bits when
  `timer_setup` calls it (`timer.c:29`, `TimerSafe`).
* execv of an unknown application switches the machine off (`exception.c:123`);
  its comment promises -1.
* `buddy_free` finds a double free by refcnt 0 (`buddy.c:162`), but a block that was
  merged in between has refcnt 1. `Buddy` has callers that free what they hold.
* `proc_kill_process` gives no frame back (`process.c:292` says it does): nothing
  calls `pt_free`.
* A text that fills a large page is faulted in at once, but one page of the file is
  copied (`exception.c:458`, `process.c:523`). The programs of `user_memory` are
  shorter, as are those of the repository.
* The page a file ends in stays zeros if the first address touched in it is behind the end
  of the file (of `.bss`, say; `size_load` is `p_filesz`): `exception.c:395` copies only for
  an address up to the end, and once the page is mapped no fault comes back to it
  (`Miss`; `user_memory` meets it).
* mmap takes any number of pages: its VMA may cover the stack (`exception.c:213` says it
  should not overlap any other) or reach the kernel's half.
* In the lowest pages the loop that populates a VMA goes below page 0, where a page at the
  top of the address space counts as one that fits (`pt.c:438`); hence `HighPopulates`.
* `parse_elf` returns 0 without a loadable segment (`elfpars.c:54` promises -1 in case of
  errors); only `valid` tells, which nobody reads. `FirstLoad` has the 0.
* Exercise 1_7 is wrong if the int it drops is negative (`AsExpected`); 5_0 stores words,
  so two bytes behind the matrix are written (`IsProduct`).
* Exercise 1_2 is wrong for negative ints and 3_3 returns a big-endian
  one without its sign in the upper half; the tester draws none, or looks at the
  lower half.
* `printf` puts out a negative int (`%d`) as the `uintptr_t` it is converted to; a FIXME says so
  (`util.c:119`). `ResultsRight` claims nothing for formats with one.

## What is not modelled

* Permissions of pages: VMAs and entries carry them unchanged, and
  `set_vma_protection` is not called.
* The TLB after boot: pages are unmapped without a flush, but every way back to
  U-mode after a kill does one. `BootMaps` covers boot.
* Traps taken in S-mode (the kernel's own page faults, which reuse the top of the
  stack that `sscratch` names), and the entry `stack.S`, which writes machine
  registers once.
* `buddy_print_status`, `parse_header`, string comparison and `rand`, which nothing
  or only tests call; `memset` and `memcpy` except by their effect in `UserMemory`;
  register dumps (`debug.c`) and the UART.
* Wrap-around of `last_pid`: `PidBound` is above `MaxStarts` where identifiers
  matter.
* The kernel's tests, which exercise the same functions, and the exercises of one
  or two instructions or about the tester's own calls.

## Plan

Every invariant, action property and refinement about states of the kernel is proved;
what a next step would add is in the model, above all the traps taken in S-mode.
