------------------------------- MODULE Buddy --------------------------------
(***************************************************************************)
(* The physical page-frame allocator, src/kernel/buddy.c.                   *)
(*                                                                          *)
(* buddy_blocks[] is the pair of functions refcnt and order; the singly     *)
(* linked list buddy_free_lists[o] (the field next) is the sequence free[o],*)
(* head first.  The kernel calls the allocator from one hart with           *)
(* interrupts off, so a call is never interleaved with another; it is cut   *)
(* into one step per round of its loop (__buddy_try_merge, buddy_split),    *)
(* and pc says which loop is running.  No other operation starts until it   *)
(* is back at "idle".                                                       *)
(*                                                                          *)
(* A definition marked "Slip:" is a wrong version of the one below it, the  *)
(* kind of mistake that is easily made there.  Nothing uses it; the         *)
(* mutation tests put it in the other's place and expect a violation.       *)
(***************************************************************************)
EXTENDS Frames, Sequences, Functions

CONSTANT BootSeq      \* the frames __buddy_init hands to buddy_free, in order

\* __buddy_init visits phys_base, phys_base + 1 page, ...: no frame twice.
ASSUME BootAssumption ==
    /\ BootSeq \in Seq(Page)
    /\ \A i, j \in 1..Len(BootSeq) : BootSeq[i] = BootSeq[j] => i = j

VARIABLES
    refcnt,    \* buddy_blocks[].refcnt
    order,     \* buddy_blocks[].order
    free,      \* buddy_free_lists
    booted,    \* how many frames __buddy_init has freed
    pc,        \* the loop that is running: "idle", "merge" or "split"
    blk,       \* block of __buddy_try_merge
    lvl,       \* i of buddy_split
    want,      \* the order buddy_alloc was asked for
    held,      \* the blocks callers hold (their pointers)
    ret        \* what the last call returned, and for an allocation the order

vars == <<refcnt, order, free, booted, pc, blk, lvl, want, held, ret>>

local == <<blk, lvl, want>>

\* What the locals hold when no loop is running.
NoPage == [i \in Bit |-> 0]

(***************************************************************************)
(* buddy_remove: the list is rotated until block is its head, then popped.  *)
(***************************************************************************)
buddy_remove(l, b) ==
    IF b \in Range(l)
    THEN LET i == CHOOSE k \in DOMAIN l : l[k] = b
         IN  SubSeq(l, i + 1, Len(l)) \o SubSeq(l, 1, i - 1)
    ELSE l

(***************************************************************************)
(* __buddy_init: every block starts out in use, with order 0, on no list.   *)
(***************************************************************************)
Init ==
    /\ refcnt = [p \in Page |-> 1]
    /\ order = [p \in Page |-> 0]
    /\ free = [o \in Order |-> << >>]
    /\ booted = 0
    /\ pc = "idle"
    /\ blk = NoPage /\ lvl = 0 /\ want = 0
    /\ held = {}
    /\ ret = <<"none", 0>>

\* Slip: the block is not declared free.
PushKeepsCount(b, o) ==
    /\ free' = [free EXCEPT ![o] = <<b>> \o @]
    /\ UNCHANGED refcnt

\* buddy_push(block, o), which also declares the block free.
buddy_push(b, o) ==
    /\ free' = [free EXCEPT ![o] = <<b>> \o @]
    /\ refcnt' = [refcnt EXCEPT ![b] = 0]

(***************************************************************************)
(* buddy_free(block).  A block in use is pushed on the list of its order    *)
(* and __buddy_try_merge starts from it.                                    *)
(***************************************************************************)
buddy_free(b) ==
    CASE refcnt[b] = 0 ->
            /\ ret' = <<"double free", 0>>
            /\ UNCHANGED <<refcnt, free, pc, blk>>
      [] refcnt[b] = 1 ->
            /\ buddy_push(b, order[b])
            /\ pc' = "merge"
            /\ blk' = b
            /\ ret' = <<"freed", 0>>
      [] OTHER ->
            /\ refcnt' = [refcnt EXCEPT ![b] = @ - 1]
            /\ ret' = <<"freed", 0>>
            /\ UNCHANGED <<free, pc, blk>>

\* One iteration of the loop of __buddy_init.
BootFree ==
    /\ pc = "idle"
    /\ booted < Len(BootSeq)
    /\ booted' = booted + 1
    /\ buddy_free(BootSeq[booted + 1])
    /\ UNCHANGED <<order, lvl, want, held>>

\* A caller gives back a block it holds.
Free(b) ==
    /\ pc = "idle"
    /\ booted = Len(BootSeq)
    /\ held' = held \ {b}
    /\ buddy_free(b)
    /\ UNCHANGED <<order, lvl, want, booted>>

(***************************************************************************)
(* __buddy_try_merge, one level of its recursion.                           *)
(***************************************************************************)
Mergeable(b) ==
    /\ order[b] # MaxOrder
    /\ order[block2buddy(b, order[b])] = order[b]
    /\ refcnt[b] = 0
    /\ refcnt[block2buddy(b, order[b])] = 0

\* Slip: the order of the block that is absorbed is tidied up.
MergeClearsOrder(low, high, o) ==
    /\ free' = [free EXCEPT ![o] = buddy_remove(buddy_remove(@, high), low),
                            ![o + 1] = <<low>> \o @]
    /\ refcnt' = [refcnt EXCEPT ![high] = @ + 1, ![low] = 0]
    /\ order' = [order EXCEPT ![low] = @ + 1, ![high] = 0]
    /\ blk' = low

\* __buddy_merge(block, buddy): the one with the lower address absorbs the
\* other, whose order stays as it is and whose refcnt buddy_pop leaves at 1.
__buddy_merge(low, high, o) ==
    /\ free' = [free EXCEPT ![o] = buddy_remove(buddy_remove(@, high), low),
                            ![o + 1] = <<low>> \o @]
    /\ refcnt' = [refcnt EXCEPT
                    ![high] = IF high \in Range(free[o]) THEN @ + 1 ELSE @,
                    ![low] = 0]
    /\ order' = [order EXCEPT ![low] = @ + 1]
    /\ blk' = low

\* Slip: no recursion, only one merge for a free.
MergeOnce ==
    /\ pc = "merge"
    /\ Mergeable(blk)
    /\ LET o == order[blk]
           buddy == block2buddy(blk, o)
       IN  IF blk[o] = 1
           THEN __buddy_merge(buddy, blk, o)
           ELSE __buddy_merge(blk, buddy, o)
    /\ pc' = "idle"
    /\ UNCHANGED <<booted, lvl, want, held, ret>>

MergeStep ==
    /\ pc = "merge"
    /\ Mergeable(blk)
    /\ LET o == order[blk]
           buddy == block2buddy(blk, o)
       IN  IF blk[o] = 1
           THEN __buddy_merge(buddy, blk, o)
           ELSE __buddy_merge(blk, buddy, o)
    /\ UNCHANGED <<booted, pc, lvl, want, held, ret>>

MergeDone ==
    /\ pc = "merge"
    /\ ~Mergeable(blk)
    /\ pc' = "idle"
    /\ blk' = NoPage
    /\ UNCHANGED <<refcnt, order, free, booted, lvl, want, held, ret>>

(***************************************************************************)
(* buddy_alloc(o): __buddy_find_smallest_free_order, then buddy_split, then *)
(* buddy_pop.                                                               *)
(***************************************************************************)
\* Slip: only the list of the order itself is looked at.
OnlyThisOrder(o, i) == i = o /\ free[i] # << >>

SmallestFreeOrder(o, i) ==
    /\ i \in o..MaxOrder
    /\ free[i] # << >>
    /\ \A j \in o..i-1 : free[j] = << >>

AllocStart(o) ==
    /\ pc = "idle"
    /\ booted = Len(BootSeq)
    /\ \E i \in Order :
          /\ SmallestFreeOrder(o, i)
          /\ lvl' = i
    /\ want' = o
    /\ pc' = "split"
    /\ UNCHANGED <<refcnt, order, free, booted, blk, held, ret>>

\* The order is above BUDDY_MAX_ORDER, or no list from o up has a block.
AllocFail(o) ==
    /\ pc = "idle"
    /\ booted = Len(BootSeq)
    /\ \A i \in Order : ~SmallestFreeOrder(o, i)
    /\ ret' = <<"null", o>>
    /\ UNCHANGED <<refcnt, order, free, booted, pc, local, held>>

\* Slip: the order is decremented twice.
SplitTwice(b, o) ==
    LET buddy == block2buddy(b, o)
    IN  /\ order' = [order EXCEPT ![b] = o - 1]
        /\ free' = [free EXCEPT ![lvl] = Tail(@),
                                ![o] = <<buddy, b>> \o @]
        /\ refcnt' = [refcnt EXCEPT ![b] = 0, ![buddy] = 0]

\* Slip: the order is not decremented.
SplitKeepsOrder(b, o) ==
    LET buddy == block2buddy(b, o)
    IN  /\ free' = [free EXCEPT ![lvl] = Tail(@),
                                ![o] = <<buddy, b>> \o @]
        /\ refcnt' = [refcnt EXCEPT ![b] = 0, ![buddy] = 0]
        /\ UNCHANGED order

\* Slip: the upper half is not pushed.
SplitDropsBuddy(b, o) ==
    /\ order' = [order EXCEPT ![b] = o]
    /\ free' = [free EXCEPT ![lvl] = Tail(@), ![o] = <<b>> \o @]
    /\ refcnt' = [refcnt EXCEPT ![b] = 0]

\* __buddy_split(lvl).  The order field of the upper half is not written: it
\* is right only if it still holds what the last merge left there.
SplitHead(b, o) ==
    LET buddy == block2buddy(b, o)
    IN  /\ order' = [order EXCEPT ![b] = o]
        /\ free' = [free EXCEPT ![lvl] = Tail(@),
                                ![o] = <<buddy, b>> \o @]
        /\ refcnt' = [refcnt EXCEPT ![b] = 0, ![buddy] = 0]

SplitStep ==
    /\ pc = "split"
    /\ lvl > want
    /\ IF free[lvl] = << >>
       THEN /\ pc' = "idle" /\ lvl' = 0 /\ want' = 0
            /\ ret' = <<"null", want>>
            /\ UNCHANGED <<refcnt, order, free>>
       ELSE /\ SplitHead(Head(free[lvl]), order[Head(free[lvl])] - 1)
            /\ lvl' = lvl - 1
            /\ UNCHANGED <<pc, want, ret>>
    /\ UNCHANGED <<booted, blk, held>>

\* buddy_pop(want), whose result buddy_alloc returns.
AllocPop ==
    /\ pc = "split"
    /\ lvl <= want
    /\ IF free[want] = << >>
       THEN ret' = <<"null", want>> /\ UNCHANGED <<refcnt, free, held>>
       ELSE /\ free' = [free EXCEPT ![want] = Tail(@)]
            /\ refcnt' = [refcnt EXCEPT ![Head(free[want])] = @ + 1]
            /\ held' = held \cup {Head(free[want])}
            /\ ret' = <<"block", want>>
    /\ pc' = "idle" /\ lvl' = 0 /\ want' = 0
    /\ UNCHANGED <<order, booted, blk>>

\* buddy_reset: the arrays are cleared and __buddy_init starts over.
Reset ==
    /\ pc = "idle"
    /\ booted = Len(BootSeq)
    /\ refcnt' = [p \in Page |-> 1]
    /\ order' = [p \in Page |-> 0]
    /\ free' = [o \in Order |-> << >>]
    /\ booted' = 0
    /\ held' = {}
    /\ ret' = <<"none", 0>>
    /\ UNCHANGED <<pc, local>>

Next ==
    \/ BootFree
    \/ \E b \in held : Free(b)
    \/ MergeStep
    \/ MergeDone
    \/ \E o \in 0..MaxOrder+1 : AllocStart(o)
    \/ \E o \in 0..MaxOrder+1 : AllocFail(o)
    \/ SplitStep
    \/ AllocPop
    \/ Reset

Spec == Init /\ [][Next]_vars

-----------------------------------------------------------------------------
(***************************************************************************)
(* Properties.                                                              *)
(***************************************************************************)

\* The frames __buddy_init has given to the allocator.
Pool == {BootSeq[i] : i \in 1..booted}

\* The frames on which a block starts: a free block, a block in a caller's
\* hands, or a frame of the kernel image or of the kernel stack.
IsFree(p) == refcnt[p] = 0
IsHead(p) == IsFree(p) \/ p \in held \/ p \notin Pool

\* What calls return.
Returned == {"none", "freed", "double free", "block", "null"} \X (0..MaxOrder+1)

\* The type of the state; in particular orders stay within
\* 0 <= order <= BUDDY_MAX_ORDER (buddy.h) and counts do not go below zero.
TypeOK ==
    /\ refcnt \in [Page -> Nat]
    /\ order \in [Page -> Order]
    /\ free \in [Order -> Seq(Page)]
    /\ booted \in 0..Len(BootSeq)
    /\ pc \in {"idle", "merge", "split"}
    /\ blk \in Page
    /\ lvl \in Order
    /\ want \in Order
    /\ held \subseteq Page
    /\ ret \in Returned

\* buddy_free_lists[o] holds exactly the free blocks of order o, each once,
\* so the walk of buddy_remove ends and finds the block it looks for.
ListsExact ==
    \A o \in Order :
        /\ IsInjective(free[o])
        /\ \A p \in Page : p \in Range(free[o]) <=> IsFree(p) /\ order[p] = o

\* No frame belongs to two blocks, whether free, allocated or the kernel's:
\* no two callers share memory, and none gets memory that is on a free list
\* or under the kernel image or stack.
NoOverlap ==
    \A p, q \in Page :
        IsHead(p) /\ IsHead(q) /\ q \in Span(p, order[p]) => p = q

\* Every frame belongs to some block: split and merge lose no memory.
NothingLost ==
    \A q \in Page : \E p \in Page : IsHead(p) /\ q \in Span(p, order[p])

\* The order left behind in a frame inside a block is the order at which it
\* becomes the upper half again.  __buddy_split depends on it: it pushes the
\* upper half on a list without writing its order field.
StaleOrderRight ==
    \A p \in Page :
        ~IsHead(p) => /\ refcnt[p] = 1
                      /\ order[p] \in Bit
                      /\ p[order[p]] = 1
                      /\ Aligned(p, order[p])

\* p and its buddy are both free and have the same order.
Unmerged(p) ==
    /\ IsFree(p) /\ order[p] \in Bit
    /\ IsFree(block2buddy(p, order[p]))
    /\ order[block2buddy(p, order[p])] = order[p]

\* Between calls no block and its buddy are both free with the same order:
\* whatever was cut up has been put together again (the state that the test
\* random_alloc_free expects after the last free).
FullyMerged == pc = "idle" => \A p \in Page : ~Unmerged(p)

\* A caller that is given a block gets the order it asked for, aligned to it.
GrantsWhatWasAsked ==
    [][\A b \in Page : b \in held' \ held =>
          order'[b] = want /\ Aligned(b, want)]_vars

(***************************************************************************)
(* What holds at every step, the rounds of the loops included: the         *)
(* strengthening that makes the invariants above inductive.                 *)
(***************************************************************************)
Counts ==
    \A p \in Page :
        /\ refcnt[p] \in {0, 1}
        /\ p \in held => refcnt[p] = 1 /\ p \in Pool
        /\ p \notin Pool => refcnt[p] = 1 /\ order[p] = 0

AllAligned == \A p \in Page : Aligned(p, order[p])

LoopOK ==
    /\ pc = "merge" => IsFree(blk)
    /\ pc = "split" => want <= lvl /\ free[lvl] # << >>

\* The pairs still to be merged, or just made by a split, are the ones the
\* running loop is about to deal with.
OnePairAtMost ==
    \A p \in Page : Unmerged(p) =>
        \/ pc = "merge" /\ (p = blk \/ p = block2buddy(blk, order[blk]))
        \/ /\ pc = "split" /\ order[p] = lvl
           /\ p = Head(free[lvl]) \/ p = block2buddy(Head(free[lvl]), lvl)

IInv ==
    /\ TypeOK
    /\ ListsExact
    /\ NoOverlap
    /\ NothingLost
    /\ StaleOrderRight
    /\ Counts
    /\ AllAligned
    /\ LoopOK
    /\ OnePairAtMost

(***************************************************************************)
(* Buddy implements FrameAllocator.                                         *)
(***************************************************************************)
Allocator == INSTANCE FrameAllocator WITH
    pool <- Pool,
    owned <- {<<b, order[b]>> : b \in held},
    answer <- ret

\* A request is refused only if no aligned run of free frames of that size is
\* left, and one that is granted gets frames nobody else has.
ImplementsAllocator == Allocator!ASpec
=============================================================================
