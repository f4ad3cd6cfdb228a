------------------------------- MODULE Frames -------------------------------
(***************************************************************************)
(* The geometry of physical memory as src/kernel/buddy.c sees it: 2^MaxOrder *)
(* page frames, and for every order o the blocks of 2^o frames that start   *)
(* at a multiple of 2^o.                                                    *)
(*                                                                          *)
(* A frame is the binary expansion of buddy's internal page number __ppn,   *)
(* bit 0 the least significant.  The only arithmetic the allocator does on  *)
(* page numbers is to flip one bit (block2buddy) and to compare two numbers *)
(* that differ in one bit (buddy < block in __buddy_merge), so the bits are *)
(* all there is to know of a page number.                                   *)
(***************************************************************************)
EXTENDS Naturals

CONSTANT MaxOrder                 \* BUDDY_MAX_ORDER

ASSUME MaxOrderAssumption == MaxOrder \in Nat

Order == 0..MaxOrder

Bit == 0..MaxOrder-1

Page == [Bit -> {0, 1}]

\* block2buddy(block, order): __ppn ^ (1 << order).
block2buddy(p, o) == [p EXCEPT ![o] = 1 - @]

\* p is a multiple of 2^o.
Aligned(p, o) == \A i \in Bit : i < o => p[i] = 0

\* The frames of the block of order o that contains p.
Span(p, o) == {q \in Page : \A i \in Bit : i >= o => q[i] = p[i]}
=============================================================================
