------------------------------ MODULE MCBuddy -------------------------------
(***************************************************************************)
(* 2^MaxOrder frames: the kernel image takes the first KernelFrames, the    *)
(* kernel stack the last one, __buddy_init frees the rest in ascending      *)
(* order.                                                                   *)
(***************************************************************************)
EXTENDS Buddy

CONSTANT KernelFrames

\* The frame whose page number is n.
Frame(n) == [i \in 0..MaxOrder-1 |-> (n \div 2^i) % 2]

MCBootSeq ==
    [k \in 1..(2^MaxOrder - 1 - KernelFrames) |-> Frame(KernelFrames + k - 1)]
=============================================================================
