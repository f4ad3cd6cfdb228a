---------------------------- MODULE MCKernelMap ------------------------------
EXTENDS KernelMap

\* All ways to divide the eight pages below KernelBase, or the first of them, into
\* devices, kernel, memory and stack.
MCLayouts ==
    {[kelf_base |-> a, phys_base |-> b, phys_end |-> c, kstack_size |-> d] :
        <<a, b, c, d>> \in {t \in (1..8) \X (1..8) \X (1..8) \X (1..8) :
                              t[1] < t[2] /\ t[2] < t[3] /\ t[3] + t[4] <= 8}}
=============================================================================
