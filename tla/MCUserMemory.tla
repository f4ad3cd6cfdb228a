---------------------------- MODULE MCUserMemory -----------------------------
EXTENDS UserMemory, TLC

\* The text is at page 5, the heap begins two pages behind it.  One text fills
\* both pages, so that its end is the first address of the heap; the other has
\* one byte in the second page.
MCApp == {[load |-> 5, size |-> 6], [load |-> 5, size |-> 4]}
MCSymmetry == Permutations(Proc)
MCFrame == 1..9
=============================================================================
