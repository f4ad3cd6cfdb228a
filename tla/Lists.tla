------------------------------- MODULE Lists ---------------------------------
(***************************************************************************)
(* What the lists of free blocks are to the rest of buddy.c, and to module  *)
(* Buddy: a sequence of blocks per order, and the calls that use them.  Each *)
(* leaves which call it was and the block it returned, if any: a call must   *)
(* not answer for another one.  FreeList implements it with pointers.        *)
(***************************************************************************)
EXTENDS Integers, Sequences, Functions

CONSTANTS Block, Orders

VARIABLES
    free,      \* the lists, head first
    refs,      \* the reference counts
    answer     \* the last call and the block it returned, or none

lvars == <<free, refs, answer>>

Returns(call, blocks) == answer' = [call |-> call, block |-> blocks]

Unlisted == {b \in Block : \A o \in Orders : b \notin Range(free[o])}

LInit ==
    /\ free = [o \in Orders |-> << >>]
    /\ refs = [b \in Block |-> 1]
    /\ answer = [call |-> <<"reset">>, block |-> << >>]

Push(b, o) ==
    /\ b \in Unlisted
    /\ free' = [free EXCEPT ![o] = <<b>> \o @]
    /\ refs' = [refs EXCEPT ![b] = 0]
    /\ Returns(<<"push", b, o>>, << >>)

Pop(o) ==
    /\ free[o] # << >>
    /\ free' = [free EXCEPT ![o] = Tail(@)]
    /\ refs' = [refs EXCEPT ![Head(free[o])] = @ + 1]
    /\ Returns(<<"pop", o>>, <<Head(free[o])>>)

\* The list is empty.
PopEmpty(o) ==
    /\ free[o] = << >>
    /\ Returns(<<"pop", o>>, << >>)
    /\ UNCHANGED <<free, refs>>

\* The blocks behind b come first, then those in front of it.
Remove(b, o) ==
    \E i \in DOMAIN free[o] :
        /\ free[o][i] = b
        /\ free' = [free EXCEPT ![o] = SubSeq(@, i + 1, Len(@)) \o SubSeq(@, 1, i - 1)]
        /\ refs' = [refs EXCEPT ![b] = @ + 1]
        /\ Returns(<<"remove", b, o>>, <<b>>)

\* The block is not on this list.
RemoveMissing(b, o) ==
    /\ b \notin Range(free[o])
    /\ Returns(<<"remove", b, o>>, << >>)
    /\ UNCHANGED <<free, refs>>

Clear ==
    /\ free' = [o \in Orders |-> << >>]
    /\ refs' = [b \in Block |-> 1]
    /\ Returns(<<"reset">>, << >>)

\* The lists move with the kernel, and stay what they are.
Migrate ==
    /\ Returns(<<"migrate">>, << >>)
    /\ UNCHANGED <<free, refs>>

LNext ==
    \/ \E o \in Orders :
          \/ Pop(o) \/ PopEmpty(o)
          \/ \E b \in Block : Push(b, o) \/ Remove(b, o) \/ RemoveMissing(b, o)
    \/ Clear \/ Migrate

LSpec == LInit /\ [][LNext]_lvars
=============================================================================
