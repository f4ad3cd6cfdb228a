--------------------------- MODULE FrameAllocator ---------------------------
(***************************************************************************)
(* What the kernel relies on when it calls buddy_alloc and buddy_free: the  *)
(* promise of the allocator, with no lists, orders or reference counts.     *)
(* Frames are donated to the pool one at a time; a caller gets an aligned   *)
(* run of 2^o frames that nobody else has; and it is turned away only if no *)
(* aligned run of that size is left, however memory was cut up before.      *)
(***************************************************************************)
EXTENDS Frames

VARIABLES
    pool,     \* the frames the allocator manages
    owned,    \* the blocks callers hold, as pairs <<first frame, order>>
    answer    \* what the last call returned, and for a request its order

fvars == <<pool, owned, answer>>

\* The frames in a caller's hands.
Taken == UNION {Span(b[1], b[2]) : b \in owned}

\* The blocks of order o that can still be handed out.
Available(o) ==
    IF o \in Order
    THEN {p \in Page : Aligned(p, o) /\ Span(p, o) \subseteq pool \ Taken}
    ELSE {}

AInit == pool = {} /\ owned = {} /\ answer = <<"none", 0>>

Donate(p) ==
    /\ p \notin pool
    /\ pool' = pool \cup {p}
    /\ answer' = <<"freed", 0>>
    /\ UNCHANGED owned

Grant(p, o) ==
    /\ answer' = <<"block", o>>
    /\ owned' = owned \cup {<<p, o>>}
    /\ p \in Available(o)
    /\ UNCHANGED pool

Refuse(o) ==
    /\ answer' = <<"null", o>>
    /\ Available(o) = {}
    /\ UNCHANGED <<pool, owned>>

Release(b) ==
    /\ b \in owned
    /\ owned' = owned \ {b}
    /\ answer' = <<"freed", 0>>
    /\ UNCHANGED pool

Restart == pool' = {} /\ owned' = {} /\ answer' = <<"none", 0>>

ANext ==
    \/ \E p \in Page : Donate(p)
    \/ \E p \in Page, o \in Order : Grant(p, o)
    \/ \E o \in 0..MaxOrder+1 : Refuse(o)
    \/ \E b \in owned : Release(b)
    \/ Restart

ASpec == AInit /\ [][ANext]_fvars
=============================================================================
