------------------------------ MODULE FreeList -------------------------------
(***************************************************************************)
(* The lists of free blocks of src/kernel/buddy.c as they are in memory: a   *)
(* pointer per order and a field next in each block.  Buddy takes them for   *)
(* sequences; this module shows that it may, and that they survive the move  *)
(* of the kernel to the high half of the address space, where every pointer  *)
(* that was stored becomes another one.                                      *)
(*                                                                          *)
(* A pointer to a block is <<half, block>>, as in KernelMap; NULL is << >>.  *)
(* The address of buddy_blocks is computed from the program counter, so a    *)
(* call made by code in half h uses pointers <<h, block>>.                   *)
(*                                                                          *)
(* A definition marked "Slip:" is a wrong version of the one below it, the   *)
(* kind of mistake that is easily made there.  Nothing uses it; the          *)
(* mutation tests put it in the other's place and expect a violation.        *)
(***************************************************************************)
EXTENDS Integers, Sequences, FiniteSets

CONSTANTS
    Block,        \* buddy_blocks
    Orders        \* 0..BUDDY_MAX_ORDER

ASSUME FreeListAssumption == IsFiniteSet(Block) /\ Orders \subseteq Nat

VARIABLES
    head,         \* buddy_free_lists
    next,         \* buddy_blocks[].next
    refcnt,       \* buddy_blocks[].refcnt
    half,         \* where the code runs
    pc,           \* "idle", "walk" (the loop of buddy_remove) or "moving"
    arg,          \* block and order of buddy_remove
    tail, prev,   \* its locals
    ret           \* the last call that returned, and the pointer it returned

vars == <<head, next, refcnt, half, pc, arg, tail, prev, ret>>

NULL == << >>

Ptr(b) == <<half, b>>

Reset == [call |-> <<"reset">>, value |-> NULL]

Returns(call, p) == ret' = [call |-> call, value |-> p]

Init ==
    /\ head = [o \in Orders |-> NULL]
    /\ next = [b \in Block |-> NULL]
    /\ refcnt = [b \in Block |-> 1]
    /\ half = 0
    /\ pc = "idle"
    /\ arg = << >> /\ tail = NULL /\ prev = NULL /\ ret = Reset

\* The half the pointers that are stored belong to: buddy_migrate is called by
\* code that still runs in the low half.
PtrHalf == IF pc = "moving" THEN 1 ELSE half

\* What the pointer p points to; no block, if it belongs to the other half.
Deref(p) == IF p[1] = PtrHalf THEN p[2] ELSE p

\* The blocks on the list that begins at p, in its order; a list of more blocks
\* than there are goes round in a circle.
Chain(p) ==
    LET N == Cardinality(Block) + 1
        f[k \in 1..N] == IF k = 1 THEN p
                         ELSE IF f[k-1] = NULL THEN NULL ELSE next[f[k-1][2]]
        n == Cardinality({k \in 1..N : f[k] # NULL})
    IN  [k \in 1..n |-> Deref(f[k])]

Listed(b) == \E o \in Orders, i \in 1..Cardinality(Block) :
                 i \in DOMAIN Chain(head[o]) /\ Chain(head[o])[i] = b

\* Callers push blocks that are on no list (ListsExact of Buddy).
buddy_push(b, o) ==
    /\ pc = "idle" /\ ~Listed(b)
    /\ next' = [next EXCEPT ![b] = head[o]]
    /\ refcnt' = [refcnt EXCEPT ![b] = 0]
    /\ head' = [head EXCEPT ![o] = Ptr(b)]
    /\ Returns(<<"push", b, o>>, NULL)
    /\ UNCHANGED <<half, pc, arg, tail, prev>>

\* buddy_pop, in call, of the list that begins at p, with the fields next as in nx.
Popped(call, o, p, nx) ==
    /\ head' = [head EXCEPT ![o] = nx[p[2]]]
    /\ refcnt' = [refcnt EXCEPT ![p[2]] = @ + 1]
    /\ next' = [nx EXCEPT ![p[2]] = NULL]
    /\ Returns(call, p)

buddy_pop(o) ==
    /\ pc = "idle"
    /\ IF head[o] = NULL
       THEN Returns(<<"pop", o>>, NULL) /\ UNCHANGED <<head, next, refcnt>>
       ELSE Popped(<<"pop", o>>, o, head[o], next)
    /\ UNCHANGED <<half, pc, arg, tail, prev>>

\* The list is empty, the block is its head, or the walk to the end begins.
buddy_remove(b, o) ==
    /\ pc = "idle"
    /\ \/ /\ head[o] = NULL
          /\ Returns(<<"remove", b, o>>, NULL)
          /\ UNCHANGED <<head, next, refcnt, pc, arg, tail, prev>>
       \/ /\ head[o] = Ptr(b)
          /\ Popped(<<"remove", b, o>>, o, head[o], next)
          /\ UNCHANGED <<pc, arg, tail, prev>>
       \/ /\ head[o] \notin {NULL, Ptr(b)}
          /\ pc' = "walk" /\ arg' = <<b, o>>
          /\ tail' = head[o] /\ prev' = NULL
          /\ UNCHANGED <<head, next, refcnt, ret>>
    /\ UNCHANGED half

\* Slip: the walk stops at the block.
WalkStops ==
    /\ pc = "walk" /\ next[tail[2]] # NULL
    /\ prev' = IF next[tail[2]] = Ptr(arg[1]) THEN tail ELSE prev
    /\ tail' = IF next[tail[2]] = Ptr(arg[1]) THEN tail ELSE next[tail[2]]
    /\ UNCHANGED <<head, next, refcnt, half, pc, arg, ret>>

\* An iteration of its loop: to the last block, past the one to be removed.
RemoveWalk ==
    /\ pc = "walk" /\ next[tail[2]] # NULL
    /\ prev' = IF next[tail[2]] = Ptr(arg[1]) THEN tail ELSE prev
    /\ tail' = next[tail[2]]
    /\ UNCHANGED <<head, next, refcnt, half, pc, arg, ret>>

Removing == <<"remove", arg[1], arg[2]>>

Rotate ==
    /\ pc = "walk" /\ next[tail[2]] = NULL
    /\ IF prev = NULL
       THEN Returns(Removing, NULL) /\ UNCHANGED <<head, next, refcnt>>
       ELSE Popped(Removing, arg[2], Ptr(arg[1]),
                   [[next EXCEPT ![prev[2]] = NULL] EXCEPT ![tail[2]] = head[arg[2]]])
    /\ pc' = "idle" /\ arg' = << >> /\ tail' = NULL /\ prev' = NULL
    /\ UNCHANGED half

\* buddy_reset: both arrays are cleared, then __buddy_init sets the counts.
buddy_reset ==
    /\ pc = "idle"
    /\ head' = [o \in Orders |-> NULL]
    /\ next' = [b \in Block |-> NULL]
    /\ refcnt' = [b \in Block |-> 1]
    /\ ret' = Reset
    /\ UNCHANGED <<half, pc, arg, tail, prev>>

\* NULL stays NULL.
Higher(p) == IF p = NULL THEN NULL ELSE <<p[1] + 1, p[2]>>

\* Slip: the blocks keep their pointers to the low half.
MigrateHeads ==
    /\ pc = "idle" /\ half = 0
    /\ head' = [o \in Orders |-> Higher(head[o])]
    /\ Returns(<<"migrate">>, NULL)
    /\ pc' = "moving"
    /\ UNCHANGED <<next, refcnt, half, arg, tail, prev>>

\* Called by pt_init when the MMU is on.
buddy_migrate ==
    /\ pc = "idle" /\ half = 0
    /\ head' = [o \in Orders |-> Higher(head[o])]
    /\ next' = [b \in Block |-> Higher(next[b])]
    /\ Returns(<<"migrate">>, NULL)
    /\ pc' = "moving"
    /\ UNCHANGED <<refcnt, half, arg, tail, prev>>

\* pt_jump_to_high; nothing is allocated between the two.
Jump ==
    /\ pc = "moving"
    /\ half' = 1 /\ pc' = "idle"
    /\ UNCHANGED <<head, next, refcnt, arg, tail, prev, ret>>

Next ==
    \/ \E o \in Orders : buddy_pop(o) \/ \E b \in Block : buddy_push(b, o) \/ buddy_remove(b, o)
    \/ RemoveWalk \/ Rotate
    \/ buddy_reset
    \/ buddy_migrate \/ Jump

Spec == Init /\ [][Next]_vars

\* A call goes on until it returns.
FairSpec == Spec /\ WF_vars(RemoveWalk \/ Rotate)
-----------------------------------------------------------------------------
Pointer == {NULL} \cup ({0, 1} \X Block)

Calls == {<<"reset">>, <<"migrate">>} \cup ({"pop"} \X Orders)
             \cup ({"push", "remove"} \X Block \X Orders)

\* The type of the state; a pointer is moved to the high half once.
TypeOK ==
    /\ head \in [Orders -> Pointer]
    /\ next \in [Block -> Pointer]
    /\ refcnt \in [Block -> Nat]
    /\ half \in {0, 1}
    /\ pc \in {"idle", "walk", "moving"}
    /\ {tail, prev} \subseteq Pointer
    /\ ret \in [call : Calls, value : Pointer]

\* The walk of buddy_remove ends: no list is a circle.
RemoveReturns == pc = "walk" ~> pc = "idle"

\* What the last call was, and the block it returned.
Answer == [call |-> ret.call,
           block |-> IF ret.value = NULL THEN << >> ELSE <<Deref(ret.value)>>]

Abstract == INSTANCE Lists WITH
    free <- [o \in Orders |-> Chain(head[o])],
    refs <- refcnt,
    answer <- Answer

\* The pointers are the lists Buddy works with: each call does what it does to a
\* sequence and returns what it takes off, NULL only if there is nothing to take
\* off, or not this block; and the move to the high half leaves the lists what
\* they are, with no pointer left in the low half.
ImplementsLists == Abstract!LSpec
=============================================================================
