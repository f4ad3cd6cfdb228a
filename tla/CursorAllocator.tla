--------------------------- MODULE CursorAllocator ---------------------------
(***************************************************************************)
(* pt_salloc of src/kernel/pt.c: small pieces of kernel memory, the heads    *)
(* of lists and the VMAs, cut off one page after the other.  Nothing is      *)
(* ever given back.  Other parts of the kernel take pages from the same      *)
(* allocator in between.                                                     *)
(*                                                                          *)
(* A definition marked "Slip:" is a wrong version of the one below it, the   *)
(* kind of mistake that is easily made there.  Nothing uses it; the          *)
(* mutation tests put it in the other's place and expect a violation.        *)
(***************************************************************************)
EXTENDS Integers, Sequences

CONSTANTS
    PageSize,     \* level2size(PAGE_NORMAL)
    Sizes,        \* bound: what is asked for
    Pages,        \* bound: how many pages there are
    MaxCalls      \* bound: how many regions are handed out

ASSUME CursorAssumption ==
    /\ PageSize \in Nat \ {0} /\ {Pages, MaxCalls} \subseteq Nat
    /\ Sizes \subseteq Nat

VARIABLES
    taken,        \* how many pages pt_alloc has given, here or elsewhere
    base,         \* the page that is being cut up, 0 for none
    cursor,       \* where in it the rest begins
    regions       \* what was handed out, one after the other

cvars == <<taken, base, cursor, regions>>

CInit ==
    /\ taken = 0 /\ base = 0 /\ cursor = 0
    /\ regions = << >>

\* The two early returns.
Valid(n) == 0 < n /\ n <= PageSize

\* n bytes of page b, from c on.
HandOut(n, b, c) ==
    /\ base' = b
    /\ cursor' = c + n
    /\ regions' = Append(regions, [page |-> b, begin |-> c, end |-> c + n])

\* The page that is being cut up has room.
FromPage(n) ==
    /\ Valid(n) /\ base # 0 /\ cursor + n <= PageSize
    /\ HandOut(n, base, cursor)
    /\ UNCHANGED taken

\* Slip: the cursor is not set back for another page.
KeepsCursor(n) ==
    /\ Valid(n) /\ (base = 0 \/ cursor + n > PageSize)
    /\ taken < Pages
    /\ taken' = taken + 1
    /\ HandOut(n, taken + 1, cursor)

\* It is the first call, or the rest does not suffice and pt_salloc starts over: a
\* new page.  When there is none yet, the cursor is taken to be at its beginning.
FromNewPage(n) ==
    /\ Valid(n) /\ (base = 0 \/ cursor + n > PageSize)
    /\ taken < Pages
    /\ taken' = taken + 1
    /\ HandOut(n, taken + 1, IF base = 0 THEN cursor ELSE 0)

\* NULL.  Without memory the page and what is left of it are forgotten.
Refuse(n) ==
    /\ \/ ~Valid(n) /\ UNCHANGED <<base, cursor>>
       \/ /\ Valid(n) /\ (base = 0 \/ cursor + n > PageSize)
          /\ taken = Pages
          /\ base' = 0
          /\ cursor' = IF base = 0 THEN cursor ELSE 0
    /\ UNCHANGED <<taken, regions>>

pt_salloc(n) ==
    \/ Len(regions) < MaxCalls /\ (FromPage(n) \/ FromNewPage(n))
    \/ Refuse(n)

\* A page for something else.
Elsewhere ==
    /\ taken < Pages
    /\ taken' = taken + 1
    /\ UNCHANGED <<base, cursor, regions>>

CNext == Elsewhere \/ \E n \in Sizes : pt_salloc(n)

CSpec == CInit /\ [][CNext]_cvars
-----------------------------------------------------------------------------
\* Every region lies in one page, and no byte is handed out twice: not at the
\* ends of pages, nor after a call that failed.
RegionsApart ==
    /\ \A i \in DOMAIN regions :
          /\ 0 <= regions[i].begin /\ regions[i].end <= PageSize
          /\ regions[i].page \in 1..taken
    /\ \A i, j \in DOMAIN regions : i < j =>
          \/ regions[i].page # regions[j].page
          \/ regions[i].end <= regions[j].begin

=============================================================================
