------------------------------ MODULE PageTree -------------------------------
(***************************************************************************)
(* The tree of page tables of one address space, as the functions of        *)
(* src/kernel/pt.c read it: what PageTable and KernelMap have in common.    *)
(*                                                                          *)
(* A definition marked "Slip:" is a wrong version of the one below it, the  *)
(* kind of mistake that is easily made there.  Nothing uses it; the         *)
(* mutation tests put it in the other's place and expect a violation.       *)
(***************************************************************************)
EXTENDS Integers

CONSTANTS
    Levels,       \* PAGE_NORMAL..PAGE_TERA: 4
    Fanout        \* entries of a table, 2^VPN_MASK_WIDTH

ASSUME PageTreeAssumption ==
    /\ Levels \in Nat \ {0}
    /\ Fanout \in Nat \ {0, 1}

VARIABLE pte      \* the entries of all tables

Level == 0..Levels-1

\* level2pagen
Size(l) == Fanout^l

\* What proofs use of the powers: a page of one level is made of whole pages of
\* the levels below it.
ASSUME SizeAssumption ==
    /\ Size(0) = 1
    /\ \A l \in 0..Levels : Size(l) \in Nat \ {0}
    /\ \A l \in 0..Levels : \A h \in l..Levels :
          \E k \in 1..Size(h) : Size(h) = k * Size(l)

Vpn == 0..Size(Levels)-1

\* The error codes.
ENORESOURCES == 2
ENOTMAPPED == 3
EMAPPED == 4

\* The entries on the way to vpn: the one at level l, <<l, i>>, covers the
\* pages from i * Size(l) on.  Those at the top are in the root table; <<l, i>>
\* is in memory only if the entry one level up points to a table.
EntryOf(vpn, l) == <<l, vpn \div Size(l)>>

Entry == {EntryOf(vpn, l) : vpn \in Vpn, l \in Level}

NoPte == [kind |-> "none", ppn |-> 0]
Table(f) == [kind |-> "table", ppn |-> f]
Leaf(f) == [kind |-> "leaf", ppn |-> f]

\* pt_get_pte finds vpn's leaf at level l.
LeafAt(vpn, l) ==
    /\ pte[EntryOf(vpn, l)].kind = "leaf"
    /\ \A h \in Level : h > l => pte[EntryOf(vpn, h)].kind = "table"

Mapped(vpn) == \E l \in Level : LeafAt(vpn, l)

Pages(v) == v.vpn .. v.vpn + v.pagen - 1

\* vpn2prevpageboundary
Boundary(vpn, l) == (vpn \div Size(l)) * Size(l)

\* The page of level l around vpn, where the tables look for it: they use the
\* lower bits of a number only (vpn2vpnlevel), of one below 0 too.
PageAround(vpn, l) ==
    IF Boundary(vpn, l) < 0 THEN Boundary(vpn, l) + Size(Levels) ELSE Boundary(vpn, l)

\* The frames of a page of level l that starts at frame f.
Block(f, l) == f .. f + Size(l) - 1

\* Slip: only the beginning of the page is compared with the end of the VMA.
FitsBegin(v, vpn, l) ==
    /\ v.vpn <= Boundary(vpn, l)
    /\ Boundary(vpn, l) < v.vpn + v.pagen

\* Requirement 1: a page of level l around vpn fits into v.  An error can have taken
\* vpn below 0, which is a huge number to the code: there the last page of all 64
\* bits fits, since the number behind it is 0.
Fits(v, vpn, l) ==
    IF vpn < 0
    THEN Boundary(vpn, l) + Size(l) = 0
    ELSE /\ v.vpn <= Boundary(vpn, l)
         /\ Boundary(vpn, l) + Size(l) <= v.vpn + v.pagen

\* Slip: a table counts as empty.
TableIsEmpty(vpn, l) ==
    /\ pte[EntryOf(vpn, l)].kind # "leaf"
    /\ \A h \in Level : h > l => pte[EntryOf(vpn, h)].kind = "table"

\* Requirement 2: the entry of level l on the way to vpn is empty and those
\* above it are tables (__pt_find_level_of_highest_empty_pte).
HighestEmpty(vpn, l) ==
    /\ pte[EntryOf(vpn, l)] = NoPte
    /\ \A h \in Level : h > l => pte[EntryOf(vpn, h)].kind = "table"

Highest(l, S) == l \in S /\ \A h \in S : h <= l

\* Every entry that is in use hangs below tables only: no page is hidden by a
\* larger one, and a page has one translation (the checks for -EMAPPED in
\* pt_set_pte_leaf and requirement 2 of pt_vma_new_page_at_vpn).
UnderTables ==
    \A e \in Entry, h \in Level :
        pte[e] # NoPte /\ h > e[1]
            => pte[EntryOf(e[2] * Size(e[1]), h)].kind = "table"
=============================================================================
