---------------------------- MODULE MatrixProduct ----------------------------
(***************************************************************************)
(* asm/assignments/5_0.s: the product of two matrices of halfwords.          *)
(*                                                                          *)
(* mem is memory in halfwords, so an address of the code is twice one here:  *)
(* M0, M1 and M2 lie one behind the other, and two halfwords that belong to  *)
(* someone else follow M2.  Registers have the code's names; they are wide  *)
(* enough for every sum.  d holds a1, M0's columns and M1's rows, a2, M0's   *)
(* rows, and a4, M1's columns.                                               *)
(***************************************************************************)
EXTENDS Integers

CONSTANTS
    Bits,         \* bits of a halfword: 16
    Side,         \* bound: rows and columns
    Elements      \* bound: elements of the matrices

ASSUME MatrixAssumption ==
    /\ Bits \in Nat \ {0} /\ Side \in Nat \ {0}
    /\ Elements \subseteq -(2^(Bits-1)) .. 2^(Bits-1) - 1

Dims == [a1 : 1..Side, a2 : 1..Side, a4 : 1..Side]

\* The addresses of the matrices.
M0 == 0
M1(d) == d.a2 * d.a1
M2(d) == M1(d) + d.a1 * d.a4
End(d) == M2(d) + d.a2 * d.a4

\* lh extends the sign, a store keeps the low bits.
Halfword(x) == x % 2^Bits
lh(x) == IF x >= 2^(Bits-1) THEN x - 2^Bits ELSE x

\* Memory with both matrices.
Memories(d) ==
    {[k \in 0..End(d) + 1 |-> IF k < M2(d) THEN Halfword(m[k])
                          ELSE IF k < End(d) THEN 0 ELSE 1] :
        m \in [0..M2(d)-1 -> Elements]}

\* s9 after the innermost loop over the row of M0 at t3 and the column of M1 at t4.
Sum(d, mem, t3, t4) ==
    LET s9[t2 \in 0..d.a1] ==
            IF t2 = 0 THEN 0
            ELSE s9[t2-1] + lh(mem[t3 + t2-1]) * lh(mem[t4 + (t2-1) * d.a4])
    IN  s9[d.a1]

\* sw writes a word: the element and the halfword behind it.
Store(mem, a5, s9) ==
    [mem EXCEPT ![a5] = Halfword(s9), ![a5 + 1] = Halfword(s9 \div 2^Bits)]

\* The branches of the two outer loops: t1 is the column, and t3 and t4 are where
\* the row and the column to multiply next begin.
Advance(d, r) ==
    IF r.t1 + 1 # d.a4 THEN [r EXCEPT !.t1 = @ + 1, !.t4 = @ + 1]
    ELSE [r EXCEPT !.t1 = 0, !.t3 = @ + d.a1, !.t4 = M1(d)]

\* Memory and registers after n elements; a5 is M2 + n.
AfterElements(d, mem, n) ==
    LET r[k \in 0..n] ==
            IF k = 0 THEN [mem |-> mem, t1 |-> 0, t3 |-> M0, t4 |-> M1(d)]
            ELSE LET q == r[k-1]
                 IN  Advance(d, [q EXCEPT !.mem =
                         Store(@, M2(d) + k - 1, Sum(d, q.mem, q.t3, q.t4))])
    IN  r[n]

assignment_5_0(d, mem) == AfterElements(d, mem, d.a2 * d.a4).mem
-----------------------------------------------------------------------------
\* ref_mult_matrices_5_0 of the tester: element (i, j) as a halfword.
ref_mult_matrices(d, mem, i, j) ==
    LET m2_ref[k \in 0..d.a1] ==
            IF k = 0 THEN 0
            ELSE Halfword(m2_ref[k-1] + lh(mem[M0 + i * d.a1 + k-1])
                                      * lh(mem[M1(d) + (k-1) * d.a4 + j]))
    IN  m2_ref[d.a1]

\* Element (i, j) before it is cut to a halfword.
Exact(d, mem, i, j) ==
    LET s[k \in 0..d.a1] ==
            IF k = 0 THEN 0
            ELSE s[k-1] + lh(mem[M0 + i * d.a1 + k-1]) * lh(mem[M1(d) + (k-1) * d.a4 + j])
    IN  s[d.a1]

\* The product is right although every element but the first is written over
\* by the high half of its predecessor: its own store comes later.  Products and
\* sums that leave the range of a halfword wrap as the tester's do.  The matrices
\* that are multiplied are left as they were.  But the last store writes over the
\* halfword behind M2, with the high half of the last element, although the place
\* allocated (5_0.s:17) ends there; what follows that one is kept.
IsProduct(d, mem, after) ==
    /\ \A i \in 0..d.a2-1, j \in 0..d.a4-1 :
          after[M2(d) + i * d.a4 + j] = ref_mult_matrices(d, mem, i, j)
    /\ after[End(d)] = Halfword(Exact(d, mem, d.a2-1, d.a4-1) \div 2^Bits)
    /\ \A k \in 0..M2(d)-1 \cup {End(d) + 1} : after[k] = mem[k]
=============================================================================
