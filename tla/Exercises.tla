------------------------------ MODULE Exercises ------------------------------
(***************************************************************************)
(* The exercises of asm/assignments that compute a value from registers, as  *)
(* functions of their arguments, and what asm/tester_src expects of them.    *)
(*                                                                          *)
(* A register has twice the bits of an int; an int comes in with its sign    *)
(* extended over the register (the calling convention), and the tester looks *)
(* at the low half of the result, as an int.  The constants 31 and 32 of the *)
(* code are Half - 1 and Half.                                               *)
(***************************************************************************)
EXTENDS Integers

CONSTANTS
    Half,         \* bits of an int: 32
    MaxN          \* bound: which Fibonacci number is asked for (48)

ASSUME ExercisesAssumption == Half \in Nat \ {0} /\ Half % 2 = 0 /\ MaxN \in Nat

CInt == -(2^(Half-1)) .. 2^(Half-1) - 1

\* The instructions: registers hold 0..2^XLEN - 1.
XLEN == 2 * Half
Reg(x) == x % 2^XLEN
sub(x, y) == Reg(x - y)
add(x, y) == Reg(x + y)
srl(x, n) == x \div 2^(n % XLEN)
sll(x, n) == Reg(x * 2^(n % XLEN))

\* x and y for a y of the form 2^k - 1.
and(x, y) == x % (y + 1)

\* A value of n bits with its sign.
Signed(x, n) == ((x + 2^(n-1)) % 2^n) - 2^(n-1)

\* How C code that takes the result for an int sees a register.
AsInt(x) == Signed(x, Half)

\* xori with 1 of the 0 or 1 that sltu gives
assignment_1_1(a0, a1) == IF 0 < sub(a0, a1) THEN 0 ELSE 1

assignment_1_5(a0) ==
    LET a6 == sub(Half, a0)
    IN  sll(srl(Reg(-1), a6), a6)

assignment_1_6(a0, a1) == and(a0, srl(srl(Reg(-1), a1), Half))

\* The register that is not wanted is shifted out, by Half - 1 and by 1, and the
\* two are added.
assignment_1_7(a0, a1, a2) ==
    LET a4 == sub(1, a0)
        a7 == a0 * (Half - 1)
        a6 == a4 * (Half - 1)
    IN  add(srl(srl(a2, a6), a4), srl(srl(a1, a7), a0))

\* f1 and f2 after a0 rounds of the loop.
assignment_2_1(a0) ==
    LET f[n \in 0..a0] ==
            IF n = 0 THEN [f1 |-> 0, f2 |-> 1]
            ELSE [f1 |-> f[n-1].f2, f2 |-> add(f[n-1].f2, f[n-1].f1)]
    IN  f[a0].f1

\* The integer at a0: hi and lo are the bytes in memory at the higher and at the
\* lower address, two instead of four.  lw extends the sign; in the loop over the
\* bytes lbu does not.
assignment_3_3(lo, hi, a1) ==
    IF a1 = 0 THEN Reg(Signed(lo + hi * 2^(Half \div 2), Half))
    ELSE add(sll(lo, Half \div 2), hi)

\* fibonacci of the tester, in ints.
fibonacci(n) ==
    LET f[k \in 0..n] ==
            IF k <= 1 THEN k ELSE Signed(f[k-1] + f[k-2], Half)
    IN  f[n]

Bytes == 0..2^(Half \div 2) - 1

\* The calls of the tester, with every argument a task allows.
Calls ==
    [ex : {"1_1"}, a : CInt, b : CInt]
    \cup [ex : {"1_5"}, a : 1..Half]
    \cup [ex : {"1_6"}, a : CInt, b : 1..Half]
    \cup [ex : {"1_7"}, a : {0, 1}, b : CInt, c : CInt]
    \cup [ex : {"2_1"}, a : 0..MaxN]
    \cup [ex : {"3_3"}, lo : Bytes, hi : Bytes, be : {0, 1}]

\* What an exercise leaves in a0.
Call(args) ==
    CASE args.ex = "1_1" -> assignment_1_1(Reg(args.a), Reg(args.b))
      [] args.ex = "1_5" -> assignment_1_5(args.a)
      [] args.ex = "1_6" -> assignment_1_6(Reg(args.a), args.b)
      [] args.ex = "1_7" -> assignment_1_7(args.a, Reg(args.b), Reg(args.c))
      [] args.ex = "2_1" -> assignment_2_1(args.a)
      [] args.ex = "3_3" -> assignment_3_3(args.lo, args.hi, args.be)
-----------------------------------------------------------------------------
\* Half ones at most, from the most significant bit of an int on.
TopOnes(n) == Signed(2^Half - 2^(Half - n), Half)

\* What the task and the tester expect of a call.
Expected(args) ==
    CASE args.ex = "1_1" -> IF args.a = args.b THEN 1 ELSE 0
      [] args.ex = "1_5" -> TopOnes(args.a)
      [] args.ex = "1_6" -> Signed((args.a % 2^Half) % 2^(Half - args.b), Half)
      [] args.ex = "1_7" -> IF args.a = 0 THEN args.b ELSE args.c
      [] args.ex = "2_1" -> fibonacci(args.a)
      [] args.ex = "3_3" -> Signed(IF args.be = 1 THEN args.lo * 2^(Half \div 2) + args.hi
                                   ELSE args.hi * 2^(Half \div 2) + args.lo, Half)

\* In 1_7 the int that is not wanted is negative: the shifts by 32 leave the upper
\* half of its register, the copies of its sign, and they are added to the result.
SignLeft(args) == args.ex = "1_7" /\ (IF args.a = 0 THEN args.c ELSE args.b) < 0

\* A call gives what is expected, whatever its arguments, unless a sign is left;
\* then it does not: "set a0 to the value of a1. Else, set a0 to the value of a2"
\* (1_7.s:8) does not hold for all ints.
AsExpected(args, a0) == AsInt(a0) = Expected(args) <=> ~SignLeft(args)
=============================================================================
