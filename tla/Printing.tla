------------------------------ MODULE Printing -------------------------------
(***************************************************************************)
(* printf of src/kernel/util.c and what it calls.                            *)
(*                                                                          *)
(* A call is made from a list of tokens, each a character or a conversion     *)
(* with its argument: fmt is the format they spell, with its NUL, and argv   *)
(* the arguments.  Characters are model values except those printf looks at. *)
(* A number is the sequence of its bytes in memory, the lowest first; a byte *)
(* has two digits, 0..Digits-1.  An int has half the bytes of a uintptr_t.   *)
(*                                                                          *)
(* A definition marked "Slip:" is a wrong version of the one below it, the   *)
(* kind of mistake that is easily made there.  Nothing uses it; the          *)
(* mutation tests put it in the other's place and expect a violation.        *)
(***************************************************************************)
EXTENDS Integers, Sequences, SequencesExt

CONSTANTS
    Digits,       \* 16
    IntBytes,     \* sizeof(int): 4
    NUL,          \* the character at the end of a string
    Letters,      \* bound: other characters
    MaxTokens     \* bound: tokens of a format

ASSUME PrintingAssumption ==
    /\ Digits \in Nat \ {0, 1} /\ Digits % 2 = 0
    /\ IntBytes \in Nat \ {0}
    /\ MaxTokens \in Nat
    /\ {NUL, "%", "s", "p", "d", "l"} \cap Letters = {}

Byte == 0..Digits^2 - 1
Number == [1..2 * IntBytes -> Byte]
Int4 == [1..IntBytes -> Byte]
String == {<<NUL>>} \cup {<<c, NUL>> : c \in Letters}

\* "%" followed by a letter that is no conversion puts that letter out.
Token ==
    [conv : {"char", "other"}, val : Letters]
    \cup [conv : {"s"}, val : String]
    \cup [conv : {"p", "l"}, val : Number]
    \cup [conv : {"d"}, val : Int4]

Formats == UNION {[1..n -> Token] : n \in 0..MaxTokens}

Spelled(t) ==
    CASE t.conv = "char" -> <<t.val>>
      [] t.conv = "other" -> <<"%", t.val>>
      [] OTHER -> <<"%", t.conv>>

fmt(tokens) == Append(FlattenSeq([k \in DOMAIN tokens |-> Spelled(tokens[k])]), NUL)

argv(tokens) ==
    LET conversions == SelectSeq(tokens, LAMBDA t : t.conv # "char")
    IN  [k \in DOMAIN conversions |-> conversions[k].val]

\* Round k of the loop swaps the k-th byte from the left with the k-th from the
\* right, in place.
reverse(buf) ==
    LET len == Len(buf)
        Swapped[k \in 0..len \div 2] ==
            IF k = 0 THEN buf
            ELSE [Swapped[k-1] EXCEPT ![k] = Swapped[k-1][len + 1 - k],
                                      ![len + 1 - k] = Swapped[k-1][k]]
    IN  Swapped[len \div 2]

__ctox(in) == <<in \div Digits, in % Digits>>

\* Slip: the first byte that is not zero, and the number zero has none.
ZeroHasNone(in) ==
    LET nonzero == {k \in DOMAIN in : in[k] # 0} \cup {Len(in) + 1}
    IN  2 * ((CHOOSE k \in nonzero : \A j \in nonzero : k <= j) - 1)

\* The index of the first digit that is printed: that of the first byte that is
\* not zero, or of the last byte.
firstnonzero(in) ==
    LET first[k \in 0..Len(in)] ==
            IF k = 0 THEN 2 * (Len(in) - 1)
            ELSE IF 2 * (k-1) < first[k-1] /\ in[k] # 0 THEN 2 * (k-1)
            ELSE first[k-1]
    IN  first[Len(in)]

__cstox(in) == FlattenSeq([k \in DOMAIN in |-> __ctox(in[k])])

__printnum(ptr) ==
    LET in == reverse(ptr)
        buf == __cstox(in)
    IN  <<"0x">> \o SubSeq(buf, firstnonzero(in) + 1, Len(buf))

\* The conversion of an int to uintptr_t keeps its sign.
Extended(int) ==
    int \o [k \in 1..IntBytes |->
               IF int[IntBytes] >= Digits^2 \div 2 THEN Digits^2 - 1 ELSE 0]

strlen(str) == (CHOOSE k \in DOMAIN str : str[k] = NUL /\ \A j \in 1..k-1 : str[j] # NUL) - 1

__printstr(str) == SubSeq(str, 1, strlen(str))

\* What a conversion puts out.
Converted(c, arg) ==
    CASE c = "s" -> __printstr(arg)
      [] c \in {"p", "l"} -> __printnum(arg)
      [] c = "d" -> __printnum(Extended(arg))
      [] OTHER -> <<c>>

\* The loop of printf, from index i of the format on: what is put out when args
\* is the next argument.  "%" and the letter behind it move args on whatever
\* the letter is; any other character is put out as it is.
printf(format, arguments) ==
    LET n == strlen(format)
        rest[i \in 0..n, args \in 1..Len(arguments) + 1] ==
            IF i = n THEN <<>>
            ELSE IF format[i+1] = "%"
            THEN Converted(format[i+2], arguments[args]) \o rest[i + 2, args + 1]
            ELSE <<format[i+1]>> \o rest[i + 1, args]
    IN  rest[0, 1]
-----------------------------------------------------------------------------
\* What the caller means: the digits of a number are those of its value, from
\* the first byte that counts on.
Value(n) ==
    LET sum[k \in 0..Len(n)] ==
            IF k = 0 THEN 0 ELSE sum[k-1] + n[k] * Digits^(2 * (k-1))
    IN  sum[Len(n)]

DigitsOf(v) ==
    LET n == CHOOSE k \in 1..2 * IntBytes :
                 /\ v < Digits^(2 * k)
                 /\ k > 1 => v >= Digits^(2 * (k-1))
    IN  [k \in 1..2 * n |-> (v \div Digits^(2 * n - k)) % Digits]

Meant(t) ==
    CASE t.conv \in {"char", "other"} -> <<t.val>>
      [] t.conv = "s" -> SelectSeq(t.val, LAMBDA c : c # NUL)
      [] OTHER -> <<"0x">> \o DigitsOf(Value(t.val))

\* printf has no sign: "FIXME: problem with int/uintptr" (util.c:119).
NegativeInt(t) == t.conv = "d" /\ t.val[IntBytes] >= Digits^2 \div 2

\* printf puts out what its tokens mean, in their order and each conversion
\* with its own argument: an unknown conversion takes its argument too, zero has
\* a digit, no number loses a digit that counts.  Of a format with a negative int
\* nothing is said: the code prints it as a uintptr_t, and marks that as a problem.
TokensPrinted(tokens, out) ==
    (\A k \in DOMAIN tokens : ~NegativeInt(tokens[k])) =>
        out = FlattenSeq([k \in DOMAIN tokens |-> Meant(tokens[k])])
=============================================================================
