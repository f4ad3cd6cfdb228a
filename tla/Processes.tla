------------------------------ MODULE Processes -----------------------------
(***************************************************************************)
(* What the kernel promises to user programs: a process has a context of    *)
(* its own; only an instruction of the process, or the answer to the system *)
(* call it is waiting for, moves it on; and the machine stops only for a    *)
(* reason a process has given.  There are no interrupts, no trap frames and *)
(* no scheduler here.                                                       *)
(*                                                                          *)
(* Instructions change register a3: one that did not would be impossible to *)
(* tell from one that was skipped.                                          *)
(***************************************************************************)
EXTENDS Integers

CONSTANTS
    Slots,      \* where a process can live
    Pids,       \* process identifiers
    Values,     \* what register a3 can hold
    Calls,      \* the system calls and faults of programs
    PcBound     \* program counters are 0..PcBound-1, in instructions

VARIABLES
    on,         \* the machine is powered
    ctx         \* the context [pid, pc, a3, call] of every live process

pvars == <<on, ctx>>

Live == DOMAIN ctx

Succ(pc) == (pc + 1) % PcBound

NoProcess == [s \in {} |-> 0]

With(f, s, c) == [p \in DOMAIN f \cup {s} |-> IF p = s THEN c ELSE f[p]]

Entry(p, v) == [pid |-> p, pc |-> 0, a3 |-> v, call |-> "none"]

\* The results a call can have for the process p.
Answers(c, p) ==
    CASE c = "getpid" -> {p}
      [] c \in {"timerstatus", "mmap"} -> {0, 1}
      [] c \in {"print", "yield", "execv"} -> {-1}
      [] OTHER -> {}

\* A fault or a call that the machine does not survive.
Fatal == {"page fault", "illegal instruction", "no such app", "unknown call"}

PInit == on = TRUE /\ ctx = NoProcess

\* The first process starts.
Boot(s, p) ==
    /\ Live = {}
    /\ ctx' = With(ctx, s, Entry(p, 0))

\* A process executes an instruction of its own.
Compute(s, v) ==
    /\ s \in Live /\ ctx[s].call = "none"
    /\ v # ctx[s].a3
    /\ ctx' = [ctx EXCEPT ![s].pc = Succ(@), ![s].a3 = v]

Call(s, c) ==
    /\ s \in Live /\ ctx[s].call = "none"
    /\ ctx' = [ctx EXCEPT ![s].call = c]

\* The call is answered, and changes nothing but the result register.
Answer(s, v) ==
    /\ s \in Live /\ v \in Answers(ctx[s].call, ctx[s].pid)
    /\ ctx' = [ctx EXCEPT ![s].call = "none", ![s].pc = Succ(@), ![s].a3 = v]

\* The page is there now; the process does not notice.
Served(s) ==
    /\ s \in Live /\ ctx[s].call = "page fault"
    /\ ctx' = [ctx EXCEPT ![s].call = "none"]

\* A process starts another one, which begins at its entry point; the caller
\* gets 0.
Exec(s, t, p, v) ==
    /\ s \in Live /\ t \notin Live
    /\ ctx[s].call = "execv"
    /\ ctx' = With([ctx EXCEPT ![s].call = "none", ![s].pc = Succ(@), ![s].a3 = 0],
                   t, Entry(p, v))

Exit(s) ==
    /\ s \in Live /\ Live # {s}
    /\ ctx[s].call = "end"
    /\ ctx' = [p \in Live \ {s} |-> ctx[p]]

\* The first process cannot be started, the last one ends, or one dies.
PowerOff ==
    /\ \/ Live = {}
       \/ \E s \in Live : ctx[s].call \in Fatal \/ (Live = {s} /\ ctx[s].call = "end")
    /\ on' = FALSE /\ ctx' = NoProcess

PNext ==
    /\ on
    /\ \/ /\ UNCHANGED on
          /\ \E s \in Slots :
                \/ \E p \in Pids : Boot(s, p)
                \/ \E v \in Values : Compute(s, v) \/ Answer(s, v)
                \/ \E c \in Calls : Call(s, c)
                \/ Served(s)
                \/ \E t \in Slots, p \in Pids, v \in Values : Exec(s, t, p, v)
                \/ Exit(s)
       \/ PowerOff

PSpec == PInit /\ [][PNext]_pvars
=============================================================================
