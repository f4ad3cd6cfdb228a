------------------------------- MODULE Timer ---------------------------------
(***************************************************************************)
(* The machine timer in time: src/kernel/timer.c, and the branches of mcall *)
(* (exception.c) that lead to it.  The clock mtime runs on between any two   *)
(* instructions; the timer interrupt is pending while mtime >= mtimecmp,     *)
(* and increase_timer writes mtimecmp twice.  Kernel has the same handlers   *)
(* with a timer that can expire at any moment.                               *)
(*                                                                          *)
(* Steps (variable pc):                                                      *)
(*   "run"    in U- or S-mode                                                *)
(*   "mcall"  in M-mode, mcall is about to read mip                          *)
(*   "read"   increase_timer is about to read mtime                          *)
(*   "low"    ... to write mtimecmp for the first time                       *)
(*   "high"   ... for the second time                                        *)
(*   "mret"   about to leave M-mode                                          *)
(*   "off"    the machine is switched off                                    *)
(*                                                                          *)
(* A definition marked "Slip:" is a wrong version of the one below it, the   *)
(* kind of mistake that is easily made there.  Nothing uses it; the          *)
(* mutation tests put it in the other's place and expect a violation.        *)
(***************************************************************************)
EXTENDS Integers

CONSTANTS
    Period,       \* PERIOD_TIMER
    MaskLow,      \* MASK_LOW, 28 ones
    MaskHigh,     \* MASK_HIGH, 56 ones
    BootTimes,    \* bound: mtime when the machine is switched on
    MaxTime,      \* bound: the last moment that is looked at
    Handler       \* bound: how long M-mode is left at the latest

ASSUME TimerAssumption ==
    /\ {Period, MaskLow, MaskHigh, MaxTime} \subseteq Nat \ {0}
    /\ \A m \in {MaskLow, MaskHigh} : \E ones \in 1..56 : m + 1 = 2^ones
    /\ BootTimes \subseteq 0..MaxTime
    /\ Handler \in 0..Period-1
    /\ MaxTime + Period <= MaskHigh

VARIABLES
    mtime,
    mtimecmp,
    mode,         \* where the hart is when it is not in M-mode: "S" or "U"
    todo,         \* the ecall that S-mode is making: "setup", "clear" or "none"
    pc,
    tick,         \* mcall serves the timer, not the ecall
    total,        \* the local of increase_timer
    MIE, MTIE,    \* timer interrupts in M-mode, timer interrupts at all
    stip,         \* mip.STIP
    spent         \* time since M-mode was entered

regs == <<mtimecmp, MIE, MTIE, stip>>
vars == <<mtime, regs, mode, todo, pc, tick, total, spent>>

\* The register when it was never written: no interrupt (as in QEMU's CLINT).
Never == MaskHigh + 1

\* x & m, for a mask that is all ones.
Masked(x, m) == x % (m + 1)

\* mip.MTIP
pending == mtime >= mtimecmp

\* The kernel is at ecall_timer_setup in main.
Init ==
    /\ mtime \in BootTimes
    /\ mtimecmp = Never
    /\ mode = "S" /\ todo = "setup"
    /\ pc = "run"
    /\ tick = FALSE /\ total = 0
    /\ MIE = FALSE /\ MTIE = FALSE /\ stip = FALSE
    /\ spent = 0

InMachineMode == pc \notin {"run", "off"}

\* Time passes.  M-mode is short, compared with the period.
Clock ==
    /\ pc # "off" /\ mtime < MaxTime
    /\ InMachineMode => spent < Handler
    /\ mtime' = mtime + 1
    /\ spent' = IF InMachineMode THEN spent + 1 ELSE 0
    /\ UNCHANGED <<regs, mode, todo, pc, tick, total>>

\* A trap to M-mode: the interrupt, or an ecall of S-mode.  MIE is cleared.
EnterM ==
    /\ pc' = "mcall" /\ MIE' = FALSE /\ spent' = 0
    /\ UNCHANGED <<mtime, mtimecmp, MTIE, stip, mode, todo, tick, total>>

Interrupt == pc = "run" /\ MTIE /\ pending /\ EnterM

ecall == pc = "run" /\ todo # "none" /\ ~(MTIE /\ pending) /\ EnterM

\* mcall looks at the timer first, even if it was called for an ecall.
McallTimer ==
    /\ pc = "mcall" /\ pending
    /\ tick' = TRUE
    /\ pc' = "read"
    /\ UNCHANGED <<mtime, regs, mode, todo, total, spent>>

\* timer_setup enables the interrupt, in M-mode too, then sets the timer.
timer_setup ==
    /\ pc = "mcall" /\ ~pending /\ todo = "setup"
    /\ MIE' = TRUE /\ MTIE' = TRUE
    /\ tick' = FALSE
    /\ pc' = "read"
    /\ UNCHANGED <<mtime, mtimecmp, stip, mode, todo, total, spent>>

\* Slip: mepc stays at the ecall.
ClearAgain ==
    /\ pc = "mcall" /\ ~pending /\ todo = "clear"
    /\ stip' = FALSE
    /\ tick' = FALSE
    /\ pc' = "mret"
    /\ UNCHANGED <<mtime, mtimecmp, MIE, MTIE, mode, todo, total, spent>>

\* clear_timer_s, then fix_mepc: the ecall is done.
ClearTimerS ==
    /\ pc = "mcall" /\ ~pending /\ todo = "clear"
    /\ stip' = FALSE
    /\ todo' = "none"
    /\ tick' = FALSE
    /\ pc' = "mret"
    /\ UNCHANGED <<mtime, mtimecmp, MIE, MTIE, mode, total, spent>>

(***************************************************************************)
(* increase_timer.                                                          *)
(***************************************************************************)
ReadTime ==
    /\ pc = "read"
    /\ total' = mtime + Period
    /\ pc' = "low"
    /\ UNCHANGED <<mtime, regs, mode, todo, tick, spent>>

\* Slip: the register is cleared first.
WriteZero ==
    /\ pc = "low"
    /\ mtimecmp' = 0
    /\ pc' = "high"
    /\ UNCHANGED <<mtime, MIE, MTIE, stip, mode, todo, tick, total, spent>>

WriteLow ==
    /\ pc = "low"
    /\ mtimecmp' = Masked(total, MaskLow)
    /\ pc' = "high"
    /\ UNCHANGED <<mtime, MIE, MTIE, stip, mode, todo, tick, total, spent>>

\* Slip: mepc is moved for a timer interrupt, too.
WriteHighFixed ==
    /\ pc = "high"
    /\ mtimecmp' = Masked(total, MaskHigh)
    /\ stip' = (stip \/ (tick /\ mode = "U"))
    /\ todo' = "none"
    /\ pc' = "mret"
    /\ UNCHANGED <<mtime, MIE, MTIE, mode, tick, total, spent>>

\* Slip: the low bits are written twice.
WriteLowAgain ==
    /\ pc = "high"
    /\ mtimecmp' = Masked(total, MaskLow)
    /\ stip' = (stip \/ (tick /\ mode = "U"))
    /\ todo' = IF tick THEN todo ELSE "none"
    /\ pc' = "mret"
    /\ UNCHANGED <<mtime, MIE, MTIE, mode, tick, total, spent>>

\* The end of increase_timer and of its caller.  A tick of user mode is forwarded
\* to S-mode; mepc is not moved, so an ecall that gave way to it is repeated.
\* For timer_setup it is moved.
WriteHigh ==
    /\ pc = "high"
    /\ mtimecmp' = Masked(total, MaskHigh)
    /\ stip' = (stip \/ (tick /\ mode = "U"))
    /\ todo' = IF tick THEN todo ELSE "none"
    /\ pc' = "mret"
    /\ UNCHANGED <<mtime, MIE, MTIE, mode, tick, total, spent>>

\* A timer interrupt in M-mode: "Timer interrupt is too fast", and off.
TooFast ==
    /\ InMachineMode /\ MIE /\ MTIE /\ pending
    /\ pc' = "off"
    /\ UNCHANGED <<mtime, regs, mode, todo, tick, total, spent>>

\* MIE is restored; it was never set outside of M-mode.
mret ==
    /\ pc = "mret" /\ ~(MIE /\ MTIE /\ pending)
    /\ pc' = "run" /\ MIE' = FALSE
    /\ UNCHANGED <<mtime, mtimecmp, MTIE, stip, mode, todo, tick, total, spent>>

(***************************************************************************)
(* S-mode, as far as the timer goes (timer_handler).                        *)
(***************************************************************************)
SInterrupt ==
    /\ pc = "run" /\ mode = "U" /\ stip /\ ~pending
    /\ mode' = "S" /\ todo' = "clear"
    /\ UNCHANGED <<mtime, regs, pc, tick, total, spent>>

sret ==
    /\ pc = "run" /\ mode = "S" /\ todo = "none" /\ ~pending
    /\ mode' = "U"
    /\ UNCHANGED <<mtime, regs, todo, pc, tick, total, spent>>

\* The machine is off, or the bound is reached.
Off == (pc = "off" \/ mtime = MaxTime) /\ UNCHANGED vars

Step ==
    \/ Interrupt \/ ecall \/ McallTimer \/ timer_setup \/ ClearTimerS
    \/ ReadTime \/ WriteLow \/ WriteHigh \/ TooFast \/ mret
    \/ SInterrupt \/ sret

Next == Clock \/ Step \/ Off

Spec == Init /\ [][Next]_vars

\* The hart runs and the clock does not stop.
FairSpec == Spec /\ WF_vars(Step) /\ WF_vars(Clock)
-----------------------------------------------------------------------------
\* The type of the state.
TypeOK ==
    /\ mtime \in 0..MaxTime
    /\ mtimecmp \in 0..Never
    /\ mode \in {"S", "U"} /\ todo \in {"setup", "clear", "none"}
    /\ pc \in {"run", "mcall", "read", "low", "high", "mret", "off"}
    /\ tick \in BOOLEAN /\ MIE \in BOOLEAN /\ MTIE \in BOOLEAN /\ stip \in BOOLEAN
    /\ total \in 0..MaxTime+Period /\ spent \in 0..Handler

\* "Timer safe" (increase_timer): setting the timer does not make it go off,
\* M-mode is not interrupted and the machine not switched off, as long as the
\* time fits into the bits of the first write when the timer is first set.
\* Later ticks may come at any time.
TimerSafe == pc = "off" => total > MaskLow

\* When a tick is over the next one is ahead, but not more than a period: ticks
\* neither follow each other at once nor stay away, however late the last one
\* was served.
NextTickSoon == pc = "mret" /\ tick => mtimecmp \in mtime+1 .. mtime+Period

\* An ecall that came together with a tick is not lost: S-mode does not go on
\* with the timer interrupt still pending, to take the same tick twice.
ClearIsDone == [][todo = "clear" /\ todo' = "none" => ~stip']_vars

\* ... and it is not repeated forever: each is served in the end.
EcallServed == todo # "none" ~> (todo = "none" \/ pc = "off")
=============================================================================
