----------------------------- MODULE TimerProofs -----------------------------
(***************************************************************************)
(* The machine timer, for every period, width of the masks, boot time and   *)
(* length of M-mode: setting it does not make it go off, the next tick is   *)
(* ahead, and an ecall that coincides with a tick is served.                *)
(***************************************************************************)
EXTENDS Timer, TLAPS

-----------------------------------------------------------------------------
\* The ecall of main is the first: until it is served the timer is disabled and
\* its register was never written.
SetupFirst ==
    todo = "setup" =>
        /\ pc \in {"run", "mcall", "read", "low"} => mtimecmp = Never
        /\ pc \in {"run", "mcall"} => ~MTIE
        /\ pc \in {"read", "low", "high"} => ~tick
        /\ pc # "mret"

\* increase_timer is called for a tick or by timer_setup, and only timer_setup
\* runs with interrupts enabled.
InIncrease ==
    /\ pc \in {"read", "low", "high"} /\ ~tick => todo = "setup"
    /\ MIE => /\ pc \in {"read", "low", "high", "mret", "off"}
              /\ ~tick

\* total is ahead of the clock while it is written, since M-mode is shorter than
\* a period; in between the register has the low bits of it.
TotalAhead ==
    /\ pc \in {"low", "high"} \/ (pc = "mret" /\ (tick \/ MIE)) =>
          total \in mtime + Period - spent .. mtime + Period
    /\ pc = "high" => mtimecmp = Masked(total, MaskLow)
    /\ pc = "mret" /\ (tick \/ MIE) => mtimecmp = total

IInv ==
    /\ TypeOK
    /\ SetupFirst
    /\ InIncrease
    /\ TotalAhead
    /\ TimerSafe

\* & with a mask of ones: never more than the number, never more than the mask,
\* and the number itself if it fits.
LEMMA Masks ==
    ASSUME NEW x \in Nat, NEW m \in Nat \ {0}
    PROVE  /\ Masked(x, m) \in 0..x /\ Masked(x, m) <= m
           /\ x <= m => Masked(x, m) = x
BY DEF Masked

\* The constants as numbers.
LEMMA Constants ==
    /\ Period \in Nat \ {0} /\ MaskLow \in Nat \ {0} /\ MaskHigh \in Nat \ {0}
    /\ MaxTime \in Nat \ {0} /\ BootTimes \subseteq 0..MaxTime
    /\ Handler \in 0..Period-1 /\ MaxTime + Period <= MaskHigh
    /\ Never = MaskHigh + 1 /\ Never \in Nat
BY TimerAssumption DEF Never

\* main, about to set the timer.
LEMMA InitIInv == Init => IInv
<1>. SUFFICES ASSUME Init PROVE IInv
     OBVIOUS
<1>1. tick \in BOOLEAN /\ MIE \in BOOLEAN /\ MTIE \in BOOLEAN /\ stip \in BOOLEAN
      BY Zenon DEF Init
<1>2. TypeOK
      BY Constants, <1>1 DEF Init, TypeOK
<1>3. SetupFirst /\ InIncrease /\ TotalAhead /\ TimerSafe
      BY DEF Init, SetupFirst, InIncrease, TotalAhead, TimerSafe
<1>. QED BY <1>2, <1>3 DEF IInv

\* The clock runs on; in M-mode not for longer than Handler.
LEMMA ClockIInv == IInv /\ Clock => IInv'
<1>. SUFFICES ASSUME IInv, Clock PROVE IInv'
     OBVIOUS
<1>. USE Constants DEF Clock, InMachineMode, regs
<1>1. TypeOK'
      BY DEF IInv, TypeOK
<1>2. SetupFirst' /\ InIncrease' /\ TimerSafe'
      BY DEF IInv, SetupFirst, InIncrease, TimerSafe
<1>3. TotalAhead'
      BY DEF IInv, TypeOK, TotalAhead
<1>. QED BY <1>1, <1>2, <1>3 DEF IInv

\* Into M-mode.
LEMMA EnterIInv == IInv /\ (Interrupt \/ ecall) => IInv'
<1>. SUFFICES ASSUME IInv, Interrupt \/ ecall PROVE IInv'
     OBVIOUS
<1>. USE DEF Interrupt, ecall, EnterM
<1>0. tick' \in BOOLEAN /\ MIE' \in BOOLEAN /\ MTIE' \in BOOLEAN /\ stip' \in BOOLEAN
      BY Zenon DEF IInv, TypeOK
<1>1. TypeOK'
      BY <1>0, Constants DEF IInv, TypeOK
<1>2. SetupFirst' /\ InIncrease' /\ TimerSafe' /\ TotalAhead'
      BY DEF IInv, SetupFirst, InIncrease, TimerSafe, TotalAhead
<1>. QED BY <1>1, <1>2 DEF IInv

\* mcall's three branches: a tick is served before an ecall.
LEMMA McallIInv == IInv /\ (McallTimer \/ timer_setup \/ ClearTimerS) => IInv'
<1>. SUFFICES ASSUME IInv, McallTimer \/ timer_setup \/ ClearTimerS PROVE IInv'
     OBVIOUS
<1>. USE Constants DEF McallTimer, timer_setup, ClearTimerS, pending, regs
<1>1. TypeOK'
      BY DEF IInv, TypeOK
<1>2. SetupFirst'
      BY DEF IInv, SetupFirst, TypeOK
<1>3. InIncrease' /\ TimerSafe'
      BY DEF IInv, InIncrease, TimerSafe
<1>4. TotalAhead'
      BY DEF IInv, InIncrease, TotalAhead
<1>. QED BY <1>1, <1>2, <1>3, <1>4 DEF IInv

\* increase_timer reads the clock.
LEMMA ReadTimeIInv == IInv /\ ReadTime => IInv'
<1>. SUFFICES ASSUME IInv, ReadTime PROVE IInv'
     OBVIOUS
<1>. USE Constants DEF ReadTime, regs
<1>1. TypeOK'
      BY DEF IInv, TypeOK
<1>2. SetupFirst' /\ InIncrease' /\ TimerSafe'
      BY DEF IInv, SetupFirst, InIncrease, TimerSafe
<1>3. TotalAhead'
      BY DEF IInv, TypeOK, TotalAhead
<1>. QED BY <1>1, <1>2, <1>3 DEF IInv

\* The two writes of mtimecmp.
LEMMA WritesIInv == IInv /\ (WriteLow \/ WriteHigh) => IInv'
<1>. SUFFICES ASSUME IInv, WriteLow \/ WriteHigh PROVE IInv'
     OBVIOUS
<1>. USE Constants DEF WriteLow, WriteHigh
<1>1. total \in Nat /\ total <= MaskHigh
      BY DEF IInv, TypeOK
<1>2. /\ Masked(total, MaskLow) \in 0..total
      /\ Masked(total, MaskHigh) = total
      BY <1>1, Masks
<1>3. TypeOK'
      BY <1>1, <1>2 DEF IInv, TypeOK
<1>4. SetupFirst' /\ InIncrease' /\ TimerSafe'
      BY DEF IInv, SetupFirst, InIncrease, TimerSafe, TypeOK
<1>5. TotalAhead'
      BY <1>1, <1>2 DEF IInv, TypeOK, TotalAhead
<1>. QED BY <1>3, <1>4, <1>5 DEF IInv

\* "Timer interrupt is too fast": only between the two writes, and only if the
\* first cut something off.
LEMMA TooFastIInv == IInv /\ TooFast => IInv'
<1>. SUFFICES ASSUME IInv, TooFast PROVE IInv'
     OBVIOUS
<1>. USE Constants
<1>1. MIE /\ mtime >= mtimecmp /\ pc \in {"read", "low", "high", "mret"} /\ ~tick
      BY DEF IInv, TypeOK, InIncrease, TooFast, InMachineMode, pending
<1>2. pc \notin {"read", "low"}
      BY <1>1 DEF IInv, TypeOK, InIncrease, SetupFirst
<1>3. total \in Nat /\ mtime < total
      BY <1>1, <1>2 DEF IInv, TypeOK, TotalAhead
<1>4. pc = "high" /\ Masked(total, MaskLow) < total
      BY <1>1, <1>2, <1>3 DEF IInv, TypeOK, TotalAhead
<1>5. total > MaskLow
      BY <1>3, <1>4, Masks
<1>6. TypeOK'
      BY DEF IInv, TypeOK, TooFast, regs
<1>7. SetupFirst' /\ InIncrease'
      BY <1>1 DEF IInv, SetupFirst, InIncrease, TooFast, regs
<1>8. TotalAhead' /\ TimerSafe'
      BY <1>5 DEF TotalAhead, TimerSafe, TooFast, regs
<1>. QED BY <1>6, <1>7, <1>8 DEF IInv

\* Out of M-mode, and what S-mode does.
LEMMA LeaveIInv == IInv /\ (mret \/ SInterrupt \/ sret) => IInv'
<1>. SUFFICES ASSUME IInv, mret \/ SInterrupt \/ sret PROVE IInv'
     OBVIOUS
<1>. USE Constants DEF mret, SInterrupt, sret, regs
<1>1. TypeOK'
      BY DEF IInv, TypeOK
<1>2. SetupFirst'
      BY DEF IInv, SetupFirst
<1>3. InIncrease' /\ TotalAhead' /\ TimerSafe'
      BY DEF IInv, InIncrease, TotalAhead, TimerSafe
<1>. QED BY <1>1, <1>2, <1>3 DEF IInv

\* Nothing happens.
LEMMA StutterIInv == IInv /\ UNCHANGED vars => IInv'
BY DEF IInv, TypeOK, SetupFirst, InIncrease, TotalAhead, TimerSafe, vars, regs

\* Every step keeps the invariant.
LEMMA NextIInv == IInv /\ [Next]_vars => IInv'
BY ClockIInv, EnterIInv, McallIInv, ReadTimeIInv, WritesIInv, TooFastIInv,
   LeaveIInv, StutterIInv DEF Next, Step, Off

\* The inductive invariant of the timer.
THEOREM TimerInvariant == Spec => []IInv
BY InitIInv, NextIInv, PTL DEF Spec

-----------------------------------------------------------------------------
\* Setting the timer never makes it go off before the time that the low mask
\* can hold, for every period and boot time.
THEOREM TimerIsSafe == Spec => []TimerSafe
<1>1. IInv => TimerSafe
      BY DEF IInv
<1>. QED BY TimerInvariant, <1>1, PTL

\* A tick that was served leaves the next one ahead by at most a period.
THEOREM TicksFollow == Spec => []NextTickSoon
<1>1. IInv => NextTickSoon
      BY Constants DEF IInv, TypeOK, TotalAhead, NextTickSoon
<1>. QED BY TimerInvariant, <1>1, PTL

\* The ecall that clears the timer interrupt of S-mode is over only when it is
\* cleared, whatever tick came in between.
THEOREM ClearsTheTick == Spec => ClearIsDone
<1>1. IInv /\ [Next]_vars => [todo = "clear" /\ todo' = "none" => ~stip']_vars
  <2>. SUFFICES ASSUME IInv, Next, todo = "clear", todo' = "none"
                PROVE  ~stip'
       BY DEF vars
  <2>1. CASE WriteHigh
        BY <2>1 DEF WriteHigh, IInv, InIncrease
  <2>2. CASE ClearTimerS
        BY <2>2 DEF ClearTimerS
  <2>3. ~(Next /\ ~WriteHigh /\ ~ClearTimerS)
        BY DEF Next, Step, Clock, Off, Interrupt, ecall, EnterM, McallTimer, timer_setup,
               ReadTime, WriteLow, TooFast, mret, SInterrupt, sret, vars, regs
  <2>. QED BY <2>1, <2>2, <2>3
<1>. QED BY TimerInvariant, <1>1, PTL DEF Spec, ClearIsDone
=============================================================================
