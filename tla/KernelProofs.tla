---------------------------- MODULE KernelProofs ----------------------------
(***************************************************************************)
(* Proofs about Kernel: the safety properties of processes, traps and the   *)
(* scheduler, for every number of slots and every mix of traps; at the end,  *)
(* that Kernel implements Processes.                                        *)
(***************************************************************************)
EXTENDS Kernel, FiniteSetTheorems, TLAPS

-----------------------------------------------------------------------------
(***************************************************************************)
(* The inductive invariant.                                                 *)
(***************************************************************************)

\* M-mode is only asked with a request, and one is forgotten when S-mode goes
\* on.
Requests ==
    /\ at \in {"ecall", "mcall"} => req # "none"
    /\ at = "off" => req = "off"
    /\ at \notin {"ecall", "mcall", "off"} => req = "none"

\* Slot 0 is never given to a process, and before main has started the first
\* one every other slot is free.
Statuses ==
    /\ \A s \in Slot : status[s] = "reserved" <=> s = 0
    /\ at = "boot" \/ req = "setup" => LiveSlots = {}

\* The next identifier is above those that are in use.
Numbered ==
    MaxStarts < PidBound
        => last_pid <= MaxStarts /\ \A s \in LiveSlots : pid[s] < last_pid

\* What S-mode knows of the trap it serves agrees with the pending bit.
Causes ==
    /\ at = "user" => cause = "none"
    /\ at = "scall" => cause # "none" /\ (stip <=> cause = "timer")
    /\ at = "timer" \/ req = "clear" => cause = "timer"
    /\ at = "dispatch" => cause \in Traps

\* The frame is the running process's while M-mode clears its interrupt, too.
ClearedFrame == req = "clear" => tf_user.satp = proc_running

IInv ==
    /\ TypeOK
    /\ CountMatches
    /\ OneRunning
    /\ OwnAddressSpace
    /\ PidsDiffer
    /\ Requests
    /\ Statuses
    /\ Numbered
    /\ Causes
    /\ ClearedFrame

-----------------------------------------------------------------------------
(***************************************************************************)
(* Facts about the model's operators.                                       *)
(***************************************************************************)

\* The scan of proc_scheduler goes once around the slots: it visits every one
\* but the slot it starts behind.
LEMMA ScanSlots ==
    ASSUME proc_running \in Slot
    PROVE  /\ \A j \in 1..MaxProcesses-1 : After(j) \in Slot \ {proc_running}
           /\ \A s \in Slot \ {proc_running} :
                 \E j \in 1..MaxProcesses-1 : After(j) = s
<1>. DEFINE N == MaxProcesses
            r == proc_running
<1>1. N \in Nat /\ N >= 2 /\ r \in 0..N-1
      BY KernelAssumption DEF Slot
<1>2. \A x \in 0..N-1 : x % N = x /\ (x + N) % N = x
      BY <1>1
<1>3. ASSUME NEW j \in 1..N-1
      PROVE  After(j) \in Slot \ {r}
      <2>1. CASE r + j < N
            BY <1>1, <1>2, <2>1 DEF After, Slot
      <2>2. CASE r + j >= N
            <3>1. r + j - N \in 0..N-1 /\ r + j - N # r
                  BY <1>1, <2>2
            <3>. QED BY <1>1, <1>2, <3>1 DEF After, Slot
      <2>. QED BY <1>1, <2>1, <2>2
<1>4. ASSUME NEW s \in Slot \ {r}
      PROVE  \E j \in 1..N-1 : After(j) = s
      <2>1. CASE s > r
            <3>1. s - r \in 1..N-1 /\ r + (s - r) = s
                  BY <1>1, <2>1 DEF Slot
            <3>. QED BY <1>2, <3>1 DEF After, Slot
      <2>2. CASE s < r
            <3>1. s - r + N \in 1..N-1 /\ r + (s - r + N) = s + N
                  BY <1>1, <2>2 DEF Slot
            <3>. QED BY <1>2, <3>1 DEF After, Slot
      <2>. QED BY <1>1, <2>1, <2>2 DEF Slot
<1>. QED BY <1>3, <1>4

\* proc_scheduler finds a process if one other than the caller is paused.
LEMMA SchedulerSwitches ==
    ASSUME proc_running \in Slot, NEW st, NEW fr, NEW back,
           \E s \in Slot \ {proc_running} : st[s] = "paused",
           proc_scheduler(st, fr, back)
    PROVE  \E t \in Slot \ {proc_running} :
              /\ st[t] = "paused"
              /\ proc_running' = t
              /\ status' = [st EXCEPT ![t] = "running"]
              /\ cpu' = load_context(fr[t])
              /\ tf' = [fr EXCEPT ![t] = NoFrame]
              /\ EnterUser
<1>1. \E j \in 1..MaxProcesses-1 : st[After(j)] = "paused"
      BY ScanSlots
<1>2. PICK j \in 1..MaxProcesses-1 :
         /\ FirstPaused(st, j)
         /\ proc_running' = After(j)
         /\ status' = [st EXCEPT ![After(j)] = "running"]
         /\ cpu' = load_context(fr[After(j)])
         /\ tf' = [fr EXCEPT ![After(j)] = NoFrame]
         /\ EnterUser
      BY <1>1 DEF proc_scheduler
<1>. QED BY <1>2, ScanSlots DEF FirstPaused

\* The arithmetic of program counters stays in range; stepping back and forth
\* is stepping nowhere (timer_handler subtracts 4, load_context adds it).
LEMMA ProgramCounters ==
    /\ \A x \in Int : Succ(x) \in 0..PcBound-1 /\ Pred(x) \in 0..PcBound-1
    /\ \A x \in 0..PcBound-1 : Succ(Pred(x)) = x
<1>1. PcBound \in Nat \ {0}
      BY KernelAssumption
<1>2. \A x \in Int : Succ(x) \in 0..PcBound-1 /\ Pred(x) \in 0..PcBound-1
      BY <1>1 DEF Succ, Pred
<1>3. ASSUME NEW x \in 0..PcBound-1
      PROVE  Succ(Pred(x)) = x
      <2>1. CASE x = 0
            <3>1. Pred(x) = PcBound - 1
                  BY <1>1, <2>1 DEF Pred
            <3>. QED BY <1>1, <2>1, <3>1 DEF Succ
      <2>2. CASE x # 0
            <3>1. Pred(x) = x - 1
                  BY <1>1, <2>2 DEF Pred
            <3>. QED BY <1>1, <2>2, <3>1 DEF Succ
      <2>. QED BY <2>1, <2>2
<1>. QED BY <1>2, <1>3

\* Frames stay frames: what load_context, fix_sepc and the handlers do to one.
LEMMA FramesTyped ==
    /\ NoFrame \in FrameType /\ Frame(0, 0, KernelSpace) \in FrameType
    /\ {-1, 0, 1} \subseteq A3Value /\ UserValues \subseteq A3Value
    /\ 0..PidBound-1 \subseteq A3Value
    /\ \A v \in A3Value, s \in 0..MaxProcesses : Frame(0, v, s) \in FrameType
    /\ \A f \in FrameType :
          /\ load_context(f) \in FrameType /\ load_context(f).satp = f.satp
          /\ [f EXCEPT !.pc = Pred(@)] \in FrameType
          /\ \A v \in A3Value : /\ [f EXCEPT !.a3 = v] \in FrameType
                                /\ [f EXCEPT !.pc = Succ(@), !.a3 = v] \in FrameType
<1>1. PcBound \in Nat \ {0} /\ MaxProcesses \in Nat
      BY KernelAssumption
<1>2. /\ {-1, 0, 1} \subseteq A3Value /\ UserValues \subseteq A3Value
      /\ 0..PidBound-1 \subseteq A3Value
      BY DEF A3Value
<1>3. \A v \in A3Value, s \in 0..MaxProcesses : Frame(0, v, s) \in FrameType
      BY <1>1 DEF Frame, FrameType
<1>4. NoFrame \in FrameType /\ Frame(0, 0, KernelSpace) \in FrameType
      <2>1. 0 \in A3Value /\ 0 \in 0..MaxProcesses /\ MaxProcesses \in 0..MaxProcesses
            BY <1>1, <1>2
      <2>. QED BY <2>1, <1>3 DEF NoFrame, NoSpace, KernelSpace
<1>5. ASSUME NEW f \in FrameType
      PROVE  /\ load_context(f) \in FrameType /\ load_context(f).satp = f.satp
             /\ [f EXCEPT !.pc = Pred(@)] \in FrameType
             /\ \A v \in A3Value : /\ [f EXCEPT !.a3 = v] \in FrameType
                                   /\ [f EXCEPT !.pc = Succ(@), !.a3 = v] \in FrameType
      <2>1. Succ(f.pc) \in 0..PcBound-1 /\ Pred(f.pc) \in 0..PcBound-1
            BY ProgramCounters DEF FrameType
      <2>. QED BY <2>1 DEF FrameType, load_context
<1>. QED BY <1>2, <1>3, <1>4, <1>5

\* The slots of processes are finitely many.
LEMMA LiveFinite ==
    /\ UserSlot = Slot \ {0} /\ 0 \in Slot
    /\ IsFiniteSet(UserSlot)
    /\ \A S \in SUBSET UserSlot : IsFiniteSet(S) /\ Cardinality(S) \in Nat
<1>1. UserSlot = Slot \ {0} /\ 0 \in Slot
      BY KernelAssumption DEF UserSlot, Slot
<1>2. IsFiniteSet(UserSlot)
      BY KernelAssumption, FS_Interval DEF UserSlot
<1>. QED BY <1>1, <1>2, FS_Subset, FS_CardinalityType

-----------------------------------------------------------------------------
(***************************************************************************)
(* Steps that leave the process list alone: the timer, M-mode, U-mode and   *)
(* the calls that only leave a result.                                      *)
(***************************************************************************)

\* The part of the invariant that is about the process list.
ListInv ==
    /\ CountMatches
    /\ PidsDiffer
    /\ Numbered
    /\ \A s \in Slot : status[s] = "reserved" <=> s = 0
    /\ \A s \in LiveSlots : satp[s] = s
    /\ \A s \in LiveSlots : status[s] = "paused" => tf[s].satp = s

\* It does not depend on where the hart is.
LEMMA ListUntouched ==
    ASSUME IInv, UNCHANGED <<procs, tf>>
    PROVE  ListInv' /\ LiveSlots' = LiveSlots
<1>. UNCHANGED <<status, pid, satp, tf, proc_running, processes_total, last_pid>>
     BY DEF procs
<1>. QED BY DEF IInv, ListInv, CountMatches, PidsDiffer, Numbered, Statuses, OwnAddressSpace,
                LiveSlots

\* mtime passing mtimecmp: no part of the kernel looks at mip.MTIP in S-mode.
LEMMA TimerExpiresIInv == IInv /\ TimerExpires => IInv'
<1>. SUFFICES ASSUME IInv, TimerExpires PROVE IInv'
     OBVIOUS
<1>1. ListInv' /\ LiveSlots' = LiveSlots
      BY ListUntouched DEF TimerExpires
<1>. USE DEF TimerExpires, procs
<1>2. TypeOK'
      BY DEF IInv, TypeOK
<1>3. OneRunning'
      BY DEF IInv, OneRunning, Serving, GoingDown
<1>. QED BY <1>1, <1>2, <1>3
         DEF IInv, ListInv, OwnAddressSpace, Requests, Statuses, Causes, ClearedFrame

\* mcall for a tick forwards it only if it came from U-mode.
LEMMA MachineTimerIInv == IInv /\ MachineTimer => IInv'
<1>. SUFFICES ASSUME IInv, MachineTimer PROVE IInv'
     OBVIOUS
<1>1. ListInv' /\ LiveSlots' = LiveSlots
      BY ListUntouched DEF MachineTimer
<1>. USE DEF MachineTimer, increase_timer, procs
<1>2. TypeOK'
      BY DEF IInv, TypeOK
<1>3. OneRunning'
      BY DEF IInv, OneRunning, Serving, GoingDown
<1>. QED BY <1>1, <1>2, <1>3
         DEF IInv, ListInv, OwnAddressSpace, Requests, Statuses, Causes, ClearedFrame

\* trap_handler on its way from S-mode to mcall.
LEMMA EnterMachineIInv == IInv /\ EnterMachine => IInv'
<1>. SUFFICES ASSUME IInv, EnterMachine PROVE IInv'
     OBVIOUS
<1>1. ListInv' /\ LiveSlots' = LiveSlots
      BY ListUntouched DEF EnterMachine
<1>. USE DEF EnterMachine, procs, timer
<1>2. TypeOK'
      BY DEF IInv, TypeOK
<1>3. OneRunning'
      BY DEF IInv, OneRunning, Serving, GoingDown
<1>. QED BY <1>1, <1>2, <1>3
         DEF IInv, ListInv, OwnAddressSpace, Requests, Statuses, Causes, ClearedFrame

\* mcall for a request of S-mode: done, or left for another try.
LEMMA MachineCallIInv == IInv /\ MachineCall => IInv'
<1>. SUFFICES ASSUME IInv, MachineCall PROVE IInv'
     OBVIOUS
<1>1. ListInv' /\ LiveSlots' = LiveSlots
      BY ListUntouched DEF MachineCall
<1>. USE DEF MachineCall, increase_timer, timer_setup, procs
<1>2. TypeOK'
      BY DEF IInv, TypeOK
<1>3. OneRunning'
      BY DEF IInv, OneRunning, Serving, GoingDown
<1>4. OwnAddressSpace'
      BY <1>1 DEF ListInv, OwnAddressSpace, IInv, ClearedFrame
<1>5. Requests' /\ Causes' /\ ClearedFrame'
      BY DEF IInv, Requests, Causes, ClearedFrame
<1>6. Statuses'
      BY <1>1 DEF IInv, ListInv, Statuses, Requests
<1>. QED BY <1>1, <1>2, <1>3, <1>4, <1>5, <1>6 DEF IInv, ListInv

\* A program's own instruction.
LEMMA UserComputeIInv == IInv /\ UserCompute => IInv'
<1>. SUFFICES ASSUME IInv, UserCompute PROVE IInv'
     OBVIOUS
<1>1. ListInv' /\ LiveSlots' = LiveSlots
      BY ListUntouched DEF UserCompute
<1>. USE DEF UserCompute, InUser, procs, timer
<1>2. cpu' \in FrameType /\ cpu'.satp = cpu.satp
      BY FramesTyped, ZenonT(30) DEF IInv, TypeOK, FrameType
<1>3. TypeOK'
      BY <1>2 DEF IInv, TypeOK
<1>4. OneRunning'
      BY DEF IInv, OneRunning, Serving, GoingDown
<1>. QED BY <1>1, <1>2, <1>3, <1>4
         DEF IInv, ListInv, OwnAddressSpace, Requests, Statuses, Causes, ClearedFrame

\* trap_handler_s: the frame it saves is the running process's, whatever the
\* trap.
LEMMA TrapIInv ==
    ASSUME IInv, at = "user", NEW c \in Traps \cup {"timer"}, Trap(c), stip <=> c = "timer"
    PROVE  IInv'
<1>1. ListInv' /\ LiveSlots' = LiveSlots
      BY ListUntouched DEF Trap
<1>. USE DEF Trap, procs, timer
<1>2. cpu' \in FrameType
      BY FramesTyped DEF IInv, TypeOK, FrameType
<1>3. TypeOK'
      BY <1>2 DEF IInv, TypeOK
<1>4. OneRunning'
      BY DEF IInv, OneRunning, Serving, GoingDown
<1>5. "none" \notin Traps
      BY KernelAssumption DEF Syscalls, Faults
<1>. QED BY <1>1, <1>3, <1>4, <1>5
         DEF IInv, ListInv, OwnAddressSpace, Requests, Statuses, Causes, ClearedFrame

\* scall looks for a pending timer interrupt before it looks at the cause.
LEMMA TimerPendingIInv == IInv /\ TimerPending => IInv'
<1>. SUFFICES ASSUME IInv, TimerPending PROVE IInv'
     OBVIOUS
<1>1. ListInv' /\ LiveSlots' = LiveSlots
      BY ListUntouched DEF TimerPending
<1>. USE DEF TimerPending, ecall, procs, timer
<1>2. TypeOK'
      BY DEF IInv, TypeOK
<1>3. OneRunning'
      BY DEF IInv, OneRunning, Serving, GoingDown, Requests
<1>. QED BY <1>1, <1>2, <1>3
         DEF IInv, ListInv, OwnAddressSpace, Requests, Statuses, Causes, ClearedFrame, TypeOK

-----------------------------------------------------------------------------
(***************************************************************************)
(* Ways out of scall.                                                       *)
(***************************************************************************)

\* As long as the kernel serves, proc_running is live, every other live
\* process is paused, and processes_total tells whether there is one.
LEMMA RunningIsLive ==
    ASSUME IInv, Serving
    PROVE  /\ proc_running \in UserSlot /\ proc_running \in LiveSlots
           /\ status[proc_running] = "running"
           /\ \A s \in LiveSlots \ {proc_running} : status[s] = "paused"
           /\ \A s \in UserSlot \ LiveSlots : status[s] = "free"
           /\ processes_total \in Nat \ {0}
           /\ processes_total > 1 =>
                 \E s \in Slot \ {proc_running} : status[s] = "paused"
           /\ processes_total = 1 <=> LiveSlots = {proc_running}
<1>1. /\ proc_running \in UserSlot
      /\ \A s \in Slot : status[s] = "running" <=> s = proc_running
      BY DEF IInv, OneRunning
<1>2. status[proc_running] = "running" /\ proc_running \in LiveSlots
      BY <1>1, LiveFinite DEF LiveSlots
<1>3. \A s \in LiveSlots \ {proc_running} : s \in Slot /\ status[s] = "paused"
      BY <1>1, LiveFinite DEF LiveSlots
<1>4. \A s \in UserSlot \ LiveSlots : status[s] = "free"
      BY LiveFinite DEF LiveSlots, IInv, TypeOK, Statuses
<1>5. /\ IsFiniteSet(LiveSlots)
      /\ processes_total = Cardinality(LiveSlots) /\ processes_total \in Nat
      BY LiveFinite DEF LiveSlots, IInv, CountMatches
<1>6. processes_total # 0
      BY <1>2, <1>5, FS_EmptySet
<1>7. Cardinality({proc_running}) = 1
      BY FS_Singleton
<1>8. ASSUME processes_total = 1
      PROVE  LiveSlots = {proc_running}
      <2>1. IsFiniteSet(LiveSlots \ {proc_running})
            BY <1>5, FS_RemoveElement
      <2>2. Cardinality(LiveSlots \ {proc_running}) = Cardinality(LiveSlots) - 1
            BY <1>2, <1>5, FS_RemoveElement
      <2>3. Cardinality(LiveSlots \ {proc_running}) = 0
            BY <1>5, <1>8, <2>2
      <2>. QED BY <2>1, <2>3, <1>2, FS_EmptySet
<1>9. LiveSlots = {proc_running} => processes_total = 1
      BY <1>5, <1>7
<1>. QED BY <1>1, <1>2, <1>3, <1>4, <1>5, <1>6, <1>8, <1>9

\* What holds at the handlers of scall.
LEMMA InHandler ==
    ASSUME IInv, at \in {"timer", "dispatch"}
    PROVE  Serving /\ tf_user.satp = proc_running /\ req = "none"
           /\ tf_user \in FrameType /\ tf_user.a3 \in A3Value
BY DEF IInv, Serving, GoingDown, Requests, OwnAddressSpace, TypeOK, FrameType

\* A handler may save a frame of the running process in its slot: that of the
\* others stay.
SavesOwn(fr) ==
    /\ fr \in [Slot -> FrameType]
    /\ \A s \in Slot \ {proc_running} : fr[s] = tf[s]

\* It returns to the process that trapped: the registers are again those of
\* proc_running.  (execv may leave a trace of a start that failed in a slot
\* that stays free.)
LEMMA ReturnsIInv ==
    ASSUME IInv, at \in {"timer", "dispatch"},
           NEW f \in FrameType, f.satp = proc_running, ReturnTo(f),
           SavesOwn(tf'),
           pid' \in [Slot -> 0..PidBound-1], satp' \in [Slot -> 0..MaxProcesses],
           \A s \in LiveSlots : pid'[s] = pid[s] /\ satp'[s] = satp[s],
           UNCHANGED <<status, proc_running, processes_total, last_pid, req, timer>>
    PROVE  IInv'
<1>. USE DEF ReturnTo, EnterUser, timer, SavesOwn
<1>1. /\ Serving /\ req = "none"
      /\ proc_running \in LiveSlots /\ status[proc_running] = "running"
      BY InHandler, RunningIsLive
<1>2. TypeOK'
      BY FramesTyped DEF IInv, TypeOK
<1>3. LiveSlots' = LiveSlots
      BY DEF LiveSlots
<1>4. CountMatches' /\ PidsDiffer' /\ Numbered'
      BY <1>3 DEF IInv, CountMatches, PidsDiffer, Numbered
<1>5. OneRunning'
      BY <1>1 DEF IInv, OneRunning
<1>6. OwnAddressSpace'
      BY <1>1, <1>3, LiveFinite DEF IInv, OwnAddressSpace, LiveSlots
<1>7. Requests' /\ Statuses' /\ Causes' /\ ClearedFrame'
      BY <1>1, <1>3 DEF IInv, Requests, Statuses, Causes, ClearedFrame
<1>. QED BY <1>2, <1>3, <1>4, <1>5, <1>6, <1>7 DEF IInv

\* Before it calls proc_scheduler a handler has paused or freed its slot.
LeavesOwn(st) == \E w \in {"paused", "free"} : st = [status EXCEPT ![proc_running] = w]

\* A handler calls proc_scheduler with the caller paused or freed: a paused
\* process becomes the running one.
LEMMA SwitchesTo ==
    ASSUME IInv, at \in {"timer", "dispatch"}, NEW st, NEW fr, NEW back,
           processes_total > 1,
           proc_scheduler(st, fr, back),
           SavesOwn(fr),
           LeavesOwn(st)
    PROVE  /\ st \in [Slot -> {"reserved", "free", "paused", "running"}]
           /\ \A s \in Slot \ {proc_running} : st[s] = status[s]
           /\ st[proc_running] \in {"paused", "free"}
           /\ LiveSlots' = IF st[proc_running] = "paused" THEN LiveSlots
                                                          ELSE LiveSlots \ {proc_running}
           /\ \E t \in LiveSlots \ {proc_running} :
                 /\ t \in UserSlot
                 /\ st[t] = "paused" /\ status[t] = "paused" /\ fr[t] = tf[t]
                 /\ proc_running' = t
                 /\ status' = [st EXCEPT ![t] = "running"]
                 /\ cpu' = load_context(fr[t])
                 /\ tf' = [fr EXCEPT ![t] = NoFrame]
                 /\ EnterUser
<1>1. /\ proc_running \in UserSlot /\ proc_running \in LiveSlots
      /\ \E s \in Slot \ {proc_running} : status[s] = "paused"
      BY InHandler, RunningIsLive
<1>2. proc_running \in Slot /\ 0 \in Slot /\ proc_running # 0 /\ UserSlot = Slot \ {0}
      BY <1>1, LiveFinite
<1>3. /\ st \in [Slot -> {"reserved", "free", "paused", "running"}]
      /\ \A s \in Slot \ {proc_running} : st[s] = status[s]
      /\ st[proc_running] \in {"paused", "free"}
      BY <1>2 DEF IInv, TypeOK, LeavesOwn
<1>4. \E s \in Slot \ {proc_running} : st[s] = "paused"
      BY <1>1, <1>3
<1>5. PICK t \in Slot \ {proc_running} :
         /\ st[t] = "paused"
         /\ proc_running' = t
         /\ status' = [st EXCEPT ![t] = "running"]
         /\ cpu' = load_context(fr[t])
         /\ tf' = [fr EXCEPT ![t] = NoFrame]
         /\ EnterUser
      <2>1. proc_scheduler(st, fr, back)
            OBVIOUS
      <2>. QED BY ONLY <1>2, <1>4, <2>1, SchedulerSwitches
<1>6. t \in LiveSlots /\ status[t] = "paused" /\ t # 0 /\ t \in UserSlot /\ fr[t] = tf[t]
      BY <1>2, <1>3, <1>5 DEF LiveSlots, IInv, Statuses, SavesOwn
<1>7. LiveSlots' = IF st[proc_running] = "paused" THEN LiveSlots
                                                 ELSE LiveSlots \ {proc_running}
      BY <1>1, <1>2, <1>3, <1>5, <1>6 DEF LiveSlots
<1>. QED BY <1>3, <1>5, <1>6, <1>7

\* proc_scheduler: the caller's slot is paused or free, with its frame saved
\* and the counter in step; another process becomes the running one, in its
\* own address space.
LEMMA SwitchIInv ==
    ASSUME IInv, at \in {"timer", "dispatch"}, NEW st, NEW fr, NEW back,
           processes_total > 1,
           proc_scheduler(st, fr, back),
           SavesOwn(fr),
           \/ /\ st = [status EXCEPT ![proc_running] = "paused"]
              /\ fr[proc_running].satp = proc_running
              /\ UNCHANGED <<pid, satp, processes_total>>
           \/ /\ st = [status EXCEPT ![proc_running] = "free"]
              /\ proc_kill_process
              /\ processes_total' = processes_total - 1,
           timer_check' \in {0, 1},
           UNCHANGED <<last_pid, req, mtip, stip, armed>>
    PROVE  IInv'
<1>. USE DEF SavesOwn
<1>1. /\ Serving /\ req = "none"
      /\ proc_running \in UserSlot /\ proc_running \in LiveSlots
      /\ \A s \in LiveSlots \ {proc_running} : status[s] = "paused"
      BY InHandler, RunningIsLive
<1>2. proc_running \in Slot /\ 0 \in Slot /\ proc_running # 0 /\ UserSlot = Slot \ {0}
      BY <1>1, LiveFinite
<1>3. /\ st \in [Slot -> {"reserved", "free", "paused", "running"}]
      /\ \A s \in Slot \ {proc_running} : st[s] = status[s]
      /\ st[proc_running] \in {"paused", "free"}
      BY SwitchesTo DEF LeavesOwn
<1>4. PICK t \in LiveSlots \ {proc_running} :
         /\ t \in UserSlot
         /\ st[t] = "paused" /\ status[t] = "paused" /\ fr[t] = tf[t]
         /\ proc_running' = t
         /\ status' = [st EXCEPT ![t] = "running"]
         /\ cpu' = load_context(fr[t])
         /\ tf' = [fr EXCEPT ![t] = NoFrame]
         /\ EnterUser
      BY SwitchesTo DEF LeavesOwn
<1>5. t \in LiveSlots /\ status[t] = "paused" /\ t # 0 /\ t \in Slot
      BY <1>2, <1>4
<1>6. LiveSlots' = IF st[proc_running] = "paused" THEN LiveSlots
                                                 ELSE LiveSlots \ {proc_running}
      BY SwitchesTo DEF LeavesOwn
<1>7. TypeOK'
      <2>1. pid' \in [Slot -> 0..PidBound-1] /\ satp' \in [Slot -> 0..MaxProcesses]
            BY KernelAssumption DEF IInv, TypeOK, proc_kill_process, NoSpace
      <2>2. processes_total' \in Nat
            BY DEF IInv, TypeOK
      <2>3. status' \in [Slot -> {"reserved", "free", "paused", "running"}]
            BY <1>3, <1>4
      <2>4. cpu' \in FrameType /\ tf' \in [Slot -> FrameType] /\ tf_user' \in FrameType
            BY <1>4, <1>5, FramesTyped DEF EnterUser
      <2>. QED BY <2>1, <2>2, <2>3, <2>4, <1>4 DEF IInv, TypeOK, EnterUser
<1>8. CountMatches'
      <2>1. /\ IsFiniteSet(LiveSlots)
            /\ processes_total = Cardinality(LiveSlots) /\ processes_total \in Nat
            BY LiveFinite DEF LiveSlots, IInv, CountMatches
      <2>2. Cardinality(LiveSlots \ {proc_running}) = Cardinality(LiveSlots) - 1
            BY <2>1, <1>1, FS_RemoveElement
      <2>. QED BY <2>1, <2>2, <1>2, <1>3, <1>6 DEF CountMatches, IInv, TypeOK
<1>9. \A s \in LiveSlots' : s \in Slot /\ s \in LiveSlots /\ pid'[s] = pid[s] /\ satp'[s] = satp[s]
      BY <1>2, <1>3, <1>6 DEF LiveSlots, proc_kill_process, IInv, TypeOK
<1>10. PidsDiffer' /\ Numbered'
      BY <1>9 DEF IInv, PidsDiffer, Numbered
<1>11. OneRunning'
      <2>1. \A s \in Slot : status[s] = "running" <=> s = proc_running
            BY <1>1 DEF IInv, OneRunning
      <2>2. \A s \in Slot : st[s] # "running"
            BY <2>1, <1>3
      <2>3. \A s \in Slot : status'[s] = "running" <=> s = t
            BY <2>2, <1>3, <1>4, <1>5
      <2>. QED BY <2>3, <1>4 DEF OneRunning
<1>12. OwnAddressSpace'
      <2>1. cpu'.satp = proc_running'
        <3>1. tf[t] \in FrameType /\ tf[t].satp = t
              BY <1>4, <1>5 DEF IInv, OwnAddressSpace, TypeOK
        <3>2. load_context(tf[t]).satp = tf[t].satp
              BY <3>1, FramesTyped
        <3>. QED BY <1>4, <3>1, <3>2
      <2>2. \A s \in LiveSlots' : satp'[s] = s
            BY <1>9 DEF IInv, OwnAddressSpace
      <2>3. ASSUME NEW s \in LiveSlots', status'[s] = "paused"
            PROVE  tf'[s].satp = s
            <3>1. s # t /\ s \in Slot /\ s \in LiveSlots
                  BY <1>3, <1>4, <1>9, <2>3
            <3>2. tf'[s] = fr[s]
                  BY <3>1, <1>4
            <3>3. CASE s = proc_running
                  BY <3>1, <3>2, <3>3, <1>2, <1>3, <1>4, <2>3 DEF IInv, TypeOK
            <3>4. CASE s # proc_running
                  BY <3>1, <3>2, <3>4, <1>1 DEF IInv, OwnAddressSpace
            <3>. QED BY <3>3, <3>4
      <2>. QED BY <2>1, <2>2, <2>3, <1>4 DEF OwnAddressSpace, EnterUser
<1>13. Requests' /\ Causes' /\ ClearedFrame'
      BY <1>1, <1>4 DEF Requests, Causes, ClearedFrame, EnterUser
<1>14. Statuses'
      BY <1>1, <1>2, <1>3, <1>4, <1>5 DEF IInv, Statuses, EnterUser
<1>. QED BY <1>7, <1>8, <1>10, <1>11, <1>12, <1>13, <1>14 DEF IInv

\* A new process takes a slot that was free and is the one that runs.
LEMMA StartsIn ==
    ASSUME IInv, NEW t \in UserSlot, NEW v, NEW st, Start(t, v, st),
           \/ at = "boot" /\ st = status
           \/ /\ at \in {"timer", "dispatch"}
              /\ st = [status EXCEPT ![proc_running] = "paused"]
    PROVE  /\ t \in Slot /\ t \notin LiveSlots
           /\ LiveSlots' = LiveSlots \cup {t}
           /\ status' \in [Slot -> {"reserved", "free", "paused", "running"}]
           /\ \A s \in Slot : status'[s] = "reserved" <=> s = 0
           /\ \A s \in Slot : status'[s] = "running" <=> s = t
           /\ pid'[t] = last_pid /\ satp'[t] = t
           /\ \A s \in LiveSlots : s \in Slot /\ pid'[s] = pid[s] /\ satp'[s] = satp[s]
<1>. USE DEF Start, FreeSlot
<1>1. UserSlot = Slot \ {0} /\ t \in Slot /\ t # 0 /\ t \notin LiveSlots
      BY LiveFinite DEF LiveSlots
<1>2. /\ LiveSlots' = LiveSlots \cup {t}
      /\ status' \in [Slot -> {"reserved", "free", "paused", "running"}]
      /\ \A s \in Slot : status'[s] = "reserved" <=> s = 0
      /\ \A s \in Slot : status'[s] = "running" <=> s = t
      /\ \A s \in LiveSlots : s \in Slot
      <2>1. CASE at = "boot" /\ st = status
            <3>1. LiveSlots = {}
                  BY <2>1 DEF IInv, Statuses
            <3>. QED BY <1>1, <2>1, <3>1 DEF IInv, TypeOK, Statuses, LiveSlots
      <2>2. CASE /\ at \in {"timer", "dispatch"}
                 /\ st = [status EXCEPT ![proc_running] = "paused"]
            <3>1. /\ proc_running \in UserSlot /\ proc_running \in LiveSlots
                  /\ status[proc_running] = "running"
                  /\ \A s \in Slot : status[s] = "running" <=> s = proc_running
                  BY <2>2, InHandler, RunningIsLive DEF IInv, OneRunning
            <3>2. /\ status' \in [Slot -> {"reserved", "free", "paused", "running"}]
                  /\ \A s \in Slot : status'[s] = IF s = t THEN "running"
                                                  ELSE IF s = proc_running THEN "paused"
                                                  ELSE status[s]
                  BY <1>1, <2>2, <3>1 DEF IInv, TypeOK
            <3>. QED BY <1>1, <3>1, <3>2 DEF IInv, Statuses, LiveSlots
      <2>. QED BY <2>1, <2>2
<1>3. /\ pid'[t] = last_pid /\ satp'[t] = t
      /\ \A s \in LiveSlots : pid'[s] = pid[s] /\ satp'[s] = satp[s]
      BY <1>1, <1>2 DEF IInv, TypeOK
<1>. QED BY <1>1, <1>2, <1>3

\* That process gets an identifier above all others and its own page table;
\* whoever called execv is paused with its frame saved.
LEMMA StartIInv ==
    ASSUME IInv, NEW t \in UserSlot, NEW v \in UserValues, NEW st, Start(t, v, st),
           SavesOwn(tf'),
           \/ at = "boot" /\ st = status
           \/ /\ at \in {"timer", "dispatch"}
              /\ st = [status EXCEPT ![proc_running] = "paused"]
              /\ tf'[proc_running].satp = proc_running,
           UNCHANGED <<req, timer>>
    PROVE  IInv'
<1>1. t \in Slot /\ t \notin LiveSlots /\ t \in 0..MaxProcesses
      BY StartsIn, KernelAssumption DEF UserSlot
<1>2. req = "none" /\ req' = "none"
      BY DEF IInv, Requests, Start, FreeSlot
<1>3. /\ LiveSlots' = LiveSlots \cup {t}
      /\ status' \in [Slot -> {"reserved", "free", "paused", "running"}]
      /\ \A s \in Slot : status'[s] = "reserved" <=> s = 0
      /\ \A s \in Slot : status'[s] = "running" <=> s = t
      /\ pid'[t] = last_pid /\ satp'[t] = t
      /\ \A s \in LiveSlots : s \in Slot /\ pid'[s] = pid[s] /\ satp'[s] = satp[s]
      BY StartsIn
<1>. USE DEF Start, FreeSlot, EnterUser, timer, SavesOwn
<1>4. TypeOK'
      <2>1. cpu' \in FrameType
            BY <1>1, FramesTyped
      <2>2. last_pid' \in 0..PidBound-1
            BY KernelAssumption DEF IInv, TypeOK
      <2>3. satp' \in [Slot -> 0..MaxProcesses] /\ pid' \in [Slot -> 0..PidBound-1]
            BY <1>1 DEF IInv, TypeOK
      <2>4. tf' \in [Slot -> FrameType] /\ tf_user' \in FrameType
            BY FramesTyped
      <2>5. proc_running' \in Slot /\ processes_total' \in Nat
            BY <1>1 DEF IInv, TypeOK
      <2>6. /\ at' = "user" /\ cause' = "none" /\ req' = "none"
            /\ mtip' \in BOOLEAN /\ stip' \in BOOLEAN /\ armed' \in BOOLEAN
            /\ timer_check' \in {0, 1}
            BY <1>2 DEF IInv, TypeOK
      <2>. QED BY <1>3, <2>1, <2>2, <2>3, <2>4, <2>5, <2>6 DEF TypeOK
<1>5. CountMatches'
      <2>1. /\ IsFiniteSet(LiveSlots)
            /\ processes_total = Cardinality(LiveSlots) /\ processes_total \in Nat
            BY LiveFinite DEF LiveSlots, IInv, CountMatches
      <2>2. Cardinality(LiveSlots \cup {t}) = Cardinality(LiveSlots) + 1
            BY <2>1, <1>1, FS_AddElement
      <2>. QED BY <2>1, <2>2, <1>3 DEF CountMatches
<1>6. PidsDiffer' /\ Numbered'
      <2>. SUFFICES ASSUME MaxStarts < PidBound
                    PROVE  PidsDiffer' /\ Numbered'
           BY DEF PidsDiffer, Numbered
      <2>1. /\ last_pid <= MaxStarts
            /\ \A s \in LiveSlots : pid[s] < last_pid /\ pid[s] \in 0..PidBound-1
            BY <1>3 DEF IInv, Numbered, TypeOK
      <2>2. last_pid' = last_pid + 1
            BY KernelAssumption DEF IInv, TypeOK
      <2>3. Numbered'
            BY <2>1, <2>2, <1>3, KernelAssumption DEF Numbered, IInv, TypeOK
      <2>4. PidsDiffer'
            BY <2>1, <1>3 DEF PidsDiffer, IInv
      <2>. QED BY <2>3, <2>4
<1>7. OneRunning'
      BY <1>3 DEF OneRunning
<1>8. OwnAddressSpace'
      <2>1. \A s \in LiveSlots' : satp'[s] = s
            BY <1>3 DEF IInv, OwnAddressSpace
      <2>2. cpu'.satp = t
            BY DEF Frame
      <2>3. ASSUME NEW s \in LiveSlots', status'[s] = "paused"
            PROVE  tf'[s].satp = s
            <3>1. s \in LiveSlots /\ s # t /\ s \in Slot
                  BY <1>3, <2>3
            <3>2. at # "boot"
                  BY <3>1 DEF IInv, Statuses
            <3>3. CASE s = proc_running
                  BY <3>2, <3>3
            <3>4. CASE s # proc_running
                  <4>1. status[s] = "paused"
                        BY <3>1, <3>2, <3>4, InHandler, RunningIsLive
                  <4>. QED BY <3>1, <3>4, <4>1 DEF IInv, OwnAddressSpace
            <3>. QED BY <3>3, <3>4
      <2>. QED BY <2>1, <2>2, <2>3 DEF OwnAddressSpace
<1>. QED BY <1>2, <1>3, <1>4, <1>5, <1>6, <1>7, <1>8
         DEF IInv, Requests, Statuses, Causes, ClearedFrame

\* hlt and ecall_poweroff: the process list stays consistent, although nobody
\* runs any more.
LEMMA HaltIInv ==
    ASSUME IInv, at \in {"boot", "timer", "dispatch"}, Halt,
           cpu' \in FrameType, tf_user' \in FrameType, cause' = cause,
           TypeOK', CountMatches', PidsDiffer', Numbered',
           \A s \in Slot : status'[s] = "reserved" <=> s = 0,
           \A s \in LiveSlots' : satp'[s] = s,
           \A s \in LiveSlots' : status'[s] = "paused" => tf'[s].satp = s
    PROVE  IInv'
<1>. USE DEF Halt, ecall
<1>1. OneRunning'
      BY DEF OneRunning, Serving, GoingDown
<1>. QED BY <1>1 DEF IInv, OwnAddressSpace, Requests, Statuses, Causes, ClearedFrame

\* A start that fails leaves its traces in a slot that stays free.
LEMMA StartFailsKeeps ==
    ASSUME IInv, StartFails
    PROVE  /\ pid' \in [Slot -> 0..PidBound-1] /\ satp' \in [Slot -> 0..MaxProcesses]
           /\ LiveSlots' = LiveSlots
           /\ \A s \in LiveSlots : s \in Slot /\ pid'[s] = pid[s] /\ satp'[s] = satp[s]
           /\ UNCHANGED <<status, proc_running, processes_total, last_pid>>
<1>1. /\ UNCHANGED <<status, proc_running, processes_total, last_pid>>
      /\ LiveSlots' = LiveSlots /\ \A s \in LiveSlots : s \in Slot
      BY LiveFinite DEF StartFails, LiveSlots
<1>2. CASE UNCHANGED <<pid, satp>>
      BY <1>1, <1>2 DEF IInv, TypeOK
<1>3. CASE \E t \in UserSlot :
              /\ FreeSlot(t)
              /\ pid' = [pid EXCEPT ![t] = last_pid]
              /\ satp' \in {satp, [satp EXCEPT ![t] = t]}
      <2>1. PICK t \in UserSlot :
               /\ FreeSlot(t)
               /\ pid' = [pid EXCEPT ![t] = last_pid]
               /\ satp' \in {satp, [satp EXCEPT ![t] = t]}
            BY <1>3
      <2>2. t \in Slot /\ t \notin LiveSlots /\ t \in 0..MaxProcesses
            BY <2>1, LiveFinite, KernelAssumption DEF FreeSlot, LiveSlots, UserSlot
      <2>. QED BY <1>1, <2>1, <2>2 DEF IInv, TypeOK
<1>. QED BY <1>2, <1>3 DEF StartFails

-----------------------------------------------------------------------------
(***************************************************************************)
(* The handlers.                                                            *)
(***************************************************************************)

\* timer_handler: switch, or go on alone.
LEMMA TimerHandlerIInv == IInv /\ TimerHandler => IInv'
<1>. SUFFICES ASSUME IInv, TimerHandler PROVE IInv'
     OBVIOUS
<1>. USE DEF TimerHandler
<1>1. /\ Serving /\ tf_user.satp = proc_running /\ req = "none" /\ tf_user \in FrameType
      /\ proc_running \in Slot /\ processes_total # 0
      BY InHandler, RunningIsLive, LiveFinite
<1>2. CASE processes_total > 1
      <2>. DEFINE st == [status EXCEPT ![proc_running] = "paused"]
                  f == [tf_user EXCEPT !.pc = Pred(@)]
                  fr == proc_copy_frame(f)
      <2>1. f \in FrameType /\ f.satp = proc_running
            BY <1>1, FramesTyped DEF FrameType
      <2>2. SavesOwn(fr) /\ fr[proc_running].satp = proc_running
            BY <1>1, <2>1 DEF SavesOwn, proc_copy_frame, IInv, TypeOK
      <2>3. /\ proc_scheduler(st, fr, tf_user)
            /\ timer_check' \in {0, 1}
            /\ UNCHANGED <<pid, satp, processes_total, last_pid, req, mtip, stip, armed>>
            BY <1>2
      <2>. QED BY <1>2, <2>2, <2>3, SwitchIInv
<1>3. CASE ~(processes_total > 1)
      <2>1. /\ Retry
            /\ UNCHANGED <<status, proc_running, tf, timer_check, pid, satp, processes_total,
                           last_pid, req, mtip, stip, armed>>
            BY <1>1, <1>3
      <2>. QED BY <1>1, <2>1, ReturnsIInv DEF Retry, timer, SavesOwn, IInv, TypeOK
<1>. QED BY <1>2, <1>3

\* Calls that only leave a result in a3.
LEMMA ResultIInv ==
    ASSUME IInv, at = "dispatch", NEW v \in A3Value, Result(v)
    PROVE  IInv'
<1>1. /\ tf_user \in FrameType /\ tf_user.satp = proc_running
      BY InHandler
<1>2. Answered(v) \in FrameType /\ Answered(v).satp = proc_running
      BY <1>1, FramesTyped DEF Answered, FrameType
<1>. QED BY <1>2, ReturnsIInv DEF Result, procs, timer, SavesOwn, IInv, TypeOK

\* print, getpid, timerstatus and mmap.
LEMMA ResultsIInv ==
    IInv /\ \/ scall_handler_print \/ scall_handler_getpid
            \/ scall_handler_timerstatus \/ scall_handler_mmap
    => IInv'
<1>. USE DEF Dispatch
<1>1. IInv /\ scall_handler_print => IInv'
      BY ResultIInv, FramesTyped DEF scall_handler_print
<1>2. IInv /\ scall_handler_getpid => IInv'
      <2>1. IInv => pid[proc_running] \in A3Value
            BY FramesTyped DEF IInv, TypeOK
      <2>. QED BY <2>1, ResultIInv DEF scall_handler_getpid
<1>3. IInv /\ scall_handler_timerstatus => IInv'
      <2>1. IInv => timer_check \in A3Value
            BY FramesTyped DEF IInv, TypeOK
      <2>. QED BY <2>1, ResultIInv DEF scall_handler_timerstatus
<1>4. IInv /\ scall_handler_mmap => IInv'
      BY ResultIInv, FramesTyped DEF scall_handler_mmap
<1>. QED BY <1>1, <1>2, <1>3, <1>4

\* end: proc_kill_process frees the slot; another process runs, or the machine
\* stops.
LEMMA EndIInv == IInv /\ scall_handler_end => IInv'
<1>. SUFFICES ASSUME IInv, scall_handler_end PROVE IInv'
     OBVIOUS
<1>. USE DEF scall_handler_end, Dispatch
<1>1. /\ Serving /\ req = "none" /\ tf_user \in FrameType
      /\ proc_running \in UserSlot /\ proc_running \in LiveSlots
      /\ processes_total \in Nat \ {0}
      /\ processes_total = 1 <=> LiveSlots = {proc_running}
      BY InHandler, RunningIsLive
<1>2. CASE processes_total = 1
      <2>1. LiveSlots = {proc_running} /\ UserSlot = Slot \ {0}
            BY <1>1, <1>2, LiveFinite
      <2>2. /\ status' \in [Slot -> {"reserved", "free", "paused", "running"}]
            /\ \A s \in Slot : status'[s] = "reserved" <=> s = 0
            /\ LiveSlots' = {}
            BY <1>1, <1>2, <2>1 DEF IInv, TypeOK, Statuses, LiveSlots
      <2>3. cpu' \in FrameType /\ tf_user' \in FrameType
            <3>1. cpu' = Frame(0, 0, KernelSpace) /\ tf_user' = [tf_user EXCEPT !.a3 = -1]
                  BY <1>2
            <3>. QED BY <1>1, <3>1, FramesTyped
      <2>4. pid' \in [Slot -> 0..PidBound-1] /\ satp' \in [Slot -> 0..MaxProcesses]
            BY KernelAssumption DEF IInv, TypeOK, proc_kill_process, NoSpace
      <2>5. TypeOK'
            BY <1>1, <1>2, <2>2, <2>3, <2>4 DEF IInv, TypeOK, Halt, ecall, timer
      <2>6. CountMatches'
            BY <1>2, <2>2, FS_EmptySet DEF CountMatches
      <2>7. PidsDiffer' /\ Numbered'
            BY <2>2 DEF IInv, PidsDiffer, Numbered
      <2>. QED BY <1>2, <2>2, <2>3, <2>5, <2>6, <2>7, HaltIInv
<1>3. CASE processes_total # 1
      <2>1. SavesOwn(tf) /\ processes_total > 1
            BY <1>1, <1>3 DEF SavesOwn, IInv, TypeOK
      <2>. QED BY <1>3, <2>1, SwitchIInv DEF timer, IInv, TypeOK
<1>. QED BY <1>2, <1>3

\* execv: the caller is paused and the new process runs, or the caller goes on
\* with -1.
LEMMA ExecvIInv == IInv /\ scall_handler_execv => IInv'
<1>. SUFFICES ASSUME IInv, scall_handler_execv PROVE IInv'
     OBVIOUS
<1>. USE DEF scall_handler_execv, Dispatch
<1>1. tf_user \in FrameType /\ tf_user.satp = proc_running /\ proc_running \in Slot
      BY InHandler DEF IInv, TypeOK
<1>2. SavesOwn(tf') /\ tf'[proc_running].satp = proc_running
      <2>. DEFINE f == [tf_user EXCEPT !.a3 = 0]
      <2>1. f \in FrameType /\ f.satp = proc_running
            BY <1>1, FramesTyped DEF FrameType
      <2>2. tf' = [tf EXCEPT ![proc_running] = f]
            BY DEF proc_copy_frame
      <2>. QED BY <1>1, <2>1, <2>2 DEF SavesOwn, IInv, TypeOK
<1>3. CASE \E t \in UserSlot, v \in UserValues :
              Start(t, v, [status EXCEPT ![proc_running] = "paused"])
      BY <1>2, <1>3, StartIInv DEF timer
<1>4. CASE StartFails /\ ReturnTo(Answered(-1))
      <2>1. Answered(-1) \in FrameType /\ Answered(-1).satp = proc_running
            BY <1>1, FramesTyped DEF Answered, FrameType
      <2>. QED BY <1>2, <1>4, <2>1, StartFailsKeeps, ReturnsIInv DEF timer
<1>. QED BY <1>3, <1>4

\* yield: another process runs; alone, the caller goes on with -1.
LEMMA YieldIInv == IInv /\ scall_handler_yield => IInv'
<1>. SUFFICES ASSUME IInv, scall_handler_yield PROVE IInv'
     OBVIOUS
<1>. USE DEF scall_handler_yield, Dispatch
<1>1. /\ tf_user.satp = proc_running /\ tf_user \in FrameType
      /\ proc_running \in Slot /\ processes_total \in Nat
      BY InHandler DEF IInv, TypeOK
<1>2. CASE processes_total > 1
      <2>. DEFINE st == [status EXCEPT ![proc_running] = "paused"]
                  f == [tf_user EXCEPT !.a3 = -1]
                  fr == proc_copy_frame(f)
      <2>1. f \in FrameType /\ f.satp = proc_running
            BY <1>1, FramesTyped DEF FrameType
      <2>2. SavesOwn(fr) /\ fr[proc_running].satp = proc_running
            BY <1>1, <2>1 DEF SavesOwn, proc_copy_frame, IInv, TypeOK
      <2>3. /\ proc_scheduler(st, fr, Answered(-1))
            /\ timer_check' \in {0, 1}
            /\ UNCHANGED <<pid, satp, processes_total, last_pid, req, mtip, stip, armed>>
            BY <1>1, <1>2 DEF timer, IInv, TypeOK
      <2>. QED BY <1>2, <2>2, <2>3, SwitchIInv
<1>3. CASE processes_total <= 1
      <2>1. Answered(-1) \in FrameType /\ Answered(-1).satp = proc_running
            BY <1>1, FramesTyped DEF Answered, FrameType
      <2>. QED BY <1>3, <2>1, ReturnsIInv DEF SavesOwn, IInv, TypeOK
<1>. QED BY <1>1, <1>2, <1>3

\* hlt and a call nobody knows: the machine goes down with the process list as
\* it is.
LEMMA DiesIInv == IInv /\ (scall_handler_unknown \/ Die) => IInv'
<1>. SUFFICES ASSUME IInv, scall_handler_unknown \/ Die PROVE IInv'
     OBVIOUS
<1>. USE DEF scall_handler_unknown, Die, Dispatch
<1>1. UNCHANGED <<procs, tf, cpu, cause, timer>> /\ Halt /\ at = "dispatch"
      OBVIOUS
<1>2. ListInv'
      BY <1>1, ListUntouched
<1>3. tf_user' \in FrameType
      BY InHandler, FramesTyped
<1>4. TypeOK'
      BY <1>1, <1>3 DEF IInv, TypeOK, Halt, ecall, procs, timer
<1>. QED BY <1>1, <1>2, <1>3, <1>4, HaltIInv DEF IInv, TypeOK, ListInv

\* execv of an application that is not in the table: the machine goes down with
\* the caller paused.
LEMMA ExecvUnknownIInv == IInv /\ ExecvUnknown => IInv'
<1>. SUFFICES ASSUME IInv, ExecvUnknown PROVE IInv'
     OBVIOUS
<1>. USE DEF ExecvUnknown, Dispatch
<1>. DEFINE f == [tf_user EXCEPT !.a3 = 0]
<1>1. /\ proc_running \in UserSlot /\ proc_running \in LiveSlots /\ UserSlot = Slot \ {0}
      /\ tf_user \in FrameType /\ tf_user.satp = proc_running
      BY InHandler, RunningIsLive, LiveFinite
<1>2. f \in FrameType /\ f.satp = proc_running
      BY <1>1, FramesTyped DEF FrameType
<1>3. tf' \in [Slot -> FrameType] /\ tf' = [tf EXCEPT ![proc_running] = f]
      BY <1>1, <1>2 DEF proc_copy_frame, IInv, TypeOK
<1>4. /\ status' \in [Slot -> {"reserved", "free", "paused", "running"}]
      /\ status' = [status EXCEPT ![proc_running] = "paused"]
      /\ \A s \in Slot : status'[s] = "reserved" <=> s = 0
      BY <1>1 DEF IInv, TypeOK, Statuses
<1>5. LiveSlots' = LiveSlots
      BY <1>1, <1>4 DEF LiveSlots, IInv, TypeOK
<1>6. TypeOK'
      BY <1>2, <1>3, <1>4 DEF IInv, TypeOK, Halt, ecall, timer
<1>7. CountMatches' /\ PidsDiffer' /\ Numbered'
      BY <1>5 DEF IInv, CountMatches, PidsDiffer, Numbered
<1>8. \A s \in LiveSlots' : satp'[s] = s
      BY <1>5 DEF IInv, OwnAddressSpace
<1>9. ASSUME NEW s \in LiveSlots', status'[s] = "paused"
      PROVE  tf'[s].satp = s
      <2>1. s \in Slot /\ s \in LiveSlots
            BY <1>1, <1>5 DEF LiveSlots
      <2>2. CASE s = proc_running
            BY <2>1, <2>2, <1>2, <1>3 DEF IInv, TypeOK
      <2>3. CASE s # proc_running
            BY <2>1, <2>3, <1>3, <1>4, <1>9 DEF IInv, TypeOK, OwnAddressSpace
      <2>. QED BY <2>2, <2>3
<1>. QED BY <1>2, <1>4, <1>6, <1>7, <1>8, <1>9, HaltIInv DEF IInv, TypeOK

\* A page fault that is served.
LEMMA SoftPageFaultIInv == IInv /\ SoftPageFault => IInv'
<1>1. IInv /\ SoftPageFault => tf_user \in FrameType /\ tf_user.satp = proc_running
      BY InHandler DEF SoftPageFault, Dispatch
<1>. QED BY <1>1, ReturnsIInv
         DEF SoftPageFault, Dispatch, Retry, procs, timer, SavesOwn, IInv, TypeOK

\* main's start of the first process.
LEMMA BootProcessIInv == IInv /\ BootProcess => IInv'
<1>. SUFFICES ASSUME IInv, BootProcess PROVE IInv'
     OBVIOUS
<1>. USE DEF BootProcess
<1>1. CASE (\E t \in UserSlot : Start(t, 0, status)) /\ UNCHANGED req
      <2>1. SavesOwn(tf') /\ 0 \in UserValues
            BY KernelAssumption DEF SavesOwn, IInv, TypeOK
      <2>. QED BY <1>1, <2>1, StartIInv
<1>2. CASE StartFails /\ Halt /\ cpu' = Frame(0, 0, KernelSpace) /\ UNCHANGED <<cause, tf_user>>
      <2>1. LiveSlots' = {} /\ LiveSlots = {}
            BY <1>2, StartFailsKeeps DEF IInv, Statuses
      <2>2. cpu' \in FrameType
            BY <1>2, FramesTyped
      <2>3. TypeOK'
            BY <1>2, <2>2, StartFailsKeeps DEF IInv, TypeOK, Halt, ecall, timer
      <2>4. CountMatches' /\ PidsDiffer' /\ Numbered'
            BY <2>1, <1>2, StartFailsKeeps DEF IInv, CountMatches, PidsDiffer, Numbered
      <2>. QED BY <1>2, <2>1, <2>2, <2>3, <2>4, StartFailsKeeps, HaltIInv DEF IInv, Statuses, TypeOK
<1>. QED BY <1>1, <1>2

\* proc_init_process_list.
LEMMA InitIInv == Init => IInv
<1>. SUFFICES ASSUME Init PROVE IInv
     OBVIOUS
<1>. USE KernelAssumption DEF Init
<1>1. LiveSlots = {}
      BY DEF LiveSlots, UserSlot, Slot
<1>2. TypeOK
      <2>1. cpu \in FrameType /\ tf_user \in FrameType /\ tf \in [Slot -> FrameType]
            BY FramesTyped
      <2>2. /\ status \in [Slot -> {"reserved", "free", "paused", "running"}]
            /\ pid \in [Slot -> 0..PidBound-1]
            /\ satp \in [Slot -> 0..MaxProcesses]
            /\ proc_running \in Slot /\ last_pid \in 0..PidBound-1
            BY DEF Slot, KernelSpace, NoSpace
      <2>. QED BY <2>1, <2>2 DEF TypeOK
<1>3. CountMatches
      BY <1>1, FS_EmptySet DEF CountMatches
<1>. QED BY <1>1, <1>2, <1>3
         DEF IInv, OneRunning, Serving, OwnAddressSpace, PidsDiffer, Requests, Statuses,
             Numbered, Causes, ClearedFrame

\* Nothing happens.
LEMMA StutterIInv == IInv /\ UNCHANGED vars => IInv'
<1>. SUFFICES ASSUME IInv, UNCHANGED vars PROVE IInv'
     OBVIOUS
<1>. USE DEF vars, procs, timer
<1>1. ListInv' /\ LiveSlots' = LiveSlots
      BY ListUntouched
<1>2. TypeOK'
      BY DEF IInv, TypeOK
<1>3. OneRunning'
      BY DEF IInv, OneRunning, Serving, GoingDown
<1>. QED BY <1>1, <1>2, <1>3
         DEF IInv, ListInv, OwnAddressSpace, Requests, Statuses, Causes, ClearedFrame

\* One step of the machine.
LEMMA NextIInv == IInv /\ [Next]_vars => IInv'
<1>. SUFFICES ASSUME IInv, [Next]_vars PROVE IInv'
     OBVIOUS
<1>1. CASE TimerExpires
      BY <1>1, TimerExpiresIInv
<1>2. CASE UserCompute
      BY <1>2, UserComputeIInv
<1>3. ASSUME NEW c \in Traps, UserTrap(c) PROVE IInv'
      <2>1. c # "timer"
            BY KernelAssumption DEF Syscalls, Faults
      <2>. QED BY <1>3, <2>1, TrapIInv DEF UserTrap, InUser
<1>4. CASE MachineTimer
      BY <1>4, MachineTimerIInv
<1>5. CASE MachineCall
      BY <1>5, MachineCallIInv
<1>6. CASE EnterMachine
      BY <1>6, EnterMachineIInv
<1>7. CASE TimerInterrupt
      BY <1>7, TrapIInv DEF TimerInterrupt
<1>8. CASE TimerPending
      BY <1>8, TimerPendingIInv
<1>9. CASE TimerHandler
      BY <1>9, TimerHandlerIInv
<1>10. CASE BootProcess
      BY <1>10, BootProcessIInv
<1>11. CASE Scall
      BY <1>11, ResultsIInv, EndIInv, ExecvIInv, YieldIInv, ExecvUnknownIInv, DiesIInv,
         SoftPageFaultIInv DEF Scall
<1>12. CASE Off \/ UNCHANGED vars
      BY <1>12, StutterIInv DEF Off
<1>. QED BY <1>1, <1>2, <1>3, <1>4, <1>5, <1>6, <1>7, <1>8, <1>9, <1>10, <1>11, <1>12
         DEF Next, SupervisorStep

-----------------------------------------------------------------------------
(***************************************************************************)
(* The theorems.                                                            *)
(***************************************************************************)

\* The inductive invariant holds: the process list, the frames on it and the
\* places of the hart agree in every state, whatever the programs do and
\* whenever the timer expires.
THEOREM KernelInvariant == Spec => []IInv
BY InitIInv, NextIInv, PTL DEF Spec

\* Every variable of process.c, exception.c and timer.c keeps its type.
THEOREM TypeCorrect == Spec => []TypeOK
<1>1. IInv => TypeOK
      BY DEF IInv
<1>. QED BY <1>1, KernelInvariant, PTL

\* processes_total is the number of slots in use: execv, end, yield and the
\* timer keep the counter and the statuses in step.
THEOREM CountsLiveSlots == Spec => []CountMatches
<1>1. IInv => CountMatches
      BY DEF IInv
<1>. QED BY <1>1, KernelInvariant, PTL

\* While the kernel serves, proc_running is the one process marked running.
THEOREM RunsOne == Spec => []OneRunning
<1>1. IInv => OneRunning
      BY DEF IInv
<1>. QED BY <1>1, KernelInvariant, PTL

\* satp in U-mode, in the saved frame and in the frames of paused processes is
\* that of the process: load_context never mixes two address spaces.
THEOREM KeepsAddressSpaces == Spec => []OwnAddressSpace
<1>1. IInv => OwnAddressSpace
      BY DEF IInv
<1>. QED BY <1>1, KernelInvariant, PTL

\* Live processes have different identifiers until last_pid wraps around.
THEOREM PidsAreUnique == Spec => []PidsDiffer
<1>1. IInv => PidsDiffer
      BY DEF IInv
<1>. QED BY <1>1, KernelInvariant, PTL

\* timer_handler finds the interrupt that brought it there still pending, so
\* scall never looks for the cause of a trap that was a timer interrupt.
THEOREM SeesTimer == Spec => []TimerSeen
<1>1. IInv => TimerSeen
      BY KernelAssumption DEF IInv, TimerSeen, Causes, Syscalls, Faults
<1>. QED BY <1>1, KernelInvariant, PTL

\* proc_scheduler and timer_handler never reach their error messages.
THEOREM SchedulerAlwaysFinds == Spec => []SchedulerFinds
<1>1. ASSUME IInv PROVE SchedulerFinds
      <2>1. at = "timer" => Serving
            BY <1>1, InHandler
      <2>. QED BY <1>1, <2>1, RunningIsLive DEF SchedulerFinds
<1>. QED BY <1>1, KernelInvariant, PTL

-----------------------------------------------------------------------------
(***************************************************************************)
(* Kernel keeps the promise of Processes: every step of the machine is, for *)
(* the programs, one step of the abstract machine or none at all.           *)
(*                                                                          *)
(* First come the contexts as the invariant lets one compute them, then one *)
(* lemma per abstract step, which says what has to be shown of the contexts *)
(* of the slots, and last one lemma per kind of concrete step.              *)
(***************************************************************************)

\* The context of the process in slot s when its registers are f and it waits
\* for c.
Seen(s, f, c) == [pid |-> pid[s], pc |-> f.pc, a3 |-> f.a3, call |-> c]

\* Where the contexts are: in the registers, in tf_user, or one instruction
\* back in the slot.
ContextsKnown ==
    \A s \in LiveSlots :
        Context(s) = IF s # proc_running THEN Seen(s, load_context(tf[s]), "none")
                     ELSE IF at = "user" THEN Seen(s, cpu, "none")
                     ELSE Seen(s, tf_user, IF cause = "timer" THEN "none" ELSE cause)

LEMMA ContextIs == IInv /\ Serving => ContextsKnown
<1>. SUFFICES ASSUME IInv, Serving, NEW s \in LiveSlots
              PROVE  Context(s) = IF s # proc_running THEN Seen(s, load_context(tf[s]), "none")
                                  ELSE IF at = "user" THEN Seen(s, cpu, "none")
                                  ELSE Seen(s, tf_user, IF cause = "timer" THEN "none" ELSE cause)
     BY DEF ContextsKnown
<1>1. /\ status[proc_running] = "running"
      /\ s # proc_running => status[s] = "paused"
      BY RunningIsLive
<1>2. CASE s = proc_running
      BY <1>1, <1>2 DEF Context, Seen
<1>3. CASE s # proc_running
      BY <1>1, <1>3 DEF Context, Seen, load_context
<1>. QED BY <1>2, <1>3

\* What an answer, and a page fault that is served, do to a context.
AnsweredTo(c, v) == [c EXCEPT !.call = "none", !.pc = Succ(@), !.a3 = v]
Woken(c) == [c EXCEPT !.call = "none"]

LEMMA Answers ==
    ASSUME NEW c, NEW p, NEW q, NEW a, NEW w, NEW v,
           c = [pid |-> p, pc |-> q, a3 |-> a, call |-> w]
    PROVE  AnsweredTo(c, v) = [pid |-> p, pc |-> Succ(q), a3 |-> v, call |-> "none"]
<1>. DEFINE T == [pid : {p}, pc : {Succ(q)}, a3 : {v}, call : {"none"}]
<1>1. c \in [pid : {p}, pc : {q}, a3 : {a}, call : {w}]
      OBVIOUS
<1>2. AnsweredTo(c, v) \in T
      BY <1>1 DEF AnsweredTo
<1>3. \A r \in T : r = [pid |-> p, pc |-> Succ(q), a3 |-> v, call |-> "none"]
      OBVIOUS
<1>. QED BY <1>2, <1>3

LEMMA Wakes ==
    ASSUME NEW c, NEW p, NEW q, NEW a, NEW w,
           c = [pid |-> p, pc |-> q, a3 |-> a, call |-> w]
    PROVE  Woken(c) = [pid |-> p, pc |-> q, a3 |-> a, call |-> "none"]
BY DEF Woken

-----------------------------------------------------------------------------
(***************************************************************************)
(* The abstract steps.                                                      *)
(***************************************************************************)

\* The contexts, as the instance substitutes them.
Ctx == [s \in IF GoingDown THEN {} ELSE LiveSlots |-> Context(s)]

\* None: no context changes.
LEMMA MapsStutter ==
    ASSUME GoingDown' <=> GoingDown, LiveSlots' = LiveSlots,
           ~GoingDown => \A p \in LiveSlots : Context(p)' = Context(p)
    PROVE  UNCHANGED User!pvars
BY DEF User!pvars

LEMMA MapsBoot ==
    ASSUME ~GoingDown, ~GoingDown', LiveSlots = {},
           NEW t \in UserSlot, LiveSlots' = {t}, NEW p \in 0..PidBound-1,
           Context(t)' = User!Entry(p, 0)
    PROVE  User!PNext
<1>1. Ctx' = [q \in {t} |-> Context(q)'] /\ DOMAIN Ctx = {}
      BY DEF Ctx
<1>2. Ctx' = User!With(Ctx, t, User!Entry(p, 0))
      BY <1>1 DEF User!With
<1>3. User!Boot(t, p)
      BY <1>1, <1>2 DEF User!Boot, User!Live, Ctx
<1>. QED BY <1>3 DEF User!PNext

LEMMA MapsCompute ==
    ASSUME ~GoingDown, ~GoingDown', LiveSlots' = LiveSlots,
           NEW s \in LiveSlots, NEW v \in A3Value,
           Context(s).call = "none", v # Context(s).a3,
           Context(s)' = [Context(s) EXCEPT !.pc = Succ(@), !.a3 = v],
           \A p \in LiveSlots \ {s} : Context(p)' = Context(p)
    PROVE  User!PNext
<1>1. Ctx' = [p \in LiveSlots |-> Context(p)'] /\ Ctx = [p \in LiveSlots |-> Context(p)]
      BY DEF Ctx
<1>2. Ctx' = [Ctx EXCEPT ![s].pc = User!Succ(@), ![s].a3 = v]
      BY <1>1 DEF User!Succ, Succ
<1>3. User!Compute(s, v)
      BY <1>1, <1>2 DEF User!Compute, User!Live, Ctx
<1>4. s \in UserSlot
      BY DEF LiveSlots
<1>. QED BY <1>3, <1>4 DEF User!PNext

LEMMA MapsCall ==
    ASSUME ~GoingDown, ~GoingDown', LiveSlots' = LiveSlots,
           NEW s \in LiveSlots, NEW c \in Traps,
           Context(s).call = "none",
           Context(s)' = [Context(s) EXCEPT !.call = c],
           \A p \in LiveSlots \ {s} : Context(p)' = Context(p)
    PROVE  User!PNext
<1>1. Ctx' = [p \in LiveSlots |-> Context(p)'] /\ Ctx = [p \in LiveSlots |-> Context(p)]
      BY DEF Ctx
<1>2. Ctx' = [Ctx EXCEPT ![s].call = c]
      BY <1>1
<1>3. User!Call(s, c)
      BY <1>1, <1>2 DEF User!Call, User!Live, Ctx
<1>4. s \in UserSlot
      BY DEF LiveSlots
<1>. QED BY <1>3, <1>4 DEF User!PNext

LEMMA MapsAnswer ==
    ASSUME ~GoingDown, ~GoingDown', LiveSlots' = LiveSlots,
           NEW s \in LiveSlots, NEW v \in A3Value,
           v \in User!Answers(Context(s).call, Context(s).pid),
           Context(s)' = AnsweredTo(Context(s), v),
           \A p \in LiveSlots \ {s} : Context(p)' = Context(p)
    PROVE  User!PNext
<1>1. Ctx' = [p \in LiveSlots |-> Context(p)'] /\ Ctx = [p \in LiveSlots |-> Context(p)]
      BY DEF Ctx
<1>2. Ctx' = [Ctx EXCEPT ![s].call = "none", ![s].pc = User!Succ(@), ![s].a3 = v]
      BY <1>1 DEF User!Succ, Succ, AnsweredTo
<1>3. User!Answer(s, v)
      BY <1>1, <1>2 DEF User!Answer, User!Live, Ctx
<1>4. s \in UserSlot
      BY DEF LiveSlots
<1>. QED BY <1>3, <1>4 DEF User!PNext

LEMMA MapsServed ==
    ASSUME ~GoingDown, ~GoingDown', LiveSlots' = LiveSlots,
           NEW s \in LiveSlots,
           Context(s).call = "page fault",
           Context(s)' = Woken(Context(s)),
           \A p \in LiveSlots \ {s} : Context(p)' = Context(p)
    PROVE  User!PNext
<1>1. Ctx' = [p \in LiveSlots |-> Context(p)'] /\ Ctx = [p \in LiveSlots |-> Context(p)]
      BY DEF Ctx
<1>2. Ctx' = [Ctx EXCEPT ![s].call = "none"]
      BY <1>1 DEF Woken
<1>3. User!Served(s)
      BY <1>1, <1>2 DEF User!Served, User!Live, Ctx
<1>4. s \in UserSlot
      BY DEF LiveSlots
<1>. QED BY <1>3, <1>4 DEF User!PNext

LEMMA MapsExec ==
    ASSUME ~GoingDown, ~GoingDown',
           NEW s \in LiveSlots, NEW t \in UserSlot \ LiveSlots, LiveSlots' = LiveSlots \cup {t},
           NEW p \in 0..PidBound-1, NEW v \in A3Value,
           Context(s).call = "execv",
           Context(s)' = AnsweredTo(Context(s), 0),
           Context(t)' = User!Entry(p, v),
           \A q \in LiveSlots \ {s} : Context(q)' = Context(q)
    PROVE  User!PNext
<1>1. /\ Ctx' = [q \in LiveSlots \cup {t} |-> Context(q)']
      /\ Ctx = [q \in LiveSlots |-> Context(q)]
      BY DEF Ctx
<1>2. Ctx' = User!With([Ctx EXCEPT ![s].call = "none", ![s].pc = User!Succ(@), ![s].a3 = 0],
                       t, User!Entry(p, v))
      BY <1>1 DEF User!Succ, Succ, User!With, AnsweredTo
<1>3. User!Exec(s, t, p, v)
      BY <1>1, <1>2 DEF User!Exec, User!Live, Ctx
<1>4. s \in UserSlot
      BY DEF LiveSlots
<1>. QED BY <1>3, <1>4 DEF User!PNext

LEMMA MapsExit ==
    ASSUME ~GoingDown, ~GoingDown',
           NEW s \in LiveSlots, LiveSlots # {s}, LiveSlots' = LiveSlots \ {s},
           Context(s).call = "end",
           \A p \in LiveSlots \ {s} : Context(p)' = Context(p)
    PROVE  User!PNext
<1>1. /\ Ctx' = [p \in LiveSlots \ {s} |-> Context(p)']
      /\ Ctx = [p \in LiveSlots |-> Context(p)]
      BY DEF Ctx
<1>2. Ctx' = [p \in LiveSlots \ {s} |-> Ctx[p]]
      BY <1>1
<1>3. User!Exit(s)
      BY <1>1, <1>2 DEF User!Exit, User!Live, Ctx
<1>4. s \in UserSlot
      BY DEF LiveSlots
<1>. QED BY <1>3, <1>4 DEF User!PNext

LEMMA MapsPowerOff ==
    ASSUME ~GoingDown, GoingDown',
           \/ LiveSlots = {}
           \/ \E s \in LiveSlots : \/ Context(s).call \in User!Fatal
                                   \/ LiveSlots = {s} /\ Context(s).call = "end"
    PROVE  User!PNext
<1>1. Ctx = [p \in LiveSlots |-> Context(p)] /\ DOMAIN Ctx = LiveSlots
      BY DEF Ctx
<1>2. Ctx' = User!NoProcess
      BY DEF Ctx, User!NoProcess
<1>3. User!PowerOff
      BY <1>1, <1>2 DEF User!PowerOff, User!Live, Ctx
<1>. QED BY <1>3 DEF User!PNext

-----------------------------------------------------------------------------
(***************************************************************************)
(* The steps nobody sees.                                                   *)
(***************************************************************************)

\* The timer and M-mode, and the way into timer_handler.
LEMMA MachineSteps ==
    ASSUME IInv, IInv',
           TimerExpires \/ MachineTimer \/ MachineCall \/ EnterMachine \/ TimerPending
    PROVE  UNCHANGED User!pvars
<1>. USE DEF TimerExpires, MachineTimer, MachineCall, EnterMachine, TimerPending, timer
<1>1. UNCHANGED <<procs, tf, tf_user, cpu, cause>>
      OBVIOUS
<1>2. LiveSlots' = LiveSlots
      BY <1>1, ListUntouched
<1>3. GoingDown' <=> GoingDown
      BY DEF GoingDown, ecall, IInv, Requests, timer_setup, increase_timer
<1>4. ASSUME ~GoingDown, NEW p \in LiveSlots
      PROVE  Context(p)' = Context(p)
      <2>1. at' = "user" <=> at = "user"
            BY <1>4 DEF ecall, IInv, Requests, Statuses, timer_setup, increase_timer
      <2>. QED BY <1>1, <2>1 DEF Context, procs
<1>. QED BY <1>2, <1>3, <1>4, MapsStutter

\* trap_handler_s for a timer interrupt: the registers are in tf_user now.
LEMMA TimerInterruptUnseen ==
    ASSUME IInv, TimerInterrupt
    PROVE  UNCHANGED User!pvars
<1>. USE DEF TimerInterrupt, Trap
<1>1. LiveSlots' = LiveSlots
      BY ListUntouched
<1>2. ~GoingDown /\ ~GoingDown' /\ Serving
      BY DEF GoingDown, Serving, IInv, Requests
<1>3. ASSUME NEW p \in LiveSlots
      PROVE  Context(p)' = Context(p)
      BY DEF Context, procs, IInv, Causes
<1>. QED BY <1>1, <1>2, <1>3, MapsStutter

\* In U-mode after a switch: the contexts of all others are what they were, and
\* the caller's is the one its handler saved.
LEMMA SwitchContexts ==
    ASSUME IInv, IInv', at \in {"timer", "dispatch"}, NEW st, NEW fr, NEW back,
           processes_total > 1,
           proc_scheduler(st, fr, back),
           SavesOwn(fr),
           LeavesOwn(st),
           \A s \in LiveSlots \ {proc_running} : pid'[s] = pid[s]
    PROVE  /\ ~GoingDown /\ ~GoingDown'
           /\ proc_running \in LiveSlots /\ LiveSlots # {proc_running}
           /\ LiveSlots' = IF st[proc_running] = "paused" THEN LiveSlots
                                                          ELSE LiveSlots \ {proc_running}
           /\ \A s \in LiveSlots \ {proc_running} : Context(s)' = Context(s)
           /\ st[proc_running] = "paused" =>
                 \A s \in LiveSlots : s = proc_running =>
                    Context(s)' = [pid |-> pid'[s], pc |-> load_context(fr[s]).pc,
                                   a3 |-> load_context(fr[s]).a3, call |-> "none"]
<1>1. PICK t \in LiveSlots \ {proc_running} :
         /\ t \in UserSlot
         /\ st[t] = "paused" /\ status[t] = "paused" /\ fr[t] = tf[t]
         /\ proc_running' = t
         /\ status' = [st EXCEPT ![t] = "running"]
         /\ cpu' = load_context(fr[t])
         /\ tf' = [fr EXCEPT ![t] = NoFrame]
         /\ EnterUser
      BY SwitchesTo
<1>2. LiveSlots' = IF st[proc_running] = "paused" THEN LiveSlots
                                                  ELSE LiveSlots \ {proc_running}
      BY SwitchesTo
<1>3. Serving /\ proc_running \in LiveSlots /\ req = "none"
      BY InHandler, RunningIsLive
<1>4. Serving' /\ at' = "user"
      BY <1>1 DEF IInv, Requests, Serving, GoingDown, EnterUser
<1>5. ContextsKnown /\ ContextsKnown'
      <2>1. (IInv /\ Serving)' => ContextsKnown'
            BY ContextIs, PTL
      <2>. QED BY <1>3, <1>4, <2>1, ContextIs
<1>6. \A s \in LiveSlots : s \in Slot
      BY LiveFinite DEF LiveSlots
<1>7. ASSUME NEW s \in LiveSlots \ {proc_running}
      PROVE  Context(s)' = Context(s)
      <2>1. s \in LiveSlots' /\ fr[s] = tf[s] /\ fr \in [Slot -> FrameType] /\ s \in Slot
            BY <1>2, <1>6 DEF SavesOwn
      <2>2. CASE s = t
            BY <1>1, <1>4, <1>5, <2>1, <2>2 DEF ContextsKnown, Seen
      <2>3. CASE s # t
            BY <1>1, <1>5, <2>1, <2>3 DEF ContextsKnown, Seen
      <2>. QED BY <2>2, <2>3
<1>8. ASSUME st[proc_running] = "paused", NEW s \in LiveSlots, s = proc_running
      PROVE  Context(s)' = [pid |-> pid'[s], pc |-> load_context(fr[s]).pc,
                            a3 |-> load_context(fr[s]).a3, call |-> "none"]
      <2>1. s \in LiveSlots' /\ s # t /\ tf'[s] = fr[s]
            BY <1>1, <1>2, <1>6, <1>8 DEF SavesOwn
      <2>. QED BY <1>1, <1>5, <2>1 DEF ContextsKnown, Seen
<1>. QED BY <1>1, <1>2, <1>3, <1>4, <1>7, <1>8 DEF Serving

\* timer_handler: the interrupted process is shown as it was, because sepc - 4
\* in the slot and the + 4 of load_context cancel; alone, it goes on.
LEMMA TimerHandlerUnseen ==
    ASSUME IInv, IInv', TimerHandler
    PROVE  UNCHANGED User!pvars
<1>. USE DEF TimerHandler
<1>1. /\ Serving /\ tf_user \in FrameType /\ req = "none" /\ cause = "timer"
      /\ proc_running \in Slot /\ proc_running \in LiveSlots /\ processes_total # 0
      BY InHandler, RunningIsLive DEF IInv, TypeOK, Causes
<1>2. ContextsKnown
      BY <1>1, ContextIs
<1>3. CASE processes_total > 1
      <2>. DEFINE st == [status EXCEPT ![proc_running] = "paused"]
                  f == [tf_user EXCEPT !.pc = Pred(@)]
                  fr == proc_copy_frame(f)
      <2>1. /\ f \in FrameType /\ f.a3 = tf_user.a3 /\ f.pc = Pred(tf_user.pc)
            /\ Succ(f.pc) = tf_user.pc
            BY <1>1, FramesTyped, ProgramCounters DEF FrameType
      <2>2. SavesOwn(fr) /\ fr[proc_running] = f /\ st[proc_running] = "paused"
            BY <1>1, <2>1 DEF SavesOwn, proc_copy_frame, IInv, TypeOK
      <2>3. proc_scheduler(st, fr, tf_user) /\ pid' = pid
            BY <1>3
      <2>4. /\ ~GoingDown /\ ~GoingDown' /\ LiveSlots' = LiveSlots
            /\ \A s \in LiveSlots \ {proc_running} : Context(s)' = Context(s)
            /\ \A s \in LiveSlots : s = proc_running =>
                  Context(s)' = [pid |-> pid'[s], pc |-> load_context(fr[s]).pc,
                                 a3 |-> load_context(fr[s]).a3, call |-> "none"]
            BY <1>3, <2>2, <2>3, SwitchContexts DEF LeavesOwn
      <2>5. load_context(f).pc = tf_user.pc /\ load_context(f).a3 = tf_user.a3
            BY <2>1 DEF load_context, FrameType
      <2>6. ASSUME NEW s \in LiveSlots
            PROVE  Context(s)' = Context(s)
            <3>1. CASE s = proc_running
                  BY <1>1, <1>2, <2>2, <2>3, <2>4, <2>5, <3>1 DEF ContextsKnown, Seen
            <3>. QED BY <2>4, <3>1
      <2>. QED BY <2>4, <2>6, MapsStutter
<1>4. CASE ~(processes_total > 1)
      <2>1. Retry /\ UNCHANGED <<status, proc_running, tf, pid, req>>
            BY <1>1, <1>4
      <2>2. LiveSlots' = LiveSlots /\ at' = "user" /\ cpu' = tf_user
            BY <2>1 DEF LiveSlots, Retry, ReturnTo, EnterUser
      <2>3. ~GoingDown /\ ~GoingDown'
            BY <1>1, <2>2 DEF GoingDown, Serving
      <2>4. ASSUME NEW s \in LiveSlots
            PROVE  Context(s)' = Context(s)
            BY <1>1, <2>1, <2>2 DEF Context
      <2>. QED BY <2>2, <2>3, <2>4, MapsStutter
<1>. QED BY <1>3, <1>4

-----------------------------------------------------------------------------
(***************************************************************************)
(* The steps of programs, and their calls.                                  *)
(***************************************************************************)

\* In a handler of scall_handler the running process is the one that waits,
\* for the call it made; the others wait for nothing.
LEMMA AtDispatch ==
    ASSUME IInv, at = "dispatch"
    PROVE  /\ Serving /\ ~GoingDown
           /\ proc_running \in LiveSlots /\ proc_running \in Slot
           /\ tf_user \in FrameType /\ tf_user.a3 \in A3Value /\ req = "none"
           /\ Context(proc_running) = Seen(proc_running, tf_user, cause)
           /\ ContextsKnown
<1>1. /\ Serving /\ req = "none" /\ tf_user \in FrameType /\ tf_user.a3 \in A3Value
      /\ proc_running \in LiveSlots /\ cause # "timer" /\ proc_running \in Slot
      BY InHandler, RunningIsLive, KernelAssumption
         DEF IInv, TypeOK, Causes, Syscalls, Faults
<1>2. ContextsKnown
      BY <1>1, ContextIs
<1>. QED BY <1>1, <1>2 DEF ContextsKnown, Serving

\* An instruction of the running process.
LEMMA UserComputeRefines ==
    ASSUME IInv, UserCompute
    PROVE  User!PNext
<1>. USE DEF UserCompute, InUser, procs
<1>1. /\ Serving /\ ~GoingDown /\ ~GoingDown' /\ LiveSlots' = LiveSlots
      BY DEF IInv, Requests, Serving, GoingDown, LiveSlots
<1>2. proc_running \in LiveSlots /\ ContextsKnown
      BY <1>1, RunningIsLive, ContextIs
<1>3. PICK r \in LiveSlots : r = proc_running
      BY <1>2
<1>4. PICK v \in UserValues : v # cpu.a3 /\ cpu' = [cpu EXCEPT !.pc = Succ(@), !.a3 = v]
      OBVIOUS
<1>5. Context(r) = Seen(r, cpu, "none")
      BY <1>2, <1>3 DEF ContextsKnown
<1>6. \A s \in LiveSlots : Context(s)' =
         IF s = r THEN [Context(s) EXCEPT !.pc = Succ(@), !.a3 = v] ELSE Context(s)
      <2>1. cpu'.pc = Succ(cpu.pc) /\ cpu'.a3 = v
            BY <1>4 DEF IInv, TypeOK, FrameType
      <2>2. status[r] = "running" /\ \A s \in LiveSlots \ {r} : status[s] = "paused"
            BY <1>1, <1>3, RunningIsLive
      <2>. QED BY <2>1, <2>2 DEF Context
<1>7. v \in A3Value
      BY FramesTyped
<1>8. v # Context(r).a3 /\ Context(r).call = "none"
      BY <1>4, <1>5 DEF Seen
<1>9. /\ Context(r)' = [Context(r) EXCEPT !.pc = Succ(@), !.a3 = v]
      /\ \A s \in LiveSlots \ {r} : Context(s)' = Context(s)
      BY <1>6
<1>. QED BY ONLY <1>1, <1>7, <1>8, <1>9, MapsCompute

\* A call or a fault of the running process.
LEMMA UserTrapRefines ==
    ASSUME IInv, NEW c \in Traps, UserTrap(c)
    PROVE  User!PNext
<1>. USE DEF UserTrap, InUser, Trap, procs
<1>1. /\ Serving /\ ~GoingDown /\ ~GoingDown' /\ LiveSlots' = LiveSlots
      BY DEF IInv, Requests, Serving, GoingDown, LiveSlots
<1>2. proc_running \in LiveSlots /\ ContextsKnown /\ c # "timer"
      BY <1>1, RunningIsLive, ContextIs, KernelAssumption DEF Syscalls, Faults
<1>3. PICK r \in LiveSlots : r = proc_running
      BY <1>2
<1>4. Context(r) = Seen(r, cpu, "none")
      BY <1>2, <1>3 DEF ContextsKnown
<1>5. \A s \in LiveSlots : Context(s)' =
         IF s = r THEN [Context(s) EXCEPT !.call = c] ELSE Context(s)
      <2>1. status[r] = "running" /\ \A s \in LiveSlots \ {r} : status[s] = "paused"
            BY <1>1, <1>3, RunningIsLive
      <2>. QED BY <1>2, <2>1 DEF Context
<1>6. /\ Context(r).call = "none" /\ Context(r)' = [Context(r) EXCEPT !.call = c]
      /\ \A s \in LiveSlots \ {r} : Context(s)' = Context(s)
      BY <1>4, <1>5 DEF Seen
<1>. QED BY ONLY <1>1, <1>6, MapsCall

\* A handler that returns to its caller with the result v: sepc is moved behind
\* the ecall, and only a3 is written.
LEMMA AnsweredRefines ==
    ASSUME IInv, at = "dispatch", NEW v \in A3Value, ReturnTo(Answered(v)),
           v \in User!Answers(cause, pid[proc_running]),
           UNCHANGED <<status, proc_running, req>>, SavesOwn(tf'),
           \A s \in LiveSlots : pid'[s] = pid[s]
    PROVE  User!PNext
<1>1. /\ Serving /\ ~GoingDown /\ proc_running \in LiveSlots /\ req = "none"
      /\ tf_user \in FrameType /\ ContextsKnown
      /\ cause # "timer"
      BY AtDispatch, KernelAssumption DEF IInv, Causes, Syscalls, Faults
<1>2. PICK r \in LiveSlots : r = proc_running
      BY <1>1
<1>3. Context(r) = Seen(r, tf_user, cause)
      BY <1>1, <1>2 DEF ContextsKnown
<1>4. at' = "user" /\ cpu' = Answered(v) /\ LiveSlots' = LiveSlots
      BY DEF ReturnTo, EnterUser, LiveSlots
<1>5. cpu'.pc = Succ(tf_user.pc) /\ cpu'.a3 = v
      BY <1>1, <1>4 DEF Answered, FrameType
<1>6. ~GoingDown'
      BY <1>4 DEF GoingDown
<1>7. status[r] = "running" /\ \A s \in LiveSlots \ {r} : status[s] = "paused" /\ tf'[s] = tf[s]
      BY <1>1, <1>2, RunningIsLive, LiveFinite DEF SavesOwn, LiveSlots
<1>8. \A s \in LiveSlots \ {r} : Context(s)' = Context(s)
      BY <1>7 DEF Context
<1>9. Context(r)' = AnsweredTo(Context(r), v)
      <2>1. Context(r)' = [pid |-> pid[r], pc |-> Succ(tf_user.pc), a3 |-> v, call |-> "none"]
            BY <1>4, <1>5, <1>7 DEF Context
      <2>2. Context(r) = [pid |-> pid[r], pc |-> tf_user.pc, a3 |-> tf_user.a3, call |-> cause]
            BY <1>3 DEF Seen
      <2>3. AnsweredTo(Context(r), v)
               = [pid |-> pid[r], pc |-> Succ(tf_user.pc), a3 |-> v, call |-> "none"]
            BY ONLY <2>2, Answers
      <2>. QED BY <2>1, <2>3
<1>10. v \in User!Answers(Context(r).call, Context(r).pid)
      BY <1>2, <1>3 DEF Seen
<1>. QED BY ONLY v \in A3Value, <1>1, <1>4, <1>6, <1>8, <1>9, <1>10, MapsAnswer

\* print, getpid, timerstatus and mmap.
LEMMA ResultsRefine ==
    ASSUME IInv, \/ scall_handler_print \/ scall_handler_getpid
                 \/ scall_handler_timerstatus \/ scall_handler_mmap
    PROVE  User!PNext
<1>. USE DEF Dispatch
<1>1. SUFFICES \E v \in A3Value : /\ at = "dispatch" /\ Result(v)
                                  /\ v \in User!Answers(cause, pid[proc_running])
      BY AnsweredRefines DEF Result, procs, SavesOwn, IInv, TypeOK
<1>2. pid[proc_running] \in A3Value /\ timer_check \in {0, 1} /\ timer_check \in A3Value
      BY FramesTyped DEF IInv, TypeOK
<1>3. CASE scall_handler_print
      BY <1>3, FramesTyped DEF scall_handler_print, User!Answers
<1>4. CASE scall_handler_getpid
      BY <1>2, <1>4 DEF scall_handler_getpid, User!Answers
<1>5. CASE scall_handler_timerstatus
      BY <1>2, <1>5 DEF scall_handler_timerstatus, User!Answers
<1>6. CASE scall_handler_mmap
      BY <1>6, FramesTyped DEF scall_handler_mmap, User!Answers
<1>. QED BY <1>3, <1>4, <1>5, <1>6

\* A page fault that is served: the process does not notice.
LEMMA SoftPageFaultRefines ==
    ASSUME IInv, SoftPageFault
    PROVE  User!PNext
<1>. USE DEF SoftPageFault, Dispatch, Retry, ReturnTo, EnterUser, procs
<1>1. /\ Serving /\ ~GoingDown /\ proc_running \in LiveSlots /\ ContextsKnown
      BY AtDispatch
<1>2. PICK r \in LiveSlots : r = proc_running
      BY <1>1
<1>3. Context(r) = Seen(r, tf_user, "page fault")
      BY <1>1, <1>2 DEF ContextsKnown
<1>4. LiveSlots' = LiveSlots /\ ~GoingDown'
      BY DEF LiveSlots, GoingDown
<1>5. status[r] = "running" /\ \A s \in LiveSlots \ {r} : status[s] = "paused"
      BY <1>1, <1>2, RunningIsLive
<1>6. \A s \in LiveSlots \ {r} : Context(s)' = Context(s)
      BY <1>5 DEF Context
<1>7. Context(r)' = Woken(Context(r))
      <2>1. Context(r)' = [pid |-> pid[r], pc |-> tf_user.pc, a3 |-> tf_user.a3, call |-> "none"]
            BY <1>5 DEF Context
      <2>2. Context(r) = [pid |-> pid[r], pc |-> tf_user.pc, a3 |-> tf_user.a3, call |-> cause]
            BY <1>3 DEF Seen
      <2>3. Woken(Context(r))
                = [pid |-> pid[r], pc |-> tf_user.pc, a3 |-> tf_user.a3, call |-> "none"]
            BY ONLY <2>2, Wakes
      <2>. QED BY ONLY <2>1, <2>3
<1>8. Context(r).call = "page fault"
      BY <1>5 DEF Context
<1>. QED BY ONLY <1>1, <1>4, <1>6, <1>7, <1>8, MapsServed

\* yield: the caller's frame waits in its slot with -1 in a3, and load_context
\* will resume it behind the call.
LEMMA YieldRefines ==
    ASSUME IInv, IInv', scall_handler_yield
    PROVE  User!PNext
<1>. USE DEF scall_handler_yield, Dispatch
<1>1. /\ proc_running \in LiveSlots /\ ContextsKnown /\ proc_running \in Slot
      /\ tf_user \in FrameType /\ cause = "yield" /\ processes_total \in Nat
      BY AtDispatch DEF IInv, TypeOK
<1>2. -1 \in A3Value /\ -1 \in User!Answers(cause, pid[proc_running])
      BY <1>1, FramesTyped DEF User!Answers
<1>3. CASE processes_total > 1
      <2>. DEFINE st == [status EXCEPT ![proc_running] = "paused"]
                  f == [tf_user EXCEPT !.a3 = -1]
                  fr == proc_copy_frame(f)
      <2>1. f \in FrameType /\ f.a3 = -1 /\ f.pc = tf_user.pc
            BY <1>1, FramesTyped DEF FrameType
      <2>2. SavesOwn(fr) /\ fr[proc_running] = f /\ st[proc_running] = "paused"
            BY <1>1, <2>1 DEF SavesOwn, proc_copy_frame, IInv, TypeOK
      <2>3. proc_scheduler(st, fr, Answered(-1)) /\ pid' = pid /\ LeavesOwn(st)
            BY <1>1, <1>3 DEF LeavesOwn
      <2>4. /\ ~GoingDown /\ ~GoingDown' /\ LiveSlots' = LiveSlots
            /\ \A s \in LiveSlots \ {proc_running} : Context(s)' = Context(s)
            /\ \A s \in LiveSlots : s = proc_running =>
                  Context(s)' = [pid |-> pid'[s], pc |-> load_context(fr[s]).pc,
                                 a3 |-> load_context(fr[s]).a3, call |-> "none"]
            BY <1>3, <2>2, <2>3, SwitchContexts
      <2>5. load_context(f).pc = Succ(tf_user.pc) /\ load_context(f).a3 = -1
            BY <2>1 DEF load_context, FrameType
      <2>6. PICK r \in LiveSlots : r = proc_running
            BY <1>1
      <2>7. Context(r) = Seen(r, tf_user, cause)
            BY <1>1, <2>6 DEF ContextsKnown
      <2>8. Context(r)' = AnsweredTo(Context(r), -1)
            <3>1. Context(r)' = [pid |-> pid[r], pc |-> Succ(tf_user.pc), a3 |-> -1,
                                 call |-> "none"]
                  BY <2>2, <2>3, <2>4, <2>5, <2>6
            <3>2. Context(r) = [pid |-> pid[r], pc |-> tf_user.pc, a3 |-> tf_user.a3,
                                call |-> cause]
                  BY <2>7 DEF Seen
            <3>3. AnsweredTo(Context(r), -1)
                     = [pid |-> pid[r], pc |-> Succ(tf_user.pc), a3 |-> -1, call |-> "none"]
                  BY ONLY <3>2, Answers
            <3>. QED BY ONLY <3>1, <3>3
      <2>9. -1 \in User!Answers(Context(r).call, Context(r).pid)
            BY <1>2, <2>6, <2>7 DEF Seen
      <2>10. \A s \in LiveSlots \ {r} : Context(s)' = Context(s)
            BY <2>4, <2>6
      <2>. QED BY ONLY <1>2, <2>4, <2>8, <2>9, <2>10, MapsAnswer
<1>4. CASE processes_total <= 1
      <2>1. /\ at = "dispatch" /\ ReturnTo(Answered(-1))
            /\ UNCHANGED <<status, proc_running, req, tf, pid>>
            BY <1>4
      <2>2. SavesOwn(tf')
            BY <2>1 DEF SavesOwn, IInv, TypeOK
      <2>. QED BY <1>2, <2>1, <2>2, AnsweredRefines
<1>. QED BY <1>1, <1>3, <1>4

\* end: one context less, and no other is touched; with no other the machine
\* stops.
LEMMA EndRefines ==
    ASSUME IInv, IInv', scall_handler_end
    PROVE  User!PNext
<1>. USE DEF scall_handler_end, Dispatch
<1>1. /\ ~GoingDown /\ proc_running \in LiveSlots /\ ContextsKnown /\ cause = "end"
      /\ processes_total \in Nat \ {0} /\ processes_total = 1 <=> LiveSlots = {proc_running}
      BY AtDispatch, RunningIsLive
<1>2. PICK r \in LiveSlots : r = proc_running
      BY <1>1
<1>3. Context(r).call = "end"
      <2>1. Context(r) = Seen(r, tf_user, cause) /\ at # "user"
            BY AtDispatch, <1>2
      <2>. QED BY <1>1, <2>1 DEF Seen
<1>4. CASE processes_total = 1
      <2>1. GoingDown' /\ LiveSlots = {r}
            BY <1>1, <1>2, <1>4 DEF GoingDown, Halt, ecall
      <2>. QED BY <1>1, <1>3, <2>1, MapsPowerOff
<1>5. CASE processes_total # 1
      <2>. DEFINE st == [status EXCEPT ![proc_running] = "free"]
      <2>1. /\ processes_total > 1 /\ at \in {"timer", "dispatch"}
            /\ SavesOwn(tf) /\ LeavesOwn(st)
            /\ proc_scheduler(st, tf, Answered(-1)) /\ st[proc_running] # "paused"
            BY <1>1, <1>5, LiveFinite DEF SavesOwn, LeavesOwn, IInv, TypeOK, LiveSlots
      <2>2. \A s \in LiveSlots \ {proc_running} : pid'[s] = pid[s]
            BY LiveFinite DEF proc_kill_process, IInv, TypeOK, LiveSlots
      <2>3. /\ ~GoingDown /\ ~GoingDown'
            /\ LiveSlots # {proc_running} /\ LiveSlots' = LiveSlots \ {proc_running}
            /\ \A s \in LiveSlots \ {proc_running} : Context(s)' = Context(s)
            BY <2>1, <2>2, SwitchContexts
      <2>. QED BY <1>2, <1>3, <2>3, MapsExit
<1>. QED BY <1>4, <1>5

\* A start that does not fail: U-mode is entered at the entry point of the new
\* process, and every other process is paused.
LEMMA StartContexts ==
    ASSUME IInv, IInv', NEW t \in UserSlot, NEW v, NEW st, Start(t, v, st),
           \/ at = "boot" /\ st = status
           \/ /\ at \in {"timer", "dispatch"}
              /\ st = [status EXCEPT ![proc_running] = "paused"]
    PROVE  /\ ~GoingDown' /\ t \notin LiveSlots /\ LiveSlots' = LiveSlots \cup {t}
           /\ Context(t)' = User!Entry(last_pid, v)
           /\ \A s \in LiveSlots :
                 Context(s)' = [pid |-> pid[s], pc |-> load_context(tf'[s]).pc,
                                a3 |-> load_context(tf'[s]).a3, call |-> "none"]
<1>1. /\ t \notin LiveSlots /\ LiveSlots' = LiveSlots \cup {t} /\ pid'[t] = last_pid
      /\ \A s \in LiveSlots : pid'[s] = pid[s]
      BY StartsIn
<1>2. proc_running' = t /\ cpu' = Frame(0, v, t) /\ at' = "user"
      BY DEF Start, EnterUser
<1>3. Serving' /\ ~GoingDown'
      BY <1>2 DEF IInv, Requests, Serving, GoingDown
<1>4. ContextsKnown'
      <2>1. (IInv /\ Serving)' => ContextsKnown'
            BY ContextIs, PTL
      <2>. QED BY <1>3, <2>1
<1>5. Context(t)' = User!Entry(last_pid, v)
      <2>1. Context(t)' = Seen(t, cpu, "none")'
            BY <1>1, <1>2, <1>4 DEF ContextsKnown
      <2>2. cpu'.pc = 0 /\ cpu'.a3 = v
            BY <1>2 DEF Frame
      <2>. QED BY <1>1, <2>1, <2>2 DEF Seen, User!Entry
<1>6. ASSUME NEW s \in LiveSlots
      PROVE  Context(s)' = [pid |-> pid[s], pc |-> load_context(tf'[s]).pc,
                            a3 |-> load_context(tf'[s]).a3, call |-> "none"]
      <2>1. s # t /\ s \in LiveSlots'
            BY <1>1
      <2>2. Context(s)' = Seen(s, load_context(tf[s]), "none")'
            BY <1>2, <1>4, <2>1 DEF ContextsKnown
      <2>. QED BY <1>1, <2>2 DEF Seen
<1>. QED BY <1>1, <1>3, <1>5, <1>6

\* execv: the caller's frame waits in its slot with 0 in a3, and the new
\* process is entered; or the caller gets -1.
LEMMA ExecvRefines ==
    ASSUME IInv, IInv', scall_handler_execv
    PROVE  User!PNext
<1>. USE DEF scall_handler_execv, Dispatch
<1>. DEFINE f == [tf_user EXCEPT !.a3 = 0]
            st == [status EXCEPT ![proc_running] = "paused"]
<1>1. /\ ~GoingDown /\ proc_running \in LiveSlots /\ proc_running \in Slot
      /\ ContextsKnown /\ tf_user \in FrameType /\ cause = "execv"
      BY AtDispatch
<1>2. f \in FrameType /\ f.a3 = 0 /\ f.pc = tf_user.pc
      BY <1>1, FramesTyped DEF FrameType
<1>3. tf' = [tf EXCEPT ![proc_running] = f] /\ SavesOwn(tf') /\ tf'[proc_running] = f
      BY <1>1, <1>2 DEF SavesOwn, proc_copy_frame, IInv, TypeOK
<1>4. PICK r \in LiveSlots : r = proc_running
      BY <1>1
<1>5. Context(r) = Seen(r, tf_user, cause)
      <2>1. at # "user" /\ cause # "timer"
            BY <1>1
      <2>. QED BY <1>1, <1>4, <2>1 DEF ContextsKnown
<1>6. ASSUME NEW t \in UserSlot, NEW v \in UserValues, Start(t, v, st)
      PROVE  User!PNext
      <2>1. /\ ~GoingDown' /\ t \notin LiveSlots /\ LiveSlots' = LiveSlots \cup {t}
            /\ Context(t)' = User!Entry(last_pid, v)
            /\ \A s \in LiveSlots :
                  Context(s)' = [pid |-> pid[s], pc |-> load_context(tf'[s]).pc,
                                 a3 |-> load_context(tf'[s]).a3, call |-> "none"]
            BY <1>6, StartContexts
      <2>2. v \in A3Value /\ last_pid \in 0..PidBound-1
            BY FramesTyped DEF IInv, TypeOK
      <2>3. Context(r)' = AnsweredTo(Context(r), 0)
            <3>1. load_context(f).pc = Succ(tf_user.pc) /\ load_context(f).a3 = 0
                  BY <1>2 DEF load_context, FrameType
            <3>2. Context(r)' = [pid |-> pid[r], pc |-> Succ(tf_user.pc), a3 |-> 0,
                                 call |-> "none"]
                  BY <1>3, <1>4, <2>1, <3>1
            <3>3. Context(r) = [pid |-> pid[r], pc |-> tf_user.pc, a3 |-> tf_user.a3,
                                call |-> cause]
                  BY <1>5 DEF Seen
            <3>4. AnsweredTo(Context(r), 0)
                     = [pid |-> pid[r], pc |-> Succ(tf_user.pc), a3 |-> 0, call |-> "none"]
                  BY ONLY <3>3, Answers
            <3>. QED BY ONLY <3>2, <3>4
      <2>4. Context(r).call = "execv"
            BY <1>1, <1>5 DEF Seen
      <2>5. ASSUME NEW s \in LiveSlots \ {r}
            PROVE  Context(s)' = Context(s)
            <3>1. Context(s) = Seen(s, load_context(tf[s]), "none")
                  BY <1>1, <1>4 DEF ContextsKnown
            <3>2. tf'[s] = tf[s]
                  BY <1>3, <1>4, LiveFinite DEF SavesOwn, LiveSlots
            <3>. QED BY <2>1, <3>1, <3>2 DEF Seen
      <2>. QED BY ONLY t \in UserSlot, <1>1, <2>1, <2>2, <2>3, <2>4, <2>5, MapsExec
<1>7. CASE StartFails /\ ReturnTo(Answered(-1)) /\ UNCHANGED req
      <2>1. -1 \in A3Value /\ -1 \in User!Answers(cause, pid[proc_running])
            BY <1>1, FramesTyped DEF User!Answers
      <2>2. /\ at = "dispatch" /\ UNCHANGED <<status, proc_running, req>>
            /\ \A s \in LiveSlots : pid'[s] = pid[s]
            BY <1>7, StartFailsKeeps
      <2>. QED BY <1>3, <1>7, <2>1, <2>2, AnsweredRefines
<1>. QED BY <1>6, <1>7

\* main's start of the first process, or its end.
LEMMA BootProcessRefines ==
    ASSUME IInv, IInv', BootProcess
    PROVE  User!PNext
<1>. USE DEF BootProcess
<1>1. ~GoingDown /\ LiveSlots = {}
      BY DEF GoingDown, IInv, Statuses
<1>2. ASSUME NEW t \in UserSlot, Start(t, 0, status)
      PROVE  User!PNext
      <2>1. /\ ~GoingDown' /\ LiveSlots' = {t}
            /\ Context(t)' = User!Entry(last_pid, 0)
            BY <1>1, <1>2, StartContexts
      <2>2. last_pid \in 0..PidBound-1
            BY DEF IInv, TypeOK
      <2>. QED BY <1>1, <2>1, <2>2, MapsBoot
<1>3. CASE StartFails /\ Halt
      <2>1. GoingDown'
            BY <1>3 DEF Halt, ecall, GoingDown
      <2>. QED BY <1>1, <2>1, MapsPowerOff
<1>. QED BY <1>2, <1>3

\* hlt, an unknown call and an unknown application: the machine stops because
\* of the running process.
LEMMA DiesRefine ==
    ASSUME IInv, ExecvUnknown \/ scall_handler_unknown \/ Die
    PROVE  User!PNext
<1>. USE DEF ExecvUnknown, scall_handler_unknown, Die, Dispatch
<1>1. /\ at = "dispatch" /\ Halt
      /\ cause \in {"page fault", "illegal instruction", "no such app", "unknown call"}
      BY DEF Faults
<1>2. ~GoingDown /\ GoingDown'
      BY <1>1 DEF GoingDown, Halt, ecall
<1>3. proc_running \in LiveSlots /\ Context(proc_running) = Seen(proc_running, tf_user, cause)
      BY <1>1, AtDispatch
<1>4. \E s \in LiveSlots : Context(s).call \in User!Fatal
      <2>1. Seen(proc_running, tf_user, cause).call = cause
            BY DEF Seen
      <2>. QED BY <1>1, <1>3, <2>1 DEF User!Fatal
<1>. QED BY <1>2, <1>4, MapsPowerOff

-----------------------------------------------------------------------------
\* Before the first process there is no context.
LEMMA InitRefines == Init => User!PInit
<1>. SUFFICES ASSUME Init PROVE User!PInit
     OBVIOUS
<1>1. ~GoingDown
      BY DEF Init, GoingDown
<1>2. LiveSlots = {}
      BY InitIInv DEF Init, IInv, Statuses
<1>. QED BY <1>1, <1>2 DEF User!PInit, User!NoProcess

\* Interrupts, traps and context switches are invisible to programs, and a call
\* changes nothing of its caller but a3 and nothing of the others: for every
\* number of slots, every mix of calls and every time the timer may expire.
THEOREM KernelImplementsProcesses == Spec => ImplementsProcesses
<1>1. IInv /\ IInv' /\ [Next]_vars => [User!PNext]_(User!pvars)
      <2>. SUFFICES ASSUME IInv, IInv', [Next]_vars
                    PROVE  User!PNext \/ UNCHANGED User!pvars
           OBVIOUS
      <2>1. CASE TimerExpires \/ MachineTimer \/ MachineCall \/ EnterMachine \/ TimerPending
            BY <2>1, MachineSteps
      <2>2. CASE UserCompute
            BY <2>2, UserComputeRefines
      <2>3. ASSUME NEW c \in Traps, UserTrap(c) PROVE User!PNext
            BY <2>3, UserTrapRefines
      <2>4. CASE TimerInterrupt
            BY <2>4, TimerInterruptUnseen
      <2>5. CASE TimerHandler
            BY <2>5, TimerHandlerUnseen
      <2>6. CASE BootProcess
            BY <2>6, BootProcessRefines
      <2>7. CASE Scall
            BY <2>7, ResultsRefine, EndRefines, ExecvRefines, YieldRefines, DiesRefine,
               SoftPageFaultRefines DEF Scall
      <2>8. CASE Off \/ UNCHANGED vars
            <3>1. UNCHANGED <<status, pid, tf, tf_user, cpu, at, cause, req>>
                  BY <2>8 DEF Off, vars, procs
            <3>2. LiveSlots' = LiveSlots /\ (GoingDown' <=> GoingDown)
                  BY <3>1 DEF LiveSlots, GoingDown
            <3>3. \A s \in LiveSlots : Context(s)' = Context(s)
                  BY <3>1 DEF Context
            <3>. QED BY <3>2, <3>3, MapsStutter
      <2>. QED BY <2>1, <2>2, <2>3, <2>4, <2>5, <2>6, <2>7, <2>8 DEF Next, SupervisorStep
<1>. QED BY <1>1, InitRefines, KernelInvariant, PTL DEF Spec, ImplementsProcesses, User!PSpec
=============================================================================
