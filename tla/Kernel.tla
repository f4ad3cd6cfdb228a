------------------------------- MODULE Kernel -------------------------------
(***************************************************************************)
(* Processes, traps, system calls, scheduler and timer of Jake:             *)
(* src/kernel/process.c, exception.c, timer.c and trap.S, on one hart.      *)
(*                                                                          *)
(* The hart is at one of these places (variable at):                        *)
(*   "user"      in U-mode, in the process proc_running                     *)
(*   "scall"     in S-mode, trap_handler_s has saved the frame tf_user and  *)
(*               scall is about to look for a pending timer                 *)
(*   "ecall"     in S-mode, about to execute ecall for the request req      *)
(*   "mcall"     in M-mode, mcall is about to read mip                      *)
(*   "timer"     in S-mode, timer_handler after ecall_disable_tint          *)
(*   "dispatch"  in S-mode, scall about to act on the cause of the trap     *)
(*   "boot"      in S-mode, main about to start the first process           *)
(*   "off"       powered off                                                *)
(* The machine timer can expire at any of them.                             *)
(*                                                                          *)
(* Of the registers a program has, the model keeps pc and a3, the one that  *)
(* system calls write; the others are saved and restored with them.  A      *)
(* program counter counts instructions (4 bytes) modulo PcBound.  An        *)
(* address space is named by the slot whose page table it is.               *)
(*                                                                          *)
(* A definition marked "Slip:" is a wrong version of the one below it, the  *)
(* kind of mistake that is easily made there.  Nothing uses it; the         *)
(* mutation tests put it in the other's place and expect a violation.       *)
(***************************************************************************)
EXTENDS Integers, FiniteSets

CONSTANTS
    MaxProcesses,    \* MAX_PROCESSES
    PidBound,        \* 2^32: last_pid is an unsigned int
    MaxStarts,       \* bound: no process is started once last_pid reaches it
    PcBound,         \* bound: program counters wrap here
    UserValues,      \* bound: what a program itself puts into a3
    Traps            \* bound: the system calls and faults of the programs

\* The system calls and exceptions a program can trap with.
Syscalls == {"print", "end", "execv", "no such app", "yield", "getpid", "mmap",
             "timerstatus", "unknown call"}
Faults == {"page fault", "illegal instruction"}

ASSUME KernelAssumption ==
    /\ MaxProcesses \in Nat /\ MaxProcesses >= 2
    /\ PidBound \in Nat \ {0}
    /\ MaxStarts \in Nat
    /\ PcBound \in Nat \ {0}
    /\ UserValues \subseteq Int /\ 0 \in UserValues
    /\ Traps \subseteq Syscalls \cup Faults

VARIABLES
    status,            \* process_list[].status
    pid,               \* process_list[].pid
    satp,              \* process_list[].satp
    tf,                \* process_list[].tf
    proc_running,
    processes_total,
    last_pid,
    tf_user,           \* the trap frame on the kernel stack
    cpu,               \* the registers: pc and a3 in U-mode, satp always
    at,                \* where the hart is
    cause,             \* the trap S-mode serves: scause, a0 for a system call
    req,               \* the ecall M-mode serves: its a0
    mtip,              \* mip.MTIP, the machine timer has expired
    stip,              \* mip.STIP, the timer interrupt forwarded to S-mode
    armed,             \* timer_setup has enabled the timer
    timer_check

procs == <<status, pid, satp, proc_running, processes_total, last_pid>>
timer == <<mtip, stip, armed, timer_check>>
vars  == <<procs, tf, tf_user, cpu, at, cause, req, timer>>

Slot == 0..MaxProcesses-1

\* Slot 0 is reserved for the kernel; processes live in the others.
UserSlot == 1..MaxProcesses-1

KernelSpace == 0
NoSpace == MaxProcesses         \* satp = 0 after proc_kill_process

Succ(pc) == (pc + 1) % PcBound
Pred(pc) == (pc - 1) % PcBound

Frame(pc, a3, space) == [pc |-> pc, a3 |-> a3, satp |-> space]

\* What is in a frame that holds no context.
NoFrame == Frame(0, 0, NoSpace)


(***************************************************************************)
(* proc_init_process_list, the initial values of the globals, and main up   *)
(* to ecall_timer_setup.                                                    *)
(***************************************************************************)
Init ==
    /\ status = [s \in Slot |-> IF s = 0 THEN "reserved" ELSE "free"]
    /\ pid = [s \in Slot |-> 0]
    /\ satp = [s \in Slot |-> IF s = 0 THEN KernelSpace ELSE NoSpace]
    /\ tf = [s \in Slot |-> NoFrame]
    /\ proc_running = 0
    /\ processes_total = 0
    /\ last_pid = 0
    /\ tf_user = NoFrame
    /\ cpu = Frame(0, 0, KernelSpace)
    /\ at = "ecall" /\ req = "setup"
    /\ cause = "none"
    /\ mtip = FALSE /\ stip = FALSE /\ armed = FALSE
    /\ timer_check = 0

(***************************************************************************)
(* The timer, and M-mode: mcall.                                            *)
(***************************************************************************)

\* mtime passes mtimecmp.
TimerExpires ==
    /\ armed /\ ~mtip /\ at # "off"
    /\ mtip' = TRUE
    /\ UNCHANGED <<procs, tf, tf_user, cpu, at, cause, req, stip, armed, timer_check>>

\* The comparison register is set a period ahead of mtime.
increase_timer == mtip' = FALSE

timer_setup == armed' = TRUE /\ increase_timer

\* ecall_timer_setup, ecall_disable_tint and ecall_poweroff, by the request r:
\* the next instruction is ecall.
ecall(r) == at' = "ecall" /\ req' = r

\* Slip: the forwarded interrupt is overwritten by the next tick.
TickOverwrites ==
    /\ mtip /\ at \notin {"mcall", "off"}
    /\ mtip' = FALSE
    /\ stip' = (at = "user")
    /\ UNCHANGED <<procs, tf, tf_user, cpu, at, cause, req, armed, timer_check>>

\* Slip: increase_timer is not called.
TickStays ==
    /\ mtip /\ at \notin {"mcall", "off"}
    /\ stip' = (stip \/ at = "user")
    /\ UNCHANGED <<procs, tf, tf_user, cpu, at, cause, req, mtip, armed, timer_check>>

\* mcall for a timer interrupt: increase_timer, and forward it to S-mode if it
\* came from U-mode (mpp = 0, and then spp = 0).  One that comes in S-mode is
\* dropped.
MachineTimer ==
    /\ mtip /\ at \notin {"mcall", "off"}
    /\ increase_timer
    /\ stip' = (stip \/ at = "user")
    /\ UNCHANGED <<procs, tf, tf_user, cpu, at, cause, req, armed, timer_check>>

\* The ecall instruction of S-mode: trap_handler saves the registers and calls
\* mcall.  Interrupts come first.
EnterMachine ==
    /\ at = "ecall" /\ ~mtip
    /\ at' = "mcall"
    /\ UNCHANGED <<procs, tf, tf_user, cpu, cause, req, timer>>

\* mcall for an ecall.  If the timer has expired meanwhile only that is
\* handled; mepc is not moved, so the ecall is executed again.
MachineCall ==
    /\ at = "mcall"
    /\ \/ /\ mtip
          /\ increase_timer
          /\ at' = "ecall"
          /\ UNCHANGED <<req, stip, armed>>
       \/ /\ ~mtip /\ req = "setup"
          /\ timer_setup
          /\ at' = "boot" /\ req' = "none"
          /\ UNCHANGED stip
       \/ /\ ~mtip /\ req = "clear"
          /\ stip' = FALSE
          /\ at' = "timer" /\ req' = "none"
          /\ UNCHANGED <<mtip, armed>>
       \/ /\ ~mtip /\ req = "off"
          /\ at' = "off"
          /\ UNCHANGED <<req, mtip, stip, armed>>
    /\ UNCHANGED <<procs, tf, tf_user, cpu, cause, timer_check>>

(***************************************************************************)
(* U-mode.                                                                  *)
(***************************************************************************)
InUser == at = "user" /\ ~mtip /\ ~stip

\* An instruction that changes a3; one that changes nothing the model has is
\* left out.
UserCompute ==
    /\ InUser
    /\ \E v \in UserValues \ {cpu.a3} :
          cpu' = [cpu EXCEPT !.pc = Succ(@), !.a3 = v]
    /\ UNCHANGED <<procs, tf, tf_user, at, cause, req, timer>>

\* trap_handler_s saves the registers, satp and sepc in tf_user.
Trap(c) ==
    /\ tf_user' = cpu
    /\ cpu' = Frame(0, 0, cpu.satp)
    /\ cause' = c
    /\ at' = "scall"
    /\ UNCHANGED <<procs, tf, req, timer>>

UserTrap(c) == InUser /\ Trap(c)

TimerInterrupt ==
    /\ at = "user" /\ stip /\ ~mtip
    /\ Trap("timer")

(***************************************************************************)
(* The ways out of scall.                                                   *)
(***************************************************************************)

\* sret.  The kernel stack, and tf_user on it, is given up: the next trap
\* starts at its top again (sscratch).
EnterUser == at' = "user" /\ cause' = "none" /\ tf_user' = NoFrame

\* The end of trap_handler_s: the registers come from tf_user, pc from sepc.
ReturnTo(frame) == cpu' = frame /\ EnterUser

\* What the caller of a system call goes on with: behind the ecall (fix_sepc),
\* with result v in a3.
Answered(v) == [tf_user EXCEPT !.pc = Succ(@), !.a3 = v]

\* Back to the instruction that trapped.
Retry == ReturnTo(tf_user)

\* proc_copy_frame: the frames when f is saved in the running process's slot.
proc_copy_frame(f) == [tf EXCEPT ![proc_running] = f]

\* load_context: the registers after the frame f is loaded.
load_context(f) == [f EXCEPT !.pc = Succ(@)]

\* ecall_poweroff.
Halt == ecall("off")

(***************************************************************************)
(* proc_scheduler and context_switch, with the statuses st and the frames   *)
(* fr the caller leaves.  The scan starts behind proc_running; if it comes  *)
(* back to proc_running the scheduler gives up, and its caller returns with *)
(* back.  load_context adds 4 to the saved sepc.  The frame it has loaded is  *)
(* read by nobody before it is saved again: the model forgets it.           *)
(***************************************************************************)
After(j) == (proc_running + j) % MaxProcesses

FirstPaused(st, j) ==
    /\ st[After(j)] = "paused"
    /\ \A i \in 1..j-1 : st[After(i)] # "paused"

\* Slip: load_context does not load satp.
KeepsSpace(st, fr, back) ==
    \E j \in 1..MaxProcesses-1 :
        /\ FirstPaused(st, j)
        /\ proc_running' = After(j)
        /\ status' = [st EXCEPT ![After(j)] = "running"]
        /\ cpu' = [fr[After(j)] EXCEPT !.pc = Succ(@), !.satp = tf_user.satp]
        /\ tf' = [fr EXCEPT ![After(j)] = NoFrame]
        /\ EnterUser

\* Slip: the scan starts at the first slot (the version that proc_scheduler
\* keeps in a comment).
ScanFromFirst(st, fr, back) ==
    \E t \in UserSlot \ {proc_running} :
        /\ st[t] = "paused"
        /\ \A s \in UserSlot \ {proc_running} : st[s] = "paused" => t <= s
        /\ proc_running' = t
        /\ status' = [st EXCEPT ![t] = "running"]
        /\ cpu' = load_context(fr[t])
        /\ tf' = [fr EXCEPT ![t] = NoFrame]
        /\ EnterUser

proc_scheduler(st, fr, back) ==
    /\ IF \E j \in 1..MaxProcesses-1 : st[After(j)] = "paused"
       THEN \E j \in 1..MaxProcesses-1 :
               /\ FirstPaused(st, j)
               /\ proc_running' = After(j)
               /\ status' = [st EXCEPT ![After(j)] = "running"]
               /\ cpu' = load_context(fr[After(j)])
               /\ tf' = [fr EXCEPT ![After(j)] = NoFrame]
               /\ EnterUser
       ELSE /\ ReturnTo(back)
            /\ status' = st /\ tf' = fr
            /\ UNCHANGED proc_running

(***************************************************************************)
(* timer_handler.                                                           *)
(***************************************************************************)

\* A pending timer interrupt is cleared first, through M-mode; without one,
\* scall looks at the cause of the trap.
TimerPending ==
    /\ at = "scall" /\ ~mtip
    /\ IF stip THEN ecall("clear")
               ELSE at' = "dispatch" /\ UNCHANGED req
    /\ UNCHANGED <<procs, tf, tf_user, cpu, cause, timer>>

\* Slip: sepc is saved as it is.
TimerSkips ==
    /\ at = "timer" /\ ~mtip
    /\ IF processes_total > 1
       THEN /\ timer_check' = 1
            /\ proc_scheduler([status EXCEPT ![proc_running] = "paused"],
                   proc_copy_frame(tf_user), tf_user)
       ELSE /\ Retry
            /\ UNCHANGED <<status, proc_running, tf, timer_check>>
    /\ UNCHANGED <<pid, satp, processes_total, last_pid, req, mtip, stip, armed>>

\* The frame is saved with sepc - 4: load_context adds 4, and the instruction
\* that was interrupted is executed again.
TimerHandler ==
    /\ at = "timer" /\ ~mtip
    /\ IF processes_total > 1
       THEN /\ timer_check' = 1
            /\ proc_scheduler([status EXCEPT ![proc_running] = "paused"],
                   proc_copy_frame([tf_user EXCEPT !.pc = Pred(@)]),
                   tf_user)
            /\ UNCHANGED req
       ELSE /\ IF processes_total = 0 THEN Halt /\ UNCHANGED <<cpu, tf_user, cause>>
                                      ELSE Retry /\ UNCHANGED req
            /\ UNCHANGED <<status, proc_running, tf, timer_check>>
    /\ UNCHANGED <<pid, satp, processes_total, last_pid, mtip, stip, armed>>

(***************************************************************************)
(* proc_run_process.                                                        *)
(***************************************************************************)

\* proc_find_free_process_slot returns t.
FreeSlot(t) ==
    /\ processes_total # MaxProcesses
    /\ status[t] = "free"
    /\ \A s \in 1..t-1 : status[s] # "free"

\* Slip: last_pid is not incremented.
StartSamePid(t, v, st) ==
    /\ FreeSlot(t)
    /\ last_pid < MaxStarts
    /\ pid' = [pid EXCEPT ![t] = last_pid]
    /\ satp' = [satp EXCEPT ![t] = t]
    /\ status' = [st EXCEPT ![t] = "running"]
    /\ processes_total' = processes_total + 1
    /\ proc_running' = t
    /\ cpu' = Frame(0, v, t)
    /\ EnterUser
    /\ UNCHANGED last_pid

\* Slip: the caller is not paused.
StartBesides(t, v, st) ==
    /\ FreeSlot(t)
    /\ last_pid < MaxStarts
    /\ pid' = [pid EXCEPT ![t] = last_pid]
    /\ satp' = [satp EXCEPT ![t] = t]
    /\ status' = [status EXCEPT ![t] = "running"]
    /\ processes_total' = processes_total + 1
    /\ last_pid' = (last_pid + 1) % PidBound
    /\ proc_running' = t
    /\ cpu' = Frame(0, v, t)
    /\ EnterUser

\* The new process t is entered with v in a3; st are the statuses before.
Start(t, v, st) ==
    /\ FreeSlot(t)
    /\ last_pid < MaxStarts
    /\ pid' = [pid EXCEPT ![t] = last_pid]
    /\ satp' = [satp EXCEPT ![t] = t]
    /\ status' = [st EXCEPT ![t] = "running"]
    /\ processes_total' = processes_total + 1
    /\ last_pid' = (last_pid + 1) % PidBound
    /\ proc_running' = t
    /\ cpu' = Frame(0, v, t)
    /\ EnterUser

\* No slot; or a slot, but no frame for its page table; or a page table but no
\* room for its VMAs.
StartFails ==
    /\ \/ /\ \A t \in UserSlot : ~FreeSlot(t)
          /\ UNCHANGED <<pid, satp>>
       \/ \E t \in UserSlot :
             /\ FreeSlot(t)
             /\ pid' = [pid EXCEPT ![t] = last_pid]
             /\ satp' \in {satp, [satp EXCEPT ![t] = t]}
    /\ UNCHANGED <<status, proc_running, processes_total, last_pid>>

\* main starts the first application, or returns to nowhere: the fault that
\* follows ends in ecall_poweroff.
BootProcess ==
    /\ at = "boot" /\ ~mtip
    /\ \/ (\E t \in UserSlot : Start(t, 0, status)) /\ UNCHANGED req
       \/ StartFails /\ Halt /\ cpu' = Frame(0, 0, KernelSpace) /\ UNCHANGED <<cause, tf_user>>
    /\ UNCHANGED <<tf, timer>>

(***************************************************************************)
(* scall_handler.  It stores -1 in a3 before it calls the handler.          *)
(***************************************************************************)
Dispatch(c) == at = "dispatch" /\ ~mtip /\ cause = c

\* The calls that only leave a result in a3.
Result(v) ==
    /\ ReturnTo(Answered(v))
    /\ UNCHANGED <<procs, tf, req, timer>>

scall_handler_print == Dispatch("print") /\ Result(-1)

scall_handler_getpid == Dispatch("getpid") /\ Result(pid[proc_running])

scall_handler_timerstatus == Dispatch("timerstatus") /\ Result(timer_check)

\* NULL or the address of the new VMA.
scall_handler_mmap == Dispatch("mmap") /\ \E v \in {0, 1} : Result(v)

\* The running process loses its identifier and its page table; the handler
\* below, or the scheduler, sets its status.
proc_kill_process ==
    /\ pid' = [pid EXCEPT ![proc_running] = 0]
    /\ satp' = [satp EXCEPT ![proc_running] = NoSpace]

\* Slip: the counter is not decremented.
EndKeepsCount ==
    /\ Dispatch("end")
    /\ proc_kill_process
    /\ processes_total > 1
    /\ proc_scheduler([status EXCEPT ![proc_running] = "free"], tf, Answered(-1))
    /\ UNCHANGED <<processes_total, last_pid, req, timer>>

\* The killed process's slot is free; with no process left the machine stops.
scall_handler_end ==
    /\ Dispatch("end")
    /\ proc_kill_process
    /\ processes_total' = processes_total - 1
    /\ LET st == [status EXCEPT ![proc_running] = "free"]
       IN  IF processes_total = 1
           THEN /\ Halt
                /\ status' = st
                /\ cpu' = Frame(0, 0, KernelSpace)
                /\ tf_user' = [tf_user EXCEPT !.a3 = -1]
                /\ UNCHANGED <<proc_running, tf, cause>>
           ELSE /\ proc_scheduler(st, tf, Answered(-1))
                /\ UNCHANGED req
    /\ UNCHANGED <<last_pid, timer>>

\* The caller is paused with result 0 before the new process is started; if
\* that fails it goes on, with -1.
scall_handler_execv ==
    /\ Dispatch("execv")
    /\ tf' = proc_copy_frame([tf_user EXCEPT !.a3 = 0])
    /\ \/ \E t \in UserSlot, v \in UserValues :
             Start(t, v, [status EXCEPT ![proc_running] = "paused"])
       \/ StartFails /\ ReturnTo(Answered(-1))
    /\ UNCHANGED <<req, timer>>

scall_handler_yield ==
    /\ Dispatch("yield")
    /\ IF processes_total <= 1
       THEN ReturnTo(Answered(-1)) /\ UNCHANGED <<status, proc_running, tf>>
       ELSE proc_scheduler([status EXCEPT ![proc_running] = "paused"],
                proc_copy_frame([tf_user EXCEPT !.a3 = -1]), Answered(-1))
    /\ UNCHANGED <<pid, satp, processes_total, last_pid, req, timer>>

\* A page fault in a VMA that allows the access: the page is mapped, and
\* filled if it is text, and the instruction is executed again.
SoftPageFault ==
    /\ Dispatch("page fault")
    /\ Retry
    /\ UNCHANGED <<procs, tf, req, timer>>

\* execv of an application that does not exist: the machine stops, with the
\* caller paused.
ExecvUnknown ==
    /\ Dispatch("no such app")
    /\ status' = [status EXCEPT ![proc_running] = "paused"]
    /\ tf_user' = [tf_user EXCEPT !.a3 = 0]
    /\ tf' = proc_copy_frame([tf_user EXCEPT !.a3 = 0])
    /\ Halt
    /\ UNCHANGED <<pid, satp, proc_running, processes_total, last_pid, cpu, cause, timer>>

scall_handler_unknown ==
    /\ Dispatch("unknown call")
    /\ tf_user' = [tf_user EXCEPT !.a3 = -1]
    /\ Halt
    /\ UNCHANGED <<procs, tf, cpu, cause, timer>>

\* hlt: a fault that is not served stops the machine.
Die ==
    /\ at = "dispatch" /\ ~mtip
    /\ cause \in Faults
    /\ Halt
    /\ UNCHANGED <<procs, tf, tf_user, cpu, cause, timer>>

\* Nothing happens any more.
Off == at = "off" /\ UNCHANGED vars

Scall ==
    \/ scall_handler_print
    \/ scall_handler_getpid
    \/ scall_handler_timerstatus
    \/ scall_handler_mmap
    \/ scall_handler_end
    \/ scall_handler_execv
    \/ scall_handler_yield
    \/ ExecvUnknown
    \/ scall_handler_unknown
    \/ SoftPageFault
    \/ Die

\* The kernel's own steps in S-mode.
SupervisorStep ==
    \/ EnterMachine
    \/ TimerInterrupt \/ TimerPending \/ TimerHandler
    \/ BootProcess
    \/ Scall

Next ==
    \/ TimerExpires
    \/ UserCompute
    \/ \E c \in Traps : UserTrap(c)
    \/ MachineTimer \/ MachineCall
    \/ SupervisorStep
    \/ Off

Spec == Init /\ [][Next]_vars

-----------------------------------------------------------------------------
(***************************************************************************)
(* Safety.                                                                  *)
(***************************************************************************)
A3Value == UserValues \cup {-1, 0, 1} \cup 0..PidBound-1

FrameType == [pc : 0..PcBound-1, a3 : A3Value, satp : 0..MaxProcesses]

\* Every variable has the type of its declaration in process.c, process.h and
\* exception.c.
TypeOK ==
    /\ status \in [Slot -> {"reserved", "free", "paused", "running"}]
    /\ pid \in [Slot -> 0..PidBound-1]
    /\ satp \in [Slot -> 0..MaxProcesses]
    /\ tf \in [Slot -> FrameType]
    /\ proc_running \in Slot
    /\ processes_total \in Nat
    /\ last_pid \in 0..PidBound-1
    /\ tf_user \in FrameType
    /\ cpu \in FrameType
    /\ at \in {"user", "scall", "ecall", "mcall", "timer", "dispatch", "boot", "off"}
    /\ cause \in Traps \cup {"none", "timer"}
    /\ req \in {"none", "setup", "clear", "off"}
    /\ mtip \in BOOLEAN /\ stip \in BOOLEAN /\ armed \in BOOLEAN
    /\ timer_check \in {0, 1}

LiveSlots == {s \in UserSlot : status[s] \in {"running", "paused"}}

\* processes_total, which decides whether the scheduler is called and when the
\* machine is switched off, is the number of slots in use: execv, end, yield
\* and the timer keep the counter and the statuses in step.
CountMatches == processes_total = Cardinality(LiveSlots)

\* The kernel is busy on its way to ecall_poweroff, or off.
GoingDown == at = "off" \/ (at \in {"ecall", "mcall"} /\ req = "off")

\* The kernel has started the first process and is not going down.
Serving == ~GoingDown /\ at # "boot" /\ req # "setup"

\* While a process is served it is the only one marked running, and
\* proc_running names it; every other process is paused, so the scheduler can
\* find it.
OneRunning ==
    Serving
        => /\ proc_running \in UserSlot
           /\ \A s \in Slot : (status[s] = "running") <=> (s = proc_running)

\* A process is in its own address space: satp of the hart in U-mode, of the
\* frame trap_handler_s saved and of the frame a paused process resumes with
\* is the one in the process's own slot.
OwnAddressSpace ==
    /\ \A s \in LiveSlots : satp[s] = s
    /\ \A s \in LiveSlots : status[s] = "paused" => tf[s].satp = s
    /\ at = "user" => cpu.satp = proc_running
    /\ at \in {"scall", "timer", "dispatch"} => tf_user.satp = proc_running

\* Two live processes have different identifiers, as long as last_pid has not
\* wrapped around.
PidsDiffer ==
    MaxStarts < PidBound
        => \A s, t \in LiveSlots : pid[s] = pid[t] => s = t

\* scall never sees a trap it has no answer for: a timer interrupt is always
\* still pending when timer_handler looks for it, although M-mode clears and
\* sets the pending bits behind the kernel's back.
TimerSeen ==
    /\ at = "dispatch" => cause # "timer"
    /\ at = "scall" /\ cause = "timer" => stip

\* The scheduler and timer_handler never reach their error messages: when the
\* scheduler is called there is a paused process other than proc_running, and
\* timer_handler never finds processes_total = 0.
SchedulerFinds ==
    /\ Serving /\ processes_total > 1
           => \E s \in Slot \ {proc_running} : status[s] = "paused"
    /\ at = "timer" => processes_total > 0

(***************************************************************************)
(* The user's view.  The context of the process in U-mode is in the         *)
(* registers; while the kernel serves it, in tf_user, and it waits for the  *)
(* call or fault it trapped with unless that was the timer; that of a       *)
(* paused one is in its slot, one instruction back.                         *)
(***************************************************************************)
Context(s) ==
    LET f == CASE status[s] = "paused" -> [tf[s] EXCEPT !.pc = Succ(@)]
               [] status[s] # "paused" /\ at = "user" -> cpu
               [] OTHER -> tf_user
        waits == status[s] # "paused" /\ at # "user" /\ cause # "timer"
    IN  [pid |-> pid[s], pc |-> f.pc, a3 |-> f.a3,
         call |-> IF waits THEN cause ELSE "none"]

User == INSTANCE Processes WITH
    Slots  <- UserSlot,
    Pids   <- 0..PidBound-1,
    Values <- A3Value,
    Calls  <- Traps,
    on     <- ~GoingDown,
    ctx    <- [s \in IF GoingDown THEN {} ELSE LiveSlots |-> Context(s)]

\* Interrupts, traps and context switches are invisible to programs: a process
\* resumes exactly where it was, with the registers it had, and a step of one
\* never changes another (trap_handler_s, proc_copy_frame, load_context, the
\* sepc - 4 of timer_handler and the + 4 of load_context and fix_sepc).
ImplementsProcesses == User!PSpec

(***************************************************************************)
(* Liveness.  increase_timer puts the next tick a period ahead, long        *)
(* enough for S-mode to go on between two ticks and for mcall to find none  *)
(* pending; and a process that runs again and again is in U-mode at some    *)
(* tick, as the timer does not wait for system calls.                       *)
(***************************************************************************)
TickInUser(s) == TimerExpires /\ at = "user" /\ proc_running = s

Fairness ==
    /\ WF_vars(MachineTimer \/ MachineCall)
    /\ SF_vars(MachineCall /\ ~mtip)
    /\ SF_vars(SupervisorStep)
    /\ \A s \in UserSlot : SF_vars(TickInUser(s))

FairSpec == Spec /\ Fairness

\* A paused process runs again, or the machine is switched off: the scan of
\* proc_scheduler starts behind the process that ran last, so no process is
\* passed over for ever.
NoStarvation ==
    \A s \in UserSlot :
        status[s] = "paused" ~> status[s] = "running" \/ GoingDown

\* Every trap ends: the kernel goes back to U-mode or switches the machine off,
\* although the timer may expire again and again while it works.
TrapsEnd == at = "scall" ~> at \in {"user", "off"}

\* The machine does not hang on its way down.
PowersOff == GoingDown ~> at = "off"
=============================================================================
