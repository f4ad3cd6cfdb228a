\* Invariants: three processes, every kind of trap.
CONSTANTS
    MaxProcesses = 4
    PidBound = 5
    MaxStarts = 4
    PcBound = 1
    UserValues = {0}
    Traps = {"print", "end", "execv", "yield", "getpid", "mmap", "timerstatus", "page fault",
             "illegal instruction", "unknown call", "no such app"}
SPECIFICATION Spec
INVARIANTS
    CountMatches
    OneRunning
    OwnAddressSpace
    PidsDiffer
    TimerSeen
    SchedulerFinds
