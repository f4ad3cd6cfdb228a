\* The user's view: two processes, programs with three instructions.
CONSTANTS
    MaxProcesses = 3
    PidBound = 4
    MaxStarts = 3
    PcBound = 3
    UserValues = {0, 1}
    Traps = {"print", "end", "execv", "yield", "getpid", "mmap", "timerstatus", "page fault",
             "illegal instruction", "unknown call", "no such app"}
SPECIFICATION Spec
PROPERTY ImplementsProcesses
