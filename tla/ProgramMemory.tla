---------------------------- MODULE ProgramMemory ----------------------------
(***************************************************************************)
(* What a program may rely on of its memory.  A process has a flat memory:  *)
(* its image when it starts, pages of zeros that mmap adds somewhere where  *)
(* it has none, and what it writes itself.  Page tables, demand paging and  *)
(* other processes cannot be seen, with one exception (Miss).               *)
(***************************************************************************)
EXTENDS Integers

CONSTANTS
    Proc,         \* process slots
    App,          \* the programs
    Image(_),     \* what the memory of a program holds when it starts
    Zero,         \* what new memory holds
    Written,      \* what programs write
    PageSize,     \* bytes of a page
    Requests      \* the numbers of pages mmap is called with

VARIABLES
    memory,       \* memory[p]: page -> what its bytes hold, for the pages p has
    answer        \* what mmap last returned to p: a page, or 0

mvars == <<memory, answer>>

Empty == [q \in {} |-> 0]

MInit ==
    /\ memory = [p \in Proc |-> Empty]
    /\ answer = [p \in Proc |-> 0]

(***************************************************************************)
(* The steps of a process, as relations between what it has before, m, and  *)
(* after, n.                                                                *)
(***************************************************************************)
Begin(m, n) == m = Empty /\ \E app \in App : n = Image(app)

Store(m, n) ==
    \E q \in DOMAIN m, k \in 0..PageSize-1 : n = [m EXCEPT ![q][k] = Written]

\* mmap: some pages from page s on, all new.
Extend(m, n, s) ==
    /\ m # Empty
    /\ \E k \in Requests :
          LET new == s .. s+k-1
          IN  /\ new \cap DOMAIN m = {}
              /\ n = [q \in DOMAIN m \cup new |->
                        IF q \in new THEN [i \in 0..PageSize-1 |-> Zero] ELSE m[q]]

\* The page that the image ends in may be found without it, unless it was written
\* to before.
Miss(m, n) ==
    \E app \in App : \E q \in DOMAIN m \cap DOMAIN Image(app) :
        /\ m[q] = Image(app)[q]
        /\ m[q][PageSize-1] = Zero
        /\ n = [m EXCEPT ![q] = [i \in 0..PageSize-1 |-> Zero]]

Finish(n) == n = Empty

MNext ==
    \E p \in Proc :
        /\ LET m == memory[p]
           IN  LET n == memory'[p]
               IN  \/ /\ m # n /\ answer'[p] = answer[p]
                      /\ Begin(m, n) \/ Store(m, n) \/ Miss(m, n)
                   \/ Extend(m, n, answer'[p])
                   \/ n = m /\ answer'[p] = 0            \* mmap is refused
                   \/ Finish(n) /\ answer'[p] = 0
        /\ \A q \in Proc \ {p} : memory'[q] = memory[q] /\ answer'[q] = answer[q]

MSpec == MInit /\ [][MNext]_mvars
=============================================================================
