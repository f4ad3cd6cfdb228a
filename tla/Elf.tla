---------------------------------- MODULE Elf ----------------------------------
(***************************************************************************)
(* parse_elf of src/kernel/elfpars.c: it looks for the segment that is to    *)
(* be loaded in the program headers of an application.                       *)
(*                                                                          *)
(* A file is the list of its program headers and one more, which stands for  *)
(* what is behind them; ptr_ph is an index into the list.                    *)
(***************************************************************************)
EXTENDS Naturals, Sequences

CONSTANTS
    PT_LOAD,      \* the type of a segment that is loaded
    OtherTypes,   \* bound: other types of segments
    Addresses,    \* bound: where segments are loaded to (p_vaddr)
    MaxHeaders    \* bound: e_phnum

ASSUME ElfAssumption == PT_LOAD \notin OtherTypes /\ MaxHeaders \in Nat

Header == [type : {PT_LOAD} \cup OtherTypes, vaddr : Addresses]

Files == UNION {[1..n+1 -> Header] : n \in 0..MaxHeaders}

e_phnum(file) == Len(file) - 1

\* The loop over the headers: the first one of type PT_LOAD ends it, with ptr_ph
\* still there.
Loop(file) ==
    LET round[t \in 0..e_phnum(file)] ==
            IF t = 0 THEN [ptr_ph |-> 1, valid |-> 0]
            ELSE IF round[t-1].valid = 1 THEN round[t-1]
            ELSE IF file[t].type = PT_LOAD THEN [round[t-1] EXCEPT !.valid = 1]
            ELSE [round[t-1] EXCEPT !.ptr_ph = @ + 1]
    IN  round[e_phnum(file)]

\* The fields are read from where ptr_ph is, whatever the loop found, and 0 is
\* returned.
parse_elf(file) ==
    [valid |-> Loop(file).valid, vaddr |-> file[Loop(file).ptr_ph].vaddr, ret |-> 0]
-----------------------------------------------------------------------------
\* What is loaded is the first segment of type PT_LOAD, if there is one.  Without
\* one the result is marked as not valid, and 0 is returned nevertheless, for all
\* the comment says: "return: -1 in case of errors, otherwise 0" (elfpars.c:54).
FirstLoad(file, elf) ==
    LET loadable == {i \in 1..e_phnum(file) : file[i].type = PT_LOAD}
    IN  /\ elf.valid = IF loadable = {} THEN 0 ELSE 1
        /\ elf.ret = 0
        /\ loadable # {} =>
              \E i \in loadable : /\ elf.vaddr = file[i].vaddr
                                  /\ \A j \in loadable : i <= j
=============================================================================
