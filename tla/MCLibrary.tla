------------------------------ MODULE MCLibrary ------------------------------
(***************************************************************************)
(* The parts that depend on nothing else, for TLC.  A behaviour is one call  *)
(* of parse_elf, of printf or of an exercise, for every input within the     *)
(* bounds, or a sequence of calls of pt_salloc, or one of the timer.         *)
(***************************************************************************)
EXTENDS CursorAllocator, Elf, Printing, Exercises, MatrixProduct, Timer

VARIABLES of, in, out

MCElements == {-2, -1, 1}

\* The clock when the machine starts: just switched on, and after the low bits of
\* the first write no longer hold it.
MCBootTimes == {0, 17}

\* The state of the timer in the other behaviours.
NoTimer ==
    /\ mtime = 0 /\ mtimecmp = Never /\ mode = "S" /\ todo = "none" /\ pc = "run"
    /\ total = 0 /\ spent = 0
    /\ tick = FALSE /\ MIE = FALSE /\ MTIE = FALSE /\ stip = FALSE

MCInit ==
    /\ CInit
    /\ \/ of = "parse_elf" /\ in \in Files
       \/ of = "printf" /\ in \in Formats
       \/ of = "exercise" /\ in \in Calls
       \/ of = "assignment_5_0" /\ \E d \in Dims : in \in {<<d, m>> : m \in Memories(d)}
       \/ of \in {"pt_salloc", "timer"} /\ in = <<>>
    /\ out = <<>>
    /\ IF of = "timer" THEN Init ELSE NoTimer

\* The result is kept in a sequence of one; it is empty before the call.
MCCall ==
    /\ out = <<>>
    /\ \/ of = "parse_elf" /\ out' = <<parse_elf(in)>>
       \/ of = "printf" /\ out' = <<printf(fmt(in), argv(in))>>
       \/ of = "exercise" /\ out' = <<Call(in)>>
       \/ of = "assignment_5_0" /\ out' = <<assignment_5_0(in[1], in[2])>>
    /\ UNCHANGED <<cvars, vars, of, in>>

MCDone == out # <<>> /\ UNCHANGED <<cvars, vars, of, in, out>>

MCAllocate == of = "pt_salloc" /\ CNext /\ UNCHANGED <<vars, of, in, out>>

Others == <<cvars, of, in, out>>
MCClock == of = "timer" /\ Clock /\ UNCHANGED Others
MCStep == of = "timer" /\ Step /\ UNCHANGED Others
MCOff == of = "timer" /\ Off /\ UNCHANGED Others

MCNext == MCCall \/ MCDone \/ MCAllocate \/ MCClock \/ MCStep \/ MCOff

\* The timer's behaviours are those of FairSpec of Timer.
MCSpec ==
    /\ MCInit /\ [][MCNext]_<<Others, vars>>
    /\ WF_<<Others, vars>>(MCStep) /\ WF_<<Others, vars>>(MCClock)

\* What a call does, for every input within the bounds, those included for which
\* it does the wrong thing:
\*   - parse_elf finds the first segment of type PT_LOAD, wherever it is among the
\*     headers, and marks the result as not valid if there is none; it returns 0
\*     then all the same;
\*   - printf puts out what its tokens mean, in their order and each conversion
\*     with its own argument: an unknown conversion takes its argument too, zero
\*     has a digit, and no number loses a digit that counts; formats with a
\*     negative int are left out, since the code has no way to print one;
\*   - the tester sees what it expects of an exercise, for the arguments too that
\*     it never draws, negative ints and a count of 32, except of 1_7 exactly when
\*     the int it drops is negative;
\*   - exercise 5_0 leaves the product in M2, although its stores overlap, and
\*     writes over one halfword behind it.
ResultsRight ==
    out # <<>> =>
        CASE of = "parse_elf" -> FirstLoad(in, out[1])
          [] of = "printf" -> TokensPrinted(in, out[1])
          [] of = "exercise" -> AsExpected(in, out[1])
          [] of = "assignment_5_0" -> IsProduct(in[1], in[2], out[1])
=============================================================================
