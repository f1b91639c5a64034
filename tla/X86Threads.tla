----------------------------- MODULE X86Threads -----------------------------
(***************************************************************************)
(* What the simulator promises a programmer: every thread has registers,   *)
(* condition codes and a program counter of its own, memory is shared, and *)
(* instructions of different threads interleave one at a time.  There is   *)
(* no CPU, saved context, run queue or interrupt here.                     *)
(***************************************************************************)
EXTENDS Integers

CONSTANTS Threads, Halted,
          LoadAddr, Code,   \* the programs and where they start
          Exec(_, _, _)     \* the instruction set

VARIABLES prog, memory,
          context,  \* of each thread, Halted in the end
          halted    \* the threads that have executed halt

vars == <<prog, memory, context, halted>>

Init ==
    /\ \A a \in DOMAIN memory : memory[a] = 0
    /\ \A t \in Threads : context[t].pc = LoadAddr /\ context[t].cc = "unset"
    /\ halted = {}

Fetched(t) == Code[prog][context[t].pc]

Step(t) ==
    LET e == Exec(Fetched(t), [context[t] EXCEPT !.pc = @ + 1], memory) IN
    /\ t \notin halted
    /\ Fetched(t).op # "halt"
    /\ context' = [context EXCEPT ![t] = e.ctx]
    /\ memory' = e.mem
    /\ UNCHANGED <<prog, halted>>

Halt(t) ==
    /\ t \notin halted
    /\ Fetched(t).op = "halt"
    /\ context' = [context EXCEPT ![t] = Halted]
    /\ halted' = halted \cup {t}
    /\ UNCHANGED <<prog, memory>>

Next == \E t \in Threads : Step(t) \/ Halt(t)

Spec == Init /\ [][Next]_vars
=============================================================================
