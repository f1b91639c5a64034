------------------------------ MODULE X86Intro ------------------------------
(***************************************************************************)
(* The machine of ostep/homework/threads-intro/x86.py, the first copy of   *)
(* the one in module X86: threads in a fixed list and no manual schedule,  *)
(* fewer registers and instructions, an operand parser that sees one       *)
(* register only, and a pop that answers the stack pointer.  It runs the   *)
(* programs of the introduction, which race on one word.                   *)
(*                                                                         *)
(* A definition whose name ends in Faulty is a plausible mistake in the    *)
(* definition that follows it; no specification uses it.                   *)
(***************************************************************************)
EXTENDS X86Programs, FiniteSets, FiniteSetsExt

CONSTANTS NumThreads,
          IntFreq,
          Loops,     \* the count a looping program gets in its register
          Addresses  \* the words of memory the programs can touch

VARIABLES prog,
          curr,        \* the place in the list of the running thread
          cpu,
          saved,
          memory,
          finished,
          interrupt

vars == <<prog, curr, cpu, saved, memory, finished, interrupt>>

-----------------------------------------------------------------------------
IntroRegisters == Registers \ {"fx"}
IntroOpcodes == {"mov", "pop", "push", "call", "ret", "add", "sub", "fetchadd", "xchg", "test",
                 "nop", "halt", "yield"} \cup Jumps

(* The commas of an operand are thrown away before it is taken apart, so that
   of two registers only the first is seen. *)
getarg(o) == IF o.kind = "mem" THEN At(o.n, o.r1) ELSE o

(* The loader refuses an opcode it does not know. *)
Loadable(text) == \A k \in DOMAIN text : IsInstruction(text[k]) => text[k].op \in IntroOpcodes
load(text) ==
    Load([k \in DOMAIN text |->
            IF IsInstruction(text[k])
            THEN Ins(text[k].op, getarg(text[k].a), getarg(text[k].b)) ELSE text[k]])

IntroCode == [p \in {q \in IntroPrograms : Loadable(Text[q])} |-> load(Text[p])]

(* pop_r moves the stack pointer itself, not the word it points to. *)
IntroExec(i, c, m) ==
    IF i.op = "pop" /\ i.a.kind = "reg"
    THEN [ctx |-> SetReg(SetReg(c, i.a.r, c.reg["sp"]), "sp", c.reg["sp"] + 4), mem |-> m]
    ELSE Exec(i, c, m)

-----------------------------------------------------------------------------
Threads == 0 .. NumThreads - 1

(* process.__init__: the registers -a gives the program; one thread of
   wait-for-me.s is the signaller. *)
InitialContext(p, t, signaller) ==
    Context(LoadAddr, [r \in IntroRegisters |->
        CASE r = "sp" -> 128000 - 1000 * t
          [] r = "bx" /\ p = "looping-race-nolock" -> Loops
          [] r = "dx" /\ p = "loop" -> Loops
          [] r = "ax" /\ p = "wait-for-me" /\ t = signaller -> 1
          [] OTHER -> 0])

Init ==
    /\ prog \in DOMAIN IntroCode
    /\ curr = 1
    /\ \E s \in Threads : saved = [t \in Threads |-> InitialContext(prog, t, s)]
    /\ cpu = saved[0]
    /\ memory = [a \in Addresses |-> 0]
    /\ finished = {}
    /\ interrupt \in 1 .. IntFreq

-----------------------------------------------------------------------------
Running == curr - 1
Instruction == IntroCode[prog][cpu.pc]
Result == IntroExec(Instruction, [cpu EXCEPT !.pc = @ + 1], memory)

(* proclist.next: the next in the list that is not done, from the front when
   there is none behind the current one. *)
next(from, halted) ==
    LET alive == {k \in 1 .. NumThreads : k - 1 \notin halted}
        later == {k \in alive : k > from}
    IN  Min(IF later # {} THEN later ELSE alive)

(* process.save. *)
SavedFaulty(ctx, t) == [ctx EXCEPT !.pc = saved[t].pc]
Saved(ctx, t) == ctx

Execute ==
    /\ finished # Threads
    /\ Instruction.op \notin {"halt", "yield"}
    /\ interrupt > 1
    /\ cpu' = Result.ctx
    /\ memory' = Result.mem
    /\ interrupt' = interrupt - 1
    /\ UNCHANGED <<prog, curr, saved, finished>>

ExecuteAndSwitch ==
    /\ finished # Threads
    /\ Instruction.op # "halt"
    /\ Instruction.op = "yield" \/ interrupt = 1
    /\ memory' = Result.mem
    /\ saved' = [saved EXCEPT ![Running] = Saved(Result.ctx, Running)]
    /\ curr' = next(curr, finished)
    /\ cpu' = saved'[curr' - 1]
    /\ interrupt' \in 1 .. IntFreq
    /\ UNCHANGED <<prog, finished>>

(* After a halt the loop goes on to its interrupt processing. *)
Halt ==
    LET halted == finished \cup {Running}
        turn == next(curr, halted)
    IN
    /\ finished # Threads
    /\ Instruction.op = "halt"
    /\ finished' = halted
    /\ IF halted = Threads THEN UNCHANGED <<curr, cpu, interrupt>>
       ELSE /\ curr' = IF interrupt = 1 THEN next(turn, halted) ELSE turn
            /\ cpu' = saved[curr' - 1]
            /\ interrupt' \in IF interrupt = 1 THEN 1 .. IntFreq ELSE {interrupt - 1}
    /\ UNCHANGED <<prog, saved, memory>>

Ended == finished = Threads /\ UNCHANGED vars

Next == Execute \/ ExecuteAndSwitch \/ Halt \/ Ended

-----------------------------------------------------------------------------
(* What the races of the introduction can end with.  Two unlocked loops lose
   increments, but never all but one: a store that wins must have followed a
   load of at least 1.  The waiter gets past its loop only once it is
   signalled. *)
RaceBounds ==
    finished = Threads =>
        memory[Shared] \in
            CASE prog = "simple-race" -> 1 .. NumThreads
              [] prog = "looping-race-nolock" ->
                   (IF NumThreads = 1 THEN Loops ELSE IF Loops = 1 THEN 1 ELSE 2)
                       .. NumThreads * Loops
              [] prog = "wait-for-me" -> {1}
              [] prog = "loop" -> {0}
=============================================================================
