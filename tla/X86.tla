-------------------------------- MODULE X86 --------------------------------
(***************************************************************************)
(* The multithreaded machine of ostep/homework/threads-locks/x86.py: one   *)
(* CPU, one process record per thread with the context saved at its last   *)
(* switch, and the run loop that executes instructions, counts down to the *)
(* next interrupt, and switches to the next thread of the schedule that    *)
(* has not halted.                                                         *)
(*                                                                         *)
(* One step is one turn of the run loop.  The interrupt counter is         *)
(* reloaded at random, as with -r; tracing and statistics are left out.    *)
(*                                                                         *)
(* A definition whose name ends in Faulty is a plausible mistake in the    *)
(* definition that follows it; no specification uses it.                   *)
(***************************************************************************)
EXTENDS X86Programs, FiniteSets

CONSTANTS NumThreads,
          Programs,          \* the programs considered, of LockPrograms
          ManualSchedules,   \* schedules given with -P
          IntFreq,           \* -i, the longest time between interrupts
          Loops,             \* %bx for the programs that loop
          Halted

Threads == 0 .. NumThreads - 1
RoundRobin == [k \in 1 .. NumThreads |-> k - 1]

ASSUME X86Assumption ==
    /\ NumThreads \in Nat \ {0}
    /\ Programs \subseteq LockPrograms
    /\ \A s \in ManualSchedules : s \in Seq(Threads) /\ ToSet(s) = Threads
    /\ IntFreq \in Nat \ {0}
    /\ Loops \in Nat \ {0}

VARIABLES prog,
          procsched,   \* the order in which threads get their turns
          curr,        \* the index in procsched of the running thread
          cpu,         \* the context in the CPU
          saved,       \* the context in each process record
          memory,
          finished,    \* the threads that have halted
          interrupt    \* instructions left before the next interrupt

vars == <<prog, procsched, curr, cpu, saved, memory, finished, interrupt>>

(* Stacks are a thousand bytes apart; the programs touch a few words. *)
StackBottom(t) == 128000 - 1000 * t
Addresses ==
    {0, Shared} \cup {DataAddr + 4 * k : k \in 0 .. 4}
        \cup UNION {{StackBottom(t) + 4 * k : k \in -6 .. 2} : t \in Threads}

(* peterson.s wants the thread's number in %bx. *)
InitialContext(p, t) ==
    Context(LoadAddr, [r \in Registers |->
        CASE r = "sp" -> StackBottom(t)
          [] r = "bx" -> IF p = "peterson" THEN t ELSE Loops
          [] OTHER -> 0])

Reload(sched) == IF sched \in ManualSchedules THEN {1} ELSE 1 .. IntFreq

Init ==
    /\ prog \in Programs
    /\ procsched \in ManualSchedules \cup {RoundRobin}
    /\ curr = 1
    /\ saved = [t \in Threads |-> InitialContext(prog, t)]
    /\ cpu = saved[procsched[1]]
    /\ memory = [a \in Addresses |-> 0]
    /\ finished = {}
    /\ interrupt \in Reload(procsched)

-----------------------------------------------------------------------------
Running == procsched[curr]

Instruction == Code[prog][cpu.pc]
Result == Exec(Instruction, [cpu EXCEPT !.pc = @ + 1], memory)

(* proclist.next: the next index whose thread has not halted. *)
NextTurn(from, halted) ==
    LET len == Len(procsched)
        at(k) == ((from - 1 + k) % len) + 1
        k == CHOOSE k \in 1 .. len :
               /\ procsched[at(k)] \notin halted
               /\ \A j \in 1 .. k - 1 : procsched[at(j)] \in halted
    IN  at(k)

(* process.restore. *)
RestoredFaulty(contexts, t) == [contexts[t] EXCEPT !.cc = cpu.cc]
Restored(contexts, t) == contexts[t]

Execute ==
    /\ finished # Threads
    /\ Instruction.op \notin {"halt", "yield"}
    /\ interrupt > 1
    /\ cpu' = Result.ctx
    /\ memory' = Result.mem
    /\ interrupt' = interrupt - 1
    /\ UNCHANGED <<prog, procsched, curr, saved, finished>>

ExecuteAndSwitch ==
    LET turn == NextTurn(curr, finished) IN
    /\ finished # Threads
    /\ Instruction.op # "halt"
    /\ Instruction.op = "yield" \/ interrupt = 1
    /\ memory' = Result.mem
    /\ saved' = [saved EXCEPT ![Running] = Result.ctx]
    /\ curr' = turn
    /\ cpu' = Restored(saved', procsched[turn])
    /\ interrupt' \in Reload(procsched)
    /\ UNCHANGED <<prog, procsched, finished>>

LastHalt ==
    /\ finished # Threads
    /\ Instruction.op = "halt"
    /\ finished' = finished \cup {Running}
    /\ finished' = Threads
    /\ UNCHANGED <<prog, procsched, curr, cpu, saved, memory, interrupt>>

(* After a halt the loop goes on to its interrupt processing, so that an
   interrupt due now takes the turn from the thread just chosen. *)
Halt ==
    LET halted == finished \cup {Running}
        next == NextTurn(curr, halted)
        turn == IF interrupt = 1 THEN NextTurn(next, halted) ELSE next
    IN
    /\ finished # Threads
    /\ Instruction.op = "halt"
    /\ halted # Threads
    /\ finished' = halted
    /\ curr' = turn
    /\ cpu' = Restored(saved, procsched[turn])
    /\ interrupt' \in IF interrupt = 1 THEN Reload(procsched) ELSE {interrupt - 1}
    /\ UNCHANGED <<prog, procsched, saved, memory>>

Ended == finished = Threads /\ UNCHANGED vars

Next == Execute \/ ExecuteAndSwitch \/ Halt \/ LastHalt \/ Ended

(* The simulator runs until every thread has halted. *)
Spec == Init /\ [][Next]_vars /\ WF_vars(Next)

-----------------------------------------------------------------------------
ContextOf(t) ==
    IF t \in finished THEN Halted ELSE IF t = Running THEN cpu ELSE saved[t]

TypeOK ==
    /\ prog \in Programs
    /\ procsched \in ManualSchedules \cup {RoundRobin}
    /\ curr \in DOMAIN procsched
    /\ finished \subseteq Threads
    /\ finished # Threads => Running \notin finished /\ cpu.pc \in DOMAIN Code[prog]
    /\ \A t \in Threads : saved[t].pc \in DOMAIN Code[prog]
    /\ DOMAIN memory = Addresses
    /\ interrupt \in 1 .. IntFreq

Contexts == [t \in Threads |-> ContextOf(t)]

(* One CPU with saved contexts behaves as a machine with a register file per
   thread: no switch, at an interrupt, a yield or a halt, leaks or loses a
   register, a condition code or a program counter. *)
ThreadMachine == INSTANCE X86Threads WITH
    context <- Contexts,
    halted <- finished

ImplementsThreads == ThreadMachine!Spec

(* The instructions from the first to the last access of count. *)
Accesses == {pc \in DOMAIN Code[prog] :
    LET i == Code[prog][pc]
        count == Resolved(Text[prog], i, Name("count"))
    IN  i.op = "mov" /\ (i.a = count \/ i.b = count)}
InCritical(t) ==
    /\ t \notin finished
    /\ \E lo, hi \in Accesses : lo <= ContextOf(t).pc /\ ContextOf(t).pc <= hi

(* The locks are locks: no two threads are in the critical section, wherever
   the interrupts fall. *)
MutualExclusion ==
    prog \in LockPrograms => \A t, u \in Threads : InCritical(t) /\ InCritical(u) => t = u

Value(x) == memory[VarAddr(Text[prog], x)]

(* What the lock is for: no increment of count is lost. *)
CountExact ==
    prog \in LockPrograms /\ finished = Threads =>
        Value("count") = NumThreads * IF prog = "peterson" THEN 1 ELSE Loops

(* No program spins for ever: the scheduler reaches every thread. *)
Terminates == <>(finished = Threads)

(* The lock the program with calls names is the one it takes: "get addr of
   flag" and "atomic swap of 1 and flag" say its comments. *)
HolderSetsMutex ==
    (\E t \in Threads : InCritical(t)) => Value("mutex") = 1
=============================================================================
