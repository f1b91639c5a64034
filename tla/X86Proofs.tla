----------------------------- MODULE X86Proofs ------------------------------
(***************************************************************************)
(* Proofs about the multithreaded machine of x86.py.  The scheduler gives  *)
(* the turn to a thread that has not halted, and one CPU with saved        *)
(* contexts implements a machine with a register file per thread, whatever *)
(* the programs and whatever an instruction does to context and memory.    *)
(***************************************************************************)
EXTENDS X86, SequenceTheorems, FiniteSetTheorems, WellFoundedInduction, TLAPS

-----------------------------------------------------------------------------
(* Schedules.                                                              *)

IsSchedule(s) ==
    /\ s \in Seq(Threads)
    /\ s # <<>>
    /\ \A t \in Threads : \E k \in DOMAIN s : s[k] = t

(* Every schedule the machine starts with gives every thread a turn. *)
LEMMA SchedulesFair ==
    ASSUME NEW s \in ManualSchedules \cup {RoundRobin}
    PROVE  IsSchedule(s)
<1>0. 0 \in Threads
  BY X86Assumption DEF Threads
<1>1. CASE s \in ManualSchedules
  <2>1. s \in Seq(Threads) /\ ToSet(s) = Threads
    BY <1>1, X86Assumption
  <2>2. \A t \in Threads : \E k \in DOMAIN s : s[k] = t
    BY <2>1 DEF ToSet
  <2> QED
    BY <1>0, <2>1, <2>2 DEF IsSchedule
<1>2. CASE s = RoundRobin
  <2>1. /\ s \in [1 .. NumThreads -> Threads]
        /\ \A k \in 1 .. NumThreads : s[k] = k - 1
    BY <1>2, X86Assumption DEF RoundRobin, Threads
  <2>2. s \in Seq(Threads)
    BY <2>1, X86Assumption, SeqDef
  <2>3. \A t \in Threads : t + 1 \in 1 .. NumThreads /\ (t + 1) - 1 = t
    BY X86Assumption DEF Threads
  <2>4. \A t \in Threads : \E k \in DOMAIN s : s[k] = t
    BY <2>1, <2>3
  <2> QED
    BY <1>0, <2>2, <2>4 DEF IsSchedule
<1> QED
  BY <1>1, <1>2

LEMMA LeastNumber ==
    ASSUME NEW S \in SUBSET Nat, S # {}
    PROVE  \E x \in S : \A y \in S : x <= y
<1>1. PICK x \in S : \A y \in S : ~(<<y, x>> \in OpToRel(<, Nat))
  BY NatLessThanWellFounded, WFMin
<1>2. ASSUME NEW y \in S PROVE x <= y
  <2>1. x \in Nat /\ y \in Nat
    OBVIOUS
  <2>2. ~(y < x)
    BY <1>1, <2>1, Zenon DEF OpToRel
  <2> QED
    BY <2>1, <2>2
<1> QED
  BY <1>2

LEMMA WrapAround ==
    ASSUME NEW n \in Nat \ {0}, NEW a \in 0 .. n - 1
    PROVE  a % n = a /\ (a + n) % n = a
  OBVIOUS

(* proclist.next: from any index the turn comes to a thread that has not
   halted, as long as there is one. *)
LEMMA NextTurnRuns ==
    ASSUME IsSchedule(procsched), NEW from \in DOMAIN procsched,
           NEW halted \in SUBSET Threads, halted # Threads
    PROVE  /\ NextTurn(from, halted) \in DOMAIN procsched
           /\ procsched[NextTurn(from, halted)] \in Threads \ halted
<1> DEFINE n == Len(procsched)
           at(k) == ((from - 1 + k) % n) + 1
           Good == {k \in 1 .. n : procsched[at(k)] \notin halted}
           First(k) == /\ procsched[at(k)] \notin halted
                       /\ \A j \in 1 .. k - 1 : procsched[at(j)] \in halted
<1>1. /\ n \in Nat \ {0} /\ DOMAIN procsched = 1 .. n /\ from \in 1 .. n
      /\ \A k \in 1 .. n : procsched[k] \in Threads
  BY LenProperties, ElementOfSeq, EmptySeq DEF IsSchedule
<1>2. PICK i \in 1 .. n : procsched[i] \notin halted
  BY <1>1 DEF IsSchedule
<1> HIDE DEF n
<1>3. \A k \in 1 .. n : at(k) \in 1 .. n
  BY <1>1
<1>4. Good # {}
  <2>1. i - 1 \in 0 .. n - 1 /\ (i - 1) % n = i - 1 /\ ((i - 1) + n) % n = i - 1
    BY <1>1, WrapAround
  <2>2. PICK x \in 1 .. n : from - 1 + x = i - 1 \/ from - 1 + x = (i - 1) + n
    <3>1. CASE i > from
      <4>1. i - from \in 1 .. n /\ from - 1 + (i - from) = i - 1
        BY <1>1, <3>1
      <4> QED
        BY <4>1
    <3>2. CASE ~(i > from)
      <4>1. i - from + n \in 1 .. n /\ from - 1 + (i - from + n) = (i - 1) + n
        BY <1>1, <3>2
      <4> QED
        BY <4>1
    <3> QED
      BY <3>1, <3>2
  <2>3. at(x) = i
    <3>1. (from - 1 + x) % n = i - 1
      BY <2>1, <2>2
    <3> QED
      BY <1>1, <3>1
  <2> QED
    BY <1>2, <2>2, <2>3
<1>5. PICK k \in Good : \A l \in Good : k <= l
  <2>1. Good \in SUBSET Nat
    BY <1>1
  <2> HIDE DEF Good
  <2> QED
    BY <1>4, <2>1, LeastNumber
<1>6. k \in 1 .. n /\ First(k)
  BY <1>1, <1>5
<1> DEFINE c == CHOOSE x \in 1 .. n : First(x)
<1>7. c \in 1 .. n /\ First(c)
  BY <1>6
<1>8. NextTurn(from, halted) = at(c)
  BY DEF NextTurn, n
<1> QED
  BY <1>1, <1>3, <1>7, <1>8

-----------------------------------------------------------------------------
(* The turn.                                                               *)

(* The thread in the CPU has not halted, until all have. *)
TurnIsLive == finished # Threads => Running \in Threads \ finished

SchedInv ==
    /\ IsSchedule(procsched)
    /\ curr \in DOMAIN procsched
    /\ finished \subseteq Threads
    /\ TurnIsLive
    /\ saved = [t \in Threads |-> saved[t]]

LEMMA SchedInit == Init => SchedInv
<1> SUFFICES ASSUME Init PROVE SchedInv
  OBVIOUS
<1>1. IsSchedule(procsched)
  BY SchedulesFair DEF Init
<1>2. curr \in DOMAIN procsched /\ Running \in Threads
  <2>1. Len(procsched) \in Nat \ {0} /\ DOMAIN procsched = 1 .. Len(procsched)
    BY <1>1, LenProperties, EmptySeq DEF IsSchedule
  <2>2. curr \in 1 .. Len(procsched)
    BY <2>1 DEF Init
  <2> QED
    BY <1>1, <2>1, <2>2, ElementOfSeq DEF IsSchedule, Running
<1> QED
  BY <1>1, <1>2 DEF SchedInv, TurnIsLive, Init

LEMMA SchedNext == SchedInv /\ [Next]_vars => SchedInv'
<1> SUFFICES ASSUME SchedInv, [Next]_vars PROVE SchedInv'
  OBVIOUS
<1> USE DEF SchedInv, TurnIsLive
<1>1. CASE Execute
  BY <1>1 DEF Execute, Running
<1>2. CASE ExecuteAndSwitch
  <2>1. curr' = NextTurn(curr, finished) /\ finished # Threads
    BY <1>2 DEF ExecuteAndSwitch
  <2>2. curr' \in DOMAIN procsched /\ procsched[curr'] \in Threads \ finished
    BY <2>1, NextTurnRuns
  <2>3. procsched' = procsched /\ finished' = finished
    BY <1>2 DEF ExecuteAndSwitch
  <2>4. saved' = [t \in Threads |-> saved'[t]]
    BY <1>2 DEF ExecuteAndSwitch
  <2> QED
    BY <2>2, <2>3, <2>4 DEF Running
<1>3. CASE Halt
  <2> DEFINE halted == finished \cup {Running}
             next == NextTurn(curr, halted)
  <2>1. /\ halted # Threads /\ finished' = halted
        /\ curr' = IF interrupt = 1 THEN NextTurn(next, halted) ELSE next
        /\ procsched' = procsched /\ saved' = saved /\ finished # Threads
    BY <1>3 DEF Halt
  <2>2. halted \in SUBSET Threads
    BY <2>1
  <2> HIDE DEF halted
  <2>3. next \in DOMAIN procsched /\ procsched[next] \in Threads \ halted
    BY <2>1, <2>2, NextTurnRuns
  <2> HIDE DEF next
  <2>4. /\ NextTurn(next, halted) \in DOMAIN procsched
        /\ procsched[NextTurn(next, halted)] \in Threads \ halted
    BY <2>1, <2>2, <2>3, NextTurnRuns
  <2>5. curr' \in DOMAIN procsched /\ procsched[curr'] \in Threads \ halted
    BY <2>1, <2>3, <2>4
  <2> QED
    BY <2>1, <2>2, <2>5 DEF Running
<1>4. CASE LastHalt
  BY <1>4 DEF LastHalt
<1>5. CASE Ended \/ UNCHANGED vars
  BY <1>5 DEF Ended, vars, Running
<1> QED
  BY <1>1, <1>2, <1>3, <1>4, <1>5 DEF Next

(* proclist.next never gives the CPU back to a halted thread, also after a
   halt that coincides with an interrupt and switches twice. *)
THEOREM OnlyLiveThreadsRun == Spec => []TurnIsLive
<1>1. SchedInv => TurnIsLive
  BY DEF SchedInv
<1> QED
  BY <1>1, SchedInit, SchedNext, PTL DEF Spec

-----------------------------------------------------------------------------
(* One CPU implements a machine with a register file per thread.           *)

LEMMA MachineInit == Init => ThreadMachine!Init
<1> SUFFICES ASSUME Init PROVE ThreadMachine!Init
  OBVIOUS
<1>1. \A a \in DOMAIN memory : memory[a] = 0
  BY DEF Init
<1>2. finished = {} /\ cpu = saved[Running]
  BY DEF Init, Running
<1>3. ASSUME NEW t \in Threads
      PROVE  Contexts[t].pc = LoadAddr /\ Contexts[t].cc = "unset"
  <2>1. Contexts[t] = saved[t]
    BY <1>2 DEF Contexts, ContextOf
  <2>2. saved[t] = InitialContext(prog, t)
    BY DEF Init
  <2>3. InitialContext(prog, t).pc = LoadAddr /\ InitialContext(prog, t).cc = "unset"
    BY DEF InitialContext, Context
  <2> QED
    BY <2>1, <2>2, <2>3
<1> QED
  BY <1>1, <1>2, <1>3 DEF ThreadMachine!Init

LEMMA MachineNext ==
    SchedInv /\ SchedInv' /\ [Next]_vars => [ThreadMachine!Next]_(ThreadMachine!vars)
<1> SUFFICES ASSUME SchedInv, SchedInv', [Next]_vars
             PROVE  [ThreadMachine!Next]_(ThreadMachine!vars)
  OBVIOUS
<1> DEFINE r == Running
<1>0. ASSUME finished # Threads
      PROVE  r \in Threads /\ r \notin finished /\ Contexts[r] = cpu
  BY <1>0 DEF SchedInv, TurnIsLive, Contexts, ContextOf
<1>1. Contexts = [t \in Threads |-> Contexts[t]] /\ Contexts' = [t \in Threads |-> Contexts'[t]]
  BY DEF Contexts
<1>2. \A t \in Threads : Contexts'[t] =
         IF t \in finished' THEN Halted ELSE IF t = Running' THEN cpu' ELSE saved'[t]
  BY DEF Contexts, ContextOf
<1>3. \A t \in Threads \ {r} : Contexts[t] = IF t \in finished THEN Halted ELSE saved[t]
  BY DEF Contexts, ContextOf
<1>4. CASE Execute
  <2>1. /\ finished # Threads /\ Instruction.op # "halt"
        /\ cpu' = Result.ctx /\ memory' = Result.mem
        /\ UNCHANGED <<prog, procsched, curr, saved, finished>>
    BY <1>4 DEF Execute
  <2>2. r \in Threads /\ r \notin finished /\ Contexts[r] = cpu
    BY <1>0, <2>1
  <2>3. Running' = r
    BY <2>1 DEF Running
  <2> HIDE DEF r
  <2>4. Contexts'[r] = Result.ctx /\ \A t \in Threads \ {r} : Contexts'[t] = Contexts[t]
    BY <1>2, <1>3, <2>1, <2>2, <2>3
  <2>5. Contexts' = [Contexts EXCEPT ![r] = Result.ctx]
    BY <1>1, <2>2, <2>4
  <2>6. ThreadMachine!Step(r)
    BY <2>1, <2>2, <2>5 DEF ThreadMachine!Step, ThreadMachine!Fetched, Instruction, Result
  <2> QED
    BY <2>2, <2>6 DEF ThreadMachine!Next
<1>5. CASE ExecuteAndSwitch
  <2>1. /\ finished # Threads /\ Instruction.op # "halt"
        /\ memory' = Result.mem
        /\ saved' = [saved EXCEPT ![r] = Result.ctx]
        /\ cpu' = saved'[Running']
        /\ UNCHANGED <<prog, procsched, finished>>
    BY <1>5 DEF ExecuteAndSwitch, Restored, Running
  <2>2. r \in Threads /\ r \notin finished /\ Contexts[r] = cpu
    BY <1>0, <2>1
  <2> HIDE DEF r
  <2>3. saved'[r] = Result.ctx /\ \A t \in Threads \ {r} : saved'[t] = saved[t]
    BY <2>1, <2>2 DEF SchedInv
  <2>4. \A t \in Threads : Contexts'[t] = IF t \in finished THEN Halted ELSE saved'[t]
    BY <1>2, <2>1
  <2>5. Contexts'[r] = Result.ctx /\ \A t \in Threads \ {r} : Contexts'[t] = Contexts[t]
    BY <1>3, <2>2, <2>3, <2>4
  <2>6. Contexts' = [Contexts EXCEPT ![r] = Result.ctx]
    BY <1>1, <2>2, <2>5
  <2>7. ThreadMachine!Step(r)
    BY <2>1, <2>2, <2>6 DEF ThreadMachine!Step, ThreadMachine!Fetched, Instruction, Result
  <2> QED
    BY <2>2, <2>7 DEF ThreadMachine!Next
<1>6. CASE Halt \/ LastHalt
  <2>1. /\ finished # Threads /\ Instruction.op = "halt"
        /\ finished' = finished \cup {r}
        /\ UNCHANGED <<prog, procsched, saved, memory>>
    BY <1>6 DEF Halt, LastHalt
  <2>2. r \in Threads /\ r \notin finished /\ Contexts[r] = cpu
    BY <1>0, <2>1
  <2>3. \A t \in Threads : t \notin finished' /\ t = Running' => cpu' = saved[t]
    <3>1. CASE Halt
      BY <3>1 DEF Halt, Restored, Running
    <3>2. CASE LastHalt
      BY <3>2 DEF LastHalt
    <3> QED
      BY <1>6, <3>1, <3>2
  <2> HIDE DEF r
  <2>4. \A t \in Threads : Contexts'[t] = IF t \in finished' THEN Halted ELSE saved[t]
    BY <1>2, <2>1, <2>3
  <2>5. Contexts'[r] = Halted /\ \A t \in Threads \ {r} : Contexts'[t] = Contexts[t]
    BY <1>3, <2>1, <2>2, <2>4
  <2>6. Contexts' = [Contexts EXCEPT ![r] = Halted]
    BY <1>1, <2>2, <2>5
  <2>7. ThreadMachine!Halt(r)
    BY <2>1, <2>2, <2>6 DEF ThreadMachine!Halt, ThreadMachine!Fetched, Instruction
  <2> QED
    BY <2>2, <2>7 DEF ThreadMachine!Next
<1>7. CASE Ended \/ UNCHANGED vars
  BY <1>7 DEF Ended, vars, ThreadMachine!vars, Contexts, ContextOf, Running
<1> QED
  BY <1>4, <1>5, <1>6, <1>7 DEF Next

(* No switch, at an interrupt, a yield or a halt, leaks or loses a register, a
   condition code or a program counter: for any number of threads, any
   schedule, any interrupt frequency and any of the programs. *)
THEOREM ContextsKept == Spec => ImplementsThreads
  BY SchedInit, SchedNext, MachineInit, MachineNext, PTL
     DEF Spec, ImplementsThreads, ThreadMachine!Spec

=============================================================================
