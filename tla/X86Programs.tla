---------------------------- MODULE X86Programs ----------------------------
(***************************************************************************)
(* The lock programs of ostep/homework/threads-locks, line by line, and    *)
(* the programs of threads-intro.  Every lock program takes a lock, adds   *)
(* one to count, and releases the lock; all but peterson.s do so as often  *)
(* as %bx says.                                                            *)
(*                                                                         *)
(* A definition whose name ends in Faulty is a plausible mistake in the    *)
(* definition that follows it; no specification uses it.                   *)
(***************************************************************************)
EXTENDS X86ISA

LOCAL ax == Reg("ax")
LOCAL bx == Reg("bx")
LOCAL cx == Reg("cx")
LOCAL fx == Reg("fx")
LOCAL sp == Reg("sp")
LOCAL bp == Reg("bp")

(* The critical section all programs share, and the loop at their end. *)
CriticalSection ==
    << Ins("mov", Name("count"), ax),
       Ins("add", Imm(1), ax),
       Ins("mov", ax, Name("count")) >>
LoopEnd ==
    << Ins("sub", Imm(1), bx),
       Ins("test", Imm(0), bx),
       Ins("jgt", Name("top"), NoArg),
       Ins("halt", NoArg, NoArg) >>

(* The mistake is the acquire of flag.s: a load, a test and a store. *)
TestAndSetFaulty ==
    << Var("mutex", 1), Var("count", 1), Label("main"), Label("top"),
       Label("acquire"),
       Ins("mov", Name("mutex"), ax),
       Ins("test", Imm(0), ax),
       Ins("jne", Name("acquire"), NoArg),
       Ins("mov", Imm(1), Name("mutex")) >>
    \o CriticalSection
    \o << Ins("mov", Imm(0), Name("mutex")) >>
    \o LoopEnd
TestAndSet ==
    << Var("mutex", 1), Var("count", 1), Label("main"), Label("top"),
       Label("acquire"),
       Ins("mov", Imm(1), ax),
       Ins("xchg", ax, Name("mutex")),
       Ins("test", Imm(0), ax),
       Ins("jne", Name("acquire"), NoArg) >>
    \o CriticalSection
    \o << Ins("mov", Imm(0), Name("mutex")) >>
    \o LoopEnd

TestAndTestAndSet ==
    << Var("mutex", 1), Var("count", 1), Label("main"), Label("top"),
       Label("acquire"),
       Ins("mov", Name("mutex"), ax),
       Ins("test", Imm(0), ax),
       Ins("jne", Name("acquire"), NoArg),
       Ins("mov", Imm(1), ax),
       Ins("xchg", ax, Name("mutex")),
       Ins("test", Imm(0), ax),
       Ins("jne", Name("acquire"), NoArg) >>
    \o CriticalSection
    \o << Ins("mov", Imm(0), Name("mutex")) >>
    \o LoopEnd

YieldLock ==
    << Var("mutex", 1), Var("count", 1), Label("main"), Label("top"),
       Label("acquire"),
       Ins("mov", Imm(1), ax),
       Ins("xchg", ax, Name("mutex")),
       Ins("test", Imm(0), ax),
       Ins("je", Name("acquire_done"), NoArg),
       Ins("yield", NoArg, NoArg),
       Ins("j", Name("acquire"), NoArg),
       Label("acquire_done") >>
    \o CriticalSection
    \o << Ins("mov", Imm(0), Name("mutex")) >>
    \o LoopEnd

(* The mistake is to reuse %ax for the release. *)
TicketFaulty ==
    << Var("ticket", 1), Var("turn", 1), Var("count", 1), Label("main"),
       Label("top"), Label("acquire"),
       Ins("mov", Imm(1), ax),
       Ins("fetchadd", ax, Name("ticket")),
       Label("tryagain"),
       Ins("mov", Name("turn"), cx),
       Ins("test", cx, ax),
       Ins("jne", Name("tryagain"), NoArg) >>
    \o CriticalSection
    \o << Ins("fetchadd", ax, Name("turn")) >>
    \o LoopEnd
Ticket ==
    << Var("ticket", 1), Var("turn", 1), Var("count", 1), Label("main"),
       Label("top"), Label("acquire"),
       Ins("mov", Imm(1), ax),
       Ins("fetchadd", ax, Name("ticket")),
       Label("tryagain"),
       Ins("mov", Name("turn"), cx),
       Ins("test", cx, ax),
       Ins("jne", Name("tryagain"), NoArg) >>
    \o CriticalSection
    \o << Ins("mov", Imm(1), ax),
          Ins("fetchadd", ax, Name("turn")) >>
    \o LoopEnd

(* The mistake gives the turn away before the flag is raised. *)
PetersonFaulty ==
    << Var("flag", 2), Var("turn", 1), Var("count", 1), Label("main"),
       Ins("lea", Name("flag"), fx),
       Ins("mov", bx, cx),
       Ins("neg", cx, NoArg),
       Ins("add", Imm(1), cx),
       Label("acquire"),
       Ins("mov", cx, Name("turn")),
       Ins("mov", Imm(1), Mem(0, "fx", "bx", 4)),
       Label("spin1"),
       Ins("mov", Mem(0, "fx", "cx", 4), ax),
       Ins("test", Imm(1), ax),
       Ins("jne", Name("fini"), NoArg),
       Label("spin2"),
       Ins("mov", Name("turn"), ax),
       Ins("test", cx, ax),
       Ins("je", Name("spin1"), NoArg),
       Label("fini") >>
    \o CriticalSection
    \o << Label("release"),
          Ins("mov", Imm(0), Mem(0, "fx", "bx", 4)),
          Ins("mov", cx, Name("turn")),
          Ins("halt", NoArg, NoArg) >>
Peterson ==
    << Var("flag", 2), Var("turn", 1), Var("count", 1), Label("main"),
       Ins("lea", Name("flag"), fx),
       Ins("mov", bx, cx),
       Ins("neg", cx, NoArg),
       Ins("add", Imm(1), cx),
       Label("acquire"),
       Ins("mov", Imm(1), Mem(0, "fx", "bx", 4)),
       Ins("mov", cx, Name("turn")),
       Label("spin1"),
       Ins("mov", Mem(0, "fx", "cx", 4), ax),
       Ins("test", Imm(1), ax),
       Ins("jne", Name("fini"), NoArg),
       Label("spin2"),
       Ins("mov", Name("turn"), ax),
       Ins("test", cx, ax),
       Ins("je", Name("spin1"), NoArg),
       Label("fini") >>
    \o CriticalSection
    \o << Label("release"),
          Ins("mov", Imm(0), Mem(0, "fx", "bx", 4)),
          Ins("mov", cx, Name("turn")),
          Ins("halt", NoArg, NoArg) >>

LockWithCallRet ==
    << Var("mutex", 1), Var("count", 1), Label("main"), Label("top"),
       Ins("push", Name("mutex"), NoArg),
       Ins("call", Name("lock"), NoArg),
       Ins("pop", NoArg, NoArg) >>
    \o CriticalSection
    \o << Ins("push", Name("mutex"), NoArg),
          Ins("call", Name("unlock"), NoArg),
          Ins("pop", NoArg, NoArg) >>
    \o LoopEnd
    \o << Label("lock"), Label("acquire"),
          Ins("mov", At(-4, "sp"), ax),
          Ins("mov", Imm(1), cx),
          Ins("xchg", cx, At(0, "ax")),
          Ins("test", Imm(0), cx),
          Ins("jne", Name("acquire"), NoArg),
          Ins("ret", NoArg, NoArg),
          Label("unlock"),
          Ins("mov", At(-4, "sp"), ax),
          Ins("mov", Imm(0), At(0, "ax")),
          Ins("ret", NoArg, NoArg) >>

(* The programs of the introduction share the word at address 2000. *)
LOCAL dx == Reg("dx")
Shared == 2000
LOCAL shared == At(Shared, "zero")

SimpleRace ==
    << Label("main"),
       Ins("mov", At(Shared, "bx"), ax),
       Ins("add", Imm(1), ax),
       Ins("mov", ax, At(Shared, "bx")),
       Ins("halt", NoArg, NoArg) >>

LoopingRaceNoLock ==
    << Label("main"), Label("top"),
       Ins("mov", shared, ax),
       Ins("add", Imm(1), ax),
       Ins("mov", ax, shared) >>
    \o LoopEnd

WaitForMe ==
    << Label("main"),
       Ins("test", Imm(1), ax),
       Ins("je", Name("signaller"), NoArg),
       Label("waiter"),
       Ins("mov", shared, cx),
       Ins("test", Imm(1), cx),
       Ins("jne", Name("waiter"), NoArg),
       Ins("halt", NoArg, NoArg),
       Label("signaller"),
       Ins("mov", Imm(1), shared),
       Ins("halt", NoArg, NoArg) >>

Loop ==
    << Label("main"), Label("top"),
       Ins("sub", Imm(1), dx),
       Ins("test", Imm(0), dx),
       Ins("jgte", Name("top"), NoArg),
       Ins("halt", NoArg, NoArg) >>

LockPrograms == {"test-and-set", "test-and-test-and-set", "yield", "ticket",
                 "peterson", "lock-withcallret"}
IntroPrograms == {"simple-race", "looping-race-nolock", "wait-for-me", "loop"}
ProgramNames == LockPrograms \cup IntroPrograms

Text == [p \in ProgramNames |->
    CASE p = "test-and-set" -> TestAndSet
      [] p = "test-and-test-and-set" -> TestAndTestAndSet
      [] p = "yield" -> YieldLock
      [] p = "ticket" -> Ticket
      [] p = "peterson" -> Peterson
      [] p = "lock-withcallret" -> LockWithCallRet
      [] p = "simple-race" -> SimpleRace
      [] p = "looping-race-nolock" -> LoopingRaceNoLock
      [] p = "wait-for-me" -> WaitForMe
      [] p = "loop" -> Loop]

Code == [p \in ProgramNames |-> Load(Text[p])]
=============================================================================
