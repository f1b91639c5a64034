------------------------------- MODULE MCX86 -------------------------------
EXTENDS X86

(* Thread 0 gets two turns for one of thread 1. *)
Manual == {<<0, 0, 1>>}
NoManual == {}

(* The machine of the introduction, which has no schedule but its list. *)
Intro == INSTANCE X86Intro

MCInit == Init \/ (Intro!Init /\ procsched = RoundRobin)
MCNext ==
    \/ prog \in LockPrograms /\ Next
    \/ prog \in IntroPrograms /\ Intro!Next /\ UNCHANGED procsched

(* Both machines run until every thread has halted. *)
MCSpec == MCInit /\ [][MCNext]_vars /\ WF_vars(MCNext)

(* The races of the introduction end within the bounds its module states. *)
RacesBounded == prog \in IntroPrograms => Intro!RaceBounds
=============================================================================
