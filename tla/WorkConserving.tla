--------------------------- MODULE WorkConserving ---------------------------
(***************************************************************************)
(* What any sound scheduler of ostep/homework/cpu-sched-mlfq does with the *)
(* jobs, whatever its policy: one job or none runs per tick; the processor *)
(* idles only when no job is ready; a job runs for exactly its run time,   *)
(* never while it waits; every freq ticks of its own it issues an I/O and  *)
(* is ready again exactly ioTime ticks later.                              *)
(***************************************************************************)
EXTENDS Integers

CONSTANTS Jobs, NotWaiting

VARIABLES work,     \* per job: start, run and freq
          ioTime,   \* how long an I/O takes
          clock,
          left,     \* per job: ticks it still needs
          wake      \* per job: when its wait ends, or NotWaiting

vars == <<work, ioTime, clock, left, wake>>

Init ==
    /\ clock = 0
    /\ left = [j \in Jobs |-> work[j].run]
    /\ wake = [j \in Jobs |-> work[j].start]

Awake(j) ==
    /\ wake[j] = clock
    /\ wake' = [wake EXCEPT ![j] = NotWaiting]
    /\ UNCHANGED <<work, ioTime, clock, left>>

Ready == {j \in Jobs : left[j] > 0 /\ wake[j] \in {NotWaiting, clock}}

IssuesIO(j, l) ==
    l > 0 /\ work[j].freq > 0 /\ (work[j].run - l) % work[j].freq = 0

Run(j) ==
    /\ left[j] > 0
    /\ wake[j] = NotWaiting
    /\ clock' = clock + 1
    /\ left' = [left EXCEPT ![j] = @ - 1]
    /\ wake' = [wake EXCEPT ![j] = IF IssuesIO(j, left'[j])
                                   THEN clock' + ioTime ELSE NotWaiting]
    /\ UNCHANGED <<work, ioTime>>

Idle ==
    /\ Ready = {}
    /\ clock' = clock + 1
    /\ UNCHANGED <<work, ioTime, left, wake>>

Next == Idle \/ \E j \in Jobs : Awake(j) \/ Run(j)

Spec == Init /\ [][Next]_vars
=============================================================================
