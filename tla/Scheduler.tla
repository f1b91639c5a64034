------------------------------ MODULE Scheduler ------------------------------
(***************************************************************************)
(* The single-queue schedulers of ostep/homework/cpu-sched/scheduler.py:   *)
(* first come first served, shortest job first and round robin, with the   *)
(* response, turnaround and wait times it computes.                        *)
(*                                                                         *)
(* All jobs are there from the beginning.  Run times are whole numbers;    *)
(* averages and printing are left out.                                     *)
(***************************************************************************)
EXTENDS Integers, Sequences, SequencesExt, FiniteSets, FiniteSetsExt

CONSTANTS Policies,
          Quanta,
          JobLists      \* lists of run times

VARIABLE sched

NotYet == -1

(* SJF is FIFO after a sort that keeps equal jobs in order. *)
Sorted(joblist) ==
    SortSeq(joblist, LAMBDA j, k : j.runtime < k.runtime \/ (j.runtime = k.runtime /\ j.num < k.num))

Init ==
    \E policy \in Policies, quantum \in Quanta, times \in JobLists :
        LET joblist == [k \in DOMAIN times |-> [num |-> k, runtime |-> times[k]]]
            zero == [k \in DOMAIN times |-> 0]
        IN  sched = [policy     |-> policy,
                     quantum    |-> quantum,
                     times      |-> times,
                     runlist    |-> IF policy = "SJF" THEN Sorted(joblist) ELSE joblist,
                     thetime    |-> 0,
                     lastran    |-> zero,
                     wait       |-> zero,
                     turnaround |-> zero,
                     response   |-> [k \in DOMAIN times |-> NotYet]]

-----------------------------------------------------------------------------
Running == sched.runlist # <<>>
Job == Head(sched.runlist)

RunFIFO ==
    /\ Running
    /\ sched.policy # "RR"
    /\ sched' = [sched EXCEPT !.runlist = Tail(@),
                              !.response[Job.num] = sched.thetime,
                              !.turnaround[Job.num] = sched.thetime + Job.runtime,
                              !.wait[Job.num] = sched.thetime,
                              !.thetime = @ + Job.runtime]

(* A slice of the job at the head of the list. *)
RunRR ==
    LET over == Job.runtime <= sched.quantum
        ranfor == IF over THEN Job.runtime ELSE sched.quantum
        now == sched.thetime + ranfor
    IN
    /\ Running
    /\ sched.policy = "RR"
    /\ sched' = [sched EXCEPT
                   !.runlist = IF over THEN Tail(@)
                               ELSE Append(Tail(@), [Job EXCEPT !.runtime = @ - ranfor]),
                   !.response[Job.num] = IF @ = NotYet THEN sched.thetime ELSE @,
                   !.wait[Job.num] = @ + (sched.thetime - sched.lastran[Job.num]),
                   !.turnaround[Job.num] = IF over THEN now ELSE @,
                   !.thetime = now,
                   !.lastran[Job.num] = now]

Ended == ~Running /\ UNCHANGED sched

Next == RunFIFO \/ RunRR \/ Ended

-----------------------------------------------------------------------------
Jobs == DOMAIN sched.times
Others(j) == Jobs \ {j}

(* Round robin keeps nobody waiting longer than one slice of every other job,
   and starts the jobs in their order. *)
NobodyStarves ==
    sched.policy = "RR" =>
        \A j \in Jobs :
            /\ j \in {job.num : job \in ToSet(sched.runlist)} =>
                 sched.thetime - sched.lastran[j] <= Cardinality(Others(j)) * sched.quantum
            /\ sched.response[j] <= (j - 1) * sched.quantum

(* What job j has to wait for: in round robin what the others get in as many
   slices as it needs itself, those behind it in one slice less. *)
Before(j) ==
    CASE sched.policy = "FIFO" -> MapThenSumSet(LAMBDA i : sched.times[i], 1 .. j - 1)
      [] sched.policy = "SJF" ->
           MapThenSumSet(LAMBDA i : sched.times[i],
                         {i \in Others(j) : sched.times[i] < sched.times[j]
                                              \/ (sched.times[i] = sched.times[j] /\ i < j)})
      [] sched.policy = "RR" ->
           LET slices == Max({1, (sched.times[j] + sched.quantum - 1) \div sched.quantum})
           IN  MapThenSumSet(LAMBDA i : Min({sched.times[i],
                                             (IF i < j THEN slices ELSE slices - 1) * sched.quantum}),
                             Others(j))

(* The statistics are those of the reference above, and no order of the jobs
   makes them wait less in all than SJF does. *)
Waits(order) == MapThenSumSet(LAMBDA k : (Len(order) - k) * sched.times[order[k]], DOMAIN order)
StatisticsRight ==
    ~Running =>
        /\ \A j \in Jobs :
             /\ sched.wait[j] = Before(j)
             /\ sched.turnaround[j] = sched.wait[j] + sched.times[j]
             /\ sched.response[j] \in 0 .. sched.wait[j]
        /\ sched.policy = "SJF" =>
             \A order \in {o \in [Jobs -> Jobs] : IsInjective(o)} :
                 MapThenSumSet(LAMBDA j : sched.wait[j], Jobs) <= Waits(order)

SchedulesSoundly == NobodyStarves /\ StatisticsRight
=============================================================================
