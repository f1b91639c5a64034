------------------------------- MODULE Lottery -------------------------------
(***************************************************************************)
(* The lottery scheduler of ostep/homework/cpu-sched-lottery/lottery.py: a *)
(* ticket is drawn for every slice, as many times as there are units of    *)
(* work, and the job that holds it runs.                                   *)
(*                                                                         *)
(* Any ticket may be drawn.  Jobs given with -l may have no work or no     *)
(* tickets.                                                                *)
(***************************************************************************)
EXTENDS Integers, Sequences, FiniteSets, FiniteSetsExt

CONSTANTS Quanta,
          JobLists      \* lists of [runtime, tickets]

VARIABLE lottery

Sum(joblist, field) == MapThenSumSet(LAMBDA k : joblist[k][field], DOMAIN joblist)

Init ==
    \E quantum \in Quanta, joblist \in JobLists :
        lottery = [quantum   |-> quantum,
                   given     |-> joblist,
                   joblist   |-> joblist,
                   tickTotal |-> Sum(joblist, "tickets"),
                   draws     |-> Sum(joblist, "runtime"),   \* that are left
                   jobs      |-> Len(joblist),
                   clock     |-> 0,
                   finished  |-> {},
                   phase     |-> "run"]     \* or "ZeroDivisionError"

-----------------------------------------------------------------------------
(* The first job whose tickets, with those of the jobs before it, are more
   than the number drawn. *)
Upto(k) == MapThenSumSet(LAMBDA j : lottery.joblist[j].tickets, 1 .. k)
Winner(ticket) == Min({k \in DOMAIN lottery.joblist : Upto(k) > ticket})

Running == lottery.phase = "run" /\ lottery.draws > 0 /\ lottery.jobs > 0

Run(w) ==
    LET job == lottery.joblist[w]
        wrun == Max({job.runtime - lottery.quantum, 0})
        done == wrun = 0
    IN  lottery' = [lottery EXCEPT
                      !.joblist[w] = [runtime |-> wrun, tickets |-> IF done THEN 0 ELSE job.tickets],
                      !.tickTotal = IF done THEN @ - job.tickets ELSE @,
                      !.jobs = IF done THEN @ - 1 ELSE @,
                      !.finished = IF done THEN @ \cup {w} ELSE @,
                      !.clock = @ + lottery.quantum,
                      !.draws = @ - 1]

Draw(ticket) == Running /\ Run(Winner(ticket))

(* r % tickTotal when only jobs without tickets are left. *)
NoTickets ==
    /\ Running
    /\ lottery.tickTotal = 0
    /\ lottery' = [lottery EXCEPT !.phase = "ZeroDivisionError"]

Ended == ~Running /\ UNCHANGED lottery

Next == (\E ticket \in 0 .. lottery.tickTotal - 1 : Draw(ticket)) \/ NoTickets \/ Ended

-----------------------------------------------------------------------------
Jobs == DOMAIN lottery.given

(* The total is that of the tickets still in the game, so that every draw has
   a winner, and a job that is done never wins again. *)
TicketsAddUp ==
    /\ lottery.tickTotal = Sum(lottery.joblist, "tickets")
    /\ lottery.jobs = Cardinality(Jobs \ lottery.finished)
    /\ \A j \in lottery.finished : lottery.joblist[j] = [runtime |-> 0, tickets |-> 0]

(* The draws suffice for all jobs, unless a job without work used one up, and
   the program breaks only over a job without tickets. *)
EnoughDraws ==
    ~Running =>
        \/ lottery.jobs = 0
        \/ \E j \in Jobs : lottery.given[j].runtime = 0 \/ lottery.given[j].tickets = 0
BreaksOnlyWithoutTickets ==
    lottery.phase = "ZeroDivisionError" =>
        \A j \in Jobs \ lottery.finished : lottery.given[j].tickets = 0

SchedulesSoundly == TicketsAddUp /\ EnoughDraws /\ BreaksOnlyWithoutTickets
=============================================================================
