-------------------------------- MODULE Multi --------------------------------
(***************************************************************************)
(* The multiprocessor scheduler of ostep/homework/cpu-sched-multi/         *)
(* multi.py: jobs run on CPUs with caches they have to warm, from one      *)
(* queue or from one queue per CPU with job stealing, within an affinity.  *)
(*                                                                         *)
(* Tracing and the statistics are left out.  The field entered is history: *)
(* the code keeps no such record.  A definition whose name ends in Faulty  *)
(* is a plausible mistake in the definition that follows it; no            *)
(* specification uses it.                                                  *)
(***************************************************************************)
EXTENDS Integers, Sequences, SequencesExt, FiniteSets, FiniteSetsExt

CONSTANTS JobLists,     \* sequences of jobs: run_time, working_set_size, affinity
          Machines      \* the other options

VARIABLE sys

Cpus(s) == 0 .. s.opt.num_cpus - 1
Jobs(s) == DOMAIN s.jobs
Idle == 0               \* sched_current of a CPU without a job

Allowed(job, cpu) == job.affinity = {} \/ cpu \in job.affinity

Without(seq, x) == SelectSeq(seq, LAMBDA y : y # x)
Ascending(n) == [k \in 1 .. n |-> k - 1]

(* The queue a CPU uses: its own or, without -p, the central one. *)
Queue(s, cpu) == s.queue[IF s.opt.per_cpu_queues THEN cpu ELSE 0]
WithQueue(s, cpu, q) == [s EXCEPT !.queue[IF s.opt.per_cpu_queues THEN cpu ELSE 0] = q]

(* Jobs go to the per-CPU queues in turn: each CPU takes the first that is not
   assigned yet and may run on it. *)
AssignRound(jobs, given) ==
    LET Take(g, cpu) ==
            LET fits == SelectSeq(g.rest, LAMBDA j : Allowed(jobs[j], cpu)) IN
            IF fits = <<>> THEN g
            ELSE [rest  |-> Without(g.rest, fits[1]),
                  queue |-> [g.queue EXCEPT ![cpu] = Append(@, fits[1])]]
    IN  FoldLeft(Take, given, Ascending(Cardinality(DOMAIN given.queue)))

InitialQueues(jobs, opt) ==
    LET all == [j \in 1 .. Len(jobs) |-> j]
        nothing == [rest |-> all, queue |-> [c \in 0 .. opt.num_cpus - 1 |-> <<>>]]
        rounds == FoldLeft(LAMBDA g, k : AssignRound(jobs, g), nothing, all)
    IN  IF opt.per_cpu_queues THEN rounds.queue ELSE [c \in {0} |-> all]

(* An affinity that names no CPU of the machine is refused. *)
Accepted(jobs, opt) == \A j \in DOMAIN jobs : jobs[j].affinity \subseteq 0 .. opt.num_cpus - 1

Init ==
    \E jobs \in JobLists, opt \in Machines :
        /\ Accepted(jobs, opt)
        /\ sys = [opt           |-> opt,
                  jobs          |-> jobs,
                  time_left     |-> [j \in DOMAIN jobs |-> jobs[j].run_time],
                  queue         |-> InitialQueues(jobs, opt),
                  sched_current |-> [c \in 0 .. opt.num_cpus - 1 |-> Idle],
                  contents      |-> [c \in 0 .. opt.num_cpus - 1 |-> <<>>],
                  warming       |-> [c \in 0 .. opt.num_cpus - 1 |-> <<>>],
                  counter       |-> [c \in 0 .. opt.num_cpus - 1 |-> [j \in DOMAIN jobs |-> 0]],
                  entered       |-> [c \in 0 .. opt.num_cpus - 1 |-> Idle],
                  finished      |-> {},
                  error         |-> FALSE,
                  system_time   |-> 0]

-----------------------------------------------------------------------------
(* The cache of a CPU. *)
total_working_set(s, names) ==
    FoldLeft(LAMBDA sum, j : sum + s.jobs[j].working_set_size, 0, names)

Warming(s, cpu, job) ==
    [s EXCEPT !.warming[cpu] = Append(@, job),
              !.counter[cpu][job] = s.opt.warmup_time]

(* Working sets leave from the end of the list until the rest fits, the last
   one too when it alone is larger than the cache. *)
adjust_size(s, cpu) ==
    LET names == s.contents[cpu]
        fitting == {k \in 0 .. Len(names) :
                      total_working_set(s, SubSeq(names, 1, k)) <= s.opt.cache_size}
        keep == Max(fitting)
        gone == Reverse(SubSeq(names, keep + 1, Len(names)))
    IN  FoldLeft(LAMBDA t, j : Warming(t, cpu, j),
                 [s EXCEPT !.contents[cpu] = SubSeq(@, 1, keep)], gone)

(* A warm job comes first in the list; entered keeps who came last. *)
EnterCache(s, cpu, job) ==
    adjust_size([s EXCEPT !.contents[cpu] = <<job>> \o @, !.entered[cpu] = job], cpu)

new_job(s, cpu, job) ==
    IF job \in ToSet(s.contents[cpu]) \cup ToSet(s.warming[cpu]) THEN s
    ELSE IF s.opt.warmup_time = 0
         THEN EnterCache(s, cpu, job)
         ELSE Warming(s, cpu, job)

get_rate(s, cpu, job) == IF job \in ToSet(s.contents[cpu]) THEN s.opt.warm_rate ELSE 1

update_warming(s, cpu, job) ==
    LET counted == [s EXCEPT !.counter[cpu][job] = @ - 1] IN
    IF job \notin ToSet(s.warming[cpu]) THEN s
    ELSE IF counted.counter[cpu][job] > 0 THEN counted
         ELSE EnterCache([counted EXCEPT !.warming[cpu] = Without(@, job)], cpu, job)

-----------------------------------------------------------------------------
(* At the end of a time slice every running job goes back to a queue. *)
handle_one_interrupt(s, cpu) ==
    LET job == s.sched_current[cpu] IN
    IF job = Idle THEN s
    ELSE WithQueue([s EXCEPT !.sched_current[cpu] = Idle], cpu, Append(Queue(s, cpu), job))

handle_interrupts(s) ==
    IF s.system_time > 0 /\ s.system_time % s.opt.time_slice = 0
    THEN FoldLeft(handle_one_interrupt, s, Ascending(s.opt.num_cpus))
    ELSE s

(* The first job of the queue that may run here. *)
get_jobFaulty(s, cpu) ==
    LET q == Queue(s, cpu) IN
    IF s.sched_current[cpu] # Idle \/ q = <<>> THEN s
    ELSE new_job(WithQueue([s EXCEPT !.sched_current[cpu] = q[1]], cpu, Tail(q)), cpu, q[1])
get_job(s, cpu) ==
    LET q == Queue(s, cpu)
        fits == SelectSeq(q, LAMBDA j : Allowed(s.jobs[j], cpu))
    IN  IF s.sched_current[cpu] # Idle \/ fits = <<>> THEN s
        ELSE new_job(WithQueue([s EXCEPT !.sched_current[cpu] = fits[1]],
                               cpu, Without(q, fits[1])), cpu, fits[1])

(* With -o the CPUs are served in a random order. *)
Orders(s) ==
    IF s.opt.random_order THEN SetToAllKPermutations(Cpus(s)) \cap [1 .. s.opt.num_cpus -> Cpus(s)]
    ELSE {Ascending(s.opt.num_cpus)}

assign_jobs(s) == {FoldLeft(get_job, s, order) : order \in Orders(s)}

(* The test of steal_jobs: "cpu in self.jobs[job_name]" looks for the number of
   the CPU among the fields of the job, where it can only equal the run time
   or the working set size. *)
MaySteal(job, cpu) ==
    job.affinity = {} \/ cpu = job.run_time \/ cpu = job.working_set_size

(* A CPU with an empty queue takes a job from the queue of one other CPU,
   chosen at random; where there is no other CPU the choice raises an error. *)
StealFrom(s, cpu, other) ==
    LET takes == SelectSeq(s.queue[other], LAMBDA j : MaySteal(s.jobs[j], cpu)) IN
    IF s.queue[cpu] # <<>> \/ takes = <<>> THEN s
    ELSE [s EXCEPT !.queue[other] = Without(@, takes[1]),
                   !.queue[cpu] = Append(@, takes[1])]

StealTime(s) ==
    /\ s.opt.per_cpu_queues
    /\ s.opt.peek_interval > 0
    /\ s.system_time > 0
    /\ s.system_time % s.opt.peek_interval = 0

NoOther(s) == StealTime(s) /\ s.opt.num_cpus = 1 /\ Queue(s, 0) = <<>>

steal_jobs(s) ==
    IF StealTime(s) /\ s.opt.num_cpus > 1
    THEN {FoldLeft(LAMBDA t, c : StealFrom(t, c, choice[c]), s, Ascending(s.opt.num_cpus)) :
            choice \in {f \in [Cpus(s) -> Cpus(s)] : \A c \in Cpus(s) : f[c] # c}}
    ELSE {s}

run_one_tick(s, cpu) ==
    LET job == s.sched_current[cpu]
        left == Max({0, s.time_left[job] - get_rate(s, cpu, job)})
        ran == update_warming([s EXCEPT !.time_left[job] = left], cpu, job)
    IN  IF job = Idle THEN s
        ELSE IF left > 0 THEN ran
             ELSE [ran EXCEPT !.sched_current[cpu] = Idle, !.finished = @ \cup {job}]

run_jobs(s) == FoldLeft(run_one_tick, s, Ascending(s.opt.num_cpus))

(* A job is trapped in the queue of a CPU that may not run it. *)
Trapped(s) == {j \in Jobs(s) : \E c \in Cpus(s) :
                  s.opt.per_cpu_queues /\ j \in ToSet(s.queue[c]) /\ ~Allowed(s.jobs[j], c)}

(* The ticks in which some CPU must run, if no job is ever trapped. *)
Work(s) == MapThenSumSet(LAMBDA j : Max({1, s.jobs[j].run_time}), Jobs(s))

(* The loop of run, up to a bound on the clock: without it the loop need not
   end while a job is trapped. *)
Running(s) == s.finished # Jobs(s) /\ ~s.error /\ s.system_time <= 2 * Work(s)

Tick ==
    /\ Running(sys)
    /\ ~NoOther(handle_interrupts(sys))
    /\ \E stolen \in steal_jobs(handle_interrupts(sys)) : \E assigned \in assign_jobs(stolen) :
         sys' = [run_jobs(assigned) EXCEPT !.system_time = @ + 1]

ChoiceError ==
    /\ Running(sys)
    /\ NoOther(handle_interrupts(sys))
    /\ sys' = [handle_interrupts(sys) EXCEPT !.error = TRUE]

Ended == ~Running(sys) /\ UNCHANGED sys

Next == Tick \/ ChoiceError \/ Ended

-----------------------------------------------------------------------------
TypeOK ==
    /\ sys.sched_current \in [Cpus(sys) -> Jobs(sys) \cup {Idle}]
    /\ \A q \in Range(sys.queue) : ToSet(q) \subseteq Jobs(sys)
    /\ \A c \in Cpus(sys) : ToSet(sys.contents[c]) \cup ToSet(sys.warming[c]) \subseteq Jobs(sys)

(* Where an unfinished job is: in a place of a queue or on a CPU. *)
Places(s, j) ==
    {<<c, k>> \in (DOMAIN s.queue) \X (1 .. Len(s.jobs)) : k <= Len(s.queue[c]) /\ s.queue[c][k] = j}
        \cup {<<c, 0>> : c \in {c \in Cpus(s) : s.sched_current[c] = j}}

(* Interrupts, stealing and assignment neither lose nor duplicate a job, and no
   job runs on a CPU outside its affinity. *)
JobsConserved(s) ==
    \A j \in Jobs(s) :
        /\ Cardinality(Places(s, j)) = IF j \in s.finished THEN 0 ELSE 1
        /\ \A c \in Cpus(s) : s.sched_current[c] = j => Allowed(s.jobs[j], c)

(* A job is trapped only by the test in steal_jobs: when a CPU outside its
   affinity has the number that is its run time or its working set size. *)
StolenByNumber(s) ==
    \A j \in Trapped(s) : \E c \in Cpus(s) : MaySteal(s.jobs[j], c) /\ ~Allowed(s.jobs[j], c)

(* Some CPU runs in every tick until all jobs are finished, unless all that are
   left are trapped: the simulation ends. *)
EndsUnlessTrapped(s) ==
    s.system_time > Work(s) => s.finished = Jobs(s) \/ Trapped(s) # {}

(* The schedule is complete, within the affinities, and ends. *)
JobsPlaced == JobsConserved(sys) /\ StolenByNumber(sys) /\ EndsUnlessTrapped(sys)

Oversize(s, j) == s.jobs[j].working_set_size > s.opt.cache_size

(* What the comment at multi.py:53-58 says of cache_contents, with the
   exceptions the code makes.  The working sets in it fit together, and the
   job that got warm last is the first of them.

   The comment has the list never empty, and lets it hold one job "whose
   working set may indeed be too big".  adjust_size (:87-97) does neither: a
   working set larger than the cache drives out all others and then itself,
   so that the list is empty when such a job was the last to get warm, and
   also before the first one is.

   No job is listed twice, in the cache or among those that warm it. *)
CachesFit ==
    \A c \in Cpus(sys) :
        /\ total_working_set(sys, sys.contents[c]) <= sys.opt.cache_size
        /\ IF sys.entered[c] = Idle \/ Oversize(sys, sys.entered[c])
           THEN sys.contents[c] = <<>>
           ELSE sys.contents[c] # <<>> /\ sys.contents[c][1] = sys.entered[c]
        /\ IsInjective(sys.contents[c] \o sys.warming[c])
=============================================================================
