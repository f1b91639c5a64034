------------------------------ MODULE ProcessRun ------------------------------
(***************************************************************************)
(* The process-state simulator of ostep/homework/file-devices/             *)
(* process-run.py: processes run instructions one clock tick at a time,    *)
(* wait for their I/Os, and are switched by one of two policies for the    *)
(* issue of an I/O and one of two for its completion.                      *)
(*                                                                         *)
(* The columns it prints and the statistics are left out.  A definition    *)
(* whose name ends in Faulty is a plausible mistake in the definition that *)
(* follows it; no specification uses it.                                   *)
(***************************************************************************)
EXTENDS Integers, Sequences, SequencesExt, FiniteSets, FiniteSetsExt

CONSTANTS Workloads,    \* sequences of programs, as -P describes them
          IoLengths

VARIABLE sched

SwitchBehaviors == {"SWITCH_ON_IO", "SWITCH_ON_END"}
IoDoneBehaviors == {"IO_RUN_LATER", "IO_RUN_IMMEDIATE"}
Pids(s) == DOMAIN s.state

(* c7,i,p: compute for 7 ticks, an I/O, an I/O the CPU itself carries out. *)
load_program(program, io_length) ==
    FlattenSeq([k \in DOMAIN program |->
        CASE program[k].op = "c" -> [j \in 1 .. program[k].n |-> "cpu"]
          [] program[k].op = "i" -> <<"io">>
          [] program[k].op = "p" -> [j \in 1 .. io_length |-> "p_io"]])

(* The ticks after which every process must have ended: those it executes in,
   those its I/Os take and one to notice that it has no instruction left. *)
Deadline(codes, delay) ==
    FoldLeft(LAMBDA sum, code :
                sum + Len(code) + (delay + 1) * Len(SelectSeq(code, LAMBDA i : i = "io")) + 1,
             0, codes)

(* new_process for every program, and run up to its loop. *)
Loaded(codes, switch, io_done, io_length) ==
    LET pids == 0 .. Len(codes) - 1 IN
    [switch          |-> switch,
     io_done         |-> io_done,
     io_length       |-> io_length,
     code            |-> [p \in pids |-> codes[p + 1]],
     state           |-> [p \in pids |-> IF p = 0 THEN "RUNNING" ELSE "READY"],
     io_finish_times |-> [p \in pids |-> {}],
     curr_proc       |-> 0,
     clock_tick      |-> 0,
     deadline        |-> Deadline(codes, io_length),
     asserted        |-> FALSE]

Init ==
    \E w \in Workloads, switch \in SwitchBehaviors, io_done \in IoDoneBehaviors, n \in IoLengths :
        sched = Loaded([k \in DOMAIN w |-> load_program(w[k], n)], switch, io_done, n)

-----------------------------------------------------------------------------
(* move_to_ready, move_to_wait, move_to_running and move_to_done assert the
   state they expect the process to be in. *)
move_to(s, pid, expected, new) ==
    [s EXCEPT !.state[pid] = new,
              !.asserted = @ \/ s.state[pid] # expected]

RunProc(s, pid) ==
    [move_to(s, pid, "READY", "RUNNING") EXCEPT !.curr_proc = pid]

(* The next process that is ready, going round from the current one; if there
   is none the current process stays what it is. *)
next_proc(s) ==
    LET ready == {p \in Pids(s) : s.state[p] = "READY"}
        later == {p \in ready : p > s.curr_proc}
    IN  IF ready = {} THEN s
        ELSE RunProc(s, Min(IF later # {} THEN later ELSE ready))

get_num_active(s) == Cardinality({p \in Pids(s) : s.state[p] # "DONE"})
get_num_runnable(s) == Cardinality({p \in Pids(s) : s.state[p] \in {"READY", "RUNNING"}})

check_if_done(s) ==
    IF s.code[s.curr_proc] = <<>> /\ s.state[s.curr_proc] = "RUNNING"
    THEN next_proc(move_to(s, s.curr_proc, "RUNNING", "DONE"))
    ELSE s

(* The I/O of pid has finished.  Run immediately, its process takes the CPU
   from whoever has it; run later, it only takes a CPU nobody uses. *)
PreemptedFaulty(s, pid) == s
Preempted(s, pid) ==
    IF s.curr_proc # pid /\ s.state[s.curr_proc] = "RUNNING"
    THEN move_to(s, s.curr_proc, "RUNNING", "READY")
    ELSE s

IoDone(s, pid) ==
    LET r == move_to(s, pid, "WAITING", "READY")
        claims == \/ s.switch = "SWITCH_ON_END" /\ get_num_runnable(r) > 1
                  \/ get_num_runnable(r) = 1
    IN  IF s.clock_tick \notin s.io_finish_times[pid] THEN s
        ELSE check_if_done(CASE s.io_done = "IO_RUN_IMMEDIATE" -> RunProc(Preempted(r, pid), pid)
                             [] s.io_done = "IO_RUN_LATER" -> IF claims THEN RunProc(r, pid) ELSE r)

(* The instruction the current process executes in this tick.  An I/O makes it
   wait until delay ticks from now. *)
Execute(s, delay) ==
    LET me == s.curr_proc
        popped == [s EXCEPT !.code[me] = Tail(@)]
        waiting == [move_to(popped, me, "RUNNING", "WAITING") EXCEPT
                        !.io_finish_times[me] = @ \cup {s.clock_tick + delay}]
    IN  CASE s.state[me] # "RUNNING" \/ s.code[me] = <<>> -> s
          [] s.state[me] = "RUNNING" /\ s.code[me] # <<>> /\ Head(s.code[me]) # "io" -> popped
          [] OTHER -> IF s.switch = "SWITCH_ON_IO" THEN next_proc(waiting) ELSE waiting

(* One turn of the loop in run. *)
Turn(s, delay) ==
    LET ticked == [s EXCEPT !.clock_tick = @ + 1]
        served == FoldLeft(IoDone, ticked, [k \in 1 .. Cardinality(Pids(s)) |-> k - 1])
    IN  check_if_done(Execute(served, delay))

(* The model stops at the deadline, the program only when all are done. *)
Running(s) == get_num_active(s) > 0 /\ ~s.asserted /\ s.clock_tick < s.deadline

run == Running(sched) /\ sched' = Turn(sched, sched.io_length)
Ended == ~Running(sched) /\ UNCHANGED sched

Next == run \/ Ended

-----------------------------------------------------------------------------
TypeOK ==
    /\ sched.state \in [Pids(sched) -> {"RUNNING", "READY", "WAITING", "DONE"}]
    /\ sched.curr_proc \in Pids(sched)
    /\ \A p \in Pids(sched) : ToSet(sched.code[p]) \subseteq {"cpu", "io", "io_done", "p_io"}

(* At most the current process runs; a process waits for exactly one I/O that
   is still to finish; a process is done when it has executed everything. *)
StatesAgree(s, delay) ==
    /\ ~s.asserted
    /\ \A p \in Pids(s) :
         /\ s.state[p] = "RUNNING" => p = s.curr_proc
         /\ s.state[p] = "DONE" => s.code[p] = <<>>
         /\ delay > 0 => Cardinality({t \in s.io_finish_times[p] : t > s.clock_tick})
                           = IF s.state[p] = "WAITING" THEN 1 ELSE 0

(* The CPU is never idle while a process is ready, unless the policy keeps it
   for a process that waits. *)
CPUUsed(s) ==
    (\E p \in Pids(s) : s.state[p] = "READY") =>
        \/ s.state[s.curr_proc] = "RUNNING"
        \/ s.switch = "SWITCH_ON_END" /\ s.state[s.curr_proc] = "WAITING"

(* All processes end before the deadline, except that an I/O of no length never
   completes: its time has passed when the loop next looks at the clock. *)
EndsInTime(s, delay) ==
    \/ s.clock_tick < s.deadline
    \/ get_num_active(s) = 0
    \/ delay = 0 /\ \E p \in Pids(s) : s.state[p] = "WAITING"

(* Whatever the policies and wherever I/Os complete, the states of processes
   agree with one CPU and the I/Os in flight, the CPU is used, and all end. *)
Sound(s, delay) == StatesAgree(s, delay) /\ CPUUsed(s) /\ EndsInTime(s, delay)
SchedulesSoundly == Sound(sched, sched.io_length)
=============================================================================
