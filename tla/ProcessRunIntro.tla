--------------------------- MODULE ProcessRunIntro ---------------------------
(***************************************************************************)
(* The process-state simulator of ostep/homework/cpu-intro/process-run.py. *)
(* It has the scheduler of module ProcessRun with two changes: an I/O is   *)
(* followed by an instruction that handles its completion, and it          *)
(* completes one tick later, so that an I/O of length 0 does complete.     *)
(***************************************************************************)
EXTENDS Integers, Sequences, SequencesExt, FiniteSets

CONSTANTS Workloads, IoLengths

VARIABLE sched

(* The methods that the copies share word for word. *)
P == INSTANCE ProcessRun

load_program(program) ==
    FlattenSeq([k \in DOMAIN program |->
        CASE program[k].op = "c" -> [j \in 1 .. program[k].n |-> "cpu"]
          [] program[k].op = "i" -> <<"io", "io_done">>])

Loaded(codes, switch, io_done, io_length) ==
    [P!Loaded(codes, switch, io_done, io_length) EXCEPT
        !.deadline = P!Deadline(codes, io_length + 1)]

(* The programs without the opcode p, which this copy rejects. *)
Accepted == {w \in Workloads : \A k \in DOMAIN w : \A j \in DOMAIN w[k] : w[k][j].op # "p"}

Init ==
    \E w \in Accepted, switch \in P!SwitchBehaviors, io_done \in P!IoDoneBehaviors, n \in IoLengths :
        sched = Loaded([k \in DOMAIN w |-> load_program(w[k])], switch, io_done, n)

get_num_active(s) == P!get_num_active(s)
check_if_done(s) == P!check_if_done(s)
IoDone(s, pid) == P!IoDone(s, pid)
Execute(s) == P!Execute(s, s.io_length + 1)

Turn(s) ==
    LET ticked == [s EXCEPT !.clock_tick = @ + 1]
        served == FoldLeft(IoDone, ticked, [k \in 1 .. Cardinality(P!Pids(s)) |-> k - 1])
    IN  check_if_done(Execute(served))

Running(s) == get_num_active(s) > 0 /\ ~s.asserted /\ s.clock_tick < s.deadline

run == Running(sched) /\ sched' = Turn(sched)
Ended == ~Running(sched) /\ UNCHANGED sched

Next == run \/ Ended

(* The property of module ProcessRun, here for every I/O length. *)
SchedulesSoundly == P!Sound(sched, sched.io_length + 1)
=============================================================================
