-------------------------------- MODULE MLFQ --------------------------------
(***************************************************************************)
(* The multi-level feedback queue simulator,                               *)
(* ostep/homework/cpu-sched-mlfq/mlfq.py.  One turn of its main loop is    *)
(* one tick of the clock: the priority boost, the events due now (jobs     *)
(* beginning and I/Os completing, one step each), then the job at the      *)
(* front of the highest nonempty queue runs for the tick, after which it   *)
(* may have finished, issued an I/O, used up its slice or its allotment.   *)
(*                                                                         *)
(* Options and job list are chosen at the start and never change.          *)
(* Statistics and printing are left out.                                   *)
(*                                                                         *)
(* A definition whose name ends in Faulty is a plausible mistake in the    *)
(* definition that follows it; no specification uses it.                   *)
(***************************************************************************)
EXTENDS Integers, SequencesExt

CONSTANTS NumJobs, NumQueues,
          Quantum, Allotment,   \* per level, 0 the lowest
          Boosts, IOTimes,      \* values considered for -B and -i
          StartTimes, RunTimes, IOFreqs  \* of the jobs (-l)

Jobs == 0 .. NumJobs - 1
Levels == 0 .. NumQueues - 1
HiQueue == NumQueues - 1

(* An allotment of 0 in the lowest queue never runs out. *)
ASSUME MLFQAssumption ==
    /\ NumJobs \in Nat \ {0}
    /\ NumQueues \in Nat \ {0}
    /\ Quantum \in [Levels -> Nat \ {0}]
    /\ Allotment \in [Levels -> Nat]
    /\ Allotment[HiQueue] # 0
    /\ \A q \in Levels \ {0} : Allotment[q] # 0
    /\ Boosts \subseteq Nat
    /\ IOTimes \subseteq Nat
    /\ StartTimes \subseteq Nat
    /\ RunTimes \subseteq Nat \ {0}
    /\ IOFreqs \subseteq Nat

VARIABLES options, work,
          queue,           \* per level, the sequence of jobs
          currPri, ticksLeft, allotLeft, timeLeft, doingIO,   \* per job
          ioDone,          \* events to come, in the order they were added
          currTime, finishedJobs,
          pc,              \* "boost", "events", "run" or "aborted"
          used             \* ticks a job ran since it came to its level

inputs == <<options, work>>
slices == <<currPri, ticksLeft, allotLeft>>
vars == <<inputs, queue, slices, timeLeft, doingIO, ioDone, currTime,
          finishedJobs, pc, used>>

Event(t, j, type) == [time |-> t, job |-> j, type |-> type]

Init ==
    /\ options \in [boost : Boosts, ioTime : IOTimes, stay : BOOLEAN,
                    iobump : BOOLEAN]
    /\ work \in [Jobs -> [start : StartTimes, run : RunTimes, freq : IOFreqs]]
    /\ queue = [q \in Levels |-> <<>>]
    /\ currPri = [j \in Jobs |-> HiQueue]
    /\ ticksLeft = [j \in Jobs |-> Quantum[HiQueue]]
    /\ allotLeft = [j \in Jobs |-> Allotment[HiQueue]]
    /\ timeLeft = [j \in Jobs |-> work[j].run]
    /\ doingIO = [j \in Jobs |-> FALSE]
    /\ ioDone = [k \in 1 .. NumJobs |-> Event(work[k - 1].start, k - 1, "begins")]
    /\ currTime = 0
    /\ finishedJobs = 0
    /\ pc = "boost"
    /\ used = [j \in Jobs |-> 0]

-----------------------------------------------------------------------------
(* The top of the loop: boost.                                             *)

BoostDue == options.boost > 0 /\ currTime # 0 /\ currTime % options.boost = 0

Lower == {q \in Levels \ {HiQueue} : queue[q] # <<>>}

(* The lower queues, lowest first, are emptied into the highest, a job at a
   time; a job doing I/O is dropped. *)
Sweep ==
    LET q == Min(Lower)
        j == Head(queue[q])
    IN
    /\ pc = "boost"
    /\ finishedJobs < NumJobs
    /\ BoostDue
    /\ Lower # {}
    /\ queue' = [queue EXCEPT ![q] = Tail(@),
                             ![HiQueue] = IF doingIO[j] THEN @ ELSE Append(@, j)]
    /\ UNCHANGED <<inputs, slices, timeLeft, doingIO, ioDone, currTime,
                   finishedJobs, pc, used>>

BoostedPri == [j \in Jobs |-> IF timeLeft[j] > 0 THEN HiQueue ELSE currPri[j]]

(* Then the unfinished jobs get the highest priority. *)
Boost ==
    /\ pc = "boost"
    /\ finishedJobs < NumJobs
    /\ BoostDue
    /\ Lower = {}
    /\ currPri' = BoostedPri
    /\ ticksLeft' = [j \in Jobs |-> IF timeLeft[j] > 0 THEN Allotment[HiQueue]
                                    ELSE ticksLeft[j]]
    /\ used' = [j \in Jobs |-> IF timeLeft[j] > 0 THEN 0 ELSE used[j]]
    /\ pc' = "events"
    /\ UNCHANGED <<inputs, queue, allotLeft, timeLeft, doingIO, ioDone, currTime,
                   finishedJobs>>

NoBoost ==
    /\ pc = "boost"
    /\ finishedJobs < NumJobs
    /\ ~BoostDue
    /\ pc' = "events"
    /\ UNCHANGED <<inputs, queue, slices, timeLeft, doingIO, ioDone, currTime,
                   finishedJobs, used>>

-----------------------------------------------------------------------------
(* Jobs beginning and I/Os completing now.                                 *)

DueFaulty == {k \in DOMAIN ioDone : ioDone[k].time < currTime}
Due == {k \in DOMAIN ioDone : ioDone[k].time = currTime}

ToFront(e) == options.iobump /\ e.type = "io"

HandleEvent ==
    /\ pc = "events"
    /\ Due # {}
    /\ LET e == ioDone[Min(Due)]
           q == currPri[e.job]
       IN /\ queue' = [queue EXCEPT ![q] = IF ToFront(e) THEN <<e.job>> \o @
                                           ELSE Append(@, e.job)]
          /\ doingIO' = [doingIO EXCEPT ![e.job] = FALSE]
          /\ ioDone' = RemoveAt(ioDone, Min(Due))
    /\ UNCHANGED <<inputs, slices, timeLeft, currTime, finishedJobs, pc, used>>

-----------------------------------------------------------------------------
(* Running a job for one tick.                                             *)

Busy == {q \in Levels : queue[q] # <<>>}

FindQueue == Max(Busy)

IdleFaulty ==
    /\ pc = "events"
    /\ Due = {}
    /\ Busy = {}
    /\ pc' = "boost"
    /\ UNCHANGED <<inputs, queue, slices, timeLeft, doingIO, ioDone, currTime,
                   finishedJobs, used>>
Idle ==
    /\ pc = "events"
    /\ Due = {}
    /\ Busy = {}
    /\ currTime' = currTime + 1
    /\ pc' = "boost"
    /\ UNCHANGED <<inputs, queue, slices, timeLeft, doingIO, ioDone,
                   finishedJobs, used>>

CurrJob == Head(queue[FindQueue])

(* Two Aborts guard the choice: the job's priority must be that of its queue
   and the job must have time left to run. *)
Pick ==
    /\ pc = "events"
    /\ Due = {}
    /\ Busy # {}
    /\ pc' = IF currPri[CurrJob] = FindQueue /\ timeLeft[CurrJob] > 0
             THEN "run" ELSE "aborted"
    /\ UNCHANGED <<inputs, queue, slices, timeLeft, doingIO, ioDone, currTime,
                   finishedJobs, used>>

Pop(q) == [queue EXCEPT ![q] = Tail(@)]

SpendTick(j) ==
    /\ currTime' = currTime + 1
    /\ timeLeft' = [timeLeft EXCEPT ![j] = @ - 1]
    /\ pc' = "boost"
    /\ UNCHANGED inputs

Finish ==
    LET j == CurrJob IN
    /\ pc = "run"
    /\ timeLeft[j] = 1
    /\ SpendTick(j)
    /\ ticksLeft' = [ticksLeft EXCEPT ![j] = @ - 1]
    /\ finishedJobs' = finishedJobs + 1
    /\ queue' = Pop(FindQueue)
    /\ UNCHANGED <<currPri, allotLeft, doingIO, ioDone, used>>

IssuesIO(j) ==
    work[j].freq > 0 /\ (work[j].run - (timeLeft[j] - 1)) % work[j].freq = 0

(* -S: an I/O gives the job its slice and its allotment back. *)
Resets(j) == IssuesIO(j) /\ options.stay

SliceOver(j) == ticksLeft[j] = 1

AllotAfterFaulty(j, q) ==
    (IF Resets(j) THEN Allotment[q] ELSE allotLeft[j])
    - (IF SliceOver(j) /\ ~IssuesIO(j) THEN 1 ELSE 0)
AllotAfter(j, q) ==
    (IF Resets(j) THEN Allotment[q] ELSE allotLeft[j])
    - (IF SliceOver(j) THEN 1 ELSE 0)

AllotmentOver(j, q) == SliceOver(j) /\ AllotAfter(j, q) = 0

LevelAfter(j, q) == IF AllotmentOver(j, q) /\ q > 0 THEN q - 1 ELSE q

(* The accounting of a tick that does not finish the job. *)
ChargeTick(j, q) ==
    LET new == LevelAfter(j, q) IN
    /\ currPri' = [currPri EXCEPT ![j] = new]
    /\ ticksLeft' = [ticksLeft EXCEPT ![j] =
                        IF SliceOver(j) \/ Resets(j) THEN Quantum[new] ELSE @ - 1]
    /\ allotLeft' = [allotLeft EXCEPT ![j] =
                        IF AllotmentOver(j, q) THEN Allotment[new]
                        ELSE AllotAfter(j, q)]
    /\ used' = [used EXCEPT ![j] = IF new # q \/ Resets(j) THEN 0 ELSE @ + 1]
    /\ UNCHANGED finishedJobs

StartIOFaulty ==
    LET j == CurrJob IN
    /\ pc = "run"
    /\ timeLeft[j] # 1
    /\ IssuesIO(j)
    /\ SpendTick(j)
    /\ ChargeTick(j, FindQueue)
    /\ doingIO' = [doingIO EXCEPT ![j] = TRUE]
    /\ ioDone' = Append(ioDone, Event(currTime' + options.ioTime, j, "io"))
    /\ UNCHANGED queue
StartIO ==
    LET j == CurrJob IN
    /\ pc = "run"
    /\ timeLeft[j] # 1
    /\ IssuesIO(j)
    /\ SpendTick(j)
    /\ ChargeTick(j, FindQueue)
    /\ queue' = Pop(FindQueue)
    /\ doingIO' = [doingIO EXCEPT ![j] = TRUE]
    /\ ioDone' = Append(ioDone, Event(currTime' + options.ioTime, j, "io"))

(* No I/O: at the end of its slice the job goes to the back of a queue. *)
Tick ==
    LET j == CurrJob IN
    /\ pc = "run"
    /\ timeLeft[j] # 1
    /\ ~IssuesIO(j)
    /\ SpendTick(j)
    /\ ChargeTick(j, FindQueue)
    /\ queue' = IF SliceOver(j)
                THEN [Pop(FindQueue) EXCEPT ![LevelAfter(j, FindQueue)] = Append(@, j)]
                ELSE queue
    /\ UNCHANGED <<doingIO, ioDone>>

(* The loop is over, or Abort ended the program. *)
Ended ==
    /\ pc = "aborted" \/ (pc = "boost" /\ finishedJobs = NumJobs)
    /\ UNCHANGED vars

Next ==
    \/ Sweep
    \/ Boost
    \/ NoBoost
    \/ HandleEvent
    \/ Idle
    \/ Pick
    \/ Finish
    \/ StartIO
    \/ Tick
    \/ Ended

(* The simulator is a loop that does not stop by itself. *)
Spec == Init /\ [][Next]_vars /\ WF_vars(Next)

-----------------------------------------------------------------------------
TypeOK ==
    /\ options \in [boost : Boosts, ioTime : IOTimes, stay : BOOLEAN,
                    iobump : BOOLEAN]
    /\ work \in [Jobs -> [start : StartTimes, run : RunTimes, freq : IOFreqs]]
    /\ queue \in [Levels -> Seq(Jobs)]
    /\ currPri \in [Jobs -> Levels]
    /\ ticksLeft \in [Jobs -> Nat]
    /\ allotLeft \in [Jobs -> Int]
    /\ timeLeft \in [Jobs -> Nat]
    /\ doingIO \in [Jobs -> BOOLEAN]
    /\ ioDone \in Seq([time : Nat, job : Jobs, type : {"begins", "io"}])
    /\ currTime \in Nat
    /\ finishedJobs \in 0 .. NumJobs
    /\ pc \in {"boost", "events", "run", "aborted"}
    /\ used \in [Jobs -> Nat]

Waits(j) == Cardinality({k \in DOMAIN ioDone : ioDone[k].job = j})
Places(j) == UNION {{q} \X {k \in DOMAIN queue[q] : queue[q][k] = j} : q \in Levels}
Sweeping == pc = "boost" /\ BoostDue

(* No job is lost or duplicated, whatever boosts, I/Os and demotions come
   together: an unfinished job is either waiting for exactly one event, or
   exactly once in exactly one queue, the one of its priority (or already the
   highest, while a boost sweeps the queues); a finished job is in none.  The
   two Aborts and the asserts of the loop follow. *)
EachJobInOnePlace ==
    \A j \in Jobs :
        /\ Cardinality(Places(j)) = IF timeLeft[j] > 0 /\ Waits(j) = 0 THEN 1 ELSE 0
        /\ \A p \in Places(j) :
             p[1] = currPri[j] \/ (Sweeping /\ p[1] = HiQueue)
        /\ Waits(j) <= IF timeLeft[j] > 0 THEN 1 ELSE 0
        /\ doingIO[j] => Waits(j) = 1

(* "# of time slices" (mlfq.py, help of -A): a job leaves a level, other than
   the lowest, after at most its allotment of slices there, however it spreads
   them between I/Os, unless -S gives them back. *)
AllotmentBounds ==
    ~options.stay =>
        \A j \in Jobs : timeLeft[j] > 0 /\ currPri[j] > 0 =>
            used[j] < Quantum[currPri[j]] * Allotment[currPri[j]]

(* The same for a scheduler that never boosts: I/O does not let a job keep
   its priority beyond its allotment. *)
NoGaming == options.boost = 0 => AllotmentBounds

(* Every job finishes and the loop ends. *)
Terminates == <>(finishedJobs = NumJobs)

(* When the event a job waits for is due. *)
Wake == [j \in Jobs |->
           IF Waits(j) = 0 THEN -1
           ELSE ioDone[CHOOSE k \in DOMAIN ioDone : ioDone[k].job = j].time]

(* Queues, events, slices and boosts implement a work-conserving schedule. *)
Schedule == INSTANCE WorkConserving WITH
    NotWaiting <- -1,
    ioTime <- options.ioTime,
    clock <- currTime,
    left <- timeLeft,
    wake <- Wake

ImplementsSchedule == Schedule!Spec
=============================================================================
